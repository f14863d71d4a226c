----------------------- MODULE NamedQueryJobs_proofs -----------------------
(* Proofs about NamedQueryJobs, for any nodes, jobs, pool and restarts.    *)
(*                                                                         *)
(* The inductive invariant is TypeOK, Flow, Published, Mapped, Handled and *)
(* Pooled, each proved from the ones before it; the properties of          *)
(* NamedQueryJobs follow from them.                                        *)
EXTENDS NamedQueryJobs, TLAPS

-----------------------------------------------------------------------------
(* The parts of the inductive invariant *)

AtTheEnd == {"check", "publish", "answering", "closing", "done"}

(* What a thread has made of its response object when it is at a step. *)
Flow ==
  \A j \in Jobs :
    /\ pc[j] \in {"idle", "lookup"} => res[j] = "none" /\ handler[j] = "off"
    /\ kind[j] = "preview" =>
         /\ res[j] = "none" /\ handler[j] = "off"
         /\ pc[j] \notin {"execute", "executed", "writing", "finish", "check",
                          "publish"}
    /\ kind[j] # "preview" =>
         /\ pc[j] \in {"preview", "bind"} => res[j] = "starting"
         /\ pc[j] = "execute" => res[j] = "executing"
         /\ pc[j] = "executed" => res[j] = "executed"
         /\ pc[j] = "writing" => res[j] = "writing"
         /\ pc[j] = "finish" => res[j] \in {"executed", "writing"} /\ result[j]
         /\ pc[j] \in AtTheEnd => res[j] = "success"
    /\ res[j] = "success" => result[j]

(* The copies on the stream: in order, true, and not ahead of the job. *)
Published ==
  \A j \in Jobs :
    /\ \A i \in 1..Len(log[j]) :
         /\ log[j][i].status = "success" => log[j][i].result
         /\ Stage[log[j][i].status] <= Stage[res[j]]
    /\ \A i, k \in 1..Len(log[j]) :
         i < k => Stage[log[j][i].status] <= Stage[log[j][k].status]

(* A node's entry is the live object, or the copy it consumed last. *)
Mapped ==
  \A n \in Nodes, j \in Jobs :
    /\ applied[n][j] <= Len(log[j])
    /\ board[n][j] = Live => n = owner[j]
    /\ board[n][j] \notin {Absent, Live} =>
         applied[n][j] > 0 /\ board[n][j] = log[j][applied[n][j]]
    /\ restarts[n] = 0 /\ applied[n][j] > 0 => board[n][j] # Absent

(* What the handler has done when it is at a step, and who published last. *)
Handled ==
  \A j \in Jobs :
    /\ handler[j] \in {"put", "publish", "answer", "done"} => timeout[j]
    /\ restarts[owner[j]] = 0 =>
         /\ handler[j] \in {"publish", "answer", "done"} => board[owner[j]][j] # Absent
         /\ answer[j] = "jobid" => handler[j] = "done"
    /\ pc[j] \in {"answering", "closing", "done"} /\ handler[j] \in {"answer", "done"}
       => log[j] # <<>> /\ log[j][Len(log[j])].status = "success"

(* Who still holds a connection: a thread that knows of it and will close  *)
(* it, or one whose preview() has not returned it.                         *)
Pooled ==
  \A j \in Jobs : conn[j] =>
    IF local[j]
    THEN pc[j] \notin Over /\ (kind[j] = "preview" => pc[j] # "answering")
    ELSE /\ pc[j] \in {"bind", "failing", "unwinding", "threw"}
         /\ res[j] \in {"none", "starting"}

-----------------------------------------------------------------------------
(* What a publication copies is a copy. *)
LEMMA SnapshotIsCopy ==
  ASSUME TypeOK, NEW j \in Jobs
  PROVE  Snapshot(j) \in Copies
  BY DEF TypeOK, Snapshot, Copies

(* A publication keeps the type of the stream. *)
LEMMA PublicationType ==
  ASSUME TypeOK, NEW j \in Jobs, WriteTaskToStream(j)
  PROVE  log' \in [Jobs -> Seq(Copies)]
  BY SnapshotIsCopy DEF TypeOK, WriteTaskToStream

(* No step of the system leaves the types. *)
LEMMA TypeStep ==
  ASSUME TypeOK, [Next]_vars
  PROVE  TypeOK'
<1> USE DEF TypeOK, threadVars, timerVars, boardVars, Goto
<1>1. ASSUME NEW j \in Jobs, Submit(j)
     PROVE  TypeOK'
  BY <1>1 DEF Submit, ThreadPC
<1>2. ASSUME NEW j \in Jobs, LookUp(j)
     PROVE  TypeOK'
  BY <1>2 DEF LookUp, ThreadPC, HandlerPC, Status
<1>3. ASSUME NEW j \in Jobs, LookUpFails(j)
     PROVE  TypeOK'
  BY <1>3 DEF LookUpFails, ThreadPC
<1>4. ASSUME NEW j \in Jobs, PreviewRejects(j)
     PROVE  TypeOK'
  BY <1>4 DEF PreviewRejects, ThreadPC
<1>5. ASSUME NEW j \in Jobs, OpenConnection(j)
     PROVE  TypeOK'
  BY <1>5 DEF OpenConnection, ThreadPC
<1>6. ASSUME NEW j \in Jobs, BindFails(j)
     PROVE  TypeOK'
  BY <1>6 DEF BindFails, ThreadPC
<1>7. ASSUME NEW j \in Jobs, Bind(j)
     PROVE  TypeOK'
  BY <1>7 DEF Bind, ThreadPC, Status
<1>8. ASSUME NEW j \in Jobs, Execute(j)
     PROVE  TypeOK'
  BY <1>8 DEF Execute, ThreadPC, Status
<1>9. ASSUME NEW j \in Jobs, ExecuteFails(j)
     PROVE  TypeOK'
  BY <1>9 DEF ExecuteFails, ThreadPC
<1>10. ASSUME NEW j \in Jobs, TakeResult(j)
     PROVE  TypeOK'
  BY <1>10 DEF TakeResult, ThreadPC, Status
<1>11. ASSUME NEW j \in Jobs, WriteResult(j)
     PROVE  TypeOK'
  BY <1>11 DEF WriteResult, ThreadPC
<1>12. ASSUME NEW j \in Jobs, Finish(j)
     PROVE  TypeOK'
  BY <1>12 DEF Finish, ThreadPC, Status
<1>13. ASSUME NEW j \in Jobs, CheckTimeout(j)
     PROVE  TypeOK'
  BY <1>13 DEF CheckTimeout, ThreadPC
<1>14. ASSUME NEW j \in Jobs, Publish(j)
     PROVE  TypeOK'
  BY <1>14, PublicationType DEF Publish, ThreadPC
<1>15. ASSUME NEW j \in Jobs, PublishFails(j)
     PROVE  TypeOK'
  BY <1>15 DEF PublishFails, ThreadPC
<1>16. ASSUME NEW j \in Jobs, AnswerResult(j)
     PROVE  TypeOK'
  BY <1>16 DEF AnswerResult, Resume, Answers, ThreadPC
<1>17. ASSUME NEW j \in Jobs, AnswerFailure(j)
     PROVE  TypeOK'
  BY <1>17 DEF AnswerFailure, Resume, Answers, ThreadPC
<1>18. ASSUME NEW j \in Jobs, Close(j)
     PROVE  TypeOK'
  BY <1>18 DEF Close, ThreadPC
<1>19. ASSUME NEW j \in Jobs, TimerFires(j)
     PROVE  TypeOK'
  BY <1>19 DEF TimerFires, HandlerPC
<1>20. ASSUME NEW j \in Jobs, HandlerPut(j)
     PROVE  TypeOK'
  BY <1>20 DEF HandlerPut, Live, HandlerPC
<1>21. ASSUME NEW j \in Jobs, HandlerPublish(j)
     PROVE  TypeOK'
  BY <1>21, PublicationType DEF HandlerPublish, HandlerPC
<1>22. ASSUME NEW j \in Jobs, HandlerBreaks(j)
     PROVE  TypeOK'
  BY <1>22 DEF HandlerBreaks, Resume, Answers, HandlerPC
<1>23. ASSUME NEW j \in Jobs, HandlerAnswer(j)
     PROVE  TypeOK'
  BY <1>23 DEF HandlerAnswer, Resume, Answers, HandlerPC
<1>24. ASSUME NEW n \in Nodes, NEW j \in Jobs, Consume(n, j)
     PROVE  TypeOK'
  BY <1>24 DEF Consume
<1>25. ASSUME NEW n \in Nodes, Restart(n)
     PROVE  TypeOK'
  BY <1>25 DEF Restart, ThreadPC, HandlerPC, Answers, Absent
<1>26. CASE UNCHANGED vars
  BY <1>26 DEF vars
<1>27. QED
  BY <1>1, <1>2, <1>3, <1>4, <1>5, <1>6, <1>7, <1>8, <1>9, <1>10, <1>11,
     <1>12, <1>13, <1>14, <1>15, <1>16, <1>17, <1>18, <1>19, <1>20, <1>21,
     <1>22, <1>23, <1>24, <1>25, <1>26 DEF Next, ThreadStep, HandlerStep

(* Every variable keeps its type: what the code assigns is a status, a     *)
(* program counter or a copy it knows of.                                  *)
THEOREM TypeCorrect == Spec => []TypeOK
<1>1. Init => TypeOK
  BY DEF Init, TypeOK, Kinds, Status, ThreadPC, HandlerPC, Answers, Copies, Absent
<1>2. TypeOK /\ [Next]_vars => TypeOK'
  BY TypeStep
<1>3. QED
  BY <1>1, <1>2, PTL DEF Spec

(* The response object follows the thread: it says "success" only when the *)
(* result is set, and at every step it says what was done last.            *)
THEOREM FlowCorrect == Spec => []Flow
<1>1. Init => Flow
  BY DEF Init, Flow, AtTheEnd
<1>2. TypeOK /\ Flow /\ [Next]_vars => Flow'
  <2> SUFFICES ASSUME TypeOK, Flow, [Next]_vars
               PROVE  Flow'
    OBVIOUS
  <2> USE DEF TypeOK, Flow, AtTheEnd, threadVars, timerVars, boardVars, Goto
  <2>1. ASSUME NEW j \in Jobs, Submit(j)
       PROVE  Flow'
    BY <2>1 DEF Submit
  <2>2. ASSUME NEW j \in Jobs, LookUp(j)
       PROVE  Flow'
    BY <2>2 DEF LookUp
  <2>3. ASSUME NEW j \in Jobs, LookUpFails(j)
       PROVE  Flow'
    BY <2>3 DEF LookUpFails
  <2>4. ASSUME NEW j \in Jobs, PreviewRejects(j)
       PROVE  Flow'
    BY <2>4 DEF PreviewRejects
  <2>5. ASSUME NEW j \in Jobs, OpenConnection(j)
       PROVE  Flow'
    BY <2>5 DEF OpenConnection
  <2>6. ASSUME NEW j \in Jobs, BindFails(j)
       PROVE  Flow'
    BY <2>6 DEF BindFails
  <2>7. ASSUME NEW j \in Jobs, Bind(j)
       PROVE  Flow'
    BY <2>7 DEF Bind
  <2>8. ASSUME NEW j \in Jobs, Execute(j)
       PROVE  Flow'
    BY <2>8 DEF Execute
  <2>9. ASSUME NEW j \in Jobs, ExecuteFails(j)
       PROVE  Flow'
    BY <2>9 DEF ExecuteFails
  <2>10. ASSUME NEW j \in Jobs, TakeResult(j)
       PROVE  Flow'
    BY <2>10 DEF TakeResult
  <2>11. ASSUME NEW j \in Jobs, WriteResult(j)
       PROVE  Flow'
    BY <2>11 DEF WriteResult
  <2>12. ASSUME NEW j \in Jobs, Finish(j)
       PROVE  Flow'
    BY <2>12 DEF Finish
  <2>13. ASSUME NEW j \in Jobs, CheckTimeout(j)
       PROVE  Flow'
    BY <2>13 DEF CheckTimeout
  <2>14. ASSUME NEW j \in Jobs, Publish(j)
       PROVE  Flow'
    BY <2>14 DEF Publish
  <2>15. ASSUME NEW j \in Jobs, PublishFails(j)
       PROVE  Flow'
    BY <2>15 DEF PublishFails
  <2>16. ASSUME NEW j \in Jobs, AnswerResult(j)
       PROVE  Flow'
    BY <2>16 DEF AnswerResult
  <2>17. ASSUME NEW j \in Jobs, AnswerFailure(j)
       PROVE  Flow'
    BY <2>17 DEF AnswerFailure
  <2>18. ASSUME NEW j \in Jobs, Close(j)
       PROVE  Flow'
    BY <2>18 DEF Close
  <2>19. ASSUME NEW j \in Jobs, TimerFires(j)
       PROVE  Flow'
    BY <2>19 DEF TimerFires
  <2>20. ASSUME NEW j \in Jobs, HandlerPut(j)
       PROVE  Flow'
    BY <2>20 DEF HandlerPut
  <2>21. ASSUME NEW j \in Jobs, HandlerPublish(j)
       PROVE  Flow'
    BY <2>21 DEF HandlerPublish
  <2>22. ASSUME NEW j \in Jobs, HandlerBreaks(j)
       PROVE  Flow'
    BY <2>22 DEF HandlerBreaks
  <2>23. ASSUME NEW j \in Jobs, HandlerAnswer(j)
       PROVE  Flow'
    BY <2>23 DEF HandlerAnswer
  <2>24. ASSUME NEW n \in Nodes, NEW j \in Jobs, Consume(n, j)
       PROVE  Flow'
    BY <2>24 DEF Consume
  <2>25. ASSUME NEW n \in Nodes, Restart(n)
       PROVE  Flow'
    BY <2>25 DEF Restart, Over
  <2>26. CASE UNCHANGED vars
    BY <2>26 DEF vars
  <2>27. QED
    BY <2>1, <2>2, <2>3, <2>4, <2>5, <2>6, <2>7, <2>8, <2>9, <2>10, <2>11,
       <2>12, <2>13, <2>14, <2>15, <2>16, <2>17, <2>18, <2>19, <2>20, <2>21,
       <2>22, <2>23, <2>24, <2>25, <2>26 DEF Next, ThreadStep, HandlerStep
<1>3. QED
  BY <1>1, <1>2, TypeCorrect, PTL DEF Spec

(* A step only moves a job's status forward, publishes at most the live     *)
(* response object, and never moves the job to another node.               *)
LEMMA StepAdvances ==
  ASSUME TypeOK, Flow, [Next]_vars
  PROVE  /\ \A k \in Jobs : Stage[res[k]] <= Stage[res'[k]]
         /\ \A k \in Jobs : log'[k] = log[k] \/ log'[k] = Append(log[k], Snapshot(k))
         /\ owner' = owner /\ kind' = kind
<1> DEFINE Advance ==
      /\ \A k \in Jobs : Stage[res[k]] <= Stage[res'[k]]
      /\ \A k \in Jobs : log'[k] = log[k] \/ log'[k] = Append(log[k], Snapshot(k))
      /\ owner' = owner /\ kind' = kind
<1> USE DEF TypeOK, threadVars, timerVars, boardVars, Goto
<1>0. \A k \in Jobs : Stage[res[k]] \in Nat
  BY DEF Stage, Status
<1>1. ASSUME NEW j \in Jobs, Submit(j)
     PROVE  Advance
  BY <1>1, <1>0 DEF Submit
<1>2. ASSUME NEW j \in Jobs, LookUp(j)
     PROVE  Advance
  BY <1>2, <1>0 DEF LookUp, Flow, Stage, AtTheEnd, Status
<1>3. ASSUME NEW j \in Jobs, LookUpFails(j)
     PROVE  Advance
  BY <1>3, <1>0 DEF LookUpFails
<1>4. ASSUME NEW j \in Jobs, PreviewRejects(j)
     PROVE  Advance
  BY <1>4, <1>0 DEF PreviewRejects
<1>5. ASSUME NEW j \in Jobs, OpenConnection(j)
     PROVE  Advance
  BY <1>5, <1>0 DEF OpenConnection
<1>6. ASSUME NEW j \in Jobs, BindFails(j)
     PROVE  Advance
  BY <1>6, <1>0 DEF BindFails
<1>7. ASSUME NEW j \in Jobs, Bind(j)
     PROVE  Advance
  BY <1>7, <1>0 DEF Bind, Flow, Stage, AtTheEnd, Status
<1>8. ASSUME NEW j \in Jobs, Execute(j)
     PROVE  Advance
  BY <1>8, <1>0 DEF Execute, Flow, Stage, AtTheEnd, Status
<1>9. ASSUME NEW j \in Jobs, ExecuteFails(j)
     PROVE  Advance
  BY <1>9, <1>0 DEF ExecuteFails
<1>10. ASSUME NEW j \in Jobs, TakeResult(j)
     PROVE  Advance
  BY <1>10, <1>0 DEF TakeResult, Flow, Stage, AtTheEnd, Status
<1>11. ASSUME NEW j \in Jobs, WriteResult(j)
     PROVE  Advance
  BY <1>11, <1>0 DEF WriteResult
<1>12. ASSUME NEW j \in Jobs, Finish(j)
     PROVE  Advance
  BY <1>12, <1>0 DEF Finish, Flow, Stage, AtTheEnd, Status
<1>13. ASSUME NEW j \in Jobs, CheckTimeout(j)
     PROVE  Advance
  BY <1>13, <1>0 DEF CheckTimeout
<1>14. ASSUME NEW j \in Jobs, Publish(j)
     PROVE  Advance
  BY <1>14, <1>0 DEF Publish, WriteTaskToStream
<1>15. ASSUME NEW j \in Jobs, PublishFails(j)
     PROVE  Advance
  BY <1>15, <1>0 DEF PublishFails
<1>16. ASSUME NEW j \in Jobs, AnswerResult(j)
     PROVE  Advance
  BY <1>16, <1>0 DEF AnswerResult
<1>17. ASSUME NEW j \in Jobs, AnswerFailure(j)
     PROVE  Advance
  BY <1>17, <1>0 DEF AnswerFailure
<1>18. ASSUME NEW j \in Jobs, Close(j)
     PROVE  Advance
  BY <1>18, <1>0 DEF Close
<1>19. ASSUME NEW j \in Jobs, TimerFires(j)
     PROVE  Advance
  BY <1>19, <1>0 DEF TimerFires
<1>20. ASSUME NEW j \in Jobs, HandlerPut(j)
     PROVE  Advance
  BY <1>20, <1>0 DEF HandlerPut
<1>21. ASSUME NEW j \in Jobs, HandlerPublish(j)
     PROVE  Advance
  BY <1>21, <1>0 DEF HandlerPublish, WriteTaskToStream
<1>22. ASSUME NEW j \in Jobs, HandlerBreaks(j)
     PROVE  Advance
  BY <1>22, <1>0 DEF HandlerBreaks
<1>23. ASSUME NEW j \in Jobs, HandlerAnswer(j)
     PROVE  Advance
  BY <1>23, <1>0 DEF HandlerAnswer
<1>24. ASSUME NEW n \in Nodes, NEW j \in Jobs, Consume(n, j)
     PROVE  Advance
  BY <1>24, <1>0 DEF Consume
<1>25. ASSUME NEW n \in Nodes, Restart(n)
     PROVE  Advance
  BY <1>25, <1>0 DEF Restart
<1>26. CASE UNCHANGED vars
  BY <1>0, <1>26 DEF vars
<1>27. QED
  BY <1>1, <1>2, <1>3, <1>4, <1>5, <1>6, <1>7, <1>8, <1>9, <1>10, <1>11,
     <1>12, <1>13, <1>14, <1>15, <1>16, <1>17, <1>18, <1>19, <1>20, <1>21,
     <1>22, <1>23, <1>24, <1>25, <1>26 DEF Next, ThreadStep, HandlerStep

(* The stream of a job is monotone and tells the truth. *)
THEOREM PublishedCorrect == Spec => []Published
<1>1. Init => Published
  BY DEF Init, Published
<1>2. TypeOK /\ Flow /\ Published /\ [Next]_vars => Published'
  <2> SUFFICES ASSUME TypeOK, Flow, Published, [Next]_vars, NEW j \in Jobs
               PROVE  /\ \A i \in 1..Len(log'[j]) :
                           /\ log'[j][i].status = "success" => log'[j][i].result
                           /\ Stage[log'[j][i].status] <= Stage[res'[j]]
                      /\ \A i, k \in 1..Len(log'[j]) : i < k =>
                           Stage[log'[j][i].status] <= Stage[log'[j][k].status]
    BY DEF Published
  <2>1. \A c \in Copies : Stage[c.status] \in Nat
    BY DEF Copies, Stage, Status
  <2>2. /\ Stage[res[j]] \in Nat /\ Stage[res'[j]] \in Nat
        /\ Stage[res[j]] <= Stage[res'[j]]
    <3>1. TypeOK'
      BY TypeStep
    <3>2. res[j] \in Status /\ res'[j] \in Status
      BY <3>1 DEF TypeOK
    <3>3. QED
      BY <3>2, StepAdvances DEF Stage, Status
  <2>3. log[j] \in Seq(Copies)
    BY DEF TypeOK
  <2>4. \A i \in 1..Len(log[j]) :
          /\ log[j][i] \in Copies
          /\ log[j][i].status = "success" => log[j][i].result
          /\ Stage[log[j][i].status] <= Stage[res[j]]
    BY <2>3 DEF Published
  <2>5. CASE log'[j] = log[j]
    BY <2>1, <2>2, <2>4, <2>5 DEF Published
  <2>6. CASE log'[j] = Append(log[j], Snapshot(j))
    <3>1. Snapshot(j) \in Copies
      BY SnapshotIsCopy
    <3>2. /\ Snapshot(j).status = res[j]
          /\ Snapshot(j).status = "success" => Snapshot(j).result
      BY DEF Snapshot, Flow
    <3>3. /\ Len(log'[j]) = Len(log[j]) + 1
          /\ \A i \in 1..Len(log[j]) : log'[j][i] = log[j][i]
          /\ log'[j][Len(log[j]) + 1] = Snapshot(j)
          /\ Len(log[j]) \in Nat
      BY <2>3, <2>6, <3>1
    <3>4. \A i \in 1..Len(log'[j]) : i \in 1..Len(log[j]) \/ i = Len(log[j]) + 1
      BY <3>3
    <3>5. \A i \in 1..Len(log'[j]) :
            /\ log'[j][i].status = "success" => log'[j][i].result
            /\ Stage[log'[j][i].status] <= Stage[res'[j]]
      <4> SUFFICES ASSUME NEW i \in 1..Len(log'[j])
                   PROVE  /\ log'[j][i].status = "success" => log'[j][i].result
                          /\ Stage[log'[j][i].status] <= Stage[res'[j]]
        OBVIOUS
      <4>1. CASE i \in 1..Len(log[j])
        <5>1. log'[j][i] = log[j][i] /\ Stage[log[j][i].status] \in Nat
          BY <2>1, <2>4, <3>3, <4>1
        <5>2. QED
          BY <2>2, <2>4, <4>1, <5>1
      <4>2. CASE i = Len(log[j]) + 1
        BY <2>2, <3>2, <3>3, <4>2
      <4>3. QED
        BY <3>4, <4>1, <4>2
    <3>6. \A i, k \in 1..Len(log'[j]) : i < k =>
            Stage[log'[j][i].status] <= Stage[log'[j][k].status]
      <4> SUFFICES ASSUME NEW i \in 1..Len(log'[j]), NEW k \in 1..Len(log'[j]), i < k
                   PROVE  Stage[log'[j][i].status] <= Stage[log'[j][k].status]
        OBVIOUS
      <4>1. i \in 1..Len(log[j])
        BY <3>3
      <4>2. CASE k \in 1..Len(log[j])
        BY <3>3, <4>1, <4>2 DEF Published
      <4>3. CASE k = Len(log[j]) + 1
        BY <2>4, <3>2, <3>3, <4>1, <4>3
      <4>4. QED
        BY <3>4, <4>2, <4>3
    <3>7. QED
      BY <3>5, <3>6
  <2>7. QED
    BY <2>5, <2>6, StepAdvances
<1>3. QED
  BY <1>1, <1>2, TypeCorrect, FlowCorrect, PTL DEF Spec

(* Each node's map holds what the node itself put there or consumed last. *)
THEOREM MappedCorrect == Spec => []Mapped
<1>1. Init => Mapped
  BY DEF Init, Mapped, Absent, Live
<1>2. TypeOK /\ Mapped /\ [Next]_vars => Mapped'
  <2> SUFFICES ASSUME TypeOK, Mapped, [Next]_vars
               PROVE  Mapped'
    OBVIOUS
  <2>0. /\ \A c \in Copies : c # Absent /\ c # Live
        /\ Absent # Live
    BY DEF Copies, Status, Absent, Live
  <2> USE DEF TypeOK, Mapped, threadVars, timerVars, boardVars, Goto
  <2>1. ASSUME NEW j \in Jobs, Submit(j)
       PROVE  Mapped'
    BY <2>1 DEF Submit
  <2>2. ASSUME NEW j \in Jobs, LookUp(j)
       PROVE  Mapped'
    BY <2>2 DEF LookUp
  <2>3. ASSUME NEW j \in Jobs, LookUpFails(j)
       PROVE  Mapped'
    BY <2>3 DEF LookUpFails
  <2>4. ASSUME NEW j \in Jobs, PreviewRejects(j)
       PROVE  Mapped'
    BY <2>4 DEF PreviewRejects
  <2>5. ASSUME NEW j \in Jobs, OpenConnection(j)
       PROVE  Mapped'
    BY <2>5 DEF OpenConnection
  <2>6. ASSUME NEW j \in Jobs, BindFails(j)
       PROVE  Mapped'
    BY <2>6 DEF BindFails
  <2>7. ASSUME NEW j \in Jobs, Bind(j)
       PROVE  Mapped'
    BY <2>7 DEF Bind
  <2>8. ASSUME NEW j \in Jobs, Execute(j)
       PROVE  Mapped'
    BY <2>8 DEF Execute
  <2>9. ASSUME NEW j \in Jobs, ExecuteFails(j)
       PROVE  Mapped'
    BY <2>9 DEF ExecuteFails
  <2>10. ASSUME NEW j \in Jobs, TakeResult(j)
       PROVE  Mapped'
    BY <2>10 DEF TakeResult
  <2>11. ASSUME NEW j \in Jobs, WriteResult(j)
       PROVE  Mapped'
    BY <2>11 DEF WriteResult
  <2>12. ASSUME NEW j \in Jobs, Finish(j)
       PROVE  Mapped'
    BY <2>12 DEF Finish
  <2>13. ASSUME NEW j \in Jobs, CheckTimeout(j)
       PROVE  Mapped'
    BY <2>13 DEF CheckTimeout
  <2>14. ASSUME NEW j \in Jobs, Publish(j)
       PROVE  Mapped'
    BY <2>14, SnapshotIsCopy DEF Publish, WriteTaskToStream
  <2>15. ASSUME NEW j \in Jobs, PublishFails(j)
       PROVE  Mapped'
    BY <2>15 DEF PublishFails
  <2>16. ASSUME NEW j \in Jobs, AnswerResult(j)
       PROVE  Mapped'
    BY <2>16 DEF AnswerResult
  <2>17. ASSUME NEW j \in Jobs, AnswerFailure(j)
       PROVE  Mapped'
    BY <2>17 DEF AnswerFailure
  <2>18. ASSUME NEW j \in Jobs, Close(j)
       PROVE  Mapped'
    BY <2>18 DEF Close
  <2>19. ASSUME NEW j \in Jobs, TimerFires(j)
       PROVE  Mapped'
    BY <2>19 DEF TimerFires
  <2>20. ASSUME NEW j \in Jobs, HandlerPut(j)
       PROVE  Mapped'
    <3>1. \A n \in Nodes, k \in Jobs :
            board'[n][k] = IF n = owner[j] /\ k = j THEN Live ELSE board[n][k]
      BY <2>20 DEF HandlerPut
    <3>2. QED
      BY <2>0, <2>20, <3>1 DEF HandlerPut
  <2>21. ASSUME NEW j \in Jobs, HandlerPublish(j)
       PROVE  Mapped'
    BY <2>21, SnapshotIsCopy DEF HandlerPublish, WriteTaskToStream
  <2>22. ASSUME NEW j \in Jobs, HandlerBreaks(j)
       PROVE  Mapped'
    BY <2>22 DEF HandlerBreaks
  <2>23. ASSUME NEW j \in Jobs, HandlerAnswer(j)
       PROVE  Mapped'
    BY <2>23 DEF HandlerAnswer
  <2>24. ASSUME NEW n \in Nodes, NEW j \in Jobs, Consume(n, j)
       PROVE  Mapped'
    BY <2>24, <2>0 DEF Consume
  <2>25. ASSUME NEW n \in Nodes, Restart(n)
       PROVE  Mapped'
    <3>1. \A m \in Nodes, k \in Jobs :
            /\ board'[m][k] = IF m = n THEN Absent ELSE board[m][k]
            /\ m # n => applied'[m][k] = applied[m][k]
            /\ applied'[m][k] <= applied[m][k]
            /\ restarts'[m] = IF m = n THEN restarts[m] + 1 ELSE restarts[m]
      BY <2>25 DEF Restart
    <3>2. log' = log /\ owner' = owner
      BY <2>25 DEF Restart
    <3>3. TypeOK'
      BY TypeStep
    <3>4. ASSUME NEW m \in Nodes, NEW k \in Jobs
          PROVE  /\ applied[m][k] \in Nat /\ applied'[m][k] \in Nat
                 /\ restarts[m] \in Nat /\ Len(log[k]) \in Nat
      BY <3>3
    <3>5. ASSUME NEW m \in Nodes, NEW k \in Jobs
          PROVE  /\ applied'[m][k] <= Len(log'[k])
                 /\ board'[m][k] = Live => m = owner'[k]
                 /\ board'[m][k] \notin {Absent, Live} =>
                      applied'[m][k] > 0 /\ board'[m][k] = log'[k][applied'[m][k]]
                 /\ restarts'[m] = 0 /\ applied'[m][k] > 0 => board'[m][k] # Absent
      <4>1. applied[m][k] <= Len(log[k])
        OBVIOUS
      <4>2. CASE m = n
        BY <2>0, <3>1, <3>2, <3>4, <4>1, <4>2
      <4>3. CASE m # n
        BY <3>1, <3>2, <4>1, <4>3
      <4>4. QED
        BY <4>2, <4>3
    <3>6. QED
      BY <3>5
  <2>26. CASE UNCHANGED vars
    BY <2>26 DEF vars
  <2>27. QED
    BY <2>1, <2>2, <2>3, <2>4, <2>5, <2>6, <2>7, <2>8, <2>9, <2>10, <2>11,
       <2>12, <2>13, <2>14, <2>15, <2>16, <2>17, <2>18, <2>19, <2>20, <2>21,
       <2>22, <2>23, <2>24, <2>25, <2>26 DEF Next, ThreadStep, HandlerStep
<1>3. QED
  BY <1>1, <1>2, TypeCorrect, PTL DEF Spec

(* The handler's progress, and the end of the stream once both writers are *)
(* through.                                                                *)
THEOREM HandledCorrect == Spec => []Handled
<1>1. Init => Handled
  BY DEF Init, Handled
<1>2. TypeOK /\ Flow /\ Handled /\ [Next]_vars => Handled'
  <2> SUFFICES ASSUME TypeOK, Flow, Handled, [Next]_vars
               PROVE  Handled'
    OBVIOUS
  <2>0. \A c \in Copies : c # Absent
    BY DEF Copies, Status, Absent
  <2>a. ASSUME NEW j \in Jobs, WriteTaskToStream(j)
        PROVE  \A k \in Jobs :
                 /\ k # j => log'[k] = log[k]
                 /\ k = j => /\ log'[k] # <<>>
                              /\ log'[k][Len(log'[k])].status = res[k]
    <3>1. /\ log'[j] = Append(log[j], Snapshot(j))
          /\ \A k \in Jobs : k # j => log'[k] = log[k]
      BY <2>a DEF WriteTaskToStream, TypeOK
    <3>2. log[j] \in Seq(Copies) /\ Snapshot(j) \in Copies
      BY SnapshotIsCopy DEF TypeOK
    <3>3. Len(log'[j]) = Len(log[j]) + 1 /\ log'[j][Len(log'[j])] = Snapshot(j)
      BY <3>1, <3>2
    <3>4. log'[j] # <<>>
      BY <3>1, <3>2
    <3>5. QED
      BY <3>1, <3>3, <3>4 DEF Snapshot
  <2> USE DEF TypeOK, Handled, threadVars, timerVars, boardVars, Goto
  <2>1. ASSUME NEW j \in Jobs, Submit(j)
       PROVE  Handled'
    BY <2>1 DEF Submit
  <2>2. ASSUME NEW j \in Jobs, LookUp(j)
       PROVE  Handled'
    BY <2>2 DEF LookUp, Flow
  <2>3. ASSUME NEW j \in Jobs, LookUpFails(j)
       PROVE  Handled'
    BY <2>3 DEF LookUpFails
  <2>4. ASSUME NEW j \in Jobs, PreviewRejects(j)
       PROVE  Handled'
    BY <2>4 DEF PreviewRejects
  <2>5. ASSUME NEW j \in Jobs, OpenConnection(j)
       PROVE  Handled'
    BY <2>5 DEF OpenConnection
  <2>6. ASSUME NEW j \in Jobs, BindFails(j)
       PROVE  Handled'
    BY <2>6 DEF BindFails
  <2>7. ASSUME NEW j \in Jobs, Bind(j)
       PROVE  Handled'
    BY <2>7 DEF Bind, Flow
  <2>8. ASSUME NEW j \in Jobs, Execute(j)
       PROVE  Handled'
    BY <2>8 DEF Execute
  <2>9. ASSUME NEW j \in Jobs, ExecuteFails(j)
       PROVE  Handled'
    BY <2>9 DEF ExecuteFails
  <2>10. ASSUME NEW j \in Jobs, TakeResult(j)
       PROVE  Handled'
    BY <2>10 DEF TakeResult
  <2>11. ASSUME NEW j \in Jobs, WriteResult(j)
       PROVE  Handled'
    BY <2>11 DEF WriteResult
  <2>12. ASSUME NEW j \in Jobs, Finish(j)
       PROVE  Handled'
    BY <2>12 DEF Finish
  <2>13. ASSUME NEW j \in Jobs, CheckTimeout(j)
       PROVE  Handled'
    BY <2>13 DEF CheckTimeout, Flow
  <2>14. ASSUME NEW j \in Jobs, Publish(j)
       PROVE  Handled'
    BY <2>14, <2>a DEF Publish, Flow, AtTheEnd
  <2>15. ASSUME NEW j \in Jobs, PublishFails(j)
       PROVE  Handled'
    BY <2>15 DEF PublishFails
  <2>16. ASSUME NEW j \in Jobs, AnswerResult(j)
       PROVE  Handled'
    BY <2>16 DEF AnswerResult, Resume
  <2>17. ASSUME NEW j \in Jobs, AnswerFailure(j)
       PROVE  Handled'
    BY <2>17 DEF AnswerFailure, Resume
  <2>18. ASSUME NEW j \in Jobs, Close(j)
       PROVE  Handled'
    BY <2>18 DEF Close
  <2>19. ASSUME NEW j \in Jobs, TimerFires(j)
       PROVE  Handled'
    BY <2>19 DEF TimerFires
  <2>20. ASSUME NEW j \in Jobs, HandlerPut(j)
       PROVE  Handled'
    BY <2>20 DEF HandlerPut, Live, Absent
  <2>21. ASSUME NEW j \in Jobs, HandlerPublish(j)
       PROVE  Handled'
    BY <2>21, <2>a DEF HandlerPublish, Flow, AtTheEnd
  <2>22. ASSUME NEW j \in Jobs, HandlerBreaks(j)
       PROVE  Handled'
    BY <2>22 DEF HandlerBreaks, Resume
  <2>23. ASSUME NEW j \in Jobs, HandlerAnswer(j)
       PROVE  Handled'
    BY <2>23 DEF HandlerAnswer, Resume
  <2>24. ASSUME NEW n \in Nodes, NEW j \in Jobs, Consume(n, j)
       PROVE  Handled'
    BY <2>24, <2>0 DEF Consume
  <2>25. ASSUME NEW n \in Nodes, Restart(n)
       PROVE  Handled'
    BY <2>25 DEF Restart
  <2>26. CASE UNCHANGED vars
    BY <2>26 DEF vars
  <2>27. QED
    BY <2>1, <2>2, <2>3, <2>4, <2>5, <2>6, <2>7, <2>8, <2>9, <2>10, <2>11,
       <2>12, <2>13, <2>14, <2>15, <2>16, <2>17, <2>18, <2>19, <2>20, <2>21,
       <2>22, <2>23, <2>24, <2>25, <2>26 DEF Next, ThreadStep, HandlerStep
<1>3. QED
  BY <1>1, <1>2, TypeCorrect, FlowCorrect, PTL DEF Spec

(* A connection that is out belongs to a thread that will close it, or to  *)
(* one whose preview() threw.                                              *)
THEOREM PooledCorrect == Spec => []Pooled
<1>1. Init => Pooled
  BY DEF Init, Pooled
<1>2. TypeOK /\ Flow /\ Pooled /\ [Next]_vars => Pooled'
  <2> SUFFICES ASSUME TypeOK, Flow, Pooled, [Next]_vars
               PROVE  Pooled'
    OBVIOUS
  <2> USE DEF TypeOK, Pooled, Over, threadVars, timerVars, boardVars, Goto
  <2>1. ASSUME NEW j \in Jobs, Submit(j)
       PROVE  Pooled'
    BY <2>1 DEF Submit
  <2>2. ASSUME NEW j \in Jobs, LookUp(j)
       PROVE  Pooled'
    BY <2>2 DEF LookUp, Flow
  <2>3. ASSUME NEW j \in Jobs, LookUpFails(j)
       PROVE  Pooled'
    BY <2>3 DEF LookUpFails
  <2>4. ASSUME NEW j \in Jobs, PreviewRejects(j)
       PROVE  Pooled'
    BY <2>4 DEF PreviewRejects
  <2>5. ASSUME NEW j \in Jobs, OpenConnection(j)
       PROVE  Pooled'
    BY <2>5 DEF OpenConnection, Flow
  <2>6. ASSUME NEW j \in Jobs, BindFails(j)
       PROVE  Pooled'
    BY <2>6 DEF BindFails, Flow
  <2>7. ASSUME NEW j \in Jobs, Bind(j)
       PROVE  Pooled'
    BY <2>7 DEF Bind, Flow
  <2>8. ASSUME NEW j \in Jobs, Execute(j)
       PROVE  Pooled'
    BY <2>8 DEF Execute, Flow
  <2>9. ASSUME NEW j \in Jobs, ExecuteFails(j)
       PROVE  Pooled'
    BY <2>9 DEF ExecuteFails, Flow
  <2>10. ASSUME NEW j \in Jobs, TakeResult(j)
       PROVE  Pooled'
    BY <2>10 DEF TakeResult, Flow
  <2>11. ASSUME NEW j \in Jobs, WriteResult(j)
       PROVE  Pooled'
    BY <2>11 DEF WriteResult, Flow
  <2>12. ASSUME NEW j \in Jobs, Finish(j)
       PROVE  Pooled'
    BY <2>12 DEF Finish, Flow
  <2>13. ASSUME NEW j \in Jobs, CheckTimeout(j)
       PROVE  Pooled'
    BY <2>13 DEF CheckTimeout, Flow
  <2>14. ASSUME NEW j \in Jobs, Publish(j)
       PROVE  Pooled'
    BY <2>14 DEF Publish, Flow
  <2>15. ASSUME NEW j \in Jobs, PublishFails(j)
       PROVE  Pooled'
    BY <2>15 DEF PublishFails, Flow
  <2>16. ASSUME NEW j \in Jobs, AnswerResult(j)
       PROVE  Pooled'
    BY <2>16 DEF AnswerResult, Flow
  <2>17. ASSUME NEW j \in Jobs, AnswerFailure(j)
       PROVE  Pooled'
    BY <2>17 DEF AnswerFailure, Flow
  <2>18. ASSUME NEW j \in Jobs, Close(j)
       PROVE  Pooled'
    BY <2>18 DEF Close, Flow
  <2>19. ASSUME NEW j \in Jobs, TimerFires(j)
       PROVE  Pooled'
    BY <2>19 DEF TimerFires
  <2>20. ASSUME NEW j \in Jobs, HandlerPut(j)
       PROVE  Pooled'
    BY <2>20 DEF HandlerPut
  <2>21. ASSUME NEW j \in Jobs, HandlerPublish(j)
       PROVE  Pooled'
    BY <2>21 DEF HandlerPublish
  <2>22. ASSUME NEW j \in Jobs, HandlerBreaks(j)
       PROVE  Pooled'
    BY <2>22 DEF HandlerBreaks
  <2>23. ASSUME NEW j \in Jobs, HandlerAnswer(j)
       PROVE  Pooled'
    BY <2>23 DEF HandlerAnswer
  <2>24. ASSUME NEW n \in Nodes, NEW j \in Jobs, Consume(n, j)
       PROVE  Pooled'
    BY <2>24 DEF Consume
  <2>25. ASSUME NEW n \in Nodes, Restart(n)
       PROVE  Pooled'
    BY <2>25 DEF Restart
  <2>26. CASE UNCHANGED vars
    BY <2>26 DEF vars
  <2>27. QED
    BY <2>1, <2>2, <2>3, <2>4, <2>5, <2>6, <2>7, <2>8, <2>9, <2>10, <2>11,
       <2>12, <2>13, <2>14, <2>15, <2>16, <2>17, <2>18, <2>19, <2>20, <2>21,
       <2>22, <2>23, <2>24, <2>25, <2>26 DEF Next, ThreadStep, HandlerStep
<1>3. QED
  BY <1>1, <1>2, TypeCorrect, FlowCorrect, PTL DEF Spec

-----------------------------------------------------------------------------
(* A response that says "success", wherever a client polls it, carries the *)
(* result.                                                                 *)
THEOREM SuccessIsComplete == Spec => []SuccessCarriesResult
<1>1. TypeOK /\ Flow /\ Published /\ Mapped => SuccessCarriesResult
  <2> SUFFICES ASSUME TypeOK, Flow, Published, Mapped, NEW j \in Jobs
               PROVE  /\ \A n \in Nodes : Polled(n, j).status = "success" => Polled(n, j).result
                      /\ \A i \in 1..Len(log[j]) :
                           log[j][i].status = "success" => log[j][i].result
    BY DEF SuccessCarriesResult
  <2>1. \A i \in 1..Len(log[j]) : log[j][i].status = "success" => log[j][i].result
    BY DEF Published
  <2>2. ASSUME NEW n \in Nodes, Polled(n, j).status = "success"
        PROVE  Polled(n, j).result
    <3>1. CASE board[n][j] = Live
      BY <2>2, <3>1 DEF Polled, Snapshot, Flow
    <3>2. CASE board[n][j] = Absent
      BY <2>2, <3>2 DEF Polled, Absent, Live
    <3>3. CASE board[n][j] \notin {Absent, Live}
      <4>1. /\ Polled(n, j) = log[j][applied[n][j]]
            /\ applied[n][j] \in 1..Len(log[j])
        BY <3>3 DEF Polled, Mapped, TypeOK
      <4>2. QED
        BY <2>1, <2>2, <4>1
    <3>4. QED
      BY <3>1, <3>2, <3>3
  <2>3. QED
    BY <2>1, <2>2
<1>2. QED
  BY <1>1, TypeCorrect, FlowCorrect, PublishedCorrect, MappedCorrect, PTL

(* What is published about a job is in the order of its progress.          *)
THEOREM StreamIsMonotone == Spec => []StreamNeverRegresses
<1>1. Published => StreamNeverRegresses
  BY DEF Published, StreamNeverRegresses
<1>2. QED
  BY <1>1, PublishedCorrect, PTL

(* A job that timed out and ended well is reported as successful wherever  *)
(* the stream has been consumed.                                           *)
THEOREM TimedOutSuccessIsReported == Spec => []UnfinishedMeansFailed
<1>1. TypeOK /\ Flow /\ Mapped /\ Handled => UnfinishedMeansFailed
  <2> SUFFICES ASSUME TypeOK, Flow, Mapped, Handled,
                      NEW j \in Jobs, NEW n \in Nodes,
                      pc[j] \in {"answering", "closing", "done"},
                      handler[j] \in {"answer", "done"},
                      applied[n][j] = Len(log[j]), restarts[n] = 0
               PROVE  Polled(n, j).status = "success"
    BY DEF UnfinishedMeansFailed
  <2>1. log[j] # <<>> /\ log[j][Len(log[j])].status = "success"
    BY DEF Handled
  <2>2. applied[n][j] > 0
    BY <2>1 DEF TypeOK
  <2>3. CASE board[n][j] = Live
    BY <2>3 DEF Polled, Snapshot, Flow, AtTheEnd
  <2>4. CASE board[n][j] # Live
    BY <2>1, <2>2, <2>4 DEF Polled, Mapped
  <2>5. QED
    BY <2>3, <2>4
<1>2. QED
  BY <1>1, TypeCorrect, FlowCorrect, MappedCorrect, HandledCorrect, PTL

(* A client that was told a job id finds the job on the node that told it. *)
THEOREM ToldJobIsKnown == Spec => []JobIdIsKnown
<1>1. Handled => JobIdIsKnown
  BY DEF Handled, JobIdIsKnown
<1>2. QED
  BY <1>1, HandledCorrect, PTL

(* Only a failed preview() leaves a connection out of the pool.            *)
THEOREM OnlyBindingLeaks == Spec => []LeakOnlyWhenBindingFails
<1>1. Pooled => LeakOnlyWhenBindingFails
  BY DEF Pooled, LeakOnlyWhenBindingFails, Over
<1>2. QED
  BY <1>1, PooledCorrect, PTL

(* On the other nodes a job is never seen to go back.                      *)
THEOREM OtherNodesAdvance == Spec => OtherNodesNeverGoBack
<1> DEFINE Step == \A j \in Jobs, n \in Nodes :
             n # owner[j] /\ restarts'[n] = restarts[n]
             => Stage[board[n][j].status] <= Stage[board'[n][j].status]
<1>1. TypeOK /\ Flow /\ Published /\ Mapped /\ [Next]_vars => Step
  <2> SUFFICES ASSUME TypeOK, Flow, Published, Mapped, [Next]_vars,
                      NEW j \in Jobs, NEW n \in Nodes,
                      n # owner[j], restarts'[n] = restarts[n]
               PROVE  Stage[board[n][j].status] <= Stage[board'[n][j].status]
    OBVIOUS
  <2>1. \A c \in Copies \cup {Absent, Live} : Stage[c.status] \in Nat
    BY DEF Copies, Status, Absent, Live, Stage
  <2>2. board[n][j] \in Copies \cup {Absent, Live} /\ log[j] \in Seq(Copies)
    BY DEF TypeOK
  <2>3. CASE board'[n][j] = board[n][j]
    BY <2>1, <2>2, <2>3
  <2>4. CASE applied[n][j] < Len(log[j]) /\ board'[n][j] = log[j][applied[n][j] + 1]
    <3>1. /\ applied[n][j] + 1 \in 1..Len(log[j])
          /\ applied[n][j] \in Nat
          /\ log[j][applied[n][j] + 1] \in Copies
      BY <2>2, <2>4 DEF TypeOK
    <3>2. board[n][j] # Live
      BY DEF Mapped
    <3>3. CASE board[n][j] = Absent
      BY <2>1, <2>4, <3>1, <3>3 DEF Absent, Stage
    <3>4. CASE board[n][j] # Absent
      BY <2>4, <3>1, <3>2, <3>4 DEF Mapped, Published
    <3>5. QED
      BY <3>3, <3>4
  <2>5. \/ board'[n][j] = board[n][j]
        \/ applied[n][j] < Len(log[j]) /\ board'[n][j] = log[j][applied[n][j] + 1]
    <3> USE DEF TypeOK, threadVars, timerVars, boardVars
    <3>1. ASSUME NEW k \in Jobs, HandlerPut(k)
          PROVE  board'[n][j] = board[n][j]
      BY <3>1 DEF HandlerPut
    <3>2. ASSUME NEW m \in Nodes, NEW k \in Jobs, Consume(m, k)
          PROVE  \/ board'[n][j] = board[n][j]
                 \/ /\ applied[n][j] < Len(log[j])
                    /\ board'[n][j] = log[j][applied[n][j] + 1]
      BY <3>2 DEF Consume
    <3>3. ASSUME NEW m \in Nodes, Restart(m)
          PROVE  board'[n][j] = board[n][j]
      BY <3>3 DEF Restart
    <3>4. ASSUME NEW k \in Jobs, Submit(k) \/ ThreadStep(k)
          PROVE  board' = board
      BY <3>4 DEF Submit, ThreadStep, LookUp, LookUpFails, PreviewRejects, OpenConnection,
         BindFails, Bind, Execute, ExecuteFails, TakeResult,
         WriteResult, Finish, CheckTimeout, Publish, PublishFails,
         AnswerResult, AnswerFailure, Close
    <3>5. ASSUME NEW k \in Jobs, TimerFires(k) \/ HandlerPublish(k) \/ HandlerBreaks(k)
                                   \/ HandlerAnswer(k)
          PROVE  board' = board
      BY <3>5 DEF TimerFires, HandlerPublish, HandlerBreaks, HandlerAnswer
    <3>6. CASE UNCHANGED vars
      BY <3>6 DEF vars
    <3>7. QED
      BY <3>1, <3>2, <3>3, <3>4, <3>5, <3>6 DEF Next, HandlerStep
  <2>6. QED
    BY <2>3, <2>4, <2>5
<1>2. QED
  BY <1>1, TypeCorrect, FlowCorrect, PublishedCorrect, MappedCorrect, PTL
     DEF Spec, OtherNodesNeverGoBack

-----------------------------------------------------------------------------
(* The refinement of AsyncJob *)

(* Whoever can send a job id away has published something: a job is        *)
(* started before its timer runs, and no copy was made before that.        *)
Told ==
  \A j \in Jobs :
    /\ handler[j] # "off" => res[j] # "none"
    /\ \A i \in 1..Len(log[j]) : log[j][i].status # "none"
    /\ handler[j] = "answer" => log[j] # <<>>

(* The steps of the request's thread that publish nothing. *)
LEMMA QuietThreadStep ==
  ASSUME TypeOK, NEW j \in Jobs, Submit(j) \/ ThreadStep(j), ~LookUp(j), ~Publish(j)
  PROVE  /\ UNCHANGED <<handler, log>>
         /\ \A k \in Jobs : res'[k] = res[k] \/ res'[k] # "none"
  BY DEF Submit, ThreadStep, LookUpFails, PreviewRejects, OpenConnection, BindFails,
     Bind, Execute, ExecuteFails, TakeResult, WriteResult, Finish, CheckTimeout,
     PublishFails, AnswerResult, AnswerFailure, Close, timerVars, boardVars, TypeOK

(* A publication of a started job leaves only started copies. *)
LEMMA PublishesStarted ==
  ASSUME TypeOK, NEW j \in Jobs, WriteTaskToStream(j), res[j] # "none",
         \A k \in Jobs : \A i \in 1..Len(log[k]) : log[k][i].status # "none"
  PROVE  /\ \A k \in Jobs : \A i \in 1..Len(log'[k]) : log'[k][i].status # "none"
         /\ log'[j] # <<>> /\ log'[j][Len(log'[j])] = Snapshot(j)
         /\ \A k \in Jobs : k # j => log'[k] = log[k]
<1>1. /\ log'[j] = Append(log[j], Snapshot(j))
      /\ \A k \in Jobs : k # j => log'[k] = log[k]
  BY DEF WriteTaskToStream, TypeOK
<1>2. log[j] \in Seq(Copies) /\ Snapshot(j) \in Copies
  BY SnapshotIsCopy DEF TypeOK
<1>3. /\ Len(log'[j]) = Len(log[j]) + 1
      /\ \A i \in 1..Len(log[j]) : log'[j][i] = log[j][i]
      /\ log'[j][Len(log'[j])] = Snapshot(j)
  BY <1>1, <1>2
<1>4. \A i \in 1..Len(log'[j]) : log'[j][i].status # "none"
  <2> SUFFICES ASSUME NEW i \in 1..Len(log'[j])
               PROVE  log'[j][i].status # "none"
    OBVIOUS
  <2>1. CASE i \in 1..Len(log[j])
    BY <1>3, <2>1
  <2>2. CASE i = Len(log[j]) + 1
    BY <1>3, <2>2 DEF Snapshot
  <2>3. QED
    BY <1>2, <1>3, <2>1, <2>2
<1>5. log'[j] # <<>>
  BY <1>1, <1>2
<1>6. QED
  BY <1>1, <1>3, <1>4, <1>5

(* A timer that runs, and every copy on the stream, is of a started job.   *)
THEOREM ToldCorrect == Spec => []Told
<1>1. Init => Told
  BY DEF Init, Told
<1>2. TypeOK /\ Flow /\ Told /\ [Next]_vars => Told'
  <2> SUFFICES ASSUME TypeOK, Flow, Told, [Next]_vars
               PROVE  Told'
    OBVIOUS
  <2>1. ASSUME NEW j \in Jobs, LookUp(j)
        PROVE  Told'
    BY <2>1 DEF LookUp, Told, TypeOK, boardVars
  <2>2. ASSUME NEW j \in Jobs, Publish(j)
        PROVE  Told'
    <3>1. res[j] # "none"
      BY <2>2 DEF Publish, Goto, Flow, AtTheEnd
    <3>2. /\ UNCHANGED <<handler, res>> /\ WriteTaskToStream(j)
          /\ \A k \in Jobs : \A i \in 1..Len(log[k]) : log[k][i].status # "none"
      BY <2>2 DEF Publish, timerVars, Told
    <3>3. QED
      BY <3>1, <3>2, PublishesStarted DEF Told
  <2>3. ASSUME NEW j \in Jobs, Submit(j) \/ ThreadStep(j), ~LookUp(j), ~Publish(j)
        PROVE  Told'
    BY <2>3, QuietThreadStep DEF Told
  <2>4. ASSUME NEW j \in Jobs, HandlerPublish(j)
        PROVE  Told'
    <3>1. res[j] # "none"
      BY <2>4 DEF HandlerPublish, Told
    <3>2. /\ UNCHANGED res /\ WriteTaskToStream(j)
          /\ handler' = [handler EXCEPT ![j] = "answer"] /\ handler[j] = "publish"
          /\ \A k \in Jobs : \A i \in 1..Len(log[k]) : log[k][i].status # "none"
      BY <2>4 DEF HandlerPublish, threadVars, Told
    <3>3. QED
      BY <3>1, <3>2, PublishesStarted DEF Told, TypeOK
  <2>5. ASSUME NEW j \in Jobs,
               TimerFires(j) \/ HandlerPut(j) \/ HandlerBreaks(j) \/ HandlerAnswer(j)
        PROVE  Told'
    BY <2>5 DEF TimerFires, HandlerPut, HandlerBreaks, HandlerAnswer, Told, TypeOK,
       threadVars, boardVars
  <2>6. ASSUME NEW n \in Nodes, NEW j \in Jobs, Consume(n, j)
        PROVE  Told'
    BY <2>6 DEF Consume, Told, threadVars, timerVars
  <2>7. ASSUME NEW n \in Nodes, Restart(n)
        PROVE  Told'
    BY <2>7 DEF Restart, Told, TypeOK
  <2>8. CASE UNCHANGED vars
    BY <2>8 DEF vars, threadVars, timerVars, boardVars, Told
  <2>9. QED
    BY <2>1, <2>2, <2>3, <2>4, <2>5, <2>6, <2>7, <2>8 DEF Next, HandlerStep
<1>3. QED
  BY <1>1, <1>2, TypeCorrect, FlowCorrect, PTL DEF Spec

(* The stages of everything a variable holds, and of what is published.    *)
LEMMA StagesOfAll ==
  ASSUME TypeOK
  PROVE  /\ Stage["success"] = 5
         /\ \A x \in Status \cup {"absent", "live"} : Stage[x] \in Report!Stages
         /\ \A x \in Status : x # "none" => Stage[x] > 0
         /\ \A j \in Jobs : JobStage[j] = Stage[res[j]] /\ res[j] \in Status
         /\ \A n \in Nodes, j \in Jobs :
              board[n][j].status \in Status \cup {"absent", "live"}
         /\ \A j \in Jobs : log[j] # <<>> =>
              /\ Len(log[j]) \in 1..Len(log[j])
              /\ JobPublic[j] = Stage[log[j][Len(log[j])].status]
              /\ log[j][Len(log[j])].status \in Status
<1>1. \A x \in Status \cup {"absent", "live"} :
        Stage[x] \in Report!Stages /\ Stage["success"] = 5
  BY DEF Stage, Status, Report!Stages
<1>2. \A x \in Status : x # "none" => Stage[x] > 0
  BY DEF Stage, Status
<1>3. \A n \in Nodes, j \in Jobs : board[n][j].status \in Status \cup {"absent", "live"}
  BY DEF TypeOK, Copies, Absent, Live
<1>4. ASSUME NEW j \in Jobs, log[j] # <<>>
      PROVE  /\ Len(log[j]) \in 1..Len(log[j])
             /\ JobPublic[j] = Stage[log[j][Len(log[j])].status]
             /\ log[j][Len(log[j])].status \in Status
  <2>1. log[j] \in Seq(Copies) /\ Len(log[j]) \in 1..Len(log[j])
    BY <1>4 DEF TypeOK
  <2>2. log[j][Len(log[j])] \in Copies
    BY <2>1
  <2>3. QED
    BY <1>4, <2>1, <2>2 DEF JobPublic, Copies
<1>5. \A j \in Jobs : JobStage[j] = Stage[res[j]] /\ res[j] \in Status
  BY DEF JobStage, TypeOK
<1>6. Stage["success"] = 5
  BY DEF Stage
<1>7. QED
  BY <1>1, <1>2, <1>3, <1>4, <1>5, <1>6

(* A step that changes one piece of a job's state shows in one variable of *)
(* the abstract job.                                                       *)
LEMMA Unseen ==
  ASSUME UNCHANGED <<owner, kind>>
  PROVE  /\ UNCHANGED res => UNCHANGED JobStage
         /\ UNCHANGED log => UNCHANGED JobPublic
         /\ UNCHANGED board => UNCHANGED JobSeen
         /\ UNCHANGED answer => UNCHANGED JobSaid
  BY DEF JobStage, JobPublic, JobSeen, JobSaid

(* The response object goes one or more stages on. *)
LEMMA WorkIsWork ==
  ASSUME TypeOK, NEW j \in Jobs, NEW s \in Status, Stage[res[j]] < Stage[s],
         res' = [res EXCEPT ![j] = s], UNCHANGED <<owner, kind, log, board, answer>>
  PROVE  Report!Work(j)
<1>1. JobStage' = [JobStage EXCEPT ![j] = Stage[s]]
  BY DEF JobStage, TypeOK
<1>2. JobStage[j] < Stage[s] /\ Stage[s] \in Report!Stages
  BY StagesOfAll
<1>3. UNCHANGED <<JobPublic, JobSeen, JobSaid>>
  BY Unseen
<1>4. QED
  BY <1>1, <1>2, <1>3 DEF Report!Work

(* A publication announces the stage the job is at. *)
LEMMA PublicationAnnounces ==
  ASSUME TypeOK, Told, NEW j \in Jobs, WriteTaskToStream(j), res[j] # "none",
         UNCHANGED <<owner, kind, res, board, answer>>
  PROVE  Report!Announce(j)
<1>1. /\ log'[j] # <<>> /\ log'[j][Len(log'[j])] = Snapshot(j)
      /\ \A k \in Jobs : k # j => log'[k] = log[k]
  BY PublishesStarted DEF Told
<1>2. JobPublic' = [JobPublic EXCEPT ![j] = JobStage[j]]
  <2>1. JobPublic' = [k \in Jobs |-> IF k = j THEN Stage[res[j]] ELSE JobPublic[k]]
    BY <1>1 DEF JobPublic, Snapshot
  <2>2. QED
    BY <2>1 DEF JobPublic, JobStage
<1>3. JobStage[j] > 0
  BY StagesOfAll
<1>4. QED
  BY <1>2, <1>3, Unseen DEF Report!Announce

(* A resumed response answers the client, unless it is answered already or *)
(* belongs to a preview.                                                   *)
LEMMA ResumeReplies ==
  ASSUME TypeOK, NEW j \in Jobs, NEW a \in {"result", "failed", "jobid"}, Resume(j, a),
         a = "result" /\ kind[j] # "preview" => res[j] = "success",
         a = "jobid" => log[j] # <<>> /\ Told,
         UNCHANGED <<owner, kind, res, log, board>>
  PROVE  Report!Reply(j, a) \/ UNCHANGED Report!vars
<1>1. CASE answer' = answer \/ kind[j] = "preview"
  <2>1. UNCHANGED JobSaid
    BY <1>1 DEF JobSaid, Resume, TypeOK
  <2>2. QED
    BY <2>1, Unseen DEF Report!vars
<1>2. CASE answer' # answer /\ kind[j] # "preview"
  <2>1. answer[j] = "none" /\ answer' = [answer EXCEPT ![j] = a]
    BY <1>2 DEF Resume
  <2>2. JobSaid[j] = "none" /\ JobSaid' = [JobSaid EXCEPT ![j] = a]
    BY <1>2, <2>1 DEF JobSaid, TypeOK
  <2>3. a = "result" => JobStage[j] = Stage["success"]
    BY <1>2 DEF JobStage
  <2>4. a = "jobid" => JobPublic[j] > 0
    BY StagesOfAll DEF Told
  <2>5. QED
    BY <2>2, <2>3, <2>4, Unseen DEF Report!Reply
<1>3. QED
  BY <1>1, <1>2

(* A function of two arguments that differs from another at one point. *)
LEMMA PointUpdate ==
  ASSUME NEW A, NEW B, NEW C, NEW f \in [A -> [B -> C]], NEW x \in A, NEW y \in B, NEW v,
         NEW g \in [A -> [B -> C]],
         \A a \in A, b \in B : g[a][b] = IF a = x /\ b = y THEN v ELSE f[a][b]
  PROVE  g = [f EXCEPT ![x][y] = v]
<1>1. \A a \in A : a # x => g[a] = f[a]
  OBVIOUS
<1>2. g[x] = [f[x] EXCEPT ![y] = v]
  OBVIOUS
<1>3. QED
  BY <1>1, <1>2

(* What a node's map gets from the stream was announced, and lies after    *)
(* what it held.                                                           *)
LEMMA ConsumptionLearns ==
  ASSUME TypeOK, Published, Mapped, NEW n \in Nodes, NEW j \in Jobs, Consume(n, j)
  PROVE  Report!Learn(n, j) \/ UNCHANGED Report!vars
<1>1. UNCHANGED <<owner, kind, res, log, answer>>
  BY DEF Consume, threadVars
<1>2. CASE n = owner[j]
  <2>1. UNCHANGED JobSeen
    BY <1>1, <1>2 DEF Consume, JobSeen, TypeOK
  <2>2. QED
    BY <1>1, <2>1, Unseen DEF Report!vars
<1>3. CASE n # owner[j]
  <2> DEFINE last == applied[n][j] + 1
  <2>1. /\ last \in 1..Len(log[j]) /\ log[j] # <<>> /\ log[j] \in Seq(Copies)
        /\ applied[n][j] \in Nat /\ Len(log[j]) \in 1..Len(log[j])
        /\ board' = [board EXCEPT ![n][j] = log[j][last]]
    BY DEF Consume, TypeOK
  <2>2. log[j][last].status \in Status
    <3>1. log[j][last] \in Copies
      BY <2>1
    <3>2. QED
      BY <3>1 DEF Copies
  <2>3. JobSeen' = [JobSeen EXCEPT ![n][j] = Stage[log[j][last].status]]
    <3>1. \A m \in Nodes, k \in Jobs :
            board'[m][k] = IF m = n /\ k = j THEN log[j][last] ELSE board[m][k]
      BY <2>1 DEF TypeOK
    <3>2. \A m \in Nodes, k \in Jobs :
            JobSeen'[m][k] = IF m = n /\ k = j THEN Stage[log[j][last].status]
                                             ELSE JobSeen[m][k]
      BY <1>1, <1>3, <3>1 DEF JobSeen
    <3>3. JobSeen \in [Nodes -> [Jobs -> Report!Stages]]
      BY StagesOfAll DEF JobSeen, Report!Stages
    <3>4. JobSeen' \in [Nodes -> [Jobs -> Report!Stages]]
      <4>1. \A m \in Nodes, k \in Jobs : JobSeen'[m][k] \in Report!Stages
        BY <2>2, <3>2, <3>3, StagesOfAll
      <4>2. QED
        BY <4>1 DEF JobSeen
    <3> HIDE DEF last
    <3>5. QED
      BY <3>2, <3>3, <3>4, PointUpdate
  <2>4. Stage[log[j][last].status] <= JobPublic[j]
    <3>1. CASE last = Len(log[j])
      BY <2>1, <2>2, <3>1, StagesOfAll DEF Report!Stages
    <3>2. CASE last < Len(log[j])
      BY <2>1, <3>2, StagesOfAll DEF Published
    <3>3. QED
      BY <2>1, <3>1, <3>2
  <2>5. JobSeen[n][j] <= Stage[log[j][last].status]
    <3>1. JobSeen[n][j] = Stage[board[n][j].status] /\ board[n][j] # Live
      BY <1>3 DEF JobSeen, Mapped
    <3>2. CASE board[n][j] = Absent
      BY <2>2, <3>1, <3>2, StagesOfAll DEF Absent, Stage, Report!Stages
    <3>3. CASE board[n][j] # Absent
      <4>1. applied[n][j] \in 1..Len(log[j]) /\ applied[n][j] < last
        BY <2>1, <3>1, <3>3 DEF Mapped
      <4>2. board[n][j] = log[j][applied[n][j]]
        BY <3>1, <3>3 DEF Mapped
      <4>3. QED
        BY <2>1, <3>1, <4>1, <4>2 DEF Published
    <3>4. QED
      BY <3>2, <3>3
  <2>6. QED
    BY <1>1, <2>2, <2>3, <2>4, <2>5, Unseen, StagesOfAll DEF Report!Learn
<1>4. QED
  BY <1>2, <1>3

(* A restart is a crash: the node's map is empty, and requests it had not  *)
(* answered never are.                                                     *)
LEMMA RestartCrashes ==
  ASSUME TypeOK, NEW n \in Nodes, Restart(n)
  PROVE  Report!Crash(n)
<1> DEFINE mine == {j \in Jobs : owner[j] = n /\ pc[j] # "idle"}
           owed == {j \in mine : answer[j] = "none" /\ kind[j] # "preview"}
<1>1. /\ UNCHANGED <<owner, kind, res, log>>
      /\ board' = [board EXCEPT ![n] = [j \in Jobs |-> Absent]]
      /\ answer' = [j \in Jobs |-> IF j \in mine /\ answer[j] = "none"
                                   THEN "lost" ELSE answer[j]]
  BY DEF Restart
<1>2. JobSeen' = [JobSeen EXCEPT ![n] = [j \in Jobs |-> 0]]
  BY <1>1 DEF JobSeen, TypeOK, Absent, Stage
<1>3. owed \in SUBSET {j \in Jobs : JobSaid[j] = "none"}
  BY DEF JobSaid
<1>4. JobSaid' = [j \in Jobs |-> IF j \in owed THEN "lost" ELSE JobSaid[j]]
  BY <1>1 DEF JobSaid
<1>5. UNCHANGED <<JobStage, JobPublic>>
  BY <1>1, Unseen
<1>6. QED
  BY <1>2, <1>3, <1>4, <1>5 DEF Report!Crash

(* Threads, handlers, the stream and restarts implement the abstract job:  *)
(* what a client can tell from answers and polls is what AsyncJob allows.  *)
THEOREM AsyncJobRefinement == Spec => ImplementsAsyncJob
<1>1. Init => Report!Init
  BY DEF Init, Report!Init, JobStage, JobPublic, JobSeen, JobSaid, Stage, Absent
<1>2. TypeOK /\ Flow /\ Published /\ Mapped /\ Told /\ [Next]_vars
      => [Report!Next]_(Report!vars)
  <2> SUFFICES ASSUME TypeOK, Flow, Published, Mapped, Told, [Next]_vars
               PROVE  Report!Next \/ UNCHANGED Report!vars
    OBVIOUS
  <2> DEFINE Quiet == /\ UNCHANGED <<owner, kind, res, log, answer>>
                      /\ \A m \in Nodes, k \in Jobs :
                           m # owner[k] => board'[m][k] = board[m][k]
  <2>1. ASSUME Quiet
        PROVE  UNCHANGED Report!vars
    <3>1. UNCHANGED JobSeen
      BY <2>1 DEF JobSeen
    <3>2. QED
      BY <2>1, <3>1, Unseen DEF Report!vars
  <2>2. ASSUME NEW j \in Jobs,
               \/ Submit(j) \/ LookUpFails(j) \/ PreviewRejects(j) \/ OpenConnection(j)
               \/ BindFails(j) \/ ExecuteFails(j) \/ WriteResult(j) \/ CheckTimeout(j)
               \/ PublishFails(j) \/ Close(j) \/ TimerFires(j)
        PROVE  Quiet
    BY <2>2 DEF Submit, LookUpFails, PreviewRejects, OpenConnection, BindFails,
       ExecuteFails, WriteResult, CheckTimeout, PublishFails, Close, TimerFires,
       threadVars, boardVars
  <2>p. ASSUME NEW j \in Jobs, HandlerPut(j)
        PROVE  Quiet
    BY <2>p DEF HandlerPut, TypeOK, threadVars
  <2>3. ASSUME NEW j \in Jobs,
               LookUp(j) \/ Bind(j) \/ Execute(j) \/ TakeResult(j) \/ Finish(j)
        PROVE  Report!Work(j) \/ Quiet
    <3>1. UNCHANGED <<owner, kind, log, answer, board>>
      BY <2>3 DEF LookUp, Bind, Execute, TakeResult, Finish, boardVars
    <3>2. \/ res' = res
          \/ \E s \in Status : Stage[res[j]] < Stage[s] /\ res' = [res EXCEPT ![j] = s]
      BY <2>3 DEF LookUp, Bind, Execute, TakeResult, Finish, Flow, Goto, Status, Stage
    <3>3. QED
      BY <3>1, <3>2, WorkIsWork
  <2>4. ASSUME NEW j \in Jobs, Publish(j) \/ HandlerPublish(j)
        PROVE  Report!Announce(j)
    <3>1. res[j] # "none"
      BY <2>4 DEF Publish, HandlerPublish, Goto, Flow, AtTheEnd, Told
    <3>2. QED
      BY <2>4, <3>1, PublicationAnnounces DEF Publish, HandlerPublish, threadVars
  <2>5. ASSUME NEW j \in Jobs,
               AnswerResult(j) \/ AnswerFailure(j) \/ HandlerBreaks(j) \/ HandlerAnswer(j)
        PROVE  \/ \E a \in {"result", "failed", "jobid"} : Report!Reply(j, a)
               \/ UNCHANGED Report!vars
    <3>1. UNCHANGED <<owner, kind, res, log, board>>
      BY <2>5 DEF AnswerResult, AnswerFailure, HandlerBreaks, HandlerAnswer, threadVars,
         boardVars
    <3>2. CASE AnswerResult(j)
      <4>1. Resume(j, "result") /\ (kind[j] # "preview" => res[j] = "success")
        BY <3>2 DEF AnswerResult, Goto, Flow, AtTheEnd
      <4>2. QED
        BY <3>1, <4>1, ResumeReplies
    <3>3. CASE AnswerFailure(j) \/ HandlerBreaks(j)
      <4>1. Resume(j, "failed")
        BY <3>3 DEF AnswerFailure, HandlerBreaks
      <4>2. QED
        BY <3>1, <4>1, ResumeReplies
    <3>4. CASE HandlerAnswer(j)
      <4>1. Resume(j, "jobid") /\ log[j] # <<>>
        BY <3>4 DEF HandlerAnswer, Told
      <4>2. QED
        BY <3>1, <4>1, ResumeReplies
    <3>5. QED
      BY <2>5, <3>2, <3>3, <3>4
  <2>6. CASE UNCHANGED vars
    BY <2>6, Unseen DEF vars, threadVars, boardVars, Report!vars
  <2>7. QED
    BY <2>1, <2>2, <2>p, <2>3, <2>4, <2>5, <2>6, ConsumptionLearns, RestartCrashes
       DEF Next, ThreadStep, HandlerStep, Report!Next
<1>3. QED
  BY <1>1, <1>2, TypeCorrect, FlowCorrect, PublishedCorrect, MappedCorrect, ToldCorrect, PTL
     DEF Spec, ImplementsAsyncJob, Report!Spec

=============================================================================
