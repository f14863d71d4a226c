--------------------------- MODULE NamedQueryJobs ---------------------------
(***************************************************************************)
(* Named queries that run asynchronously.  A request suspends its HTTP     *)
(* answer and a thread of its own looks the query up, takes a connection,  *)
(* binds the variables, executes, delivers the result and answers.  When   *)
(* the answer is not there in time a timeout handler of another thread     *)
(* records the job in the node's map, publishes it on the state stream and *)
(* answers with the job id; clients then poll the map of any node.         *)
(*                                                                         *)
(* The job's NamedQueryResponse is ONE mutable object (res, result): the   *)
(* thread changes it while the handler has put it in the map, and a        *)
(* publication copies whatever it holds at that moment.                    *)
(*                                                                         *)
(* Assumed of the state stream: an update copies the object and appends it *)
(* in one step, and the updates of one key reach each node in order.       *)
(***************************************************************************)
EXTENDS Naturals, Sequences, FiniteSets

CONSTANTS
  Nodes,          \* instances ("pods") of the service
  Jobs,           \* requests, each with the job it starts
  MaxPool,        \* connections in the pool of one node
  MaxRestarts,    \* bound: how often a node restarts
  StreamMayFail   \* whether a publication on the state stream can throw

ASSUME JobsAssumption ==
  /\ MaxPool \in Nat
  /\ MaxRestarts \in Nat
  /\ StreamMayFail \in BOOLEAN

VARIABLES
  owner,     \* owner[j]: the node that received the request
  kind,      \* kind[j]: what is asked for, and what the query yields
  pc,        \* pc[j]: where the request's thread is
  res,       \* res[j]: jobStatus of the live response object
  result,    \* result[j]: whether its result and result count are set
  timeout,   \* timeout[j]: the AtomicBoolean shared with the handler
  handler,   \* handler[j]: the timer, then where its handler is
  answer,    \* answer[j]: what the suspended HTTP response was resumed with
  conn,      \* conn[j]: a pooled connection is out for this request
  local,     \* local[j]: run() (or previewQuery()) has it in its variable
  board,     \* board[n][j]: the entry in node n's namedQueryResponseMap
  log,       \* log[j]: the copies published under the job id, oldest first
  applied,   \* applied[n][j]: how many of them node n has consumed
  restarts   \* restarts[n]: restarts of node n so far

threadVars == <<owner, kind, pc, res, result, conn, local>>
timerVars  == <<timeout, handler>>
boardVars  == <<board, log, applied>>
vars == <<threadVars, timerVars, answer, boardVars, restarts>>

-----------------------------------------------------------------------------
(* "preview" is the preview command; the others are the execute command on *)
(* a query that yields rows for the answer, rows for a stream, or a count. *)
Kinds == {"preview", "rows", "topic", "update"}

Status == {"none", "starting", "executing", "executed", "writing", "success"}

(* The order of the states; no entry in a map comes before all of them.     *)
Stage == [none |-> 0, absent |-> 0, live |-> 0, starting |-> 1, executing |-> 2,
          executed |-> 3, writing |-> 4, success |-> 5]

(* A thread is "idle" before its request; "done", "threw" and "dead" end it. *)
ThreadPC == {"idle", "lookup", "preview", "bind", "execute", "executed",
             "writing", "finish", "check", "publish", "answering", "closing",
             "failing", "unwinding", "done", "threw", "dead"}

Over == {"done", "threw", "dead"}

HandlerPC == {"off", "armed", "put", "publish", "answer", "done", "broken"}

Answers == {"none", "result", "failed", "jobid", "lost"}

Copies == [status : Status, result : BOOLEAN]

Absent == [status |-> "absent", result |-> FALSE]
Live   == [status |-> "live", result |-> FALSE]     \* a reference to res

TypeOK ==
  /\ owner \in [Jobs -> Nodes]
  /\ kind \in [Jobs -> Kinds]
  /\ pc \in [Jobs -> ThreadPC]
  /\ res \in [Jobs -> Status]
  /\ result \in [Jobs -> BOOLEAN]
  /\ timeout \in [Jobs -> BOOLEAN]
  /\ handler \in [Jobs -> HandlerPC]
  /\ answer \in [Jobs -> Answers]
  /\ conn \in [Jobs -> BOOLEAN]
  /\ local \in [Jobs -> BOOLEAN]
  /\ board \in [Nodes -> [Jobs -> Copies \cup {Absent, Live}]]
  /\ log \in [Jobs -> Seq(Copies)]
  /\ applied \in [Nodes -> [Jobs -> Nat]]
  /\ restarts \in [Nodes -> Nat]

Init ==
  /\ owner \in [Jobs -> Nodes]
  /\ kind \in [Jobs -> Kinds]
  /\ pc = [j \in Jobs |-> "idle"]
  /\ res = [j \in Jobs |-> "none"]
  /\ result = [j \in Jobs |-> FALSE]
  /\ timeout = [j \in Jobs |-> FALSE]
  /\ handler = [j \in Jobs |-> "off"]
  /\ answer = [j \in Jobs |-> "none"]
  /\ conn = [j \in Jobs |-> FALSE]
  /\ local = [j \in Jobs |-> FALSE]
  /\ board = [n \in Nodes |-> [j \in Jobs |-> Absent]]
  /\ log = [j \in Jobs |-> <<>>]
  /\ applied = [n \in Nodes |-> [j \in Jobs |-> 0]]
  /\ restarts = [n \in Nodes |-> 0]

-----------------------------------------------------------------------------
(* Shared pieces *)

Goto(j, from, to) == pc[j] = from /\ pc' = [pc EXCEPT ![j] = to]

(* AsyncResponse.resume: the first call wins, a later one returns false. *)
Resume(j, a) ==
  answer' = IF answer[j] = "none" THEN [answer EXCEPT ![j] = a] ELSE answer

Snapshot(j) == [status |-> res[j], result |-> result[j]]

(* Fault: the copy that is published reports the end before it is reached. *)
EagerAppend(j) ==
  log' = [log EXCEPT ![j] = Append(@, [status |-> "success", result |-> result[j]])]

(* Fault: the copy is the one made when the request was accepted, unless   *)
(* nothing has been published yet.                                         *)
StaleAppend(j) ==
  log' = [log EXCEPT ![j] = Append(@,
            IF @ = <<>> THEN Snapshot(j) ELSE [status |-> "starting", result |-> FALSE])]

(* AppStateService.writeTaskToStream(res). *)
WriteTaskToStream(j) == log' = [log EXCEPT ![j] = Append(@, Snapshot(j))]

InUse(n) == Cardinality({j \in Jobs : owner[j] = n /\ conn[j]})

-----------------------------------------------------------------------------
(* The request's thread *)

(* POST {tenant}/{model}/{view} with command "execute" or "preview".  *)
Submit(j) ==
  /\ Goto(j, "idle", "lookup")
  /\ UNCHANGED <<owner, kind, res, result, conn, local, timerVars, answer,
                 boardVars, restarts>>

(* getQuery finds the text; execute then creates the response object and   *)
(* arms the timeout.  Nothing is armed for the preview command.            *)
LookUp(j) ==
  /\ Goto(j, "lookup", "preview")
  /\ IF kind[j] = "preview"
     THEN UNCHANGED <<res, handler>>
     ELSE /\ res' = [res EXCEPT ![j] = "starting"]
          /\ handler' = [handler EXCEPT ![j] = "armed"]
  /\ UNCHANGED <<owner, kind, result, conn, local, timeout, answer, boardVars,
                 restarts>>

(* "No Query found": thrown before the timeout is armed. *)
LookUpFails(j) ==
  /\ Goto(j, "lookup", "failing")
  /\ UNCHANGED <<owner, kind, res, result, conn, local, timerVars, answer,
                 boardVars, restarts>>

(* preview() throws before it holds a connection: the model named in the   *)
(* query is not the requested one, or the provider caught an SQLException  *)
(* (database down, pool empty until its own timeout) and returned null.    *)
PreviewRejects(j) ==
  /\ Goto(j, "preview", "failing")
  /\ UNCHANGED <<owner, kind, res, result, conn, local, timerVars, answer,
                 boardVars, restarts>>

OpenConnection(j) ==
  /\ Goto(j, "preview", "bind")
  /\ InUse(owner[j]) < MaxPool
  /\ conn' = [conn EXCEPT ![j] = TRUE]
  /\ UNCHANGED <<owner, kind, res, result, local, timerVars, answer, boardVars,
                 restarts>>

(* preview() throws while it holds one: the statement does not prepare, a  *)
(* variable is missing or its value does not convert.  The connection is   *)
(* in preview()'s own variable, which nobody closes.                       *)
BindFails(j) ==
  /\ Goto(j, "bind", "failing")
  /\ UNCHANGED <<owner, kind, res, result, conn, local, timerVars, answer,
                 boardVars, restarts>>

Bind(j) ==
  /\ local' = [local EXCEPT ![j] = TRUE]
  /\ IF kind[j] = "preview"
     THEN Goto(j, "bind", "closing") /\ UNCHANGED res
     ELSE Goto(j, "bind", "execute") /\ res' = [res EXCEPT ![j] = "executing"]
  /\ UNCHANGED <<owner, kind, result, conn, timerVars, answer, boardVars, restarts>>

Execute(j) ==
  /\ Goto(j, "execute", "executed")
  /\ res' = [res EXCEPT ![j] = "executed"]
  /\ UNCHANGED <<owner, kind, result, conn, local, timerVars, answer, boardVars,
                 restarts>>

(* execute() throws, the stream asked for does not exist, or the rows      *)
(* cannot be read or sent.                                                 *)
ExecuteFails(j) ==
  /\ \/ Goto(j, "execute", "failing")
     \/ kind[j] = "topic" /\ Goto(j, "executed", "failing")
     \/ Goto(j, "writing", "failing")
  /\ UNCHANGED <<owner, kind, res, result, conn, local, timerVars, answer,
                 boardVars, restarts>>

(* Rows are announced as "writing" before they are written; an update     *)
(* count is simply set.                                                   *)
TakeResult(j) ==
  /\ IF kind[j] = "update"
     THEN /\ Goto(j, "executed", "finish")
          /\ result' = [result EXCEPT ![j] = TRUE]
          /\ UNCHANGED res
     ELSE /\ Goto(j, "executed", "writing")
          /\ res' = [res EXCEPT ![j] = "writing"]
          /\ UNCHANGED result
  /\ UNCHANGED <<owner, kind, conn, local, timerVars, answer, boardVars, restarts>>

WriteResult(j) ==
  /\ Goto(j, "writing", "finish")
  /\ result' = [result EXCEPT ![j] = TRUE]
  /\ UNCHANGED <<owner, kind, res, conn, local, timerVars, answer, boardVars,
                 restarts>>

Finish(j) ==
  /\ Goto(j, "finish", "check")
  /\ res' = [res EXCEPT ![j] = "success"]
  /\ UNCHANGED <<owner, kind, result, conn, local, timerVars, answer, boardVars,
                 restarts>>

(* Fault: a job that has timed out is never published again. *)
NeverRepublish(j) ==
  /\ Goto(j, "check", "answering")
  /\ UNCHANGED <<owner, kind, res, result, conn, local, timerVars, answer,
                 boardVars, restarts>>

CheckTimeout(j) ==
  /\ IF timeout[j] THEN Goto(j, "check", "publish") ELSE Goto(j, "check", "answering")
  /\ UNCHANGED <<owner, kind, res, result, conn, local, timerVars, answer,
                 boardVars, restarts>>

Publish(j) ==
  /\ Goto(j, "publish", "answering")
  /\ WriteTaskToStream(j)
  /\ UNCHANGED <<owner, kind, res, result, conn, local, timerVars, answer, board,
                 applied, restarts>>

PublishFails(j) ==
  /\ StreamMayFail
  /\ Goto(j, "publish", "failing")
  /\ UNCHANGED <<owner, kind, res, result, conn, local, timerVars, answer,
                 boardVars, restarts>>

(* execute answers before its finally block, preview after it. *)
AnswerResult(j) ==
  /\ Goto(j, "answering", IF kind[j] = "preview" THEN "done" ELSE "closing")
  /\ Resume(j, "result")
  /\ UNCHANGED <<owner, kind, res, result, conn, local, timerVars, boardVars,
                 restarts>>

(* Fault: an error is only logged, the suspended response is left alone. *)
SilentFailure(j) ==
  /\ Goto(j, "failing", "unwinding")
  /\ UNCHANGED <<owner, kind, res, result, conn, local, timerVars, answer,
                 boardVars, restarts>>

(* catch (Exception e): a FAILED answer, nothing in the map, nothing       *)
(* published; then the finally block and the exception ends the thread.    *)
AnswerFailure(j) ==
  /\ Goto(j, "failing", "unwinding")
  /\ Resume(j, "failed")
  /\ UNCHANGED <<owner, kind, res, result, conn, local, timerVars, boardVars,
                 restarts>>

(* Fault: the connection is returned on the normal path only. *)
CloseOnSuccessOnly(j) ==
  /\ \/ Goto(j, "closing", IF kind[j] = "preview" THEN "answering" ELSE "done")
     \/ Goto(j, "unwinding", "threw")
  /\ conn' = [conn EXCEPT ![j] = pc[j] = "unwinding" /\ @]
  /\ UNCHANGED <<owner, kind, res, result, local, timerVars, answer, boardVars,
                 restarts>>

(* finally: only a connection the variable knows of goes back to the pool. *)
Close(j) ==
  /\ \/ Goto(j, "closing", IF kind[j] = "preview" THEN "answering" ELSE "done")
     \/ Goto(j, "unwinding", "threw")
  /\ conn' = [conn EXCEPT ![j] = @ /\ ~local[j]]
  /\ UNCHANGED <<owner, kind, res, result, local, timerVars, answer, boardVars,
                 restarts>>

-----------------------------------------------------------------------------
(* The timeout handler *)

(* Fault: the handler does not tell the thread. *)
TimerFiresUnflagged(j) ==
  /\ handler[j] = "armed" /\ answer[j] = "none"
  /\ handler' = [handler EXCEPT ![j] = "put"]
  /\ UNCHANGED <<threadVars, timeout, answer, boardVars, restarts>>

(* The timer fires only on a response that is still suspended; setting the *)
(* flag is the handler's first statement.                                  *)
TimerFires(j) ==
  /\ handler[j] = "armed" /\ answer[j] = "none"
  /\ handler' = [handler EXCEPT ![j] = "put"]
  /\ timeout' = [timeout EXCEPT ![j] = TRUE]
  /\ UNCHANGED <<threadVars, answer, boardVars, restarts>>

(* Fault: the handler leaves the map to the state stream. *)
HandlerSkipsPut(j) ==
  /\ handler[j] = "put"
  /\ handler' = [handler EXCEPT ![j] = "publish"]
  /\ UNCHANGED <<threadVars, timeout, answer, boardVars, restarts>>

HandlerPut(j) ==
  /\ handler[j] = "put"
  /\ handler' = [handler EXCEPT ![j] = "publish"]
  /\ board' = [board EXCEPT ![owner[j]][j] = Live]
  /\ UNCHANGED <<threadVars, timeout, answer, log, applied, restarts>>

HandlerPublish(j) ==
  /\ handler[j] = "publish"
  /\ handler' = [handler EXCEPT ![j] = "answer"]
  /\ WriteTaskToStream(j)
  /\ UNCHANGED <<threadVars, timeout, answer, board, applied, restarts>>

(* A handler that throws has the container resume the response with it. *)
HandlerBreaks(j) ==
  /\ StreamMayFail
  /\ handler[j] = "publish"
  /\ handler' = [handler EXCEPT ![j] = "broken"]
  /\ Resume(j, "failed")
  /\ UNCHANGED <<threadVars, timeout, boardVars, restarts>>

HandlerAnswer(j) ==
  /\ handler[j] = "answer"
  /\ handler' = [handler EXCEPT ![j] = "done"]
  /\ Resume(j, "jobid")
  /\ UNCHANGED <<threadVars, timeout, boardVars, restarts>>

-----------------------------------------------------------------------------
(* The state stream and the life of a node *)

(* processJobResponse -> setJobIdStatus: the copy replaces whatever the    *)
(* map holds, the live object of the node's own job included.              *)
Consume(n, j) ==
  /\ applied[n][j] < Len(log[j])
  /\ applied' = [applied EXCEPT ![n][j] = @ + 1]
  /\ board' = [board EXCEPT ![n][j] = log[j][applied[n][j] + 1]]
  /\ UNCHANGED <<threadVars, timerVars, answer, log, restarts>>

(* The process ends and starts again: threads, timers, map and pool are    *)
(* gone, and the subscription continues after the events whose consumption *)
(* was recorded; the last one of a job may come again.                     *)
Restart(n) ==
  /\ restarts[n] < MaxRestarts
  /\ restarts' = [restarts EXCEPT ![n] = @ + 1]
  /\ \E again \in SUBSET {j \in Jobs : applied[n][j] > 0} :
       applied' = [applied EXCEPT ![n] =
                     [j \in Jobs |-> IF j \in again THEN @[j] - 1 ELSE @[j]]]
  /\ LET mine == {j \in Jobs : owner[j] = n /\ pc[j] # "idle"} IN
     /\ pc' = [j \in Jobs |-> IF j \in mine /\ pc[j] \notin Over
                              THEN "dead" ELSE pc[j]]
     /\ handler' = [j \in Jobs |-> IF j \in mine THEN "off" ELSE handler[j]]
     /\ conn' = [j \in Jobs |-> conn[j] /\ j \notin mine]
     /\ answer' = [j \in Jobs |-> IF j \in mine /\ answer[j] = "none"
                                  THEN "lost" ELSE answer[j]]
  /\ board' = [board EXCEPT ![n] = [j \in Jobs |-> Absent]]
  /\ UNCHANGED <<owner, kind, res, result, timeout, local, log>>

-----------------------------------------------------------------------------
ThreadStep(j) ==
  \/ LookUp(j) \/ LookUpFails(j) \/ PreviewRejects(j) \/ OpenConnection(j)
  \/ BindFails(j) \/ Bind(j) \/ Execute(j) \/ ExecuteFails(j) \/ TakeResult(j)
  \/ WriteResult(j) \/ Finish(j) \/ CheckTimeout(j) \/ Publish(j)
  \/ PublishFails(j) \/ AnswerResult(j) \/ AnswerFailure(j) \/ Close(j)

HandlerStep(j) ==
  \/ TimerFires(j) \/ HandlerPut(j) \/ HandlerPublish(j) \/ HandlerBreaks(j)
  \/ HandlerAnswer(j)

Next ==
  \/ \E j \in Jobs : Submit(j) \/ ThreadStep(j) \/ HandlerStep(j)
  \/ \E n \in Nodes, j \in Jobs : Consume(n, j)
  \/ \E n \in Nodes : Restart(n)

Spec == Init /\ [][Next]_vars

(* The lookup ends, timers fire, handlers and the stream's consumers run.  *)
(* Nothing is assumed of the database: preview() and execute() may hang.   *)
Fairness ==
  /\ \A j \in Jobs : /\ WF_vars(LookUp(j) \/ LookUpFails(j))
                     /\ WF_vars(AnswerFailure(j))
                     /\ WF_vars(HandlerStep(j))
                     /\ WF_vars(CheckTimeout(j) \/ Publish(j) \/ PublishFails(j))
  /\ \A n \in Nodes, j \in Jobs : WF_vars(Consume(n, j))

FairSpec == Spec /\ Fairness

-----------------------------------------------------------------------------
(* Properties *)

(* What the "status" command returns on node n. *)
Polled(n, j) == IF board[n][j] = Live THEN Snapshot(j) ELSE board[n][j]

(* A response that says "success", polled on any node or still travelling  *)
(* on the stream, carries the result, and the thread did reach the end: a  *)
(* copy of the mutable object is never ahead of the work.                  *)
SuccessCarriesResult ==
  \A j \in Jobs :
    /\ \A n \in Nodes : Polled(n, j).status = "success" => Polled(n, j).result
    /\ \A i \in 1..Len(log[j]) : log[j][i].status = "success" => log[j][i].result

(* When both writers are through - the thread past its check of the flag,  *)
(* the handler past its publication, whichever of them came first - and a  *)
(* node has consumed what they published, it reports the success.  So a    *)
(* job that timed out and is still reported as unfinished has failed: its  *)
(* thread ended by an exception, which is recorded nowhere.                *)
UnfinishedMeansFailed ==
  \A j \in Jobs, n \in Nodes :
    /\ pc[j] \in {"answering", "closing", "done"}
    /\ handler[j] \in {"answer", "done"}
    /\ applied[n][j] = Len(log[j])
    /\ restarts[n] = 0
    => Polled(n, j).status = "success"

(* What is published later is at least as far as what was published        *)
(* before, and nothing published is further than the job itself.  (A       *)
(* node's own map may go back, from the live object to a copy made         *)
(* earlier.)                                                               *)
StreamNeverRegresses ==
  \A j \in Jobs :
    /\ \A i \in 1..Len(log[j]) : Stage[log[j][i].status] <= Stage[res[j]]
    /\ \A i, k \in 1..Len(log[j]) :
         i < k => Stage[log[j][i].status] <= Stage[log[j][k].status]

(* A client that was sent away with a job id finds the job on the node     *)
(* that answered: "Job ID not exists" is impossible there until a restart. *)
JobIdIsKnown ==
  \A j \in Jobs :
    answer[j] = "jobid" /\ restarts[owner[j]] = 0 => board[owner[j]][j] # Absent

(* A connection outlives its thread only when preview() threw while it     *)
(* held it: the thread failed before it executed anything.                 *)
LeakOnlyWhenBindingFails ==
  \A j \in Jobs :
    pc[j] \in Over /\ conn[j] => pc[j] = "threw" /\ res[j] \in {"none", "starting"}

(* What a client polls on a node that is not the job's own never goes back *)
(* to an earlier stage, unless that node restarts.                         *)
OtherNodesNeverGoBack ==
  [][\A j \in Jobs, n \in Nodes :
       n # owner[j] /\ restarts'[n] = restarts[n]
       => Stage[board[n][j].status] <= Stage[board'[n][j].status]]_vars

(* Every execute request is answered, even when the database never does. *)
ExecuteIsAnswered ==
  \A j \in Jobs :
    pc[j] = "lookup" /\ kind[j] # "preview" ~> answer[j] # "none"

(* A job that succeeds after its timeout is in the end reported as         *)
(* successful by every node, unless a node it concerns restarts, or one of *)
(* its two publications fails.                                             *)
SuccessReachesEveryNode ==
  \A j \in Jobs, n \in Nodes :
    timeout[j] /\ res[j] = "success" ~>
      \/ Polled(n, j).status = "success"
      \/ restarts[n] # 0 \/ restarts[owner[j]] # 0
      \/ pc[j] \in {"failing", "unwinding", "threw"} \/ handler[j] = "broken"

-----------------------------------------------------------------------------
(* The abstract job.  A node other than the owner reports the copy in its  *)
(* map; the owner's own entry follows the live object and may go back to a *)
(* copy, so that nothing is said of it.  A preview has no job.             *)
JobStage == [j \in Jobs |-> Stage[res[j]]]

JobPublic ==
  [j \in Jobs |-> IF log[j] = <<>> THEN 0 ELSE Stage[log[j][Len(log[j])].status]]

JobSeen ==
  [n \in Nodes |-> [j \in Jobs |->
     IF n = owner[j] THEN 0 ELSE Stage[board[n][j].status]]]

JobSaid == [j \in Jobs |-> IF kind[j] = "preview" THEN "none" ELSE answer[j]]

Report == INSTANCE AsyncJob WITH
  Done <- Stage["success"], stage <- JobStage, public <- JobPublic,
  seen <- JobSeen, said <- JobSaid

(* Threads, timers, handlers, the stream and the restarts of the nodes     *)
(* together keep the promise of the abstract job: every step of them is a  *)
(* step of AsyncJob or leaves it as it is.                                 *)
ImplementsAsyncJob == Report!Spec

=============================================================================
