------------------------------ MODULE AsyncJob ------------------------------
(***************************************************************************)
(* What the asynchronous named queries promise about a job, however many   *)
(* threads, handlers and nodes take part: its work goes forward, what is   *)
(* announced about it is how far it was at that moment, what a node that   *)
(* did not receive the request reports lies between what it reported       *)
(* before and the last announcement, and the client is answered once: with *)
(* the result when the work is done, with a job id when there is something *)
(* to be polled.                                                           *)
(***************************************************************************)
EXTENDS Naturals

CONSTANTS
  Nodes,  \* who may report on a job
  Jobs,   \* what is asked for
  Done    \* the last stage of a job

VARIABLES
  stage,   \* stage[j]: how far the work is, 0 before it starts
  public,  \* public[j]: the stage announced last, 0 for none
  seen,    \* seen[n][j]: the stage node n reports, 0 while it knows nothing
  said     \* said[j]: what the client was told

vars == <<stage, public, seen, said>>

Stages == 0..Done

Init ==
  /\ stage = [j \in Jobs |-> 0]
  /\ public = [j \in Jobs |-> 0]
  /\ seen = [n \in Nodes |-> [j \in Jobs |-> 0]]
  /\ said = [j \in Jobs |-> "none"]

-----------------------------------------------------------------------------
Work(j) ==
  /\ \E s \in Stages : stage[j] < s /\ stage' = [stage EXCEPT ![j] = s]
  /\ UNCHANGED <<public, seen, said>>

Announce(j) ==
  /\ stage[j] > 0
  /\ public' = [public EXCEPT ![j] = stage[j]]
  /\ UNCHANGED <<stage, seen, said>>

Learn(n, j) ==
  /\ \E s \in Stages : /\ seen[n][j] <= s /\ s <= public[j]
                       /\ seen' = [seen EXCEPT ![n][j] = s]
  /\ UNCHANGED <<stage, public, said>>

(* The first answer is the only one. *)
Reply(j, a) ==
  /\ said[j] = "none"
  /\ a = "result" => stage[j] = Done
  /\ a = "jobid" => public[j] > 0
  /\ said' = [said EXCEPT ![j] = a]
  /\ UNCHANGED <<stage, public, seen>>

(* A node that stops forgets what it knew, and the answers it still owed.  *)
Crash(n) ==
  /\ seen' = [seen EXCEPT ![n] = [j \in Jobs |-> 0]]
  /\ \E owed \in SUBSET {j \in Jobs : said[j] = "none"} :
       said' = [j \in Jobs |-> IF j \in owed THEN "lost" ELSE said[j]]
  /\ UNCHANGED <<stage, public>>

Next ==
  \/ \E j \in Jobs : Work(j) \/ Announce(j)
  \/ \E n \in Nodes, j \in Jobs : Learn(n, j)
  \/ \E j \in Jobs : \E a \in {"result", "failed", "jobid"} : Reply(j, a)
  \/ \E n \in Nodes : Crash(n)

Spec == Init /\ [][Next]_vars

=============================================================================
