------------------------------ MODULE QueryRun ------------------------------
(***************************************************************************)
(* A named query from its text to its rows: preview() makes and binds the  *)
(* statement (NamedParameters), executeQuery runs it and hands its result  *)
(* set to the stream (ResultStream).  These are the steps Bind, Execute    *)
(* and WriteResult that NamedQueryJobs takes as one each.                  *)
(***************************************************************************)
EXTENDS NamedParameters, ResultStream

runVars == <<paramVars, streamVars>>

RunInit == ParamInit /\ StreamInit

Bind == ParamNext /\ UNCHANGED streamVars

(* A result set that goes to a stream, an answer without one (an update    *)
(* count, rows in the answer, the text of a preview), or an exception.     *)
Execute ==
  /\ stage = "ready" /\ stage' \in {"stream", "answer", "error"}
  /\ UNCHANGED <<scanned, variables, nextVar, params, originalSQL, streamVars>>

Write == stage = "stream" /\ StreamNext /\ UNCHANGED paramVars

RunNext == Bind \/ Execute \/ Write

RunSpec == RunInit /\ [][RunNext]_runVars
=============================================================================
