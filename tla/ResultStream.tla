---------------------------- MODULE ResultStream ----------------------------
(***************************************************************************)
(* ResultSetStreamUtil.stream: the rows of a result set go to a stream in  *)
(* payloads.  With a type name the payload is a JSON object that refers to *)
(* the array of rows; without one it is the array.  A payload is sent when *)
(* the number of rows read is a multiple of PayloadRows, and once more at  *)
(* the end for what is left.                                               *)
(*                                                                         *)
(* The object is not a variable: every row read makes it refer to the      *)
(* array again, and no payload is sent without a row read since the last.  *)
(* The registrar, the producer and the database are external and may fail. *)
(***************************************************************************)
EXTENDS Integers, Sequences

CONSTANTS
  PayloadRows,  \* PAYLOAD_RESULTSET_ROWS
  MaxRows       \* bound: rows of a result set

ASSUME StreamAssumption == PayloadRows \in Nat \ {0} /\ MaxRows \in Nat

VARIABLES
  total,     \* the rows of the result set are 1 .. total
  typed,     \* the request has a type name
  rowCount,
  jsonArray, \* the rows in the array
  sent,      \* the payloads the producer accepted: sequences of rows
  events,    \* the statuses with which the processor task was ended
  pc

streamVars == <<total, typed, rowCount, jsonArray, sent, events, pc>>

StreamPCs == {"idle", "next", "send", "last", "returned", "thrown"}

StreamInit ==
  /\ total = 0 /\ typed = FALSE
  /\ rowCount = 0 /\ jsonArray = <<>>
  /\ sent = <<>> /\ events = <<>> /\ pc = "idle"

-----------------------------------------------------------------------------
(* The call, with the result set and the type name of its request;         *)
(* newProcessorTask and beginProcessing may throw.                         *)
Begin ==
  /\ pc = "idle" /\ pc' \in {"next", "thrown"}
  /\ total' \in 0 .. MaxRows /\ typed' \in BOOLEAN
  /\ UNCHANGED <<rowCount, jsonArray, sent, events>>

(* The database throws: the task is not ended.                             *)
Throw ==
  /\ pc = "next" /\ pc' = "thrown"
  /\ UNCHANGED <<total, typed, rowCount, jsonArray, sent, events>>

ReadRow ==
  /\ pc = "next" /\ rowCount < total
  /\ rowCount' = rowCount + 1
  /\ jsonArray' = Append(jsonArray, rowCount + 1)
  /\ pc' = IF (rowCount + 1) % PayloadRows = 0 THEN "send" ELSE "next"
  /\ UNCHANGED <<total, typed, sent, events>>

(* A slip: the last rows are sent only when nothing was sent before.       *)
ExhaustedEarly ==
  /\ pc = "next" /\ rowCount = total
  /\ pc' = IF sent # <<>> \/ rowCount = 0 THEN "returned" ELSE "last"
  /\ UNCHANGED <<total, typed, rowCount, jsonArray, sent, events>>

(* rs.next() is false. *)
Exhausted ==
  /\ pc = "next" /\ rowCount = total
  /\ pc' = IF rowCount % PayloadRows = 0 THEN "returned" ELSE "last"
  /\ UNCHANGED <<total, typed, rowCount, jsonArray, sent, events>>

(* A slip: the array is a new one in neither case.                         *)
SendKeepsArray ==
  /\ pc \in {"send", "last"}
  /\ sent' = Append(sent, jsonArray)
  /\ events' = Append(events, "SUCCESS")
  /\ pc' = IF pc = "send" THEN "next" ELSE "returned"
  /\ UNCHANGED <<total, typed, rowCount, jsonArray>>

(* sendAsync and endProcessing(SUCCESS).  The reset gives a new object     *)
(* when there is a type name, a new array when there is none.              *)
Send ==
  /\ pc \in {"send", "last"}
  /\ sent' = Append(sent, jsonArray)
  /\ events' = Append(events, "SUCCESS")
  /\ jsonArray' = IF typed THEN jsonArray ELSE <<>>
  /\ pc' = IF pc = "send" THEN "next" ELSE "returned"
  /\ UNCHANGED <<total, typed, rowCount>>

(* sendAsync throws: endProcessing(ERROR), and the exception goes on.      *)
SendFails ==
  /\ pc \in {"send", "last"}
  /\ events' = Append(events, "ERROR")
  /\ pc' = "thrown"
  /\ UNCHANGED <<total, typed, rowCount, jsonArray, sent>>

StreamNext == Begin \/ Throw \/ ReadRow \/ Exhausted \/ Send \/ SendFails

StreamSpec == StreamInit /\ [][StreamNext]_streamVars

-----------------------------------------------------------------------------
Rows == 1 .. total

(* The types.                                                              *)
StreamTypeOK ==
  /\ total \in Nat /\ typed \in BOOLEAN /\ pc \in StreamPCs
  /\ rowCount \in 0 .. total /\ jsonArray \in Seq(Rows)
  /\ sent \in Seq(Seq(Rows)) /\ events \in Seq({"SUCCESS", "ERROR"})

(* The last row of the k-th payload. *)
LastRow(k) == IF k = 0 THEN 0 ELSE sent[k][Len(sent[k])]

(* s has the rows that follow row n, each once and in order. *)
Continues(s, n) == \A i \in 1 .. Len(s) : s[i] = n + i

(* Without a type name each payload begins with the row after the last of  *)
(* the payload before, and the array with the row after the last sent: no  *)
(* row is sent twice, left out or moved (the reset of line 126).           *)
EachRowOnce ==
  ~typed =>
    /\ \A k \in 1 .. Len(sent) : sent[k] # <<>> /\ Continues(sent[k], LastRow(k - 1))
    /\ Continues(jsonArray, LastRow(Len(sent)))
    /\ LastRow(Len(sent)) + Len(jsonArray) = rowCount

(* When the number of rows is returned, every row has reached the producer *)
(* in some payload, the last incomplete one included (line 131), with and  *)
(* without a type name, and every ending of the task was a success.        *)
ReturnedMeansSent ==
  pc = "returned" =>
    /\ \A r \in Rows : \E k \in 1 .. Len(sent) :
         \E i \in 1 .. Len(sent[k]) : sent[k][i] = r
    /\ Len(events) = Len(sent)
    /\ \A k \in 1 .. Len(events) : events[k] = "SUCCESS"
=============================================================================
