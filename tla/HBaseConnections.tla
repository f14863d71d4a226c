-------------------------- MODULE HBaseConnections --------------------------
(***************************************************************************)
(* Requests to HBase.  HBaseQuery keeps one connection object for the      *)
(* whole process: every request configures it (a new client connection     *)
(* replaces the one in the field, which is not closed), reads a table      *)
(* through it, and at its end closes whatever connection is in the field   *)
(* by then.                                                                *)
(*                                                                         *)
(* The HBase client is external: a connection, table or scanner can be     *)
(* opened and closed, a read through a closed connection fails, and HBase  *)
(* itself may refuse to connect or to read.                                *)
(***************************************************************************)
EXTENDS Integers, Sequences, FiniteSets

CONSTANTS
  Requests,  \* requests, each made once
  Kinds,     \* which of AllKinds they may be
  NRows,     \* the rows of the table are 1 .. NRows, in the order of their keys
  Sizes,     \* the page sizes (raw) or limits (GraphQL) asked for
  Pages,     \* the page offsets (raw) or skips (GraphQL) asked for
  IntLimit   \* ints run from -IntLimit to IntLimit - 1: 2^31, or less to overflow

AllKinds == {"rawKey", "rawScan", "gqlKey", "gqlScan"}

ASSUME HBaseAssumption ==
  /\ Kinds \subseteq AllKinds
  /\ NRows \in Nat
  /\ IntLimit \in Nat \ {0}
  /\ Sizes \cup Pages \subseteq 0 .. IntLimit - 1

VARIABLES
  made,   \* how many connections were created: they are 1 .. made
  open,   \* the connections not closed yet
  dbc,    \* HBaseConnectionImpl.dbc: the last connection configured, or 0
  req,    \* req[r]: the request
  crossed \* the requests that ran while another did (history)

vars == <<made, open, dbc, req, crossed>>

(* held: the tables and scanners it has not closed; via: the connection    *)
(* its table came from; rows: the rows it read.                            *)
PCs == {"idle", "configure", "open", "outer", "read", "closeTable",
        "closeScanner", "cleanUp", "done"}
Handles == {"outer", "table", "scanner"}
Answers == {"none", "rows", "refused", "closed"}

Idle == [kind |-> "rawKey", size |-> 0, page |-> 0, pc |-> "idle", held |-> {},
         via |-> 0, rows |-> <<>>, answer |-> "none"]

Running == {r \in Requests : req[r].pc \notin {"idle", "done"}}

Init ==
  /\ made = 0 /\ open = {} /\ dbc = 0 /\ crossed = {}
  /\ req = [r \in Requests |-> Idle]

-----------------------------------------------------------------------------
(* What a scan reads.  Both scans step over `size * (page - 1)` rows, in   *)
(* int arithmetic, and then read until a row is missing or, tested after   *)
(* each row, the count has reached the size.                               *)
AsInt(n) == ((n + IntLimit) % (2 * IntLimit)) - IntLimit

Smaller(a, b) == IF a < b THEN a ELSE b
Larger(a, b) == IF a > b THEN a ELSE b

SteppedOver(size, page) ==
  Smaller(NRows, Larger(0, AsInt(size * (page - 1))))

(* The count tested before each row instead. *)
RowsReadTestFirst(size, page) ==
  LET first == SteppedOver(size, page)
  IN [i \in 1 .. Smaller(NRows - first, size) |-> first + i]

RowsRead(size, page) ==
  LET first == SteppedOver(size, page)
  IN [i \in 1 .. Smaller(NRows - first, Larger(1, size)) |-> first + i]

-----------------------------------------------------------------------------
Step(r, from, new) ==
  /\ req[r].pc = from
  /\ req' = [req EXCEPT ![r] = new]

Arrive(r) ==
  /\ \E k \in Kinds, s \in Sizes, p \in Pages :
       Step(r, "idle", [Idle EXCEPT !.kind = k, !.size = s, !.page = p,
                                    !.pc = "configure"])
  /\ crossed' = IF Running = {} THEN crossed ELSE crossed \cup Running \cup {r}
  /\ UNCHANGED <<made, open, dbc>>

(* new HBaseQuery: dbc.configure. *)
Configure(r) ==
  /\ Step(r, "configure", [req[r] EXCEPT !.pc = "open"])
  /\ made' = made + 1
  /\ open' = open \cup {made + 1}
  /\ dbc' = made + 1
  /\ UNCHANGED crossed

(* The constructor throws: there is no HBaseQuery to clean up. *)
ConfigureRefused(r) ==
  /\ Step(r, "configure", [req[r] EXCEPT !.pc = "done", !.answer = "refused"])
  /\ UNCHANGED <<made, open, dbc, crossed>>

CloseEarly(r) ==
  /\ Step(r, "open", [req[r] EXCEPT !.pc = "read", !.held = {"table"}, !.via = dbc])
  /\ open' = open \ {dbc}
  /\ UNCHANGED <<made, dbc, crossed>>

(* dbc.getTable.  The scan of an ID filter has opened a table of its own   *)
(* before it calls gqlByRowKey, which opens another.                       *)
OpenTable(r) ==
  /\ \/ /\ req[r].kind = "gqlKey"
        /\ Step(r, "open", [req[r] EXCEPT !.pc = "outer", !.held = {"outer"}])
     \/ /\ req[r].kind # "gqlKey"
        /\ Step(r, "open", [req[r] EXCEPT !.pc = "read", !.held = {"table"}, !.via = dbc])
  /\ UNCHANGED <<made, open, dbc, crossed>>

OpenInnerTable(r) ==
  /\ Step(r, "outer", [req[r] EXCEPT !.pc = "read", !.held = @ \cup {"table"}, !.via = dbc])
  /\ UNCHANGED <<made, open, dbc, crossed>>

IsScan(r) == req[r].kind \in {"rawScan", "gqlScan"}

(* table.get: one row, or an empty one; the table is closed in a finally. *)
Get(r) ==
  /\ ~IsScan(r) /\ req[r].via \in open
  /\ \E found \in {<<>>} \cup {<<i>> : i \in 1 .. NRows} :
       Step(r, "read", [req[r] EXCEPT !.pc = "cleanUp", !.rows = found,
                          !.held = @ \ {"table"}, !.answer = "rows"])
  /\ UNCHANGED <<made, open, dbc, crossed>>

(* table.getScanner and the two loops over scanner.next. *)
Scan(r) ==
  /\ IsScan(r) /\ req[r].via \in open
  /\ Step(r, "read", [req[r] EXCEPT !.pc = "closeTable", !.held = @ \cup {"scanner"},
                        !.rows = RowsRead(req[r].size, req[r].page)])
  /\ UNCHANGED <<made, open, dbc, crossed>>

(* The read throws.  A get still closes its table; a scan closes nothing.  *)
ReadFails(r) ==
  /\ \E why \in {"refused", "closed"}, got \in SUBSET {"scanner"} :
       /\ why = "closed" <=> req[r].via \notin open
       /\ got # {} => IsScan(r)
       /\ Step(r, "read", [req[r] EXCEPT !.pc = "cleanUp", !.answer = why,
                             !.held = IF IsScan(r) THEN @ \cup got ELSE @ \ {"table"}])
  /\ UNCHANGED <<made, open, dbc, crossed>>

CloseTable(r) ==
  /\ Step(r, "closeTable", [req[r] EXCEPT !.pc = "closeScanner", !.held = @ \ {"table"}])
  /\ UNCHANGED <<made, open, dbc, crossed>>

(* A slip: only the table is closed. *)
CloseNoScanner(r) ==
  /\ Step(r, "closeScanner", [req[r] EXCEPT !.pc = "cleanUp", !.answer = "rows"])
  /\ UNCHANGED <<made, open, dbc, crossed>>

CloseScanner(r) ==
  /\ Step(r, "closeScanner", [req[r] EXCEPT !.pc = "cleanUp", !.held = @ \ {"scanner"},
                                !.answer = "rows"])
  /\ UNCHANGED <<made, open, dbc, crossed>>

(* A slip: the connection is closed only when rows were found. *)
CloseUnlessFailed(r) ==
  /\ Step(r, "cleanUp", [req[r] EXCEPT !.pc = "done"])
  /\ open' = IF req[r].answer = "rows" THEN open \ {dbc} ELSE open
  /\ UNCHANGED <<made, dbc, crossed>>

(* The finally of the caller: dbc.close(), then the answer goes out. *)
CleanUp(r) ==
  /\ Step(r, "cleanUp", [req[r] EXCEPT !.pc = "done"])
  /\ open' = open \ {dbc}
  /\ UNCHANGED <<made, dbc, crossed>>

Go(r) ==
  \/ Configure(r) \/ ConfigureRefused(r)
  \/ OpenTable(r) \/ OpenInnerTable(r)
  \/ Get(r) \/ Scan(r) \/ ReadFails(r)
  \/ CloseTable(r) \/ CloseScanner(r) \/ CleanUp(r)

Next == \E r \in Requests : Arrive(r) \/ Go(r)

Spec == Init /\ [][Next]_vars

-----------------------------------------------------------------------------
RequestType ==
  [kind : AllKinds, size : Nat, page : Nat, pc : PCs, held : SUBSET Handles,
   via : Nat, rows : Seq(1 .. NRows), answer : Answers]

TypeOK ==
  /\ made \in Nat
  /\ open \subseteq 1 .. made
  /\ dbc \in 0 .. made
  /\ req \in [Requests -> RequestType]
  /\ crossed \subseteq Requests

(* A request that no other request ran beside never finds its connection   *)
(* closed: it fails only when HBase refuses it.                            *)
AloneIsServed ==
  \A r \in Requests : req[r].answer = "closed" => r \in crossed

(* While requests came one after the other, no connection is open between  *)
(* two of them: what cleanUp closes is what the request configured.        *)
AloneLeavesNoConnection ==
  crossed = {} /\ Running = {} => open = {}

(* What the handlers give back of tables and scanners.  A get by row key   *)
(* gives its table back even when it fails, a scan only when it does not.  *)
HandlesGivenBack ==
  \A r \in Requests :
    req[r].pc \in {"cleanUp", "done"} =>
      /\ req[r].kind = "rawKey" => req[r].held = {}
      /\ IsScan(r) /\ req[r].answer = "rows" => req[r].held = {}

(* The rows of a page: pages are numbered from 1 (0 counts as 1) and have  *)
(* the size asked for (0 counts as 1).                                     *)
Offset(size, page) == size * Larger(0, page - 1)

PageRows(size, page) ==
  {i \in 1 .. NRows : Offset(size, page) < i /\ i <= Offset(size, page) + Larger(1, size)}

(* A raw scan answers with the rows of its page, each once and in the      *)
(* order of their keys, as long as the offset is an int.                   *)
RawScanIsAPage ==
  \A r \in Requests :
    LET q == req[r]
    IN q.kind = "rawScan" /\ q.answer = "rows" /\ Offset(q.size, q.page) < IntLimit =>
         /\ {q.rows[k] : k \in DOMAIN q.rows} = PageRows(q.size, q.page)
         /\ \A j, k \in DOMAIN q.rows : j < k => q.rows[j] < q.rows[k]

(* A connection that another has replaced in the field is never closed.    *)
ReplacedIsLost ==
  [][\A c \in open : c # dbc => c \in open']_vars
=============================================================================
