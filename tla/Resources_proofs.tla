-------------------------- MODULE Resources_proofs --------------------------
(***************************************************************************)
(* Proofs about what requests hold and give back: the row lock, for any    *)
(* processes, lease and bounds, and the HBase connections, for any number  *)
(* of requests, any table and any width of the code's integers.            *)
(***************************************************************************)
EXTENDS RecordLock, HBaseConnections, TLAPS

(***************************************************************************)
(* RecordLock                                                              *)
(***************************************************************************)

-----------------------------------------------------------------------------
(* The parts of the inductive invariant *)

Active(c, s) == stmt[c][s].state # "idle"

(* A get whose grant the client may still come to rely on. *)
Counting(c, s) == Active(c, s) /\ stmt[c][s].op = "get" /\ ~stmt[c][s].void

(* now() is read between the sending of a statement and the present. *)
Timely ==
  \A c \in Clients, s \in Slots :
    /\ Active(c, s) => stmt[c][s].sent <= clock
    /\ Active(c, s) /\ stmt[c][s].op = "get" => stmt[c][s].base <= stmt[c][s].sent
    /\ stmt[c][s].state \in {"started", "applied"} =>
         stmt[c][s].sent <= stmt[c][s].now /\ stmt[c][s].now <= clock

(* No release is relied on. *)
Void ==
  \A c \in Clients, s \in Slots :
    Active(c, s) /\ stmt[c][s].op = "release" => stmt[c][s].void

(* A lease is counted from no later than every statement of its client     *)
(* that may still change the row, and none of them releases it.            *)
Oldest ==
  \A c \in Clients :
    /\ \A s, t \in Slots : Counting(c, s) /\ Active(c, t) =>
         stmt[c][t].op = "get" /\ stmt[c][s].base <= stmt[c][t].sent
    /\ lease[c] # 0 =>
         /\ lease[c] <= clock + TTL
         /\ \A t \in Slots : Active(c, t) =>
              stmt[c][t].op = "get" /\ lease[c] <= stmt[c][t].sent + TTL

(* Until a lease is over the row carries its client, and expires no        *)
(* earlier; so does a grant whose answer is on its way.                    *)
Backed ==
  \A c \in Clients :
    /\ Holds(c) => row.id = c /\ lease[c] <= row.exp
    /\ \A s \in Slots :
         /\ Counting(c, s) /\ stmt[c][s].state = "applied" /\ stmt[c][s].count = 1
         /\ clock <= stmt[c][s].base + TTL
         => row.id = c /\ stmt[c][s].base + TTL <= row.exp

-----------------------------------------------------------------------------
(* What the steps do to a statement leaves a statement. *)
LEMMA StatementUpdates ==
  ASSUME NEW r \in Statements, NEW n \in Nat, NEW k \in {0, 1}
  PROVE  /\ [r EXCEPT !.void = TRUE] \in Statements
         /\ [r EXCEPT !.state = "started", !.now = n] \in Statements
         /\ [r EXCEPT !.state = "applied", !.count = k] \in Statements
<1>1. [r EXCEPT !.void = TRUE] \in Statements
  BY DEF Statements
<1>2. [r EXCEPT !.state = "started", !.now = n] \in Statements
  BY DEF Statements
<1>3. [r EXCEPT !.state = "applied", !.count = k] \in Statements
  BY DEF Statements
<1>4. QED
  BY <1>1, <1>2, <1>3

(* The row and the statements keep their shape. *)
THEOREM LockTypes == LockSpec => []LockTypeOK
<1>1. LockInit => LockTypeOK
  BY DEF LockInit, LockTypeOK, Rows, FreeRow, IdleStatement, Statements
<1>2. LockTypeOK /\ [LockNext]_lockVars => LockTypeOK'
  <2> SUFFICES ASSUME LockTypeOK, [LockNext]_lockVars
               PROVE  LockTypeOK'
    OBVIOUS
  <2>1. ASSUME NEW c \in Clients, NEW s \in Slots, SendGet(c, s)
        PROVE  LockTypeOK'
    <3>1. PICK b \in {clock} \cup {stmt[c][t].sent : t \in Unanswered(c)} :
            stmt' = [stmt EXCEPT ![c][s] =
                      [IdleStatement EXCEPT !.state = "sent", !.sent = clock, !.base = b,
                         !.void = \E t \in Unanswered(c) : stmt[c][t].op = "release"]]
      BY <2>1 DEF SendGet
    <3>2. b \in Nat
      BY DEF LockTypeOK, Statements, Unanswered
    <3>3. [IdleStatement EXCEPT !.state = "sent", !.sent = clock, !.base = b,
             !.void = \E t \in Unanswered(c) : stmt[c][t].op = "release"] \in Statements
      BY <3>2 DEF LockTypeOK, Statements, IdleStatement
    <3>4. QED
      BY <2>1, <3>1, <3>3 DEF SendGet, LockTypeOK
  <2>2. ASSUME NEW c \in Clients, NEW s \in Slots, SendRelease(c, s)
        PROVE  LockTypeOK'
    <3>1. \A t \in Slots : [stmt[c][t] EXCEPT !.void = TRUE] \in Statements
      BY StatementUpdates DEF LockTypeOK
    <3>2. [IdleStatement EXCEPT !.op = "release", !.state = "sent", !.sent = clock,
                       !.base = lease[c], !.void = TRUE] \in Statements
      BY DEF LockTypeOK, Statements, IdleStatement
    <3>3. QED
      BY <2>2, <3>1, <3>2 DEF SendRelease, LockTypeOK
  <2>3. ASSUME NEW c \in Clients, NEW s \in Slots, Answered(c, s)
        PROVE  LockTypeOK'
    <3>1. IdleStatement \in Statements /\ stmt[c][s].base + TTL \in Nat
      BY LockAssumption DEF LockTypeOK, Statements, IdleStatement
    <3>2. QED
      BY <2>3, <3>1 DEF Answered, LockTypeOK
  <2>4. ASSUME NEW c \in Clients, NEW s \in Slots, Start(c, s)
        PROVE  LockTypeOK'
    BY <2>4, StatementUpdates DEF Start, LockTypeOK
  <2>5. ASSUME NEW c \in Clients, NEW s \in Slots, Fail(c, s)
        PROVE  LockTypeOK'
    BY <2>5 DEF Fail, LockTypeOK, Statements, IdleStatement
  <2>6. ASSUME NEW c \in Clients, NEW s \in Slots, Apply(c, s)
        PROVE  LockTypeOK'
    <3>1. Updated(c, s) \in Rows
      BY LockAssumption DEF Updated, FreeRow, Rows, LockTypeOK, Statements
    <3>2. QED
      BY <2>6, <3>1, StatementUpdates DEF Apply, LockTypeOK
  <2>7. CASE Tick
    BY <2>7 DEF Tick, LockTypeOK
  <2>8. CASE UNCHANGED lockVars
    BY <2>8 DEF lockVars, LockTypeOK
  <2>9. QED
    BY <2>1, <2>2, <2>3, <2>4, <2>5, <2>6, <2>7, <2>8 DEF LockNext
<1>3. QED
  BY <1>1, <1>2, PTL DEF LockSpec

-----------------------------------------------------------------------------
LockInv == Timely /\ Void /\ Oldest /\ Backed

(* The fields of a statement are what their type says. *)
LEMMA Fields ==
  ASSUME LockTypeOK
  PROVE  /\ clock \in Nat /\ row.exp \in Nat
         /\ \A c \in Clients : lease[c] \in Nat
         /\ \A c \in Clients, s \in Slots :
              /\ stmt[c][s] \in Statements
              /\ stmt[c][s].sent \in Nat /\ stmt[c][s].base \in Nat
              /\ stmt[c][s].now \in Nat /\ stmt[c][s].void \in BOOLEAN
              /\ stmt[c][s].op \in {"get", "release"}
  BY DEF LockTypeOK, Rows, Statements

(* Only slot s of client c differs after the step. *)
Elsewhere(c, s) ==
  \A d \in Clients, t \in Slots : d # c \/ t # s => stmt'[d][t] = stmt[d][t]

(* Sending a get disturbs no lease: its now() is later than all of them. *)
LEMMA SendGetKeepsInv ==
  ASSUME LockTypeOK, LockInv, NEW c \in Clients, NEW s \in Slots, SendGet(c, s)
  PROVE  LockInv'
<1>1. /\ Elsewhere(c, s)
      /\ ~Active(c, s)
      /\ stmt'[c][s].state = "sent" /\ stmt'[c][s].op = "get"
      /\ stmt'[c][s].sent = clock
      /\ stmt'[c][s].base \in Nat /\ stmt'[c][s].base <= clock
      /\ \A t \in Slots : Active(c, t) => stmt'[c][s].base <= stmt[c][t].sent
      /\ stmt'[c][s].void = \E t \in Slots : Active(c, t) /\ stmt[c][t].op = "release"
      /\ row' = row /\ clock' = clock /\ lease' = lease
  <2>1. PICK b \in {clock} \cup {stmt[c][t].sent : t \in Unanswered(c)} :
          /\ \A t \in Unanswered(c) : b <= stmt[c][t].sent
          /\ stmt' = [stmt EXCEPT ![c][s] =
                    [IdleStatement EXCEPT !.state = "sent", !.sent = clock, !.base = b,
                       !.void = \E t \in Unanswered(c) : stmt[c][t].op = "release"]]
    BY DEF SendGet
  <2>2. stmt'[c][s] = [IdleStatement EXCEPT !.state = "sent", !.sent = clock, !.base = b,
                         !.void = \E t \in Unanswered(c) : stmt[c][t].op = "release"]
    BY <2>1 DEF LockTypeOK
  <2>3. /\ stmt'[c][s].state = "sent" /\ stmt'[c][s].op = "get"
        /\ stmt'[c][s].sent = clock /\ stmt'[c][s].base = b
        /\ stmt'[c][s].void = \E t \in Unanswered(c) : stmt[c][t].op = "release"
    BY <2>2 DEF IdleStatement
  <2>4. b \in Nat /\ b <= clock
    BY Fields DEF LockInv, Timely, Unanswered, Active
  <2>5. Elsewhere(c, s)
    BY <2>1 DEF Elsewhere, LockTypeOK
  <2>6. QED
    BY <2>1, <2>3, <2>4, <2>5 DEF SendGet, Unanswered, Active
<1>2. Timely'
  BY <1>1, Fields DEF LockInv, Timely, Active, Elsewhere
<1>3. Oldest'
  <2>1. ASSUME NEW d \in Clients, d # c
        PROVE  /\ \A u, t \in Slots : Counting(d, u)' /\ Active(d, t)' =>
                    stmt'[d][t].op = "get" /\ stmt'[d][u].base <= stmt'[d][t].sent
               /\ lease'[d] # 0 =>
                    /\ lease'[d] <= clock' + TTL
                    /\ \A t \in Slots : Active(d, t)' =>
                         stmt'[d][t].op = "get" /\ lease'[d] <= stmt'[d][t].sent + TTL
    BY <1>1, <2>1 DEF LockInv, Oldest, Counting, Active, Elsewhere
  <2>2. ASSUME NEW u \in Slots, NEW t \in Slots, Counting(c, u)', Active(c, t)'
        PROVE  stmt'[c][t].op = "get" /\ stmt'[c][u].base <= stmt'[c][t].sent
    <3>1. CASE u # s /\ t # s
      BY <1>1, <2>2, <3>1 DEF LockInv, Oldest, Counting, Active, Elsewhere
    <3>2. CASE u # s /\ t = s
      <4>1. stmt[c][u].base <= stmt[c][u].sent /\ stmt[c][u].sent <= clock
        BY <1>1, <2>2, <3>2 DEF LockInv, Timely, Counting, Active, Elsewhere
      <4>2. QED
        BY <1>1, <3>2, <4>1, Fields DEF Elsewhere
    <3>3. CASE u = s /\ t # s
      <4>1. ~stmt'[c][s].void /\ Active(c, t) /\ stmt'[c][t] = stmt[c][t]
        BY <1>1, <2>2, <3>3 DEF Counting, Active, Elsewhere
      <4>2. QED
        BY <1>1, <3>3, <4>1, Fields
    <3>4. CASE u = s /\ t = s
      BY <1>1, <3>4
    <3>5. QED
      BY <3>1, <3>2, <3>3, <3>4
  <2>3. ASSUME lease'[c] # 0
        PROVE  /\ lease'[c] <= clock' + TTL
               /\ \A t \in Slots : Active(c, t)' =>
                    stmt'[c][t].op = "get" /\ lease'[c] <= stmt'[c][t].sent + TTL
    BY <1>1, <2>3 DEF LockInv, Oldest, Active, Elsewhere
  <2>4. QED
    BY <2>1, <2>2, <2>3 DEF Oldest
<1>4. Backed'
  BY <1>1 DEF LockInv, Backed, Counting, Active, Holds, Elsewhere
<1>5. Void'
  BY <1>1 DEF LockInv, Void, Active, Elsewhere
<1>6. QED
  BY <1>2, <1>3, <1>4, <1>5 DEF LockInv

(* A client that sends a release relies on nothing any more. *)
LEMMA SendReleaseKeepsInv ==
  ASSUME LockTypeOK, LockInv, NEW c \in Clients, NEW s \in Slots, SendRelease(c, s)
  PROVE  LockInv'
<1>1. /\ \A d \in Clients, t \in Slots : d # c => stmt'[d][t] = stmt[d][t]
      /\ \A d \in Clients : d # c => lease'[d] = lease[d]
      /\ lease'[c] = 0
      /\ \A t \in Slots : stmt'[c][t].void = TRUE
      /\ stmt'[c][s].op = "release" /\ stmt'[c][s].sent = clock
      /\ stmt'[c][s].state = "sent"
      /\ \A t \in Slots : t # s =>
           /\ stmt'[c][t].state = stmt[c][t].state /\ stmt'[c][t].op = stmt[c][t].op
           /\ stmt'[c][t].sent = stmt[c][t].sent /\ stmt'[c][t].base = stmt[c][t].base
           /\ stmt'[c][t].now = stmt[c][t].now
      /\ row' = row /\ clock' = clock
  <2>1. \A t \in Slots : stmt'[c][t] =
          IF t = s
          THEN [IdleStatement EXCEPT !.op = "release", !.state = "sent", !.sent = clock,
                            !.base = lease[c], !.void = TRUE]
          ELSE [stmt[c][t] EXCEPT !.void = TRUE]
    BY DEF SendRelease, LockTypeOK
  <2>2. \A r \in Statements : LET q == [r EXCEPT !.void = TRUE] IN
          /\ q.void = TRUE /\ q.state = r.state /\ q.op = r.op /\ q.sent = r.sent
          /\ q.base = r.base /\ q.now = r.now
    BY DEF Statements
  <2>3. \A d \in Clients, t \in Slots : d # c => stmt'[d][t] = stmt[d][t]
    BY DEF SendRelease, LockTypeOK
  <2>4. \A t \in Slots : t # s => stmt'[c][t] = [stmt[c][t] EXCEPT !.void = TRUE]
    BY <2>1
  <2>5. \A t \in Slots : t # s =>
          /\ stmt'[c][t].void = TRUE
          /\ stmt'[c][t].state = stmt[c][t].state /\ stmt'[c][t].op = stmt[c][t].op
          /\ stmt'[c][t].sent = stmt[c][t].sent /\ stmt'[c][t].base = stmt[c][t].base
          /\ stmt'[c][t].now = stmt[c][t].now
    <3> TAKE t \in Slots
    <3> HAVE t # s
    <3>1. stmt[c][t] \in Statements /\ stmt'[c][t] = [stmt[c][t] EXCEPT !.void = TRUE]
      BY <2>4, Fields
    <3>2. QED
      BY <2>2, <3>1
  <2>6. /\ stmt'[c][s].void = TRUE /\ stmt'[c][s].op = "release"
        /\ stmt'[c][s].sent = clock /\ stmt'[c][s].state = "sent"
    BY <2>1 DEF IdleStatement
  <2>7. QED
    BY <2>3, <2>5, <2>6 DEF SendRelease, LockTypeOK
<1>2. Timely'
  BY <1>1, Fields DEF LockInv, Timely, Active
<1>3. Oldest'
  BY <1>1, Fields DEF LockInv, Oldest, Counting, Active
<1>4. Backed'
  BY <1>1, Fields DEF LockInv, Backed, Counting, Active, Holds
<1>5. Void'
  BY <1>1 DEF LockInv, Void, Active
<1>6. QED
  BY <1>2, <1>3, <1>4, <1>5 DEF LockInv

(* An answer turns a grant that is backed into a lease that is backed. *)
LEMMA AnsweredKeepsInv ==
  ASSUME LockTypeOK, LockInv, NEW c \in Clients, NEW s \in Slots, Answered(c, s)
  PROVE  LockInv'
<1>1. /\ Elsewhere(c, s)
      /\ stmt'[c][s].state = "idle"
      /\ stmt[c][s].state = "applied"
      /\ row' = row /\ clock' = clock
      /\ \A d \in Clients : d # c => lease'[d] = lease[d]
      /\ \/ lease'[c] = 0
         \/ lease'[c] = lease[c]
         \/ /\ stmt[c][s].count = 1 /\ ~stmt[c][s].void
            /\ lease'[c] = stmt[c][s].base + TTL /\ lease[c] < lease'[c]
  BY DEF Answered, LockTypeOK, Elsewhere, IdleStatement
<1>2. stmt[c][s].op = "get" \/ stmt[c][s].void
  BY <1>1, Fields DEF LockInv, Void, Active
<1>3. Timely'
  BY <1>1, Fields DEF LockInv, Timely, Active, Elsewhere
<1>4. Oldest'
  BY <1>1, <1>2, Fields, LockAssumption
     DEF LockInv, Timely, Oldest, Counting, Active, Elsewhere
<1>5. Backed'
  BY <1>1, <1>2, Fields DEF LockInv, Backed, Counting, Active, Holds, Elsewhere
<1>6. Void'
  BY <1>1 DEF LockInv, Void, Active, Elsewhere
<1>7. QED
  BY <1>3, <1>4, <1>5, <1>6 DEF LockInv

(* A statement that starts reads the present time. *)
LEMMA StartKeepsInv ==
  ASSUME LockTypeOK, LockInv, NEW c \in Clients, NEW s \in Slots, Start(c, s)
  PROVE  LockInv'
<1>1. /\ Elsewhere(c, s)
      /\ stmt[c][s].state = "sent" /\ stmt'[c][s].state = "started"
      /\ stmt'[c][s].now = clock
      /\ stmt'[c][s].op = stmt[c][s].op /\ stmt'[c][s].void = stmt[c][s].void
      /\ stmt'[c][s].sent = stmt[c][s].sent /\ stmt'[c][s].base = stmt[c][s].base
      /\ row' = row /\ clock' = clock /\ lease' = lease
  <2>1. stmt'[c][s] = [stmt[c][s] EXCEPT !.state = "started", !.now = clock]
    BY DEF Start, LockTypeOK
  <2>2. stmt[c][s] \in Statements
    BY Fields
  <2>3. /\ stmt'[c][s].state = "started" /\ stmt'[c][s].now = clock
        /\ stmt'[c][s].op = stmt[c][s].op /\ stmt'[c][s].void = stmt[c][s].void
        /\ stmt'[c][s].sent = stmt[c][s].sent /\ stmt'[c][s].base = stmt[c][s].base
    BY <2>1, <2>2 DEF Statements
  <2>4. QED
    BY <2>3 DEF Start, LockTypeOK, Elsewhere
<1>2. Timely'
  BY <1>1, Fields DEF LockInv, Timely, Active, Elsewhere
<1>3. Void'
  BY <1>1 DEF LockInv, Void, Active, Elsewhere
<1>4. Oldest'
  BY <1>1 DEF LockInv, Oldest, Counting, Active, Elsewhere
<1>5. Backed'
  BY <1>1 DEF LockInv, Backed, Counting, Active, Holds, Elsewhere
<1>6. QED
  BY <1>2, <1>3, <1>4, <1>5 DEF LockInv

(* A refused statement disturbs nothing. *)
LEMMA FailKeepsInv ==
  ASSUME LockTypeOK, LockInv, NEW c \in Clients, NEW s \in Slots, Fail(c, s)
  PROVE  LockInv'
<1>1. /\ Elsewhere(c, s)
      /\ stmt'[c][s].state = "idle"
      /\ row' = row /\ clock' = clock /\ lease' = lease
  BY DEF Fail, LockTypeOK, Elsewhere, IdleStatement
<1>2. Timely'
  BY <1>1 DEF LockInv, Timely, Active, Elsewhere
<1>3. Void'
  BY <1>1 DEF LockInv, Void, Active, Elsewhere
<1>4. Oldest'
  BY <1>1 DEF LockInv, Oldest, Counting, Active, Elsewhere
<1>5. Backed'
  BY <1>1 DEF LockInv, Backed, Counting, Active, Holds, Elsewhere
<1>6. QED
  BY <1>2, <1>3, <1>4, <1>5 DEF LockInv

(* A statement that is applied takes nobody's running lease: it finds the  *)
(* row free, expired before its now(), or carrying its own client.         *)
LEMMA ApplyKeepsInv ==
  ASSUME LockTypeOK, LockInv, NEW c \in Clients, NEW s \in Slots, Apply(c, s)
  PROVE  LockInv'
<1> DEFINE hit == row.id \in {c, Free} \/ row.exp < stmt[c][s].now
<1>1. /\ Elsewhere(c, s)
      /\ stmt[c][s].state = "started" /\ stmt'[c][s].state = "applied"
      /\ stmt'[c][s].op = stmt[c][s].op /\ stmt'[c][s].void = stmt[c][s].void
      /\ stmt'[c][s].sent = stmt[c][s].sent /\ stmt'[c][s].base = stmt[c][s].base
      /\ stmt'[c][s].now = stmt[c][s].now
      /\ stmt'[c][s].count = (IF hit THEN 1 ELSE 0)
      /\ clock' = clock /\ lease' = lease
  <2>1. stmt'[c][s] = [stmt[c][s] EXCEPT !.state = "applied",
                                         !.count = IF hit THEN 1 ELSE 0]
    BY DEF Apply, Matches, LockTypeOK
  <2>2. stmt[c][s] \in Statements
    BY Fields
  <2>3. /\ stmt'[c][s].state = "applied"
        /\ stmt'[c][s].op = stmt[c][s].op /\ stmt'[c][s].void = stmt[c][s].void
        /\ stmt'[c][s].sent = stmt[c][s].sent /\ stmt'[c][s].base = stmt[c][s].base
        /\ stmt'[c][s].now = stmt[c][s].now
        /\ stmt'[c][s].count = (IF hit THEN 1 ELSE 0)
    BY <2>1, <2>2 DEF Statements
  <2>4. QED
    BY <2>3 DEF Apply, LockTypeOK, Elsewhere
<1>2. /\ ~hit => row' = row
      /\ hit /\ stmt[c][s].op = "get" => row'.id = c /\ row'.exp = stmt[c][s].now + TTL
  BY DEF Apply, Matches, Updated
<1>3. Timely'
  BY <1>1 DEF LockInv, Timely, Active, Elsewhere
<1>4. Void'
  BY <1>1 DEF LockInv, Void, Active, Elsewhere
<1>5. Oldest'
  BY <1>1 DEF LockInv, Oldest, Counting, Active, Elsewhere
<1>6. Backed'
  <2>1. stmt[c][s].sent <= stmt[c][s].now /\ stmt[c][s].now <= clock /\ Active(c, s)
    BY <1>1 DEF LockInv, Timely, Active
  <2>2. ASSUME NEW d \in Clients, d # c, row.id = d, clock <= row.exp
        PROVE  row' = row
    BY <1>2, <2>1, <2>2, Fields, LockAssumption
  <2>3. ASSUME NEW d \in Clients, d # c
        PROVE  /\ Holds(d)' => row'.id = d /\ lease'[d] <= row'.exp
               /\ \A u \in Slots :
                    /\ Counting(d, u)' /\ stmt'[d][u].state = "applied"
                    /\ stmt'[d][u].count = 1
                    /\ clock' <= stmt'[d][u].base + TTL
                    => row'.id = d /\ stmt'[d][u].base + TTL <= row'.exp
    <3>1. Holds(d)' => row'.id = d /\ lease'[d] <= row'.exp
      BY <1>1, <2>2, <2>3, Fields DEF LockInv, Backed, Holds
    <3>2. ASSUME NEW u \in Slots, Counting(d, u)', stmt'[d][u].state = "applied",
                 stmt'[d][u].count = 1, clock' <= stmt'[d][u].base + TTL
          PROVE  row'.id = d /\ stmt'[d][u].base + TTL <= row'.exp
      <4>1. stmt'[d][u] = stmt[d][u]
        BY <1>1, <2>3 DEF Elsewhere
      <4>2. row.id = d /\ stmt[d][u].base + TTL <= row.exp
        BY <1>1, <3>2, <4>1 DEF LockInv, Backed, Counting, Active
      <4>3. clock <= row.exp
        BY <1>1, <3>2, <4>1, <4>2, Fields, LockAssumption
      <4>4. QED
        BY <2>2, <2>3, <4>1, <4>2, <4>3
    <3>3. QED
      BY <3>1, <3>2
  <2>4. Holds(c)' => row'.id = c /\ lease'[c] <= row'.exp
    <3> SUFFICES ASSUME Holds(c)'
                 PROVE  row'.id = c /\ lease'[c] <= row'.exp
      OBVIOUS
    <3>1. /\ Holds(c) /\ row.id = c /\ lease[c] <= row.exp
      BY <1>1 DEF LockInv, Backed, Holds
    <3>2. stmt[c][s].op = "get" /\ lease[c] <= stmt[c][s].sent + TTL
      BY <2>1, <3>1 DEF LockInv, Oldest, Holds
    <3>3. QED
      BY <1>1, <1>2, <2>1, <3>1, <3>2, Fields, LockAssumption
  <2>5. ASSUME NEW u \in Slots, Counting(c, u)', stmt'[c][u].state = "applied",
               stmt'[c][u].count = 1, clock' <= stmt'[c][u].base + TTL
        PROVE  row'.id = c /\ stmt'[c][u].base + TTL <= row'.exp
    <3>1. CASE u = s
      <4>1. hit /\ stmt[c][s].op = "get"
        BY <1>1, <2>5, <3>1 DEF Counting
      <4>2. stmt[c][s].base <= stmt[c][s].sent
        BY <2>1, <4>1 DEF LockInv, Timely
      <4>3. QED
        BY <1>1, <1>2, <2>1, <3>1, <4>1, <4>2, Fields, LockAssumption
    <3>2. CASE u # s
      <4>1. stmt'[c][u] = stmt[c][u] /\ Counting(c, u)
        BY <1>1, <2>5, <3>2 DEF Elsewhere, Counting, Active
      <4>2. row.id = c /\ stmt[c][u].base + TTL <= row.exp
        BY <1>1, <2>5, <4>1 DEF LockInv, Backed
      <4>3. stmt[c][s].op = "get" /\ stmt[c][u].base <= stmt[c][s].sent
        BY <2>1, <4>1 DEF LockInv, Oldest
      <4>4. QED
        BY <1>2, <2>1, <4>1, <4>2, <4>3, Fields, LockAssumption
    <3>3. QED
      BY <3>1, <3>2
  <2>6. QED
    BY <2>3, <2>4, <2>5 DEF Backed
<1>7. QED
  BY <1>3, <1>4, <1>5, <1>6 DEF LockInv

(* Time only ends leases. *)
LEMMA TickKeepsInv ==
  ASSUME LockTypeOK, LockInv, Tick
  PROVE  LockInv'
<1>1. row' = row /\ stmt' = stmt /\ lease' = lease /\ clock' = clock + 1
  BY DEF Tick
<1>2. Timely'
  BY <1>1, Fields DEF LockInv, Timely, Active
<1>3. Void'
  BY <1>1 DEF LockInv, Void, Active
<1>4. Oldest'
  BY <1>1, Fields, LockAssumption DEF LockInv, Oldest, Counting, Active
<1>5. Backed'
  BY <1>1, Fields, LockAssumption DEF LockInv, Backed, Counting, Active, Holds
<1>6. QED
  BY <1>2, <1>3, <1>4, <1>5 DEF LockInv

(* Every lease a client counts on is written in the row. *)
THEOREM LockInvCorrect == LockSpec => []LockInv
<1>1. LockInit => LockInv
  BY DEF LockInit, LockInv, Timely, Void, Oldest, Backed, Counting, Active, Holds, IdleStatement
<1>2. LockTypeOK /\ LockInv /\ [LockNext]_lockVars => LockInv'
  <2> SUFFICES ASSUME LockTypeOK, LockInv, [LockNext]_lockVars
               PROVE  LockInv'
    OBVIOUS
  <2>1. CASE UNCHANGED lockVars
    BY <2>1 DEF lockVars, LockInv, Timely, Void, Oldest, Backed, Counting, Active, Holds
  <2>2. CASE LockNext
    BY <2>2, SendGetKeepsInv, SendReleaseKeepsInv, AnsweredKeepsInv, StartKeepsInv,
       FailKeepsInv, ApplyKeepsInv, TickKeepsInv DEF LockNext
  <2>3. QED
    BY <2>1, <2>2
<1>3. QED
  BY <1>1, <1>2, LockTypes, PTL DEF LockSpec

(* Two processes never count on the lock at the same time: the row carries *)
(* one lock_id.                                                            *)
THEOREM MutualExclusion == LockSpec => []Exclusive
<1>1. LockInv => Exclusive
  BY DEF LockInv, Backed, Exclusive
<1>2. QED
  BY <1>1, LockInvCorrect, PTL

(* Only its own process takes or releases a lock that has not expired.     *)
THEOREM LiveLockStays == LockSpec => LiveLockIsKept
<1> DEFINE Kept ==
      row.id # Free /\ row' # row /\ clock <= row.exp
      => \E s \in Slots : /\ stmt[row.id][s].state = "started"
                          /\ stmt'[row.id][s].state = "applied"
<1>1. LockTypeOK /\ LockInv /\ [LockNext]_lockVars => Kept
  <2> SUFFICES ASSUME LockTypeOK, LockInv, [LockNext]_lockVars,
                      row.id # Free, row' # row, clock <= row.exp
               PROVE  \E s \in Slots : /\ stmt[row.id][s].state = "started"
                                       /\ stmt'[row.id][s].state = "applied"
    OBVIOUS
  <2>1. PICK c \in Clients, s \in Slots : Apply(c, s)
    BY DEF LockNext, lockVars, SendGet, SendRelease, Answered, Start, Fail, Tick
  <2>2. stmt[c][s].state = "started" /\ stmt[c][s].now <= clock
    BY <2>1 DEF Apply, LockInv, Timely
  <2>3. row.id = c
    BY <2>1, <2>2, Fields DEF Apply, Matches
  <2>4. stmt'[c][s].state = "applied"
    <3>1. stmt'[c][s] = [stmt[c][s] EXCEPT !.state = "applied",
                           !.count = IF Matches(c, stmt[c][s].now) THEN 1 ELSE 0]
      BY <2>1 DEF Apply, LockTypeOK
    <3>2. QED
      BY <3>1, Fields DEF Statements
  <2>5. QED
    BY <2>2, <2>3, <2>4
<1>2. QED
  BY <1>1, LockTypes, LockInvCorrect, PTL DEF LockSpec, LiveLockIsKept

-----------------------------------------------------------------------------
(* A step of one client leaves the leases of the others, and the time.     *)
LEMMA OneClientOrTick ==
  ASSUME LockTypeOK, [LockNext]_lockVars
  PROVE  \/ \E c \in Clients : \A d \in Clients : d # c => (Holds(d)' <=> Holds(d))
         \/ \A d \in Clients : Holds(d)' => Holds(d)
<1>1. ASSUME NEW c \in Clients, NEW s \in Slots,
             \/ SendGet(c, s) \/ SendRelease(c, s) \/ Answered(c, s)
             \/ Start(c, s) \/ Fail(c, s) \/ Apply(c, s)
      PROVE  \A d \in Clients : d # c => (Holds(d)' <=> Holds(d))
  <2>1. clock' = clock
    BY <1>1 DEF SendGet, SendRelease, Answered, Start, Fail, Apply
  <2>2. \A d \in Clients : d # c => lease'[d] = lease[d]
    BY <1>1 DEF SendGet, SendRelease, Answered, Start, Fail, Apply, LockTypeOK
  <2>3. QED
    BY <2>1, <2>2 DEF Holds
<1>2. CASE Tick
  BY <1>2 DEF Tick, Holds, LockTypeOK
<1>3. CASE UNCHANGED lockVars
  BY <1>3 DEF lockVars, Holds
<1>4. QED
  BY <1>1, <1>2, <1>3 DEF LockNext

(* The row, its statements and the clients' leases implement the abstract  *)
(* lock: it changes hands only through a moment without a holder.          *)
THEOREM LeaseRefinement == LockSpec => ImplementsLease
<1> DEFINE holders == {c \in Clients : Holds(c)}
<1>1. LockInit => holders = {}
  BY DEF LockInit, Holds
<1>2. LockTypeOK /\ Exclusive /\ Exclusive' /\ [LockNext]_lockVars => [Lock!Next]_holders
  <2> SUFFICES ASSUME LockTypeOK, Exclusive, Exclusive', [LockNext]_lockVars,
                      holders' # holders
               PROVE  Lock!Next
    BY DEF Lock!Next
  <2>0. /\ \A c, d \in Clients : Holds(c) /\ Holds(d) => c = d
        /\ \A c, d \in Clients : Holds(c)' /\ Holds(d)' => c = d
    BY DEF Exclusive
  <2>1. PICK c \in Clients : Holds(c)' # Holds(c)
    <3> SUFFICES ASSUME \A c \in Clients : Holds(c)' = Holds(c)
                 PROVE  FALSE
      OBVIOUS
    <3>1. \A c \in Clients : c \in holders' <=> c \in holders
      OBVIOUS
    <3>2. QED
      BY <3>1
  <2>2. CASE Holds(c)
    <3>1. ~Holds(c)'
      BY <2>1, <2>2 DEF Holds
    <3>2. \A d \in Clients : d # c => ~Holds(d)'
      BY <2>0, <2>1, <2>2, <3>1, OneClientOrTick
    <3>3. holders = {c} /\ holders' = {}
      BY <2>0, <2>2, <3>1, <3>2
    <3>4. QED
      BY <3>3 DEF Lock!Next, Lock!Lose
  <2>3. CASE ~Holds(c)
    <3>1. Holds(c)'
      BY <2>1, <2>3 DEF Holds
    <3>2. \A d \in Clients : ~Holds(d)
      BY <2>0, <2>3, <3>1, OneClientOrTick
    <3>3. holders = {} /\ holders' = {c}
      BY <2>0, <3>1, <3>2
    <3>4. QED
      BY <3>3 DEF Lock!Next, Lock!Acquire
  <2>4. QED
    BY <2>2, <2>3
<1>3. LockInit => Lock!Init
  BY <1>1 DEF Lock!Init
<1>4. QED
  BY <1>2, <1>3, LockTypes, MutualExclusion, PTL DEF LockSpec, ImplementsLease, Lock!Spec

(***************************************************************************)
(* HBaseConnections                                                        *)
(***************************************************************************)

USE DEF PCs, Handles, Answers, AllKinds

-----------------------------------------------------------------------------
(* The type invariant *)

(* An int computed by the code is an integer. *)
LEMMA AsIntType ==
  ASSUME NEW n \in Int PROVE AsInt(n) \in Int
BY HBaseAssumption DEF AsInt

(* What a scan reads are rows of the table. *)
LEMMA RowsReadType ==
  ASSUME NEW size \in Nat, NEW page \in Nat
  PROVE  RowsRead(size, page) \in Seq(1 .. NRows)
<1> DEFINE first == SteppedOver(size, page)
           n == Smaller(NRows - first, Larger(1, size))
<1>1. size * (page - 1) \in Int
  OBVIOUS
<1>2. AsInt(size * (page - 1)) \in Int
  BY <1>1, AsIntType
<1>3. first \in 0 .. NRows
  BY <1>2, HBaseAssumption DEF SteppedOver, Smaller, Larger
<1>4. n \in Nat /\ n <= NRows - first
  BY <1>3, HBaseAssumption DEF Smaller, Larger
<1> HIDE DEF n, first
<1>5. \A i \in 1 .. n : first + i \in 1 .. NRows
  BY <1>3, <1>4, HBaseAssumption
<1>6. RowsRead(size, page) = [i \in 1 .. n |-> first + i]
  BY DEF RowsRead, n, first
<1>7. [i \in 1 .. n |-> first + i] \in [1 .. n -> 1 .. NRows]
  BY <1>5
<1> QED
  BY <1>4, <1>6, <1>7

LEMMA TypeInit == Init => TypeOK
BY DEF Init, TypeOK, Idle, RequestType

(* A step that gives a request a new record of its type keeps the type.    *)
LEMMA StepType ==
  ASSUME NEW r \in Requests, NEW from, NEW new \in RequestType,
         req \in [Requests -> RequestType], Step(r, from, new)
  PROVE  req' \in [Requests -> RequestType]
BY DEF Step

LEMMA TypeStep == TypeOK /\ [Next]_vars => TypeOK'
<1> SUFFICES ASSUME TypeOK, [Next]_vars PROVE TypeOK'
  OBVIOUS
<1> USE HBaseAssumption DEF TypeOK
<1>1. ASSUME NEW r \in Requests, Arrive(r) PROVE TypeOK'
  <2>1. PICK k \in Kinds, s \in Sizes, p \in Pages :
          Step(r, "idle", [Idle EXCEPT !.kind = k, !.size = s, !.page = p,
                                       !.pc = "configure"])
    BY <1>1 DEF Arrive
  <2>0. k \in AllKinds /\ s \in Nat /\ p \in Nat /\ <<>> \in Seq(1 .. NRows)
    BY DEF HBaseAssumption
  <2>2. [Idle EXCEPT !.kind = k, !.size = s, !.page = p, !.pc = "configure"] \in RequestType
    BY <2>0 DEF Idle, RequestType
  <2>3. Running \subseteq Requests
    BY DEF Running
  <2> QED
    BY <1>1, <2>1, <2>2, <2>3, StepType DEF Arrive
<1>2. ASSUME NEW r \in Requests, Go(r) PROVE TypeOK'
  <2> req[r] \in RequestType
    OBVIOUS
  <2>1. CASE Configure(r)
    <3>1. [req[r] EXCEPT !.pc = "open"] \in RequestType
      BY DEF RequestType
    <3> QED BY <2>1, <3>1, StepType DEF Configure
  <2>2. CASE ConfigureRefused(r)
    <3>1. [req[r] EXCEPT !.pc = "done", !.answer = "refused"] \in RequestType
      BY DEF RequestType
    <3> QED BY <2>2, <3>1, StepType DEF ConfigureRefused
  <2>3. CASE OpenTable(r)
    <3>0. {"outer"} \in SUBSET Handles /\ {"table"} \in SUBSET Handles /\ dbc \in Nat
      OBVIOUS
    <3>1. [req[r] EXCEPT !.pc = "outer", !.held = {"outer"}] \in RequestType
      BY <3>0 DEF RequestType
    <3>2. [req[r] EXCEPT !.pc = "read", !.held = {"table"}, !.via = dbc] \in RequestType
      BY <3>0 DEF RequestType
    <3> QED BY <2>3, <3>1, <3>2, StepType DEF OpenTable
  <2>4. CASE OpenInnerTable(r)
    <3>0. dbc \in Nat
      OBVIOUS
    <3>1. [req[r] EXCEPT !.pc = "read", !.held = @ \cup {"table"}, !.via = dbc] \in RequestType
      BY <3>0 DEF RequestType
    <3> QED BY <2>4, <3>1, StepType DEF OpenInnerTable
  <2>5. CASE Get(r)
    <3>1. PICK found \in {<<>>} \cup {<<i>> : i \in 1 .. NRows} :
            Step(r, "read", [req[r] EXCEPT !.pc = "cleanUp", !.rows = found,
                               !.held = @ \ {"table"}, !.answer = "rows"])
      BY <2>5 DEF Get
    <3>2. found \in Seq(1 .. NRows)
      <4>1. CASE found = <<>>
        BY <4>1
      <4>2. CASE \E i \in 1 .. NRows : found = <<i>>
        BY <4>2
      <4> QED
        BY <4>1, <4>2
    <3>3. [req[r] EXCEPT !.pc = "cleanUp", !.rows = found,
             !.held = @ \ {"table"}, !.answer = "rows"] \in RequestType
      BY <3>2 DEF RequestType
    <3> QED BY <2>5, <3>1, <3>3, StepType DEF Get
  <2>6. CASE Scan(r)
    <3>1. RowsRead(req[r].size, req[r].page) \in Seq(1 .. NRows)
      BY RowsReadType DEF RequestType
    <3>2. [req[r] EXCEPT !.pc = "closeTable", !.held = @ \cup {"scanner"},
             !.rows = RowsRead(req[r].size, req[r].page)] \in RequestType
      BY <3>1 DEF RequestType
    <3> QED BY <2>6, <3>2, StepType DEF Scan
  <2>7. CASE ReadFails(r)
    <3>1. PICK why \in {"refused", "closed"}, got \in SUBSET {"scanner"} :
            Step(r, "read", [req[r] EXCEPT !.pc = "cleanUp", !.answer = why,
                   !.held = IF IsScan(r) THEN @ \cup got ELSE @ \ {"table"}])
      BY <2>7 DEF ReadFails
    <3>2. [req[r] EXCEPT !.pc = "cleanUp", !.answer = why,
             !.held = IF IsScan(r) THEN @ \cup got ELSE @ \ {"table"}] \in RequestType
      BY DEF RequestType
    <3> QED BY <2>7, <3>1, <3>2, StepType DEF ReadFails
  <2>8. CASE CloseTable(r)
    <3>1. [req[r] EXCEPT !.pc = "closeScanner", !.held = @ \ {"table"}] \in RequestType
      BY DEF RequestType
    <3> QED BY <2>8, <3>1, StepType DEF CloseTable
  <2>9. CASE CloseScanner(r)
    <3>1. [req[r] EXCEPT !.pc = "cleanUp", !.held = @ \ {"scanner"}, !.answer = "rows"]
            \in RequestType
      BY DEF RequestType
    <3> QED BY <2>9, <3>1, StepType DEF CloseScanner
  <2>10. CASE CleanUp(r)
    <3>1. [req[r] EXCEPT !.pc = "done"] \in RequestType
      BY DEF RequestType
    <3> QED BY <2>10, <3>1, StepType DEF CleanUp
  <2> QED
    BY <1>2, <2>1, <2>2, <2>3, <2>4, <2>5, <2>6, <2>7, <2>8, <2>9, <2>10 DEF Go
<1>3. CASE UNCHANGED vars
  BY <1>3 DEF vars
<1> QED
  BY <1>1, <1>2, <1>3 DEF Next

(* The variables keep their types: TypeOK. *)
THEOREM TypeCorrect == Spec => []TypeOK
<1> QED
  BY TypeInit, TypeStep, PTL DEF Spec

-----------------------------------------------------------------------------
(* The connection of a request that ran alone *)

Connected == {"open", "outer", "read", "closeTable", "closeScanner", "cleanUp"}

(* Two running requests have crossed; the connection of one that has not   *)
(* is the one in the field and open, and no other is, while none crossed.  *)
CrossedInv ==
  \A r, s \in Running : r # s => r \in crossed

FieldInv ==
  \A r \in Requests \ crossed :
    /\ req[r].pc \in Connected => dbc \in open
    /\ req[r].pc = "read" => req[r].via = dbc

OnlyFieldInv ==
  crossed = {} =>
    /\ open \subseteq {dbc}
    /\ (\A r \in Requests : req[r].pc \notin Connected) => open = {}

Inv == TypeOK /\ CrossedInv /\ FieldInv /\ OnlyFieldInv /\ AloneIsServed

(* The requests that a step of r leaves alone, and what it makes of r.     *)
LEMMA StepOthers ==
  ASSUME TypeOK, NEW r \in Requests, NEW from, NEW new, Step(r, from, new)
  PROVE  /\ req[r].pc = from
         /\ req'[r] = new
         /\ \A s \in Requests : s # r => req'[s] = req[s]
         /\ DOMAIN req' = Requests
BY DEF Step, TypeOK

(* A step that a running request takes by itself, and that changes neither *)
(* the connections nor the history, keeps the invariant when it does not   *)
(* report a closed connection of a request that ran alone.                 *)
LEMMA QuietStep ==
  ASSUME Inv, NEW r \in Requests, NEW from \in Connected, NEW new,
         Step(r, from, new),
         new.pc \in Connected,
         new.pc = "read" => new.via = dbc,
         new.answer = "closed" => r \in crossed,
         UNCHANGED <<made, open, dbc, crossed>>
  PROVE  (CrossedInv /\ FieldInv /\ OnlyFieldInv /\ AloneIsServed)'
<1>1. /\ req[r].pc = from
      /\ req'[r] = new
      /\ \A s \in Requests : s # r => req'[s] = req[s]
  BY StepOthers DEF Inv
<1>2. Running' = Running
  BY <1>1 DEF Running, Connected
<1>3. CrossedInv'
  BY <1>2 DEF Inv, CrossedInv
<1>4. FieldInv'
  BY <1>1 DEF Inv, FieldInv
<1>5. OnlyFieldInv'
  BY <1>1 DEF Inv, OnlyFieldInv
<1>6. AloneIsServed'
  BY <1>1 DEF Inv, AloneIsServed
<1> QED
  BY <1>3, <1>4, <1>5, <1>6

LEMMA InvInit == Init => Inv
<1> SUFFICES ASSUME Init PROVE Inv
  OBVIOUS
<1>1. Running = {}
  BY DEF Init, Running, Idle
<1> QED
  BY <1>1, TypeInit
     DEF Init, Idle, Inv, CrossedInv, FieldInv, OnlyFieldInv, AloneIsServed, Connected

LEMMA InvStep == Inv /\ [Next]_vars => Inv'
<1> SUFFICES ASSUME Inv, [Next]_vars PROVE Inv'
  OBVIOUS
<1>0. TypeOK'
  BY TypeStep DEF Inv
<1>1. ASSUME NEW r \in Requests, Arrive(r) PROVE Inv'
  <2>1. /\ req[r].pc = "idle"
        /\ req'[r].pc = "configure" /\ req'[r].answer = "none"
        /\ \A s \in Requests : s # r => req'[s] = req[s]
        /\ UNCHANGED <<made, open, dbc>>
    <3>1. PICK k \in Kinds, s \in Sizes, p \in Pages :
            Step(r, "idle", [Idle EXCEPT !.kind = k, !.size = s, !.page = p,
                                         !.pc = "configure"])
      BY <1>1 DEF Arrive
    <3> DEFINE new == [Idle EXCEPT !.kind = k, !.size = s, !.page = p, !.pc = "configure"]
    <3>2. new.pc = "configure" /\ new.answer = "none"
      BY DEF Idle
    <3> HIDE DEF new
    <3>3. /\ req[r].pc = "idle" /\ req'[r] = new
          /\ \A t \in Requests : t # r => req'[t] = req[t]
      BY <3>1, StepOthers DEF Inv, new
    <3> QED
      BY <1>1, <3>2, <3>3 DEF Arrive
  <2>2. Running' = Running \cup {r}
    BY <2>1 DEF Running
  <2>3. crossed \subseteq crossed' /\ (Running # {} => Running \cup {r} \subseteq crossed')
    BY <1>1 DEF Arrive
  <2>4. CrossedInv'
    BY <2>2, <2>3 DEF Inv, CrossedInv
  <2>5. FieldInv'
    BY <2>1, <2>3 DEF Inv, FieldInv, Connected
  <2>6. OnlyFieldInv'
    BY <2>1, <2>3 DEF Inv, OnlyFieldInv, Connected
  <2>7. AloneIsServed'
    BY <2>1, <2>3 DEF Inv, AloneIsServed
  <2> QED
    BY <1>0, <2>4, <2>5, <2>6, <2>7 DEF Inv
<1>2. ASSUME NEW r \in Requests, Go(r) PROVE Inv'
  <2>1. CASE Configure(r)
    <3>1. /\ req[r].pc = "configure"
          /\ req'[r] = [req[r] EXCEPT !.pc = "open"]
          /\ \A s \in Requests : s # r => req'[s] = req[s]
      BY <2>1, StepOthers DEF Configure, Inv
    <3>2. dbc' = made + 1 /\ open' = open \cup {dbc'} /\ crossed' = crossed
      BY <2>1 DEF Configure
    <3>3. req'[r].pc = "open" /\ req'[r].answer = req[r].answer
      BY <3>1 DEF Inv, TypeOK, RequestType
    <3>4. Running' = Running /\ r \in Running
      BY <3>1, <3>3 DEF Running
    <3>5. CrossedInv'
      BY <3>2, <3>4 DEF Inv, CrossedInv
    <3>6. \A s \in Requests \ crossed : s # r => req[s].pc \notin Connected
      BY <3>4 DEF Inv, CrossedInv, Running, Connected
    <3>7. FieldInv'
      BY <3>1, <3>2, <3>3, <3>6 DEF FieldInv, Connected
    <3>8. crossed = {} => open = {}
      BY <3>1, <3>6 DEF Inv, OnlyFieldInv, Connected
    <3>9. OnlyFieldInv'
      BY <3>2, <3>3, <3>8 DEF OnlyFieldInv, Connected
    <3>10. AloneIsServed'
      BY <3>1, <3>2, <3>3 DEF Inv, AloneIsServed
    <3> QED
      BY <1>0, <3>5, <3>7, <3>9, <3>10 DEF Inv
  <2>2. CASE ConfigureRefused(r)
    <3>1. /\ req[r].pc = "configure"
          /\ req'[r] = [req[r] EXCEPT !.pc = "done", !.answer = "refused"]
          /\ \A s \in Requests : s # r => req'[s] = req[s]
          /\ UNCHANGED <<made, open, dbc, crossed>>
      BY <2>2, StepOthers DEF ConfigureRefused, Inv
    <3>2. req'[r].pc = "done" /\ req'[r].answer = "refused"
      BY <3>1 DEF Inv, TypeOK, RequestType
    <3>3. Running' \subseteq Running
      BY <3>1, <3>2 DEF Running
    <3>4. CrossedInv'
      BY <3>1, <3>3 DEF Inv, CrossedInv
    <3>5. FieldInv'
      BY <3>1, <3>2 DEF Inv, FieldInv, Connected
    <3>6. OnlyFieldInv'
      BY <3>1, <3>2 DEF Inv, OnlyFieldInv, Connected
    <3>7. AloneIsServed'
      BY <3>1, <3>2 DEF Inv, AloneIsServed
    <3> QED
      BY <1>0, <3>4, <3>5, <3>6, <3>7 DEF Inv
  <2> req[r] \in RequestType
    BY DEF Inv, TypeOK
  <2> req[r].answer = "closed" => r \in crossed
    BY DEF Inv, AloneIsServed
  <2>3. CASE OpenTable(r)
    <3>1. CASE Step(r, "open", [req[r] EXCEPT !.pc = "outer", !.held = {"outer"}])
      <4> DEFINE new == [req[r] EXCEPT !.pc = "outer", !.held = {"outer"}]
      <4>1. new.pc = "outer" /\ new.answer = req[r].answer
        BY DEF RequestType
      <4> HIDE DEF new
      <4> QED
        BY <1>0, <2>3, <3>1, <4>1, QuietStep DEF Connected, OpenTable, Inv, new
    <3>2. CASE Step(r, "open", [req[r] EXCEPT !.pc = "read", !.held = {"table"}, !.via = dbc])
      <4> DEFINE new == [req[r] EXCEPT !.pc = "read", !.held = {"table"}, !.via = dbc]
      <4>1. new.pc = "read" /\ new.via = dbc /\ new.answer = req[r].answer
        BY DEF RequestType
      <4> QED
        BY <1>0, <2>3, <3>2, <4>1, QuietStep DEF Connected, OpenTable, Inv
    <3> QED
      BY <2>3, <3>1, <3>2 DEF OpenTable
  <2>4. CASE OpenInnerTable(r)
    <3> DEFINE new == [req[r] EXCEPT !.pc = "read", !.held = @ \cup {"table"}, !.via = dbc]
    <3>1. new.pc = "read" /\ new.via = dbc /\ new.answer = req[r].answer
      BY DEF RequestType
    <3>2. Step(r, "outer", new) /\ UNCHANGED <<made, open, dbc, crossed>>
      BY <2>4 DEF OpenInnerTable
    <3> HIDE DEF new
    <3> QED
      BY <1>0, <3>1, <3>2, QuietStep DEF Connected, Inv
  <2>5. CASE Get(r)
    <3>1. PICK found \in {<<>>} \cup {<<i>> : i \in 1 .. NRows} :
            Step(r, "read", [req[r] EXCEPT !.pc = "cleanUp", !.rows = found,
                               !.held = @ \ {"table"}, !.answer = "rows"])
      BY <2>5 DEF Get
    <3> DEFINE new == [req[r] EXCEPT !.pc = "cleanUp", !.rows = found,
                         !.held = @ \ {"table"}, !.answer = "rows"]
    <3>2. new.pc = "cleanUp" /\ new.answer = "rows"
      BY DEF RequestType
    <3>3. Step(r, "read", new) /\ UNCHANGED <<made, open, dbc, crossed>>
      BY <2>5, <3>1 DEF Get
    <3> HIDE DEF new
    <3> QED
      BY <1>0, <3>2, <3>3, QuietStep DEF Connected, Inv
  <2>6. CASE Scan(r)
    <3> DEFINE new == [req[r] EXCEPT !.pc = "closeTable", !.held = @ \cup {"scanner"},
                         !.rows = RowsRead(req[r].size, req[r].page)]
    <3>1. new.pc = "closeTable" /\ new.answer = req[r].answer
      BY DEF RequestType
    <3>2. Step(r, "read", new) /\ UNCHANGED <<made, open, dbc, crossed>>
      BY <2>6 DEF Scan
    <3> HIDE DEF new
    <3> QED
      BY <1>0, <3>1, <3>2, QuietStep DEF Connected, Inv
  <2>7. CASE ReadFails(r)
    <3>1. PICK why \in {"refused", "closed"}, got \in SUBSET {"scanner"} :
            /\ why = "closed" <=> req[r].via \notin open
            /\ Step(r, "read", [req[r] EXCEPT !.pc = "cleanUp", !.answer = why,
                      !.held = IF IsScan(r) THEN @ \cup got ELSE @ \ {"table"}])
      BY <2>7 DEF ReadFails
    <3> DEFINE new == [req[r] EXCEPT !.pc = "cleanUp", !.answer = why,
                         !.held = IF IsScan(r) THEN @ \cup got ELSE @ \ {"table"}]
    <3>2. new.pc = "cleanUp" /\ new.answer = why
      BY DEF RequestType
    <3>3. Step(r, "read", new) /\ UNCHANGED <<made, open, dbc, crossed>>
      BY <2>7, <3>1 DEF ReadFails
    <3>4. req[r].pc = "read"
      BY <3>3, StepOthers DEF Inv
    <3>5. why = "closed" => r \in crossed
      BY <3>1, <3>4 DEF Inv, FieldInv, Connected
    <3> HIDE DEF new
    <3> QED
      BY <1>0, <3>2, <3>3, <3>5, QuietStep DEF Connected, Inv
  <2>8. CASE CloseTable(r)
    <3> DEFINE new == [req[r] EXCEPT !.pc = "closeScanner", !.held = @ \ {"table"}]
    <3>1. new.pc = "closeScanner" /\ new.answer = req[r].answer
      BY DEF RequestType
    <3>2. Step(r, "closeTable", new) /\ UNCHANGED <<made, open, dbc, crossed>>
      BY <2>8 DEF CloseTable
    <3> HIDE DEF new
    <3> QED
      BY <1>0, <3>1, <3>2, QuietStep DEF Connected, Inv
  <2>9. CASE CloseScanner(r)
    <3> DEFINE new == [req[r] EXCEPT !.pc = "cleanUp", !.held = @ \ {"scanner"}, !.answer = "rows"]
    <3>1. new.pc = "cleanUp" /\ new.answer = "rows"
      BY DEF RequestType
    <3>2. Step(r, "closeScanner", new) /\ UNCHANGED <<made, open, dbc, crossed>>
      BY <2>9 DEF CloseScanner
    <3> HIDE DEF new
    <3> QED
      BY <1>0, <3>1, <3>2, QuietStep DEF Connected, Inv
  <2>10. CASE CleanUp(r)
    <3>1. /\ req[r].pc = "cleanUp"
          /\ req'[r] = [req[r] EXCEPT !.pc = "done"]
          /\ \A s \in Requests : s # r => req'[s] = req[s]
      BY <2>10, StepOthers DEF CleanUp, Inv
    <3>2. open' = open \ {dbc} /\ dbc' = dbc /\ crossed' = crossed
      BY <2>10 DEF CleanUp
    <3>3. req'[r].pc = "done" /\ req'[r].answer = req[r].answer
      BY <3>1 DEF RequestType
    <3>4. r \in Running /\ Running' \subseteq Running
      BY <3>1, <3>3 DEF Running
    <3>5. CrossedInv'
      BY <3>2, <3>4 DEF Inv, CrossedInv
    <3>6. \A s \in Requests \ crossed : s # r => req[s].pc \notin Connected
      BY <3>4 DEF Inv, CrossedInv, Running, Connected
    <3>7. FieldInv'
      BY <3>1, <3>2, <3>3, <3>6 DEF FieldInv, Connected
    <3>8. OnlyFieldInv'
      BY <3>2 DEF Inv, OnlyFieldInv
    <3>9. AloneIsServed'
      BY <3>1, <3>2, <3>3 DEF Inv, AloneIsServed
    <3> QED
      BY <1>0, <3>5, <3>7, <3>8, <3>9 DEF Inv
  <2> QED
    BY <1>2, <2>1, <2>2, <2>3, <2>4, <2>5, <2>6, <2>7, <2>8, <2>9, <2>10 DEF Go
<1>3. CASE UNCHANGED vars
  BY <1>0, <1>3
     DEF vars, Inv, CrossedInv, FieldInv, OnlyFieldInv, AloneIsServed, Running
<1> QED
  BY <1>1, <1>2, <1>3 DEF Next

(* The strengthening is an invariant of the connections. *)
THEOREM InvCorrect == Spec => []Inv
<1> QED
  BY InvInit, InvStep, PTL DEF Spec

-----------------------------------------------------------------------------
(* The properties *)

(* A request that ran beside no other is served unless HBase refuses it:   *)
(* nobody else configures or closes the shared connection meanwhile.       *)
THEOREM AloneServed == Spec => []AloneIsServed
<1>1. Inv => AloneIsServed
  BY DEF Inv
<1> QED
  BY <1>1, InvCorrect, PTL

(* As long as requests came one after the other, cleanUp has closed every  *)
(* connection that the constructor of HBaseQuery made.                     *)
THEOREM AloneClosed == Spec => []AloneLeavesNoConnection
<1>1. Inv => AloneLeavesNoConnection
  BY DEF Inv, OnlyFieldInv, AloneLeavesNoConnection, Running, Connected
<1> QED
  BY <1>1, InvCorrect, PTL

(* A connection that is open and no longer in the field stays open: what   *)
(* overlapping requests leave behind is never cleaned up.                  *)
THEOREM ReplacedStays == Spec => ReplacedIsLost
<1>1. TypeOK /\ [Next]_vars => [\A c \in open : c # dbc => c \in open']_vars
  <2> SUFFICES ASSUME TypeOK, Next, NEW c \in open, c # dbc PROVE c \in open'
    BY DEF vars
  <2>1. ASSUME NEW r \in Requests, Arrive(r) PROVE c \in open'
    BY <2>1 DEF Arrive
  <2>2. ASSUME NEW r \in Requests, Go(r) PROVE c \in open'
    BY <2>2 DEF Go, Configure, ConfigureRefused, OpenTable, OpenInnerTable, Get, Scan,
                ReadFails, CloseTable, CloseScanner, CleanUp
  <2> QED
    BY <2>1, <2>2 DEF Next
<1> QED
  BY <1>1, TypeCorrect, PTL DEF Spec, ReplacedIsLost

-----------------------------------------------------------------------------
(* Tables, scanners and pages *)

Scanned(q) == q.kind \in {"rawScan", "gqlScan"}

(* What each point of a request implies for its handles and rows. *)
RequestOK(q) ==
  /\ q.size \in 0 .. IntLimit - 1
  /\ q.pc \in {"idle", "configure", "open"} => q.held = {} /\ q.answer = "none"
  /\ q.pc = "outer" => q.kind = "gqlKey" /\ q.answer = "none"
  /\ q.pc = "read" => q.answer = "none" /\ (q.kind # "gqlKey" => q.held = {"table"})
  /\ q.pc = "closeTable" => q.held = {"table", "scanner"}
  /\ q.pc = "closeScanner" => q.held = {"scanner"}
  /\ q.pc \in {"closeTable", "closeScanner"} =>
       Scanned(q) /\ q.answer = "none" /\ q.rows = RowsRead(q.size, q.page)
  /\ q.pc \in {"cleanUp", "done"} =>
       /\ q.kind = "rawKey" => q.held = {}
       /\ Scanned(q) /\ q.answer = "rows" =>
            q.held = {} /\ q.rows = RowsRead(q.size, q.page)

RequestsOK == \A r \in Requests : RequestOK(req[r])

(* A step changes one request.                                             *)
LEMMA StepOK ==
  ASSUME TypeOK, RequestsOK, NEW r \in Requests, NEW from, NEW new, Step(r, from, new),
         RequestOK(new)
  PROVE  RequestsOK'
<1>1. /\ req'[r] = new
      /\ \A s \in Requests : s # r => req'[s] = req[s]
  BY StepOthers
<1>2. ASSUME NEW s \in Requests PROVE RequestOK(req'[s])
  BY <1>1 DEF RequestsOK
<1> QED  BY <1>2 DEF RequestsOK

(* Each action leaves its request where the next one expects it: a get has *)
(* given back its table, a scan its table and its scanner.                 *)
LEMMA RequestsStep == TypeOK /\ RequestsOK /\ [Next]_vars => RequestsOK'
<1> SUFFICES ASSUME TypeOK, RequestsOK, [Next]_vars PROVE RequestsOK'
  OBVIOUS
<1>1. ASSUME NEW r \in Requests, Arrive(r) PROVE RequestsOK'
  <2>1. PICK k \in Kinds, s \in Sizes, p \in Pages :
          Step(r, "idle", [Idle EXCEPT !.kind = k, !.size = s, !.page = p,
                                       !.pc = "configure"])
    BY <1>1 DEF Arrive
  <2>2. s \in 0 .. IntLimit - 1
    BY HBaseAssumption
  <2>3. RequestOK([Idle EXCEPT !.kind = k, !.size = s, !.page = p, !.pc = "configure"])
    BY <2>2 DEF RequestOK, Idle
  <2> QED  BY <2>1, <2>3, StepOK
<1>2. ASSUME NEW r \in Requests, Go(r) PROVE RequestsOK'
  <2> req[r] \in RequestType /\ RequestOK(req[r])
    BY DEF TypeOK, RequestsOK
  <2>0. \A from, new : Step(r, from, new) => req[r].pc = from
    BY DEF Step
  <2>1. CASE Configure(r)
    <3>1. req[r].pc = "configure"
      BY <2>0, <2>1 DEF Configure
    <3>2. RequestOK([req[r] EXCEPT !.pc = "open"])
      BY <3>1 DEF RequestOK, RequestType, Scanned
    <3> QED  BY <2>1, <3>2, StepOK DEF Configure
  <2>2. CASE ConfigureRefused(r)
    <3>1. req[r].pc = "configure"
      BY <2>0, <2>2 DEF ConfigureRefused
    <3>2. RequestOK([req[r] EXCEPT !.pc = "done", !.answer = "refused"])
      BY <3>1 DEF RequestOK, RequestType, Scanned
    <3> QED  BY <2>2, <3>2, StepOK DEF ConfigureRefused
  <2>3. CASE OpenTable(r)
    <3>1. req[r].pc = "open"
      BY <2>0, <2>3 DEF OpenTable
    <3>2. req[r].kind = "gqlKey" =>
            RequestOK([req[r] EXCEPT !.pc = "outer", !.held = {"outer"}])
      BY <3>1 DEF RequestOK, RequestType, Scanned
    <3>3. RequestOK([req[r] EXCEPT !.pc = "read", !.held = {"table"}, !.via = dbc])
      BY <3>1 DEF RequestOK, RequestType, Scanned
    <3> QED  BY <2>3, <3>2, <3>3, StepOK DEF OpenTable
  <2>4. CASE OpenInnerTable(r)
    <3>1. req[r].pc = "outer"
      BY <2>0, <2>4 DEF OpenInnerTable
    <3>2. RequestOK([req[r] EXCEPT !.pc = "read", !.held = @ \cup {"table"}, !.via = dbc])
      BY <3>1 DEF RequestOK, RequestType, Scanned
    <3> QED  BY <2>4, <3>2, StepOK DEF OpenInnerTable
  <2>5. CASE Get(r)
    <3>1. PICK found \in {<<>>} \cup {<<i>> : i \in 1 .. NRows} :
            Step(r, "read", [req[r] EXCEPT !.pc = "cleanUp", !.rows = found,
                               !.held = @ \ {"table"}, !.answer = "rows"])
      BY <2>5 DEF Get
    <3>2. req[r].pc = "read" /\ ~Scanned(req[r])
      BY <2>0, <2>5, <3>1 DEF Get, IsScan, Scanned
    <3>3. RequestOK([req[r] EXCEPT !.pc = "cleanUp", !.rows = found,
                       !.held = @ \ {"table"}, !.answer = "rows"])
      BY <3>2 DEF RequestOK, RequestType, Scanned
    <3> QED  BY <3>1, <3>3, StepOK
  <2>6. CASE Scan(r)
    <3>1. req[r].pc = "read" /\ Scanned(req[r])
      BY <2>0, <2>6 DEF Scan, IsScan, Scanned
    <3>2. RequestOK([req[r] EXCEPT !.pc = "closeTable", !.held = @ \cup {"scanner"},
                       !.rows = RowsRead(req[r].size, req[r].page)])
      BY <3>1 DEF RequestOK, RequestType, Scanned
    <3> QED  BY <2>6, <3>2, StepOK DEF Scan
  <2>7. CASE ReadFails(r)
    <3>1. PICK why \in {"refused", "closed"}, got \in SUBSET {"scanner"} :
            Step(r, "read", [req[r] EXCEPT !.pc = "cleanUp", !.answer = why,
                   !.held = IF IsScan(r) THEN @ \cup got ELSE @ \ {"table"}])
      BY <2>7 DEF ReadFails
    <3>2. req[r].pc = "read" /\ (req[r].kind = "rawKey" => ~IsScan(r))
      BY <2>0, <3>1 DEF IsScan
    <3>3. RequestOK([req[r] EXCEPT !.pc = "cleanUp", !.answer = why,
                       !.held = IF IsScan(r) THEN @ \cup got ELSE @ \ {"table"}])
      BY <3>2 DEF RequestOK, RequestType, Scanned
    <3> QED  BY <3>1, <3>3, StepOK
  <2>8. CASE CloseTable(r)
    <3>1. req[r].pc = "closeTable"
      BY <2>0, <2>8 DEF CloseTable
    <3>2. RequestOK([req[r] EXCEPT !.pc = "closeScanner", !.held = @ \ {"table"}])
      BY <3>1 DEF RequestOK, RequestType, Scanned
    <3> QED  BY <2>8, <3>2, StepOK DEF CloseTable
  <2>9. CASE CloseScanner(r)
    <3>1. req[r].pc = "closeScanner"
      BY <2>0, <2>9 DEF CloseScanner
    <3>2. RequestOK([req[r] EXCEPT !.pc = "cleanUp", !.held = @ \ {"scanner"},
                                   !.answer = "rows"])
      BY <3>1 DEF RequestOK, RequestType, Scanned
    <3> QED  BY <2>9, <3>2, StepOK DEF CloseScanner
  <2>10. CASE CleanUp(r)
    <3>1. req[r].pc = "cleanUp"
      BY <2>0, <2>10 DEF CleanUp
    <3>2. RequestOK([req[r] EXCEPT !.pc = "done"])
      BY <3>1 DEF RequestOK, RequestType, Scanned
    <3> QED  BY <2>10, <3>2, StepOK DEF CleanUp
  <2> QED
    BY <1>2, <2>1, <2>2, <2>3, <2>4, <2>5, <2>6, <2>7, <2>8, <2>9, <2>10 DEF Go
<1>3. CASE UNCHANGED vars
  BY <1>3 DEF vars, RequestsOK
<1> QED  BY <1>1, <1>2, <1>3 DEF Next

LEMMA RequestsCorrect == Spec => []RequestsOK
<1>1. Init => RequestsOK
  BY HBaseAssumption DEF Init, RequestsOK, RequestOK, Idle
<1> QED  BY <1>1, RequestsStep, TypeCorrect, PTL DEF Spec

(* A get by row key keeps no table and a scan that answers neither a table *)
(* nor a scanner, whatever other requests do.                              *)
THEOREM HandlesBack == Spec => []HandlesGivenBack
<1>1. RequestsOK => HandlesGivenBack
  BY DEF RequestsOK, RequestOK, HandlesGivenBack, IsScan, Scanned
<1> QED  BY <1>1, RequestsCorrect, PTL

(* An int in range is itself. *)
LEMMA AsIntSame ==
  ASSUME NEW n \in -IntLimit .. IntLimit - 1
  PROVE  AsInt(n) = n
<1> DEFINE m == 2 * IntLimit
           a == n + IntLimit
<1>1. IntLimit \in Nat \ {0} /\ m \in Nat \ {0} /\ a \in 0 .. m - 1
  BY HBaseAssumption
<1>2. a % m = a
  BY <1>1
<1> QED  BY <1>1, <1>2 DEF AsInt

(* The loops of a scan read the rows of the page. *)
LEMMA RowsReadIsThePage ==
  ASSUME NEW size \in 0 .. IntLimit - 1, NEW page \in Nat, Offset(size, page) < IntLimit
  PROVE  LET rows == RowsRead(size, page)
         IN /\ {rows[k] : k \in DOMAIN rows} = PageRows(size, page)
            /\ \A j, k \in DOMAIN rows : j < k => rows[j] < rows[k]
<1> DEFINE first == SteppedOver(size, page)
           n == Smaller(NRows - first, Larger(1, size))
<1>0. IntLimit \in Nat \ {0} /\ NRows \in Nat
  BY HBaseAssumption
<1>1. Offset(size, page) \in Nat /\ first = Smaller(NRows, Offset(size, page))
  <2>1. CASE page = 0
    <3>1. size * (page - 1) = -size /\ size * Larger(0, page - 1) = 0
      BY <2>1 DEF Larger
    <3>2. AsInt(-size) = -size
      BY <1>0, AsIntSame
    <3> QED  BY <1>0, <3>1, <3>2 DEF SteppedOver, Offset, Larger, Smaller
  <2>2. CASE page # 0
    <3> DEFINE o == size * (page - 1)
    <3>1. page - 1 \in Nat /\ Larger(0, page - 1) = page - 1
      BY <2>2 DEF Larger
    <3>2. o \in Nat /\ Offset(size, page) = o
      BY <3>1 DEF Offset
    <3>3. AsInt(o) = o
      BY <1>0, <3>2, AsIntSame
    <3>4. SteppedOver(size, page) = Smaller(NRows, Larger(0, o))
      BY <3>3 DEF SteppedOver
    <3> QED  BY <3>2, <3>4 DEF Larger
  <2> QED  BY <2>1, <2>2
<1> DEFINE offset == Offset(size, page)
           width == Larger(1, size)
<1>2. offset \in Nat /\ width \in Nat \ {0} /\ first \in 0 .. NRows
  BY <1>0, <1>1 DEF Larger, Smaller
<1>3. n \in Nat
  BY <1>0, <1>2 DEF Smaller
<1>4. RowsRead(size, page) = [i \in 1 .. n |-> first + i]
  BY DEF RowsRead
<1>5. PageRows(size, page) = {i \in 1 .. NRows : offset < i /\ i <= offset + width}
  BY DEF PageRows
<1>6. first = (IF NRows < offset THEN NRows ELSE offset)
  BY <1>1 DEF Smaller
<1>7. n = (IF NRows - first < width THEN NRows - first ELSE width)
  BY DEF Smaller
<1> HIDE DEF first, n, offset, width
<1>8. \A i \in 1 .. n : first + i \in 1 .. NRows /\ offset < first + i /\ first + i <= offset + width
  BY <1>0, <1>2, <1>3, <1>6, <1>7
<1>9. \A i \in 1 .. NRows : offset < i /\ i <= offset + width =>
        i - first \in 1 .. n /\ first + (i - first) = i
  BY <1>0, <1>2, <1>3, <1>6, <1>7
<1>10. {first + i : i \in 1 .. n} = {i \in 1 .. NRows : offset < i /\ i <= offset + width}
  BY <1>8, <1>9
<1> DEFINE rows == RowsRead(size, page)
<1>11. DOMAIN rows = 1 .. n /\ \A i \in 1 .. n : rows[i] = first + i
  BY <1>4
<1> HIDE DEF rows
<1>12. {rows[k] : k \in DOMAIN rows} = {first + i : i \in 1 .. n}
  BY <1>11
<1>13. \A j, k \in DOMAIN rows : j < k => rows[j] < rows[k]
  BY <1>2, <1>3, <1>11
<1> QED  BY <1>5, <1>10, <1>12, <1>13 DEF rows

(* A raw scan answers with the rows of its page, in order, for any number  *)
(* of rows and any page whose offset is an int: the product of int, the    *)
(* page number counted from 1 and the loop that tests after it has read.   *)
THEOREM RawScanReadsItsPage == Spec => []RawScanIsAPage
<1>1. TypeOK /\ RequestsOK => RawScanIsAPage
  <2> SUFFICES ASSUME TypeOK, RequestsOK, NEW r \in Requests,
                      req[r].kind = "rawScan", req[r].answer = "rows",
                      Offset(req[r].size, req[r].page) < IntLimit
               PROVE  /\ {req[r].rows[k] : k \in DOMAIN req[r].rows} =
                           PageRows(req[r].size, req[r].page)
                      /\ \A j, k \in DOMAIN req[r].rows :
                           j < k => req[r].rows[j] < req[r].rows[k]
    BY DEF RawScanIsAPage
  <2>1. req[r] \in RequestType /\ RequestOK(req[r])
    BY DEF TypeOK, RequestsOK
  <2>2. req[r].size \in 0 .. IntLimit - 1 /\ req[r].page \in Nat
    BY <2>1 DEF RequestOK, RequestType
  <2>3. req[r].rows = RowsRead(req[r].size, req[r].page)
    BY <2>1 DEF RequestOK, RequestType, Scanned
  <2> QED  BY <2>2, <2>3, RowsReadIsThePage
<1> QED  BY <1>1, RequestsCorrect, TypeCorrect, PTL
=============================================================================
