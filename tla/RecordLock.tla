----------------------------- MODULE RecordLock -----------------------------
(***************************************************************************)
(* The row lock of the named queries pgGetRowLock and pgReleaseRowLock: an *)
(* UPDATE of the columns lock_id, lock_at and lock_exp of one row, whose   *)
(* WHERE clause decides and whose update count is the answer.  now() is    *)
(* the time at which the statement started, while the row may be reached   *)
(* (and its WHERE clause evaluated) later, in any order.                   *)
(*                                                                         *)
(* The clients are external: processes with different lock values that     *)
(* may send a statement before an earlier one is answered (a retry) and    *)
(* never learn what became of an answer that is lost.  A careful client    *)
(* counts its lease from the moment it sent the statement - or from the    *)
(* oldest of its statements that was unanswered then, because that one may *)
(* still be applied last.                                                  *)
(***************************************************************************)
EXTENDS Integers, FiniteSets

CONSTANTS
  Clients,   \* processes, each with a lock value of its own
  Free,      \* SQL's NULL in lock_id, lock_at and lock_exp
  Slots,     \* where a client keeps its unanswered statements
  Patience,  \* bound: how many statements of a client may be unanswered
  TTL,       \* the lease asked for, in ticks
  MaxTime    \* bound: the last tick

ASSUME LockAssumption ==
  /\ Free \notin Clients
  /\ TTL \in Nat /\ TTL > 0
  /\ MaxTime \in Nat
  /\ Patience \in [Clients -> Nat]

VARIABLES
  row,     \* [id, exp]: who holds the lock, and until when
  clock,   \* the time of the database and of the clients
  stmt,    \* stmt[c][s]: the statement in slot s of client c
  lease    \* lease[c]: the last tick at which c counts on its lock, or 0

lockVars == <<row, clock, stmt, lease>>

-----------------------------------------------------------------------------
(* A statement: sent, then started in the database, then applied.  base is *)
(* the tick from which the lease of a get counts, now the value of now(),  *)
(* count the update count; void says that a grant cannot be relied on.     *)
Statements == [op : {"get", "release"},
               state : {"idle", "sent", "started", "applied"},
               sent : Nat, base : Nat, void : BOOLEAN, now : Nat, count : {0, 1}]

IdleStatement ==
  [op |-> "get", state |-> "idle", sent |-> 0, base |-> 0,
   void |-> FALSE, now |-> 0, count |-> 0]

(* lock_at and lock_exp are NULL exactly when lock_id is: exp is 0 then. *)
Rows == [id : Clients \cup {Free}, exp : Nat]

FreeRow == [id |-> Free, exp |-> 0]

LockTypeOK ==
  /\ row \in Rows
  /\ clock \in Nat
  /\ stmt \in [Clients -> [Slots -> Statements]]
  /\ lease \in [Clients -> Nat]

LockInit ==
  /\ row = FreeRow
  /\ clock = 0
  /\ stmt = [c \in Clients |-> [s \in Slots |-> IdleStatement]]
  /\ lease = [c \in Clients |-> 0]

Unanswered(c) == {s \in Slots : stmt[c][s].state # "idle"}

-----------------------------------------------------------------------------
(* The clients *)

(* b is the earliest tick at which an unanswered statement of c was sent.  *)
SendGet(c, s) ==
  /\ stmt[c][s].state = "idle" /\ Cardinality(Unanswered(c)) < Patience[c]
  /\ \E b \in {clock} \cup {stmt[c][t].sent : t \in Unanswered(c)} :
       /\ \A t \in Unanswered(c) : b <= stmt[c][t].sent
       /\ stmt' = [stmt EXCEPT ![c][s] =
                     [IdleStatement EXCEPT !.state = "sent", !.sent = clock, !.base = b,
                        !.void = \E t \in Unanswered(c) : stmt[c][t].op = "release"]]
  /\ UNCHANGED <<row, clock, lease>>

(* A client that gives its lock back counts on it no longer, nor on an     *)
(* answer it has not received yet.  base keeps the lease it gives back.    *)
SendRelease(c, s) ==
  /\ stmt[c][s].state = "idle" /\ Cardinality(Unanswered(c)) < Patience[c]
  /\ lease' = [lease EXCEPT ![c] = 0]
  /\ stmt' = [stmt EXCEPT ![c] = [t \in Slots |->
                IF t = s
                THEN [IdleStatement EXCEPT !.op = "release", !.state = "sent", !.sent = clock,
                                  !.base = lease[c], !.void = TRUE]
                ELSE [stmt[c][t] EXCEPT !.void = TRUE]]]
  /\ UNCHANGED <<row, clock>>

(* The answer arrives: 1 starts or extends the lease, 0 ends it. *)
Answered(c, s) ==
  /\ stmt[c][s].state = "applied"
  /\ stmt' = [stmt EXCEPT ![c][s] = IdleStatement]
  /\ LET until == stmt[c][s].base + TTL IN
     lease' = CASE stmt[c][s].count = 0 -> [lease EXCEPT ![c] = 0]
                [] stmt[c][s].count = 1 /\ ~stmt[c][s].void /\ lease[c] < until ->
                     [lease EXCEPT ![c] = until]
                [] OTHER -> lease
  /\ UNCHANGED <<row, clock>>

-----------------------------------------------------------------------------
(* The database, one autocommitted UPDATE at a time *)

Start(c, s) ==
  /\ stmt[c][s].state = "sent"
  /\ stmt' = [stmt EXCEPT ![c][s] = [@ EXCEPT !.state = "started", !.now = clock]]
  /\ UNCHANGED <<row, clock, lease>>

(* The statement is refused (SQLException): the row is as it was, and the  *)
(* client gets an error instead of a count.                                *)
Fail(c, s) ==
  /\ stmt[c][s].state \in {"sent", "started"}
  /\ stmt' = [stmt EXCEPT ![c][s] = IdleStatement]
  /\ UNCHANGED <<row, clock, lease>>

(* Fault: a lock in its last tick is taken for expired. *)
MatchesEarly(c, now) == row.id \in {c, Free} \/ row.exp <= now

(* Fault: any lock may be taken or released, expired or not. *)
MatchesAny(c, now) == TRUE

(* WHERE (lock_id = old OR lock_id IS NULL) OR (lock_exp < now() OR        *)
(* lock_at IS NULL).                                                       *)
Matches(c, now) == row.id \in {c, Free} \/ row.exp < now

(* The row after the UPDATE. *)
Updated(c, s) ==
  IF stmt[c][s].op = "get"
  THEN [id |-> c, exp |-> stmt[c][s].now + TTL]
  ELSE FreeRow

Apply(c, s) ==
  /\ stmt[c][s].state = "started"
  /\ LET hit == Matches(c, stmt[c][s].now) IN
     /\ row' = IF hit THEN Updated(c, s) ELSE row
     /\ stmt' = [stmt EXCEPT ![c][s] =
                   [@ EXCEPT !.state = "applied", !.count = IF hit THEN 1 ELSE 0]]
  /\ UNCHANGED <<clock, lease>>

Tick ==
  /\ clock < MaxTime
  /\ clock' = clock + 1
  /\ UNCHANGED <<row, stmt, lease>>

LockNext ==
  \/ \E c \in Clients, s \in Slots :
       \/ SendGet(c, s) \/ SendRelease(c, s) \/ Answered(c, s)
       \/ Start(c, s) \/ Fail(c, s) \/ Apply(c, s)
  \/ Tick

LockSpec == LockInit /\ [][LockNext]_lockVars

-----------------------------------------------------------------------------
(* Properties *)

Holds(c) == lease[c] # 0 /\ clock <= lease[c]

(* Two processes never count on the lock of one row at the same time,      *)
(* however their statements are delayed, reordered, retried or lost.       *)
Exclusive == \A c, d \in Clients : Holds(c) /\ Holds(d) => c = d

(* A lock that has not expired is taken or released by nobody but the      *)
(* process whose value it carries.                                         *)
LiveLockIsKept ==
  [][row.id # Free /\ row' # row /\ clock <= row.exp
     => \E s \in Slots : /\ stmt[row.id][s].state = "started"
                         /\ stmt'[row.id][s].state = "applied"]_lockVars
-----------------------------------------------------------------------------
(* The abstract lock: who counts on it now. *)
Lock == INSTANCE Lease WITH holders <- {c \in Clients : Holds(c)}

(* A process counts on the lock only after nobody did: statements, their   *)
(* delays and the clock together implement the abstract lock.              *)
ImplementsLease == Lock!Spec

=============================================================================
