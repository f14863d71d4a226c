-------------------------- MODULE Traversals_proofs --------------------------
(***************************************************************************)
(* The multi-query traversal with its batches (BatchJoin): for every       *)
(* schema, table, batch size, clash of hash codes and order of the threads *)
(* an object is given the join that the schema says, for itself or for the *)
(* sibling whose future it shares, a request that ends without an          *)
(* exception has left no query behind, and a field that may not be read    *)
(* gives nothing.                                                          *)
(*                                                                         *)
(* They rest on what holds of all loads at once: what a load calls back    *)
(* with is the answer to a query that those it calls wait for; a query     *)
(* that is queued has a load that will dispatch it; a load that is not     *)
(* done has an earlier one that waits for it; and a field of an object     *)
(* that is in the answer is either given, or a query for it is due, or its *)
(* callback is, or the load that gave the object has yet to select it.     *)
(*                                                                         *)
(* The single query and its tree (TreeAssembly): for every schema whose    *)
(* paths lead to the root, database, hash codes and query, the result is   *)
(* the page of root objects, and no row of it is lost or invented on the   *)
(* way into the tree.                                                      *)
(***************************************************************************)
EXTENDS BatchJoin, TreeAssembly, InductionFacts

RootQuery == Query(0, "root", <<0, 0>>)

NestedQueries == [obj : Objects, field : Fields \ {"root"}, call : Nat \X Nat]

AnyQuery == NestedQueries \cup {RootQuery}

LoadStates == {"loading", "next", "resolve", "enqueue", "join", "done"}

LoadType ==
  [qs : Seq(AnyQuery), st : LoadStates, pos : Nat \ {0}, at : AnyQuery,
   calls : SUBSET (Objects \cup {0}), objs : SUBSET Objects,
   todo : Seq(Fields \ {"root"}), kids : SUBSET Objects, wait : SUBSET Nat, turn : Nat]

(* A batch holds queries of nested fields, or it is the root query alone;  *)
(* what is called back at once has no batch.  Nobody is called back before *)
(* the statement has answered.                                             *)
LoadOK(ld, no) ==
  /\ Len(ld.qs) \in 0 .. MaxBatch
  /\ ld.qs = <<RootQuery>> \/ ld.qs \in Seq(NestedQueries)
  /\ ld.st \in {"enqueue", "join"} => ld.todo # <<>> /\ Head(ld.todo) \notin no
  /\ ld.st \in {"loading", "done"} => ld.calls = {}

LoadsOK ==
  /\ loads \in Seq(LoadType) /\ loads # <<>>
  /\ \A l \in DOMAIN loads :
       LoadOK(loads[l], denied) /\ loads[l].wait \subseteq (l + 1) .. Len(loads)

Types ==
  /\ denied \in Denials /\ error \in BOOLEAN
  /\ queue \in Seq(NestedQueries)
  /\ shared \subseteq [obj : Clashing, query : NestedQueries]
  /\ given \in [(Objects \cup {0}) \X Fields -> {Unset} \cup SUBSET Objects]
  /\ LoadsOK

-----------------------------------------------------------------------------
(* The arithmetic of multiples: where the batches are cut.                 *)
Cut(i) == i * MaxBatch

(* They grow by a batch each.                                              *)
LEMMA Cuts ==
  /\ \A i \in Nat : Cut(i) \in Nat /\ Cut(i + 1) = Cut(i) + MaxBatch
  /\ \A i, j \in Nat : i <= j => Cut(i) <= Cut(j)
<1>1. MaxBatch \in Nat \ {0}
  BY BatchAssumption
<1>2. ASSUME NEW i \in Nat PROVE Cut(i) \in Nat /\ Cut(i + 1) = Cut(i) + MaxBatch
  <2>1. \A a, b \in Nat : a * b \in Nat /\ (a + 1) * b = a * b + b
    OBVIOUS
  <2> QED BY <1>1, <2>1 DEF Cut
<1>3. ASSUME NEW i \in Nat, NEW j \in Nat, i <= j PROVE Cut(i) <= Cut(j)
  <2>1. \A a, b, c \in Nat : a <= b => a * c <= b * c
    OBVIOUS
  <2> QED BY <1>1, <1>3, <2>1 DEF Cut
<1> QED BY <1>2, <1>3

(* The number of whole batches in a number of queries.                     *)
LEMMA Quotient ==
  ASSUME NEW a \in Nat
  PROVE  /\ a \div MaxBatch \in Nat
         /\ Cut(a \div MaxBatch) <= a /\ a < Cut(a \div MaxBatch) + MaxBatch
<1>1. MaxBatch \in Nat \ {0}
  BY BatchAssumption
<1>2. \A x \in Nat, b \in Nat \ {0} :
        /\ x \div b \in Nat
        /\ (x \div b) * b <= x /\ x < (x \div b) * b + b
  OBVIOUS
<1> QED BY <1>1, <1>2 DEF Cut

(* What one batch holds.                                                   *)
Part(qs, i) ==
  SubSeq(qs, (i - 1) * MaxBatch + 1, IF i * MaxBatch < Len(qs) THEN i * MaxBatch ELSE Len(qs))

(* The batch between two cuts has the queries between them, and no other.  *)
LEMMA PartIs ==
  ASSUME NEW qs \in Seq(NestedQueries), NEW i \in Nat \ {0}, Cut(i - 1) < Len(qs)
  PROVE  /\ Part(qs, i) \in Seq(NestedQueries)
         /\ Len(Part(qs, i)) \in 1 .. MaxBatch
         /\ \A k \in 1 .. Len(qs) : Cut(i - 1) < k /\ k <= Cut(i) =>
              k - Cut(i - 1) \in 1 .. Len(Part(qs, i)) /\ Part(qs, i)[k - Cut(i - 1)] = qs[k]
         /\ \A j \in 1 .. Len(Part(qs, i)) : \E k \in 1 .. Len(qs) : Part(qs, i)[j] = qs[k]
<1> DEFINE lo == Cut(i - 1)
           hi == IF Cut(i) < Len(qs) THEN Cut(i) ELSE Len(qs)
<1>1. lo \in Nat /\ Cut(i) = lo + MaxBatch /\ MaxBatch \in Nat \ {0} /\ Len(qs) \in Nat
  <2>1. i - 1 \in Nat /\ (i - 1) + 1 = i
    OBVIOUS
  <2> QED BY <2>1, Cuts, BatchAssumption
<1>2. Part(qs, i) = SubSeq(qs, lo + 1, hi)
  BY DEF Part, Cut
<1> HIDE DEF lo
<1>3. hi \in Nat /\ lo + 1 <= hi /\ hi <= Len(qs) /\ hi <= lo + MaxBatch
  BY <1>1 DEF lo
<1>4. \A k \in 1 .. Len(qs) : lo < k /\ k <= lo + MaxBatch => k <= hi
  BY <1>1
<1> HIDE DEF hi
<1>5. /\ SubSeq(qs, lo + 1, hi) \in Seq(NestedQueries)
      /\ Len(SubSeq(qs, lo + 1, hi)) = hi - lo
      /\ \A j \in 1 .. hi - lo : SubSeq(qs, lo + 1, hi)[j] = qs[lo + j]
  BY <1>1, <1>3
<1>6. hi - lo \in 1 .. MaxBatch
  BY <1>1, <1>3
<1>7. ASSUME NEW k \in 1 .. Len(qs), lo < k, k <= lo + MaxBatch
      PROVE  k - lo \in 1 .. hi - lo /\ lo + (k - lo) = k
  BY <1>1, <1>3, <1>4, <1>7
<1>8. ASSUME NEW j \in 1 .. hi - lo PROVE lo + j \in 1 .. Len(qs)
  BY <1>1, <1>3
<1>9. \A j \in 1 .. hi - lo : \E k \in 1 .. Len(qs) : SubSeq(qs, lo + 1, hi)[j] = qs[k]
  BY <1>5, <1>8
<1> QED BY <1>1, <1>2, <1>5, <1>6, <1>7, <1>9 DEF lo

(* A dispatch puts every query of the queue in a batch, nothing else, and  *)
(* makes no batch that is empty or too long.                               *)
LEMMA BatchesAre ==
  ASSUME NEW qs \in Seq(NestedQueries)
  PROVE  /\ Len(Batches(qs)) \in Nat
         /\ DOMAIN Batches(qs) = 1 .. Len(Batches(qs))
         /\ \A i \in 1 .. Len(Batches(qs)) :
              \E s \in Seq(NestedQueries) :
                /\ Batches(qs)[i] = Load(s) /\ Len(s) \in 1 .. MaxBatch
                /\ \A j \in 1 .. Len(s) : \E k \in 1 .. Len(qs) : s[j] = qs[k]
         /\ \A k \in 1 .. Len(qs) : \E i \in 1 .. Len(Batches(qs)) :
              \E j \in 1 .. Len(Batches(qs)[i].qs) : Batches(qs)[i].qs[j] = qs[k]
<1> DEFINE n == Len(qs)
           N == (n + MaxBatch - 1) \div MaxBatch
<1>1. n \in Nat /\ MaxBatch \in Nat \ {0} /\ n + MaxBatch - 1 \in Nat
  BY BatchAssumption
<1>2. N \in Nat /\ Cut(N) <= n + MaxBatch - 1 /\ n + MaxBatch - 1 < Cut(N) + MaxBatch
  BY <1>1, Quotient
<1>3. Batches(qs) = [i \in 1 .. N |-> Load(Part(qs, i))]
  BY DEF Batches, Part
<1> HIDE DEF N
<1>4. Len(Batches(qs)) = N /\ DOMAIN Batches(qs) = 1 .. N
  BY <1>2, <1>3
<1>5. ASSUME NEW i \in 1 .. N PROVE Cut(i - 1) < n
  <2>1. i - 1 \in Nat /\ i \in Nat /\ (i - 1) + 1 = i /\ i <= N
    BY <1>2
  <2>2. Cut(i) <= Cut(N) /\ Cut(i) = Cut(i - 1) + MaxBatch /\ Cut(i - 1) \in Nat /\ Cut(N) \in Nat
    BY <2>1, <1>2, Cuts
  <2> QED BY <1>1, <1>2, <2>2
<1>6. ASSUME NEW k \in 1 .. n
      PROVE  \E i \in 1 .. N : Cut(i - 1) < k /\ k <= Cut(i)
  <2> DEFINE d == (k - 1) \div MaxBatch
  <2>1. k - 1 \in Nat
    OBVIOUS
  <2>2. d \in Nat /\ Cut(d) <= k - 1 /\ k - 1 < Cut(d) + MaxBatch
    BY <2>1, Quotient
  <2> HIDE DEF d
  <2>3. Cut(d + 1) = Cut(d) + MaxBatch /\ Cut(d) \in Nat /\ Cut(N) \in Nat
    BY <2>2, <1>2, Cuts
  <2>4. d < N
    <3> SUFFICES ASSUME N <= d PROVE FALSE
      BY <2>2, <1>2
    <3>1. Cut(N) <= Cut(d)
      BY <2>2, <1>2, Cuts
    <3> QED BY <3>1, <2>2, <2>3, <1>1, <1>2
  <2>5. d + 1 \in 1 .. N /\ (d + 1) - 1 = d
    BY <2>2, <2>4, <1>2
  <2>6. Cut((d + 1) - 1) < k /\ k <= Cut(d + 1)
    BY <2>2, <2>3, <2>5, <1>1
  <2> QED BY <2>5, <2>6
<1>7. \A i \in 1 .. N : /\ Part(qs, i) \in Seq(NestedQueries) /\ Len(Part(qs, i)) \in 1 .. MaxBatch
                        /\ \A j \in 1 .. Len(Part(qs, i)) : \E k \in 1 .. n : Part(qs, i)[j] = qs[k]
                        /\ Batches(qs)[i] = Load(Part(qs, i))
  BY <1>2, <1>3, <1>5, PartIs
<1>8. ASSUME NEW k \in 1 .. n
      PROVE  \E i \in 1 .. N : \E j \in 1 .. Len(Batches(qs)[i].qs) : Batches(qs)[i].qs[j] = qs[k]
  <2>1. PICK i \in 1 .. N : Cut(i - 1) < k /\ k <= Cut(i)
    BY <1>6
  <2>2. /\ k - Cut(i - 1) \in 1 .. Len(Part(qs, i))
        /\ Part(qs, i)[k - Cut(i - 1)] = qs[k]
    <3>1. i \in Nat \ {0} /\ Cut(i - 1) < Len(qs)
      BY <1>2, <1>5
    <3>2. \A m \in 1 .. Len(qs) : Cut(i - 1) < m /\ m <= Cut(i) =>
            m - Cut(i - 1) \in 1 .. Len(Part(qs, i)) /\ Part(qs, i)[m - Cut(i - 1)] = qs[m]
      BY <3>1, PartIs
    <3> QED BY <2>1, <3>2
  <2>3. Batches(qs)[i].qs = Part(qs, i)
    <3>1. Load(Part(qs, i)).qs = Part(qs, i)
      BY DEF Load
    <3> QED BY <1>7, <3>1
  <2>4. \E j \in 1 .. Len(Part(qs, i)) : Part(qs, i)[j] = qs[k]
    BY <2>2
  <2> QED BY <2>3, <2>4
<1> QED BY <1>2, <1>4, <1>7, <1>8

-----------------------------------------------------------------------------
(* What the constants are, in the terms of the queries.                    *)
LEMMA QueriesAre ==
  /\ \A q \in AnyQuery : /\ q.obj \in Objects \cup {0} /\ q.field \in Fields
                         /\ Select[q.field] \in Seq(Fields \ {"root"})
  /\ NestedQueries \subseteq AnyQuery /\ RootQuery \in AnyQuery
BY BatchAssumption DEF AnyQuery, NestedQueries, RootQuery, Query

LEMMA ALoadIs ==
  ASSUME Types, NEW l \in DOMAIN loads
  PROVE  /\ loads[l] \in LoadType /\ LoadOK(loads[l], denied)
         /\ loads[l].wait \subseteq (l + 1) .. Len(loads)
BY DEF Types, LoadsOK

(* The statement of a batch finds objects.                                 *)
LEMMA AnswersAreObjects ==
  ASSUME NEW qs \in Seq(AnyQuery), qs # <<>>, NEW q
  PROVE  Answer(qs, q) \in SUBSET Objects
<1>1. Head(qs) \in AnyQuery
  OBVIOUS
<1>2. Head(qs).field \in Fields
  BY <1>1, QueriesAre
<1>3. \A r \in Found(qs) : r.obj \in Objects
  BY <1>2, BatchAssumption DEF Found
<1>4. \A r \in Matched(qs, q) : r.obj \in Objects
  BY <1>3 DEF Matched
<1> QED BY <1>4 DEF Answer

(* The query that a load completes next.                                   *)
At(l) == loads[l].qs[loads[l].pos]

-----------------------------------------------------------------------------
(* The other loads are as they were, and the load has its queries.         *)
Alone(l) ==
  /\ Len(loads') = Len(loads) /\ DOMAIN loads' = DOMAIN loads
  /\ \A m \in DOMAIN loads : m # l => loads'[m] = loads[m]
  /\ loads'[l].qs = loads[l].qs /\ loads'[l].wait = loads[l].wait

(* The load has answered what it had.                                      *)
SamePlace(l) ==
  /\ loads'[l].pos = loads[l].pos /\ loads'[l].at = loads[l].at
  /\ loads'[l].objs = loads[l].objs

(* A step that writes a load back with its queries is a step alone.        *)
LEMMA StepAlone ==
  ASSUME Types, NEW l \in DOMAIN loads, NEW new \in LoadType, Step(l, new),
         denied' = denied, new.qs = loads[l].qs, new.wait = loads[l].wait,
         new.st \in {"enqueue", "join"} => new.todo # <<>> /\ Head(new.todo) \notin denied,
         new.st \in {"loading", "done"} => new.calls = {}
  PROVE  Alone(l) /\ loads'[l] = new /\ LoadsOK'
<1>1. loads \in Seq(LoadType) /\ loads # <<>>
  BY DEF Types, LoadsOK
<1>2. /\ loads' \in Seq(LoadType) /\ Len(loads') = Len(loads)
      /\ DOMAIN loads' = DOMAIN loads /\ loads'[l] = new
      /\ \A m \in DOMAIN loads : m # l => loads'[m] = loads[m]
  BY <1>1 DEF Step
<1>3. loads' # <<>>
  BY <1>1, <1>2
<1>4. ASSUME NEW m \in DOMAIN loads
      PROVE  LoadOK(loads'[m], denied') /\ loads'[m].wait \subseteq (m + 1) .. Len(loads')
  <2>1. LoadOK(loads[m], denied) /\ loads[m].wait \subseteq (m + 1) .. Len(loads)
    BY ALoadIs
  <2>2. CASE m = l
    <3>1. LoadOK(new, denied)
      BY <2>1, <2>2 DEF LoadOK
    <3> QED BY <1>2, <2>1, <2>2, <3>1
  <2>3. CASE m # l
    BY <1>2, <2>1, <2>3
  <2> QED BY <2>2, <2>3
<1> QED BY <1>2, <1>3, <1>4 DEF LoadsOK, Alone

(* What each operation of a load changes: its statement answers,           *)
LEMMA LoadedIs ==
  ASSUME Types, NEW l \in DOMAIN loads, Loaded(l)
  PROVE  /\ Alone(l) /\ SamePlace(l) /\ LoadsOK'
         /\ loads[l].st = "loading" /\ loads'[l].st = "next"
         /\ loads'[l].calls = loads[l].calls
         /\ UNCHANGED <<denied, queue, shared, given, error>>
<1> DEFINE new == [loads[l] EXCEPT !.st = "next"]
<1>1. loads[l] \in LoadType
  BY ALoadIs
<1>2. /\ new \in LoadType /\ new.qs = loads[l].qs /\ new.wait = loads[l].wait
      /\ new.st = "next" /\ new.pos = loads[l].pos /\ new.at = loads[l].at
      /\ new.objs = loads[l].objs /\ new.calls = loads[l].calls
  BY <1>1 DEF LoadType, LoadStates
<1>3. Step(l, new) /\ loads[l].st = "loading" /\ UNCHANGED <<denied, queue, shared, given, error>>
  BY DEF Loaded
<1> HIDE DEF new
<1>4. Alone(l) /\ loads'[l] = new /\ LoadsOK'
  BY <1>2, <1>3, StepAlone
<1> QED BY <1>2, <1>3, <1>4 DEF SamePlace

(* or fails;                                                               *)
LEMMA LoadFailsIs ==
  ASSUME Types, NEW l \in DOMAIN loads, LoadFails(l)
  PROVE  /\ Alone(l) /\ SamePlace(l) /\ LoadsOK'
         /\ loads[l].st = "loading" /\ loads'[l].st = "done"
         /\ loads'[l].calls = loads[l].calls
         /\ error' = TRUE /\ UNCHANGED <<denied, queue, shared, given>>
<1> DEFINE new == [loads[l] EXCEPT !.st = "done"]
<1>1. loads[l] \in LoadType /\ LoadOK(loads[l], denied)
  BY ALoadIs
<1>2. /\ new \in LoadType /\ new.qs = loads[l].qs /\ new.wait = loads[l].wait
      /\ new.st = "done" /\ new.pos = loads[l].pos /\ new.at = loads[l].at
      /\ new.objs = loads[l].objs /\ new.calls = loads[l].calls
  BY <1>1 DEF LoadType, LoadStates
<1>3. /\ Step(l, new) /\ loads[l].st = "loading"
      /\ error' = TRUE /\ UNCHANGED <<denied, queue, shared, given>>
  BY DEF LoadFails
<1>4. loads[l].calls = {}
  BY <1>1, <1>3 DEF LoadOK
<1> HIDE DEF new
<1>5. Alone(l) /\ loads'[l] = new /\ LoadsOK'
  BY <1>2, <1>3, <1>4, StepAlone
<1> QED BY <1>2, <1>3, <1>5 DEF SamePlace

(* it has run all callbacks;                                               *)
LEMMA FinishIs ==
  ASSUME Types, NEW l \in DOMAIN loads, Finish(l)
  PROVE  /\ Alone(l) /\ SamePlace(l) /\ LoadsOK'
         /\ loads[l].st = "next" /\ loads'[l].st = "done"
         /\ loads'[l].calls = loads[l].calls /\ loads[l].pos > Len(loads[l].qs)
         /\ UNCHANGED <<denied, queue, shared, given, error>>
<1> DEFINE new == [loads[l] EXCEPT !.st = "done"]
<1>1. loads[l] \in LoadType
  BY ALoadIs
<1>2. /\ new \in LoadType /\ new.qs = loads[l].qs /\ new.wait = loads[l].wait
      /\ new.st = "done" /\ new.pos = loads[l].pos /\ new.at = loads[l].at
      /\ new.objs = loads[l].objs /\ new.calls = loads[l].calls
  BY <1>1 DEF LoadType, LoadStates
<1>3. /\ Step(l, new) /\ loads[l].st = "next" /\ loads[l].calls = {}
      /\ loads[l].pos > Len(loads[l].qs)
      /\ UNCHANGED <<denied, queue, shared, given, error>>
  BY DEF Finish
<1> HIDE DEF new
<1>4. Alone(l) /\ loads'[l] = new /\ LoadsOK'
  BY <1>2, <1>3, StepAlone
<1> QED BY <1>2, <1>3, <1>4 DEF SamePlace

(* it has waited for its dispatch, and goes on to the next field;          *)
LEMMA JoinIs ==
  ASSUME Types, NEW l \in DOMAIN loads, Join(l)
  PROVE  /\ Alone(l) /\ SamePlace(l) /\ LoadsOK'
         /\ loads[l].st = "join" /\ loads'[l].st = "resolve"
         /\ loads'[l].calls = loads[l].calls /\ loads'[l].todo = Tail(loads[l].todo)
         /\ Waited(l) /\ UNCHANGED <<denied, queue, shared, given, error>>
<1> DEFINE rest == Tail(loads[l].todo)
           new == [loads[l] EXCEPT !.st = "resolve", !.todo = rest]
<1>1. /\ loads[l] \in LoadType /\ LoadOK(loads[l], denied)
      /\ loads[l].st = "join" /\ Waited(l)
      /\ UNCHANGED <<denied, queue, shared, given, error>>
  BY ALoadIs DEF Join
<1>2. rest \in Seq(Fields \ {"root"})
  <2>1. loads[l].todo \in Seq(Fields \ {"root"}) /\ loads[l].todo # <<>>
    BY <1>1 DEF LoadType, LoadOK
  <2> QED BY <2>1
<1>3. Step(l, new)
  <2>1. new = [loads[l] EXCEPT !.st = "resolve", !.todo = Tail(@)]
    OBVIOUS
  <2> QED BY <2>1 DEF Join
<1> HIDE DEF rest
<1>4. /\ new \in LoadType /\ new.qs = loads[l].qs /\ new.wait = loads[l].wait
      /\ new.st = "resolve" /\ new.pos = loads[l].pos /\ new.at = loads[l].at
      /\ new.objs = loads[l].objs /\ new.calls = loads[l].calls /\ new.todo = rest
  BY <1>1, <1>2 DEF LoadType, LoadStates
<1> HIDE DEF new
<1>5. Alone(l) /\ loads'[l] = new /\ LoadsOK'
  BY <1>1, <1>3, <1>4, StepAlone
<1> QED BY <1>1, <1>4, <1>5 DEF SamePlace, rest

(* it completes its next query, and has all to call back that wait for it; *)
LEMMA CompleteIs ==
  ASSUME Types, NEW l \in DOMAIN loads, Complete(l)
  PROVE  /\ Alone(l) /\ LoadsOK' /\ loads[l].st = "next" /\ loads'[l].st = "next"
         /\ loads[l].calls = {} /\ loads[l].pos \in DOMAIN loads[l].qs
         /\ loads'[l].pos = loads[l].pos + 1 /\ loads'[l].at = At(l)
         /\ loads'[l].objs = Answer(loads[l].qs, At(l))
         /\ loads'[l].calls = {o \in Objects \cup {0} : Awaits(o, At(l))}
         /\ At(l) \in AnyQuery
         /\ UNCHANGED <<denied, queue, shared, given, error>>
<1> DEFINE all == {o \in Objects \cup {0} : Awaits(o, At(l))}
           found == Answer(loads[l].qs, At(l))
           p == loads[l].pos + 1
           new == [loads[l] EXCEPT !.pos = p, !.at = At(l), !.objs = found, !.calls = all]
<1>1. loads[l] \in LoadType
  BY ALoadIs
<1>2. /\ loads[l].st = "next" /\ loads[l].calls = {} /\ loads[l].pos <= Len(loads[l].qs)
      /\ UNCHANGED <<denied, queue, shared, given, error>>
  BY DEF Complete
<1>3. Step(l, new)
  <2>1. new = [loads[l] EXCEPT !.pos = @ + 1, !.at = At(l), !.objs = found, !.calls = all]
    OBVIOUS
  <2>2. Step(l, [loads[l] EXCEPT !.pos = @ + 1, !.at = At(l), !.objs = found, !.calls = all])
    BY DEF Complete, At
  <2> HIDE DEF new, all, found
  <2> QED BY <2>1, <2>2
<1>4. /\ loads[l].qs \in Seq(AnyQuery) /\ loads[l].pos \in Nat \ {0}
      /\ p \in Nat \ {0} /\ all \in SUBSET (Objects \cup {0})
  BY <1>1 DEF LoadType
<1>5. loads[l].pos \in DOMAIN loads[l].qs /\ loads[l].qs # <<>>
  BY <1>2, <1>4
<1>6. At(l) \in AnyQuery
  BY <1>4, <1>5 DEF At
<1>7. found \in SUBSET Objects
  BY <1>4, <1>5, AnswersAreObjects
<1>8. p = loads[l].pos + 1
  OBVIOUS
<1> HIDE DEF all, found, p
<1>9. /\ new \in LoadType /\ new.qs = loads[l].qs /\ new.wait = loads[l].wait
      /\ new.st = "next" /\ new.pos = p /\ new.at = At(l)
      /\ new.objs = found /\ new.calls = all
  BY <1>1, <1>2, <1>4, <1>6, <1>7 DEF LoadType
<1> HIDE DEF new
<1>10. Alone(l) /\ loads'[l] = new /\ LoadsOK'
  BY <1>2, <1>3, <1>9, StepAlone
<1> QED BY <1>2, <1>5, <1>6, <1>8, <1>9, <1>10 DEF all, found

(* Too many objects for the field of the query that was answered.          *)
TooMany(l) ==
  loads[l].at.field # "root" /\ loads[l].at.field \notin Many /\ Cardinality(loads[l].objs) > 1

(* a callback gives the children to one of them;                           *)
LEMMA AssignIs ==
  ASSUME Types, NEW l \in DOMAIN loads, Assign(l)
  PROVE  /\ Alone(l) /\ SamePlace(l) /\ LoadsOK' /\ loads[l].st = "next"
         /\ UNCHANGED <<denied, queue, shared>> /\ error' = (error \/ TooMany(l))
         /\ IF TooMany(l) \/ loads[l].objs = {}
            THEN loads'[l].st = "next"
            ELSE loads'[l].st = "resolve" /\ loads'[l].todo = Select[loads[l].at.field]
         /\ \E o \in loads[l].calls :
              /\ loads'[l].calls = loads[l].calls \ {o}
              /\ given' = IF TooMany(l) THEN given
                          ELSE [given EXCEPT ![<<o, loads[l].at.field>>] = loads[l].objs]
<1> DEFINE f == loads[l].at.field
           stop == TooMany(l) \/ loads[l].objs = {}
           s == IF stop THEN "next" ELSE "resolve"
           y == IF stop THEN <<>> ELSE Select[f]
<1>1. loads[l] \in LoadType
  BY ALoadIs
<1>2. loads[l].st = "next" /\ UNCHANGED <<denied, queue, shared>>
  BY DEF Assign
<1>3. PICK o \in loads[l].calls :
        /\ given' = IF TooMany(l) THEN given ELSE [given EXCEPT ![<<o, f>>] = loads[l].objs]
        /\ error' = (error \/ TooMany(l))
        /\ Step(l, [loads[l] EXCEPT !.calls = @ \ {o}, !.st = s, !.todo = y])
  BY DEF Assign, TooMany
<1> DEFINE rest == loads[l].calls \ {o}
           new == [loads[l] EXCEPT !.calls = rest, !.st = s, !.todo = y]
<1>4. Step(l, new)
  <2>1. new = [loads[l] EXCEPT !.calls = @ \ {o}, !.st = s, !.todo = y]
    OBVIOUS
  <2> QED BY <1>3, <2>1
<1>5. f \in Fields /\ Select[f] \in Seq(Fields \ {"root"})
  BY <1>1, QueriesAre DEF LoadType
<1>6. /\ rest \in SUBSET (Objects \cup {0}) /\ y \in Seq(Fields \ {"root"})
      /\ s \in {"next", "resolve"}
  BY <1>1, <1>5 DEF LoadType
<1>7. IF stop THEN s = "next" ELSE s = "resolve" /\ y = Select[f]
  OBVIOUS
<1> HIDE DEF rest, y, s, stop
<1>8. /\ new \in LoadType /\ new.qs = loads[l].qs /\ new.wait = loads[l].wait
      /\ new.st = s /\ new.todo = y /\ new.pos = loads[l].pos /\ new.at = loads[l].at
      /\ new.objs = loads[l].objs /\ new.calls = rest
  BY <1>1, <1>6 DEF LoadType, LoadStates
<1> HIDE DEF new
<1>9. Alone(l) /\ loads'[l] = new /\ LoadsOK'
  BY <1>2, <1>4, <1>6, <1>8, StepAlone
<1> QED BY <1>2, <1>3, <1>7, <1>8, <1>9 DEF SamePlace, rest, stop

(* it goes on to the next field under them, or stops;                      *)
LEMMA ResolveIs ==
  ASSUME Types, NEW l \in DOMAIN loads, Resolve(l)
  PROVE  LET fields == loads[l].todo
             stop == fields = <<>> \/ Head(fields) \in denied
         IN /\ Alone(l) /\ SamePlace(l) /\ LoadsOK' /\ loads[l].st = "resolve"
            /\ loads'[l].calls = loads[l].calls
            /\ UNCHANGED <<denied, queue, shared, given>>
            /\ error' = (error \/ (fields # <<>> /\ stop))
            /\ IF stop THEN loads'[l].st = "next"
               ELSE /\ loads'[l].st = "enqueue" /\ loads'[l].todo = fields
                    /\ loads'[l].kids = Keyed(loads[l].objs, Head(fields))
<1> DEFINE fields == loads[l].todo
           stop == fields = <<>> \/ Head(fields) \in denied
           kids == Keyed(loads[l].objs, Head(fields))
           t == loads[l].turn + 1
           old == [loads[l] EXCEPT !.st = "next"]
           next == [loads[l] EXCEPT !.st = "enqueue", !.turn = t, !.kids = kids]
           new == IF stop THEN old ELSE next
<1>1. loads[l] \in LoadType
  BY ALoadIs
<1>2. /\ Step(l, new) /\ UNCHANGED <<denied, queue, shared, given>> /\ loads[l].st = "resolve"
      /\ error' = (error \/ (fields # <<>> /\ stop))
  <2>1. next = [loads[l] EXCEPT !.st = "enqueue", !.turn = @ + 1, !.kids = kids]
    OBVIOUS
  <2> QED BY <2>1 DEF Resolve
<1>3. kids \in SUBSET Objects /\ t \in Nat
  BY <1>1 DEF LoadType, Keyed
<1>4. ~stop => fields # <<>> /\ Head(fields) \notin denied
  OBVIOUS
<1> HIDE DEF kids, t
<1>5. /\ old \in LoadType /\ old.qs = loads[l].qs /\ old.wait = loads[l].wait
      /\ old.pos = loads[l].pos /\ old.at = loads[l].at
      /\ old.objs = loads[l].objs /\ old.calls = loads[l].calls /\ old.st = "next"
  BY <1>1 DEF LoadType, LoadStates
<1>6. /\ next \in LoadType /\ next.qs = loads[l].qs /\ next.wait = loads[l].wait
      /\ next.pos = loads[l].pos /\ next.at = loads[l].at
      /\ next.objs = loads[l].objs /\ next.calls = loads[l].calls
      /\ next.st = "enqueue" /\ next.kids = kids /\ next.todo = fields
  BY <1>1, <1>3 DEF LoadType, LoadStates
<1> HIDE DEF stop, fields, old, next
<1>7. /\ new \in LoadType /\ new.qs = loads[l].qs /\ new.wait = loads[l].wait
      /\ new.pos = loads[l].pos /\ new.at = loads[l].at
      /\ new.objs = loads[l].objs /\ new.calls = loads[l].calls
      /\ stop => new.st = "next"
      /\ ~stop => new.st = "enqueue" /\ new.kids = kids /\ new.todo = fields
  BY <1>5, <1>6
<1> HIDE DEF new
<1>8. Alone(l) /\ loads'[l] = new /\ LoadsOK'
  BY <1>2, <1>4, <1>7, StepAlone
<1> QED BY <1>2, <1>7, <1>8 DEF stop, kids, fields, SamePlace

(* The query that it builds for an object.                                 *)
LEMMA BuiltIs ==
  ASSUME Types, NEW l \in DOMAIN loads, loads[l].st = "enqueue", NEW o \in Objects
  PROVE  /\ Built(l, o) \in NestedQueries /\ Built(l, o).obj = o
         /\ Built(l, o).field = Head(loads[l].todo)
         /\ Head(loads[l].todo) \in Fields \ {"root"} /\ Head(loads[l].todo) \notin denied
<1>1. loads[l] \in LoadType /\ LoadOK(loads[l], denied)
  BY ALoadIs
<1>2. loads[l].todo \in Seq(Fields \ {"root"}) /\ loads[l].turn \in Nat
  BY <1>1 DEF LoadType
<1>3. loads[l].todo # <<>> /\ Head(loads[l].todo) \notin denied
  BY <1>1 DEF LoadOK
<1>4. Head(loads[l].todo) \in Fields \ {"root"}
  BY <1>2, <1>3
<1>5. l \in Nat
  <2>1. loads \in Seq(LoadType)
    BY DEF Types, LoadsOK
  <2> QED BY <2>1
<1> QED BY <1>2, <1>3, <1>4, <1>5 DEF Built, Query, NestedQueries

(* What a load has to do after its callback is as it was, but for one child. *)
OneLess(l, o) ==
  /\ o \in loads[l].kids /\ loads'[l].kids = loads[l].kids \ {o}
  /\ loads[l].st = "enqueue" /\ loads'[l].st = "enqueue" /\ Waited(l)
  /\ loads'[l].todo = loads[l].todo /\ loads'[l].calls = loads[l].calls
  /\ SamePlace(l)

LEMMA ChildIsDone ==
  ASSUME Types, NEW l \in DOMAIN loads, NEW o \in loads[l].kids, IsNext(l, o),
         Step(l, [loads[l] EXCEPT !.kids = @ \ {o}]), denied' = denied
  PROVE  Alone(l) /\ OneLess(l, o) /\ LoadsOK' /\ o \in Objects
<1> DEFINE rest == loads[l].kids \ {o}
           new == [loads[l] EXCEPT !.kids = rest]
<1>1. loads[l] \in LoadType /\ LoadOK(loads[l], denied) /\ loads[l].st = "enqueue" /\ Waited(l)
  BY ALoadIs DEF IsNext
<1>2. Step(l, new)
  <2>1. new = [loads[l] EXCEPT !.kids = @ \ {o}]
    OBVIOUS
  <2> QED BY <2>1
<1>3. rest \in SUBSET Objects /\ o \in Objects
  BY <1>1 DEF LoadType
<1> HIDE DEF rest
<1>4. /\ new \in LoadType /\ new.qs = loads[l].qs /\ new.wait = loads[l].wait
      /\ new.st = loads[l].st /\ new.pos = loads[l].pos /\ new.objs = loads[l].objs
      /\ new.todo = loads[l].todo /\ new.kids = rest /\ new.at = loads[l].at
      /\ new.calls = loads[l].calls
  BY <1>1, <1>3 DEF LoadType
<1>5. loads[l].todo # <<>> /\ Head(loads[l].todo) \notin denied
  BY <1>1 DEF LoadOK
<1> HIDE DEF new
<1>6. Alone(l) /\ loads'[l] = new /\ LoadsOK'
  BY <1>1, <1>2, <1>4, <1>5, StepAlone
<1> QED BY <1>1, <1>3, <1>4, <1>6 DEF rest, OneLess, SamePlace

(* it queues the query of one child;                                       *)
LEMMA EnqueueIs ==
  ASSUME Types, NEW l \in DOMAIN loads, Enqueue(l)
  PROVE  /\ UNCHANGED <<denied, shared, given, error>>
         /\ \E o \in loads[l].kids :
              /\ Alone(l) /\ OneLess(l, o) /\ LoadsOK' /\ o \in Objects
              /\ queue' = Append(queue, Built(l, o))
<1>1. UNCHANGED <<denied, shared, given, error>>
  BY DEF Enqueue
<1>2. PICK o \in loads[l].kids :
        /\ IsNext(l, o) /\ queue' = Append(queue, Built(l, o))
        /\ Step(l, [loads[l] EXCEPT !.kids = @ \ {o}])
  BY DEF Enqueue
<1> QED BY <1>1, <1>2, ChildIsDone

(* it lets one child wait with a sibling;                                  *)
LEMMA ShareIs ==
  ASSUME Types, NEW l \in DOMAIN loads, Share(l)
  PROVE  /\ UNCHANGED <<denied, queue, given, error>>
         /\ \E o \in loads[l].kids, p \in loads[l].objs :
              /\ Alone(l) /\ OneLess(l, o) /\ LoadsOK' /\ o \in Clashing /\ p \in Objects
              /\ Due(Built(l, p))
              /\ shared' = shared \cup {[obj |-> o, query |-> Built(l, p)]}
<1>1. UNCHANGED <<denied, queue, given, error>>
  BY DEF Share
<1>2. PICK o \in loads[l].kids \cap Clashing, p \in loads[l].objs :
        /\ IsNext(l, o) /\ Due(Built(l, p))
        /\ shared' = shared \cup {[obj |-> o, query |-> Built(l, p)]}
        /\ Step(l, [loads[l] EXCEPT !.kids = @ \ {o}])
  BY DEF Share
<1>3. p \in Objects
  BY ALoadIs DEF LoadType
<1> QED BY <1>1, <1>2, <1>3, ChildIsDone

-----------------------------------------------------------------------------
(* A sequence after another.                                               *)
LEMMA Concat ==
  ASSUME NEW S, NEW s \in Seq(S), NEW t \in Seq(S)
  PROVE  /\ s \o t \in Seq(S) /\ Len(s \o t) = Len(s) + Len(t)
         /\ \A i \in 1 .. Len(s) : (s \o t)[i] = s[i]
         /\ \A i \in 1 .. Len(t) : (s \o t)[Len(s) + i] = t[i]
OBVIOUS

(* The load that the step is of waits for what it adds to the loads.       *)
LEMMA LoadsGrow ==
  ASSUME Types, NEW l \in DOMAIN loads, NEW new \in LoadType, NEW more \in Seq(LoadType),
         loads' = [loads EXCEPT ![l] = new] \o more, denied' = denied,
         new.qs = loads[l].qs, new.wait = Len(loads) + 1 .. Len(loads) + Len(more),
         new.st \in {"enqueue", "join"} => new.todo # <<>> /\ Head(new.todo) \notin denied,
         new.st \in {"loading", "done"} => new.calls = {},
         \A i \in 1 .. Len(more) : LoadOK(more[i], denied) /\ more[i].wait = {}
  PROVE  /\ DOMAIN loads' = 1 .. Len(loads) + Len(more)
         /\ loads'[l] = new /\ \A m \in DOMAIN loads : m # l => loads'[m] = loads[m]
         /\ \A i \in 1 .. Len(more) : loads'[Len(loads) + i] = more[i]
         /\ LoadsOK'
<1> DEFINE n == Len(loads)
           b == Len(more)
           old == [loads EXCEPT ![l] = new]
<1>1. loads \in Seq(LoadType) /\ loads # <<>>
  BY DEF Types, LoadsOK
<1>2. n \in Nat /\ b \in Nat /\ DOMAIN loads = 1 .. n
  BY <1>1
<1>3. /\ old \in Seq(LoadType) /\ Len(old) = n /\ old[l] = new
      /\ \A m \in DOMAIN loads : m # l => old[m] = loads[m]
  BY <1>1
<1>4. loads' = old \o more
  OBVIOUS
<1>a. /\ new.wait = n + 1 .. n + b
      /\ \A i \in 1 .. b : LoadOK(more[i], denied) /\ more[i].wait = {}
  OBVIOUS
<1> HIDE DEF old, n, b
<1>5. /\ old \o more \in Seq(LoadType) /\ Len(old \o more) = Len(old) + Len(more)
      /\ \A m \in 1 .. Len(old) : (old \o more)[m] = old[m]
      /\ \A i \in 1 .. Len(more) : (old \o more)[Len(old) + i] = more[i]
  <2>1. old \in Seq(LoadType) /\ more \in Seq(LoadType)
    BY <1>3
  <2> QED BY <2>1, Concat
<1>6. /\ loads' \in Seq(LoadType) /\ Len(loads') = n + b
      /\ \A m \in 1 .. n : loads'[m] = old[m]
      /\ \A i \in 1 .. b : loads'[n + i] = more[i]
  <2>1. Len(old) = n /\ Len(more) = b
    BY <1>3 DEF b
  <2> QED BY <1>4, <1>5, <2>1
<1>7. DOMAIN loads' = 1 .. n + b
  BY <1>6
<1>8. loads'[l] = new /\ \A m \in DOMAIN loads : m # l => loads'[m] = loads[m]
  BY <1>2, <1>3, <1>6
<1>9. loads' # <<>>
  <2>1. 1 \in DOMAIN loads'
    <3>1. n # 0
      BY <1>1 DEF n
    <3> QED BY <1>2, <1>7, <3>1
  <2> QED BY <2>1
<1>10. ASSUME NEW m \in 1 .. n
       PROVE  LoadOK(loads'[m], denied') /\ loads'[m].wait \subseteq (m + 1) .. (n + b)
  <2>1. LoadOK(loads[m], denied) /\ loads[m].wait \subseteq (m + 1) .. n
    BY <1>2, ALoadIs DEF n
  <2>2. CASE m = l
    <3>1. LoadOK(new, denied)
      BY <2>1, <2>2 DEF LoadOK
    <3>2. n + 1 .. n + b \subseteq (m + 1) .. (n + b)
      BY <1>2
    <3> QED BY <1>a, <1>8, <2>2, <3>1, <3>2
  <2>3. CASE m # l
    <3>1. (m + 1) .. n \subseteq (m + 1) .. (n + b)
      BY <1>2
    <3>2. loads'[m] = loads[m]
      BY <1>2, <1>8, <2>3
    <3> QED BY <2>1, <3>1, <3>2
  <2> QED BY <2>2, <2>3
<1>11. ASSUME NEW m \in 1 .. n + b, m \notin 1 .. n
       PROVE  LoadOK(loads'[m], denied') /\ loads'[m].wait \subseteq (m + 1) .. (n + b)
  <2>1. m - n \in 1 .. b /\ n + (m - n) = m
    BY <1>2, <1>11
  <2>2. loads'[m] = more[m - n]
    BY <1>6, <2>1
  <2> QED BY <1>a, <2>1, <2>2
<1>12. LoadsOK'
  <2>1. \A m \in DOMAIN loads' :
          LoadOK(loads'[m], denied') /\ loads'[m].wait \subseteq (m + 1) .. Len(loads')
    BY <1>6, <1>7, <1>10, <1>11
  <2> QED BY <1>6, <1>9, <2>1 DEF LoadsOK
<1> QED BY <1>6, <1>7, <1>8, <1>12 DEF n, b

(* A child is called back at once with the answer of a sibling's query,    *)
(* and the load waits for that;                                            *)
LEMMA ShareAnswerIs ==
  ASSUME Types, NEW l \in DOMAIN loads, ShareAnswer(l)
  PROVE  /\ UNCHANGED <<denied, queue, given, error>>
         /\ \E o \in loads[l].kids, p \in loads[l].objs, m \in DOMAIN loads :
              LET n == Len(loads) + 1
                  q == Built(l, p)
              IN /\ n \notin DOMAIN loads /\ DOMAIN loads' = DOMAIN loads \cup {n} /\ l < n
                 /\ \A k \in DOMAIN loads : k # l => loads'[k] = loads[k]
                 /\ OneLess(l, o) /\ loads'[l].qs = loads[l].qs /\ loads'[l].wait = {n}
                 /\ loads'[n].qs = <<>> /\ loads'[n].st = "next" /\ loads'[n].at = q
                 /\ loads'[n].calls = {o} /\ loads'[n].objs = Answer(loads[m].qs, q)
                 /\ q \in ToSet(loads[m].qs) /\ o \in Clashing /\ p \in Objects
                 /\ shared' = shared \cup {[obj |-> o, query |-> q]}
                 /\ LoadsOK'
<1>1. UNCHANGED <<denied, queue, given, error>>
  BY DEF ShareAnswer
<1>2. PICK o \in loads[l].kids \cap Clashing, p \in loads[l].objs, m \in DOMAIN loads :
        /\ IsNext(l, o)
        /\ \E i \in DOMAIN loads[m].qs : i < loads[m].pos /\ loads[m].qs[i] = Built(l, p)
        /\ shared' = shared \cup {[obj |-> o, query |-> Built(l, p)]}
        /\ loads' = [loads EXCEPT ![l].kids = @ \ {o}, ![l].wait = {Len(loads) + 1}]
             \o <<[Load(<<Built(l, p)>>) EXCEPT !.qs = <<>>, !.st = "next", !.calls = {o},
                       !.objs = Answer(loads[m].qs, Built(l, p))]>>
  BY DEF ShareAnswer
<1> DEFINE n == Len(loads) + 1
           q == Built(l, p)
           kids == loads[l].kids \ {o}
           found == Answer(loads[m].qs, q)
           new == [loads[l] EXCEPT !.kids = kids, !.wait = {n}]
           one == [Load(<<q>>) EXCEPT !.qs = <<>>, !.st = "next", !.calls = {o}, !.objs = found]
<1>3. /\ loads[l] \in LoadType /\ LoadOK(loads[l], denied) /\ loads[m] \in LoadType
      /\ loads[l].st = "enqueue" /\ Waited(l)
  BY <1>2, ALoadIs DEF IsNext
<1>4. loads \in Seq(LoadType) /\ DOMAIN loads = 1 .. Len(loads) /\ Len(loads) \in Nat
  BY DEF Types, LoadsOK
<1>5. o \in Objects /\ p \in Objects
  BY <1>3 DEF LoadType
<1>6. q \in NestedQueries
  BY <1>3, <1>5, BuiltIs
<1>7. q \in ToSet(loads[m].qs) /\ loads[m].qs # <<>>
  <2>1. \E i \in DOMAIN loads[m].qs : loads[m].qs[i] = q
    BY <1>2
  <2> QED BY <2>1 DEF ToSet
<1>8. found \in SUBSET Objects
  BY <1>3, <1>7, AnswersAreObjects DEF LoadType
<1>9. loads' = [loads EXCEPT ![l] = new] \o <<one>>
  <2>1. [loads EXCEPT ![l].kids = @ \ {o}, ![l].wait = {n}] = [loads EXCEPT ![l] = new]
    BY <1>3 DEF LoadType
  <2> QED BY <1>2, <2>1
<1>10. /\ n \in Nat /\ l < n /\ n \notin DOMAIN loads
       /\ {n} = Len(loads) + 1 .. Len(loads) + 1 /\ DOMAIN loads \cup {n} = 1 .. Len(loads) + 1
  BY <1>4
<1>11. kids \in SUBSET Objects /\ kids = loads[l].kids \ {o}
  BY <1>3 DEF LoadType
<1> HIDE DEF n, q, kids, found
<1>12. /\ new \in LoadType /\ new.qs = loads[l].qs /\ new.wait = {n}
       /\ new.st = "enqueue" /\ new.pos = loads[l].pos /\ new.objs = loads[l].objs
       /\ new.todo = loads[l].todo /\ new.kids = kids /\ new.at = loads[l].at
       /\ new.calls = loads[l].calls
  BY <1>3, <1>10, <1>11 DEF LoadType
<1>13. /\ one \in LoadType /\ one.qs = <<>> /\ one.st = "next" /\ one.at = q /\ one.wait = {}
       /\ one.calls = {o} /\ one.objs = found
  <2> DEFINE r == Load(<<q>>)
             e == <<>>
  <2>1. e \in Seq(AnyQuery) /\ e \in Seq(Fields \ {"root"}) /\ q \in AnyQuery
    BY <1>6, QueriesAre
  <2>2. {o} \in SUBSET (Objects \cup {0})
    BY <1>5
  <2>3. <<q>> \in Seq(AnyQuery) /\ Head(<<q>>) = q
    BY <2>1
  <2>4. r \in LoadType /\ r.at = q /\ r.wait = {}
    BY <2>1, <2>3 DEF Load, LoadType, LoadStates
  <2>5. one = [r EXCEPT !.qs = e, !.st = "next", !.calls = {o}, !.objs = found]
    OBVIOUS
  <2> HIDE DEF one, r, e
  <2>6. /\ one \in LoadType /\ one.qs = e /\ one.st = "next" /\ one.at = q /\ one.wait = {}
        /\ one.calls = {o} /\ one.objs = found
    BY <2>1, <2>2, <2>4, <2>5, <1>8 DEF LoadType, LoadStates
  <2> QED BY <2>6 DEF e
<1>14. LoadOK(one, denied)
  <2>1. Len(<<>>) = 0 /\ 0 \in 0 .. MaxBatch /\ <<>> \in Seq(NestedQueries)
    BY BatchAssumption
  <2> HIDE DEF one
  <2> QED BY <1>13, <2>1 DEF LoadOK
<1>15. loads[l].todo # <<>> /\ Head(loads[l].todo) \notin denied
  BY <1>3 DEF LoadOK
<1> HIDE DEF new, one
<1> DEFINE more == <<one>>
<1>16. /\ more \in Seq(LoadType) /\ Len(more) = 1 /\ more[1] = one
       /\ loads' = [loads EXCEPT ![l] = new] \o more
  BY <1>9, <1>13
<1> HIDE DEF more
<1>17. \A i \in 1 .. Len(more) : LoadOK(more[i], denied) /\ more[i].wait = {}
  <2>1. \A i \in 1 .. Len(more) : more[i] = one
    BY <1>16
  <2> QED BY <1>13, <1>14, <2>1
<1>18. /\ Len(loads) \in Nat /\ DOMAIN loads' = 1 .. Len(loads) + 1
       /\ loads'[l] = new /\ (\A k \in DOMAIN loads : k # l => loads'[k] = loads[k])
       /\ loads'[Len(loads) + 1] = one /\ LoadsOK'
  <2>1. new.wait = Len(loads) + 1 .. Len(loads) + Len(more)
    BY <1>10, <1>12, <1>16
  <2>2. /\ DOMAIN loads' = 1 .. Len(loads) + Len(more)
        /\ loads'[l] = new /\ (\A k \in DOMAIN loads : k # l => loads'[k] = loads[k])
        /\ \A i \in 1 .. Len(more) : loads'[Len(loads) + i] = more[i]
        /\ LoadsOK'
    BY ONLY <1>1, <1>12, <1>15, <1>16, <1>17, <2>1, LoadsGrow, Types, l \in DOMAIN loads
  <2> QED BY <1>4, <1>16, <2>2
<1>19. loads'[n] = one
  BY <1>18 DEF n
<1>20. OneLess(l, o)
  BY <1>3, <1>11, <1>12, <1>18 DEF OneLess, SamePlace
<1>21. DOMAIN loads' = DOMAIN loads \cup {n}
  BY <1>10, <1>18
<1>22. /\ n \notin DOMAIN loads /\ DOMAIN loads' = DOMAIN loads \cup {n} /\ l < n
       /\ (\A k \in DOMAIN loads : k # l => loads'[k] = loads[k])
       /\ OneLess(l, o) /\ loads'[l].qs = loads[l].qs /\ loads'[l].wait = {n}
       /\ loads'[n].qs = <<>> /\ loads'[n].st = "next" /\ loads'[n].at = q
       /\ loads'[n].calls = {o} /\ loads'[n].objs = found
       /\ q \in ToSet(loads[m].qs) /\ o \in Clashing /\ p \in Objects
       /\ shared' = shared \cup {[obj |-> o, query |-> q]}
       /\ LoadsOK'
  BY <1>2, <1>5, <1>7, <1>10, <1>12, <1>13, <1>18, <1>19, <1>20, <1>21 DEF q
<1> QED BY <1>1, <1>22 DEF n, q, found

(* A dispatch puts the queries of the queue in loads that it waits for.    *)
LEMMA DispatchIs ==
  ASSUME Types, NEW l \in DOMAIN loads, Dispatch(l)
  PROVE  /\ DOMAIN loads \subseteq DOMAIN loads' /\ LoadsOK'
         /\ \A m \in DOMAIN loads : m # l => loads'[m] = loads[m]
         /\ (loads[l].st = "enqueue" /\ loads[l].kids = {}) \/ loads[l].st = "join"
         /\ loads'[l].st = "join" /\ Waited(l) /\ SamePlace(l)
         /\ loads'[l].calls = loads[l].calls
         /\ loads'[l].qs = loads[l].qs /\ loads'[l].todo = loads[l].todo
         /\ \A m \in DOMAIN loads' \ DOMAIN loads :
              /\ m \in loads'[l].wait /\ l < m
              /\ loads'[m].st = "loading" /\ loads'[m].pos = 1 /\ loads'[m].calls = {}
              /\ \A j \in DOMAIN loads'[m].qs : \E k \in DOMAIN queue : loads'[m].qs[j] = queue[k]
         /\ \A k \in DOMAIN queue : \E m \in DOMAIN loads' \ DOMAIN loads :
              \E j \in DOMAIN loads'[m].qs : loads'[m].qs[j] = queue[k]
         /\ queue' = <<>> /\ UNCHANGED <<denied, shared, given, error>>
<1> DEFINE n == Len(loads)
           more == Batches(queue)
           b == Len(more)
           new == [loads[l] EXCEPT !.st = "join", !.wait = n + 1 .. n + b]
<1>1. queue \in Seq(NestedQueries) /\ loads \in Seq(LoadType)
  BY DEF Types, LoadsOK
<1>2. n \in Nat /\ b \in Nat /\ DOMAIN more = 1 .. b /\ DOMAIN loads = 1 .. n
  BY <1>1, BatchesAre
<1>3. /\ loads[l] \in LoadType /\ LoadOK(loads[l], denied)
      /\ (loads[l].st = "enqueue" /\ loads[l].kids = {}) \/ loads[l].st = "join"
      /\ Waited(l) /\ queue' = <<>> /\ UNCHANGED <<denied, shared, given, error>>
  BY ALoadIs DEF Dispatch
<1>4. n + 1 .. n + b \in SUBSET Nat
  BY <1>2
<1>5. loads' = [loads EXCEPT ![l] = new] \o more
  <2>1. [loads EXCEPT ![l].st = "join", ![l].wait = n + 1 .. n + b] = [loads EXCEPT ![l] = new]
    OBVIOUS
  <2> QED BY <2>1 DEF Dispatch
<1>6. \A i \in 1 .. b : \E s \in Seq(NestedQueries) :
        /\ more[i] = Load(s) /\ Len(s) \in 1 .. MaxBatch
        /\ \A j \in 1 .. Len(s) : \E k \in 1 .. Len(queue) : s[j] = queue[k]
  BY <1>1, BatchesAre
<1>7. \A k \in 1 .. Len(queue) : \E i \in 1 .. b :
        \E j \in 1 .. Len(more[i].qs) : more[i].qs[j] = queue[k]
  BY <1>1, BatchesAre
<1>8. more = [i \in 1 .. b |-> more[i]]
  BY <1>2 DEF Batches
<1> HIDE DEF more, n, b
<1>9. ASSUME NEW i \in 1 .. b
      PROVE  /\ more[i] \in LoadType /\ LoadOK(more[i], denied) /\ more[i].wait = {}
             /\ more[i].st = "loading" /\ more[i].pos = 1 /\ more[i].calls = {}
             /\ DOMAIN more[i].qs = 1 .. Len(more[i].qs)
             /\ \A j \in DOMAIN more[i].qs : \E k \in DOMAIN queue : more[i].qs[j] = queue[k]
  <2>1. PICK s \in Seq(NestedQueries) :
          /\ more[i] = Load(s) /\ Len(s) \in 1 .. MaxBatch
          /\ \A j \in 1 .. Len(s) : \E k \in 1 .. Len(queue) : s[j] = queue[k]
    BY <1>6
  <2>2. more[i] = [qs |-> s, st |-> "loading", pos |-> 1, at |-> Head(s), calls |-> {},
                   objs |-> {}, todo |-> <<>>, kids |-> {}, wait |-> {}, turn |-> 0]
    BY <2>1 DEF Load
  <2>3. DOMAIN s = 1 .. Len(s) /\ DOMAIN queue = 1 .. Len(queue) /\ s # <<>>
    BY <1>1, <2>1, BatchAssumption
  <2>4. s \in Seq(AnyQuery) /\ Head(s) \in AnyQuery /\ <<>> \in Seq(Fields \ {"root"})
    <3>1. \A S, T : S \subseteq T => Seq(S) \subseteq Seq(T)
      OBVIOUS
    <3>2. Head(s) \in NestedQueries
      BY <2>3
    <3> QED BY <3>1, <3>2, QueriesAre
  <2>5. more[i] \in LoadType
    BY <2>2, <2>4 DEF LoadType, LoadStates
  <2>6. LoadOK(more[i], denied)
    <3>1. Len(s) \in 0 .. MaxBatch
      BY <2>1, BatchAssumption
    <3> QED BY <2>2, <3>1 DEF LoadOK
  <2>7. /\ more[i].qs = s /\ more[i].wait = {} /\ more[i].st = "loading"
        /\ more[i].pos = 1 /\ more[i].calls = {}
    BY <2>2
  <2>8. /\ DOMAIN more[i].qs = 1 .. Len(more[i].qs)
        /\ \A j \in DOMAIN more[i].qs : \E k \in DOMAIN queue : more[i].qs[j] = queue[k]
    BY <2>1, <2>3, <2>7
  <2> QED BY <2>5, <2>6, <2>7, <2>8
<1>10. more \in Seq(LoadType) /\ Len(more) = b
  <2>1. \A i \in 1 .. b : more[i] \in LoadType
    BY <1>9
  <2> QED BY <1>2, <1>8, <2>1 DEF b
<1>11. /\ new \in LoadType /\ new.qs = loads[l].qs /\ new.wait = n + 1 .. n + b
       /\ new.st = "join" /\ new.pos = loads[l].pos /\ new.objs = loads[l].objs
       /\ new.todo = loads[l].todo /\ new.at = loads[l].at /\ new.calls = loads[l].calls
  BY <1>3, <1>4 DEF LoadType, LoadStates
<1>12. loads[l].todo # <<>> /\ Head(loads[l].todo) \notin denied
  BY <1>3 DEF LoadOK
<1> HIDE DEF new
<1>13. /\ DOMAIN loads' = 1 .. n + b /\ loads'[l] = new
       /\ (\A m \in DOMAIN loads : m # l => loads'[m] = loads[m])
       /\ (\A i \in 1 .. b : loads'[n + i] = more[i]) /\ LoadsOK'
  <2>1. \A i \in 1 .. Len(more) : LoadOK(more[i], denied) /\ more[i].wait = {}
    BY <1>9, <1>10
  <2>2. new.wait = Len(loads) + 1 .. Len(loads) + Len(more)
    BY <1>10, <1>11 DEF n
  <2>3. /\ DOMAIN loads' = 1 .. Len(loads) + Len(more)
        /\ loads'[l] = new /\ (\A k \in DOMAIN loads : k # l => loads'[k] = loads[k])
        /\ \A i \in 1 .. Len(more) : loads'[Len(loads) + i] = more[i]
        /\ LoadsOK'
    BY ONLY <1>3, <1>5, <1>10, <1>11, <1>12, <2>1, <2>2, LoadsGrow, Types, l \in DOMAIN loads
  <2> QED BY <1>10, <2>3 DEF n
<1>14. ASSUME NEW m \in DOMAIN loads' \ DOMAIN loads
       PROVE  /\ m \in loads'[l].wait /\ l < m
              /\ loads'[m].st = "loading" /\ loads'[m].pos = 1 /\ loads'[m].calls = {}
              /\ \A j \in DOMAIN loads'[m].qs : \E k \in DOMAIN queue : loads'[m].qs[j] = queue[k]
  <2>1. m - n \in 1 .. b /\ n + (m - n) = m /\ m \in n + 1 .. n + b /\ l < m
    BY <1>2, <1>13
  <2>2. loads'[m] = more[m - n]
    BY <1>13, <2>1
  <2>3. /\ more[m - n].st = "loading" /\ more[m - n].pos = 1 /\ more[m - n].calls = {}
        /\ \A j \in DOMAIN more[m - n].qs : \E k \in DOMAIN queue : more[m - n].qs[j] = queue[k]
    BY <1>9, <2>1
  <2>4. m \in loads'[l].wait
    BY <1>11, <1>13, <2>1
  <2> QED BY <2>1, <2>2, <2>3, <2>4
<1>15. ASSUME NEW k \in DOMAIN queue
       PROVE  \E m \in DOMAIN loads' \ DOMAIN loads :
                \E j \in DOMAIN loads'[m].qs : loads'[m].qs[j] = queue[k]
  <2>1. PICK i \in 1 .. b : \E j \in 1 .. Len(more[i].qs) : more[i].qs[j] = queue[k]
    <3>1. DOMAIN queue = 1 .. Len(queue)
      BY <1>1
    <3> QED BY <1>7, <3>1
  <2>2. n + i \in DOMAIN loads' \ DOMAIN loads
    BY <1>2, <1>13
  <2>3. loads'[n + i] = more[i] /\ DOMAIN more[i].qs = 1 .. Len(more[i].qs)
    BY <1>9, <1>13
  <2>4. \E j \in DOMAIN loads'[n + i].qs : loads'[n + i].qs[j] = queue[k]
    BY <2>1, <2>3
  <2> QED BY <2>2, <2>4
<1>16. DOMAIN loads \subseteq DOMAIN loads'
  BY <1>2, <1>13
<1>17. /\ loads'[l].st = "join" /\ SamePlace(l) /\ loads'[l].calls = loads[l].calls
       /\ loads'[l].qs = loads[l].qs /\ loads'[l].todo = loads[l].todo
  BY <1>11, <1>13 DEF SamePlace
<1> QED BY <1>3, <1>13, <1>14, <1>15, <1>16, <1>17


-----------------------------------------------------------------------------
(* What a callback gives is a set of objects, and not the mark of no answer. *)
LEMMA GivenIs ==
  ASSUME Types, NEW l \in DOMAIN loads
  PROVE  /\ loads[l].objs # Unset /\ loads[l].objs \in SUBSET Objects
         /\ loads[l].at.field \in Fields /\ loads[l].calls \subseteq Objects \cup {0}
<1>1. loads[l] \in LoadType
  BY ALoadIs
<1>2. /\ loads[l].objs \in SUBSET Objects /\ loads[l].at \in AnyQuery
      /\ loads[l].calls \subseteq Objects \cup {0}
  BY <1>1 DEF LoadType
<1>3. Unset \notin SUBSET Objects
  BY BatchAssumption DEF Unset
<1> QED BY <1>2, <1>3, QueriesAre

LEMMA BatchTypes == Spec => []Types
<1> USE BatchAssumption
<1>1. Init => Types
  <2> SUFFICES ASSUME Init PROVE Types
    OBVIOUS
  <2> DEFINE first == Load(<<RootQuery>>)
  <2>1. loads = <<first>>
    BY DEF Init, RootQuery
  <2>2. first \in LoadType
    <3>1. <<RootQuery>> \in Seq(AnyQuery) /\ <<>> \in Seq(Fields \ {"root"}) /\ RootQuery \in AnyQuery
      BY QueriesAre
    <3>2. Head(<<RootQuery>>) = RootQuery
      OBVIOUS
    <3> QED BY <3>1, <3>2 DEF Load, LoadType, LoadStates
  <2>3. LoadOK(first, denied) /\ first.wait = {}
    <3>1. Len(<<RootQuery>>) = 1 /\ 1 \in 0 .. MaxBatch
      OBVIOUS
    <3> QED BY <3>1 DEF Load, LoadOK
  <2> HIDE DEF first
  <2>4. loads \in Seq(LoadType) /\ loads # <<>> /\ DOMAIN loads = {1} /\ loads[1] = first
    BY <2>1, <2>2
  <2>5. given \in [(Objects \cup {0}) \X Fields -> {Unset} \cup SUBSET Objects]
    BY DEF Init
  <2>6. queue \in Seq(NestedQueries)
    BY DEF Init
  <2>7. LoadsOK
    BY <2>3, <2>4 DEF LoadsOK
  <2> QED BY <2>5, <2>6, <2>7 DEF Init, Types
<1>2. Types /\ [Next]_vars => Types'
  <2> SUFFICES ASSUME Types, [Next]_vars PROVE Types'
    OBVIOUS
  <2>0. CASE UNCHANGED vars
    BY <2>0 DEF vars, Types, LoadsOK, LoadOK
  <2> SUFFICES ASSUME NEW l \in DOMAIN loads, LoadStep(l) PROVE Types'
    BY <2>0 DEF Next
  <2>1. CASE Loaded(l)
    BY <2>1, LoadedIs DEF Types
  <2>2. CASE LoadFails(l)
    BY <2>2, LoadFailsIs DEF Types
  <2>3. CASE Complete(l)
    BY <2>3, CompleteIs DEF Types
  <2>4. CASE Assign(l)
    <3>1. /\ LoadsOK' /\ UNCHANGED <<denied, queue, shared>> /\ error' = (error \/ TooMany(l))
          /\ \E o \in loads[l].calls :
               given' = IF TooMany(l) THEN given
                        ELSE [given EXCEPT ![<<o, loads[l].at.field>>] = loads[l].objs]
      BY <2>4, AssignIs
    <3>2. given \in [(Objects \cup {0}) \X Fields -> {Unset} \cup SUBSET Objects]
      BY DEF Types
    <3>3. given' \in [(Objects \cup {0}) \X Fields -> {Unset} \cup SUBSET Objects]
      BY <3>1, <3>2, GivenIs
    <3>4. error' \in BOOLEAN
      BY <3>1 DEF Types, TooMany
    <3> QED BY <3>1, <3>3, <3>4 DEF Types
  <2>5. CASE Resolve(l)
    <3>1. /\ LoadsOK' /\ UNCHANGED <<denied, queue, shared, given>>
          /\ error' = (error \/ (loads[l].todo # <<>> /\ (loads[l].todo = <<>> \/ Head(loads[l].todo) \in denied)))
      BY <2>5, ResolveIs
    <3>2. error' \in BOOLEAN
      BY <3>1 DEF Types
    <3> QED BY <3>1, <3>2 DEF Types
  <2>6. CASE Enqueue(l)
    <3>1. PICK o \in loads[l].kids :
            /\ LoadsOK' /\ OneLess(l, o) /\ o \in Objects /\ queue' = Append(queue, Built(l, o))
      BY <2>6, EnqueueIs
    <3>2. Built(l, o) \in NestedQueries
      BY <3>1, BuiltIs DEF OneLess
    <3>3. queue' \in Seq(NestedQueries)
      BY <3>1, <3>2 DEF Types
    <3> QED BY <2>6, <3>1, <3>3, EnqueueIs DEF Types
  <2>7. CASE Share(l)
    <3>1. PICK o \in loads[l].kids, p \in loads[l].objs :
            /\ LoadsOK' /\ OneLess(l, o) /\ o \in Clashing /\ p \in Objects
            /\ shared' = shared \cup {[obj |-> o, query |-> Built(l, p)]}
      BY <2>7, ShareIs
    <3>2. Built(l, p) \in NestedQueries
      BY <3>1, BuiltIs DEF OneLess
    <3> QED BY <2>7, <3>1, <3>2, ShareIs DEF Types
  <2>8. CASE ShareAnswer(l)
    <3>1. PICK o \in loads[l].kids, p \in loads[l].objs :
            /\ LoadsOK' /\ OneLess(l, o) /\ o \in Clashing /\ p \in Objects
            /\ shared' = shared \cup {[obj |-> o, query |-> Built(l, p)]}
      BY <2>8, ShareAnswerIs
    <3>2. Built(l, p) \in NestedQueries
      BY <3>1, BuiltIs DEF OneLess
    <3> QED BY <2>8, <3>1, <3>2, ShareAnswerIs DEF Types
  <2>9. CASE Dispatch(l)
    <3>1. LoadsOK' /\ queue' = <<>> /\ UNCHANGED <<denied, shared, given, error>>
      BY <2>9, DispatchIs
    <3>2. queue' \in Seq(NestedQueries)
      BY <3>1
    <3> QED BY <3>1, <3>2 DEF Types
  <2>10. CASE Join(l)
    BY <2>10, JoinIs DEF Types
  <2>11. CASE Finish(l)
    BY <2>11, FinishIs DEF Types
  <2> QED BY <2>1, <2>2, <2>3, <2>4, <2>5, <2>6, <2>7, <2>8, <2>9, <2>10, <2>11 DEF LoadStep
<1> QED BY <1>1, <1>2, PTL DEF Spec

-----------------------------------------------------------------------------
(* A load keeps its queries, a request its user, and an object what it     *)
(* waits for.                                                              *)
LEMMA Grows ==
  ASSUME Types, [Next]_vars
  PROVE  /\ denied' = denied /\ shared \subseteq shared' /\ DOMAIN loads \subseteq DOMAIN loads'
         /\ \A m \in DOMAIN loads : loads'[m].qs = loads[m].qs
<1>1. CASE UNCHANGED vars
  BY <1>1 DEF vars
<1>2. ASSUME NEW l \in DOMAIN loads, LoadStep(l)
      PROVE  /\ denied' = denied /\ shared \subseteq shared' /\ DOMAIN loads \subseteq DOMAIN loads'
             /\ \A m \in DOMAIN loads : loads'[m].qs = loads[m].qs
  <2>1. CASE Loaded(l)
    BY <2>1, LoadedIs DEF Alone
  <2>2. CASE LoadFails(l)
    BY <2>2, LoadFailsIs DEF Alone
  <2>3. CASE Complete(l)
    BY <2>3, CompleteIs DEF Alone
  <2>4. CASE Assign(l)
    BY <2>4, AssignIs DEF Alone
  <2>5. CASE Resolve(l)
    BY <2>5, ResolveIs DEF Alone
  <2>6. CASE Enqueue(l)
    BY <2>6, EnqueueIs DEF Alone
  <2>7. CASE Share(l)
    BY <2>7, ShareIs DEF Alone
  <2>8. CASE ShareAnswer(l)
    BY <2>8, ShareAnswerIs
  <2>9. CASE Dispatch(l)
    BY <2>9, DispatchIs
  <2>10. CASE Join(l)
    BY <2>10, JoinIs DEF Alone
  <2>11. CASE Finish(l)
    BY <2>11, FinishIs DEF Alone
  <2> QED BY <1>2, <2>1, <2>2, <2>3, <2>4, <2>5, <2>6, <2>7, <2>8, <2>9, <2>10, <2>11 DEF LoadStep
<1> QED BY <1>1, <1>2 DEF Next

(* A step of one load leaves the other loads alone.                        *)
LEMMA OthersStay ==
  ASSUME Types, NEW l \in DOMAIN loads, LoadStep(l), NEW m \in DOMAIN loads, m # l
  PROVE  loads'[m] = loads[m]
<1>1. CASE Loaded(l)
  BY <1>1, LoadedIs DEF Alone
<1>2. CASE LoadFails(l)
  BY <1>2, LoadFailsIs DEF Alone
<1>3. CASE Complete(l)
  BY <1>3, CompleteIs DEF Alone
<1>4. CASE Assign(l)
  BY <1>4, AssignIs DEF Alone
<1>5. CASE Resolve(l)
  BY <1>5, ResolveIs DEF Alone
<1>6. CASE Enqueue(l)
  BY <1>6, EnqueueIs DEF Alone
<1>7. CASE Share(l)
  BY <1>7, ShareIs DEF Alone
<1>8. CASE ShareAnswer(l)
  BY <1>8, ShareAnswerIs
<1>9. CASE Dispatch(l)
  BY <1>9, DispatchIs
<1>10. CASE Join(l)
  BY <1>10, JoinIs DEF Alone
<1>11. CASE Finish(l)
  BY <1>11, FinishIs DEF Alone
<1> QED BY <1>1, <1>2, <1>3, <1>4, <1>5, <1>6, <1>7, <1>8, <1>9, <1>10, <1>11 DEF LoadStep

(* Only a callback gives anything.                                         *)
LEMMA OthersGiveNothing ==
  ASSUME Types, NEW l \in DOMAIN loads, LoadStep(l), ~Assign(l)
  PROVE  given' = given
BY DEF LoadStep, Loaded, LoadFails, Complete, Resolve, Enqueue, Share, ShareAnswer, Dispatch, Join,
       Finish

(* Only a dispatch and an answer at once add to the loads.                 *)
LEMMA WhoAdds ==
  ASSUME Types, NEW l \in DOMAIN loads, LoadStep(l), ~Dispatch(l), ~ShareAnswer(l)
  PROVE  DOMAIN loads' = DOMAIN loads
BY LoadedIs, LoadFailsIs, CompleteIs, AssignIs, ResolveIs, EnqueueIs, ShareIs, JoinIs, FinishIs
  DEF LoadStep, Alone

(* Only a child that is queued and a dispatch change the queue.            *)
LEMMA WhoQueues ==
  ASSUME NEW l \in DOMAIN loads, LoadStep(l), ~Enqueue(l), ~Dispatch(l)
  PROVE  queue' = queue
BY DEF LoadStep, Loaded, LoadFails, Complete, Assign, Resolve, Share, ShareAnswer, Join, Finish

(* A load that is done takes no step, and one that waits takes none before *)
(* those are done.                                                         *)
LEMMA WhoSteps ==
  ASSUME NEW l \in DOMAIN loads, LoadStep(l)
  PROVE  /\ loads[l].st # "done" /\ (loads[l].st \in {"enqueue", "join"} => Waited(l))
         /\ loads[l].st = "enqueue" => Enqueue(l) \/ Share(l) \/ ShareAnswer(l) \/ Dispatch(l)
BY DEF LoadStep, Loaded, LoadFails, Complete, Assign, Resolve, Enqueue, Share, ShareAnswer, Dispatch,
       Join, Finish, IsNext

(* What is in a list is its first, or in its rest.                         *)
LEMMA InTail ==
  ASSUME NEW S, NEW s \in Seq(S), NEW x \in ToSet(s)
  PROVE  x = Head(s) \/ x \in ToSet(Tail(s))
<1>1. PICK i \in DOMAIN s : s[i] = x
  BY DEF ToSet
<1>2. CASE i = 1
  BY <1>1, <1>2
<1>3. CASE i # 1
  <2>1. i - 1 \in DOMAIN Tail(s) /\ Tail(s)[i - 1] = s[i]
    BY <1>3
  <2> QED BY <1>1, <2>1 DEF ToSet
<1> QED BY <1>2, <1>3

-----------------------------------------------------------------------------
(* A load whose thread is in a callback, with fields still to select for   *)
(* the children it gave.                                                   *)
Working == {"resolve", "enqueue", "join"}

(* What a load calls back with is the answer that some load's statement    *)
(* gave to a query, and who is called back waits for that query.           *)
CallsFit ==
  \A l \in DOMAIN loads : loads[l].calls # {} =>
    /\ \E m \in DOMAIN loads : /\ loads[l].at \in ToSet(loads[m].qs)
                               /\ loads[l].objs = Answer(loads[m].qs, loads[l].at)
    /\ \A o \in loads[l].calls : Awaits(o, loads[l].at)

(* No query asks for a field that may not be read.                         *)
AsksAllowed ==
  /\ \A k \in DOMAIN queue : queue[k].field \notin denied
  /\ \A l \in DOMAIN loads : \A j \in DOMAIN loads[l].qs : loads[l].qs[j].field \notin denied

DeniedUnset == \A p \in DOMAIN given : p[2] \in denied => given[p] = Unset

(* Some load has the field still to select.                                *)
ToSelect(f) == \E l \in DOMAIN loads : loads[l].st \in Working /\ f \in ToSet(loads[l].todo)

(* Where children were given, a field under them that may not be read has  *)
(* failed the request, or a load has yet to come to it.                    *)
DeniedFails ==
  \A p \in DOMAIN given : \A f \in denied :
    f \in ToSet(Select[p[2]]) /\ given[p] \notin {Unset, {}} => error \/ ToSelect(f)

(* A load that is not done is waited for, except the first.                *)
WaitedFor ==
  \A m \in DOMAIN loads : m # 1 /\ loads[m].st # "done" =>
    \E l \in DOMAIN loads :
      l < m /\ loads[l].st \in {"enqueue", "join"} /\ m \in loads[l].wait

(* What is queued is dispatched by who queued it, at the latest.           *)
QueueIsKept == queue # <<>> => \E l \in DOMAIN loads : loads[l].st = "enqueue"

(* The object waits for a query for the field that is yet to be answered.  *)
Asked(o, f) == \E q \in AnyQuery : q.field = f /\ Awaits(o, q) /\ Due(q)

(* The object is yet to be called back for the field.                      *)
Called(o, f) == \E l \in DOMAIN loads : loads[l].at.field = f /\ o \in loads[l].calls

(* The load has yet to queue the query of the object for the field.        *)
Owes(ld, o, f) ==
  \/ ld.st = "resolve" /\ o \in ld.objs /\ f \in ToSet(ld.todo)
  \/ ld.st \in {"enqueue", "join"} /\ o \in ld.objs /\ f \in ToSet(Tail(ld.todo))
  \/ ld.st = "enqueue" /\ o \in ld.kids /\ f = Head(ld.todo)

Owed(o, f) == \E l \in DOMAIN loads : Owes(loads[l], o, f)

(* What is wanted is given, or queued, or loaded, or will be.              *)
NoneIsLost ==
  ~error => \A o \in Objects, f \in Fields :
    Wanted(o, f) => given[<<o, f>>] # Unset \/ Asked(o, f) \/ Called(o, f) \/ Owed(o, f)

-----------------------------------------------------------------------------
(* The calls of a load that is unchanged, or has only fewer of them, fit.  *)
LEMMA FewerFit ==
  ASSUME Types, CallsFit, [Next]_vars, NEW l \in DOMAIN loads,
         loads'[l].calls \subseteq loads[l].calls, loads'[l].calls # {},
         loads'[l].at = loads[l].at, loads'[l].objs = loads[l].objs
  PROVE  /\ \E m \in DOMAIN loads' : /\ loads'[l].at \in ToSet(loads'[m].qs)
                                     /\ loads'[l].objs = Answer(loads'[m].qs, loads'[l].at)
         /\ \A o \in loads'[l].calls : Awaits(o, loads[l].at)'
<1>1. PICK m \in DOMAIN loads : /\ loads[l].at \in ToSet(loads[m].qs)
                                /\ loads[l].objs = Answer(loads[m].qs, loads[l].at)
  BY DEF CallsFit
<1>2. \A o \in loads[l].calls : Awaits(o, loads[l].at)
  BY DEF CallsFit
<1>3. /\ shared \subseteq shared' /\ DOMAIN loads \subseteq DOMAIN loads'
      /\ loads'[m].qs = loads[m].qs
  BY Grows
<1>4. \A o \in loads'[l].calls : Awaits(o, loads[l].at)'
  BY <1>2, <1>3 DEF Awaits
<1> QED BY <1>1, <1>3, <1>4

LEMMA CallsAreFit == Spec => []CallsFit
<1>1. Init => CallsFit
  <2> SUFFICES ASSUME Init PROVE CallsFit
    OBVIOUS
  <2>1. DOMAIN loads = {1} /\ loads[1].calls = {}
    BY DEF Init, Load
  <2> QED BY <2>1 DEF CallsFit
<1>2. Types /\ CallsFit /\ [Next]_vars => CallsFit'
  <2> SUFFICES ASSUME Types, CallsFit, [Next]_vars, NEW k \in DOMAIN loads', loads'[k].calls # {}
               PROVE  /\ \E m \in DOMAIN loads' : /\ loads'[k].at \in ToSet(loads'[m].qs)
                                                  /\ loads'[k].objs = Answer(loads'[m].qs, loads'[k].at)
                      /\ \A o \in loads'[k].calls : Awaits(o, loads[k].at)'
    BY DEF CallsFit
  <2>0. CASE UNCHANGED vars
    BY <2>0, FewerFit DEF vars
  <2> SUFFICES ASSUME NEW l \in DOMAIN loads, LoadStep(l)
               PROVE  /\ \E m \in DOMAIN loads' : /\ loads'[k].at \in ToSet(loads'[m].qs)
                                                  /\ loads'[k].objs = Answer(loads'[m].qs, loads'[k].at)
                      /\ \A o \in loads'[k].calls : Awaits(o, loads[k].at)'
    BY <2>0 DEF Next
  <2>1. CASE k \in DOMAIN loads /\ k # l
    BY <2>1, OthersStay, FewerFit
  <2>2. CASE k = l /\ SamePlace(l) /\ loads'[l].calls \subseteq loads[l].calls
    BY <2>2, FewerFit DEF SamePlace
  <2>3. CASE k = l /\ Complete(l)
    <3>1. /\ DOMAIN loads' = DOMAIN loads /\ loads'[l].qs = loads[l].qs
          /\ loads[l].pos \in DOMAIN loads[l].qs /\ shared' = shared
          /\ loads'[l].at = At(l) /\ loads'[l].objs = Answer(loads[l].qs, At(l))
          /\ loads'[l].calls = {o \in Objects \cup {0} : Awaits(o, At(l))}
      BY <2>3, CompleteIs DEF Alone
    <3>2. At(l) \in ToSet(loads[l].qs)
      BY <3>1 DEF At, ToSet
    <3>3. \A o \in loads'[l].calls : Awaits(o, loads[l].at)'
      BY <3>1 DEF Awaits
    <3> QED BY <2>3, <3>1, <3>2, <3>3
  <2>4. CASE k \notin DOMAIN loads /\ ShareAnswer(l)
    <3>1. PICK o \in loads[l].kids, p \in loads[l].objs, m \in DOMAIN loads :
            /\ DOMAIN loads' = DOMAIN loads \cup {Len(loads) + 1}
            /\ loads'[Len(loads) + 1].at = Built(l, p) /\ loads'[Len(loads) + 1].calls = {o}
            /\ loads'[Len(loads) + 1].objs = Answer(loads[m].qs, Built(l, p))
            /\ Built(l, p) \in ToSet(loads[m].qs)
            /\ shared' = shared \cup {[obj |-> o, query |-> Built(l, p)]}
      BY <2>4, ShareAnswerIs
    <3>2. k = Len(loads) + 1
      BY <2>4, <3>1
    <3>3. Awaits(o, loads[k].at)'
      <4>1. [obj |-> o, query |-> loads'[k].at] \in shared'
        BY <3>1, <3>2
      <4> QED BY <3>1, <3>2, <4>1 DEF Awaits
    <3>4. m \in DOMAIN loads' /\ loads'[m].qs = loads[m].qs
      BY Grows
    <3> QED BY <3>1, <3>2, <3>3, <3>4
  <2>5. CASE k \notin DOMAIN loads /\ ~ShareAnswer(l)
    <3>1. Dispatch(l)
      BY <2>5, WhoAdds
    <3>2. loads'[k].calls = {}
      BY <2>5, <3>1, DispatchIs
    <3> QED BY <3>2
  <2>6. ASSUME ~Complete(l) PROVE SamePlace(l) /\ loads'[l].calls \subseteq loads[l].calls
    <3>1. CASE Loaded(l)
      BY <3>1, LoadedIs
    <3>2. CASE LoadFails(l)
      BY <3>2, LoadFailsIs
    <3>3. CASE Assign(l)
      BY <3>3, AssignIs
    <3>4. CASE Resolve(l)
      BY <3>4, ResolveIs
    <3>5. CASE Enqueue(l)
      BY <3>5, EnqueueIs DEF OneLess
    <3>6. CASE Share(l)
      BY <3>6, ShareIs DEF OneLess
    <3>7. CASE ShareAnswer(l)
      BY <3>7, ShareAnswerIs DEF OneLess
    <3>8. CASE Dispatch(l)
      BY <3>8, DispatchIs
    <3>9. CASE Join(l)
      BY <3>9, JoinIs
    <3>10. CASE Finish(l)
      BY <3>10, FinishIs
    <3> QED BY <2>6, <3>1, <3>2, <3>3, <3>4, <3>5, <3>6, <3>7, <3>8, <3>9, <3>10 DEF LoadStep
  <2> QED BY <2>1, <2>2, <2>3, <2>4, <2>5, <2>6
<1> QED BY <1>1, <1>2, BatchTypes, PTL DEF Spec

(* A load for one collection gives an object what its key says.            *)
LEMMA MatchedIsTheJoin ==
  ASSUME NEW qs, NEW i \in DOMAIN qs, OneCollection(qs), Comparable(qs[i].obj, qs[i].field),
         Len(qs) \in Nat \ {0}, qs = <<RootQuery>> \/ qs \in Seq(NestedQueries)
  PROVE  Answer(qs, qs[i]) = Children(qs[i].obj, qs[i].field)
<1> DEFINE q == qs[i]
           f == q.field
           T == {t \in Table[f] : f = "root" \/ t.key[1] = KeyOf[<<q.obj, f>>][1]}
<1>1. Head(qs).field = f /\ DOMAIN qs = 1 .. Len(qs)
  <2>1. DOMAIN qs = 1 .. Len(qs)
    OBVIOUS
  <2>2. qs[i].field = Head(qs).field
    BY DEF OneCollection
  <2> QED BY <2>1, <2>2
<1>2. q \in ToSet(qs) /\ \A j \in DOMAIN qs : qs[j].field = f
  BY <1>1 DEF ToSet, OneCollection
<1>3. Children(q.obj, f) = {r.obj : r \in T}
  BY DEF Children
<1>4. Matched(qs, q) = T
  <2>1. CASE qs = <<RootQuery>>
    <3>1. f = "root" /\ Len(qs) = 1
      BY <1>1, <2>1 DEF RootQuery, Query
    <3> QED BY <1>1, <3>1 DEF Matched, Found
  <2>2. CASE qs # <<RootQuery>>
    <3>1. f # "root"
      <4>1. qs \in Seq(NestedQueries) /\ q \in NestedQueries
        BY <2>2
      <4> QED BY <4>1 DEF NestedQueries
    <3>2. Found(qs) = {r \in Table[f] : \E p \in ToSet(qs) : r.key[1] = Key(p)[1]}
      BY <1>1, <3>1 DEF Found
    <3>3. Key(q) = KeyOf[<<q.obj, f>>]
      BY DEF Key
    <3>4. CASE Len(qs) = 1
      <4>1. \A p \in ToSet(qs) : p = q
        BY <1>1, <3>4 DEF ToSet
      <4>2. Found(qs) = T
        BY <1>2, <3>1, <3>2, <3>3, <4>1
      <4> QED BY <3>4, <4>2 DEF Matched
    <3>5. CASE Len(qs) # 1
      <4>1. Matched(qs, q) = {r \in Found(qs) : r.key = Key(q)}
        BY <1>1, <3>5 DEF Matched
      <4>2. \A r \in Table[f] : r.key[1] = Key(q)[1] => r.key = Key(q)
        BY <3>1, <3>3 DEF Comparable
      <4>3. ASSUME NEW r PROVE r \in Matched(qs, q) <=> r \in T
        <5> HIDE DEF q, f
        <5> QED BY <1>2, <3>1, <3>2, <3>3, <4>1, <4>2
      <4> QED BY <4>3
    <3> QED BY <3>4, <3>5
  <2> QED BY <2>1, <2>2
<1> QED BY <1>3, <1>4 DEF Answer

(* What loads for one collection give to an object is what the keys say of *)
(* its query, or of that of a sibling whose hash code clashes, whatever    *)
(* the other loads do meanwhile: with CallsFit, AnswerIsTheJoin is         *)
(* inductive, since a load never changes its queries and no load is ever   *)
(* forgotten.                                                              *)
THEOREM AnswersAreJoins == Spec => []AnswerIsTheJoin
<1>1. Init => AnswerIsTheJoin
  <2> SUFFICES ASSUME Init, NEW o \in Objects \cup {0}, NEW f \in Fields
               PROVE  given[<<o, f>>] = Unset
    BY DEF AnswerIsTheJoin
  <2> QED BY DEF Init
<1>2. Types /\ CallsFit /\ AnswerIsTheJoin /\ [Next]_vars => AnswerIsTheJoin'
  <2> SUFFICES ASSUME Types, CallsFit, AnswerIsTheJoin, [Next]_vars,
                      NEW o \in Objects \cup {0}, NEW f \in Fields, given'[<<o, f>>] # Unset,
                      \A q \in Sent(o, f)' : Comparable(q.obj, f),
                      \A l \in DOMAIN loads' :
                        ToSet(loads'[l].qs) \cap Sent(o, f)' # {} => OneCollection(loads'[l].qs)
               PROVE  \E q \in Sent(o, f)' : given'[<<o, f>>] = Children(q.obj, f)
    BY DEF AnswerIsTheJoin
  <2>1. /\ shared \subseteq shared' /\ DOMAIN loads \subseteq DOMAIN loads'
        /\ \A m \in DOMAIN loads : loads'[m].qs = loads[m].qs
    BY Grows
  <2>2. ASSUME NEW m \in DOMAIN loads, NEW q \in ToSet(loads[m].qs), q.field = f, Awaits(o, q)
        PROVE  q \in Sent(o, f) /\ q \in Sent(o, f)' /\ OneCollection(loads[m].qs)
    <3>1. q \in Sent(o, f)
      BY <2>2 DEF Sent
    <3>2. Awaits(o, q)'
      BY <2>1, <2>2 DEF Awaits
    <3>3. m \in DOMAIN loads' /\ q \in ToSet(loads'[m].qs)
      BY <2>1, <2>2
    <3>4. q \in Sent(o, f)'
      BY <2>2, <3>2, <3>3 DEF Sent
    <3> QED BY <2>1, <3>1, <3>3, <3>4
  <2>3. Sent(o, f) \subseteq Sent(o, f)'
    <3> SUFFICES ASSUME NEW q \in Sent(o, f) PROVE q \in Sent(o, f)'
      OBVIOUS
    <3>1. PICK m \in DOMAIN loads : q \in ToSet(loads[m].qs)
      BY DEF Sent
    <3>2. q.field = f /\ Awaits(o, q)
      BY DEF Sent
    <3> QED BY <2>2, <3>1, <3>2
  <2>4. CASE given'[<<o, f>>] = given[<<o, f>>]
    <3>1. ASSUME NEW m \in DOMAIN loads, ToSet(loads[m].qs) \cap Sent(o, f) # {}
          PROVE  OneCollection(loads[m].qs)
      BY <2>1, <2>3, <3>1
    <3>2. \A q \in Sent(o, f) : Comparable(q.obj, f)
      BY <2>3
    <3>3. \E q \in Sent(o, f) : given[<<o, f>>] = Children(q.obj, f)
      BY <2>4, <3>1, <3>2 DEF AnswerIsTheJoin
    <3> QED BY <2>3, <2>4, <3>3
  <2>5. ASSUME NEW l \in DOMAIN loads, Assign(l), given'[<<o, f>>] # given[<<o, f>>]
        PROVE  \E q \in Sent(o, f)' : given'[<<o, f>>] = Children(q.obj, f)
    <3>1. PICK c \in loads[l].calls :
            given' = IF TooMany(l) THEN given
                     ELSE [given EXCEPT ![<<c, loads[l].at.field>>] = loads[l].objs]
      BY <2>5, AssignIs
    <3>2. given \in [(Objects \cup {0}) \X Fields -> {Unset} \cup SUBSET Objects]
      BY DEF Types
    <3>3. o \in loads[l].calls /\ f = loads[l].at.field /\ given'[<<o, f>>] = loads[l].objs
      BY <2>5, <3>1, <3>2
    <3>4. PICK m \in DOMAIN loads : /\ loads[l].at \in ToSet(loads[m].qs)
                                    /\ loads[l].objs = Answer(loads[m].qs, loads[l].at)
      BY <3>3 DEF CallsFit
    <3>5. Awaits(o, loads[l].at)
      BY <3>3 DEF CallsFit
    <3> DEFINE q == loads[l].at
    <3>6. q \in Sent(o, f)' /\ OneCollection(loads[m].qs) /\ Comparable(q.obj, f)
      BY <2>2, <3>3, <3>4, <3>5
    <3>7. PICK i \in DOMAIN loads[m].qs : loads[m].qs[i] = q
      BY <3>4 DEF ToSet
    <3>8. /\ loads[m].qs = <<RootQuery>> \/ loads[m].qs \in Seq(NestedQueries)
          /\ Len(loads[m].qs) \in Nat \ {0}
      <4>1. LoadOK(loads[m], denied) /\ loads[m] \in LoadType
        BY ALoadIs
      <4>2. loads[m].qs \in Seq(AnyQuery)
        BY <4>1 DEF LoadType
      <4> QED BY <3>7, <4>1, <4>2 DEF LoadOK
    <3>9. Answer(loads[m].qs, q) = Children(q.obj, f)
      BY <3>3, <3>6, <3>7, <3>8, MatchedIsTheJoin
    <3> QED BY <3>3, <3>4, <3>6, <3>9
  <2>6. CASE UNCHANGED vars
    BY <2>4, <2>6 DEF vars
  <2> QED BY <2>4, <2>5, <2>6, OthersGiveNothing DEF Next
<1> QED BY <1>1, <1>2, BatchTypes, CallsAreFit, PTL DEF Spec

-----------------------------------------------------------------------------
(* The queries of a load and of the queue are for fields that may be read. *)
LEMMA AsksAllowedStays == Spec => []AsksAllowed
<1>1. Init => AsksAllowed
  <2> SUFFICES ASSUME Init PROVE AsksAllowed
    OBVIOUS
  <2>1. "root" \notin denied
    BY BatchAssumption DEF Init
  <2>2. queue = <<>> /\ DOMAIN loads = {1} /\ loads[1].qs = <<RootQuery>>
    BY DEF Init, Load, RootQuery
  <2>3. <<RootQuery>>[1].field = "root" /\ DOMAIN <<RootQuery>> = {1}
    BY DEF RootQuery, Query
  <2> QED BY <2>1, <2>2, <2>3 DEF AsksAllowed
<1>2. Types /\ AsksAllowed /\ [Next]_vars => AsksAllowed'
  <2> SUFFICES ASSUME Types, AsksAllowed, [Next]_vars PROVE AsksAllowed'
    OBVIOUS
  <2>1. /\ denied' = denied /\ DOMAIN loads \subseteq DOMAIN loads'
        /\ \A m \in DOMAIN loads : loads'[m].qs = loads[m].qs
    BY Grows
  <2>2. CASE queue' = queue /\ \A m \in DOMAIN loads' \ DOMAIN loads : loads'[m].qs = <<>>
    <3>1. \A m \in DOMAIN loads' : \A j \in DOMAIN loads'[m].qs :
            m \in DOMAIN loads /\ loads'[m].qs[j] = loads[m].qs[j] /\ j \in DOMAIN loads[m].qs
      BY <2>1, <2>2
    <3> QED BY <2>1, <2>2, <3>1 DEF AsksAllowed
  <2>3. ASSUME NEW l \in DOMAIN loads, Enqueue(l) PROVE AsksAllowed'
    <3>1. PICK o \in loads[l].kids :
            Alone(l) /\ OneLess(l, o) /\ o \in Objects /\ queue' = Append(queue, Built(l, o))
      BY <2>3, EnqueueIs
    <3> DEFINE q == Built(l, o)
    <3>2. q.field \notin denied /\ queue' = Append(queue, q) /\ queue \in Seq(NestedQueries)
      BY <3>1, BuiltIs DEF Types, OneLess
    <3> HIDE DEF q
    <3>3. \A k \in DOMAIN queue' : (k \in DOMAIN queue /\ queue'[k] = queue[k]) \/ queue'[k] = q
      BY <3>2
    <3>4. DOMAIN loads' = DOMAIN loads
      BY <3>1 DEF Alone
    <3> QED BY <2>1, <3>2, <3>3, <3>4 DEF AsksAllowed
  <2>4. ASSUME NEW l \in DOMAIN loads, Dispatch(l) PROVE AsksAllowed'
    <3>1. /\ queue' = <<>>
          /\ \A m \in DOMAIN loads' \ DOMAIN loads :
               \A j \in DOMAIN loads'[m].qs : \E k \in DOMAIN queue : loads'[m].qs[j] = queue[k]
      BY <2>4, DispatchIs
    <3>2. DOMAIN queue' = {}
      BY <3>1
    <3>3. ASSUME NEW m \in DOMAIN loads', NEW j \in DOMAIN loads'[m].qs
          PROVE  loads'[m].qs[j].field \notin denied
      <4>1. CASE m \in DOMAIN loads
        BY <2>1, <4>1 DEF AsksAllowed
      <4>2. CASE m \notin DOMAIN loads
        BY <3>1, <4>2 DEF AsksAllowed
      <4> QED BY <4>1, <4>2
    <3> QED BY <2>1, <3>2, <3>3 DEF AsksAllowed
  <2>5. ASSUME NEW l \in DOMAIN loads, ShareAnswer(l) PROVE AsksAllowed'
    <3>1. /\ queue' = queue /\ DOMAIN loads' = DOMAIN loads \cup {Len(loads) + 1}
          /\ loads'[Len(loads) + 1].qs = <<>>
      BY <2>5, ShareAnswerIs
    <3> QED BY <2>2, <3>1
  <2>6. ASSUME NEW l \in DOMAIN loads, LoadStep(l), ~Enqueue(l), ~Dispatch(l), ~ShareAnswer(l)
        PROVE  DOMAIN loads' = DOMAIN loads /\ queue' = queue
    BY <2>6, WhoAdds, WhoQueues
  <2>7. CASE UNCHANGED vars
    BY <2>2, <2>7 DEF vars
  <2> QED BY <2>2, <2>3, <2>4, <2>5, <2>6, <2>7 DEF Next
<1> QED BY <1>1, <1>2, BatchTypes, PTL DEF Spec

(* So no callback gives a field that may not be read.                      *)
LEMMA DeniedStaysUnset == Spec => []DeniedUnset
<1>1. Init => DeniedUnset
  BY DEF Init, DeniedUnset
<1>2. Types /\ CallsFit /\ AsksAllowed /\ DeniedUnset /\ [Next]_vars => DeniedUnset'
  <2> SUFFICES ASSUME Types, CallsFit, AsksAllowed, DeniedUnset, [Next]_vars PROVE DeniedUnset'
    OBVIOUS
  <2>1. denied' = denied
    BY Grows
  <2>2. CASE given' = given
    BY <2>1, <2>2 DEF DeniedUnset
  <2>3. ASSUME NEW l \in DOMAIN loads, Assign(l) PROVE DeniedUnset'
    <3>1. PICK o \in loads[l].calls :
            given' = IF TooMany(l) THEN given
                     ELSE [given EXCEPT ![<<o, loads[l].at.field>>] = loads[l].objs]
      BY <2>3, AssignIs
    <3>2. loads[l].at.field \notin denied
      <4>1. PICK m \in DOMAIN loads : loads[l].at \in ToSet(loads[m].qs)
        BY DEF CallsFit
      <4> QED BY <4>1 DEF AsksAllowed, ToSet
    <3>3. given \in [(Objects \cup {0}) \X Fields -> {Unset} \cup SUBSET Objects]
      BY DEF Types
    <3>4. \A p \in DOMAIN given' : p \in DOMAIN given /\ (p[2] \in denied => given'[p] = given[p])
      BY <3>1, <3>2, <3>3
    <3> QED BY <2>1, <3>4 DEF DeniedUnset
  <2>4. CASE UNCHANGED vars
    BY <2>2, <2>4 DEF vars
  <2> QED BY <2>2, <2>3, <2>4, OthersGiveNothing DEF Next
<1> QED BY <1>1, <1>2, BatchTypes, CallsAreFit, AsksAllowedStays, PTL DEF Spec

(* An error stays.                                                         *)
LEMMA ErrorStays ==
  ASSUME [Next]_vars, error
  PROVE  error'
<1>1. CASE UNCHANGED vars
  BY <1>1 DEF vars
<1>2. ASSUME NEW l \in DOMAIN loads, LoadStep(l) PROVE error'
  BY <1>2 DEF LoadStep, Loaded, LoadFails, Complete, Assign, Resolve, Enqueue, Share, ShareAnswer,
              Dispatch, Join, Finish
<1> QED BY <1>1, <1>2 DEF Next

(* A step keeps every field that a load has to select, but for one that    *)
(* may not be read, which fails the request.                               *)
LEMMA SelectionGoesOn ==
  ASSUME Types, [Next]_vars, NEW f \in denied, ToSelect(f)
  PROVE  error' \/ ToSelect(f)'
<1>1. PICK m \in DOMAIN loads : loads[m].st \in Working /\ f \in ToSet(loads[m].todo)
  BY DEF ToSelect
<1>2. SUFFICES ASSUME ~error'
               PROVE  /\ m \in DOMAIN loads' /\ loads'[m].st \in Working
                      /\ f \in ToSet(loads'[m].todo)
  BY DEF ToSelect
<1>3. m \in DOMAIN loads' /\ loads[m] \in LoadType /\ LoadOK(loads[m], denied)
  BY Grows, ALoadIs
<1>4. CASE UNCHANGED vars
  BY <1>1, <1>3, <1>4 DEF vars
<1>5. ASSUME NEW l \in DOMAIN loads, LoadStep(l), l # m PROVE loads'[m] = loads[m]
  BY <1>5, OthersStay
<1>6. ASSUME LoadStep(m) PROVE loads'[m].st \in Working /\ f \in ToSet(loads'[m].todo)
  <2>1. CASE Loaded(m)
    BY <1>1, <2>1, LoadedIs DEF Working
  <2>2. CASE LoadFails(m)
    BY <1>1, <2>2, LoadFailsIs DEF Working
  <2>3. CASE Complete(m)
    BY <1>1, <2>3, CompleteIs DEF Working
  <2>4. CASE Assign(m)
    BY <1>1, <2>4, AssignIs DEF Working
  <2>5. CASE Resolve(m)
    <3>1. loads[m].todo # <<>> /\ loads[m].todo \in Seq(Fields \ {"root"})
      BY <1>1, <1>3 DEF ToSet, LoadType
    <3>2. ~(Head(loads[m].todo) \in denied)
      BY <1>2, <2>5, <3>1, ResolveIs
    <3>3. loads'[m].st = "enqueue" /\ loads'[m].todo = loads[m].todo
      BY <2>5, <3>1, <3>2, ResolveIs
    <3> QED BY <1>1, <3>3 DEF Working
  <2>6. CASE Enqueue(m)
    BY <1>1, <2>6, EnqueueIs DEF Working, OneLess
  <2>7. CASE Share(m)
    BY <1>1, <2>7, ShareIs DEF Working, OneLess
  <2>8. CASE ShareAnswer(m)
    BY <1>1, <2>8, ShareAnswerIs DEF Working, OneLess
  <2>9. CASE Dispatch(m)
    BY <1>1, <2>9, DispatchIs DEF Working
  <2>10. CASE Join(m)
    <3>1. loads[m].st = "join" /\ loads'[m].st = "resolve" /\ loads'[m].todo = Tail(loads[m].todo)
      BY <2>10, JoinIs
    <3>2. Head(loads[m].todo) # f /\ loads[m].todo \in Seq(Fields \ {"root"})
      BY <1>3, <3>1 DEF LoadOK, LoadType
    <3>3. f \in ToSet(Tail(loads[m].todo))
      BY <1>1, <3>2, InTail
    <3> QED BY <3>1, <3>3 DEF Working
  <2>11. CASE Finish(m)
    BY <1>1, <2>11, FinishIs DEF Working
  <2> QED BY <1>6, <2>1, <2>2, <2>3, <2>4, <2>5, <2>6, <2>7, <2>8, <2>9, <2>10, <2>11 DEF LoadStep
<1> QED BY <1>1, <1>3, <1>4, <1>5, <1>6 DEF Next

(* What was given above a field that may not be read makes the request fail. *)
LEMMA DeniedHasFailed == Spec => []DeniedFails
<1>1. Init => DeniedFails
  BY DEF Init, DeniedFails
<1>2. Types /\ DeniedFails /\ [Next]_vars => DeniedFails'
  <2> SUFFICES ASSUME Types, DeniedFails, [Next]_vars,
                      NEW p \in DOMAIN given', NEW f \in denied',
                      f \in ToSet(Select[p[2]]), given'[p] \notin {Unset, {}}
               PROVE  error' \/ ToSelect(f)'
    BY DEF DeniedFails
  <2>1. denied' = denied
    BY Grows
  <2>2. CASE p \in DOMAIN given /\ given'[p] = given[p]
    <3>1. error \/ ToSelect(f)
      BY <2>1, <2>2 DEF DeniedFails
    <3> QED BY <2>1, <3>1, ErrorStays, SelectionGoesOn
  <2>3. ASSUME NEW l \in DOMAIN loads, Assign(l), ~(p \in DOMAIN given /\ given'[p] = given[p])
        PROVE  error' \/ ToSelect(f)'
    <3>1. PICK o \in loads[l].calls :
            given' = IF TooMany(l) THEN given
                     ELSE [given EXCEPT ![<<o, loads[l].at.field>>] = loads[l].objs]
      BY <2>3, AssignIs
    <3>2. /\ DOMAIN loads' = DOMAIN loads
          /\ ~(TooMany(l) \/ loads[l].objs = {}) =>
               loads'[l].st = "resolve" /\ loads'[l].todo = Select[loads[l].at.field]
      BY <2>3, AssignIs DEF Alone
    <3>3. ~TooMany(l) /\ p = <<o, loads[l].at.field>> /\ given'[p] = loads[l].objs
      BY <2>3, <3>1
    <3>4. loads'[l].st \in Working /\ f \in ToSet(loads'[l].todo)
      BY <3>2, <3>3 DEF Working
    <3> QED BY <3>2, <3>4 DEF ToSelect
  <2>4. CASE UNCHANGED vars
    BY <2>2, <2>4 DEF vars
  <2> QED BY <2>2, <2>3, <2>4, OthersGiveNothing DEF Next
<1> QED BY <1>1, <1>2, BatchTypes, PTL DEF Spec

-----------------------------------------------------------------------------
(* The load that dispatched another, or had it call a child back at once,  *)
(* waits until that is done.                                               *)
LEMMA EachIsWaitedFor == Spec => []WaitedFor
<1>1. Init => WaitedFor
  <2> SUFFICES ASSUME Init PROVE WaitedFor
    OBVIOUS
  <2>1. DOMAIN loads = {1}
    BY DEF Init
  <2> QED BY <2>1 DEF WaitedFor
<1>2. Types /\ WaitedFor /\ [Next]_vars => WaitedFor'
  <2> SUFFICES ASSUME Types, WaitedFor, [Next]_vars PROVE WaitedFor'
    OBVIOUS
  <2>0. CASE UNCHANGED vars
    BY <2>0 DEF vars, WaitedFor
  <2> SUFFICES ASSUME NEW a \in DOMAIN loads, LoadStep(a),
                      NEW m \in DOMAIN loads', m # 1, loads'[m].st # "done"
               PROVE  \E l \in DOMAIN loads' :
                        l < m /\ loads'[l].st \in {"enqueue", "join"} /\ m \in loads'[l].wait
    BY <2>0 DEF Next, WaitedFor
  <2>1. CASE m \in DOMAIN loads
    <3>1. loads[m].st # "done"
      <4>1. CASE a = m
        BY <4>1, WhoSteps
      <4>2. CASE a # m
        BY <2>1, <4>2, OthersStay
      <4> QED BY <4>1, <4>2
    <3>2. PICK l \in DOMAIN loads :
            l < m /\ loads[l].st \in {"enqueue", "join"} /\ m \in loads[l].wait
      BY <2>1, <3>1 DEF WaitedFor
    <3>3. a # l
      BY <3>1, <3>2, WhoSteps DEF Waited
    <3>4. loads'[l] = loads[l] /\ l \in DOMAIN loads'
      BY <3>3, OthersStay, Grows
    <3> QED BY <3>2, <3>4
  <2>2. CASE m \notin DOMAIN loads /\ Dispatch(a)
    <3>1. m \in loads'[a].wait /\ loads'[a].st = "join" /\ a < m
      BY <2>2, DispatchIs
    <3> QED BY <3>1, Grows
  <2>3. CASE m \notin DOMAIN loads /\ ShareAnswer(a)
    <3>1. /\ DOMAIN loads' = DOMAIN loads \cup {Len(loads) + 1} /\ a < Len(loads) + 1
          /\ loads'[a].wait = {Len(loads) + 1} /\ loads'[a].st = "enqueue"
      BY <2>3, ShareAnswerIs DEF OneLess
    <3>2. m = Len(loads) + 1
      BY <2>3, <3>1
    <3> QED BY <3>1, <3>2
  <2> QED BY <2>1, <2>2, <2>3, WhoAdds
<1> QED BY <1>1, <1>2, BatchTypes, PTL DEF Spec

(* A query is queued by a load that has yet to dispatch.                   *)
LEMMA QueueHasAnOwner == Spec => []QueueIsKept
<1>1. Init => QueueIsKept
  BY DEF Init, QueueIsKept
<1>2. Types /\ QueueIsKept /\ [Next]_vars => QueueIsKept'
  <2> SUFFICES ASSUME Types, QueueIsKept, [Next]_vars, queue' # <<>>
               PROVE  \E l \in DOMAIN loads' : loads'[l].st = "enqueue"
    BY DEF QueueIsKept
  <2>0. CASE UNCHANGED vars
    BY <2>0 DEF vars, QueueIsKept
  <2> SUFFICES ASSUME NEW a \in DOMAIN loads, LoadStep(a)
               PROVE  \E l \in DOMAIN loads' : loads'[l].st = "enqueue"
    BY <2>0 DEF Next
  <2>1. a \in DOMAIN loads'
    BY Grows
  <2>2. CASE Enqueue(a)
    BY <2>1, <2>2, EnqueueIs DEF OneLess
  <2>3. CASE ~Enqueue(a)
    <3>1. ~Dispatch(a)
      BY DispatchIs
    <3>2. queue' = queue
      BY <2>3, <3>1, WhoQueues
    <3>3. PICK l \in DOMAIN loads : loads[l].st = "enqueue"
      BY <3>2 DEF QueueIsKept
    <3>4. CASE a = l
      <4>1. Share(a) \/ ShareAnswer(a)
        BY <2>3, <3>1, <3>3, <3>4, WhoSteps
      <4> QED BY <2>1, <4>1, ShareIs, ShareAnswerIs DEF OneLess
    <3>5. CASE a # l
      BY <3>3, <3>5, OthersStay, Grows
    <3> QED BY <3>4, <3>5
  <2> QED BY <2>2, <2>3
<1> QED BY <1>1, <1>2, BatchTypes, PTL DEF Spec

(* What is given to an object is not taken back.                           *)
LEMMA GivenStays ==
  ASSUME Types, [Next]_vars, NEW p \in DOMAIN given, given[p] # Unset
  PROVE  given'[p] # Unset
<1>1. CASE given' = given
  BY <1>1
<1>2. ASSUME NEW l \in DOMAIN loads, Assign(l) PROVE given'[p] # Unset
  <2>1. PICK o \in loads[l].calls :
          given' = IF TooMany(l) THEN given
                   ELSE [given EXCEPT ![<<o, loads[l].at.field>>] = loads[l].objs]
    BY <1>2, AssignIs
  <2> QED BY <2>1, GivenIs
<1>3. CASE UNCHANGED vars
  BY <1>1, <1>3 DEF vars
<1> QED BY <1>1, <1>2, <1>3, OthersGiveNothing DEF Next

(* A step keeps the place of a load, unless it completes a query.          *)
LEMMA WhoMoves ==
  ASSUME Types, NEW l \in DOMAIN loads, LoadStep(l), ~Complete(l)
  PROVE  SamePlace(l)
BY LoadedIs, LoadFailsIs, AssignIs, ResolveIs, EnqueueIs, ShareIs, ShareAnswerIs, DispatchIs,
   JoinIs, FinishIs DEF LoadStep, OneLess

(* Only a statement that fails and the end of its callbacks make it done.  *)
LEMMA WhoEnds ==
  ASSUME Types, NEW l \in DOMAIN loads, LoadStep(l), loads'[l].st = "done"
  PROVE  LoadFails(l) \/ Finish(l)
BY LoadedIs, CompleteIs, AssignIs, ResolveIs, EnqueueIs, ShareIs, ShareAnswerIs, DispatchIs, JoinIs
  DEF LoadStep, OneLess

(* A query that is due stays so until all that wait for it are called back, *)
(* if nothing fails.                                                       *)
LEMMA DueStays ==
  ASSUME Types, [Next]_vars, ~error', NEW q, Due(q)
  PROVE  \/ Due(q)'
         \/ \E l \in DOMAIN loads' :
              /\ loads'[l].at = q /\ shared' = shared
              /\ loads'[l].calls = {o \in Objects \cup {0} : Awaits(o, q)}
<1>0. CASE UNCHANGED vars
  BY <1>0 DEF vars, Due
<1> SUFFICES ASSUME NEW l \in DOMAIN loads, LoadStep(l)
             PROVE  \/ Due(q)'
                    \/ \E k \in DOMAIN loads' :
                         /\ loads'[k].at = q /\ shared' = shared
                         /\ loads'[k].calls = {o \in Objects \cup {0} : Awaits(o, q)}
  BY <1>0 DEF Next
<1>1. CASE q \in ToSet(queue)
  <2>1. PICK k \in DOMAIN queue : queue[k] = q
    BY <1>1 DEF ToSet
  <2>2. CASE Enqueue(l)
    <3>1. PICK o \in loads[l].kids : queue' = Append(queue, Built(l, o))
      BY <2>2, EnqueueIs
    <3>2. queue \in Seq(NestedQueries)
      BY DEF Types
    <3>3. k \in DOMAIN queue' /\ queue'[k] = q
      BY <2>1, <3>1, <3>2
    <3> QED BY <3>3 DEF Due, ToSet
  <2>3. CASE Dispatch(l)
    <3>1. PICK m \in DOMAIN loads' \ DOMAIN loads :
            \E j \in DOMAIN loads'[m].qs : loads'[m].qs[j] = queue[k]
      BY <2>1, <2>3, DispatchIs
    <3>2. PICK j \in DOMAIN loads'[m].qs : loads'[m].qs[j] = q
      BY <2>1, <3>1
    <3>3. loads'[m].st = "loading" /\ loads'[m].pos = 1
      BY <2>3, DispatchIs
    <3>4. j \in Nat \ {0}
      <4>1. loads' \in Seq(LoadType)
        BY <2>3, DispatchIs DEF LoadsOK
      <4>2. loads'[m] \in LoadType
        BY <4>1
      <4> QED BY <4>2 DEF LoadType
    <3>5. j >= loads'[m].pos
      BY <3>3, <3>4
    <3> QED BY <3>2, <3>3, <3>5 DEF Due
  <2>4. CASE ~Enqueue(l) /\ ~Dispatch(l)
    BY <1>1, <2>4, WhoQueues DEF Due
  <2> QED BY <2>2, <2>3, <2>4
<1>2. CASE q \notin ToSet(queue)
  <2>1. PICK m \in DOMAIN loads :
          /\ loads[m].st # "done"
          /\ \E i \in DOMAIN loads[m].qs : i >= loads[m].pos /\ loads[m].qs[i] = q
    BY <1>2 DEF Due
  <2>2. PICK i \in DOMAIN loads[m].qs : i >= loads[m].pos /\ loads[m].qs[i] = q
    BY <2>1
  <2>3. m \in DOMAIN loads' /\ loads'[m].qs = loads[m].qs
    BY Grows
  <2>4. i \in Nat /\ loads[m].pos \in Nat /\ Len(loads[m].qs) \in Nat /\ i <= Len(loads[m].qs)
    <3>1. loads[m] \in LoadType
      BY ALoadIs
    <3> QED BY <3>1 DEF LoadType
  <2>5. SUFFICES ASSUME loads'[m].st = "done" \/ ~(i >= loads'[m].pos)
                 PROVE  \E k \in DOMAIN loads' :
                          /\ loads'[k].at = q /\ shared' = shared
                          /\ loads'[k].calls = {o \in Objects \cup {0} : Awaits(o, q)}
    BY <2>2, <2>3 DEF Due
  <2>6. l = m
    BY <2>1, <2>2, <2>5, OthersStay
  <2>7. CASE Complete(m)
    <3>1. /\ loads'[m].st = "next" /\ loads'[m].pos = loads[m].pos + 1 /\ shared' = shared
          /\ loads'[m].at = At(m)
          /\ loads'[m].calls = {o \in Objects \cup {0} : Awaits(o, At(m))}
      BY <2>7, CompleteIs
    <3>2. i = loads[m].pos
      BY <2>2, <2>4, <2>5, <3>1
    <3>3. At(m) = q
      BY <2>2, <3>2 DEF At
    <3> QED BY <2>3, <3>1, <3>3
  <2>8. CASE ~Complete(m)
    <3>1. loads'[m].pos = loads[m].pos
      BY <2>6, <2>8, WhoMoves DEF SamePlace
    <3>2. LoadFails(m) \/ Finish(m)
      BY <2>2, <2>5, <2>6, <3>1, WhoEnds
    <3>3. ~LoadFails(m)
      BY LoadFailsIs
    <3>4. loads[m].pos > Len(loads[m].qs)
      BY <3>2, <3>3, FinishIs
    <3> QED BY <2>2, <2>4, <3>4
  <2> QED BY <2>7, <2>8
<1> QED BY <1>1, <1>2

(* What is asked stays so, or is called back.                              *)
LEMMA AskedStays ==
  ASSUME Types, [Next]_vars, ~error', NEW o \in Objects, NEW f,
         NEW q \in AnyQuery, q.field = f, Awaits(o, q) \/ Awaits(o, q)', Due(q)
  PROVE  Asked(o, f)' \/ Called(o, f)'
<1>1. Awaits(o, q)'
  <2>1. shared \subseteq shared'
    BY Grows
  <2> QED BY <2>1 DEF Awaits
<1>2. CASE Due(q)'
  BY <1>1, <1>2 DEF Asked
<1>3. ASSUME NEW l \in DOMAIN loads', loads'[l].at = q, shared' = shared,
             loads'[l].calls = {p \in Objects \cup {0} : Awaits(p, q)}
      PROVE  Called(o, f)'
  <2>1. Awaits(o, q)
    BY <1>1, <1>3 DEF Awaits
  <2> QED BY <1>3, <2>1 DEF Called
<1> QED BY <1>2, <1>3, DueStays

(* Who is to be called back stays so until the children are given, if      *)
(* nothing fails.                                                          *)
LEMMA CalledStays ==
  ASSUME Types, [Next]_vars, ~error', NEW o \in Objects, NEW f \in Fields, Called(o, f)
  PROVE  Called(o, f)' \/ given'[<<o, f>>] # Unset
<1>1. PICK m \in DOMAIN loads : loads[m].at.field = f /\ o \in loads[m].calls
  BY DEF Called
<1>2. m \in DOMAIN loads'
  BY Grows
<1>3. CASE loads'[m].at = loads[m].at /\ loads'[m].calls = loads[m].calls
  BY <1>1, <1>2, <1>3 DEF Called
<1>4. CASE UNCHANGED vars
  BY <1>3, <1>4 DEF vars
<1>5. ASSUME NEW l \in DOMAIN loads, LoadStep(l), l # m
      PROVE  loads'[m].at = loads[m].at /\ loads'[m].calls = loads[m].calls
  BY <1>5, OthersStay
<1>6. ASSUME LoadStep(m), ~(loads'[m].at = loads[m].at /\ loads'[m].calls = loads[m].calls)
      PROVE  Called(o, f)' \/ given'[<<o, f>>] # Unset
  <2>1. ~Complete(m)
    BY <1>1, CompleteIs
  <2>2. loads'[m].at = loads[m].at
    BY <1>6, <2>1, WhoMoves DEF SamePlace
  <2>3. Assign(m)
    BY <1>6, <2>1, <2>2, LoadedIs, LoadFailsIs, ResolveIs, EnqueueIs, ShareIs, ShareAnswerIs,
       DispatchIs, JoinIs, FinishIs DEF LoadStep, OneLess
  <2>4. PICK c \in loads[m].calls :
          /\ loads'[m].calls = loads[m].calls \ {c}
          /\ given' = IF TooMany(m) THEN given
                      ELSE [given EXCEPT ![<<c, f>>] = loads[m].objs]
    BY <1>1, <2>3, AssignIs
  <2>5. CASE c = o
    <3>1. ~TooMany(m)
      BY <2>3, AssignIs
    <3>2. <<o, f>> \in DOMAIN given
      BY DEF Types
    <3> QED BY <2>4, <2>5, <3>1, <3>2, GivenIs
  <2>6. CASE c # o
    BY <1>1, <1>2, <2>2, <2>4, <2>6 DEF Called
  <2> QED BY <2>5, <2>6
<1> QED BY <1>3, <1>4, <1>5, <1>6 DEF Next

(* What a load owes it goes on to owe, or a query asks for it or a sibling *)
(* has its answer, if nothing fails.                                       *)
LEMMA OwedStays ==
  ASSUME Types, [Next]_vars, ~error', NEW o \in Objects, NEW f, KeyOf[<<o, f>>] # NoKey, Owed(o, f)
  PROVE  Owed(o, f)' \/ Asked(o, f)' \/ Called(o, f)'
<1>1. PICK m \in DOMAIN loads : Owes(loads[m], o, f)
  BY DEF Owed
<1>2. m \in DOMAIN loads' /\ loads[m].todo \in Seq(Fields \ {"root"})
  <2>1. loads[m] \in LoadType
    BY ALoadIs
  <2> QED BY <2>1, Grows DEF LoadType
<1>3. SUFFICES ASSUME ~Owes(loads'[m], o, f) PROVE Asked(o, f)' \/ Called(o, f)'
  BY <1>1, <1>2 DEF Owed
<1>4. CASE UNCHANGED vars
  BY <1>1, <1>3, <1>4 DEF vars
<1>5. ASSUME NEW l \in DOMAIN loads, LoadStep(l), l # m PROVE FALSE
  BY <1>1, <1>3, <1>5, OthersStay
<1>6. ASSUME LoadStep(m) PROVE Asked(o, f)' \/ Called(o, f)'
  <2>1. ASSUME NEW c \in loads[m].kids, OneLess(m, c) PROVE o = c /\ f = Head(loads[m].todo)
    BY <1>1, <1>3, <2>1 DEF Owes, OneLess, SamePlace
  <2>2. CASE Loaded(m)
    BY <1>1, <2>2 DEF Loaded, Owes
  <2>3. CASE LoadFails(m)
    BY <2>3, LoadFailsIs
  <2>4. CASE Complete(m)
    BY <1>1, <2>4 DEF Complete, Owes
  <2>5. CASE Assign(m)
    BY <1>1, <2>5 DEF Assign, Owes
  <2>6. CASE Resolve(m)
    <3>1. loads[m].st = "resolve" /\ SamePlace(m)
      BY <2>6, ResolveIs
    <3>2. o \in loads[m].objs /\ f \in ToSet(loads[m].todo)
      BY <1>1, <3>1 DEF Owes
    <3>3. loads[m].todo # <<>>
      BY <1>2, <3>2 DEF ToSet
    <3>4. ~(Head(loads[m].todo) \in denied)
      BY <2>6, <3>3, ResolveIs
    <3>5. /\ loads'[m].st = "enqueue" /\ loads'[m].todo = loads[m].todo
          /\ loads'[m].kids = Keyed(loads[m].objs, Head(loads[m].todo))
      BY <2>6, <3>3, <3>4, ResolveIs
    <3>6. f = Head(loads[m].todo) \/ f \in ToSet(Tail(loads[m].todo))
      BY <1>2, <3>2, InTail
    <3> QED BY <1>3, <3>1, <3>2, <3>5, <3>6 DEF Owes, SamePlace, Keyed
  <2>7. CASE Enqueue(m)
    <3>1. PICK c \in loads[m].kids :
            OneLess(m, c) /\ c \in Objects /\ queue' = Append(queue, Built(m, c))
      BY <2>7, EnqueueIs
    <3>2. Built(m, o) \in AnyQuery /\ Built(m, o).obj = o /\ Built(m, o).field = f
      BY <2>1, <3>1, BuiltIs, QueriesAre DEF OneLess
    <3>3. queue \in Seq(NestedQueries)
      BY DEF Types
    <3>a. PICK q : q = Built(m, o)
      OBVIOUS
    <3>4. queue' = Append(queue, q)
      BY <2>1, <3>1, <3>a
    <3>5. Len(queue) + 1 \in DOMAIN queue' /\ queue'[Len(queue) + 1] = q
      BY <3>3, <3>4
    <3>6. Due(q)'
      BY <3>5 DEF Due, ToSet
    <3>7. q \in AnyQuery /\ q.field = f /\ Awaits(o, q)'
      BY <3>2, <3>a DEF Awaits
    <3> QED BY <3>6, <3>7 DEF Asked
  <2>8. CASE Share(m)
    <3>1. PICK c \in loads[m].kids, p \in loads[m].objs :
            /\ OneLess(m, c) /\ p \in Objects /\ Due(Built(m, p))
            /\ shared' = shared \cup {[obj |-> c, query |-> Built(m, p)]}
      BY <2>8, ShareIs
    <3>a. PICK q : q = Built(m, p)
      OBVIOUS
    <3>2. q \in AnyQuery /\ q.field = f
      BY <2>1, <3>1, <3>a, BuiltIs, QueriesAre DEF OneLess
    <3>3. Due(q) /\ [obj |-> o, query |-> q] \in shared'
      BY <2>1, <3>1, <3>a
    <3>4. Awaits(o, q)'
      BY <3>3 DEF Awaits
    <3> QED BY <3>2, <3>3, <3>4, AskedStays
  <2>9. CASE ShareAnswer(m)
    <3>1. PICK c \in loads[m].kids, p \in loads[m].objs :
            /\ OneLess(m, c) /\ p \in Objects
            /\ DOMAIN loads' = DOMAIN loads \cup {Len(loads) + 1}
            /\ loads'[Len(loads) + 1].at = Built(m, p) /\ loads'[Len(loads) + 1].calls = {c}
      BY <2>9, ShareAnswerIs
    <3>2. Built(m, p).field = f
      BY <2>1, <3>1, BuiltIs DEF OneLess
    <3> QED BY <2>1, <3>1, <3>2 DEF Called
  <2>10. CASE Dispatch(m)
    <3>1. /\ (loads[m].st = "enqueue" /\ loads[m].kids = {}) \/ loads[m].st = "join"
          /\ loads'[m].st = "join" /\ loads'[m].todo = loads[m].todo
          /\ loads'[m].objs = loads[m].objs
      BY <2>10, DispatchIs DEF SamePlace
    <3> QED BY <1>1, <1>3, <3>1 DEF Owes
  <2>11. CASE Join(m)
    BY <1>1, <1>3, <2>11, JoinIs DEF Owes, SamePlace
  <2>12. CASE Finish(m)
    BY <1>1, <2>12 DEF Finish, Owes
  <2> QED BY <1>6, <2>2, <2>3, <2>4, <2>5, <2>6, <2>7, <2>8, <2>9, <2>10, <2>11, <2>12 DEF LoadStep
<1> QED BY <1>4, <1>5, <1>6 DEF Next

(* What is wanted only now, the load that gave it owes.                    *)
LEMMA NewlyWantedIsOwed ==
  ASSUME Types, [Next]_vars, NEW o \in Objects, NEW f \in Fields, Wanted(o, f)'
  PROVE  Wanted(o, f) \/ Owed(o, f)'
<1>1. PICK p \in Objects \cup {0}, g \in Fields :
        /\ given'[<<p, g>>] # Unset /\ o \in given'[<<p, g>>]
        /\ f \in ToSet(Select[g]) /\ KeyOf[<<o, f>>] # NoKey
  BY DEF Wanted
<1>2. CASE given'[<<p, g>>] = given[<<p, g>>]
  BY <1>1, <1>2 DEF Wanted
<1>3. ASSUME NEW l \in DOMAIN loads, Assign(l), given'[<<p, g>>] # given[<<p, g>>]
      PROVE  Owed(o, f)'
  <2>1. PICK c \in loads[l].calls :
          given' = IF TooMany(l) THEN given
                   ELSE [given EXCEPT ![<<c, loads[l].at.field>>] = loads[l].objs]
    BY <1>3, AssignIs
  <2>2. /\ DOMAIN loads' = DOMAIN loads /\ SamePlace(l)
        /\ ~(TooMany(l) \/ loads[l].objs = {}) =>
             loads'[l].st = "resolve" /\ loads'[l].todo = Select[loads[l].at.field]
    BY <1>3, AssignIs DEF Alone
  <2>3. given \in [(Objects \cup {0}) \X Fields -> {Unset} \cup SUBSET Objects]
    BY DEF Types
  <2>4. ~TooMany(l) /\ loads[l].at.field = g /\ given'[<<p, g>>] = loads[l].objs
    BY <1>3, <2>1, <2>3
  <2>5. Owes(loads'[l], o, f)
    BY <1>1, <2>2, <2>4 DEF Owes, SamePlace
  <2> QED BY <2>2, <2>5 DEF Owed
<1>4. CASE UNCHANGED vars
  BY <1>2, <1>4 DEF vars
<1> QED BY <1>2, <1>3, <1>4, OthersGiveNothing DEF Next

(* So nothing that is wanted is ever lost.                                 *)
LEMMA EachIsServed == Spec => []NoneIsLost
<1>1. Init => NoneIsLost
  BY DEF Init, NoneIsLost, Wanted
<1>2. Types /\ NoneIsLost /\ [Next]_vars => NoneIsLost'
  <2> SUFFICES ASSUME Types, NoneIsLost, [Next]_vars, ~error', NEW o \in Objects, NEW f \in Fields,
                      Wanted(o, f)'
               PROVE  given'[<<o, f>>] # Unset \/ Asked(o, f)' \/ Called(o, f)' \/ Owed(o, f)'
    BY DEF NoneIsLost
  <2>1. ~error
    BY ErrorStays
  <2>2. <<o, f>> \in DOMAIN given /\ KeyOf[<<o, f>>] # NoKey
    BY DEF Types, Wanted
  <2>3. CASE Owed(o, f)'
    BY <2>3
  <2>4. CASE Wanted(o, f)
    <3>1. given[<<o, f>>] # Unset \/ Asked(o, f) \/ Called(o, f) \/ Owed(o, f)
      BY <2>1, <2>4 DEF NoneIsLost
    <3>2. given[<<o, f>>] # Unset => given'[<<o, f>>] # Unset
      BY <2>2, GivenStays
    <3>3. Asked(o, f) => Asked(o, f)' \/ Called(o, f)'
      BY AskedStays DEF Asked
    <3>4. Called(o, f) => Called(o, f)' \/ given'[<<o, f>>] # Unset
      BY CalledStays
    <3>5. Owed(o, f) => Owed(o, f)' \/ Asked(o, f)' \/ Called(o, f)'
      BY <2>2, OwedStays
    <3> QED BY <3>1, <3>2, <3>3, <3>4, <3>5
  <2> QED BY <2>3, <2>4, NewlyWantedIsOwed
<1> QED BY <1>1, <1>2, BatchTypes, PTL DEF Spec

(* When the first load is done, all are: the least that is not would be    *)
(* waited for by a lesser one.                                             *)
LEMMA AllAreDone ==
  ASSUME Types, WaitedFor, Returned
  PROVE  \A l \in DOMAIN loads : loads[l].st = "done"
<1> DEFINE S == {m \in DOMAIN loads : loads[m].st # "done"}
<1> SUFFICES ASSUME S # {} PROVE FALSE
  OBVIOUS
<1>1. S \in SUBSET Nat
  <2>1. loads \in Seq(LoadType)
    BY DEF Types, LoadsOK
  <2> QED BY <2>1
<1>2. PICK m \in S : \A l \in S : m <= l
  BY <1>1, Least
<1>3. m # 1
  BY DEF Returned
<1>4. PICK l \in DOMAIN loads : l < m /\ loads[l].st \in {"enqueue", "join"}
  BY <1>3 DEF WaitedFor
<1>5. l \in S /\ l \in Nat /\ m \in Nat
  BY <1>1, <1>4
<1> QED BY <1>2, <1>4, <1>5

(* The types, and a load waits only for loads that came later.             *)
THEOREM BatchTypesCorrect == Spec => []TypeOK
<1>1. Types => TypeOK
  <2> SUFFICES ASSUME Types PROVE TypeOK
    OBVIOUS
  <2>1. queue \in Seq([obj : Objects, field : Fields, call : Nat \X Nat])
    <3>1. NestedQueries \subseteq [obj : Objects, field : Fields, call : Nat \X Nat]
      BY DEF NestedQueries
    <3>2. queue \in Seq(NestedQueries)
      BY DEF Types
    <3>3. \A S, T : S \subseteq T => Seq(S) \subseteq Seq(T)
      OBVIOUS
    <3> QED BY <3>1, <3>2, <3>3
  <2>2. \A p \in DOMAIN given : given[p] = Unset \/ given[p] \subseteq Objects
    BY DEF Types
  <2>3. ASSUME NEW l \in DOMAIN loads
        PROVE  /\ loads[l].st \in LoadStates /\ Len(loads[l].qs) \in 0 .. MaxBatch
               /\ loads[l].wait \subseteq (l + 1) .. Len(loads)
    <3>1. /\ loads[l] \in LoadType /\ LoadOK(loads[l], denied)
          /\ loads[l].wait \subseteq (l + 1) .. Len(loads)
      BY ALoadIs
    <3> QED BY <3>1 DEF LoadType, LoadOK
  <2>4. \A s \in shared : s.obj \in Clashing /\ s.query.field \in Fields
    BY DEF Types, NestedQueries
  <2> QED BY <2>1, <2>2, <2>3, <2>4 DEF Types, TypeOK, LoadStates
<1> QED BY <1>1, BatchTypes, PTL

(* A request that returns without an exception has dispatched every query, *)
(* no thread still works on it, and every selected field of every object   *)
(* in the answer has its children.                                         *)
THEOREM NothingIsLeftBehind == Spec => []NothingIsLeft
<1>1. Types /\ WaitedFor /\ QueueIsKept /\ NoneIsLost => NothingIsLeft
  <2> SUFFICES ASSUME Types, WaitedFor, QueueIsKept, NoneIsLost, Returned, ~error
               PROVE  /\ queue = <<>> /\ \A l \in DOMAIN loads : loads[l].st = "done"
                      /\ \A o \in Objects, f \in Fields : Wanted(o, f) => given[<<o, f>>] # Unset
    BY DEF NothingIsLeft
  <2>1. \A l \in DOMAIN loads : loads[l].st = "done"
    BY AllAreDone
  <2>2. queue = <<>>
    BY <2>1 DEF QueueIsKept
  <2>3. ASSUME NEW o \in Objects, NEW f \in Fields, Wanted(o, f) PROVE given[<<o, f>>] # Unset
    <3>1. given[<<o, f>>] # Unset \/ Asked(o, f) \/ Called(o, f) \/ Owed(o, f)
      BY <2>3 DEF NoneIsLost
    <3>2. ~Asked(o, f)
      <4>1. ToSet(queue) = {}
        BY <2>2 DEF ToSet
      <4> QED BY <2>1, <4>1 DEF Asked, Due
    <3>3. ~Called(o, f)
      <4>1. \A l \in DOMAIN loads : loads[l].calls = {}
        BY <2>1, ALoadIs DEF LoadOK
      <4> QED BY <4>1 DEF Called
    <3>4. ~Owed(o, f)
      BY <2>1 DEF Owed, Owes
    <3> QED BY <3>1, <3>2, <3>3, <3>4
  <2> QED BY <2>1, <2>2, <2>3
<1> QED BY <1>1, BatchTypes, EachIsWaitedFor, QueueHasAnOwner, EachIsServed, PTL

(* A field that the user may not read is given to no object by any thread, *)
(* and if it was selected under an object of the answer the request fails. *)
THEOREM DeniedGivesNothing == Spec => []DeniedIsNotGiven
<1>1. Types /\ WaitedFor /\ DeniedUnset /\ DeniedFails => DeniedIsNotGiven
  <2> SUFFICES ASSUME Types, WaitedFor, DeniedUnset, DeniedFails,
                      NEW p \in DOMAIN given, p[2] \in denied
               PROVE  /\ given[p] = Unset
                      /\ Returned => \A g \in Fields, q \in DOMAIN given :
                           p[2] \in ToSet(Select[g]) /\ q[2] = g /\ given[q] \notin {Unset, {}}
                             => error
    BY DEF DeniedIsNotGiven
  <2>1. given[p] = Unset
    BY DEF DeniedUnset
  <2>2. ASSUME Returned, NEW g \in Fields, p[2] \in ToSet(Select[g]),
               NEW q \in DOMAIN given, q[2] = g, given[q] \notin {Unset, {}}
        PROVE  error
    <3>1. error \/ ToSelect(p[2])
      BY <2>2 DEF DeniedFails
    <3>2. ~ToSelect(p[2])
      BY <2>2, AllAreDone DEF ToSelect, Working
    <3> QED BY <3>1, <3>2
  <2> QED BY <2>1, <2>2
<1> QED BY <1>1, BatchTypes, EachIsWaitedFor, DeniedStaysUnset, DeniedHasFailed, PTL

-----------------------------------------------------------------------------
(* Induction on paths: what the root has, and every path has whose parent  *)
(* has it, they all have.                                                  *)
LEMMA PathInduct ==
  ASSUME NEW S \in SUBSET Paths, Root \in S, \A p \in Nested : Parent[p] \in S => p \in S
  PROVE  S = Paths
BY AssemblyAssumption

(* A function on the paths: a value for the root, and for the others one   *)
(* that follows from that of the parent.                                   *)
Follows(u, first, step) ==
  u[Root] = first /\ \A q \in Nested : u[q] = step[<<q, u[Parent[q]]>>]

(* The same on some of the paths.                                          *)
PartlyFollows(A, u, first, step) ==
  /\ Root \in A /\ \A q \in A \ {Root} : Parent[q] \in A
  /\ u[Root] = first /\ \A q \in A \ {Root} : u[q] = step[<<q, u[Parent[q]]>>]

LEMMA PathRecursion ==
  ASSUME NEW V, NEW first \in V, NEW step \in [Nested \X V -> V]
  PROVE  \E u \in [Paths -> V] : Follows(u, first, step)
<1> DEFINE Sol(A, u) == PartlyFollows(A, u, first, step)
<1>1. \A q \in Nested : q \in Paths /\ q # Root /\ Parent[q] \in Paths
  BY AssemblyAssumption DEF Nested
<1>2. ASSUME NEW A \in SUBSET Paths, NEW u \in [Paths -> V], Sol(A, u),
             NEW B \in SUBSET Paths, NEW w \in [Paths -> V], Sol(B, w)
      PROVE  \A q \in A \cap B : u[q] = w[q]
  <2> DEFINE S == {q \in Paths : q \in A \cap B => u[q] = w[q]}
  <2>1. Root \in S
    BY <1>2, AssemblyAssumption DEF PartlyFollows
  <2>2. ASSUME NEW q \in Nested, Parent[q] \in S PROVE q \in S
    <3> SUFFICES ASSUME q \in A \cap B PROVE u[q] = w[q]
      BY <1>1
    <3>1. Parent[q] \in A \cap B /\ u[Parent[q]] = w[Parent[q]]
      BY <1>1, <1>2, <2>2 DEF PartlyFollows
    <3> QED BY <1>1, <1>2, <3>1 DEF PartlyFollows
  <2>3. S = Paths
    <3> HIDE DEF S
    <3>1. S \in SUBSET Paths  BY DEF S
    <3> QED BY <2>1, <2>2, <3>1, PathInduct
  <2> QED BY <2>3
<1>3. \A q \in Paths : \E A \in SUBSET Paths : \E u \in [Paths -> V] : q \in A /\ Sol(A, u)
  <2> DEFINE S == {q \in Paths : \E A \in SUBSET Paths :
                     \E u \in [Paths -> V] : q \in A /\ Sol(A, u)}
  <2>1. Root \in S
    <3>1. [q \in Paths |-> first] \in [Paths -> V] /\ {Root} \in SUBSET Paths /\ Root \in Paths
      BY AssemblyAssumption
    <3>2. Sol({Root}, [q \in Paths |-> first])
      BY <3>1 DEF PartlyFollows
    <3> QED BY <3>1, <3>2
  <2>2. ASSUME NEW q \in Nested, Parent[q] \in S PROVE q \in S
    <3>1. PICK A \in SUBSET Paths : \E u \in [Paths -> V] : Parent[q] \in A /\ Sol(A, u)
      BY <2>2
    <3>2. PICK u \in [Paths -> V] : Parent[q] \in A /\ Sol(A, u)
      BY <3>1
    <3>3. CASE q \in A
      BY <1>1, <3>2, <3>3
    <3>4. CASE q \notin A
      <4> DEFINE x == step[<<q, u[Parent[q]]>>]
                 w == [u EXCEPT ![q] = x]
                 B == A \cup {q}
      <4>1. x \in V /\ q \in Paths /\ q # Root /\ Parent[q] # q /\ B \in SUBSET Paths
        BY <1>1, <3>2, <3>4
      <4>2. w \in [Paths -> V] /\ w[q] = x /\ \A p \in Paths : p # q => w[p] = u[p]
        BY <4>1
      <4>3. \A p \in A : p # q /\ w[p] = u[p]
        BY <3>4, <4>2
      <4> HIDE DEF w
      <4>4. ASSUME NEW p \in B \ {Root}
            PROVE  Parent[p] \in B /\ w[p] = step[<<p, w[Parent[p]]>>]
        <5>1. CASE p = q
          BY <3>2, <4>2, <4>3, <5>1
        <5>2. CASE p # q
          <6>1. p \in A \ {Root}
            BY <5>2
          <6>2. Parent[p] \in A /\ u[p] = step[<<p, u[Parent[p]]>>]
            BY <3>2, <6>1 DEF PartlyFollows
          <6> QED BY <4>3, <6>1, <6>2
        <5> QED BY <5>1, <5>2
      <4>5. Root \in A /\ u[Root] = first
        BY <3>2 DEF PartlyFollows
      <4>6. Sol(B, w)
        <5> HIDE DEF B
        <5>1. Root \in B /\ w[Root] = first
          BY <4>3, <4>5 DEF B
        <5> QED BY <4>4, <5>1 DEF PartlyFollows
      <4> QED BY <4>1, <4>2, <4>6
    <3> QED BY <3>3, <3>4
  <2>3. S = Paths
    <3> HIDE DEF S
    <3>1. S \in SUBSET Paths  BY DEF S
    <3> QED BY <2>1, <2>2, <3>1, PathInduct
  <2> QED BY <2>3
<1> DEFINE Val(q) == CHOOSE v \in V : \E A \in SUBSET Paths : \E u \in [Paths -> V] :
                       q \in A /\ Sol(A, u) /\ u[q] = v
           f == [q \in Paths |-> Val(q)]
<1>4. ASSUME NEW A \in SUBSET Paths, NEW u \in [Paths -> V], Sol(A, u), NEW q \in A
      PROVE  Val(q) = u[q]
  <2>1. \E v \in V : \E B \in SUBSET Paths : \E w \in [Paths -> V] :
          q \in B /\ Sol(B, w) /\ w[q] = v
    <3>1. u[q] \in V
      OBVIOUS
    <3> QED BY <1>4, <3>1
  <2>2. PICK B \in SUBSET Paths : \E w \in [Paths -> V] :
          q \in B /\ Sol(B, w) /\ w[q] = Val(q)
    BY <2>1
  <2>3. PICK w \in [Paths -> V] : q \in B /\ Sol(B, w) /\ w[q] = Val(q)
    BY <2>2
  <2> HIDE DEF Val
  <2> QED BY <1>2, <1>4, <2>3
<1> HIDE DEF Val
<1>5. ASSUME NEW q \in Paths PROVE Val(q) \in V
  <2>1. PICK A \in SUBSET Paths : \E u \in [Paths -> V] : q \in A /\ Sol(A, u)
    BY <1>3
  <2>2. PICK u \in [Paths -> V] : q \in A /\ Sol(A, u)
    BY <2>1
  <2>3. Val(q) = u[q]
    BY <1>4, <2>2
  <2> QED BY <2>3
<1>6. f \in [Paths -> V]
  BY <1>5
<1>7. f[Root] = first
  <2>1. PICK A \in SUBSET Paths : \E u \in [Paths -> V] : Root \in A /\ Sol(A, u)
    BY <1>3, AssemblyAssumption
  <2>2. PICK u \in [Paths -> V] : Root \in A /\ Sol(A, u)
    BY <2>1
  <2>3. Val(Root) = u[Root] /\ u[Root] = first
    BY <1>4, <2>2 DEF PartlyFollows
  <2> QED BY <2>3, AssemblyAssumption
<1>8. ASSUME NEW q \in Nested PROVE f[q] = step[<<q, f[Parent[q]]>>]
  <2>1. PICK A \in SUBSET Paths : \E u \in [Paths -> V] : q \in A /\ Sol(A, u)
    BY <1>1, <1>3
  <2>2. PICK u \in [Paths -> V] : q \in A /\ Sol(A, u)
    BY <2>1
  <2>3. Parent[q] \in A /\ u[q] = step[<<q, u[Parent[q]]>>]
    BY <1>1, <2>2 DEF PartlyFollows
  <2>4. Val(q) = u[q] /\ Val(Parent[q]) = u[Parent[q]]
    BY <1>4, <2>2, <2>3
  <2> QED BY <1>1, <2>3, <2>4
<1> HIDE DEF f
<1> QED BY <1>6, <1>7, <1>8 DEF Follows

(* The paths at and below one: those in every set that has it and, with a  *)
(* path, the paths nested in that.                                         *)
Below(p) ==
  {q \in Paths : \A S \in SUBSET Paths :
     p \in S /\ (\A n \in Nested : Parent[n] \in S => n \in S) => q \in S}

LEMMA BelowIs ==
  ASSUME NEW p \in Paths
  PROVE  /\ p \in Below(p) /\ Below(p) \in SUBSET Paths
         /\ \A n \in Nested : Parent[n] \in Below(p) => n \in Below(p)
         /\ \A q \in Below(p) : q # p => q \in Nested /\ Parent[q] \in Below(p)
         /\ p \in Nested => Root \notin Below(p) /\ Parent[p] \notin Below(p)
<1>1. \A q \in Nested : q \in Paths /\ q # Root /\ Parent[q] \in Paths
  BY AssemblyAssumption DEF Nested
<1>2. p \in Below(p) /\ Below(p) \in SUBSET Paths
  BY DEF Below
<1>3. \A n \in Nested : Parent[n] \in Below(p) => n \in Below(p)
  BY <1>1 DEF Below
<1>4. ASSUME NEW q \in Below(p), q # p PROVE q \in Nested /\ Parent[q] \in Below(p)
  <2> DEFINE S == {p} \cup {n \in Below(p) : n \in Nested /\ Parent[n] \in Below(p)}
  <2>1. S \in SUBSET Paths /\ p \in S /\ S \subseteq Below(p)
    BY <1>2
  <2>2. \A n \in Nested : Parent[n] \in S => n \in S
    BY <1>3, <2>1
  <2>3. q \in S
    BY <2>1, <2>2 DEF Below
  <2> QED BY <1>4, <2>3
<1>5. ASSUME p \in Nested PROVE Root \notin Below(p) /\ Parent[p] \notin Below(p)
  <2>1. Root \notin Below(p)
    BY <1>1, <1>4, <1>5
  <2>2. ASSUME Parent[p] \in Below(p) PROVE FALSE
    <3> DEFINE S == Paths \ Below(p)
    <3>1. Root \in S
      BY <2>1, AssemblyAssumption
    <3>2. \A n \in Nested : Parent[n] \in S => n \in S
      BY <1>1, <1>4, <2>2
    <3>3. S = Paths
      BY <3>1, <3>2, PathInduct
    <3> QED BY <1>2, <3>3
  <2> QED BY <2>1, <2>2
<1> QED BY <1>2, <1>3, <1>4, <1>5

-----------------------------------------------------------------------------
(* The row has the object that the joins give it for the path.             *)
Joined(r, p) ==
  IF Linked(p, r[Parent[p]]) = {} THEN r[p] = 0 ELSE r[p] \in Linked(p, r[Parent[p]])

(* The rows of the joins.                                                  *)
LEMMA RowsAre == Rows = {r \in Row : r[Root] # 0 /\ \A p \in Nested : Joined(r, p)}
BY DEF Rows, Joined

(* What the paths are.                                                     *)
LEMMA NestedAre ==
  /\ Root \in Paths /\ 0 \notin Keys
  /\ \A p \in Nested : p \in Paths /\ p # Root /\ Parent[p] \in Paths
  /\ \A p \in Paths : p # Root => p \in Nested
BY AssemblyAssumption DEF Nested

(* A row has an object of a path only if it has one of the path's parent,  *)
(* and the two are linked.                                                 *)
LEMMA RowLinks ==
  ASSUME db \in Databases, NEW r \in Rows, NEW p \in Nested, r[p] # 0
  PROVE  /\ r[Parent[p]] \in Keys /\ r[p] \in Keys /\ <<r[Parent[p]], r[p]>> \in db[p]
<1>1. r \in Row /\ Joined(r, p)
  BY RowsAre
<1>2. r[p] \in Linked(p, r[Parent[p]])
  BY <1>1 DEF Joined
<1>3. db[p] \subseteq Keys \X Keys
  BY AssemblyAssumption
<1> QED BY <1>2, <1>3 DEF Linked

(* A row may take what is below a path from another that has the same      *)
(* object there.                                                           *)
LEMMA Mixed ==
  ASSUME NEW r \in Rows, NEW t \in Rows, NEW p \in Paths, r[p] = t[p]
  PROVE  \E s \in Rows : /\ s[Root] = t[Root] /\ s[p] = t[p]
                         /\ \A q \in Paths : s[q] \in {r[q], t[q]}
                         /\ \A n \in Nested : Parent[n] = p => s[n] = r[n]
<1> DEFINE s == [q \in Paths |-> IF q \in Below(p) THEN r[q] ELSE t[q]]
<1>1. r \in Row /\ t \in Row /\ r[Root] # 0 /\ t[Root] # 0
  BY RowsAre
<1>2. s \in Row /\ \A q \in Paths : s[q] \in {r[q], t[q]}
  BY <1>1 DEF Row
<1>3. s[p] = t[p] /\ s[Root] = t[Root]
  <2>1. p \in Nested => Root \notin Below(p)
    BY BelowIs
  <2> QED BY <2>1, NestedAre
<1>4. ASSUME NEW n \in Nested PROVE Joined(s, n)
  <2>1. Joined(r, n) /\ Joined(t, n) /\ n \in Paths /\ Parent[n] \in Paths
    BY RowsAre, NestedAre
  <2>2. CASE Parent[n] \in Below(p)
    <3>1. n \in Below(p)
      BY <2>2, BelowIs
    <3>2. s[n] = r[n] /\ s[Parent[n]] = r[Parent[n]]
      BY <2>1, <2>2, <3>1
    <3> QED BY <2>1, <3>2 DEF Joined
  <2>3. CASE Parent[n] \notin Below(p)
    <3>1. n \in Below(p) => n = p
      BY <2>3, BelowIs
    <3>2. s[n] = t[n] /\ s[Parent[n]] = t[Parent[n]]
      BY <2>1, <2>3, <3>1
    <3> QED BY <2>1, <3>2 DEF Joined
  <2> QED BY <2>2, <2>3
<1>5. ASSUME NEW n \in Nested, Parent[n] = p PROVE s[n] = r[n]
  BY <1>5, BelowIs, NestedAre
<1> HIDE DEF s
<1>6. s \in Rows
  BY <1>1, <1>2, <1>3, <1>4, RowsAre
<1> QED BY <1>2, <1>3, <1>5, <1>6

-----------------------------------------------------------------------------
(* What is reached on a path is linked to what is reached on its parent.   *)
Further(p, pairs) ==
  {<<x[1], c>> : x \in pairs, c \in Keys} \cap
  {y \in Keys \X Keys : \E x \in pairs : x[1] = y[1] /\ <<x[2], y[2]>> \in db[p]}

(* The root reaches itself.                                                *)
Selves == {<<k, k>> : k \in Keys}

(* So is what is reached: the function that the model defines exists.      *)
LEMMA ReachedIs ==
  /\ Reached[Root] = Selves
  /\ \A p \in Nested : Reached[p] = Further(p, Reached[Parent[p]])
<1> DEFINE V == SUBSET (Keys \X Keys)
           step == [x \in Nested \X V |-> Further(x[1], x[2])]
           body(to) == [p \in Paths |-> IF p = Root THEN {<<k, k>> : k \in Keys}
                          ELSE {<<x[1], c>> : x \in to[Parent[p]], c \in Keys} \cap
                               {y \in Keys \X Keys : \E x \in to[Parent[p]] :
                                  x[1] = y[1] /\ <<x[2], y[2]>> \in db[p]}]
<1>1. Selves \in V /\ step \in [Nested \X V -> V]
  BY DEF Selves, Further
<1> HIDE DEF V
<1>2. PICK u \in [Paths -> V] : Follows(u, Selves, step)
  <2> HIDE DEF step
  <2> QED BY <1>1, PathRecursion
<1>3. \A p \in Nested : u[p] = Further(p, u[Parent[p]])
  <2>1. \A p \in Nested : u[Parent[p]] \in V
    BY NestedAre
  <2> QED BY <1>2, <2>1 DEF Follows
<1>4. u = body(u)
  <2>1. ASSUME NEW p \in Paths PROVE u[p] = body(u)[p]
    <3>1. CASE p = Root
      BY <1>2, <3>1 DEF Follows, Selves
    <3>2. CASE p # Root
      BY <1>3, <3>2, NestedAre DEF Further
    <3> QED BY <3>1, <3>2
  <2>2. u = [p \in Paths |-> u[p]]
    OBVIOUS
  <2>3. body(u) = [p \in Paths |-> body(u)[p]]
    OBVIOUS
  <2> HIDE DEF body
  <2> QED BY <2>1, <2>2, <2>3
<1>5. Reached = CHOOSE to : to = body(to)
  BY DEF Reached
<1>6. Reached = body(Reached)
  <2> HIDE DEF body
  <2> QED BY <1>4, <1>5
<1> HIDE DEF step
<1>7. Reached[Root] = Selves
  <2>1. body(Reached)[Root] = Selves
    BY NestedAre DEF Selves
  <2> HIDE DEF body
  <2> QED BY <2>1, <1>6
<1>8. ASSUME NEW p \in Nested PROVE Reached[p] = Further(p, Reached[Parent[p]])
  <2>1. body(Reached)[p] = Further(p, Reached[Parent[p]])
    <3>1. p \in Paths /\ p # Root
      BY NestedAre
    <3> QED BY <3>1 DEF Further
  <2> HIDE DEF body
  <2> QED BY <2>1, <1>6
<1> QED BY <1>7, <1>8

(* An object is reached if it is linked to one that is.                    *)
LEMMA FurtherIs ==
  ASSUME NEW p, NEW pairs \in SUBSET (Keys \X Keys), NEW a \in Keys, NEW b \in Keys
  PROVE  <<a, b>> \in Further(p, pairs) <=>
           \E c \in Keys : <<a, c>> \in pairs /\ <<c, b>> \in db[p]
<1>1. ASSUME <<a, b>> \in Further(p, pairs)
      PROVE  \E c \in Keys : <<a, c>> \in pairs /\ <<c, b>> \in db[p]
  <2>1. PICK x \in pairs : x[1] = <<a, b>>[1] /\ <<x[2], <<a, b>>[2]>> \in db[p]
    BY <1>1 DEF Further
  <2>2. x[1] = a /\ <<x[2], b>> \in db[p] /\ x \in Keys \X Keys
    BY <2>1
  <2>3. x[2] \in Keys /\ x = <<a, x[2]>>
    BY <2>2
  <2> QED BY <2>2, <2>3
<1>2. ASSUME NEW c \in Keys, <<a, c>> \in pairs, <<c, b>> \in db[p]
      PROVE  <<a, b>> \in Further(p, pairs)
  <2>1. <<a, b>> = <<<<a, c>>[1], b>>
    OBVIOUS
  <2>2. <<a, b>> \in {<<x[1], d>> : x \in pairs, d \in Keys}
    BY <1>2, <2>1
  <2>3. <<a, c>>[1] = <<a, b>>[1] /\ <<<<a, c>>[2], <<a, b>>[2]>> \in db[p]
    BY <1>2
  <2>4. <<a, b>> \in {y \in Keys \X Keys :
                      \E x \in pairs : x[1] = y[1] /\ <<x[2], y[2]>> \in db[p]}
    BY <1>2, <2>3
  <2> QED BY <2>2, <2>4 DEF Further
<1> QED BY <1>1, <1>2

(* It is of keys.                                                          *)
LEMMA ReachedType == \A p \in Paths : Reached[p] \in SUBSET (Keys \X Keys)
<1> DEFINE S == {p \in Paths : Reached[p] \in SUBSET (Keys \X Keys)}
<1>1. Root \in S
  BY ReachedIs, NestedAre DEF Selves
<1>2. ASSUME NEW p \in Nested PROVE p \in S
  BY ReachedIs, NestedAre DEF Further
<1>3. S = Paths
  <2> HIDE DEF S
  <2>1. S \in SUBSET Paths  BY DEF S
  <2> QED BY <1>1, <1>2, <2>1, PathInduct
<1> QED BY <1>3

(* A row has what is reached from its root ...                             *)
LEMMA RowsReach ==
  ASSUME db \in Databases, NEW r \in Rows
  PROVE  \A p \in Paths : r[p] # 0 => <<r[Root], r[p]>> \in Reached[p]
<1> DEFINE S == {p \in Paths : r[p] # 0 => <<r[Root], r[p]>> \in Reached[p]}
<1>1. r[Root] \in Keys
  BY RowsAre, NestedAre DEF Row
<1>2. Root \in S
  BY <1>1, ReachedIs, NestedAre DEF Selves
<1>3. ASSUME NEW p \in Nested, Parent[p] \in S PROVE p \in S
  <2> SUFFICES ASSUME r[p] # 0 PROVE <<r[Root], r[p]>> \in Reached[p]
    BY NestedAre
  <2>1. r[Parent[p]] \in Keys /\ r[p] \in Keys /\ <<r[Parent[p]], r[p]>> \in db[p]
    BY RowLinks
  <2>2. <<r[Root], r[Parent[p]]>> \in Reached[Parent[p]]
    BY <1>3, <2>1, NestedAre
  <2>3. /\ Reached[Parent[p]] \in SUBSET (Keys \X Keys)
        /\ Reached[p] = Further(p, Reached[Parent[p]])
    BY ReachedType, ReachedIs, NestedAre
  <2> DEFINE pairs == Reached[Parent[p]]
             a == r[Root]
             b == r[p]
             c == r[Parent[p]]
  <2>4. <<a, c>> \in pairs /\ <<c, b>> \in db[p] /\ c \in Keys /\ b \in Keys /\ a \in Keys
    BY <1>1, <2>1, <2>2
  <2>5. pairs \in SUBSET (Keys \X Keys)
    BY <2>3
  <2>6. <<a, b>> \in Further(p, pairs)
    <3> HIDE DEF S, pairs, a, b, c
    <3> QED BY <2>4, <2>5, FurtherIs
  <2> QED BY <2>3, <2>6
<1>4. S = Paths
  <2> HIDE DEF S
  <2>1. S \in SUBSET Paths  BY DEF S
  <2> QED BY <1>2, <1>3, <2>1, PathInduct
<1> QED BY <1>4

(* What the left joins find for a path, when the row has k for its parent. *)
Pick(p, k) == IF Linked(p, k) = {} THEN 0 ELSE CHOOSE c \in Linked(p, k) : TRUE

(* ... and what is reached from a root is in a row: a row for the parent   *)
(* is changed at the path, and below it filled as the joins do.            *)
LEMMA ReachedInRows ==
  ASSUME db \in Databases
  PROVE  \A p \in Paths : \A a, b \in Keys : <<a, b>> \in Reached[p] =>
           \E r \in Rows : r[Root] = a /\ r[p] = b
<1> DEFINE V == Keys \cup {0}
           Good(p) == \A a, b \in Keys : <<a, b>> \in Reached[p] =>
                        \E r \in Rows : r[Root] = a /\ r[p] = b
           S == {p \in Paths : Good(p)}
<1>1. \A p \in Nested, k \in V : Pick(p, k) \in V
  BY DEF Pick, Linked
<1>2. Root \in S
  <2> SUFFICES ASSUME NEW a \in Keys, NEW b \in Keys, <<a, b>> \in Reached[Root]
               PROVE  \E r \in Rows : r[Root] = a /\ r[Root] = b
    BY NestedAre
  <2>1. a = b
    BY ReachedIs DEF Selves
  <2> DEFINE step == [x \in Nested \X V |-> Pick(x[1], x[2])]
  <2>2. step \in [Nested \X V -> V] /\ a \in V
    BY <1>1
  <2>3. PICK u \in [Paths -> V] : Follows(u, a, step)
    <3> HIDE DEF step, V
    <3> QED BY <2>2, PathRecursion
  <2>4. ASSUME NEW q \in Nested PROVE Joined(u, q)
    <3>1. u[q] = Pick(q, u[Parent[q]])
      BY <2>3, NestedAre DEF Follows
    <3> QED BY <3>1 DEF Joined, Pick
  <2>5. u[Root] = a /\ a # 0
    BY <2>3, NestedAre DEF Follows
  <2>6. u \in Rows
    BY <2>4, <2>5, RowsAre DEF Row
  <2> QED BY <2>1, <2>5, <2>6
<1>3. ASSUME NEW p \in Nested, Parent[p] \in S PROVE p \in S
  <2> SUFFICES ASSUME NEW a \in Keys, NEW b \in Keys, <<a, b>> \in Reached[p]
               PROVE  \E r \in Rows : r[Root] = a /\ r[p] = b
    BY NestedAre
  <2>1. PICK c \in Keys : <<a, c>> \in Reached[Parent[p]] /\ <<c, b>> \in db[p]
    <3>1. /\ Reached[Parent[p]] \in SUBSET (Keys \X Keys)
          /\ Reached[p] = Further(p, Reached[Parent[p]])
      BY ReachedType, ReachedIs, NestedAre
    <3> HIDE DEF S
    <3> QED BY <3>1, FurtherIs
  <2>2. PICK r \in Rows : r[Root] = a /\ r[Parent[p]] = c
    BY <1>3, <2>1
  <2>3. r \in [Paths -> V] /\ \A q \in Nested : Joined(r, q)
    BY RowsAre DEF Row
  <2> DEFINE step == [x \in Nested \X V |->
                        IF x[1] = p THEN b
                        ELSE IF x[2] = r[Parent[x[1]]] THEN r[x[1]] ELSE Pick(x[1], x[2])]
  <2>4. step \in [Nested \X V -> V] /\ a \in V
    <3>1. ASSUME NEW x \in Nested \X V PROVE step[x] \in V
      <4>1. x[1] \in Nested /\ x[2] \in V /\ r[x[1]] \in V
        BY <2>3, NestedAre
      <4>2. Pick(x[1], x[2]) \in V
        BY <1>1, <4>1
      <4> QED BY <4>1, <4>2
    <3> QED BY <3>1
  <2>5. PICK u \in [Paths -> V] : Follows(u, a, step)
    <3> HIDE DEF step, V
    <3> QED BY <2>4, PathRecursion
  <2>6. /\ u[Root] = a /\ u[p] = b
        /\ \A q \in Nested : q # p => u[q] = IF u[Parent[q]] = r[Parent[q]] THEN r[q]
                                             ELSE Pick(q, u[Parent[q]])
    <3>1. \A q \in Nested : u[Parent[q]] \in V
      BY NestedAre
    <3>2. \A q \in Nested : u[q] = step[<<q, u[Parent[q]]>>]
      BY <2>5 DEF Follows
    <3> QED BY <2>5, <3>1, <3>2 DEF Follows
  <2> HIDE DEF step
  <2>7. \A q \in Paths : q \in Below(p) \/ u[q] = r[q]
    <3> DEFINE T == {q \in Paths : q \in Below(p) \/ u[q] = r[q]}
    <3>1. Root \in T
      BY <2>2, <2>6, NestedAre
    <3>2. ASSUME NEW q \in Nested, Parent[q] \in T PROVE q \in T
      BY <2>6, <3>2, BelowIs, NestedAre
    <3>3. T = Paths
      <4> HIDE DEF T
      <4>1. T \in SUBSET Paths  BY DEF T
      <4> QED BY <3>1, <3>2, <4>1, PathInduct
    <3> QED BY <3>3
  <2>8. u[Parent[p]] = c
    BY <2>2, <2>7, BelowIs, NestedAre
  <2>9. ASSUME NEW q \in Nested PROVE Joined(u, q)
    <3>1. CASE q = p
      BY <2>1, <2>6, <2>8, <3>1 DEF Joined, Linked
    <3>2. CASE q # p /\ u[Parent[q]] = r[Parent[q]]
      BY <2>3, <2>6, <3>2 DEF Joined
    <3>3. CASE q # p /\ u[Parent[q]] # r[Parent[q]]
      <4>1. u[q] = Pick(q, u[Parent[q]])
        BY <2>6, <3>3
      <4> QED BY <4>1 DEF Joined, Pick
    <3> QED BY <3>1, <3>2, <3>3
  <2>10. u \in Rows
    BY <2>6, <2>9, NestedAre, RowsAre DEF Row
  <2> QED BY <2>6, <2>10
<1>4. S = Paths
  <2> HIDE DEF S
  <2>1. S \in SUBSET Paths  BY DEF S
  <2> QED BY <1>2, <1>3, <2>1, PathInduct
<1> QED BY <1>4

(* So the roots that match are those of the rows that pass.                *)
LEMMA MatchingIs ==
  ASSUME db \in Databases, query \in Queries
  PROVE  Matching = {r[Root] : r \in {s \in Rows : Passes(s)}}
<1> DEFINE w == query.where
           onPath(a) == \E b \in w.some : <<a, b>> \in Reached[w.path]
<1>1. w.path \in Paths /\ w.some \subseteq Keys
  BY AssemblyAssumption
<1>2. Matching = {a \in Keys : IF w.op = "OR" THEN a \in w.root \/ onPath(a)
                               ELSE a \in w.root /\ onPath(a)}
  BY DEF Matching
<1>3. \A r : Passes(r) <=> IF w.op = "OR" THEN r[Root] \in w.root \/ r[w.path] \in w.some
                           ELSE r[Root] \in w.root /\ r[w.path] \in w.some
  BY DEF Passes
<1>4. ASSUME NEW r \in Rows PROVE r[Root] \in Keys /\ (r[w.path] \in w.some => onPath(r[Root]))
  <2>1. r[Root] \in Keys
    BY RowsAre, NestedAre DEF Row
  <2>2. r[w.path] \in w.some => r[w.path] # 0
    BY <1>1, NestedAre
  <2> QED BY <1>1, <2>1, <2>2, RowsReach
<1>5. ASSUME NEW a \in Keys, onPath(a) PROVE \E r \in Rows : r[Root] = a /\ r[w.path] \in w.some
  <2>1. PICK b \in w.some : <<a, b>> \in Reached[w.path]
    BY <1>5
  <2>2. b \in Keys
    BY <1>1
  <2> QED BY <1>1, <2>1, <2>2, ReachedInRows
<1>6. ASSUME NEW a \in Keys PROVE \E r \in Rows : r[Root] = a
  <2>1. <<a, a>> \in Reached[Root] /\ Root \in Paths
    BY ReachedIs, NestedAre DEF Selves
  <2> QED BY <2>1, ReachedInRows
<1>7. ASSUME NEW a PROVE a \in Matching <=> \E r \in Rows : Passes(r) /\ a = r[Root]
  <2> HIDE DEF w, onPath
  <2>1. ASSUME a \in Matching PROVE \E r \in Rows : Passes(r) /\ a = r[Root]
    BY <1>2, <1>3, <1>5, <1>6, <2>1
  <2>2. ASSUME NEW r \in Rows, Passes(r), a = r[Root] PROVE a \in Matching
    BY <1>2, <1>3, <1>4, <2>2
  <2> QED BY <2>1, <2>2
<1> QED BY <1>7

-----------------------------------------------------------------------------
(* The rows are those of the statement.                                    *)
RowsRead ==
  /\ db \in Databases /\ query \in Queries /\ pc \in {"parsed", "read", "returned", "failed"}
  /\ resultSet = IF pc \in {"read", "returned"} THEN Selected ELSE {}
  /\ todo \subseteq resultSet /\ (pc = "returned" => todo = {})

(* The cache has the objects of the rows that have been read.              *)
CacheIs ==
  /\ objectCache \subseteq Paths \X Keys
  /\ \A p \in Paths, k \in Keys : <<p, k>> \in objectCache <=> \E r \in Read : r[p] = k

(* The lists and fields hold objects of their path.                        *)
ChildrenAre ==
  /\ children = [p \in Nested |-> children[p]]
  /\ \A p \in Nested : \A x \in children[p] :
       \E k, c \in Keys : x = <<<<Parent[p], k>>, <<p, c>>>>

(* The list has the roots of the rows that have been read, in the order    *)
(* asked for, and none of the rows to come belongs before them.            *)
ListIs ==
  /\ resultList \in Seq(Keys)
  /\ {resultList[i] : i \in DOMAIN resultList} = {r[Root] : r \in Read}
  /\ \A i, j \in DOMAIN resultList : i < j => Before(resultList[i], resultList[j])
  /\ \A i \in DOMAIN resultList : \A s \in todo : ~Before(s[Root], resultList[i])

(* The inductive invariant: after each row the cache, the lists and the    *)
(* result say what the rows that have been read say.                       *)
TreeInv == RowsRead /\ CacheIs /\ ChildrenAre /\ ListIs

(* The rows that meet the condition; the page is of their roots.           *)
Passing == {r \in Rows : Passes(r)}

LEMMA SelectedAre ==
  /\ Passing \subseteq Rows /\ Selected \subseteq Passing
  /\ \A r : r \in Selected <=> r \in Passing /\ r[Root] \in PageOf({s[Root] : s \in Passing})
BY DEF Selected, Passing

(* A row has a root, and keys or nulls.                                    *)
LEMMA RowIs ==
  ASSUME NEW r \in Rows
  PROVE  r \in Row /\ r[Root] \in Keys /\ \A p \in Paths : r[p] \in Keys \cup {0}
BY RowsAre, NestedAre DEF Row

(* The statement gives rows.                                               *)
LEMMA RowsAreRead ==
  ASSUME RowsRead
  PROVE  db \in Databases /\ query \in Queries /\ resultSet \subseteq Rows /\ Read \subseteq Rows
         /\ todo \subseteq Rows
BY SelectedAre DEF RowsRead, Read

(* Two roots are in order, one way or the other.                           *)
LEMMA BeforeIsTotal ==
  ASSUME query \in Queries, NEW a \in Keys, NEW b \in Keys, a # b
  PROVE  Before(a, b) \/ Before(b, a)
<1>1. query.rank[a] \in Nat /\ query.rank[b] \in Nat /\ a \in Nat /\ b \in Nat
  BY AssemblyAssumption
<1> QED BY <1>1 DEF Before

(* What the object k of the path's parent has after a row.                 *)
LEMMA AddIs ==
  ASSUME TreeInv, NEW r \in todo, ReadRow(r), NEW p \in Nested
  PROVE  /\ r[p] = 0 => children'[p] = children[p]
         /\ r[p] # 0 =>
              \/ /\ p \in Lists /\ children'[p] = children[p]
                 /\ \E d \in Keys : Holds(p, r[Parent[p]], d) /\ Hash[p][d] = Hash[p][r[p]]
              \/ /\ p \in Lists
                 /\ children'[p] = children[p] \cup {<<<<Parent[p], r[Parent[p]]>>, <<p, r[p]>>>>}
              \/ /\ p \notin Lists
                 /\ children'[p] = {x \in children[p] : x[1] # <<Parent[p], r[Parent[p]]>>}
                                     \cup {<<<<Parent[p], r[Parent[p]]>>, <<p, r[p]>>>>}
<1>1. children'[p] = IF r[p] = 0 THEN children[p]
                     ELSE Add(p, children[p], r[Parent[p]], r[p])
  BY DEF ReadRow
<1>2. CASE r[p] = 0
  BY <1>1, <1>2
<1>3. CASE r[p] # 0
  <2> DEFINE has == \E d \in Keys : /\ <<<<Parent[p], r[Parent[p]]>>, <<p, d>>>> \in children[p]
                                    /\ Hash[p][d] = Hash[p][r[p]]
  <2>1. children'[p] =
          IF p \in Lists /\ has THEN children[p]
          ELSE (IF p \in Lists THEN children[p]
                ELSE {x \in children[p] : x[1] # <<Parent[p], r[Parent[p]]>>})
               \cup {<<<<Parent[p], r[Parent[p]]>>, <<p, r[p]>>>>}
    BY <1>1, <1>3 DEF Add, GetCacheKey
  <2>2. has <=> \E d \in Keys : Holds(p, r[Parent[p]], d) /\ Hash[p][d] = Hash[p][r[p]]
    BY DEF Holds
  <2> QED BY <1>3, <2>1, <2>2
<1> QED BY <1>2, <1>3

(* A row is read.                                                          *)
LEMMA ReadIs ==
  ASSUME TreeInv, NEW r \in todo, ReadRow(r)
  PROVE  /\ r \in Rows /\ r \notin Read /\ Read' = Read \cup {r}
         /\ todo' = todo \ {r} /\ UNCHANGED <<db, query, pc, resultSet>>
<1>1. todo \subseteq resultSet
  BY DEF TreeInv, RowsRead
<1>2. todo' = todo \ {r} /\ UNCHANGED <<db, query, pc, resultSet>>
  BY DEF ReadRow
<1>3. Read' = Read \cup {r}
  BY <1>1, <1>2 DEF Read
<1> QED BY <1>2, <1>3, RowsAreRead DEF TreeInv, Read

(* Reading a row keeps the cache right,                                    *)
LEMMA CacheKept ==
  ASSUME TreeInv, NEW r \in todo, ReadRow(r)
  PROVE  CacheIs'
<1>1. r \in Rows /\ Read' = Read \cup {r}
  BY ReadIs
<1>2. objectCache' = objectCache \cup {<<p, r[p]>> : p \in {q \in Paths : r[q] # 0}}
  BY DEF ReadRow, GetCacheKey
<1>3. \A p \in Paths : r[p] \in Keys \cup {0}
  BY <1>1, RowIs
<1>4. CacheIs
  BY DEF TreeInv
<1>5. objectCache' \subseteq Paths \X Keys
  BY <1>2, <1>3, <1>4 DEF CacheIs
<1>6. ASSUME NEW p \in Paths, NEW k \in Keys
      PROVE  <<p, k>> \in objectCache' <=> \E s \in Read' : s[p] = k
  <2>1. k # 0
    BY NestedAre
  <2>2. <<p, k>> \in objectCache' <=> <<p, k>> \in objectCache \/ r[p] = k
    BY <1>2, <2>1
  <2> QED BY <1>1, <1>4, <2>2 DEF CacheIs
<1> QED BY <1>5, <1>6 DEF CacheIs

(* what an object holds of its path,                                       *)
LEMMA ChildrenKept ==
  ASSUME TreeInv, NEW r \in todo, ReadRow(r)
  PROVE  ChildrenAre'
<1>1. children' = [p \in Nested |-> children'[p]]
  BY DEF ReadRow
<1>2. ASSUME NEW p \in Nested, NEW x \in children'[p]
      PROVE  \E k, c \in Keys : x = <<<<Parent[p], k>>, <<p, c>>>>
  <2>1. x \in children[p] \/ (r[p] # 0 /\ x = <<<<Parent[p], r[Parent[p]]>>, <<p, r[p]>>>>)
    BY <1>2, AddIs
  <2>2. CASE x \in children[p]
    BY <2>2 DEF TreeInv, ChildrenAre
  <2>3. CASE r[p] # 0 /\ x = <<<<Parent[p], r[Parent[p]]>>, <<p, r[p]>>>>
    <3>1. r \in Rows /\ db \in Databases
      BY ReadIs, RowsAreRead DEF TreeInv
    <3>2. r[Parent[p]] \in Keys /\ r[p] \in Keys
      BY <2>3, <3>1, RowLinks
    <3> QED BY <2>3, <3>2
  <2> QED BY <2>1, <2>2, <2>3
<1> QED BY <1>1, <1>2 DEF ChildrenAre

(* and the list in order: a root that is new comes after all before it.    *)
LEMMA ListKept ==
  ASSUME TreeInv, NEW r \in todo, ReadRow(r)
  PROVE  ListIs'
<1>1. r \in Rows /\ Read' = Read \cup {r} /\ todo' = todo \ {r} /\ query' = query
  BY ReadIs
<1>2. r[Root] \in Keys /\ query \in Queries /\ Root \in Paths
  BY <1>1, RowIs, RowsAreRead, NestedAre DEF TreeInv
<1>3. ListIs /\ CacheIs
  BY DEF TreeInv
<1>4. resultList \in Seq(Keys)
  BY <1>3 DEF ListIs
<1>5. \A a, b : Before(a, b)' <=> Before(a, b)
  BY <1>1 DEF Before
<1>6. <<Root, r[Root]>> \in objectCache <=> r[Root] \in {resultList[i] : i \in DOMAIN resultList}
  <2>1. <<Root, r[Root]>> \in objectCache <=> \E s \in Read : s[Root] = r[Root]
    BY <1>2, <1>3 DEF CacheIs
  <2>2. {resultList[i] : i \in DOMAIN resultList} = {s[Root] : s \in Read}
    BY <1>3 DEF ListIs
  <2> QED BY <2>1, <2>2
<1>7. \A s \in todo : ~Before(s[Root], r[Root])
  BY DEF ReadRow
<1>8. CASE <<Root, r[Root]>> \in objectCache
  <2>1. resultList' = resultList
    BY <1>8 DEF ReadRow, GetCacheKey
  <2>2. r[Root] \in {resultList[i] : i \in DOMAIN resultList}
    BY <1>6, <1>8
  <2>3. {resultList[i] : i \in DOMAIN resultList}' = {s[Root] : s \in Read}'
    BY <1>1, <1>3, <2>1, <2>2 DEF ListIs
  <2> QED BY <1>1, <1>3, <1>5, <2>1, <2>3 DEF ListIs
<1>9. CASE <<Root, r[Root]>> \notin objectCache
  <2>1. resultList' = Append(resultList, r[Root])
    BY <1>9 DEF ReadRow, GetCacheKey
  <2>2. /\ resultList' \in Seq(Keys) /\ DOMAIN resultList' = 1 .. Len(resultList) + 1
        /\ DOMAIN resultList = 1 .. Len(resultList) /\ Len(resultList) \in Nat
        /\ \A i \in 1 .. Len(resultList) : resultList'[i] = resultList[i]
        /\ resultList'[Len(resultList) + 1] = r[Root]
    BY <1>2, <1>4, <2>1
  <2> DEFINE n == Len(resultList)
  <2>3. {resultList'[i] : i \in DOMAIN resultList'} =
          {resultList[i] : i \in DOMAIN resultList} \cup {r[Root]}
    <3>1. DOMAIN resultList' = DOMAIN resultList \cup {Len(resultList) + 1}
      BY <2>2
    <3> QED BY <2>2, <3>1
  <2>4. {resultList'[i] : i \in DOMAIN resultList'} = {s[Root] : s \in Read'}
    <3>1. {s[Root] : s \in Read'} = {s[Root] : s \in Read} \cup {r[Root]}
      BY <1>1
    <3> QED BY <1>3, <2>3, <3>1 DEF ListIs
  <2>5. \A i \in DOMAIN resultList : resultList[i] \in Keys /\ resultList[i] # r[Root]
                                     /\ ~Before(r[Root], resultList[i])
    <3>1. \A i \in DOMAIN resultList : ~Before(r[Root], resultList[i])
      BY <1>3 DEF ListIs
    <3> QED BY <1>4, <1>6, <1>9, <3>1
  <2>6. \A i \in DOMAIN resultList : Before(resultList[i], r[Root])
    BY <1>2, <2>5, BeforeIsTotal
  <2>7. ASSUME NEW i \in DOMAIN resultList', NEW j \in DOMAIN resultList', i < j
        PROVE  Before(resultList'[i], resultList'[j])
    <3>1. i \in DOMAIN resultList /\ resultList'[i] = resultList[i]
      BY <2>2, <2>7
    <3>2. CASE j \in DOMAIN resultList
      BY <1>3, <2>2, <2>7, <3>1, <3>2 DEF ListIs
    <3>3. CASE j \notin DOMAIN resultList
      <4>1. resultList'[j] = r[Root]
        BY <2>2, <3>3
      <4> QED BY <2>6, <3>1, <4>1
    <3> QED BY <3>2, <3>3
  <2>8. ASSUME NEW i \in DOMAIN resultList', NEW s \in todo'
        PROVE  ~Before(s[Root], resultList'[i])
    <3>1. CASE i \in DOMAIN resultList
      BY <1>1, <1>3, <2>2, <3>1 DEF ListIs
    <3>2. CASE i \notin DOMAIN resultList
      BY <1>1, <1>7, <2>2, <3>2
    <3> QED BY <3>1, <3>2
  <2> QED BY <1>5, <2>2, <2>4, <2>7, <2>8 DEF ListIs
<1> QED BY <1>8, <1>9

(* No operation breaks the invariant.                                      *)
LEMMA TreeInvariant == TreeSpec => []TreeInv
<1>1. TreeInit => TreeInv
  <2> SUFFICES ASSUME TreeInit PROVE TreeInv
    OBVIOUS
  <2>1. RowsRead /\ ChildrenAre
    BY DEF TreeInit, RowsRead, ChildrenAre
  <2>2. Read = {} /\ objectCache = {} /\ resultList = <<>> /\ todo = {}
    BY DEF TreeInit, Read
  <2>3. CacheIs /\ ListIs
    BY <2>2 DEF CacheIs, ListIs
  <2> QED BY <2>1, <2>3 DEF TreeInv
<1>2. TreeInv /\ [TreeNext]_treeVars => TreeInv'
  <2> SUFFICES ASSUME TreeInv, [TreeNext]_treeVars PROVE TreeInv'
    OBVIOUS
  <2> USE DEF TreeInv
  <2>1. CASE Execute
    <3>1. /\ pc = "parsed" /\ pc' = "read" /\ resultSet' = Selected /\ todo' = resultSet'
          /\ UNCHANGED <<db, query, objectCache, children, resultList>>
      BY <2>1 DEF Execute
    <3>2. Selected' = Selected
      BY <3>1 DEF Selected, Rows, Row, Linked, Passes, PageOf, Before
    <3>3. resultSet = {} /\ todo = {} /\ Read = {} /\ Read' = {}
      BY <3>1 DEF RowsRead, Read
    <3>4. objectCache = {}
      BY <3>3 DEF CacheIs
    <3>5. DOMAIN resultList = {} /\ DOMAIN resultList' = {}
      BY <3>1, <3>3 DEF ListIs
    <3>6. RowsRead'
      BY <3>1, <3>2 DEF RowsRead
    <3>7. CacheIs' /\ ChildrenAre'
      BY <3>1, <3>3 DEF CacheIs, ChildrenAre
    <3>8. ListIs'
      BY <3>1, <3>3, <3>5 DEF ListIs
    <3> QED BY <3>6, <3>7, <3>8
  <2>2. CASE Return
    <3>1. /\ pc = "read" /\ todo = {} /\ pc' = "returned"
          /\ UNCHANGED <<db, query, resultSet, todo, objectCache, children, resultList>>
      BY <2>2 DEF Return
    <3>2. Selected' = Selected
      BY <3>1 DEF Selected, Rows, Row, Linked, Passes, PageOf, Before
    <3>3. RowsRead'
      BY <3>1, <3>2 DEF RowsRead
    <3>4. CacheIs' /\ ChildrenAre' /\ ListIs'
      <4>1. Read' = Read /\ \A a, b : Before(a, b)' <=> Before(a, b)
        BY <3>1 DEF Read, Before
      <4>2. UNCHANGED <<objectCache, children, resultList, todo>>
        BY <3>1
      <4>3. CacheIs' /\ ChildrenAre'
        BY <4>1, <4>2 DEF CacheIs, ChildrenAre
      <4>4. ListIs'
        <5>1. ListIs
          OBVIOUS
        <5> QED BY <4>1, <4>2, <5>1 DEF ListIs
      <4> QED BY <4>3, <4>4
    <3> QED BY <3>3, <3>4
  <2>3. CASE Fails
    <3>1. /\ pc' = "failed" /\ resultSet' = {} /\ todo' = {} /\ objectCache' = {}
          /\ resultList' = <<>> /\ children' = [p \in Nested |-> {}]
          /\ UNCHANGED <<db, query>>
      BY <2>3 DEF Fails
    <3>2. RowsRead' /\ ChildrenAre'
      BY <3>1 DEF RowsRead, ChildrenAre
    <3>3. Read' = {}
      BY <3>1 DEF Read
    <3>4. CacheIs' /\ ListIs'
      BY <3>1, <3>3 DEF CacheIs, ListIs
    <3> QED BY <3>2, <3>4
  <2>4. ASSUME NEW r \in todo, ReadRow(r) PROVE TreeInv'
    <3>1. todo' = todo \ {r} /\ UNCHANGED <<db, query, pc, resultSet>>
      BY <2>4, ReadIs
    <3>2. Selected' = Selected
      BY <3>1 DEF Selected, Rows, Row, Linked, Passes, PageOf, Before
    <3>3. RowsRead'
      BY <3>1, <3>2 DEF RowsRead
    <3> QED BY <2>4, <3>3, CacheKept, ChildrenKept, ListKept
  <2>5. CASE UNCHANGED treeVars
    <3>1. Selected' = Selected
      BY <2>5 DEF treeVars, Selected, Rows, Row, Linked, Passes, PageOf, Before
    <3>2. RowsRead'
      BY <2>5, <3>1 DEF RowsRead, treeVars
    <3>3. CacheIs' /\ ChildrenAre' /\ ListIs'
      <4>1. Read' = Read /\ \A a, b : Before(a, b)' <=> Before(a, b)
        BY <2>5 DEF treeVars, Read, Before
      <4>2. UNCHANGED <<objectCache, children, resultList, todo>>
        BY <2>5 DEF treeVars
      <4>3. CacheIs' /\ ChildrenAre'
        BY <4>1, <4>2 DEF CacheIs, ChildrenAre
      <4>4. ListIs'
        <5>1. ListIs
          OBVIOUS
        <5> QED BY <4>1, <4>2, <5>1 DEF ListIs
      <4> QED BY <4>3, <4>4
    <3> QED BY <3>2, <3>3
  <2> QED BY <2>1, <2>2, <2>3, <2>4, <2>5 DEF TreeNext
<1> QED BY <1>1, <1>2, PTL DEF TreeSpec

(* One row more, for one path.                                             *)
HeldAt(p) ==
  \A k \in Keys, c \in Keys :
    /\ Holds(p, k, c) => \E r \in Read : r[Parent[p]] = k /\ r[p] = c
    /\ (\E r \in Read : r[Parent[p]] = k /\ r[p] = c) =>
         \E d \in Keys : Holds(p, k, d) /\ (d = c \/ Hash[p][d] = Hash[p][c])

(* HeldAsRead is about each path alone.                                    *)
LEMMA HeldIs == HeldAsRead <=> \A p \in Nested : HeldAt(p)
BY DEF HeldAsRead, HeldAt

(* A row adds its object, unless the list has one with its hash code; a    *)
(* field that takes one object had none, or this one: the database has no  *)
(* other for the same parent.                                              *)
LEMMA HeldStays ==
  ASSUME TreeInv, NEW r \in todo, ReadRow(r), NEW p \in Nested, HeldAt(p)
  PROVE  HeldAt(p)'
<1> DEFINE x == <<<<Parent[p], r[Parent[p]]>>, <<p, r[p]>>>>
<1>1. /\ r \in Rows /\ Read' = Read \cup {r} /\ db \in Databases
      /\ Read \subseteq Rows /\ 0 \notin Keys
  BY ReadIs, RowsAreRead, NestedAre DEF TreeInv
<1>2. r[p] # 0 => r[Parent[p]] \in Keys /\ r[p] \in Keys /\ <<r[Parent[p]], r[p]>> \in db[p]
  BY <1>1, RowLinks
<1>3. \A k, c : Holds(p, k, c) <=> <<<<Parent[p], k>>, <<p, c>>>> \in children[p]
  BY DEF Holds
<1>4. \A k, c : Holds(p, k, c)' <=> <<<<Parent[p], k>>, <<p, c>>>> \in children'[p]
  BY DEF Holds
<1>5. CASE r[p] = 0
  <2>1. \A k, c : Holds(p, k, c)' <=> Holds(p, k, c)
    BY <1>3, <1>4, <1>5, AddIs
  <2>2. \A k, c \in Keys : (\E s \in Read' : s[Parent[p]] = k /\ s[p] = c)
                             <=> \E s \in Read : s[Parent[p]] = k /\ s[p] = c
    BY <1>1, <1>5
  <2> QED BY <2>1, <2>2 DEF HeldAt
<1>6. CASE r[p] # 0 /\ children'[p] = children[p]
           /\ \E d \in Keys : Holds(p, r[Parent[p]], d) /\ Hash[p][d] = Hash[p][r[p]]
  <2>1. \A k, c : Holds(p, k, c)' <=> Holds(p, k, c)
    BY <1>3, <1>4, <1>6
  <2> QED BY <1>1, <1>6, <2>1 DEF HeldAt
<1>7. CASE r[p] # 0 /\ children'[p] = children[p] \cup {x}
  <2>1. \A k, c : Holds(p, k, c)' <=> Holds(p, k, c) \/ (k = r[Parent[p]] /\ c = r[p])
    BY <1>3, <1>4, <1>7
  <2> QED BY <1>1, <1>2, <2>1 DEF HeldAt
<1>8. CASE /\ r[p] # 0 /\ p \notin Lists
           /\ children'[p] = {y \in children[p] : y[1] # <<Parent[p], r[Parent[p]]>>} \cup {x}
  <2>1. \A k, c : Holds(p, k, c)' <=> \/ Holds(p, k, c) /\ k # r[Parent[p]]
                                      \/ k = r[Parent[p]] /\ c = r[p]
    BY <1>3, <1>4, <1>8
  <2>2. ASSUME NEW s \in Read, s[Parent[p]] = r[Parent[p]], s[p] # 0 PROVE s[p] = r[p]
    <3>1. <<s[Parent[p]], s[p]>> \in db[p] /\ <<r[Parent[p]], r[p]>> \in db[p]
      BY <1>1, <1>2, <1>8, <2>2, RowLinks
    <3>2. \A y, z \in db[p] : y[1] = z[1] => y = z
      BY <1>1, <1>8, AssemblyAssumption
    <3>3. <<s[Parent[p]], s[p]>> = <<r[Parent[p]], r[p]>>
      BY <2>2, <3>1, <3>2
    <3> QED BY <3>3
  <2>3. ASSUME NEW k \in Keys, NEW c \in Keys, Holds(p, k, c)'
        PROVE  \E s \in Read' : s[Parent[p]] = k /\ s[p] = c
    BY <1>1, <2>1, <2>3 DEF HeldAt
  <2>4. ASSUME NEW k \in Keys, NEW c \in Keys,
               NEW s \in Read', s[Parent[p]] = k, s[p] = c
        PROVE  \E d \in Keys : Holds(p, k, d)' /\ (d = c \/ Hash[p][d] = Hash[p][c])
    <3>1. CASE k = r[Parent[p]]
      <4>1. c = r[p]
        BY <1>1, <2>2, <2>4, <3>1
      <4> QED BY <2>1, <3>1, <4>1
    <3>2. CASE k # r[Parent[p]]
      <4>1. s \in Read
        BY <1>1, <2>4, <3>2
      <4>2. PICK d \in Keys : Holds(p, k, d) /\ (d = c \/ Hash[p][d] = Hash[p][c])
        BY <2>4, <4>1 DEF HeldAt
      <4> QED BY <2>1, <3>2, <4>2
    <3> QED BY <3>1, <3>2
  <2> QED BY <2>3, <2>4 DEF HeldAt
<1> QED BY <1>5, <1>6, <1>7, <1>8, AddIs

(* At every moment the objects hold what the rows read so far say, and     *)
(* nothing else, whatever the order of the rows of one root.               *)
THEOREM TreeHoldsWhatWasRead == TreeSpec => []HeldAsRead
<1>1. TreeInit => HeldAsRead
  <2> SUFFICES ASSUME TreeInit PROVE HeldAsRead
    OBVIOUS
  <2>1. Read = {} /\ \A p \in Nested : \A k, c : ~Holds(p, k, c)
    BY DEF TreeInit, Read, Holds
  <2> QED BY <2>1 DEF HeldAsRead
<1>2. TreeInv /\ HeldAsRead /\ [TreeNext]_treeVars => HeldAsRead'
  <2> SUFFICES ASSUME TreeInv, HeldAsRead, [TreeNext]_treeVars PROVE HeldAsRead'
    OBVIOUS
  <2>1. CASE Execute
    <3>1. Read' = {} /\ Read = {} /\ children' = children
      BY <2>1 DEF Execute, TreeInv, RowsRead, Read
    <3> QED BY <3>1 DEF HeldAsRead, Holds
  <2>2. CASE Fails
    <3>1. Read' = {} /\ \A p \in Nested : \A k, c : ~Holds(p, k, c)'
      BY <2>2 DEF Fails, Read, Holds
    <3> QED BY <3>1 DEF HeldAsRead
  <2>3. CASE Return \/ UNCHANGED treeVars
    <3>1. Read' = Read /\ children' = children
      BY <2>3 DEF Return, treeVars, Read
    <3>2. \A p, k, c : Holds(p, k, c)' <=> Holds(p, k, c)
      BY <3>1 DEF Holds
    <3> QED BY <3>1, <3>2 DEF HeldAsRead
  <2>4. ASSUME NEW r \in todo, ReadRow(r) PROVE HeldAsRead'
    <3>1. \A p \in Nested : HeldAt(p)'
      BY <2>4, HeldIs, HeldStays
    <3> QED BY <3>1 DEF HeldAsRead, HeldAt
  <2> QED BY <2>1, <2>2, <2>3, <2>4 DEF TreeNext
<1> QED BY <1>1, <1>2, TreeInvariant, PTL DEF TreeSpec

(* The result is the page of the root objects that match, in the order     *)
(* asked for, each once: not a page of the rows that the joins multiply.   *)
THEOREM TreePagesRoots == TreeSpec => []PageOfRoots
<1>1. TreeInv => PageOfRoots
  <2> SUFFICES ASSUME TreeInv, pc = "returned" PROVE
        /\ {resultList[i] : i \in DOMAIN resultList} = PageOf(Matching)
        /\ \A i, j \in DOMAIN resultList : i < j => Before(resultList[i], resultList[j])
    BY DEF PageOfRoots
  <2>1. Read = Selected /\ db \in Databases /\ query \in Queries
    BY DEF TreeInv, RowsRead, Read
  <2>2. Matching = {s[Root] : s \in Passing}
    BY <2>1, MatchingIs DEF Passing
  <2>3. {r[Root] : r \in Selected} = PageOf({s[Root] : s \in Passing})
    <3>1. PageOf({s[Root] : s \in Passing}) \subseteq {s[Root] : s \in Passing}
      BY DEF PageOf
    <3> QED BY <3>1, SelectedAre
  <2>4. /\ {resultList[i] : i \in DOMAIN resultList} = {r[Root] : r \in Read}
        /\ \A i, j \in DOMAIN resultList : i < j => Before(resultList[i], resultList[j])
    BY DEF TreeInv, ListIs
  <2> QED BY <2>1, <2>2, <2>3, <2>4
<1> QED BY <1>1, TreeInvariant, PTL

(* With AND every object that is returned holds all children that match. A *)
(* row that matches under another root can be changed into one under the   *)
(* root that is returned: above the object it is as there, below as here.  *)
THEOREM TreeCutsNoChildren == TreeSpec => []PageCutsNoChildren
<1>1. TreeInv /\ HeldAsRead => PageCutsNoChildren
  <2> DEFINE w == query.where
             Codes(p, cs) == {Hash[p][c] : c \in cs}
  <2> SUFFICES ASSUME TreeInv, HeldAsRead, pc = "returned", w.op = "AND",
                      NEW p \in Nested, NEW k \in Keys, <<Parent[p], k>> \in objectCache
               PROVE  Codes(p, {c \in Keys : Holds(p, k, c)}) =
                      Codes(p, {c \in Keys : \E r \in Passing : r[Parent[p]] = k /\ r[p] = c})
    BY DEF PageCutsNoChildren, Passing
  <2>1. Read = Selected /\ db \in Databases /\ query \in Queries
    BY DEF TreeInv, RowsRead, Read
  <2>2. Parent[p] \in Paths /\ p \in Paths /\ Root \in Paths /\ w.path \in Paths
    BY <2>1, NestedAre, AssemblyAssumption
  <2>3. PICK t \in Selected : t[Parent[p]] = k
    BY <2>1, <2>2 DEF TreeInv, CacheIs
  <2>4. ASSUME NEW c \in Keys, Holds(p, k, c)
        PROVE  \E r \in Passing : r[Parent[p]] = k /\ r[p] = c
    BY <2>1, <2>4, SelectedAre DEF HeldAsRead
  <2>5. ASSUME NEW c \in Keys, NEW r \in Passing, r[Parent[p]] = k, r[p] = c
        PROVE  \E d \in Keys : Holds(p, k, d) /\ Hash[p][d] = Hash[p][c]
    <3>1. /\ r \in Rows /\ t \in Rows /\ t \in Passing
          /\ t[Root] \in PageOf({s[Root] : s \in Passing})
      BY SelectedAre
    <3>2. PICK s \in Rows : /\ s[Root] = t[Root] /\ s[Parent[p]] = t[Parent[p]]
                            /\ \A q \in Paths : s[q] \in {r[q], t[q]}
                            /\ \A n \in Nested : Parent[n] = Parent[p] => s[n] = r[n]
      <4> DEFINE q == Parent[p]
      <4>1. r \in Rows /\ t \in Rows /\ q \in Paths /\ r[q] = t[q]
        BY <2>2, <2>3, <2>5, <3>1
      <4> HIDE DEF q, w, Codes
      <4>2. \E s \in Rows : /\ s[Root] = t[Root] /\ s[q] = t[q]
                            /\ \A n \in Paths : s[n] \in {r[n], t[n]}
                            /\ \A n \in Nested : Parent[n] = q => s[n] = r[n]
        BY <4>1, Mixed
      <4> QED BY <4>2 DEF q
    <3>3. s[Parent[p]] = k /\ s[p] = c
      BY <2>3, <2>5, <3>2
    <3>4. \A u \in Passing : u[Root] \in w.root /\ u[w.path] \in w.some
      BY DEF Passing, Passes
    <3>5. s[Root] \in w.root /\ s[w.path] \in w.some
      BY <2>2, <3>1, <3>2, <3>4
    <3>6. s \in Passing
      BY <3>2, <3>5 DEF Passing, Passes
    <3>7. s \in Read
      BY <2>1, <3>1, <3>2, <3>6, SelectedAre
    <3> QED BY <3>3, <3>7 DEF HeldAsRead
  <2> QED BY <2>4, <2>5
<1> QED BY <1>1, TreeInvariant, TreeHoldsWhatWasRead, PTL

(* The types too: what a list or a field holds has been put into the cache *)
(* by the row that says so.                                                *)
THEOREM TreeTypesCorrect == TreeSpec => []TreeTypeOK
<1>1. TreeInv /\ HeldAsRead => TreeTypeOK
  <2> SUFFICES ASSUME TreeInv, HeldAsRead PROVE TreeTypeOK
    OBVIOUS
  <2>1. /\ db \in Databases /\ query \in Queries
        /\ pc \in {"parsed", "read", "returned", "failed"} /\ todo \subseteq resultSet
    BY DEF TreeInv, RowsRead
  <2>2. resultSet \subseteq Row /\ objectCache \subseteq Paths \X Keys /\ resultList \in Seq(Keys)
    BY RowsAreRead, RowIs DEF TreeInv, CacheIs, ListIs
  <2>3. ASSUME NEW p \in Nested, NEW x \in children[p] PROVE x \in objectCache \X objectCache
    <3>1. PICK k \in Keys, c \in Keys : x = <<<<Parent[p], k>>, <<p, c>>>>
      BY DEF TreeInv, ChildrenAre
    <3>2. PICK r \in Read : r[Parent[p]] = k /\ r[p] = c
      BY <2>3, <3>1 DEF HeldAsRead, Holds
    <3>3. <<Parent[p], k>> \in objectCache /\ <<p, c>> \in objectCache
      BY <3>2, NestedAre DEF TreeInv, CacheIs
    <3> QED BY <3>1, <3>3
  <2>4. children \in [Nested -> SUBSET (objectCache \X objectCache)]
    <3>1. children = [p \in Nested |-> children[p]]
      BY DEF TreeInv, ChildrenAre
    <3> QED BY <2>3, <3>1
  <2>5. ASSUME NEW i \in DOMAIN resultList PROVE <<Root, resultList[i]>> \in objectCache
    <3>1. {resultList[j] : j \in DOMAIN resultList} = {r[Root] : r \in Read}
      BY DEF TreeInv, ListIs
    <3>2. PICK r \in Read : resultList[i] = r[Root]
      BY <3>1
    <3>3. resultList[i] \in Keys
      BY <2>2
    <3> QED BY <3>2, <3>3, NestedAre DEF TreeInv, CacheIs
  <2> QED BY <2>1, <2>2, <2>4, <2>5 DEF TreeTypeOK
<1> QED BY <1>1, TreeInvariant, TreeHoldsWhatWasRead, PTL
=============================================================================
