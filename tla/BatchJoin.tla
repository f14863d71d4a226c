----------------------------- MODULE BatchJoin -----------------------------
(***************************************************************************)
(* RecursiveTraversal over RDBMSBatchLoader: a query with nested fields is *)
(* resolved level by level.  Every object of a result gets a query of its  *)
(* own for every selected field; the queries wait in the one queue of the  *)
(* request's data loader until some thread dispatches it; a dispatch cuts  *)
(* what the queue holds into batches of MaxBatch, each loaded by a thread  *)
(* of the pool with one SQL statement; that thread gives the rows to the   *)
(* parents one by one and, in the callback of each, resolves the children, *)
(* which queues and dispatches again.                                      *)
(*                                                                         *)
(* The data loader (java-dataloader), the pool and the database are        *)
(* external: load and dispatch are atomic, a dispatch is over when all of  *)
(* its own batches have run their callbacks, a statement may fail.         *)
(*                                                                         *)
(* The loader caches the future of a query until its statement fails.      *)
(* Query.equals leaves the join conditions out, so the queries of one call *)
(* of traverseJoin are all equal; what keeps their futures apart is        *)
(* Query.hashCode, which takes in the identity hash code of the condition. *)
(* When that of a parent is the one of a sibling, the parent has no query  *)
(* of its own: it shares the future of the sibling.                        *)
(***************************************************************************)
EXTENDS Integers, Sequences, SequencesExt, FiniteSets

CONSTANTS
  Objects,  \* rows of all tables, by primary key
  Fields,   \* "root" and the fields that select objects
  Select,   \* field -> the object fields selected under it, in order
  Table,    \* field -> the set of [obj, key]: rows and the key of the parent
  Column,   \* field -> the name of the column that holds that key
  KeyOf,    \* <<object, field>> -> its key for the field, or NoKey
  NoKey,
  Many,     \* the fields that are lists
  Clashing, \* objects whose join condition may have a sibling's hash code
  Denials,  \* sets of fields: of their types, a user may read none
  MaxBatch, \* DEFAULT_LOADER_OPTIONS
  MayFail   \* whether statements may fail

(* A key is <<value, Java type>>. *)
ASSUME BatchAssumption ==
  /\ Objects \subseteq Nat \ {0} /\ "root" \in Fields
  /\ Select \in [Fields -> Seq(Fields \ {"root"})] /\ Many \subseteq Fields
  /\ Denials \subseteq SUBSET (Fields \ {"root"}) /\ Clashing \subseteq Objects
  /\ \A f \in Fields : \A r \in Table[f] : r.obj \in Objects /\ r.key # NoKey
  /\ MaxBatch \in Nat \ {0} /\ MayFail \in BOOLEAN

VARIABLES
  denied, \* the fields whose type the user may not read
  queue,  \* the queries loaded and not dispatched: [obj, field, call]
  shared, \* [obj, query]: the futures of queries that other objects share
  loads,  \* the batches; the first is the root query and the request's thread
  given,  \* <<object, field>> -> the children assigned, or Unset
  error   \* innerException, or what the request's thread throws

vars == <<denied, queue, shared, loads, given, error>>

Unset == {0}   \* 0 is no object

(* A query, and the call of traverseJoin that built it.                    *)
Query(o, f, c) == [obj |-> o, field |-> f, call |-> c]

(* A batch: of its queries those before pos are answered, the last of them *)
(* is at, with the answer objs and the parents in calls still to be called *)
(* back; todo, kids and wait are of the callback that runs.                *)
Load(qs) ==
  [qs |-> qs, st |-> "loading", pos |-> 1, at |-> Head(qs), calls |-> {},
   objs |-> {}, todo |-> <<>>, kids |-> {}, wait |-> {}, turn |-> 0]

Init ==
  /\ denied \in Denials
  /\ queue = <<>> /\ shared = {}
  /\ loads = <<Load(<<Query(0, "root", <<0, 0>>)>>)>>
  /\ given = [p \in (Objects \cup {0}) \X Fields |-> Unset]
  /\ error = FALSE

Step(l, new) == loads' = [loads EXCEPT ![l] = new]

-----------------------------------------------------------------------------
(* SQLBatchParser: the table of the first query, an IN over all the keys;  *)
(* the database compares values.                                           *)
Key(q) == KeyOf[<<q.obj, q.field>>]

Found(qs) ==
  IF Head(qs).field = "root" THEN Table["root"]
  ELSE {r \in Table[Head(qs).field] :
          \E q \in ToSet(qs) : r.key[1] = Key(q)[1]}

(* A slip: every query of a batch takes all. *)
MatchedFirst(qs, q) == Found(qs)

(* matchQueriesToResults: one query takes all; otherwise the rows that     *)
(* have a column of the query's name with an equal key, compared in Java.  *)
Matched(qs, q) ==
  IF Len(qs) = 1 THEN Found(qs)
  ELSE {r \in Found(qs) :
          Column[Head(qs).field] = Column[q.field] /\ r.key = Key(q)}

Answer(qs, q) == {r.obj : r \in Matched(qs, q)}

(* The statement answers, or fails all of its queries.                     *)
Loaded(l) ==
  /\ loads[l].st = "loading"
  /\ Step(l, [loads[l] EXCEPT !.st = "next"])
  /\ UNCHANGED <<denied, queue, shared, given, error>>

(* A slip: a statement that fails completes nothing. *)
LoadFailsSilently(l) ==
  /\ MayFail /\ loads[l].st = "loading"
  /\ Step(l, [loads[l] EXCEPT !.st = "failed"])
  /\ error' = TRUE
  /\ UNCHANGED <<denied, queue, shared, given>>

LoadFails(l) ==
  /\ MayFail /\ loads[l].st = "loading"
  /\ Step(l, [loads[l] EXCEPT !.st = "done"])
  /\ error' = TRUE
  /\ UNCHANGED <<denied, queue, shared, given>>

(* The object waits for the answer of the query, its own or a sibling's.   *)
Awaits(o, q) == o = q.obj \/ [obj |-> o, query |-> q] \in shared

(* The future of the next query is completed, and calls all of them back.  *)
Complete(l) ==
  /\ loads[l].st = "next" /\ loads[l].calls = {}
  /\ loads[l].pos <= Len(loads[l].qs)
  /\ LET q == loads[l].qs[loads[l].pos]
     IN  Step(l, [loads[l] EXCEPT
           !.pos = @ + 1, !.at = q, !.objs = Answer(loads[l].qs, q),
           !.calls = {o \in Objects \cup {0} : Awaits(o, q)}])
  /\ UNCHANGED <<denied, queue, shared, given, error>>

(* thenAccept: give the children to the parent, then resolve them.         *)
Assign(l) ==
  /\ loads[l].st = "next"
  /\ \E o \in loads[l].calls :
       LET f == loads[l].at.field
           children == loads[l].objs
           tooMany == f # "root" /\ f \notin Many /\ Cardinality(children) > 1
           stop == tooMany \/ children = {}
       IN  /\ given' = IF tooMany THEN given
                       ELSE [given EXCEPT ![<<o, f>>] = children]
           /\ error' = (error \/ tooMany)
           /\ Step(l, [loads[l] EXCEPT
                !.calls = @ \ {o}, !.st = IF stop THEN "next" ELSE "resolve",
                !.todo = IF stop THEN <<>> ELSE Select[f]])
  /\ UNCHANGED <<denied, queue, shared>>

(* The children that have a key for the field. *)
Keyed(objs, f) == {o \in objs : KeyOf[<<o, f>>] # NoKey}

(* A slip: resolve without validateSecurity. *)
ResolveUnchecked(l) ==
  /\ loads[l].st = "resolve"
  /\ LET todo == loads[l].todo
     IN  Step(l, IF todo = <<>> THEN [loads[l] EXCEPT !.st = "next"]
              ELSE [loads[l] EXCEPT !.st = "enqueue", !.turn = @ + 1,
                                    !.kids = Keyed(loads[l].objs, Head(todo))])
  /\ UNCHANGED <<denied, queue, shared, given, error>>

(* resolve: no field is left, or validateSecurity throws, or the children  *)
(* that have a key for the next field get their queries.                   *)
Resolve(l) ==
  /\ loads[l].st = "resolve"
  /\ LET todo == loads[l].todo
         stop == todo = <<>> \/ Head(todo) \in denied
     IN  /\ error' = (error \/ (todo # <<>> /\ stop))
         /\ Step(l, IF stop THEN [loads[l] EXCEPT !.st = "next"]
              ELSE [loads[l] EXCEPT !.st = "enqueue", !.turn = @ + 1,
                                    !.kids = Keyed(loads[l].objs, Head(todo))])
  /\ UNCHANGED <<denied, queue, shared, given>>

(* The loads that the load waits for have run their callbacks.             *)
Waited(l) == \A m \in loads[l].wait : loads[m].st = "done"

(* The child is next, in the order of the rows: that of their keys.        *)
IsNext(l, o) ==
  /\ loads[l].st = "enqueue" /\ Waited(l)
  /\ o \in loads[l].kids /\ \A p \in loads[l].kids : o <= p

(* The query that this call of traverseJoin builds for a child.            *)
Built(l, o) == Query(o, Head(loads[l].todo), <<l, loads[l].turn>>)

(* dataLoader.load for a child whose hash code is new to the cache.        *)
Enqueue(l) ==
  /\ \E o \in loads[l].kids :
       /\ IsNext(l, o)
       /\ queue' = Append(queue, Built(l, o))
       /\ Step(l, [loads[l] EXCEPT !.kids = @ \ {o}])
  /\ UNCHANGED <<denied, shared, given, error>>

(* A query is in the queue, or in a load that has yet to answer it.        *)
Due(q) ==
  \/ q \in ToSet(queue)
  \/ \E m \in DOMAIN loads :
       /\ loads[m].st # "done"
       /\ \E i \in DOMAIN loads[m].qs : i >= loads[m].pos /\ loads[m].qs[i] = q

(* dataLoader.load for a child whose hash code is that of a sibling: it    *)
(* waits with the sibling                                                  *)
Share(l) ==
  /\ \E o \in loads[l].kids \cap Clashing, p \in loads[l].objs :
       /\ IsNext(l, o) /\ Due(Built(l, p))
       /\ shared' = shared \cup {[obj |-> o, query |-> Built(l, p)]}
       /\ Step(l, [loads[l] EXCEPT !.kids = @ \ {o}])
  /\ UNCHANGED <<denied, queue, given, error>>

(* or is called back at once, in this thread, when that has its answer.    *)
ShareAnswer(l) ==
  /\ \E o \in loads[l].kids \cap Clashing, p \in loads[l].objs, m \in DOMAIN loads :
       LET q == Built(l, p)
       IN  /\ IsNext(l, o)
           /\ \E i \in DOMAIN loads[m].qs : i < loads[m].pos /\ loads[m].qs[i] = q
           /\ shared' = shared \cup {[obj |-> o, query |-> q]}
           /\ loads' = [loads EXCEPT ![l].kids = @ \ {o}, ![l].wait = {Len(loads) + 1}]
                \o <<[Load(<<q>>) EXCEPT !.qs = <<>>, !.st = "next", !.calls = {o},
                                         !.objs = Answer(loads[m].qs, q)]>>
  /\ UNCHANGED <<denied, queue, given, error>>

(* A slip: everything in one batch. *)
BatchesWhole(qs) == IF qs = <<>> THEN <<>> ELSE <<Load(qs)>>

Batches(qs) ==
  [i \in 1 .. (Len(qs) + MaxBatch - 1) \div MaxBatch |->
     Load(SubSeq(qs, (i - 1) * MaxBatch + 1,
                 IF i * MaxBatch < Len(qs) THEN i * MaxBatch ELSE Len(qs)))]

(* A slip: dispatch without join. *)
DispatchOnly(l) ==
  /\ loads[l].st = "enqueue" /\ loads[l].kids = {}
  /\ queue' = <<>>
  /\ loads' = [loads EXCEPT ![l].st = "join", ![l].wait = {}] \o Batches(queue)
  /\ UNCHANGED <<denied, shared, given, error>>

(* dispatchAndJoin: whatever the queue holds by now, others' queries too;  *)
(* and again, while it holds something when all that is answered.          *)
Dispatch(l) ==
  /\ \/ loads[l].st = "enqueue" /\ loads[l].kids = {}
     \/ loads[l].st = "join" /\ queue # <<>>
  /\ Waited(l)
  /\ queue' = <<>>
  /\ loads' = [loads EXCEPT
        ![l].st = "join",
        ![l].wait = Len(loads) + 1 .. Len(loads) + Len(Batches(queue))]
      \o Batches(queue)
  /\ UNCHANGED <<denied, shared, given, error>>

Join(l) ==
  /\ loads[l].st = "join" /\ Waited(l) /\ queue = <<>>
  /\ Step(l, [loads[l] EXCEPT !.st = "resolve", !.todo = Tail(@)])
  /\ UNCHANGED <<denied, queue, shared, given, error>>

(* All callbacks of the batch have run; of the first, the request's answer *)
(* is there, or its exception.                                             *)
Finish(l) ==
  /\ loads[l].st = "next" /\ loads[l].calls = {}
  /\ loads[l].pos > Len(loads[l].qs)
  /\ Step(l, [loads[l] EXCEPT !.st = "done"])
  /\ UNCHANGED <<denied, queue, shared, given, error>>

LoadStep(l) ==
  \/ Loaded(l) \/ LoadFails(l) \/ Complete(l) \/ Assign(l) \/ Resolve(l)
  \/ Enqueue(l) \/ Share(l) \/ ShareAnswer(l) \/ Dispatch(l) \/ Join(l)
  \/ Finish(l)

Next == \E l \in DOMAIN loads : LoadStep(l)

Spec == Init /\ [][Next]_vars

(* The threads of the pool run, and a statement that is sent ends.         *)
FairSpec == Spec /\ WF_vars(Next)
-----------------------------------------------------------------------------
Returned == loads[1].st = "done"

(* What the schema says: the children of an object under a field.          *)
Children(o, f) ==
  {r.obj : r \in {t \in Table[f] : f = "root" \/ t.key[1] = KeyOf[<<o, f>>][1]}}

(* An object under a field was selected, and has a key to select with.     *)
Wanted(o, f) ==
  \E p \in Objects \cup {0}, g \in Fields :
    /\ given[<<p, g>>] # Unset /\ o \in given[<<p, g>>]
    /\ f \in ToSet(Select[g]) /\ KeyOf[<<o, f>>] # NoKey

TypeOK ==
  /\ denied \in Denials
  /\ queue \in Seq([obj : Objects, field : Fields, call : Nat \X Nat])
  /\ error \in BOOLEAN
  /\ \A s \in shared : s.obj \in Clashing /\ s.query.field \in Fields
  /\ \A p \in DOMAIN given : given[p] = Unset \/ given[p] \subseteq Objects
  /\ \A l \in DOMAIN loads :
       /\ loads[l].st \in {"loading", "next", "resolve", "enqueue", "join", "done"}
       /\ Len(loads[l].qs) \in 0 .. MaxBatch
       /\ loads[l].wait \subseteq (l + 1) .. Len(loads)

(* When the request's thread returns without an exception, no query is     *)
(* left behind: every selected field of every object in the answer has its *)
(* children or its null, whichever thread's dispatch took the query, and   *)
(* no thread of the pool still changes the answer.                         *)
NothingIsLeft ==
  Returned /\ ~error =>
    /\ queue = <<>>
    /\ \A l \in DOMAIN loads : loads[l].st = "done"
    /\ \A o \in Objects, f \in Fields :
         Wanted(o, f) => given[<<o, f>>] # Unset

OneCollection(qs) == \A i \in DOMAIN qs : qs[i].field = Head(qs).field

(* The queries sent whose futures the object has for the field.            *)
Sent(o, f) ==
  {q \in UNION {ToSet(loads[l].qs) : l \in DOMAIN loads} : q.field = f /\ Awaits(o, q)}

(* Java finds the keys equal that SQL does.                                *)
Comparable(o, f) ==
  f = "root" \/ \A r \in Table[f] : r.key[1] = KeyOf[<<o, f>>][1] => r.key = KeyOf[<<o, f>>]

(* What loads for one collection give to an object is what the keys say of *)
(* the query it was given by: its own, for a batch of one query as for one *)
(* of many, whatever the other loads do meanwhile; or the sibling's, if    *)
(* the hash codes of their conditions clash.  A load that mixes            *)
(* collections spoils its own objects only.                                *)
AnswerIsTheJoin ==
  \A o \in Objects \cup {0}, f \in Fields :
    /\ given[<<o, f>>] # Unset
    /\ \A q \in Sent(o, f) : Comparable(q.obj, f)
    /\ \A l \in DOMAIN loads :
         ToSet(loads[l].qs) \cap Sent(o, f) # {} => OneCollection(loads[l].qs)
    => \E q \in Sent(o, f) : given[<<o, f>>] = Children(q.obj, f)

(* A field that may not be read gives nothing, in any thread, and makes    *)
(* the request fail.                                                       *)
DeniedIsNotGiven ==
  \A p \in DOMAIN given : p[2] \in denied =>
    /\ given[p] = Unset
    /\ Returned /\ (\E g \in Fields : p[2] \in ToSet(Select[g]) /\
          \E q \in DOMAIN given : q[2] = g /\ given[q] \notin {Unset, {}})
         => error

(* "Every Query object within a single load call will target the same      *)
(* Collection" (README.md:80).  With more parents than a batch holds, two  *)
(* threads resolve children at once, and the dispatch of one takes what    *)
(* the other has queued so far.                                            *)
OneCollectionPerLoad == \A l \in DOMAIN loads : OneCollection(loads[l].qs)

(* The request returns. *)
RequestEnds == <>Returned
=============================================================================
