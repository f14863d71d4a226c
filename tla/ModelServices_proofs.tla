------------------------ MODULE ModelServices_proofs ------------------------
(* Proofs about ModelServices, for any nodes, requests and versions. *)
EXTENDS ModelServices, TLAPS

-----------------------------------------------------------------------------
(* The parts of the inductive invariant *)

(* A thread that carries an SDL carries one that the model service had. *)
CarriedBy(a) ==
  /\ sdl[a] <= version
  /\ pc[a] \in {"service", "schema"} => sdl[a] >= 1

(* A request is done once it has answered, and a refresh carries an SDL    *)
(* that was current since it arrived.                                      *)
Asked(r) ==
  /\ seen[r] <= version
  /\ answer[r] # "none" => pc[r] = "done"
  /\ kind[r] = "refresh" =>
       /\ pc[r] \notin {"cached", "execute"}
       /\ pc[r] \in {"service", "schema"} \/ answer[r] = "sdl" => sdl[r] >= seen[r]

(* The maps hold what the model service had. *)
Kept(n) ==
  /\ pc[n] \in {"idle", "fetch", "service", "schema"}
  /\ services[n] <= version /\ schemas[n] <= version

Carried ==
  /\ version >= 1
  /\ \A a \in Actors : CarriedBy(a)
  /\ \A r \in Requests : Asked(r)
  /\ \A n \in Nodes : Kept(n)

(* While no two fillers of a node have been at work at once: the filler    *)
(* that is holds nothing older than the maps, and leaves them equal.       *)
Alone ==
  \A n \in Nodes : ~crossed[n] =>
    /\ \A a, b \in Filling(n) : a = b
    /\ Filling(n) = {} => services[n] = schemas[n]
    /\ \A a \in Filling(n) :
         /\ services[n] <= sdl[a]
         /\ pc[a] = "service" => services[n] = schemas[n]
         /\ pc[a] = "schema" => services[n] = sdl[a]

(* What a node has consumed it has put, or its consumer is about to.       *)
Reached(n, i) ==
  \/ announced[i] <= services[n]
  \/ i = taken[n] /\ pc[n] = "fetch"
  \/ pc[n] = "service" /\ announced[i] <= sdl[n]

Followed ==
  /\ \A i \in 1..Len(announced) : announced[i] <= version
  /\ \A n \in Nodes :
       /\ taken[n] <= Len(announced)
       /\ ~crossed[n] => \A i \in 1..taken[n] : Reached(n, i)

-----------------------------------------------------------------------------
(* A node is an actor, and a request is not a node. *)
LEMMA ActorTypes ==
  ASSUME TypeOK
  PROVE  /\ \A a \in Actors : Where(a) \in Nodes
         /\ \A r \in Requests : r \in Actors /\ r \notin Nodes /\ Where(r) = at[r]
         /\ \A n \in Nodes : n \in Actors /\ n \notin Requests /\ Where(n) = n
  BY ModelAssumption DEF TypeOK, Actors, Where

(* What End does, for a consumer and for a request. *)
LEMMA EndMeans ==
  ASSUME TypeOK, NEW a \in Actors, NEW from \in PCs, NEW how \in Answers,
         End(a, from, how)
  PROVE  /\ pc[a] = from
         /\ pc' \in [Actors -> PCs] /\ answer' \in [Requests -> Answers]
         /\ \A b \in Actors : b # a => pc'[b] = pc[b]
         /\ \A r \in Requests : r # a => answer'[r] = answer[r]
         /\ a \in Nodes => pc'[a] = "idle"
         /\ a \in Requests => pc'[a] = "done" /\ answer'[a] = how
<1>1. "idle" \in PCs /\ "done" \in PCs
  BY DEF PCs
<1>2. pc \in [Actors -> PCs] /\ answer \in [Requests -> Answers]
  BY DEF TypeOK
<1>3. pc[a] = from
  BY DEF End, Goto
<1>4. CASE a \in Nodes
  <2>1. pc' = [pc EXCEPT ![a] = "idle"] /\ answer' = answer
    BY <1>4 DEF End, Goto
  <2>2. a \notin Requests
    BY <1>4, ModelAssumption
  <2>3. QED
    BY <1>1, <1>2, <1>3, <1>4, <2>1, <2>2
<1>5. CASE a \notin Nodes
  <2>1. pc' = [pc EXCEPT ![a] = "done"] /\ answer' = [answer EXCEPT ![a] = how]
    BY <1>5 DEF End, Goto
  <2>2. a \in Requests
    BY <1>5 DEF Actors
  <2>3. QED
    BY <1>1, <1>2, <1>3, <1>5, <2>1, <2>2
<1>6. QED
  BY <1>4, <1>5

(* The variables keep their types. *)
LEMMA TypeStep ==
  ASSUME TypeOK, [Next]_vars
  PROVE  TypeOK'
<1> USE ActorTypes, ModelAssumption DEF TypeOK, Goto, PCs, Answers
<1>1. CASE ModelChanges
  BY <1>1 DEF ModelChanges
<1>2. ASSUME NEW r \in Requests, Arrive(r)
      PROVE  TypeOK'
  <2>1. \E to \in PCs : pc' = [pc EXCEPT ![r] = to]
    BY <1>2 DEF Arrive
  <2>2. QED
    BY <1>2, <2>1 DEF Arrive
<1>3. ASSUME NEW r \in Requests, Announce(r)
      PROVE  TypeOK'
  <2>1. pc' \in [Actors -> PCs]
    BY <1>3 DEF Announce
  <2>2. announced' \in Seq(Nat)
    BY <1>3 DEF Announce
  <2>3. QED
    BY <1>3, <2>1, <2>2, Zenon DEF Announce
<1>4. ASSUME NEW r \in Requests, ReadCached(r)
      PROVE  TypeOK'
  <2>1. pc' \in [Actors -> PCs] /\ answer' \in [Requests -> Answers]
    BY <1>4, EndMeans DEF ReadCached
  <2>2. QED
    BY <1>4, <2>1 DEF ReadCached
<1>5. ASSUME NEW r \in Requests, Execute(r)
      PROVE  TypeOK'
  <2>1. pc' \in [Actors -> PCs] /\ answer' \in [Requests -> Answers]
    BY <1>5, EndMeans DEF Execute
  <2>2. QED
    BY <1>5, <2>1 DEF Execute
<1>6. ASSUME NEW r \in Requests, ExecuteWithErrors(r)
      PROVE  TypeOK'
  BY <1>6 DEF ExecuteWithErrors
<1>7. ASSUME NEW a \in Actors, Fetch(a)
      PROVE  TypeOK'
  BY <1>7 DEF Fetch
<1>8. ASSUME NEW a \in Actors, Fails(a)
      PROVE  TypeOK'
  <2>1. PICK from \in {"announce", "fetch"} : End(a, from, "error")
    BY <1>8 DEF Fails
  <2>2. pc' \in [Actors -> PCs] /\ answer' \in [Requests -> Answers]
    BY <2>1, EndMeans
  <2>3. QED
    BY <1>8, <2>2 DEF Fails
<1>9. ASSUME NEW a \in Actors, PutService(a)
      PROVE  TypeOK'
  BY <1>9 DEF PutService
<1>10. ASSUME NEW a \in Actors, PutSchema(a)
       PROVE  TypeOK'
  <2>1. pc' \in [Actors -> PCs] /\ answer' \in [Requests -> Answers]
    BY <1>10, EndMeans DEF PutSchema
  <2>2. QED
    BY <1>10, <2>1 DEF PutSchema
<1>11. ASSUME NEW n \in Nodes, Consume(n)
       PROVE  TypeOK'
  <2>1. taken' \in [Nodes -> Nat]
    BY <1>11 DEF Consume
  <2>2. pc' \in [Actors -> PCs]
    BY <1>11 DEF Consume
  <2>3. QED
    BY <1>11, <2>1, <2>2 DEF Consume
<1>12. CASE UNCHANGED vars
  BY <1>12 DEF vars
<1>13. QED
  BY <1>1, <1>2, <1>3, <1>4, <1>5, <1>6, <1>7, <1>8, <1>9, <1>10, <1>11, <1>12
     DEF Next, RequestStep, ActorStep

(* The maps hold versions, the threads are at steps the code has. *)
THEOREM TypeCorrect == Spec => []TypeOK
<1>1. Init => TypeOK
  BY DEF Init, TypeOK, Kinds, PCs, Answers
<1>2. QED
  BY <1>1, TypeStep, PTL DEF Spec

-----------------------------------------------------------------------------
(* A step of actor a leaves the other actors alone. *)
Alike(a) ==
  /\ \A b \in Actors : b # a => pc'[b] = pc[b] /\ sdl'[b] = sdl[b]
  /\ \A r \in Requests : r # a => answer'[r] = answer[r] /\ seen'[r] = seen[r]
  /\ version' = version /\ kind' = kind /\ at' = at

(* What the step of an actor changes, and what it finds.                   *)
LEMMA ArriveMeans ==
  ASSUME TypeOK, NEW r \in Requests, Arrive(r)
  PROVE  /\ Alike(r) /\ pc[r] = "idle"
         /\ \/ kind[r] = "refresh" /\ pc'[r] = "announce"
            \/ kind[r] # "refresh" /\ pc'[r] = "fetch"
            \/ kind[r] = "get" /\ services[at[r]] # 0 /\ pc'[r] = "cached"
            \/ kind[r] = "post" /\ services[at[r]] # 0 /\ pc'[r] = "execute"
         /\ seen'[r] = version /\ answer' = answer /\ sdl' = sdl
         /\ services' = services /\ schemas' = schemas
<1>1. /\ \A b \in Actors : b # r => pc'[b] = pc[b]
      /\ pc[r] = "idle"
      /\ \/ kind[r] = "refresh" /\ pc'[r] = "announce"
         \/ kind[r] # "refresh" /\ pc'[r] = "fetch"
         \/ kind[r] = "get" /\ services[at[r]] # 0 /\ pc'[r] = "cached"
         \/ kind[r] = "post" /\ services[at[r]] # 0 /\ pc'[r] = "execute"
  BY DEF TypeOK, Arrive, Goto, Actors
<1>2. QED
  BY <1>1 DEF TypeOK, Arrive, Alike

LEMMA EndingMeans ==
  ASSUME TypeOK, NEW a \in Actors, NEW from \in PCs, NEW how \in Answers,
         End(a, from, how), NEW v,
         sdl' = [sdl EXCEPT ![a] = v] \/ sdl' = sdl,
         version' = version, kind' = kind, at' = at, seen' = seen
  PROVE  Alike(a)
  BY EndMeans DEF Alike, TypeOK

LEMMA GoingMeans ==
  ASSUME TypeOK, NEW a \in Actors, NEW from, NEW to, NEW v,
         Goto(a, from, to), sdl' = [sdl EXCEPT ![a] = v] \/ sdl' = sdl,
         version' = version, kind' = kind, at' = at, seen' = seen, answer' = answer
  PROVE  Alike(a) /\ pc[a] = from /\ pc'[a] = to
  BY DEF Alike, TypeOK, Goto

(* Carried survives the step of an actor that keeps its own part of it.    *)
LEMMA CarriedAlike ==
  ASSUME TypeOK, Carried, NEW a \in Actors, Alike(a), CarriedBy(a)',
         a \in Requests => Asked(a)',
         a \in Nodes => pc'[a] \in {"idle", "fetch", "service", "schema"},
         \A n \in Nodes : services'[n] <= version /\ schemas'[n] <= version
  PROVE  Carried'
<1>1. \A b \in Actors : CarriedBy(b)'
  BY DEF Carried, CarriedBy, Alike
<1>2. \A r \in Requests : Asked(r)'
  BY ActorTypes DEF Carried, Asked, Alike
<1>3. \A n \in Nodes : Kept(n)'
  BY ActorTypes DEF Carried, Kept, Alike
<1>4. QED
  BY <1>1, <1>2, <1>3 DEF Carried, Alike

(* No step breaks Carried: only Fetch gives a thread an SDL, the current   *)
(* one, and a thread that has answered takes no step.                      *)
LEMMA CarriedStep ==
  ASSUME TypeOK, Carried, [Next]_vars
  PROVE  Carried'
<1>0. /\ \A a \in Actors : CarriedBy(a)
      /\ \A r \in Requests : Asked(r)
      /\ \A n \in Nodes : Kept(n)
      /\ \A n \in Nodes : services[n] <= version /\ schemas[n] <= version
      /\ version \in Nat /\ version >= 1
  BY DEF Carried, Kept, TypeOK
<1>1. CASE ModelChanges
  BY <1>1 DEF ModelChanges, TypeOK, Carried, CarriedBy, Asked, Kept
<1>2. ASSUME NEW r \in Requests, Arrive(r)
      PROVE  Carried'
  <2>1. CarriedBy(r)' /\ Asked(r)' /\ Alike(r)
    BY <1>0, <1>2, ArriveMeans, ActorTypes DEF CarriedBy, Asked, Alike
  <2>2. QED
    BY <1>0, <1>2, <2>1, ArriveMeans, ActorTypes, CarriedAlike
<1>3. ASSUME NEW r \in Requests, Announce(r)
      PROVE  Carried'
  <2>1. Alike(r) /\ pc[r] = "announce" /\ pc'[r] = "fetch"
    BY <1>3, GoingMeans, ActorTypes DEF Announce
  <2>2. CarriedBy(r)' /\ Asked(r)'
    BY <1>0, <1>3, <2>1, ActorTypes DEF Announce, CarriedBy, Asked, Alike
  <2>3. QED
    BY <1>0, <1>3, <2>1, <2>2, ActorTypes, CarriedAlike DEF Announce
<1>4. ASSUME NEW r \in Requests, ReadCached(r)
      PROVE  Carried'
  <2>1. /\ Alike(r) /\ pc[r] = "cached" /\ pc'[r] = "done"
        /\ answer'[r] \in {"empty", "sdl"} /\ sdl'[r] = schemas[at[r]]
    <3>1. "cached" \in PCs /\ "empty" \in Answers /\ "sdl" \in Answers
      BY DEF PCs, Answers
    <3>2. QED
      BY <1>4, <3>1, EndMeans, EndingMeans, ActorTypes DEF ReadCached, TypeOK
  <2>2. CarriedBy(r)' /\ Asked(r)'
    BY <1>0, <1>4, <2>1, ActorTypes DEF ReadCached, CarriedBy, Asked, Alike, TypeOK
  <2>3. QED
    BY <1>0, <1>4, <2>1, <2>2, ActorTypes, CarriedAlike DEF ReadCached
<1>5. ASSUME NEW r \in Requests, Execute(r)
      PROVE  Carried'
  <2>1. /\ Alike(r) /\ pc[r] = "execute" /\ pc'[r] = "done"
        /\ answer'[r] \in {"data", "error"} /\ sdl'[r] = services[at[r]]
    <3>1. "execute" \in PCs /\ "data" \in Answers /\ "error" \in Answers
      BY DEF PCs, Answers
    <3>2. QED
      BY <1>5, <3>1, EndMeans, EndingMeans, ActorTypes DEF Execute, TypeOK
  <2>2. CarriedBy(r)' /\ Asked(r)'
    BY <1>0, <1>5, <2>1, ActorTypes DEF Execute, CarriedBy, Asked, Alike, TypeOK
  <2>3. QED
    BY <1>0, <1>5, <2>1, <2>2, ActorTypes, CarriedAlike DEF Execute
<1>6. ASSUME NEW r \in Requests, ExecuteWithErrors(r)
      PROVE  Carried'
  <2>1. Alike(r) /\ pc[r] = "execute" /\ pc'[r] = "hung"
    BY <1>6, GoingMeans, ActorTypes DEF ExecuteWithErrors
  <2>2. CarriedBy(r)' /\ Asked(r)'
    BY <1>0, <1>6, <2>1, ActorTypes DEF ExecuteWithErrors, CarriedBy, Asked, Alike
  <2>3. QED
    BY <1>0, <1>6, <2>1, <2>2, ActorTypes, CarriedAlike DEF ExecuteWithErrors
<1>7. ASSUME NEW a \in Actors, Fetch(a)
      PROVE  Carried'
  <2>1. Alike(a) /\ pc[a] = "fetch" /\ pc'[a] = "service" /\ sdl'[a] = version
    BY <1>7, GoingMeans DEF Fetch, TypeOK
  <2>2. CarriedBy(a)' /\ (a \in Requests => Asked(a)')
    BY <1>0, <1>7, <2>1 DEF Fetch, CarriedBy, Asked, Alike, TypeOK
  <2>3. QED
    BY <1>0, <1>7, <2>1, <2>2, CarriedAlike DEF Fetch
<1>8. ASSUME NEW a \in Actors, Fails(a)
      PROVE  Carried'
  <2>1. /\ Alike(a)
        /\ a \in Nodes => pc'[a] = "idle"
        /\ a \in Requests => pc'[a] = "done" /\ answer'[a] = "error"
    <3>1. PICK from \in {"announce", "fetch"} : End(a, from, "error")
      BY <1>8 DEF Fails
    <3>2. from \in PCs /\ "error" \in Answers
      BY DEF PCs, Answers
    <3>3. QED
      BY <1>8, <3>1, <3>2, EndMeans, EndingMeans DEF Fails
  <2>2. CarriedBy(a)' /\ (a \in Requests => Asked(a)')
    BY <1>0, <1>8, <2>1 DEF Fails, CarriedBy, Asked, Alike, Actors
  <2>3. QED
    BY <1>0, <1>8, <2>1, <2>2, CarriedAlike DEF Fails
<1>9. ASSUME NEW a \in Actors, PutService(a)
      PROVE  Carried'
  <2>1. Alike(a) /\ pc[a] = "service" /\ pc'[a] = "schema"
    BY <1>9, GoingMeans DEF PutService
  <2>2. CarriedBy(a)' /\ (a \in Requests => Asked(a)')
    BY <1>0, <1>9, <2>1 DEF PutService, CarriedBy, Asked, Alike
  <2>3. \A n \in Nodes : services'[n] <= version /\ schemas'[n] <= version
    BY <1>0, <1>9 DEF PutService, TypeOK, CarriedBy
  <2>4. QED
    BY <2>1, <2>2, <2>3, CarriedAlike
<1>10. ASSUME NEW a \in Actors, PutSchema(a)
       PROVE  Carried'
  <2>1. /\ Alike(a) /\ pc[a] = "schema"
        /\ a \in Nodes => pc'[a] = "idle"
        /\ a \in Requests => \/ pc'[a] = "done"
                             \/ kind[a] = "post" /\ pc'[a] = "execute" /\ answer' = answer
    <3>1. "schema" \in PCs /\ "sdl" \in Answers
      BY DEF PCs, Answers
    <3>2. CASE a \in Requests /\ kind[a] = "post"
      BY <1>10, <3>2, GoingMeans, ActorTypes DEF PutSchema
    <3>3. CASE ~(a \in Requests /\ kind[a] = "post")
      BY <1>10, <3>1, <3>3, EndMeans, EndingMeans DEF PutSchema
    <3>4. QED
      BY <3>2, <3>3
  <2>2. CarriedBy(a)' /\ (a \in Requests => Asked(a)')
    BY <1>0, <1>10, <2>1 DEF PutSchema, CarriedBy, Asked, Alike, Actors
  <2>3. \A n \in Nodes : services'[n] <= version /\ schemas'[n] <= version
    BY <1>0, <1>10 DEF PutSchema, TypeOK, CarriedBy
  <2>4. QED
    BY <2>1, <2>2, <2>3, CarriedAlike
<1>11. ASSUME NEW n \in Nodes, Consume(n)
       PROVE  Carried'
  <2>1. Alike(n) /\ pc[n] = "idle" /\ pc'[n] = "fetch"
    BY <1>11, GoingMeans, ActorTypes DEF Consume
  <2>2. CarriedBy(n)'
    BY <1>0, <1>11, <2>1, ActorTypes DEF Consume, CarriedBy, Alike
  <2>3. QED
    BY <1>0, <1>11, <2>1, <2>2, ActorTypes, CarriedAlike DEF Consume
<1>12. CASE UNCHANGED vars
  BY <1>12 DEF vars, Carried, CarriedBy, Asked, Kept
<1>13. QED
  BY <1>1, <1>2, <1>3, <1>4, <1>5, <1>6, <1>7, <1>8, <1>9, <1>10, <1>11, <1>12
     DEF Next, RequestStep, ActorStep, Actors

(* What the consumer of node n does when it receives an announcement. *)
Takes(n) ==
  /\ taken[n] < Len(announced) /\ taken'[n] = taken[n] + 1
  /\ pc[n] = "idle" /\ pc'[n] = "fetch" /\ announced' = announced

(* A step that leaves the maps alone, and every filler where it is. *)
Undisturbed ==
  /\ services' = services /\ schemas' = schemas
  /\ at' = at
  /\ \A n \in Nodes : crossed[n] = TRUE => crossed'[n] = TRUE
  /\ \A a \in Actors : pc'[a] \in {"service", "schema"} <=> pc[a] \in {"service", "schema"}
  /\ \A a \in Actors : pc[a] \in {"service", "schema"} =>
       pc'[a] = pc[a] /\ sdl'[a] = sdl[a]
  /\ \A n \in Nodes :
       \/ Takes(n)
       \/ taken'[n] = taken[n] /\ (pc'[n] = pc[n] \/ crossed'[n] = TRUE)

(* Only fetching and the two puts disturb the maps and their fillers.      *)
LEMMA OthersUndisturbed ==
  ASSUME TypeOK, [Next]_vars,
         ~ \E a \in Actors : Fetch(a) \/ PutService(a) \/ PutSchema(a)
  PROVE  Undisturbed
<1>1. CASE ModelChanges \/ UNCHANGED vars
  BY <1>1 DEF ModelChanges, vars, Undisturbed
<1>2. ASSUME NEW r \in Requests, Arrive(r)
      PROVE  Undisturbed
  BY <1>2, ArriveMeans, ActorTypes DEF Undisturbed, Alike, Arrive
<1>3. ASSUME NEW r \in Requests, Announce(r)
      PROVE  Undisturbed
  <2>1. Alike(r) /\ pc[r] = "announce" /\ pc'[r] = "fetch"
    BY <1>3, GoingMeans, ActorTypes DEF Announce
  <2>2. QED
    BY <1>3, <2>1, ActorTypes DEF Undisturbed, Alike, Announce
<1>4. ASSUME NEW r \in Requests, ReadCached(r)
      PROVE  Undisturbed
  <2>1. Alike(r) /\ pc[r] = "cached" /\ pc'[r] = "done"
    <3>1. "cached" \in PCs /\ "empty" \in Answers /\ "sdl" \in Answers
      BY DEF PCs, Answers
    <3>2. QED
      BY <1>4, <3>1, EndMeans, EndingMeans, ActorTypes DEF ReadCached
  <2>2. QED
    BY <1>4, <2>1, ActorTypes DEF Undisturbed, Alike, ReadCached
<1>5. ASSUME NEW r \in Requests, Execute(r)
      PROVE  Undisturbed
  <2>1. Alike(r) /\ pc[r] = "execute" /\ pc'[r] = "done"
    <3>1. "execute" \in PCs /\ "data" \in Answers /\ "error" \in Answers
      BY DEF PCs, Answers
    <3>2. QED
      BY <1>5, <3>1, EndMeans, EndingMeans, ActorTypes DEF Execute
  <2>2. QED
    BY <1>5, <2>1, ActorTypes DEF Undisturbed, Alike, Execute
<1>6. ASSUME NEW r \in Requests, ExecuteWithErrors(r)
      PROVE  Undisturbed
  <2>1. Alike(r) /\ pc[r] = "execute" /\ pc'[r] = "hung"
    BY <1>6, GoingMeans, ActorTypes DEF ExecuteWithErrors
  <2>2. QED
    BY <1>6, <2>1, ActorTypes DEF Undisturbed, Alike, ExecuteWithErrors
<1>7. ASSUME NEW a \in Actors, Fails(a)
      PROVE  Undisturbed
  <2>1. Alike(a) /\ pc[a] \in {"announce", "fetch"} /\ pc'[a] \in {"idle", "done"}
    <3>1. PICK from \in {"announce", "fetch"} : End(a, from, "error")
      BY <1>7 DEF Fails
    <3>2. from \in PCs /\ "error" \in Answers
      BY DEF PCs, Answers
    <3>3. QED
      BY <1>7, <3>1, <3>2, EndMeans, EndingMeans DEF Fails, Actors
  <2>2. \A n \in Nodes : /\ crossed[n] = TRUE => crossed'[n] = TRUE
                         /\ n = a => crossed'[n] = TRUE
    BY <1>7, ActorTypes DEF Fails, TypeOK
  <2>3. taken' = taken /\ services' = services /\ schemas' = schemas /\ at' = at
    BY <1>7 DEF Fails
  <2>4. \A n \in Nodes : n # a => n \in Actors /\ pc'[n] = pc[n]
    BY <2>1, ActorTypes DEF Alike
  <2>5. ASSUME NEW n \in Nodes
        PROVE  taken'[n] = taken[n] /\ (pc'[n] = pc[n] \/ crossed'[n] = TRUE)
    <3>1. CASE n = a
      <4>1. crossed'[n] = TRUE
        BY <2>2, <3>1, Zenon
      <4>2. taken'[n] = taken[n]
        BY <2>3, Zenon
      <4>3. QED
        BY <4>1, <4>2, Zenon
    <3>2. CASE n # a
      BY <2>3, <2>4, <3>2
    <3>3. QED
      BY <3>1, <3>2
  <2>6. sdl' = sdl
    BY <1>7 DEF Fails
  <2>7. \A b \in Actors :
          /\ pc'[b] \in {"service", "schema"} <=> pc[b] \in {"service", "schema"}
          /\ pc[b] \in {"service", "schema"} => pc'[b] = pc[b] /\ sdl'[b] = sdl[b]
    BY <2>1, <2>6 DEF Alike
  <2>8. QED
    BY <2>2, <2>3, <2>5, <2>7, Zenon DEF Undisturbed
<1>8. ASSUME NEW n \in Nodes, Consume(n)
      PROVE  Undisturbed
  <2>1. Alike(n) /\ pc[n] = "idle" /\ pc'[n] = "fetch"
    BY <1>8, GoingMeans, ActorTypes DEF Consume
  <2>2. QED
    <3>1. \A m \in Nodes : m # n =>
            m \in Actors /\ pc'[m] = pc[m] /\ taken'[m] = taken[m]
      BY <1>8, <2>1, ActorTypes DEF Alike, Consume, TypeOK
    <3>2. Takes(n)
      BY <1>8, <2>1, ActorTypes DEF Consume, Takes, TypeOK
    <3>3. \A m \in Nodes :
            \/ Takes(m)
            \/ taken'[m] = taken[m] /\ (pc'[m] = pc[m] \/ crossed'[m] = TRUE)
      BY <3>1, <3>2 DEF Takes
    <3>4. QED
      BY <1>8, <2>1, <3>3 DEF Undisturbed, Alike, Consume
<1>9. QED
  BY <1>1, <1>2, <1>3, <1>4, <1>5, <1>6, <1>7, <1>8
     DEF Next, RequestStep, ActorStep, Actors

(* What fetching and the two puts do, actor by actor. *)
LEMMA FillingMeans ==
  ASSUME TypeOK, NEW a \in Actors
  PROVE  /\ Fetch(a) =>
              /\ Alike(a) /\ pc[a] = "fetch" /\ pc'[a] = "service"
              /\ sdl'[a] = version /\ services' = services /\ schemas' = schemas
              /\ \A n \in Nodes : crossed'[n] =
                   IF n = Where(a) THEN crossed[n] \/ Filling(n) # {} ELSE crossed[n]
         /\ PutService(a) =>
              /\ Alike(a) /\ pc[a] = "service" /\ pc'[a] = "schema"
              /\ sdl' = sdl /\ crossed' = crossed /\ schemas' = schemas
              /\ \A n \in Nodes : services'[n] =
                   IF n = Where(a) THEN sdl[a] ELSE services[n]
         /\ PutSchema(a) =>
              /\ Alike(a) /\ pc[a] = "schema"
              /\ pc'[a] \in {"idle", "done", "execute"}
              /\ sdl' = sdl /\ crossed' = crossed /\ services' = services
              /\ \A n \in Nodes : schemas'[n] =
                   IF n = Where(a) THEN sdl[a] ELSE schemas[n]
<1>1. ASSUME Fetch(a)
      PROVE  /\ Alike(a) /\ pc[a] = "fetch" /\ pc'[a] = "service"
             /\ sdl'[a] = version
             /\ \A n \in Nodes : crossed'[n] =
                  IF n = Where(a) THEN crossed[n] \/ Filling(n) # {} ELSE crossed[n]
  <2>1. Alike(a) /\ pc[a] = "fetch" /\ pc'[a] = "service" /\ sdl'[a] = version
    BY <1>1, GoingMeans DEF Fetch, TypeOK
  <2>2. QED
    BY <1>1, <2>1 DEF Fetch, TypeOK
<1>2. ASSUME PutService(a)
      PROVE  Alike(a) /\ pc[a] = "service" /\ pc'[a] = "schema"
  BY <1>2, GoingMeans DEF PutService
<1>3. ASSUME PutSchema(a)
      PROVE  Alike(a) /\ pc[a] = "schema" /\ pc'[a] \in {"idle", "done", "execute"}
  <2>1. "schema" \in PCs /\ "sdl" \in Answers
    BY DEF PCs, Answers
  <2>2. CASE a \in Requests /\ kind[a] = "post"
    BY <1>3, <2>2, GoingMeans DEF PutSchema
  <2>3. CASE ~(a \in Requests /\ kind[a] = "post")
    BY <1>3, <2>1, <2>3, EndMeans, EndingMeans DEF PutSchema, Actors
  <2>4. QED
    BY <2>2, <2>3
<1>4. QED
  BY <1>1, <1>2, <1>3 DEF Fetch, PutService, PutSchema, TypeOK

(* A filler that is alone on its node leaves both maps with its SDL. *)
LEMMA AloneStep ==
  ASSUME TypeOK, Carried, Alone, [Next]_vars
  PROVE  Alone'
<1>1. ASSUME NEW a \in Actors, Fetch(a)
      PROVE  Alone'
  <2> SUFFICES ASSUME NEW n \in Nodes, ~crossed'[n]
               PROVE  /\ \A b, c \in Filling(n)' : b = c
                      /\ Filling(n)' = {} => services'[n] = schemas'[n]
                      /\ \A b \in Filling(n)' :
                           /\ services'[n] <= sdl'[b]
                           /\ pc'[b] = "service" => services'[n] = schemas'[n]
                           /\ pc'[b] = "schema" => services'[n] = sdl'[b]
    BY DEF Alone
  <2>1. CASE n = Where(a)
    <3>1. Filling(n) = {} /\ ~crossed[n]
      BY <1>1, <2>1, FillingMeans
    <3>2. Filling(n)' = {a}
      BY <1>1, <2>1, <3>1, FillingMeans DEF Filling, Alike, Where
    <3>3. services[n] = schemas[n] /\ services[n] <= version
      BY <3>1 DEF Alone, Carried, Kept
    <3>4. QED
      BY <1>1, <3>2, <3>3, FillingMeans
  <2>2. CASE n # Where(a)
    <3>1. Filling(n)' = Filling(n) /\ a \notin Filling(n) /\ ~crossed[n]
      BY <1>1, <2>2, FillingMeans DEF Filling, Alike, Where
    <3>2. \A b \in Filling(n) : pc'[b] = pc[b] /\ sdl'[b] = sdl[b]
      BY <1>1, <3>1, FillingMeans DEF Filling, Alike
    <3>3. QED
      BY <1>1, <3>1, <3>2, FillingMeans DEF Alone
  <2>3. QED
    BY <2>1, <2>2
<1>2. ASSUME NEW a \in Actors, PutService(a)
      PROVE  Alone'
  <2> SUFFICES ASSUME NEW n \in Nodes, ~crossed'[n]
               PROVE  /\ \A b, c \in Filling(n)' : b = c
                      /\ Filling(n)' = {} => services'[n] = schemas'[n]
                      /\ \A b \in Filling(n)' :
                           /\ services'[n] <= sdl'[b]
                           /\ pc'[b] = "service" => services'[n] = schemas'[n]
                           /\ pc'[b] = "schema" => services'[n] = sdl'[b]
    BY DEF Alone
  <2>1. Filling(n)' = Filling(n) /\ ~crossed[n]
    BY <1>2, FillingMeans DEF Filling, Alike, Where
  <2>2. CASE n = Where(a)
    <3>1. a \in Filling(n)
      BY <1>2, <2>2, FillingMeans DEF Filling
    <3>2. \A b \in Filling(n) : b = a
      BY <2>1, <3>1 DEF Alone
    <3>3. sdl[a] \in Nat
      BY DEF TypeOK
    <3>4. QED
      BY <1>2, <2>1, <2>2, <3>1, <3>2, <3>3, FillingMeans
  <2>3. CASE n # Where(a)
    <3>1. \A b \in Filling(n) : pc'[b] = pc[b] /\ sdl'[b] = sdl[b]
      BY <1>2, <2>3, FillingMeans DEF Filling, Alike
    <3>2. QED
      BY <1>2, <2>1, <2>3, <3>1, FillingMeans DEF Alone
  <2>4. QED
    BY <2>2, <2>3
<1>3. ASSUME NEW a \in Actors, PutSchema(a)
      PROVE  Alone'
  <2> SUFFICES ASSUME NEW n \in Nodes, ~crossed'[n]
               PROVE  /\ \A b, c \in Filling(n)' : b = c
                      /\ Filling(n)' = {} => services'[n] = schemas'[n]
                      /\ \A b \in Filling(n)' :
                           /\ services'[n] <= sdl'[b]
                           /\ pc'[b] = "service" => services'[n] = schemas'[n]
                           /\ pc'[b] = "schema" => services'[n] = sdl'[b]
    BY DEF Alone
  <2>1. Filling(n)' = Filling(n) \ {a} /\ ~crossed[n]
    BY <1>3, FillingMeans DEF Filling, Alike, Where
  <2>2. CASE n = Where(a)
    <3>1. a \in Filling(n)
      BY <1>3, <2>2, FillingMeans DEF Filling
    <3>2. Filling(n)' = {} /\ services[n] = sdl[a]
      BY <1>3, <2>1, <3>1, FillingMeans DEF Alone
    <3>3. QED
      BY <1>3, <2>2, <3>2, FillingMeans
  <2>3. CASE n # Where(a)
    <3>1. a \notin Filling(n)
      BY <2>3 DEF Filling
    <3>2. \A b \in Filling(n) : pc'[b] = pc[b] /\ sdl'[b] = sdl[b]
      BY <1>3, <3>1, FillingMeans DEF Filling, Alike
    <3>3. QED
      BY <1>3, <2>1, <2>3, <3>1, <3>2, FillingMeans DEF Alone
  <2>4. QED
    BY <2>2, <2>3
<1>4. CASE Undisturbed
  <2>1. \A n \in Nodes : Filling(n)' = Filling(n)
    BY <1>4 DEF Undisturbed, Filling, Where
  <2>2. \A n \in Nodes : \A b \in Filling(n) : pc'[b] = pc[b] /\ sdl'[b] = sdl[b]
    BY <1>4 DEF Undisturbed, Filling
  <2>3. QED
    BY <1>4, <2>1, <2>2 DEF Undisturbed, Alone
<1>5. QED
  BY <1>1, <1>2, <1>3, <1>4, OthersUndisturbed

(* The stream holds versions there were, and is only appended to. *)
LEMMA AnnouncedStep ==
  ASSUME TypeOK, Followed, [Next]_vars
  PROVE  /\ Len(announced) <= Len(announced')
         /\ \A i \in 1..Len(announced) : announced'[i] = announced[i]
         /\ \A i \in 1..Len(announced') : announced'[i] <= version'
<1>0. /\ version \in Nat /\ announced \in Seq(Nat) /\ Len(announced) \in Nat
      /\ \A i \in 1..Len(announced) : announced[i] \in Nat /\ announced[i] <= version
  BY DEF TypeOK, Followed
<1>1. CASE \E r \in Requests : Announce(r)
  <2>1. announced' = Append(announced, version) /\ version' = version
    BY <1>1 DEF Announce
  <2>2. QED
    BY <1>0, <2>1
<1>2. CASE ~ \E r \in Requests : Announce(r)
  <2>1. announced' = announced /\ (version' = version \/ version' = version + 1)
    BY <1>2 DEF Next, RequestStep, ActorStep, ModelChanges, Arrive, ReadCached,
                Execute, ExecuteWithErrors, Consume, Fetch, Fails, PutService,
                PutSchema, vars
  <2>2. QED
    BY <1>0, <2>1
<1>3. QED
  BY <1>1, <1>2

(* A consumer puts what it took, and a filler that is alone never puts     *)
(* something older than what the map holds.                                *)
LEMMA FollowedStep ==
  ASSUME TypeOK, Carried, Alone, Followed, [Next]_vars
  PROVE  Followed'
<1>0. SUFFICES ASSUME NEW n \in Nodes
               PROVE  /\ taken'[n] <= Len(announced')
                      /\ ~crossed'[n] =>
                           \A i \in 1..taken'[n] : Reached(n, i)'
  BY AnnouncedStep DEF Followed, Reached
<1>1. /\ taken[n] \in Nat /\ Len(announced) \in Nat /\ Len(announced') \in Nat
      /\ taken[n] <= Len(announced) /\ Len(announced) <= Len(announced')
      /\ \A i \in 1..Len(announced) : announced'[i] = announced[i]
      /\ \A i \in 1..Len(announced) : announced[i] \in Nat /\ announced[i] <= version
      /\ n \in Actors /\ Where(n) = n
      /\ services[n] \in Nat /\ sdl[n] \in Nat
      /\ ~crossed[n] => \A i \in 1..taken[n] : Reached(n, i)
  <2>1. announced \in Seq(Nat) /\ announced' \in Seq(Nat)
    BY TypeStep DEF TypeOK
  <2>2. /\ Len(announced) \in Nat /\ Len(announced') \in Nat
        /\ \A i \in 1..Len(announced) : announced[i] \in Nat
    BY <2>1
  <2>3. n \in Actors /\ Where(n) = n
    BY ActorTypes
  <2>4. taken[n] \in Nat /\ services[n] \in Nat /\ sdl[n] \in Nat
    BY <2>3 DEF TypeOK
  <2>5. QED
    BY <2>2, <2>3, <2>4, AnnouncedStep DEF Followed
<1>2. CASE Undisturbed /\ Takes(n)
  <2>1. /\ taken[n] < Len(announced) /\ taken'[n] = taken[n] + 1
        /\ pc[n] = "idle" /\ pc'[n] = "fetch" /\ announced' = announced
        /\ services' = services
    BY <1>2 DEF Undisturbed, Takes
  <2>2. ~crossed'[n] => ~crossed[n]
    BY <1>2, Zenon DEF Undisturbed
  <2>3. ASSUME ~crossed[n], NEW i \in 1..taken'[n]
        PROVE  Reached(n, i)'
    BY <1>1, <2>1, <2>3 DEF Reached
  <2>4. taken'[n] <= Len(announced')
    BY <1>1, <2>1
  <2>5. QED
    BY <2>2, <2>3, <2>4, Zenon
<1>3. ASSUME NEW a \in Actors, Fetch(a)
      PROVE  /\ taken'[n] = taken[n]
             /\ ~crossed'[n] =>
                  \A i \in 1..taken'[n] : Reached(n, i)'
  <2>1. taken' = taken /\ announced' = announced
    BY <1>3 DEF Fetch
  <2>2. CASE a = n
    BY <1>1, <1>3, <2>1, <2>2, FillingMeans DEF Reached
  <2>3. CASE a # n
    BY <1>1, <1>3, <2>1, <2>3, FillingMeans DEF Reached, Alike
  <2>4. QED
    BY <2>1, <2>2, <2>3
<1>4. ASSUME NEW a \in Actors, PutService(a)
      PROVE  /\ taken'[n] = taken[n]
             /\ ~crossed'[n] =>
                  \A i \in 1..taken'[n] : Reached(n, i)'
  <2>1. taken' = taken /\ announced' = announced /\ crossed' = crossed
    BY <1>4 DEF PutService
  <2>2. CASE Where(a) = n
    <3>1. SUFFICES ASSUME ~crossed[n], NEW i \in 1..taken[n]
                   PROVE  Reached(n, i)'
      BY <2>1
    <3>2. a \in Filling(n) /\ (n \in Filling(n) <=> pc[n] \in {"service", "schema"})
      BY <1>1, <1>4, <2>2, FillingMeans DEF Filling
    <3>3. services[n] <= sdl[a] /\ (n \in Filling(n) => n = a) /\ sdl[a] \in Nat
      BY <3>1, <3>2 DEF Alone, TypeOK
    <3>4. Reached(n, i) /\ announced[i] \in Nat
      BY <1>1, <3>1
    <3>5. services'[n] = sdl[a] /\ announced'[i] = announced[i]
      BY <1>4, <2>1, <2>2, FillingMeans
    <3>6. CASE announced[i] <= services[n]
      BY <1>1, <3>3, <3>4, <3>5, <3>6 DEF Reached
    <3>7. CASE i = taken[n] /\ pc[n] = "fetch"
      BY <1>4, <2>1, <3>7, FillingMeans, <1>1 DEF Reached, Alike
    <3>8. CASE pc[n] = "service" /\ announced[i] <= sdl[n]
      BY <3>2, <3>3, <3>5, <3>8 DEF Reached
    <3>9. QED
      BY <3>4, <3>6, <3>7, <3>8 DEF Reached
  <2>3. CASE Where(a) # n
    BY <1>1, <1>4, <2>1, <2>3, FillingMeans DEF Reached, Alike
  <2>4. QED
    BY <2>1, <2>2, <2>3
<1>5. ASSUME NEW a \in Actors, PutSchema(a)
      PROVE  /\ taken'[n] = taken[n]
             /\ ~crossed'[n] =>
                  \A i \in 1..taken'[n] : Reached(n, i)'
  <2>1. taken' = taken /\ announced' = announced
    BY <1>5 DEF PutSchema
  <2>2. QED
    BY <1>1, <1>5, <2>1, FillingMeans DEF Reached, Alike
<1>6. CASE Undisturbed /\ ~Takes(n)
  <2>1. taken'[n] = taken[n] /\ (pc'[n] = pc[n] \/ crossed'[n])
    BY <1>6 DEF Undisturbed
  <2>2. QED
    BY <1>1, <1>6, <2>1 DEF Reached, Undisturbed
<1>7. QED
  BY <1>1, <1>2, <1>3, <1>4, <1>5, <1>6, OthersUndisturbed

(* A service that appears is the work of a filler that goes on to the      *)
(* text, and what it puts there is a version.                              *)
LEMMA SchemaStep ==
  ASSUME TypeOK, Carried, SchemaFollowsService, [Next]_vars
  PROVE  SchemaFollowsService'
<1> SUFFICES ASSUME NEW n \in Nodes, services'[n] # 0, schemas'[n] = 0
             PROVE  \E b \in Actors : Where(b)' = n /\ pc'[b] = "schema"
  BY DEF SchemaFollowsService
<1>1. CASE Undisturbed
  <2>1. PICK b \in Actors : Where(b) = n /\ pc[b] = "schema"
    BY <1>1 DEF Undisturbed, SchemaFollowsService
  <2>2. QED
    BY <1>1, <2>1 DEF Undisturbed, Where
<1>2. ASSUME NEW a \in Actors, Fetch(a)
      PROVE  \E b \in Actors : Where(b)' = n /\ pc'[b] = "schema"
  <2>1. PICK b \in Actors : Where(b) = n /\ pc[b] = "schema"
    BY <1>2, FillingMeans DEF SchemaFollowsService
  <2>2. QED
    BY <1>2, <2>1, FillingMeans DEF Alike, Where
<1>3. ASSUME NEW a \in Actors, PutService(a)
      PROVE  \E b \in Actors : Where(b)' = n /\ pc'[b] = "schema"
  <2>1. CASE Where(a) = n
    BY <1>3, <2>1, FillingMeans DEF Alike, Where
  <2>2. CASE Where(a) # n
    <3>1. PICK b \in Actors : Where(b) = n /\ pc[b] = "schema"
      BY <1>3, <2>2, FillingMeans DEF SchemaFollowsService
    <3>2. QED
      BY <1>3, <3>1, FillingMeans DEF Alike, Where
  <2>3. QED
    BY <2>1, <2>2
<1>4. ASSUME NEW a \in Actors, PutSchema(a)
      PROVE  \E b \in Actors : Where(b)' = n /\ pc'[b] = "schema"
  <2>1. Where(a) # n
    BY <1>4, FillingMeans DEF Carried, CarriedBy, TypeOK
  <2>2. PICK b \in Actors : Where(b) = n /\ pc[b] = "schema"
    BY <1>4, <2>1, FillingMeans DEF SchemaFollowsService
  <2>3. QED
    BY <1>4, <2>1, <2>2, FillingMeans DEF Alike, Where
<1>5. QED
  BY <1>1, <1>2, <1>3, <1>4, OthersUndisturbed

-----------------------------------------------------------------------------
(* The theorems *)

(* The inductive invariant holds of the initial states. *)
LEMMA InvInit ==
  ASSUME Init
  PROVE  TypeOK /\ Carried /\ Alone /\ Followed /\ SchemaFollowsService
<1>1. TypeOK
  BY DEF Init, TypeOK, Kinds, PCs, Answers
<1>2. Carried
  BY <1>1, ActorTypes DEF Init, Carried, CarriedBy, Asked, Kept
<1>3. Alone
  BY DEF Init, Alone, Filling
<1>4. Followed
  BY DEF Init, Followed
<1>5. SchemaFollowsService
  BY DEF Init, SchemaFollowsService
<1>6. QED
  BY <1>1, <1>2, <1>3, <1>4, <1>5

(* Nothing a thread or a map holds is newer than the model service, and a  *)
(* refresh that has fetched holds nothing older than its arrival.          *)
THEOREM CarriedCorrect == Spec => []Carried
  BY TypeCorrect, InvInit, CarriedStep, PTL DEF Spec

(* A refresh is never answered with an SDL older than its arrival, however *)
(* many threads fill the maps at once.                                     *)
THEOREM RefreshCorrect == Spec => []RefreshIsCurrent
<1>1. Carried => RefreshIsCurrent
  BY DEF Carried, Asked, RefreshIsCurrent
<1>2. QED
  BY <1>1, CarriedCorrect, PTL

(* On every node, a service without its text has a filler at work on it.   *)
THEOREM SchemaCorrect == Spec => []SchemaFollowsService
  BY TypeCorrect, CarriedCorrect, InvInit, SchemaStep, PTL DEF Spec

(* A lone filler leaves a node's maps equal. *)
THEOREM AloneCorrect == Spec => []Alone
  BY TypeCorrect, CarriedCorrect, InvInit, AloneStep, PTL DEF Spec

(* Every refresh a node has taken is in its map or in its consumer's hands. *)
THEOREM FollowedCorrect == Spec => []Followed
  BY TypeCorrect, CarriedCorrect, AloneCorrect, InvInit, FollowedStep, PTL DEF Spec

(* Stale maps come from overlapping fillers or a failing model service and *)
(* from nothing else: for any number of nodes, requests and refreshes.     *)
THEOREM NodeFollows == Spec => []NodeFollowsUnlessCrossed
<1>1. TypeOK /\ Alone /\ Followed => NodeFollowsUnlessCrossed
  BY DEF NodeFollowsUnlessCrossed, Settled, Alone, Followed, Reached
<1>2. QED
  BY <1>1, TypeCorrect, AloneCorrect, FollowedCorrect, PTL

=============================================================================
