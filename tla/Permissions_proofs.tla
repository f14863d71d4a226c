------------------------- MODULE Permissions_proofs -------------------------
(***************************************************************************)
(* What a request is decided by: for any number of nodes, roles, types,    *)
(* updates and restarts, a request is never decided by a document older    *)
(* than one its node had consumed when it came, except for the roles that  *)
(* the start of the node crossed.                                          *)
(***************************************************************************)
EXTENDS Permissions, TLAPS

StartType ==
  [pc : StartPCs, at : Nat, got : [Roles -> Nat], todo : SUBSET Roles]

ReqType ==
  [pc : ReqPCs, node : Nodes, asks : SUBSET Types, got : [Roles -> Nat],
   todo : SUBSET Roles, shows : [Types -> SUBSET Rows], known : Nat,
   stale : SUBSET Roles, newest : [Roles -> Nat], calm : BOOLEAN]

Typed ==
  /\ stream \in Seq([role : Roles, doc : Docs]) /\ store \in [Roles -> Nat]
  /\ offset \in [Nodes -> Nat] /\ cache \in [Nodes -> [Roles -> Nat]]
  /\ start \in [Nodes -> StartType]
  /\ crossed \in [Nodes -> SUBSET Roles] /\ starts \in [Nodes -> Nat]
  /\ req \in [Requests -> ReqType]

(* i is the position of an update of q. *)
Upd(i, q) == i \in 1 .. Len(stream) /\ stream[i].role = q

(* x is as new as every update of q up to position o. *)
AtLeast(x, q, o) == \A i \in Nat : Upd(i, q) /\ i <= o => i <= x

StoreOk(q) == (store[q] # 0 => Upd(store[q], q)) /\ \A i \in Nat : Upd(i, q) => i <= store[q]

(* What a node has, or is about to put: documents of the right role; as    *)
(* new as what it had consumed when it queried; and, once put and not      *)
(* crossed, as new as what it has consumed by now.                         *)
NodeOk(n) ==
  /\ offset[n] <= Len(stream) /\ start[n].at <= Len(stream)
  /\ \A q \in Roles :
       /\ cache[n][q] # 0 => Upd(cache[n][q], q)
       /\ start[n].got[q] # 0 => Upd(start[n].got[q], q)
       /\ start[n].pc = "put" => AtLeast(start[n].got[q], q, start[n].at)
       /\ (start[n].pc = "up" \/ (start[n].pc = "put" /\ q \notin start[n].todo))
            /\ q \notin crossed[n]
            => AtLeast(cache[n][q], q, offset[n])

(* What a request has read.                                                *)
ReadOk(r) ==
  /\ req[r].known <= Len(stream) /\ req[r].todo \subseteq RolesOf[r]
  /\ Served(r) => req[r].todo = {}
  /\ \A q \in Roles :
       /\ req[r].got[q] # 0 => Upd(req[r].got[q], q)
       /\ req[r].newest[q] # 0 => Upd(req[r].newest[q], q)
       /\ q \notin RolesOf[r] => req[r].got[q] = 0
  /\ req[r].pc \in {"read", "rows", "denied"} =>
       \A q \in RolesOf[r] \ req[r].todo :
         /\ q \notin req[r].stale => AtLeast(req[r].got[q], q, req[r].known)
         /\ req[r].calm => req[r].got[q] = req[r].newest[q]

(* What a request has still to read.                                       *)
ToReadOk(r) ==
  LET n == req[r].node
  IN  req[r].pc = "read" =>
        /\ start[n].pc = "up" /\ req[r].known <= offset[n]
        /\ crossed[n] \subseteq req[r].stale
        /\ req[r].calm => \A q \in req[r].todo : cache[n][q] = req[r].newest[q]

Inv ==
  /\ Typed /\ \A q \in Roles : StoreOk(q)
  /\ \A n \in Nodes : NodeOk(n)
  /\ \A r \in Requests : ReadOk(r) /\ ToReadOk(r)

-----------------------------------------------------------------------------
LEMMA IdleType ==
  /\ Idle \in ReqType /\ Idle.todo = {} /\ Idle.known = 0 /\ ~Idle.calm
  /\ Idle.got = None /\ Idle.newest = None /\ Idle.pc = "idle"
<1>1. (CHOOSE n \in Nodes : TRUE) \in Nodes BY PermissionAssumption
<1>2. None \in [Roles -> Nat] BY DEF None
<1>3. Nothing \in [Types -> SUBSET Rows] BY DEF Nothing
<1> QED BY <1>1, <1>2, <1>3 DEF Idle, ReqType, ReqPCs

LEMMA DownType ==
  /\ Down \in StartType /\ Down.pc = "down" /\ Down.at = 0 /\ Down.got = None
<1>1. None \in [Roles -> Nat] BY DEF None
<1> QED BY <1>1 DEF Down, StartType, StartPCs

LEMMA InitInv == ASSUME Init PROVE Inv
<1>1. None \in [Roles -> Nat] /\ \A q \in Roles : None[q] = 0 BY DEF None
<1>2. stream = <<>> /\ Len(stream) = 0 BY DEF Init
<1>3. Typed BY <1>1, IdleType, DownType DEF Init, Typed
<1>4. \A i, q : ~Upd(i, q) BY <1>2 DEF Upd
<1>5. \A q \in Roles : StoreOk(q) BY <1>1, <1>4 DEF Init, StoreOk
<1>6. \A n \in Nodes : NodeOk(n)
  BY <1>1, <1>2, <1>4, DownType DEF Init, NodeOk, AtLeast
<1>7. \A r \in Requests : ReadOk(r) /\ ToReadOk(r)
  BY <1>1, <1>2, <1>4, IdleType DEF Init, ReadOk, ToReadOk, Served
<1> QED BY <1>3, <1>5, <1>6, <1>7 DEF Inv

(* With the stream as it is, a request that is left alone keeps its facts  *)
(* while its node serves, has not forgotten an update and has not crossed  *)
(* a role; and a calm one while the roles it waits for are not written.    *)
LEMMA RequestKept ==
  ASSUME Inv, NEW r \in Requests, UNCHANGED stream, req'[r] = req[r],
         NEW n, n = req[r].node,
         req[r].pc = "read" =>
           /\ start'[n].pc = "up" /\ offset'[n] >= offset[n]
           /\ crossed'[n] \subseteq crossed[n] /\ offset'[n] \in Nat
           /\ req[r].calm =>
                \A q \in req[r].todo : cache'[n][q] = cache[n][q]
  PROVE ReadOk(r)' /\ ToReadOk(r)'
<1>1. /\ req[r] \in ReqType /\ req[r].known \in Nat /\ n \in Nodes
      /\ offset[n] \in Nat
  BY DEF Inv, Typed, ReqType
<1>2. \A i, q : Upd(i, q)' <=> Upd(i, q) BY DEF Upd
<1>3. \A x, q, o : AtLeast(x, q, o)' <=> AtLeast(x, q, o) BY <1>2 DEF AtLeast
<1>4. ReadOk(r)'
  <2>1. ReadOk(r) BY DEF Inv
  <2>2. Served(r)' <=> Served(r) BY DEF Served
  <2> QED BY <1>2, <1>3, <2>1, <2>2 DEF ReadOk, AtLeast
<1>5. ToReadOk(r)'
  <2>1. ToReadOk(r) BY DEF Inv
  <2> QED BY <1>1, <2>1 DEF ToReadOk
<1> QED BY <1>4, <1>5

LEMMA UpdateInv ==
  ASSUME Inv, NEW p \in Roles, NEW d \in Docs, Update(p, d) PROVE Inv'
<1> DEFINE k == Len(stream) + 1
<1>1. /\ stream \in Seq([role : Roles, doc : Docs])
      /\ stream' = Append(stream, [role |-> p, doc |-> d])
      /\ UNCHANGED <<offset, cache, start, crossed, starts, req>>
      /\ store' = [store EXCEPT ![p] = k]
  BY DEF Update, Inv, Typed
<1>2. /\ stream' \in Seq([role : Roles, doc : Docs]) /\ Len(stream') = k
      /\ Len(stream) \in Nat /\ k \in Nat /\ stream'[k].role = p
      /\ \A i \in 1 .. Len(stream) : stream'[i] = stream[i]
  BY <1>1
<1>3. Typed' BY <1>1, <1>2 DEF Inv, Typed
<1>4. \A i, q : Upd(i, q)' <=> Upd(i, q) \/ (i = k /\ q = p)
  BY <1>2 DEF Upd
<1>5. \A x, q, o : o <= Len(stream) /\ o \in Nat /\ AtLeast(x, q, o)
                     => AtLeast(x, q, o)'
  <2> SUFFICES ASSUME NEW x, NEW q, NEW o \in Nat, o <= Len(stream),
                      AtLeast(x, q, o), NEW i \in Nat, Upd(i, q)', i <= o
               PROVE i <= x
    BY DEF AtLeast
  <2>1. i # k BY <1>2
  <2> QED BY <1>4, <2>1 DEF AtLeast
<1>6. \A q \in Roles : StoreOk(q)'
  <2> SUFFICES ASSUME NEW q \in Roles PROVE StoreOk(q)'
    OBVIOUS
  <2>1. StoreOk(q) BY DEF Inv
  <2>2. store'[q] = IF q = p THEN k ELSE store[q] BY <1>1 DEF Inv, Typed
  <2>3. CASE q = p
    <3>1. \A i \in Nat : Upd(i, q)' => i <= k BY <1>2 DEF Upd
    <3> QED BY <1>2, <1>4, <2>2, <2>3, <3>1 DEF StoreOk
  <2>4. CASE q # p BY <1>4, <2>1, <2>2, <2>4 DEF StoreOk
  <2> QED BY <2>3, <2>4
<1>7. ASSUME NEW n \in Nodes PROVE NodeOk(n)'
  <2>1. NodeOk(n) /\ offset[n] \in Nat /\ start[n].at \in Nat
    BY DEF Inv, Typed, StartType
  <2>2. offset[n] <= Len(stream) /\ start[n].at <= Len(stream)
    BY <2>1 DEF NodeOk
  <2> QED BY <1>1, <1>2, <1>4, <1>5, <2>1, <2>2 DEF NodeOk
<1>8. ASSUME NEW r \in Requests PROVE ReadOk(r)' /\ ToReadOk(r)'
  <2>1. ReadOk(r) /\ ToReadOk(r) /\ req[r].known \in Nat
    BY DEF Inv, Typed, ReqType
  <2>2. req[r].known <= Len(stream) BY <2>1 DEF ReadOk
  <2>3. ToReadOk(r)' BY <1>1, <2>1 DEF ToReadOk
  <2>4. ReadOk(r)' BY <1>1, <1>2, <1>4, <1>5, <2>1, <2>2 DEF ReadOk, Served
  <2> QED BY <2>3, <2>4
<1> QED BY <1>3, <1>6, <1>7, <1>8 DEF Inv

LEMMA EntryType ==
  ASSUME NEW S, NEW s \in Seq(S), NEW i \in 1 .. Len(s) PROVE s[i] \in S
  OBVIOUS

LEMMA ConsumeInv == ASSUME Inv, NEW n \in Nodes, Consume(n) PROVE Inv'
<1> DEFINE o == offset[n] + 1
           p == stream[o].role
<1>1. /\ offset[n] \in Nat /\ o \in 1 .. Len(stream) /\ p \in Roles
  <2>1. stream \in Seq([role : Roles, doc : Docs]) /\ offset[n] \in Nat
    BY DEF Inv, Typed
  <2>2. o \in 1 .. Len(stream) BY <2>1 DEF Consume
  <2> HIDE DEF o
  <2>3. stream[o] \in [role : Roles, doc : Docs] BY <2>1, <2>2, EntryType
  <2> QED BY <2>1, <2>2, <2>3 DEF Consume
<1>2. /\ UNCHANGED <<store, stream, start, starts>> /\ Touch(n, p)
      /\ \A m \in Nodes : offset'[m] = IF m = n THEN o ELSE offset[m]
      /\ \A m \in Nodes, q \in Roles :
           cache'[m][q] = IF m = n /\ q = p THEN o ELSE cache[m][q]
      /\ \A m \in Nodes : crossed'[m] = IF m = n THEN crossed[m] \ {p}
                                        ELSE crossed[m]
  BY <1>1 DEF Consume, Inv, Typed
<1>3. \A i, q : Upd(i, q)' <=> Upd(i, q) BY <1>2 DEF Upd
<1>4. Upd(o, p) /\ \A q : Upd(o, q) => q = p BY <1>1 DEF Upd
<1>5. /\ offset' \in [Nodes -> Nat] /\ cache' \in [Nodes -> [Roles -> Nat]]
      /\ crossed' \in [Nodes -> SUBSET Roles]
  BY <1>1 DEF Consume, Inv, Typed
<1> HIDE DEF p
<1>6. ASSUME NEW r \in Requests
      PROVE req'[r] = [req[r] EXCEPT !.calm = @ /\ ~(req[r].pc = "read"
                         /\ req[r].node = n /\ p \in RolesOf[r])]
  BY <1>2, <1>6 DEF Touch
<1>7. req' \in [Requests -> ReqType]
  <2>1. \A r \in Requests : req[r] \in ReqType BY DEF Inv, Typed
  <2>2. req' = [r \in Requests |->
                  [req[r] EXCEPT !.calm = @ /\ ~(req[r].pc = "read"
                         /\ req[r].node = n /\ p \in RolesOf[r])]]
    BY <1>2 DEF Touch
  <2>3. ASSUME NEW r \in Requests
        PROVE [req[r] EXCEPT !.calm = @ /\ ~(req[r].pc = "read"
                         /\ req[r].node = n /\ p \in RolesOf[r])] \in ReqType
    BY <2>1 DEF ReqType
  <2> QED BY <2>2, <2>3
<1>8. Typed' BY <1>2, <1>5, <1>7 DEF Inv, Typed
<1>9. \A q \in Roles : StoreOk(q)' BY <1>2, <1>3 DEF Inv, StoreOk
<1>10. ASSUME NEW m \in Nodes PROVE NodeOk(m)'
  <2>1. NodeOk(m) /\ offset[m] \in Nat BY DEF Inv, Typed
  <2>2. CASE m # n
    BY <1>2, <1>3, <2>1, <2>2 DEF NodeOk, AtLeast
  <2>3. CASE m = n
    <3>1. offset'[m] = o /\ o <= Len(stream') /\ o \in Nat
      BY <1>1, <1>2, <2>3
    <3>2. ASSUME NEW q \in Roles, q # p, AtLeast(cache[n][q], q, offset[n])
          PROVE AtLeast(cache'[n][q], q, o)
      <4> SUFFICES ASSUME NEW i \in Nat, Upd(i, q), i <= o
                   PROVE i <= cache[n][q]
        BY <1>2, <1>3, <3>2 DEF AtLeast
      <4>1. i # o BY <1>4, <3>2
      <4> QED BY <1>1, <3>2, <4>1 DEF AtLeast
    <3>3. AtLeast(cache'[n][p], p, o) BY <1>1, <1>2 DEF AtLeast
    <3>4. ASSUME NEW q \in Roles, cache'[n][q] # 0
          PROVE Upd(cache'[n][q], q)
      BY <1>2, <1>4, <2>1, <2>3, <3>4 DEF NodeOk
    <3> HIDE DEF o
    <3>5. ASSUME NEW q \in Roles
          PROVE /\ start[n].got[q] # 0 => Upd(start[n].got[q], q)
                /\ start[n].pc = "put" => AtLeast(start[n].got[q], q, start[n].at)
      BY <1>3, <2>1, <2>3 DEF NodeOk, AtLeast
    <3>6. ASSUME NEW q \in Roles,
                 start[n].pc = "up" \/ (start[n].pc = "put" /\ q \notin start[n].todo),
                 q \notin crossed'[n]
          PROVE AtLeast(cache'[n][q], q, o)
      BY <1>2, <2>1, <2>3, <3>2, <3>3, <3>6 DEF NodeOk
    <3>7. start[n].at <= Len(stream) BY <2>1, <2>3 DEF NodeOk
    <3>8. \A x, q, k : AtLeast(x, q, k)' <=> AtLeast(x, q, k)
      BY <1>3 DEF AtLeast
    <3> QED BY <1>2, <1>3, <2>3, <3>1, <3>4, <3>5, <3>6, <3>7, <3>8 DEF NodeOk
  <2> QED BY <2>2, <2>3
<1>11. ASSUME NEW r \in Requests PROVE ReadOk(r)' /\ ToReadOk(r)'
  <2>1. ReadOk(r) /\ ToReadOk(r) /\ req[r] \in ReqType BY DEF Inv, Typed
  <2>2. /\ req'[r].pc = req[r].pc /\ req'[r].node = req[r].node
        /\ req'[r].got = req[r].got /\ req'[r].todo = req[r].todo
        /\ req'[r].known = req[r].known /\ req'[r].stale = req[r].stale
        /\ req'[r].newest = req[r].newest
    BY <1>6, <2>1 DEF ReqType
  <2>3. req'[r].calm => req[r].calm /\ ~(req[r].pc = "read"
                           /\ req[r].node = n /\ p \in RolesOf[r])
    BY <1>6, <2>1 DEF ReqType
  <2>4. \A x, q, k : AtLeast(x, q, k)' <=> AtLeast(x, q, k)
    BY <1>3 DEF AtLeast
  <2>5. ReadOk(r)' BY <1>2, <1>3, <2>1, <2>2, <2>3, <2>4 DEF ReadOk, Served
  <2>6. ToReadOk(r)'
    <3> SUFFICES ASSUME req[r].pc = "read" PROVE ToReadOk(r)'
      BY <2>2 DEF ToReadOk
    <3> DEFINE m == req[r].node
    <3>1. m \in Nodes /\ req[r].known \in Nat /\ offset[m] \in Nat
      BY <2>1 DEF ReqType, Inv, Typed
    <3>2. start'[m].pc = "up" /\ req[r].known <= offset'[m]
      BY <1>2, <2>1, <3>1 DEF ToReadOk
    <3>3. crossed'[m] \subseteq req[r].stale BY <1>2, <2>1, <3>1 DEF ToReadOk
    <3>4. ASSUME req'[r].calm, NEW q \in req[r].todo
          PROVE cache'[m][q] = req[r].newest[q]
      <4>1. q \in RolesOf[r] /\ q \in Roles
        BY <2>1, PermissionAssumption DEF ReadOk
      <4>2. ~(m = n /\ q = p) BY <2>3, <3>4, <4>1
      <4>3. cache'[m][q] = cache[m][q] BY <1>2, <3>1, <4>1, <4>2
      <4> QED BY <2>1, <2>3, <3>4, <4>3 DEF ToReadOk
    <3> QED BY <2>2, <3>2, <3>3, <3>4 DEF ToReadOk
  <2> QED BY <2>5, <2>6
<1> QED BY <1>8, <1>9, <1>10, <1>11 DEF Inv

(* A step of a start that touches only the start of its node.              *)
LEMMA StartStep ==
  ASSUME Inv, NEW n \in Nodes, NEW new \in StartType,
         UNCHANGED <<store, stream, offset, cache, crossed, req>>,
         start' = [start EXCEPT ![n] = new], starts' \in [Nodes -> Nat],
         start[n].pc # "up", new.at <= Len(stream),
         \A q \in Roles :
           /\ new.got[q] # 0 => Upd(new.got[q], q)
           /\ new.pc = "put" => AtLeast(new.got[q], q, new.at)
           /\ (new.pc = "up" \/ (new.pc = "put" /\ q \notin new.todo))
                /\ q \notin crossed[n]
              => AtLeast(cache[n][q], q, offset[n])
  PROVE Inv'
<1>1. \A i, q : Upd(i, q)' <=> Upd(i, q) BY DEF Upd
<1>2. \A x, q, o : AtLeast(x, q, o)' <=> AtLeast(x, q, o) BY <1>1 DEF AtLeast
<1>3. \A m \in Nodes : start'[m] = IF m = n THEN new ELSE start[m]
  BY DEF Inv, Typed
<1>4. Typed' BY DEF Inv, Typed
<1>5. \A q \in Roles : StoreOk(q)' BY <1>1 DEF Inv, StoreOk
<1>6. ASSUME NEW m \in Nodes PROVE NodeOk(m)'
  <2>1. NodeOk(m) BY DEF Inv
  <2>2. CASE m # n BY <1>1, <1>2, <1>3, <2>1, <2>2 DEF NodeOk
  <2>3. CASE m = n BY <1>1, <1>2, <1>3, <2>1, <2>3 DEF NodeOk
  <2> QED BY <2>2, <2>3
<1>7. ASSUME NEW r \in Requests PROVE ReadOk(r)' /\ ToReadOk(r)'
  <2>1. ReadOk(r) /\ ToReadOk(r) /\ req[r].node \in Nodes
    BY DEF Inv, Typed, ReqType
  <2>2. ReadOk(r)' BY <1>1, <1>2, <2>1 DEF ReadOk, Served
  <2>3. req[r].pc = "read" => req[r].node # n BY <2>1 DEF ToReadOk
  <2>4. ToReadOk(r)' BY <1>3, <2>1, <2>3 DEF ToReadOk
  <2> QED BY <2>2, <2>4
<1> QED BY <1>4, <1>5, <1>6, <1>7 DEF Inv

LEMMA SubscribeInv == ASSUME Inv, NEW n \in Nodes, Subscribe(n) PROVE Inv'
<1> DEFINE new == [start[n] EXCEPT !.pc = "query"]
<1>1. start[n] \in StartType /\ NodeOk(n) BY DEF Inv, Typed
<1>2. /\ new \in StartType /\ new.pc = "query" /\ new.at = start[n].at
      /\ new.got = start[n].got
  BY <1>1 DEF StartType, StartPCs
<1>3. start' = [start EXCEPT ![n] = new] /\ starts' \in [Nodes -> Nat]
  BY DEF Subscribe, Inv, Typed
<1>4. UNCHANGED <<store, stream, offset, cache, crossed, req>>
      /\ start[n].pc # "up"
  BY DEF Subscribe
<1> HIDE DEF new
<1> QED BY <1>1, <1>2, <1>3, <1>4, StartStep DEF NodeOk

LEMMA ServeInv == ASSUME Inv, NEW n \in Nodes, Serve(n) PROVE Inv'
<1> DEFINE new == [start[n] EXCEPT !.pc = "up"]
<1>1. start[n] \in StartType /\ NodeOk(n) BY DEF Inv, Typed
<1>2. /\ new \in StartType /\ new.pc = "up" /\ new.at = start[n].at
      /\ new.got = start[n].got
  BY <1>1 DEF StartType, StartPCs
<1>3. start' = [start EXCEPT ![n] = new] /\ starts' \in [Nodes -> Nat]
  BY DEF Serve, Inv, Typed
<1>4. UNCHANGED <<store, stream, offset, cache, crossed, req>>
      /\ start[n].pc = "put" /\ start[n].todo = {}
  BY DEF Serve
<1> HIDE DEF new
<1> QED BY <1>1, <1>2, <1>3, <1>4, StartStep DEF NodeOk

LEMMA QueryAllInv == ASSUME Inv, NEW n \in Nodes, QueryAll(n) PROVE Inv'
<1> DEFINE new == [pc |-> "put", at |-> offset[n], got |-> store,
                   todo |-> {q \in Roles : store[q] # 0}]
<1>1. /\ NodeOk(n) /\ offset[n] \in Nat /\ store \in [Roles -> Nat]
      /\ \A q \in Roles : StoreOk(q)
  BY DEF Inv, Typed
<1>2. new \in StartType BY <1>1 DEF StartType, StartPCs
<1>3. start' = [start EXCEPT ![n] = new] /\ starts' \in [Nodes -> Nat]
      /\ UNCHANGED <<store, stream, offset, cache, crossed, req>>
      /\ start[n].pc = "query"
  BY DEF QueryAll, Inv, Typed
<1>4. ASSUME NEW q \in Roles
      PROVE /\ store[q] # 0 => Upd(store[q], q)
            /\ AtLeast(store[q], q, offset[n])
            /\ store[q] = 0 => AtLeast(cache[n][q], q, offset[n])
  <2>1. StoreOk(q) /\ store[q] \in Nat BY <1>1
  <2>2. store[q] = 0 => \A i \in Nat : ~Upd(i, q) BY <2>1 DEF StoreOk, Upd
  <2> QED BY <2>1, <2>2 DEF StoreOk, AtLeast
<1>5. new.at = offset[n] /\ new.got = store /\ new.pc = "put"
      /\ \A q \in Roles : q \notin new.todo => store[q] = 0
  OBVIOUS
<1>6. offset[n] <= Len(stream) BY <1>1 DEF NodeOk
<1> HIDE DEF new
<1> QED BY <1>2, <1>3, <1>4, <1>5, <1>6, StartStep

LEMMA PutInv ==
  ASSUME Inv, NEW n \in Nodes, NEW p \in Roles, Put(n, p) PROVE Inv'
<1> DEFINE t == start[n].got[p]
           new == [start[n] EXCEPT !.todo = @ \ {p}]
<1>1. /\ start[n] \in StartType /\ t \in Nat /\ offset[n] \in Nat
      /\ start[n].at \in Nat /\ NodeOk(n)
  BY DEF Inv, Typed, StartType
<1>2. /\ new \in StartType /\ new.pc = start[n].pc /\ new.at = start[n].at
      /\ new.got = start[n].got /\ new.todo = start[n].todo \ {p}
  BY <1>1 DEF StartType
<1>3. /\ start' = [start EXCEPT ![n] = new] /\ start[n].pc = "put"
      /\ UNCHANGED <<store, stream, offset, starts, req>>
  BY DEF Put, Inv, Typed
<1>4. /\ \A m \in Nodes, q \in Roles :
           cache'[m][q] = IF m = n /\ q = p THEN t ELSE cache[m][q]
      /\ cache' \in [Nodes -> [Roles -> Nat]]
  BY <1>1 DEF Put, Inv, Typed
<1>5. /\ \A m \in Nodes : crossed'[m] =
           IF m # n THEN crossed[m]
           ELSE IF Overtaken(n, p) THEN crossed[m] \cup {p}
           ELSE crossed[m] \ {p}
      /\ crossed' \in [Nodes -> SUBSET Roles]
  BY DEF Put, Inv, Typed
<1> HIDE DEF new
<1>6. \A m \in Nodes : start'[m] = IF m = n THEN new ELSE start[m]
  BY <1>3 DEF Inv, Typed
<1>7. ~Overtaken(n, p) => AtLeast(t, p, offset[n])
  <2> SUFFICES ASSUME ~Overtaken(n, p), NEW i \in Nat, Upd(i, p),
                      i <= offset[n], ~(i <= t)
               PROVE FALSE
    BY DEF AtLeast
  <2>1. i > start[n].at BY <1>1, <1>3 DEF NodeOk, AtLeast
  <2>2. i \in start[n].at + 1 .. offset[n] /\ i > t BY <1>1, <2>1
  <2> QED BY <2>2 DEF Overtaken, Upd
<1> HIDE DEF t
<1>8. Typed' BY <1>2, <1>3, <1>4, <1>5 DEF Inv, Typed
<1>9. \A i, q : Upd(i, q)' <=> Upd(i, q) BY <1>3 DEF Upd
<1>10. \A x, q, o : AtLeast(x, q, o)' <=> AtLeast(x, q, o)
  BY <1>9 DEF AtLeast
<1>11. \A q \in Roles : StoreOk(q)' BY <1>3, <1>9 DEF Inv, StoreOk
<1>12. ASSUME NEW m \in Nodes PROVE NodeOk(m)'
  <2>1. NodeOk(m) BY DEF Inv
  <2>2. CASE m # n
    BY <1>3, <1>4, <1>5, <1>6, <1>9, <1>10, <2>1, <2>2 DEF NodeOk
  <2>3. CASE m = n
    <3>1. offset'[n] <= Len(stream') /\ start'[n].at <= Len(stream')
      BY <1>1, <1>2, <1>3, <1>6 DEF NodeOk
    <3>2. ASSUME NEW q \in Roles, cache'[n][q] # 0 PROVE Upd(cache'[n][q], q)
      <4>1. CASE q = p BY <1>1, <1>4, <1>9, <3>2, <4>1 DEF NodeOk, t
      <4>2. CASE q # p BY <1>1, <1>4, <1>9, <3>2, <4>2 DEF NodeOk
      <4> QED BY <4>1, <4>2
    <3>3. ASSUME NEW q \in Roles
          PROVE /\ start'[n].got[q] # 0 => Upd(start'[n].got[q], q)
                /\ AtLeast(start'[n].got[q], q, start'[n].at)
      BY <1>1, <1>2, <1>3, <1>6, <1>9, <1>10 DEF NodeOk
    <3>4. ASSUME NEW q \in Roles, q \notin start'[n].todo,
                 q \notin crossed'[n]
          PROVE AtLeast(cache'[n][q], q, offset'[n])
      <4>1. CASE q = p
        BY <1>3, <1>4, <1>5, <1>7, <1>10, <3>4, <4>1
      <4>2. CASE q # p
        <5>1. q \notin start[n].todo /\ q \notin crossed[n]
          BY <1>2, <1>5, <1>6, <3>4, <4>2
        <5>2. AtLeast(cache[n][q], q, offset[n])
          BY <1>1, <1>3, <5>1 DEF NodeOk
        <5> QED BY <1>3, <1>4, <1>10, <4>2, <5>2
      <4> QED BY <4>1, <4>2
    <3>5. start'[n].pc = "put" BY <1>2, <1>3, <1>6
    <3> QED BY <1>9, <1>10, <2>3, <3>1, <3>2, <3>3, <3>4, <3>5 DEF NodeOk
  <2> QED BY <2>2, <2>3
<1>13. ASSUME NEW r \in Requests PROVE ReadOk(r)' /\ ToReadOk(r)'
  <2> DEFINE m == req[r].node
  <2>1. ToReadOk(r) /\ m \in Nodes /\ offset[m] \in Nat /\ req'[r] = req[r]
    BY <1>3 DEF Inv, Typed, ReqType
  <2>2. req[r].todo \subseteq Roles BY DEF Inv, Typed, ReqType
  <2>3. ASSUME req[r].pc = "read"
        PROVE /\ start'[m].pc = "up" /\ offset'[m] >= offset[m]
              /\ crossed'[m] \subseteq crossed[m] /\ offset'[m] \in Nat
              /\ \A q \in req[r].todo : cache'[m][q] = cache[m][q]
    <3>1. m # n BY <1>3, <2>1, <2>3 DEF ToReadOk
    <3> QED BY <1>3, <1>4, <1>5, <1>6, <2>1, <2>2, <2>3, <3>1 DEF ToReadOk
  <2> QED BY <1>3, <2>1, <2>3, RequestKept
<1> QED BY <1>8, <1>11, <1>12, <1>13 DEF Inv

LEMMA StopInv == ASSUME Inv, NEW n \in Nodes, Stop(n) PROVE Inv'
<1> DEFINE lost == [Idle EXCEPT !.pc = "lost"]
<1>1. PICK o \in {offset[n], IF offset[n] = 0 THEN 0 ELSE offset[n] - 1} :
        offset' = [offset EXCEPT ![n] = o]
  BY DEF Stop
<1>2. offset[n] \in Nat /\ o \in Nat /\ o <= offset[n]
  BY <1>1 DEF Inv, Typed
<1>3. /\ UNCHANGED <<store, stream, starts>>
      /\ \A m \in Nodes : offset'[m] = IF m = n THEN o ELSE offset[m]
      /\ \A m \in Nodes : crossed'[m] = IF m = n THEN {} ELSE crossed[m]
      /\ \A m \in Nodes : start'[m] = IF m = n THEN Down ELSE start[m]
      /\ \A m \in Nodes : cache'[m] = IF m = n THEN None ELSE cache[m]
  BY <1>1 DEF Stop, Inv, Typed
<1>4. None \in [Roles -> Nat] /\ \A q \in Roles : None[q] = 0 BY DEF None
<1>5. /\ lost \in ReqType /\ lost.pc = "lost" /\ lost.todo = {}
      /\ lost.known = 0 /\ lost.got = None /\ lost.newest = None
  BY IdleType DEF ReqType, ReqPCs
<1> HIDE DEF lost
<1>6. /\ req' = [r \in Requests |-> IF req[r].pc = "read" /\ req[r].node = n
                                      THEN lost ELSE req[r]]
  BY DEF Stop, lost
<1>7. Typed'
  <2>1. req' \in [Requests -> ReqType] BY <1>5, <1>6 DEF Inv, Typed
  <2>2. offset' \in [Nodes -> Nat] BY <1>1, <1>2 DEF Inv, Typed
  <2>3. cache' \in [Nodes -> [Roles -> Nat]] BY <1>4 DEF Stop, Inv, Typed
  <2>4. start' \in [Nodes -> StartType] BY DownType DEF Stop, Inv, Typed
  <2>5. crossed' \in [Nodes -> SUBSET Roles] BY DEF Stop, Inv, Typed
  <2> QED BY <1>3, <2>1, <2>2, <2>3, <2>4, <2>5 DEF Inv, Typed
<1>8. \A i, q : Upd(i, q)' <=> Upd(i, q) BY <1>3 DEF Upd
<1>9. \A x, q, k : AtLeast(x, q, k)' <=> AtLeast(x, q, k)
  BY <1>8 DEF AtLeast
<1>10. \A q \in Roles : StoreOk(q)' BY <1>3, <1>8 DEF Inv, StoreOk
<1>11. ASSUME NEW m \in Nodes PROVE NodeOk(m)'
  <2>1. NodeOk(m) /\ Len(stream) \in Nat BY DEF Inv, Typed
  <2>2. CASE m # n BY <1>3, <1>8, <1>9, <2>1, <2>2 DEF NodeOk
  <2>3. CASE m = n
    <3>1. offset'[m] <= Len(stream') BY <1>2, <1>3, <2>1, <2>3 DEF NodeOk
    <3> QED BY <1>3, <1>4, <2>1, <2>3, <3>1, DownType DEF NodeOk
  <2> QED BY <2>2, <2>3
<1>12. ASSUME NEW r \in Requests PROVE ReadOk(r)' /\ ToReadOk(r)'
  <2> DEFINE m == req[r].node
  <2>1. m \in Nodes /\ offset[m] \in Nat /\ ToReadOk(r) /\ Len(stream) \in Nat
    BY DEF Inv, Typed, ReqType
  <2>2. CASE req[r].pc = "read" /\ m = n
    <3>1. req'[r] = lost BY <1>6, <2>2
    <3> QED BY <1>3, <1>4, <1>5, <2>1, <3>1 DEF ReadOk, ToReadOk, Served
  <2>3. CASE ~(req[r].pc = "read" /\ m = n)
    <3>1. req'[r] = req[r] BY <1>6, <2>3
    <3>2. req[r].pc = "read" =>
            /\ start'[m].pc = "up" /\ offset'[m] >= offset[m]
            /\ crossed'[m] \subseteq crossed[m] /\ offset'[m] \in Nat
            /\ \A q \in req[r].todo : cache'[m][q] = cache[m][q]
      BY <1>3, <2>1, <2>3 DEF ToReadOk
    <3> QED BY <1>3, <3>1, <3>2, RequestKept
  <2> QED BY <2>2, <2>3
<1> QED BY <1>7, <1>10, <1>11, <1>12 DEF Inv

-----------------------------------------------------------------------------
(* A step of one request leaves everything else.                           *)
LEMMA RequestStep ==
  ASSUME Inv, NEW r \in Requests, NEW new \in ReqType,
         req' = [req EXCEPT ![r] = new],
         UNCHANGED <<store, stream, offset, cache, start, crossed, starts>>,
         (ReadOk(r) /\ ToReadOk(r))'
  PROVE Inv'
<1>1. \A i, q : Upd(i, q)' <=> Upd(i, q) BY DEF Upd
<1>2. \A x, q, k : AtLeast(x, q, k)' <=> AtLeast(x, q, k)
  BY <1>1 DEF AtLeast
<1>3. Typed' BY DEF Inv, Typed
<1>4. \A q \in Roles : StoreOk(q)' BY <1>1 DEF Inv, StoreOk
<1>5. \A n \in Nodes : NodeOk(n)' BY <1>1, <1>2 DEF Inv, NodeOk
<1>6. ASSUME NEW s \in Requests, s # r PROVE (ReadOk(s) /\ ToReadOk(s))'
  <2>1. req'[s] = req[s] BY <1>6 DEF Inv, Typed
  <2>2. req[s].node \in Nodes /\ offset[req[s].node] \in Nat /\ ToReadOk(s)
    BY DEF Inv, Typed, ReqType
  <2> QED BY <2>1, <2>2, RequestKept DEF ToReadOk
<1> QED BY <1>3, <1>4, <1>5, <1>6 DEF Inv

LEMMA ArriveInv ==
  ASSUME Inv, NEW r \in Requests, NEW n \in Nodes, NEW ts \in SUBSET Types,
         Arrive(r, n, ts)
  PROVE Inv'
<1> DEFINE new == [Idle EXCEPT
          !.pc = "read", !.node = n, !.asks = ts, !.todo = RolesOf[r],
          !.known = offset[n], !.stale = crossed[n], !.newest = store,
          !.calm = offset[n] = Len(stream) /\ crossed[n] = {}]
<1>1. /\ NodeOk(n) /\ offset[n] \in Nat /\ crossed[n] \in SUBSET Roles
      /\ store \in [Roles -> Nat] /\ RolesOf[r] \in SUBSET Roles
      /\ \A q \in Roles : StoreOk(q)
      /\ cache[n] \in [Roles -> Nat]
  BY PermissionAssumption DEF Inv, Typed
<1>2. /\ new \in ReqType /\ new.pc = "read" /\ new.node = n
      /\ new.todo = RolesOf[r] /\ new.known = offset[n] /\ new.got = None
      /\ new.stale = crossed[n] /\ new.newest = store
      /\ new.calm => offset[n] = Len(stream) /\ crossed[n] = {}
  BY <1>1, IdleType DEF ReqType, ReqPCs
<1>3. /\ req' = [req EXCEPT ![r] = new] /\ start[n].pc = "up"
      /\ UNCHANGED <<store, stream, offset, cache, start, crossed, starts>>
  BY DEF Arrive
<1> HIDE DEF new
<1>4. req'[r] = new BY <1>3 DEF Inv, Typed
<1>5. None \in [Roles -> Nat] /\ \A q \in Roles : None[q] = 0 BY DEF None
<1>6. \A i, q : Upd(i, q)' <=> Upd(i, q) BY <1>3 DEF Upd
<1>7. ReadOk(r)'
  <2>1. \A q \in Roles : store[q] # 0 => Upd(store[q], q)
    BY <1>1 DEF StoreOk
  <2>2. offset[n] <= Len(stream) BY <1>1 DEF NodeOk
  <2> QED BY <1>2, <1>3, <1>4, <1>5, <1>6, <2>1, <2>2 DEF ReadOk, Served
<1>8. ToReadOk(r)'
  <2>1. ASSUME new.calm, NEW q \in RolesOf[r] PROVE cache[n][q] = store[q]
    <3>1. q \in Roles /\ cache[n][q] \in Nat /\ store[q] \in Nat BY <1>1
    <3>2. AtLeast(cache[n][q], q, offset[n])
      BY <1>1, <1>2, <1>3, <2>1, <3>1 DEF NodeOk
    <3>3. /\ store[q] # 0 => Upd(store[q], q)
          /\ cache[n][q] # 0 => Upd(cache[n][q], q)
          /\ cache[n][q] # 0 => cache[n][q] <= store[q]
      BY <1>1, <3>1 DEF StoreOk, NodeOk
    <3>4. store[q] # 0 => store[q] <= cache[n][q]
      BY <1>2, <2>1, <3>1, <3>2, <3>3 DEF AtLeast, Upd
    <3> QED BY <3>1, <3>3, <3>4
  <2> QED BY <1>1, <1>2, <1>3, <1>4, <2>1 DEF ToReadOk
<1> QED BY <1>2, <1>3, <1>7, <1>8, RequestStep

LEMMA ReadRoleInv ==
  ASSUME Inv, NEW r \in Requests, NEW p \in Roles, ReadRole(r, p) PROVE Inv'
<1> DEFINE n == req[r].node
           new == [req[r] EXCEPT !.todo = @ \ {p}, !.got[p] = cache[n][p]]
<1>1. /\ req[r] \in ReqType /\ ReadOk(r) /\ ToReadOk(r) /\ n \in Nodes
      /\ NodeOk(n) /\ cache[n][p] \in Nat /\ offset[n] \in Nat
      /\ req[r].known \in Nat /\ crossed[n] \subseteq Roles
  BY DEF Inv, Typed, ReqType
<1>2. /\ new \in ReqType /\ new.pc = req[r].pc /\ new.node = n
      /\ new.todo = req[r].todo \ {p} /\ new.known = req[r].known
      /\ new.stale = req[r].stale /\ new.newest = req[r].newest
      /\ new.calm = req[r].calm
      /\ \A q \in Roles : new.got[q] = IF q = p THEN cache[n][p]
                                       ELSE req[r].got[q]
  BY <1>1 DEF ReqType
<1>3. /\ req' = [req EXCEPT ![r] = new] /\ req[r].pc = "read"
      /\ p \in req[r].todo
      /\ UNCHANGED <<store, stream, offset, cache, start, crossed, starts>>
  BY <1>1 DEF ReadRole, ReqType, Inv, Typed
<1> HIDE DEF new
<1>4. req'[r] = new BY <1>3 DEF Inv, Typed
<1>5. \A i, q : Upd(i, q)' <=> Upd(i, q) BY <1>3 DEF Upd
<1>6. \A x, q, k : AtLeast(x, q, k)' <=> AtLeast(x, q, k)
  BY <1>5 DEF AtLeast
<1>7. p \notin req[r].stale => AtLeast(cache[n][p], p, req[r].known)
  <2> SUFFICES ASSUME p \notin req[r].stale, NEW i \in Nat, Upd(i, p),
                      i <= req[r].known
               PROVE i <= cache[n][p]
    BY DEF AtLeast
  <2>1. start[n].pc = "up" /\ p \notin crossed[n] /\ i <= offset[n]
    BY <1>1, <1>3 DEF ToReadOk
  <2> QED BY <1>1, <2>1 DEF NodeOk, AtLeast
<1>8. req[r].calm => cache[n][p] = req[r].newest[p]
  BY <1>1, <1>3 DEF ToReadOk
<1> HIDE DEF n
<1>9. ReadOk(r)'
  <2>1. req'[r].known <= Len(stream') /\ req'[r].todo \subseteq RolesOf[r]
    BY <1>1, <1>2, <1>3, <1>4 DEF ReadOk
  <2>2. ~Served(r)' BY <1>2, <1>3, <1>4 DEF Served
  <2>3. p \in RolesOf[r] BY <1>1, <1>3 DEF ReadOk
  <2>4. cache[n][p] # 0 => Upd(cache[n][p], p) BY <1>1 DEF NodeOk
  <2>5. ASSUME NEW q \in Roles
        PROVE /\ new.got[q] # 0 => Upd(new.got[q], q)
              /\ new.newest[q] # 0 => Upd(new.newest[q], q)
              /\ q \notin RolesOf[r] => new.got[q] = 0
    <3>1. CASE q = p BY <1>1, <1>2, <2>3, <2>4, <3>1 DEF ReadOk
    <3>2. CASE q # p BY <1>1, <1>2, <3>2 DEF ReadOk
    <3> QED BY <3>1, <3>2
  <2>6. ASSUME NEW q \in RolesOf[r] \ new.todo
        PROVE /\ q \notin new.stale => AtLeast(new.got[q], q, new.known)
              /\ new.calm => new.got[q] = new.newest[q]
    <3>1. q \in Roles BY PermissionAssumption
    <3>2. CASE q = p BY <1>2, <1>7, <1>8, <3>1, <3>2
    <3>3. CASE q # p BY <1>1, <1>2, <1>3, <3>1, <3>3, <2>6 DEF ReadOk
    <3> QED BY <3>2, <3>3
  <2> QED BY <1>4, <1>5, <1>6, <2>1, <2>2, <2>5, <2>6 DEF ReadOk
<1>10. ToReadOk(r)' BY <1>1, <1>2, <1>3, <1>4 DEF ToReadOk, n
<1> QED BY <1>2, <1>3, <1>9, <1>10, RequestStep

LEMMA DocType1 ==
  ASSUME Inv, NEW i \in Nat, i # 0 => i \in DOMAIN stream PROVE Doc(i) \in DocType
<1>1. Nothing \in [Types -> SUBSET SUBSET Rows] BY DEF Nothing
<1>2. CASE i = 0 BY <1>1, <1>2 DEF Doc, DocType
<1>3. CASE i # 0
  <2>1. stream \in Seq([role : Roles, doc : Docs]) BY DEF Inv, Typed
  <2>2. i \in 1 .. Len(stream) BY <1>3, <2>1
  <2>3. stream[i] \in [role : Roles, doc : Docs] BY <2>1, <2>2, EntryType
  <2> QED BY <1>3, <2>3, PermissionAssumption DEF Doc
<1> QED BY <1>2, <1>3

LEMMA DecideInv == ASSUME Inv, NEW r \in Requests, Decide(r) PROVE Inv'
<1> DEFINE got == req[r].got
           granted == req[r].asks \subseteq ReadPrivileges(got)
           Passing(t) == IF RowSecurity(got, t) = {} THEN Rows
                         ELSE UNION RowSecurity(got, t)
           shows == [t \in Types |-> IF granted /\ t \in req[r].asks
                                       THEN Passing(t) ELSE {}]
           new == [req[r] EXCEPT !.pc = IF granted THEN "rows" ELSE "denied",
                                 !.shows = shows]
<1>1. /\ req[r] \in ReqType /\ ReadOk(r) /\ got \in [Roles -> Nat]
  BY DEF Inv, Typed, ReqType
<1>2. \A q \in Roles : Doc(got[q]) \in DocType
  <2>1. \A q \in Roles : got[q] # 0 => got[q] \in DOMAIN stream
    BY <1>1 DEF ReadOk, Upd, Inv, Typed
  <2> QED BY <1>1, <2>1, DocType1
<1> HIDE DEF got
<1>3. shows \in [Types -> SUBSET Rows]
  <2>1. ASSUME NEW t \in Types PROVE Passing(t) \in SUBSET Rows
    <3>1. \A q \in Roles : Doc(got[q]).sets[t] \in SUBSET SUBSET Rows
      BY <1>2 DEF DocType
    <3>2. RowSecurity(got, t) \subseteq SUBSET Rows
      BY <3>1 DEF RowSecurity
    <3> QED BY <3>2
  <2> HIDE DEF Passing
  <2> QED BY <2>1
<1> HIDE DEF shows, granted
<1>4. /\ new \in ReqType /\ new.pc \in {"rows", "denied"}
      /\ new.todo = req[r].todo /\ new.got = req[r].got
      /\ new.known = req[r].known /\ new.stale = req[r].stale
      /\ new.newest = req[r].newest /\ new.calm = req[r].calm
  BY <1>1, <1>3 DEF ReqType, ReqPCs
<1>5. /\ req' = [req EXCEPT ![r] = new] /\ req[r].pc = "read"
      /\ req[r].todo = {}
      /\ UNCHANGED <<store, stream, offset, cache, start, crossed, starts>>
  BY <1>1 DEF Decide, got, granted, shows, Inv, Typed
<1> HIDE DEF new
<1>6. req'[r] = new BY <1>5 DEF Inv, Typed
<1>7. \A i, q : Upd(i, q)' <=> Upd(i, q) BY <1>5 DEF Upd
<1>8. \A x, q, k : AtLeast(x, q, k)' <=> AtLeast(x, q, k)
  BY <1>7 DEF AtLeast
<1>9. ReadOk(r)' /\ ToReadOk(r)'
  BY <1>1, <1>4, <1>5, <1>6, <1>7, <1>8 DEF ReadOk, ToReadOk, Served
<1> QED BY <1>4, <1>5, <1>9, RequestStep

LEMMA StepInv == Inv /\ [Next]_vars => Inv'
<1> SUFFICES ASSUME Inv, [Next]_vars PROVE Inv'
  OBVIOUS
<1>1. CASE \E q \in Roles, d \in Docs : Update(q, d) BY <1>1, UpdateInv
<1>2. CASE \E n \in Nodes : \/ Subscribe(n) \/ Consume(n) \/ QueryAll(n)
                            \/ Serve(n) \/ Stop(n)
                            \/ \E q \in Roles : Put(n, q)
  BY <1>2, SubscribeInv, ConsumeInv, QueryAllInv, ServeInv, StopInv, PutInv
<1>3. CASE \E r \in Requests :
             \/ Decide(r)
             \/ \E q \in Roles : ReadRole(r, q)
             \/ \E n \in Nodes, ts \in SUBSET Types \ {{}} : Arrive(r, n, ts)
  BY <1>3, DecideInv, ReadRoleInv, ArriveInv
<1>4. CASE UNCHANGED vars
  <2>1. \A i, q : Upd(i, q)' <=> Upd(i, q) BY <1>4 DEF vars, Upd
  <2>2. \A x, q, k : AtLeast(x, q, k)' <=> AtLeast(x, q, k)
    BY <2>1 DEF AtLeast
  <2>3. Typed' BY <1>4 DEF vars, Inv, Typed
  <2>4. \A q \in Roles : StoreOk(q)' BY <1>4, <2>1 DEF vars, Inv, StoreOk
  <2>5. \A n \in Nodes : NodeOk(n)'
    BY <1>4, <2>1, <2>2 DEF vars, Inv, NodeOk
  <2>6. ASSUME NEW r \in Requests PROVE (ReadOk(r) /\ ToReadOk(r))'
    <3>1. req[r].node \in Nodes /\ offset[req[r].node] \in Nat /\ ToReadOk(r)
      BY DEF Inv, Typed, ReqType
    <3> QED BY <1>4, <3>1, RequestKept DEF vars, ToReadOk
  <2> QED BY <2>3, <2>4, <2>5, <2>6 DEF Inv
<1> QED BY <1>1, <1>2, <1>3, <1>4 DEF Next

(* The strengthening is an invariant of the permissions.                   *)
THEOREM InvCorrect == Spec => []Inv
<1> QED BY InitInv, StepInv, PTL DEF Spec

-----------------------------------------------------------------------------
(* The variables keep their types, and a document is always under its      *)
(* role, in the cache and in what a request has read.                      *)
THEOREM TypeCorrect == Spec => []TypeOK
<1>1. ASSUME Inv PROVE TypeOK
  <2>1. \A i, q : Upd(i, q) => i \in DOMAIN stream /\ stream[i].role = q
    BY <1>1 DEF Upd, Inv, Typed
  <2>2. \A n \in Nodes : offset[n] <= Len(stream) BY <1>1 DEF Inv, NodeOk
  <2>3. \A q \in Roles : /\ \A n \in Nodes : IsDoc(cache[n][q], q)
                         /\ \A r \in Requests : IsDoc(req[r].got[q], q)
    BY <1>1, <2>1 DEF Inv, NodeOk, ReadOk, IsDoc
  <2> QED BY <1>1, <2>2, <2>3 DEF Inv, Typed, StartType, ReqType, TypeOK
<1> QED BY <1>1, InvCorrect, PTL

(* A node that serves and has consumed every update has the newest         *)
(* document of every role its start has not crossed.                       *)
THEOREM NodesHaveTheNewest == Spec => []CurrentUnlessCrossed
<1>1. ASSUME Inv, NEW n \in Nodes, NEW q \in Roles, start[n].pc = "up",
             offset[n] = Len(stream), q \notin crossed[n]
      PROVE cache[n][q] = store[q]
  <2>1. cache[n][q] \in Nat /\ store[q] \in Nat BY <1>1 DEF Inv, Typed
  <2>2. AtLeast(cache[n][q], q, offset[n]) BY <1>1 DEF Inv, NodeOk
  <2>3. cache[n][q] # 0 => Upd(cache[n][q], q) BY <1>1 DEF Inv, NodeOk
  <2>4. StoreOk(q) BY <1>1 DEF Inv
  <2>5. store[q] # 0 => store[q] <= cache[n][q]
    BY <1>1, <2>1, <2>2, <2>4 DEF AtLeast, StoreOk, Upd
  <2>6. cache[n][q] # 0 => cache[n][q] <= store[q]
    BY <2>1, <2>3, <2>4 DEF StoreOk
  <2> QED BY <2>1, <2>3, <2>4, <2>5, <2>6 DEF StoreOk
<1>2. Inv => CurrentUnlessCrossed BY <1>1 DEF CurrentUnlessCrossed
<1> QED BY <1>2, InvCorrect, PTL

(* What a node has consumed when a request comes decides the request, or   *)
(* something newer does: while other nodes and the start are at work, and  *)
(* while updates arrive between the roles of the user.                     *)
THEOREM RevokedStaysRevoked == Spec => []DecidedByWhatIsKnown
<1>1. ASSUME Inv, NEW r \in Requests, Served(r),
             NEW q \in RolesOf[r] \ req[r].stale, NEW i \in 1 .. req[r].known,
             stream[i].role = q
      PROVE i <= req[r].got[q]
  <2>1. /\ req[r].todo = {} /\ req[r].known <= Len(stream)
        /\ AtLeast(req[r].got[q], q, req[r].known)
    BY <1>1 DEF Inv, ReadOk, Served
  <2>2. req[r].known \in Nat /\ Len(stream) \in Nat
    BY <1>1 DEF Inv, Typed, ReqType
  <2> QED BY <1>1, <2>1, <2>2 DEF AtLeast, Upd
<1>2. Inv => DecidedByWhatIsKnown BY <1>1 DEF DecidedByWhatIsKnown
<1> QED BY <1>2, InvCorrect, PTL

-----------------------------------------------------------------------------
(* CalmAnswerIsTheStores, of one request.                                  *)
SomeRole(r) ==
  \A t \in req[r].asks : \E q \in RolesOf[r] : t \in Doc(req[r].newest[q]).read

Shown(r, t, x) ==
  \/ \E q \in RolesOf[r] : \E f \in Doc(req[r].newest[q]).sets[t] : x \in f
  \/ \A q \in RolesOf[r] : Doc(req[r].newest[q]).sets[t] = {}

AnswerOk(r) ==
  Served(r) /\ req[r].calm =>
    /\ req[r].pc = "rows" <=> SomeRole(r)
    /\ \A t \in req[r].asks, x \in Rows :
         x \in req[r].shows[t] <=> SomeRole(r) /\ Shown(r, t, x)

(* An answer stays right: the documents it was decided by do not change.   *)
LEMMA AnswerKept ==
  ASSUME Inv, NEW r \in Requests, AnswerOk(r), req'[r].calm => req[r].calm,
         req'[r].pc = req[r].pc, req'[r].newest = req[r].newest,
         req'[r].asks = req[r].asks, req'[r].shows = req[r].shows,
         \A i \in 1 .. Len(stream) : stream'[i] = stream[i]
  PROVE AnswerOk(r)'
<1>1. req[r].newest \in [Roles -> Nat] /\ ReadOk(r)
  BY DEF Inv, Typed, ReqType
<1> DEFINE d(q) == req[r].newest[q]
<1>2. \A q \in RolesOf[r] : d(q) = 0 \/ d(q) \in 1 .. Len(stream)
  BY <1>1, PermissionAssumption DEF ReadOk, Upd
<1>3. \A i : i = 0 \/ i \in 1 .. Len(stream) => Doc(i)' = Doc(i)
  BY DEF Doc
<1>4. \A q \in RolesOf[r] : Doc(d(q))' = Doc(d(q)) /\ d(q)' = d(q)
  BY <1>2, <1>3
<1>5. SomeRole(r)' <=> SomeRole(r) BY <1>4 DEF SomeRole
<1>6. \A t, x : Shown(r, t, x)' <=> Shown(r, t, x) BY <1>4 DEF Shown
<1> QED BY <1>5, <1>6 DEF AnswerOk, Served

LEMMA AnswerDecided ==
  ASSUME Inv, NEW r \in Requests, Decide(r) PROVE AnswerOk(r)'
<1> DEFINE got == req[r].got
           granted == req[r].asks \subseteq ReadPrivileges(got)
           Passing(t) == IF RowSecurity(got, t) = {} THEN Rows
                         ELSE UNION RowSecurity(got, t)
           shows == [t \in Types |-> IF granted /\ t \in req[r].asks
                                       THEN Passing(t) ELSE {}]
<1>1. /\ req[r] \in ReqType /\ ReadOk(r) /\ RolesOf[r] \subseteq Roles
      /\ req[r].asks \subseteq Types
  BY PermissionAssumption DEF Inv, Typed, ReqType
<1>2. /\ req'[r].pc = (IF granted THEN "rows" ELSE "denied")
      /\ req'[r].shows = shows
      /\ req'[r].asks = req[r].asks /\ req'[r].newest = req[r].newest
      /\ req'[r].calm = req[r].calm
      /\ UNCHANGED stream /\ req[r].pc = "read" /\ req[r].todo = {}
  BY <1>1 DEF Decide, ReqType, Inv, Typed
<1> SUFFICES ASSUME req[r].calm PROVE AnswerOk(r)'
  BY <1>2 DEF AnswerOk
<1>3. \A q \in RolesOf[r] : got[q] = req[r].newest[q]
  BY <1>1, <1>2 DEF ReadOk
<1>4. \A q \in Roles \ RolesOf[r] :
        /\ Doc(got[q]).read = {}
        /\ \A t \in Types : Doc(got[q]).sets[t] = {}
  <2>1. \A q \in Roles \ RolesOf[r] : got[q] = 0 BY <1>1 DEF ReadOk
  <2> QED BY <2>1 DEF Doc, Nothing
<1>5. \A i : Doc(i)' = Doc(i) BY <1>2 DEF Doc
<1>6. /\ SomeRole(r)' <=> SomeRole(r)
      /\ \A t, x : Shown(r, t, x)' <=> Shown(r, t, x)
  BY <1>2, <1>5 DEF SomeRole, Shown
<1>7. granted <=> SomeRole(r)
  BY <1>1, <1>3, <1>4 DEF ReadPrivileges, SomeRole
<1>8. ASSUME NEW t \in req[r].asks, NEW x \in Rows
      PROVE x \in Passing(t) <=> Shown(r, t, x)
  <2>1. t \in Types BY <1>1
  <2>2. RowSecurity(got, t) = {} <=>
          \A q \in RolesOf[r] : Doc(req[r].newest[q]).sets[t] = {}
    <3>1. RowSecurity(got, t) = {} <=> \A q \in Roles : Doc(got[q]).sets[t] = {}
      BY DEF RowSecurity
    <3> QED BY <1>1, <1>3, <1>4, <2>1, <3>1
  <2>3. x \in UNION RowSecurity(got, t) <=>
          \E q \in RolesOf[r] : \E f \in Doc(req[r].newest[q]).sets[t] : x \in f
    BY <1>1, <1>3, <1>4, <2>1 DEF RowSecurity
  <2> QED BY <2>2, <2>3 DEF Shown
<1> HIDE DEF granted, Passing
<1>9. ASSUME NEW t \in req[r].asks, NEW x \in Rows
      PROVE x \in shows[t] <=> granted /\ Shown(r, t, x)
  BY <1>1, <1>8
<1> HIDE DEF shows
<1> QED BY <1>2, <1>6, <1>7, <1>9 DEF AnswerOk

LEMMA AnswerStep ==
  Inv /\ (\A r \in Requests : AnswerOk(r)) /\ [Next]_vars
    => (\A r \in Requests : AnswerOk(r))'
<1> SUFFICES ASSUME Inv, \A s \in Requests : AnswerOk(s), [Next]_vars,
                    NEW r \in Requests
             PROVE AnswerOk(r)'
  OBVIOUS
<1>1. req \in [Requests -> ReqType] /\ req[r] \in ReqType
      /\ stream \in Seq([role : Roles, doc : Docs])
  BY DEF Inv, Typed
<1>2. CASE req'[r] = req[r] /\ \A i \in 1 .. Len(stream) : stream'[i] = stream[i]
  BY <1>2, AnswerKept
<1>3. CASE \E q \in Roles, d \in Docs : Update(q, d)
  BY <1>1, <1>2, <1>3 DEF Update
<1>4. CASE \E n \in Nodes : \/ Subscribe(n) \/ QueryAll(n) \/ Serve(n)
                            \/ \E q \in Roles : Put(n, q)
  BY <1>2, <1>4 DEF Subscribe, QueryAll, Serve, Put
<1>5. CASE \E n \in Nodes : Consume(n)
  <2>1. PICK n \in Nodes : Consume(n)
    BY <1>5
  <2> DEFINE p == stream[offset[n] + 1].role
  <2>2. Touch(n, p) /\ UNCHANGED stream
    BY <2>1 DEF Consume
  <2>3. req'[r] = [req[r] EXCEPT !.calm = @ /\ ~(req[r].pc = "read"
                     /\ req[r].node = n /\ p \in RolesOf[r])]
    BY <2>2 DEF Touch
  <2> QED BY <1>1, <2>2, <2>3, AnswerKept DEF ReqType
<1>6. CASE \E n \in Nodes : Stop(n)
  <2>1. UNCHANGED stream
        /\ (req'[r] = req[r] \/ req'[r] = [Idle EXCEPT !.pc = "lost"])
    BY <1>6 DEF Stop
  <2>2. [Idle EXCEPT !.pc = "lost"].pc = "lost" BY DEF Idle
  <2> QED BY <1>2, <2>1, <2>2 DEF AnswerOk, Served
<1>7. CASE \E s \in Requests \ {r} :
             \/ Decide(s)
             \/ \E q \in Roles : ReadRole(s, q)
             \/ \E n \in Nodes, ts \in SUBSET Types \ {{}} : Arrive(s, n, ts)
  BY <1>1, <1>2, <1>7 DEF Decide, ReadRole, Arrive
<1>8. CASE Decide(r) BY <1>8, AnswerDecided
<1>9. CASE \E q \in Roles : ReadRole(r, q)
  <2>1. req'[r].pc = "read" BY <1>1, <1>9 DEF ReadRole, ReqType
  <2> QED BY <2>1 DEF AnswerOk, Served
<1>10. CASE \E n \in Nodes, ts \in SUBSET Types \ {{}} : Arrive(r, n, ts)
  <2>1. req'[r].pc = "read" BY <1>1, <1>10 DEF Arrive, Idle
  <2> QED BY <2>1 DEF AnswerOk, Served
<1>11. CASE UNCHANGED vars BY <1>2, <1>11 DEF vars
<1> QED BY <1>3, <1>4, <1>5, <1>6, <1>7, <1>8, <1>9, <1>10, <1>11 DEF Next

(* A request that finds and leaves the cache current shows what the        *)
(* store's documents of the user's roles let it show, no more and no less. *)
THEOREM CalmAnswers == Spec => []CalmAnswerIsTheStores
<1>1. Init => \A r \in Requests : AnswerOk(r)
  BY DEF Init, AnswerOk, Served, Idle
<1>2. (\A r \in Requests : AnswerOk(r)) => CalmAnswerIsTheStores
  <2> SUFFICES ASSUME \A s \in Requests : AnswerOk(s), NEW r \in Requests,
                      Served(r) /\ req[r].calm
               PROVE LET doc == [q \in RolesOf[r] |-> Doc(req[r].newest[q])]
                         some == \A t \in req[r].asks :
                                   \E q \in RolesOf[r] : t \in doc[q].read
                     IN  /\ req[r].pc = "rows" <=> some
                         /\ \A t \in req[r].asks, x \in Rows :
                              x \in req[r].shows[t] <=>
                                /\ some
                                /\ \/ \E q \in RolesOf[r] :
                                        \E f \in doc[q].sets[t] : x \in f
                                   \/ \A q \in RolesOf[r] : doc[q].sets[t] = {}
    BY DEF CalmAnswerIsTheStores
  <2> DEFINE doc == [q \in RolesOf[r] |-> Doc(req[r].newest[q])]
  <2>1. \A q \in RolesOf[r] : doc[q] = Doc(req[r].newest[q])
    OBVIOUS
  <2> HIDE DEF doc
  <2>2. SomeRole(r) <=> \A t \in req[r].asks :
                          \E q \in RolesOf[r] : t \in doc[q].read
    BY <2>1 DEF SomeRole
  <2>3. \A t, x : Shown(r, t, x) <=>
          \/ \E q \in RolesOf[r] : \E f \in doc[q].sets[t] : x \in f
          \/ \A q \in RolesOf[r] : doc[q].sets[t] = {}
    BY <2>1 DEF Shown
  <2>4. AnswerOk(r) OBVIOUS
  <2>5. /\ req[r].pc = "rows" <=> SomeRole(r)
        /\ \A t \in req[r].asks, x \in Rows :
             x \in req[r].shows[t] <=> SomeRole(r) /\ Shown(r, t, x)
    BY <2>4 DEF AnswerOk
  <2> QED BY <2>2, <2>3, <2>5 DEF doc
<1> QED BY <1>1, <1>2, InvCorrect, AnswerStep, PTL DEF Spec
=============================================================================
