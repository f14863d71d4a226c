------------------------ MODULE NamedQueries_proofs ------------------------
(***************************************************************************)
(* Proofs about named queries: the catalogue of their texts, for any       *)
(* number of nodes, names, requests, updates and restarts; and the run of  *)
(* one, for any texts and variables, size of a payload and number of rows. *)
(***************************************************************************)
EXTENDS QueryCatalog, QueryRun, InductionFacts

(***************************************************************************)
(* The catalogue: a node that has consumed every update runs the newest    *)
(* text of every name, unless a request's put crossed an update.           *)
(***************************************************************************)

ReqType ==
  [pc : PCs, node : Nodes, wants : SUBSET Names, list : BOOLEAN,
   since : Nat, at : Nat, got : [Names -> Nat], todo : SUBSET Names,
   answer : Answers, names : SUBSET Names]

Types ==
  /\ stream \in Seq(Names) /\ store \in [Names -> Nat]
  /\ offset \in [Nodes -> Nat]
  /\ queryMap \in [Nodes -> [Names -> Nat]]
  /\ crossed \in [Nodes -> SUBSET Names] /\ restarts \in Nat
  /\ req \in [Requests -> ReqType]

OffsetInStream ==
  /\ \A n \in Nodes : offset[n] <= Len(stream)
  /\ \A r \in Requests :
       req[r].at <= Len(stream) /\ req[r].since <= Len(stream)

(* i is the position of an update of q. *)
Text(i, q) == i \in 1 .. Len(stream) /\ stream[i] = q

StoreIsNewest ==
  \A q \in Names : /\ store[q] # 0 => Text(store[q], q)
                   /\ \A i \in Nat : Text(i, q) => i <= store[q]

MapHoldsTexts ==
  \A n \in Nodes, q \in Names : queryMap[n][q] # 0 => Text(queryMap[n][q], q)

(* What a request is about to put is as new as what the node had consumed  *)
(* when the request queried the store.                                     *)
FillIsRecent ==
  \A r \in Requests : req[r].pc = "put" => \A q \in req[r].todo :
    /\ Text(req[r].got[q], q)
    /\ \A i \in Nat : Text(i, q) /\ i <= req[r].at => i <= req[r].got[q]

(* What is not crossed is as new as what the node has consumed. *)
MapIsConsumed ==
  \A n \in Nodes, q \in Names : queryMap[n][q] # 0 /\ q \notin crossed[n] =>
    \A i \in Nat : Text(i, q) /\ i <= offset[n] => i <= queryMap[n][q]

(* TypeOK in parts, and why a map that is not crossed is current.          *)
Inv ==
  /\ Types /\ OffsetInStream /\ StoreIsNewest /\ MapHoldsTexts
  /\ FillIsRecent /\ MapIsConsumed

-----------------------------------------------------------------------------
LEMMA IdleType == Idle \in ReqType
<1>1. (CHOOSE n \in Nodes : TRUE) \in Nodes
  BY CatalogAssumption
<1>2. [q \in Names |-> 0] \in [Names -> Nat]
  OBVIOUS
<1> QED BY <1>1, <1>2 DEF Idle, ReqType, PCs, Answers

LEMMA InitInv == ASSUME Init PROVE Inv
<1>1. Types BY IdleType DEF Init, Types
<1>2. stream = <<>> /\ Len(stream) = 0 BY DEF Init
<1>3. \A r \in Requests : req[r].pc = "idle" BY DEF Init, Idle
<1>4. OffsetInStream BY <1>2 DEF Init, OffsetInStream, Idle
<1>5. StoreIsNewest BY <1>2 DEF Init, StoreIsNewest, Text
<1>6. MapHoldsTexts /\ MapIsConsumed
  BY <1>2 DEF Init, MapHoldsTexts, MapIsConsumed
<1>7. FillIsRecent BY <1>3 DEF FillIsRecent
<1> QED BY <1>1, <1>4, <1>5, <1>6, <1>7 DEF Inv

(* A step of one request that leaves the stream, the store and the maps.   *)
LEMMA ReqStep ==
  ASSUME Inv, NEW r \in Requests, NEW new \in ReqType,
         req' = [req EXCEPT ![r] = new],
         UNCHANGED <<store, stream, offset, queryMap, crossed, restarts>>,
         new.at <= Len(stream), new.since <= Len(stream),
         new.pc = "put" => \A q \in new.todo :
           /\ Text(new.got[q], q)
           /\ \A i \in Nat : Text(i, q) /\ i <= new.at => i <= new.got[q]
  PROVE Inv'
<1>1. Types' BY DEF Inv, Types
<1>2. \A i, q : Text(i, q)' <=> Text(i, q) BY DEF Text
<1>3. OffsetInStream'
  <2>1. \A s \in Requests : req'[s] = IF s = r THEN new ELSE req[s]
    BY DEF Inv, Types
  <2> QED BY <2>1 DEF Inv, OffsetInStream
<1>4. StoreIsNewest' BY <1>2 DEF Inv, StoreIsNewest
<1>5. MapHoldsTexts' /\ MapIsConsumed'
  BY <1>2 DEF Inv, MapHoldsTexts, MapIsConsumed
<1>6. FillIsRecent'
  <2> SUFFICES ASSUME NEW s \in Requests, req'[s].pc = "put",
                      NEW q \in req'[s].todo
               PROVE /\ Text(req'[s].got[q], q)
                     /\ \A i \in Nat : Text(i, q) /\ i <= req'[s].at
                                         => i <= req'[s].got[q]
    BY <1>2 DEF FillIsRecent
  <2>1. CASE s = r
    <3>1. req'[s] = new BY <2>1 DEF Inv, Types
    <3> QED BY <3>1
  <2>2. CASE s # r
    <3>1. req'[s] = req[s] BY <2>2 DEF Inv, Types
    <3> QED BY <3>1 DEF Inv, FillIsRecent
  <2> QED BY <2>1, <2>2
<1> QED BY <1>1, <1>3, <1>4, <1>5, <1>6 DEF Inv

LEMMA UpdateInv ==
  ASSUME Inv, NEW q \in Names, Update(q) PROVE Inv'
<1> USE DEF Update
<1>1. /\ stream \in Seq(Names) /\ Len(stream) \in Nat
      /\ stream' = Append(stream, q) /\ Len(stream') = Len(stream) + 1
  BY DEF Inv, Types
<1>2. \A i \in Nat, p \in Names :
        Text(i, p)' <=> Text(i, p) \/ (i = Len(stream) + 1 /\ p = q)
  BY <1>1 DEF Text
<1>3. Types' BY <1>1 DEF Inv, Types
<1>4. OffsetInStream'
  BY <1>1 DEF Inv, OffsetInStream, Types, ReqType
<1>5. StoreIsNewest'
  <2> SUFFICES ASSUME NEW p \in Names
               PROVE /\ store'[p] # 0 => Text(store[p], p)'
                     /\ \A i \in Nat : Text(i, p)' => i <= store'[p]
    BY DEF StoreIsNewest
  <2>1. store[p] \in Nat BY DEF Inv, Types
  <2>0. store'[p] \in Nat BY <1>3 DEF Types
  <2>2. /\ store[p] # 0 => Text(store[p], p)
        /\ \A i \in Nat : Text(i, p) => i <= store[p]
    BY DEF Inv, StoreIsNewest
  <2>3. CASE p = q
    <3>1. store'[p] = Len(stream) + 1 BY <2>3 DEF Inv, Types
    <3>2. \A i \in Nat : Text(i, p) => i <= Len(stream) BY DEF Text
    <3>3. Text(store[p], p)' BY <1>1, <2>3, <3>1 DEF Text
    <3>4. ASSUME NEW i \in Nat, Text(i, p)' PROVE i <= store'[p]
      <4>1. Text(i, p) \/ i = Len(stream) + 1 BY <1>2, <3>4
      <4> QED BY <1>1, <4>1, <3>1, <3>2
    <3> QED BY <3>3, <3>4
  <2>4. CASE p # q
    <3>1. store'[p] = store[p] BY <2>4 DEF Inv, Types
    <3>2. store'[p] # 0 => Text(store[p], p)'
      BY <1>1, <2>1, <2>2, <3>1 DEF Text
    <3>3. ASSUME NEW i \in Nat, Text(i, p)' PROVE i <= store'[p]
      BY <1>2, <2>2, <2>4, <3>1, <3>3
    <3> QED BY <3>2, <3>3
  <2> QED BY <2>3, <2>4
<1>6. MapHoldsTexts'
  <2> SUFFICES ASSUME NEW n \in Nodes, NEW p \in Names, queryMap[n][p] # 0
               PROVE Text(queryMap[n][p], p)'
    BY DEF MapHoldsTexts
  <2>1. queryMap[n][p] \in Nat /\ Text(queryMap[n][p], p)
    BY DEF Inv, Types, MapHoldsTexts
  <2> QED BY <1>2, <2>1
<1>7. FillIsRecent'
  <2> SUFFICES ASSUME NEW s \in Requests, req[s].pc = "put",
                      NEW p \in req[s].todo
               PROVE /\ Text(req[s].got[p], p)'
                     /\ \A i \in Nat : Text(i, p)' /\ i <= req[s].at
                                         => i <= req[s].got[p]
    BY DEF FillIsRecent
  <2>1. p \in Names /\ req[s].got[p] \in Nat /\ req[s].at \in Nat
    BY DEF Inv, Types, ReqType
  <2>2. /\ Text(req[s].got[p], p)
        /\ \A i \in Nat : Text(i, p) /\ i <= req[s].at => i <= req[s].got[p]
    BY DEF Inv, FillIsRecent
  <2>3. req[s].at <= Len(stream) BY DEF Inv, OffsetInStream
  <2> QED BY <1>1, <1>2, <2>1, <2>2, <2>3
<1>8. MapIsConsumed'
  <2> SUFFICES ASSUME NEW n \in Nodes, NEW p \in Names,
                      queryMap[n][p] # 0, p \notin crossed[n],
                      NEW i \in Nat, Text(i, p)', i <= offset[n]
               PROVE i <= queryMap[n][p]
    BY DEF MapIsConsumed
  <2>1. i <= Len(stream) /\ offset[n] \in Nat
    BY <1>1 DEF Inv, Types, OffsetInStream
  <2>2. Text(i, p) BY <1>1, <1>2, <2>1
  <2> QED BY <2>2 DEF Inv, MapIsConsumed
<1> QED BY <1>3, <1>4, <1>5, <1>6, <1>7, <1>8 DEF Inv

LEMMA RequestInv ==
  ASSUME Inv, NEW r \in Requests,
         \/ QueryStore(r) \/ QueryFails(r) \/ Get(r)
         \/ \E n \in Nodes : ArriveList(r, n)
         \/ \E n \in Nodes, q \in Names : Arrive(r, n, q)
  PROVE Inv'
<1>1. req \in [Requests -> ReqType] /\ req[r] \in ReqType
  BY DEF Inv, Types
<1>2. Len(stream) \in Nat /\ \A n \in Nodes : offset[n] \in Nat /\ offset[n] <= Len(stream)
  BY DEF Inv, Types, OffsetInStream
<1>3. CASE \E n \in Nodes : ArriveList(r, n)
  <2>1. PICK n \in Nodes : ArriveList(r, n) BY <1>3
  <2> DEFINE new ==
        [Idle EXCEPT !.node = n, !.wants = Names, !.since = Len(stream),
                     !.at = offset[n], !.list = TRUE,
                     !.pc = IF Known(n) # {} THEN "get" ELSE "query"]
  <2>2. new \in ReqType /\ new.pc # "put" /\ new.at = offset[n]
       /\ new.since = Len(stream)
    BY IdleType, <1>2 DEF ReqType, PCs
  <2>3. req' = [req EXCEPT ![r] = new]
        /\ UNCHANGED <<store, stream, offset, queryMap, crossed, restarts>>
    BY <2>1 DEF ArriveList
  <2> HIDE DEF new
  <2>4. new.at <= Len(stream) /\ new.since <= Len(stream) BY <1>2, <2>2
  <2> QED BY <2>2, <2>3, <2>4, ReqStep
<1>4. CASE \E n \in Nodes, q \in Names : Arrive(r, n, q)
  <2>1. PICK n \in Nodes, q \in Names : Arrive(r, n, q) BY <1>4
  <2> DEFINE new ==
        [Idle EXCEPT !.node = n, !.wants = {q}, !.since = Len(stream),
                     !.at = offset[n],
                     !.pc = IF q \in Known(n) THEN "get" ELSE "query"]
  <2>2. new \in ReqType /\ new.pc # "put" /\ new.at = offset[n]
       /\ new.since = Len(stream)
    BY IdleType, <1>2 DEF ReqType, PCs
  <2>3. req' = [req EXCEPT ![r] = new]
        /\ UNCHANGED <<store, stream, offset, queryMap, crossed, restarts>>
    BY <2>1 DEF Arrive
  <2> HIDE DEF new
  <2>4. new.at <= Len(stream) /\ new.since <= Len(stream) BY <1>2, <2>2
  <2> QED BY <2>2, <2>3, <2>4, ReqStep
<1>5. CASE QueryFails(r)
  <2> DEFINE new == [req[r] EXCEPT !.pc = "done", !.answer = "failed"]
  <2>2. new \in ReqType /\ new.pc # "put" /\ new.at = req[r].at
       /\ new.since = req[r].since
    BY <1>1 DEF ReqType, PCs, Answers
  <2>3. req' = [req EXCEPT ![r] = new]
        /\ UNCHANGED <<store, stream, offset, queryMap, crossed, restarts>>
    BY <1>1, <1>5 DEF QueryFails, ReqType
  <2> HIDE DEF new
  <2>4. new.at <= Len(stream) /\ new.since <= Len(stream)
    BY <2>2 DEF Inv, OffsetInStream
  <2> QED BY <2>2, <2>3, <2>4, ReqStep
<1>6. CASE Get(r)
  <2> DEFINE n == req[r].node
             new == [req[r] EXCEPT !.pc = "done",
                       !.names = IF req[r].list THEN Known(n) ELSE {},
                       !.answer = IF req[r].list THEN "names"
                                  ELSE IF req[r].wants \subseteq Known(n)
                                  THEN "text" ELSE "broken"]
  <2>1. Known(n) \subseteq Names BY DEF Known
  <2> HIDE DEF n
  <2>2. new \in ReqType /\ new.pc # "put" /\ new.at = req[r].at
       /\ new.since = req[r].since
    BY <1>1, <2>1 DEF ReqType, PCs, Answers
  <2>3. req' = [req EXCEPT ![r] = new]
        /\ UNCHANGED <<store, stream, offset, queryMap, crossed, restarts>>
    BY <1>1, <1>6 DEF Get, ReqType, n
  <2> HIDE DEF new
  <2>4. new.at <= Len(stream) /\ new.since <= Len(stream)
    BY <2>2 DEF Inv, OffsetInStream
  <2> QED BY <2>2, <2>3, <2>4, ReqStep
<1>7. CASE QueryStore(r)
  <2> DEFINE o == offset[req[r].node]
             found == req[r].wants \cap Stored
             new == [req[r] EXCEPT
                       !.got = store, !.at = o, !.todo = found,
                       !.pc = IF found # {} THEN "put"
                              ELSE IF req[r].list THEN "get" ELSE "done",
                       !.answer = IF found = {} /\ ~req[r].list
                                  THEN "notFound" ELSE "none"]
  <2>1. /\ o \in Nat /\ o <= Len(stream) /\ store \in [Names -> Nat]
        /\ found \subseteq Names /\ \A q \in found : store[q] # 0
    BY <1>1, <1>2 DEF Inv, Types, ReqType, Stored
  <2> HIDE DEF o, found
  <2>2. /\ new \in ReqType /\ new.at = o /\ new.got = store
        /\ new.todo = found /\ new.since = req[r].since
    BY <1>1, <2>1 DEF ReqType, PCs, Answers
  <2>3. req' = [req EXCEPT ![r] = new]
        /\ UNCHANGED <<store, stream, offset, queryMap, crossed, restarts>>
    BY <1>1, <1>7 DEF QueryStore, ReqType, o, found
  <2> HIDE DEF new
  <2>4. \A q \in new.todo :
          /\ Text(new.got[q], q)
          /\ \A i \in Nat : Text(i, q) /\ i <= new.at => i <= new.got[q]
    BY <2>1, <2>2 DEF Inv, StoreIsNewest
  <2>5. new.since <= Len(stream) BY <2>2 DEF Inv, OffsetInStream
  <2> QED BY <2>1, <2>2, <2>3, <2>4, <2>5, ReqStep
<1> QED BY <1>3, <1>4, <1>5, <1>6, <1>7

LEMMA ConsumeInv ==
  ASSUME Inv, NEW n \in Nodes, Consume(n) PROVE Inv'
<1> DEFINE o == offset[n] + 1
           q == stream[o]
<1>1. /\ offset[n] \in Nat /\ Len(stream) \in Nat /\ o \in 1 .. Len(stream)
      /\ q \in Names
  BY DEF Consume, Inv, Types, OffsetInStream
<1>2. /\ UNCHANGED <<store, stream, req, restarts>>
      /\ \A m \in Nodes : offset'[m] = IF m = n THEN o ELSE offset[m]
      /\ \A m \in Nodes, p \in Names :
           queryMap'[m][p] = IF m = n /\ p = q THEN o ELSE queryMap[m][p]
      /\ \A m \in Nodes :
           crossed'[m] = IF m = n THEN crossed[m] \ {q} ELSE crossed[m]
  BY DEF Consume, Inv, Types
<1>3. Types' BY <1>1 DEF Consume, Inv, Types
<1>4. \A i, p : Text(i, p)' <=> Text(i, p) BY <1>2 DEF Text
<1>5. Text(o, q) BY <1>1 DEF Text
<1> HIDE DEF q, o
<1>6. OffsetInStream' BY <1>1, <1>2 DEF Inv, OffsetInStream
<1>7. StoreIsNewest' BY <1>2, <1>4 DEF Inv, StoreIsNewest
<1>8. FillIsRecent' BY <1>2, <1>4 DEF Inv, FillIsRecent
<1>9. MapHoldsTexts'
  BY <1>2, <1>4, <1>5 DEF Inv, MapHoldsTexts
<1>10. MapIsConsumed'
  <2> SUFFICES ASSUME NEW m \in Nodes, NEW p \in Names,
                      queryMap'[m][p] # 0, p \notin crossed'[m],
                      NEW i \in Nat, Text(i, p), i <= offset'[m]
               PROVE i <= queryMap'[m][p]
    BY <1>4 DEF MapIsConsumed
  <2>1. queryMap[m][p] \in Nat BY DEF Inv, Types
  <2>2. CASE m = n /\ p = q BY <1>1, <1>2, <2>2
  <2>3. CASE m = n /\ p # q
    <3>1. i # o
      <4>1. ~Text(o, p) BY <1>5, <2>3 DEF Text
      <4> QED BY <4>1
    <3>2. i <= offset[m] BY <1>1, <1>2, <2>3, <3>1 DEF o
    <3>3. queryMap[m][p] # 0 /\ p \notin crossed[m] BY <1>2, <2>3
    <3> QED BY <1>2, <2>3, <3>2, <3>3 DEF Inv, MapIsConsumed
  <2>4. CASE m # n BY <1>2, <2>4 DEF Inv, MapIsConsumed
  <2> QED BY <2>2, <2>3, <2>4
<1> QED BY <1>3, <1>6, <1>7, <1>8, <1>9, <1>10 DEF Inv

LEMMA ConsumeLostInv ==
  ASSUME Inv, NEW n \in Nodes, ConsumeLost(n) PROVE Inv'
<1> DEFINE o == offset[n] + 1
           q == stream[o]
<1>1. /\ offset[n] \in Nat /\ Len(stream) \in Nat /\ o \in 1 .. Len(stream)
      /\ q \in Names
  BY DEF ConsumeLost, Inv, Types, OffsetInStream
<1>2. /\ UNCHANGED <<store, stream, req, restarts, queryMap>>
      /\ \A m \in Nodes : offset'[m] = IF m = n THEN o ELSE offset[m]
      /\ \A m \in Nodes : crossed'[m] = IF m = n THEN crossed[m] \cup {q} ELSE crossed[m]
  BY DEF ConsumeLost, Inv, Types
<1>3. Types' BY <1>1, <1>2 DEF ConsumeLost, Inv, Types
<1>4. \A i, p : Text(i, p)' <=> Text(i, p) BY <1>2 DEF Text
<1>5. Text(o, q) BY <1>1 DEF Text
<1> HIDE DEF q, o
<1>6. OffsetInStream' BY <1>1, <1>2 DEF Inv, OffsetInStream
<1>7. StoreIsNewest' /\ FillIsRecent' /\ MapHoldsTexts'
  BY <1>2, <1>4 DEF Inv, StoreIsNewest, FillIsRecent, MapHoldsTexts
<1>8. MapIsConsumed'
  <2> SUFFICES ASSUME NEW m \in Nodes, NEW p \in Names,
                      queryMap[m][p] # 0, p \notin crossed'[m],
                      NEW i \in Nat, Text(i, p), i <= offset'[m]
               PROVE i <= queryMap[m][p]
    BY <1>2, <1>4 DEF MapIsConsumed
  <2>1. CASE m = n
    <3>1. p # q /\ p \notin crossed[m] BY <1>2, <2>1
    <3>2. i # o
      <4>1. ~Text(o, p) BY <1>5, <3>1 DEF Text
      <4> QED BY <4>1
    <3>3. i <= offset[m] BY <1>1, <1>2, <2>1, <3>2 DEF o
    <3> QED BY <3>1, <3>3 DEF Inv, MapIsConsumed
  <2>2. CASE m # n BY <1>2, <2>2 DEF Inv, MapIsConsumed
  <2> QED BY <2>1, <2>2
<1> QED BY <1>3, <1>6, <1>7, <1>8 DEF Inv

(* What both puts do to the request. *)
LEMMA PutDoneReq ==
  ASSUME Inv, NEW r \in Requests, NEW q \in Names, PutDone(r, q),
         req[r].pc = "put", q \in req[r].todo
  PROVE /\ req' \in [Requests -> ReqType]
        /\ \A s \in Requests :
             /\ req'[s].at = req[s].at /\ req'[s].since = req[s].since
             /\ req'[s].got = req[s].got
             /\ req'[s].todo \subseteq req[s].todo
             /\ req'[s].pc = "put" => req[s].pc = "put"
             /\ req'[s].wants = req[s].wants
             /\ req'[s].answer = req[s].answer
<1>1. req \in [Requests -> ReqType] /\ req[r] \in ReqType
  BY DEF Inv, Types
<1> DEFINE new == [req[r] EXCEPT !.todo = @ \ {q},
                     !.pc = IF req[r].todo = {q} THEN "get" ELSE "put"]
<1>2. /\ new \in ReqType /\ new.at = req[r].at /\ new.since = req[r].since
      /\ new.got = req[r].got /\ new.todo \subseteq req[r].todo
      /\ new.wants = req[r].wants /\ new.answer = req[r].answer
  BY <1>1 DEF ReqType, PCs
<1>3. req' = [req EXCEPT ![r] = new]
  BY <1>1 DEF PutDone, ReqType
<1> HIDE DEF new
<1>4. \A s \in Requests : req'[s] = IF s = r THEN new ELSE req[s]
  BY <1>1, <1>3
<1>5. req' \in [Requests -> ReqType] BY <1>1, <1>2, <1>3
<1> QED BY <1>2, <1>4, <1>5

LEMMA PutInv ==
  ASSUME Inv, NEW r \in Requests, NEW q \in Names,
         Put(r, q) \/ PutLost(r, q)
  PROVE Inv'
<1>1. /\ UNCHANGED <<store, stream, offset, restarts>>
      /\ req[r].pc = "put" /\ q \in req[r].todo /\ PutDone(r, q)
  BY DEF Put, PutLost
<1>2. /\ req' \in [Requests -> ReqType]
      /\ \A s \in Requests :
             /\ req'[s].at = req[s].at /\ req'[s].since = req[s].since
             /\ req'[s].got = req[s].got
             /\ req'[s].todo \subseteq req[s].todo
             /\ req'[s].pc = "put" => req[s].pc = "put"
  BY <1>1, PutDoneReq
<1>3. \A i, p : Text(i, p)' <=> Text(i, p) BY <1>1 DEF Text
<1>4. OffsetInStream' /\ StoreIsNewest' /\ FillIsRecent'
  <2>1. OffsetInStream' BY <1>1, <1>2 DEF Inv, OffsetInStream
  <2>2. StoreIsNewest' BY <1>1, <1>3 DEF Inv, StoreIsNewest
  <2>3. FillIsRecent' BY <1>2, <1>3 DEF Inv, FillIsRecent
  <2> QED BY <2>1, <2>2, <2>3
<1>5. CASE PutLost(r, q)
  <2>1. UNCHANGED <<queryMap, crossed>> BY <1>5 DEF PutLost
  <2>2. Types' BY <1>1, <1>2, <2>1 DEF Inv, Types
  <2>3. MapHoldsTexts' /\ MapIsConsumed'
    BY <1>1, <1>3, <2>1 DEF Inv, MapHoldsTexts, MapIsConsumed
  <2> QED BY <1>4, <2>2, <2>3 DEF Inv
<1>6. CASE Put(r, q)
  <2> DEFINE n == req[r].node
             t == req[r].got[q]
  <2>1. n \in Nodes /\ t \in Nat /\ req[r].at \in Nat
    BY DEF Inv, Types, ReqType
  <2>2. /\ \A m \in Nodes, p \in Names :
             queryMap'[m][p] = IF m = n /\ p = q THEN t ELSE queryMap[m][p]
        /\ queryMap' \in [Nodes -> [Names -> Nat]]
    BY <1>6, <2>1 DEF Put, Inv, Types
  <2>3. /\ \A m \in Nodes : crossed'[m] =
             IF m # n THEN crossed[m]
             ELSE IF Overtaken(r, q) THEN crossed[m] \cup {q}
             ELSE crossed[m] \ {q}
        /\ crossed' \in [Nodes -> SUBSET Names]
    BY <1>6, <2>1 DEF Put, Inv, Types
  <2>4. /\ Text(t, q)
        /\ \A i \in Nat : Text(i, q) /\ i <= req[r].at => i <= t
    BY <1>1 DEF Inv, FillIsRecent
  <2>5. ~Overtaken(r, q) =>
          \A i \in Nat : Text(i, q) /\ i <= offset[n] => i <= t
    <3> SUFFICES ASSUME ~Overtaken(r, q), NEW i \in Nat, Text(i, q),
                        i <= offset[n], ~(i <= t)
                 PROVE FALSE
      OBVIOUS
    <3>1. i > req[r].at BY <2>1, <2>4
    <3>2. offset[n] \in Nat BY <2>1 DEF Inv, Types
    <3>3. i \in req[r].at + 1 .. offset[n] BY <2>1, <3>1, <3>2
    <3>4. i > t BY <2>1
    <3> QED BY <3>3, <3>4 DEF Overtaken, Text
  <2> HIDE DEF n, t
  <2>6. Types' BY <1>1, <1>2, <2>2, <2>3 DEF Inv, Types
  <2>7. MapHoldsTexts' BY <1>3, <2>2, <2>4 DEF Inv, MapHoldsTexts
  <2>8. MapIsConsumed'
    <3> SUFFICES ASSUME NEW m \in Nodes, NEW p \in Names,
                        queryMap'[m][p] # 0, p \notin crossed'[m],
                        NEW i \in Nat, Text(i, p), i <= offset[m]
                 PROVE i <= queryMap'[m][p]
      BY <1>1, <1>3 DEF MapIsConsumed
    <3>1. CASE m = n /\ p = q
      <4>1. ~Overtaken(r, q) BY <2>3, <3>1
      <4> QED BY <2>2, <2>5, <3>1, <4>1
    <3>2. CASE ~(m = n /\ p = q)
      <4>1. queryMap'[m][p] = queryMap[m][p] BY <2>2, <3>2
      <4>2. p \notin crossed[m] BY <2>3, <3>2
      <4> QED BY <4>1, <4>2 DEF Inv, MapIsConsumed
    <3> QED BY <3>1, <3>2
  <2> QED BY <1>4, <2>6, <2>7, <2>8 DEF Inv
<1> QED BY <1>5, <1>6

LEMMA RestartInv ==
  ASSUME Inv, NEW n \in Nodes, Restart(n) PROVE Inv'
<1>1. PICK o \in {offset[n], IF offset[n] = 0 THEN 0 ELSE offset[n] - 1} :
        offset' = [offset EXCEPT ![n] = o]
  BY DEF Restart
<1>2. offset[n] \in Nat /\ o \in Nat /\ o <= offset[n]
  BY <1>1 DEF Inv, Types
<1>3. /\ UNCHANGED <<store, stream>>
      /\ \A m \in Nodes : offset'[m] = IF m = n THEN o ELSE offset[m]
      /\ \A m \in Nodes : crossed'[m] = IF m = n THEN {} ELSE crossed[m]
      /\ \A m \in Nodes, p \in Names :
           queryMap'[m][p] = IF m = n THEN 0 ELSE queryMap[m][p]
  <2>1. UNCHANGED <<store, stream>> BY DEF Restart
  <2>2. \A m \in Nodes : offset'[m] = IF m = n THEN o ELSE offset[m]
    BY <1>1 DEF Inv, Types
  <2>3. \A m \in Nodes : crossed'[m] = IF m = n THEN {} ELSE crossed[m]
    BY DEF Restart, Inv, Types
  <2>4. \A m \in Nodes, p \in Names :
           queryMap'[m][p] = IF m = n THEN 0 ELSE queryMap[m][p]
    BY DEF Restart, Inv, Types
  <2> QED BY <2>1, <2>2, <2>3, <2>4
<1> DEFINE dead == [Idle EXCEPT !.pc = "done"]
<1>4. dead \in ReqType /\ dead.pc = "done" /\ dead.at = 0 /\ dead.since = 0
  BY IdleType DEF ReqType, PCs, Idle
<1> HIDE DEF dead
<1>5. req' = [r \in Requests |-> IF req[r].pc # "idle" /\ req[r].node = n
                                   THEN dead ELSE req[r]]
  BY DEF Restart, dead
<1>6. \A r \in Requests : req'[r] = dead \/ req'[r] = req[r]
  BY <1>5
<1>7. Types'
  <2>1. req' \in [Requests -> ReqType] BY <1>4, <1>5 DEF Inv, Types
  <2>2. queryMap' \in [Nodes -> [Names -> Nat]] BY DEF Restart, Inv, Types
  <2>3. offset' \in [Nodes -> Nat] /\ crossed' \in [Nodes -> SUBSET Names]
        /\ restarts' \in Nat
    BY <1>1, <1>2 DEF Restart, Inv, Types
  <2> QED BY <1>3, <2>1, <2>2, <2>3 DEF Inv, Types
<1>8. \A i, p : Text(i, p)' <=> Text(i, p) BY <1>3 DEF Text
<1>9. OffsetInStream'
  <2>1. Len(stream) \in Nat /\ Len(stream') = Len(stream)
    BY <1>3 DEF Inv, Types
  <2>2. ASSUME NEW m \in Nodes PROVE offset'[m] <= Len(stream)
    <3>1. offset[m] \in Nat /\ offset[m] <= Len(stream)
      BY DEF Inv, Types, OffsetInStream
    <3> QED BY <1>2, <1>3, <2>1, <3>1
  <2>3. ASSUME NEW r \in Requests
        PROVE req'[r].at <= Len(stream) /\ req'[r].since <= Len(stream)
    BY <1>4, <1>6, <2>1 DEF Inv, OffsetInStream
  <2> QED BY <2>1, <2>2, <2>3 DEF OffsetInStream
<1>10. StoreIsNewest' BY <1>3, <1>8 DEF Inv, StoreIsNewest
<1>11. MapHoldsTexts' /\ MapIsConsumed'
  <2>1. MapHoldsTexts' BY <1>3, <1>8 DEF Inv, MapHoldsTexts
  <2>2. ASSUME NEW m \in Nodes, NEW p \in Names, queryMap'[m][p] # 0,
               p \notin crossed'[m], NEW i \in Nat, Text(i, p),
               i <= offset'[m]
        PROVE i <= queryMap'[m][p]
    <3>1. m # n BY <1>3, <2>2
    <3>2. /\ offset'[m] = offset[m] /\ crossed'[m] = crossed[m]
          /\ queryMap'[m][p] = queryMap[m][p]
      BY <1>3, <3>1
    <3> QED BY <2>2, <3>2 DEF Inv, MapIsConsumed
  <2>3. MapIsConsumed' BY <1>8, <2>2 DEF MapIsConsumed
  <2> QED BY <2>1, <2>3
<1>12. FillIsRecent' BY <1>4, <1>6, <1>8 DEF Inv, FillIsRecent
<1> QED BY <1>7, <1>9, <1>10, <1>11, <1>12 DEF Inv

LEMMA StepInv == Inv /\ [Next]_vars => Inv'
<1> SUFFICES ASSUME Inv, [Next]_vars PROVE Inv'
  OBVIOUS
<1>1. CASE \E q \in Names : Update(q) BY <1>1, UpdateInv
<1>2. CASE \E n \in Nodes : Consume(n) \/ ConsumeLost(n)
  BY <1>2, ConsumeInv, ConsumeLostInv
<1>3. CASE \E n \in Nodes : Restart(n) BY <1>3, RestartInv
<1>4. CASE \E r \in Requests :
             \/ QueryStore(r) \/ QueryFails(r) \/ Get(r)
             \/ \E n \in Nodes : ArriveList(r, n)
             \/ \E n \in Nodes, q \in Names : Arrive(r, n, q)
  BY <1>4, RequestInv
<1>5. CASE \E r \in Requests, q \in Names : Put(r, q) \/ PutLost(r, q)
  BY <1>5, PutInv
<1>6. CASE UNCHANGED vars
  <2>1. \A i, p : Text(i, p)' <=> Text(i, p) BY <1>6 DEF vars, Text
  <2> QED BY <1>6, <2>1 DEF vars, Inv, Types, OffsetInStream, StoreIsNewest,
            MapHoldsTexts, FillIsRecent, MapIsConsumed
<1> QED BY <1>1, <1>2, <1>3, <1>4, <1>5, <1>6 DEF Next

(* The strengthening is an invariant of the catalogue. *)
THEOREM InvCorrect == Spec => []Inv
<1> QED BY InitInv, StepInv, PTL DEF Spec

-----------------------------------------------------------------------------
(* The variables keep their types, and a text is always under its name.    *)
THEOREM TypeCorrect == Spec => []TypeOK
<1>1. Inv => TypeOK
  <2> SUFFICES ASSUME Inv PROVE TypeOK
    OBVIOUS
  <2>1. Types
    BY DEF Inv
  <2>2. DOMAIN stream = 1 .. Len(stream)
    BY <2>1 DEF Types
  <2>3. \A n \in Nodes : offset[n] <= Len(stream)
    BY DEF Inv, OffsetInStream
  <2>4. \A n \in Nodes, q \in Names : queryMap[n][q] # 0 =>
          queryMap[n][q] \in DOMAIN stream /\ stream[queryMap[n][q]] = q
    BY <2>2 DEF Inv, MapHoldsTexts, Text
  <2>5. \A r \in Requests : req[r].pc = "put" => \A q \in req[r].todo :
          req[r].got[q] \in DOMAIN stream /\ stream[req[r].got[q]] = q
    BY <2>2 DEF Inv, FillIsRecent, Text
  <2> QED BY <2>1, <2>3, <2>4, <2>5 DEF Types, ReqType, TypeOK
<1> QED BY <1>1, InvCorrect, PTL

(* With every update consumed, only a put that crossed an update, or an    *)
(* update whose own put was lost, leaves an old text in the map of a node. *)
THEOREM NodesRunTheNewest == Spec => []CurrentUnlessCrossed
<1>1. Inv => CurrentUnlessCrossed
  <2> SUFFICES ASSUME Inv, NEW n \in Nodes, NEW q \in Names,
                      offset[n] = Len(stream), q \in Known(n) \ crossed[n],
                      NEW i \in DOMAIN stream, stream[i] = q
               PROVE i <= queryMap[n][q]
    BY DEF CurrentUnlessCrossed
  <2>1. stream \in Seq(Names) BY DEF Inv, Types
  <2>2. i \in Nat /\ i <= offset[n] /\ Text(i, q) BY <2>1 DEF Text
  <2> QED BY <2>2 DEF Inv, MapIsConsumed, Known
<1> QED BY <1>1, InvCorrect, PTL

LEMMA FoundStep == Inv /\ FoundWhenStored /\ [Next]_vars => FoundWhenStored'
<1> SUFFICES ASSUME Inv, FoundWhenStored, [Next]_vars,
                    NEW r \in Requests, req'[r].answer = "notFound",
                    NEW i \in 1 .. req'[r].since
             PROVE stream'[i] \notin req'[r].wants
  BY DEF FoundWhenStored
<1>1. /\ req \in [Requests -> ReqType] /\ req[r] \in ReqType
      /\ Len(stream) \in Nat /\ stream \in Seq(Names)
      /\ req[r].since \in Nat /\ req[r].since <= Len(stream)
  BY DEF Inv, Types, ReqType, OffsetInStream
<1>2. Idle.answer = "none" BY IdleType DEF Idle
<1>3. CASE UNCHANGED <<stream>> /\ req'[r].answer = req[r].answer
           /\ req'[r].since = req[r].since /\ req'[r].wants = req[r].wants
  BY <1>1, <1>3 DEF FoundWhenStored
<1>4. CASE \E q \in Names : Update(q)
  <2>1. PICK q \in Names : Update(q) BY <1>4
  <2>2. req' = req /\ stream' = Append(stream, q) BY <2>1 DEF Update
  <2>3. stream'[i] = stream[i] BY <1>1, <2>2
  <2> QED BY <2>2, <2>3 DEF FoundWhenStored
<1>5. CASE QueryStore(r)
  <2>1. /\ req'[r].since = req[r].since /\ req'[r].wants = req[r].wants
        /\ UNCHANGED stream
    BY <1>1, <1>5 DEF QueryStore, ReqType
  <2>2. req[r].wants \cap Stored = {}
    BY <1>1, <1>5 DEF QueryStore, ReqType
  <2>3. stream[i] \in Names /\ Text(i, stream[i]) BY <1>1, <2>1 DEF Text
  <2>4. i <= store[stream[i]] /\ store[stream[i]] \in Nat
    BY <2>3 DEF Inv, StoreIsNewest, Types
  <2>5. stream[i] \in Stored BY <2>1, <2>3, <2>4 DEF Stored
  <2> QED BY <2>1, <2>2, <2>5
<1>6. CASE Get(r) \/ QueryFails(r)
  BY <1>1, <1>6 DEF Get, QueryFails, ReqType
<1>7. CASE \/ \E n \in Nodes : ArriveList(r, n)
           \/ \E n \in Nodes, q \in Names : Arrive(r, n, q)
  <2>1. CASE \E n \in Nodes : ArriveList(r, n)
    <3>1. PICK n \in Nodes : ArriveList(r, n) BY <2>1
    <3>2. req'[r].answer = "none" BY <1>1, <3>1 DEF ArriveList, Idle
    <3> QED BY <3>2
  <2>2. CASE \E n \in Nodes, q \in Names : Arrive(r, n, q)
    <3>1. PICK n \in Nodes, q \in Names : Arrive(r, n, q) BY <2>2
    <3>2. req'[r].answer = "none" BY <1>1, <3>1 DEF Arrive, Idle
    <3> QED BY <3>2
  <2> QED BY <1>7, <2>1, <2>2
<1>8. CASE \E s \in Requests, q \in Names : Put(s, q) \/ PutLost(s, q)
  <2>1. PICK s \in Requests, q \in Names : Put(s, q) \/ PutLost(s, q)
    BY <1>8
  <2>2. /\ PutDone(s, q) /\ req[s].pc = "put" /\ q \in req[s].todo
        /\ UNCHANGED stream
    BY <2>1 DEF Put, PutLost
  <2> QED BY <1>3, <2>2, PutDoneReq
<1>9. CASE \E n \in Nodes : Consume(n) \/ ConsumeLost(n)
  BY <1>3, <1>9 DEF Consume, ConsumeLost
<1>10. CASE \E n \in Nodes : Restart(n)
  <2>1. PICK n \in Nodes : Restart(n) BY <1>10
  <2>2. UNCHANGED stream BY <2>1 DEF Restart
  <2>3. req'[r] = [Idle EXCEPT !.pc = "done"] \/ req'[r] = req[r]
    BY <2>1 DEF Restart
  <2>4. [Idle EXCEPT !.pc = "done"].answer = "none" BY DEF Idle
  <2>5. req'[r] = req[r] BY <2>3, <2>4
  <2> QED BY <1>3, <2>2, <2>5
<1>11. CASE \E s \in Requests \ {r} :
              \/ QueryStore(s) \/ QueryFails(s) \/ Get(s)
              \/ \E n \in Nodes : ArriveList(s, n)
              \/ \E n \in Nodes, q \in Names : Arrive(s, n, q)
  <2>1. PICK s \in Requests \ {r} :
              \/ QueryStore(s) \/ QueryFails(s) \/ Get(s)
              \/ \E n \in Nodes : ArriveList(s, n)
              \/ \E n \in Nodes, q \in Names : Arrive(s, n, q)
    BY <1>11
  <2>2. req'[r] = req[r] /\ UNCHANGED stream
    BY <1>1, <2>1 DEF QueryStore, QueryFails, Get, ArriveList, Arrive
  <2> QED BY <1>3, <2>2
<1>12. CASE UNCHANGED vars BY <1>3, <1>12 DEF vars
<1> QED BY <1>4, <1>5, <1>6, <1>7, <1>8, <1>9, <1>10, <1>11, <1>12 DEF Next

(* A name is only said to be missing when no update of it preceded the     *)
(* request, whatever the node has consumed.                                *)
THEOREM MissingMeansMissing == Spec => []FoundWhenStored
<1>1. Init => FoundWhenStored BY DEF Init, FoundWhenStored, Idle
<1> QED BY <1>1, InvCorrect, FoundStep, PTL DEF Spec

(***************************************************************************)
(* The run: first the stream by itself, then the statement, then the two   *)
(* together.                                                               *)
(***************************************************************************)

USE StreamAssumption

(* Before the call there is nothing. *)
IdleOK ==
  pc = "idle" => rowCount = 0 /\ jsonArray = <<>> /\ sent = <<>> /\ events = <<>>

(* What each point of the loop says of the rows read: a payload is due     *)
(* after PayloadRows rows, and an array that was just sent is empty only   *)
(* there.                                                                  *)
PointOK ==
  /\ pc = "send" => rowCount % PayloadRows = 0
  /\ pc = "last" => rowCount = total
  /\ pc = "next" /\ jsonArray = <<>> => rowCount % PayloadRows = 0
  /\ pc \in {"send", "last"} => jsonArray # <<>>

-----------------------------------------------------------------------------
(* A call keeps the types of its state: what is in the array and in the    *)
(* payloads are rows of the result set it was given.                       *)
THEOREM StreamTypes == StreamSpec => [](StreamTypeOK /\ IdleOK)
<1>1. StreamInit => StreamTypeOK /\ IdleOK
  <2> SUFFICES ASSUME StreamInit  PROVE StreamTypeOK /\ IdleOK
    OBVIOUS
  <2>1. <<>> \in Seq(Rows) /\ <<>> \in Seq(Seq(Rows)) /\ <<>> \in Seq({"SUCCESS", "ERROR"})
    OBVIOUS
  <2>2. IdleOK /\ typed \in BOOLEAN /\ pc \in StreamPCs
    BY DEF StreamInit, IdleOK, StreamPCs
  <2>3. total \in Nat /\ rowCount \in 0 .. total
    BY DEF StreamInit
  <2>4. /\ jsonArray \in Seq(Rows) /\ sent \in Seq(Seq(Rows))
        /\ events \in Seq({"SUCCESS", "ERROR"})
    BY <2>1 DEF StreamInit
  <2> QED  BY <2>2, <2>3, <2>4 DEF StreamTypeOK
<1>2. StreamTypeOK /\ IdleOK /\ [StreamNext]_streamVars => StreamTypeOK' /\ IdleOK'
  <2> SUFFICES ASSUME StreamTypeOK, IdleOK, [StreamNext]_streamVars
               PROVE  StreamTypeOK' /\ IdleOK'
    OBVIOUS
  <2> USE DEF StreamTypeOK, IdleOK, StreamPCs
  <2>1. CASE Begin
    <3>1. jsonArray' \in Seq(Rows') /\ sent' \in Seq(Seq(Rows'))
      BY <2>1 DEF Begin
    <3> QED  BY <2>1, <3>1 DEF Begin
  <2>2. CASE Throw
    BY <2>2 DEF Throw, Rows
  <2>3. CASE ReadRow
    <3>1. rowCount + 1 \in Rows
      BY <2>3 DEF ReadRow, Rows
    <3>2. jsonArray' \in Seq(Rows)
      BY <2>3, <3>1 DEF ReadRow
    <3> QED  BY <2>3, <3>2 DEF ReadRow, Rows
  <2>4. CASE Exhausted
    BY <2>4 DEF Exhausted, Rows
  <2>5. CASE Send
    <3>1. jsonArray' \in Seq(Rows)
      BY <2>5 DEF Send
    <3>2. sent' \in Seq(Seq(Rows)) /\ events' \in Seq({"SUCCESS", "ERROR"})
      BY <2>5 DEF Send
    <3>3. Rows' = Rows
      BY <2>5 DEF Send, Rows
    <3> QED  BY <2>5, <3>1, <3>2, <3>3 DEF Send
  <2>6. CASE SendFails
    <3>1. events' \in Seq({"SUCCESS", "ERROR"})
      BY <2>6 DEF SendFails
    <3>2. Rows' = Rows
      BY <2>6 DEF SendFails, Rows
    <3> QED  BY <2>6, <3>1, <3>2 DEF SendFails
  <2>7. CASE UNCHANGED streamVars
    BY <2>7 DEF streamVars, Rows
  <2> QED  BY <2>1, <2>2, <2>3, <2>4, <2>5, <2>6, <2>7 DEF StreamNext
<1> QED  BY <1>1, <1>2, PTL DEF StreamSpec

(* The points of the loop are as PointOK says: no payload is empty. *)
THEOREM PointCorrect == StreamSpec => []PointOK
<1>1. StreamInit => PointOK
  BY DEF StreamInit, PointOK
<1>2. StreamTypeOK /\ IdleOK /\ PointOK /\ [StreamNext]_streamVars => PointOK'
  <2> SUFFICES ASSUME StreamTypeOK, IdleOK, PointOK, [StreamNext]_streamVars
               PROVE  PointOK'
    OBVIOUS
  <2> USE DEF PointOK
  <2>1. CASE Begin
    <3>1. 0 % PayloadRows = 0
      OBVIOUS
    <3> QED  BY <2>1, <3>1 DEF Begin, IdleOK
  <2>2. CASE Throw
    BY <2>2 DEF Throw
  <2>3. CASE ReadRow
    <3>1. jsonArray' # <<>>
      BY <2>3 DEF ReadRow, StreamTypeOK
    <3> QED  BY <2>3, <3>1 DEF ReadRow
  <2>4. CASE Exhausted
    BY <2>4 DEF Exhausted
  <2>5. CASE Send
    BY <2>5 DEF Send
  <2>6. CASE SendFails
    BY <2>6 DEF SendFails
  <2>7. CASE UNCHANGED streamVars
    BY <2>7 DEF streamVars
  <2> QED  BY <2>1, <2>2, <2>3, <2>4, <2>5, <2>6, <2>7 DEF StreamNext
<1> QED  BY <1>1, <1>2, StreamTypes, PTL DEF StreamSpec

-----------------------------------------------------------------------------
(* Sending the array adds one payload, which begins where the last ended.  *)
LEMMA OnePayloadMore ==
  ASSUME StreamTypeOK, EachRowOnce, ~typed, Send, jsonArray # <<>>
  PROVE  EachRowOnce'
<1> USE DEF StreamTypeOK
<1>0. PICK n \in Nat : n = Len(sent)
  OBVIOUS
<1>1. sent' = Append(sent, jsonArray) /\ jsonArray' = <<>> /\ rowCount' = rowCount /\ ~typed'
  BY DEF Send
<1>2. Len(sent') = n + 1 /\ sent'[n + 1] = jsonArray
  BY <1>0, <1>1
<1>3. \A k \in 1 .. n : sent'[k] = sent[k]
  BY <1>0, <1>1
<1>4. \A k \in 0 .. n : LastRow(k)' = LastRow(k)
  BY <1>3 DEF LastRow
<1>5. Len(jsonArray) \in Nat \ {0}
  OBVIOUS
<1>6. jsonArray[Len(jsonArray)] = LastRow(n) + Len(jsonArray)
  BY <1>0, <1>5 DEF EachRowOnce, Continues
<1>7. \A k : k = n + 1 => LastRow(k)' = rowCount
  <2>1. LastRow(n) + Len(jsonArray) = rowCount
    BY <1>0 DEF EachRowOnce
  <2>2. sent'[n + 1][Len(sent'[n + 1])] = rowCount
    BY <1>2, <1>6, <2>1
  <2> QED  BY <2>2 DEF LastRow
<1>8. ASSUME NEW k \in 1 .. n + 1
      PROVE  sent'[k] # <<>> /\ Continues(sent'[k], LastRow(k - 1)')
  <2>0. k \in Nat /\ k - 1 \in 0 .. n
    OBVIOUS
  <2>1. CASE k = n + 1
    <3>1. LastRow(k - 1)' = LastRow(n)
      BY <1>4, <2>1
    <3>2. sent'[k] = jsonArray
      BY <1>2, <2>1
    <3> QED  BY <1>0, <3>1, <3>2 DEF EachRowOnce
  <2>2. CASE k # n + 1
    <3>1. k \in 1 .. n /\ k - 1 \in 0 .. n
      BY <2>2
    <3>2. sent'[k] = sent[k] /\ LastRow(k - 1)' = LastRow(k - 1)
      BY <3>1, <1>3, <1>4
    <3> QED  BY <1>0, <3>1, <3>2 DEF EachRowOnce
  <2> QED  BY <2>1, <2>2
<1>9. LastRow(Len(sent))' = rowCount
  BY <1>2, <1>7
<1>10. Len(jsonArray') = 0 /\ rowCount \in Nat
  BY <1>1
<1>11. \A k \in 1 .. Len(sent') : sent'[k] # <<>> /\ Continues(sent'[k], LastRow(k - 1)')
  BY <1>2, <1>8
<1> QED  BY <1>1, <1>9, <1>10, <1>11 DEF EachRowOnce, Continues

(* Without a type name every row read is in one payload, or in the array   *)
(* that is not yet sent, exactly once and in order (lines 105 to 145).     *)
THEOREM RowsOnceInOrder == StreamSpec => []EachRowOnce
<1>1. StreamInit => EachRowOnce
  BY DEF StreamInit, EachRowOnce, Continues, LastRow
<1>2. StreamTypeOK /\ IdleOK /\ PointOK /\ EachRowOnce /\ [StreamNext]_streamVars
        => EachRowOnce'
  <2> SUFFICES ASSUME StreamTypeOK, IdleOK, PointOK, EachRowOnce,
                      [StreamNext]_streamVars
               PROVE  EachRowOnce'
    OBVIOUS
  <2>1. CASE Begin
    BY <2>1 DEF Begin, IdleOK, EachRowOnce, Continues, LastRow
  <2>2. CASE Throw
    BY <2>2 DEF Throw, EachRowOnce, Continues, LastRow
  <2>3. CASE ReadRow
    <3> SUFFICES ASSUME ~typed
                 PROVE  EachRowOnce'
      BY <2>3 DEF ReadRow, EachRowOnce
    <3>1. sent' = sent /\ rowCount' = rowCount + 1 /\ rowCount \in Nat
      BY <2>3 DEF ReadRow, StreamTypeOK
    <3>2. \A k \in Nat : LastRow(k)' = LastRow(k)
      BY <3>1 DEF LastRow
    <3>3. Len(sent) \in Nat /\ Len(jsonArray) \in Nat
      BY DEF StreamTypeOK
    <3>4. /\ Len(jsonArray') = Len(jsonArray) + 1
          /\ jsonArray'[Len(jsonArray) + 1] = rowCount + 1
          /\ \A i \in 1 .. Len(jsonArray) : jsonArray'[i] = jsonArray[i]
      BY <2>3 DEF ReadRow, StreamTypeOK
    <3>5. LastRow(Len(sent)) \in Int
      <4>1. CASE Len(sent) = 0
        BY <4>1 DEF LastRow
      <4>2. CASE Len(sent) # 0
        <5>1. sent[Len(sent)] \in Seq(Rows) /\ sent[Len(sent)] # <<>>
          BY <3>3, <4>2 DEF StreamTypeOK, EachRowOnce
        <5>2. sent[Len(sent)][Len(sent[Len(sent)])] \in Rows
          BY <5>1
        <5> QED  BY <4>2, <5>2 DEF LastRow, Rows
      <4> QED  BY <4>1, <4>2
    <3>6. Continues(jsonArray', LastRow(Len(sent)))
      <4> SUFFICES ASSUME NEW i \in 1 .. Len(jsonArray')
                   PROVE  jsonArray'[i] = LastRow(Len(sent)) + i
        BY DEF Continues
      <4>1. CASE i = Len(jsonArray) + 1
        BY <4>1, <3>3, <3>4, <3>5 DEF EachRowOnce
      <4>2. CASE i # Len(jsonArray) + 1
        BY <4>2, <3>3, <3>4 DEF EachRowOnce, Continues
      <4> QED  BY <4>1, <4>2
    <3>7. LastRow(Len(sent)) + Len(jsonArray') = rowCount + 1
      BY <3>3, <3>4, <3>5 DEF EachRowOnce
    <3>8. \A k \in 1 .. Len(sent) : LastRow(k - 1)' = LastRow(k - 1)
      BY <3>2, <3>3
    <3>9. LastRow(Len(sent))' = LastRow(Len(sent))
      BY <3>1 DEF LastRow
    <3>10. \A k \in 1 .. Len(sent) :
             sent[k] # <<>> /\ Continues(sent[k], LastRow(k - 1))
      BY DEF EachRowOnce
    <3> QED  BY <3>1, <3>6, <3>7, <3>8, <3>9, <3>10 DEF EachRowOnce, Continues
  <2>4. CASE Exhausted
    BY <2>4 DEF Exhausted, EachRowOnce, Continues, LastRow
  <2>5. CASE Send
    <3>1. jsonArray # <<>>
      BY <2>5 DEF Send, PointOK
    <3>2. CASE typed
      BY <2>5, <3>2 DEF Send, EachRowOnce
    <3> QED  BY <2>5, <3>1, <3>2, OnePayloadMore
  <2>6. CASE SendFails
    BY <2>6 DEF SendFails, EachRowOnce, Continues, LastRow
  <2>7. CASE UNCHANGED streamVars
    BY <2>7 DEF streamVars, EachRowOnce, Continues, LastRow
  <2> QED  BY <2>1, <2>2, <2>3, <2>4, <2>5, <2>6, <2>7 DEF StreamNext
<1> QED  BY <1>1, <1>2, StreamTypes, PointCorrect, PTL DEF StreamSpec

-----------------------------------------------------------------------------
InArray(r) == \E i \in 1 .. Len(jsonArray) : jsonArray[i] = r

InSent(r) ==
  \E k \in 1 .. Len(sent) : \E i \in 1 .. Len(sent[k]) : sent[k][i] = r

(* A row that was read is in the array or in a payload; when a payload is  *)
(* not due, or the call has returned, all of them are in a payload.  Each  *)
(* ending of the task was a success unless the call threw.                 *)
Reached ==
  /\ \A r \in 1 .. rowCount : InArray(r) \/ InSent(r)
  /\ pc = "next" /\ rowCount % PayloadRows = 0 =>
       \A r \in 1 .. rowCount : InSent(r)
  /\ pc = "returned" => rowCount = total /\ \A r \in 1 .. rowCount : InSent(r)
  /\ pc # "thrown" =>
       Len(events) = Len(sent) /\ \A k \in 1 .. Len(events) : events[k] = "SUCCESS"

(* When stream returns the number of rows, the producer has accepted every *)
(* row, with and without a type name, and the task never ended in error.   *)
THEOREM ReturnMeansSent == StreamSpec => []ReturnedMeansSent
<1>1. StreamInit => Reached
  BY DEF StreamInit, Reached
<1>2. StreamTypeOK /\ IdleOK /\ PointOK /\ Reached /\ [StreamNext]_streamVars => Reached'
  <2> SUFFICES ASSUME StreamTypeOK, IdleOK, PointOK, Reached, [StreamNext]_streamVars
               PROVE  Reached'
    OBVIOUS
  <2>1. CASE Begin
    BY <2>1 DEF Begin, IdleOK, Reached
  <2>2. CASE Throw
    BY <2>2 DEF Throw, Reached, InArray, InSent
  <2>3. CASE ReadRow
    <3>1. /\ sent' = sent /\ events' = events /\ pc' \in {"next", "send"}
          /\ rowCount' = rowCount + 1 /\ rowCount \in Nat /\ pc = "next"
      BY <2>3 DEF ReadRow, StreamTypeOK
    <3>2. \A r : InSent(r)' = InSent(r)
      BY <3>1 DEF InSent
    <3>3. \A r : r = rowCount + 1 => InArray(r)'
      <4>1. /\ Len(jsonArray) \in Nat /\ Len(jsonArray') = Len(jsonArray) + 1
            /\ jsonArray'[Len(jsonArray) + 1] = rowCount + 1
        BY <2>3 DEF ReadRow, StreamTypeOK
      <4> QED  BY <4>1 DEF InArray
    <3>4. \A r : InArray(r) => InArray(r)'
      <4>1. /\ Len(jsonArray) \in Nat /\ Len(jsonArray') = Len(jsonArray) + 1
            /\ \A i \in 1 .. Len(jsonArray) : jsonArray'[i] = jsonArray[i]
        BY <2>3 DEF ReadRow, StreamTypeOK
      <4> QED  BY <4>1 DEF InArray
    <3>5. \A r \in 1 .. rowCount + 1 : r = rowCount + 1 \/ r \in 1 .. rowCount
      BY <3>1
    <3>6. \A r \in 1 .. rowCount' : InArray(r)' \/ InSent(r)'
      BY <3>1, <3>2, <3>3, <3>4, <3>5 DEF Reached
    <3>7. ~(pc' = "next" /\ rowCount' % PayloadRows = 0)
      BY <2>3 DEF ReadRow
    <3> QED  BY <3>1, <3>6, <3>7 DEF Reached
  <2>4. CASE Exhausted
    <3>1. CASE rowCount % PayloadRows = 0
      BY <2>4, <3>1 DEF Exhausted, Reached, InArray, InSent
    <3>2. CASE rowCount % PayloadRows # 0
      BY <2>4, <3>2 DEF Exhausted, Reached, InArray, InSent
    <3> QED  BY <3>1, <3>2
  <2>5. CASE Send
    <3>1. /\ sent' = Append(sent, jsonArray) /\ events' = Append(events, "SUCCESS")
          /\ rowCount' = rowCount /\ total' = total /\ rowCount \in Nat
          /\ pc \in {"send", "last"} /\ pc' \in {"next", "returned"}
      BY <2>5 DEF Send, StreamTypeOK
    <3>2. /\ Len(sent) \in Nat /\ Len(sent') = Len(sent) + 1
          /\ sent'[Len(sent) + 1] = jsonArray
          /\ \A k \in 1 .. Len(sent) : sent'[k] = sent[k]
      BY <3>1 DEF StreamTypeOK
    <3>3. /\ Len(events) \in Nat /\ Len(events') = Len(events) + 1
          /\ events'[Len(events) + 1] = "SUCCESS"
          /\ \A k \in 1 .. Len(events) : events'[k] = events[k]
      BY <3>1 DEF StreamTypeOK
    <3>4. \A r : InArray(r) => InSent(r)'
      <4> SUFFICES ASSUME NEW r, InArray(r)
                   PROVE  InSent(r)'
        OBVIOUS
      <4>1. Len(sent) + 1 \in 1 .. Len(sent')
        BY <3>2
      <4>2. \E i \in 1 .. Len(sent'[Len(sent) + 1]) : sent'[Len(sent) + 1][i] = r
        BY <3>2 DEF InArray
      <4> QED  BY <4>1, <4>2 DEF InSent
    <3>5. \A r : InSent(r) => InSent(r)'
      <4> SUFFICES ASSUME NEW r, InSent(r)
                   PROVE  InSent(r)'
        OBVIOUS
      <4>1. PICK k \in 1 .. Len(sent) : \E i \in 1 .. Len(sent[k]) : sent[k][i] = r
        BY DEF InSent
      <4>2. k \in 1 .. Len(sent') /\ sent'[k] = sent[k]
        BY <3>2
      <4> QED  BY <4>1, <4>2 DEF InSent
    <3>6. \A r \in 1 .. rowCount' : InSent(r)'
      BY <3>1, <3>4, <3>5 DEF Reached
    <3>7. pc' = "returned" => rowCount' = total'
      BY <2>5, <3>1 DEF Send, PointOK
    <3>8. Len(events') = Len(sent') /\ \A k \in 1 .. Len(events') : events'[k] = "SUCCESS"
      <4>1. Len(events) = Len(sent) /\ \A k \in 1 .. Len(events) : events[k] = "SUCCESS"
        BY <3>1 DEF Reached
      <4>2. \A k \in 1 .. Len(events') : k = Len(events) + 1 \/ k \in 1 .. Len(events)
        BY <3>3
      <4> QED  BY <3>2, <3>3, <4>1, <4>2
    <3> QED  BY <3>6, <3>7, <3>8 DEF Reached
  <2>6. CASE SendFails
    BY <2>6 DEF SendFails, Reached, InArray, InSent
  <2>7. CASE UNCHANGED streamVars
    BY <2>7 DEF streamVars, Reached, InArray, InSent
  <2> QED  BY <2>1, <2>2, <2>3, <2>4, <2>5, <2>6, <2>7 DEF StreamNext
<1>3. Reached => ReturnedMeansSent
  BY DEF Reached, ReturnedMeansSent, InSent, Rows
<1> QED  BY <1>1, <1>2, <1>3, StreamTypes, PointCorrect, PTL DEF StreamSpec

-----------------------------------------------------------------------------
(* The binding of a statement keeps the types of its state.                *)
THEOREM ParamTypes == RunSpec => []ParamTypeOK
<1> USE ParametersAssumption
<1> USE DEF ParamTypeOK, Stages
<1>1. RunInit => ParamTypeOK
  <2> SUFFICES ASSUME RunInit  PROVE ParamTypeOK
    OBVIOUS
  <2>1. <<>> \in Seq(STRING \cup {"?"}) /\ <<>> \in Seq(Words) /\ <<>> \in Seq(Vars) /\ Len(<<>>) = 0
    OBVIOUS
  <2>2. params = <<>> /\ params \in [DOMAIN params -> STRING]
    BY DEF RunInit, ParamInit
  <2>3. text \in Seq(STRING)
    BY DEF RunInit, ParamInit
  <2>4. nextVar \in 1 .. Len(variables) + 1
    BY DEF RunInit, ParamInit
  <2> QED  BY <2>1, <2>2, <2>3, <2>4 DEF RunInit, ParamInit
<1>2. ParamTypeOK /\ [RunNext]_runVars => ParamTypeOK'
  <2> SUFFICES ASSUME ParamTypeOK, [RunNext]_runVars
               PROVE  ParamTypeOK'
    OBVIOUS
  <2>1. CASE Scan
    <3>1. pos \in 1 .. Len(text) /\ text[pos] \in STRING
      BY <2>1 DEF Scan, Scanning
    <3>2. mode' \in {"sql", "single", "double", "block", "line"}
      BY <2>1 DEF Scan, ModeAfter
    <3>3. parsedQuery' \in Seq(STRING \cup {"?"}) /\ pos' \in Nat \ {0}
      BY <2>1, <3>1 DEF Scan
    <3> QED  BY <2>1, <3>2, <3>3 DEF Scan
  <2>2. CASE ScanReference
    <3>1. text[pos + 1] \in Words
      <4>1. Symbol(text, pos + 1) \in Words
        BY <2>2 DEF ScanReference, IsReference
      <4> QED  BY <4>1 DEF Symbol
    <3>2. /\ parsedQuery' \in Seq(STRING \cup {"?"}) /\ pos' \in Nat \ {0}
          /\ lstParameters' \in Seq(Words)
      BY <2>2, <3>1 DEF ScanReference
    <3>3. stage' = "scan"
      BY <2>2 DEF ScanReference, Scanning
    <3> QED  BY <2>2, <3>2, <3>3 DEF ScanReference
  <2>3. CASE ScanFails
    BY <2>3 DEF ScanFails, scanned
  <2>4. CASE Prepare
    BY <2>4 DEF Prepare, scanned
  <2>5. CASE Check
    <3>1. PICK vs \in VariableLists : variables' = vs /\ stage' \in {"ready", "bind", "failed"}
      BY <2>5 DEF Check
    <3>2. variables' \in Seq(Vars) /\ Len(variables') \in Nat
      BY <3>1
    <3>3. nextVar' \in 1 .. Len(variables') + 1
      BY <2>5, <3>2 DEF Check
    <3>4. stage = "check" /\ UNCHANGED <<scanned, params>>
      BY <2>5 DEF Check
    <3> QED  BY <3>1, <3>2, <3>3, <3>4 DEF scanned
  <2>6. CASE Set
    <3>1. Variable.value \in STRING
      <4>1. variables[nextVar] \in Vars
        BY <2>6 DEF Set, Binding
      <4> QED  BY <4>1 DEF Variable, Vars
    <3>2. params' \in [DOMAIN params' -> STRING] /\ DOMAIN params' = DOMAIN params
      BY <2>6, <3>1 DEF Set
    <3>3. nextVar' \in 1 .. Len(variables) + 1
      BY <2>6 DEF Set, Binding
    <3>4. stage = "bind" /\ UNCHANGED <<scanned, variables, stage>>
      BY <2>6 DEF Set, Binding
    <3> QED  BY <3>2, <3>3, <3>4 DEF scanned
  <2>7. CASE SetFails
    BY <2>7 DEF SetFails, scanned
  <2>8. CASE Bound
    BY <2>8 DEF Bound, scanned
  <2>9. CASE Execute
    BY <2>9 DEF Execute, scanned
  <2>10. CASE UNCHANGED paramVars
    BY <2>10 DEF paramVars
  <2> QED
    BY <2>1, <2>2, <2>3, <2>4, <2>5, <2>6, <2>7, <2>8, <2>9, <2>10
    DEF RunNext, Bind, ParamNext, Write, runVars
<1> QED  BY <1>1, <1>2, PTL DEF RunSpec

(* The k-th parameter has the value of the last of the first n variables   *)
(* that is given for its name.                                             *)
SetBy(k, n) ==
  \E j \in 1 .. n :
    /\ Same(variables[j].name, lstParameters[k])
    /\ params[k] = variables[j].value /\ params[k] # Bad
    /\ \A l \in 1 .. n : l > j => ~Same(variables[l].name, lstParameters[k])

NoneFor(k, n) == \A j \in 1 .. n : ~Same(variables[j].name, lstParameters[k])

SetSoFar ==
  stage = "bind" =>
    \A k \in DOMAIN lstParameters :
      /\ Given(variables, lstParameters[k])
      /\ SetBy(k, nextVar - 1) \/ NoneFor(k, nextVar - 1)

Ready == stage \in {"ready", "stream", "answer", "error"}

(* A statement that runs has every parameter set, to a value that converts *)
(* to its type, and to the last one that the request gives for its name.   *)
EveryParameterIsSet ==
  Ready => \A k \in DOMAIN lstParameters : SetBy(k, Len(variables))

LEMMA SetMore ==
  ASSUME ParamTypeOK, SetSoFar, Set
  PROVE  SetSoFar'
<1> USE DEF ParamTypeOK
<1>1. /\ stage = "bind" /\ nextVar \in 1 .. Len(variables)
      /\ nextVar' = nextVar + 1 /\ UNCHANGED <<scanned, variables, stage>>
  BY DEF Set, Binding
<1>2. variables[nextVar].value # Bad
  BY DEF Set, Convertible, Variable
<1>3. \A k \in DOMAIN lstParameters :
        params'[k] = IF Same(lstParameters[k], variables[nextVar].name)
                     THEN variables[nextVar].value ELSE params[k]
  BY <1>1 DEF Set, Indexes, Variable
<1>4. ASSUME NEW k \in DOMAIN lstParameters
      PROVE  Given(variables, lstParameters[k])' /\ (SetBy(k, nextVar - 1)' \/ NoneFor(k, nextVar - 1)')
  <2>1. Given(variables, lstParameters[k])'
    BY <1>1 DEF SetSoFar, Given, Same, scanned
  <2>2. nextVar' - 1 = nextVar
    BY <1>1
  <2>3. CASE Same(lstParameters[k], variables[nextVar].name)
    <3>1. Same(variables[nextVar].name, lstParameters[k])
      BY <2>3 DEF Same
    <3>2. params'[k] = variables[nextVar].value
      BY <1>3, <2>3
    <3>3. nextVar \in 1 .. nextVar /\ \A l \in 1 .. nextVar : ~(l > nextVar)
      BY <1>1
    <3>4. SetBy(k, nextVar - 1)'
      BY <1>1, <1>2, <2>2, <3>1, <3>2, <3>3 DEF SetBy, Same, scanned
    <3> QED  BY <2>1, <3>4
  <2>4. CASE ~Same(lstParameters[k], variables[nextVar].name)
    <3>1. params'[k] = params[k]
      BY <1>3, <2>4
    <3>2. ~Same(variables[nextVar].name, lstParameters[k])
      BY <2>4 DEF Same
    <3>3. \A l \in 1 .. nextVar : l = nextVar \/ l \in 1 .. nextVar - 1
      BY <1>1
    <3>4. \A l \in 1 .. nextVar - 1 : l \in 1 .. nextVar
      BY <1>1
    <3>5. CASE SetBy(k, nextVar - 1)
      <4>1. SetBy(k, nextVar - 1)'
        <5>1. PICK j \in 1 .. nextVar - 1 :
                /\ Same(variables[j].name, lstParameters[k])
                /\ params[k] = variables[j].value /\ params[k] # Bad
                /\ \A l \in 1 .. nextVar - 1 : l > j => ~Same(variables[l].name, lstParameters[k])
          BY <3>5 DEF SetBy
        <5>2. \A l \in 1 .. nextVar : l > j => ~Same(variables[l].name, lstParameters[k])
          BY <3>2, <3>3, <5>1
        <5> QED  BY <1>1, <2>2, <3>1, <3>4, <5>1, <5>2 DEF SetBy, Same, scanned
      <4> QED  BY <2>1, <4>1
    <3>6. CASE NoneFor(k, nextVar - 1)
      <4>1. NoneFor(k, nextVar - 1)'
        BY <1>1, <2>2, <3>2, <3>3, <3>6 DEF NoneFor, Same, scanned
      <4> QED  BY <2>1, <4>1
    <3> QED  BY <1>1, <3>5, <3>6 DEF SetSoFar
  <2> QED  BY <2>3, <2>4
<1> QED  BY <1>1, <1>4 DEF SetSoFar, scanned

(* While the variables are set, a parameter has the value of the last so   *)
(* far that has its name.                                                  *)
LEMMA SetInOrder == RunSpec => [](SetSoFar /\ EveryParameterIsSet)
<1> USE DEF ParamTypeOK
<1>1. RunInit => SetSoFar /\ EveryParameterIsSet
  BY DEF RunInit, ParamInit, SetSoFar, EveryParameterIsSet, Ready
<1>2. ParamTypeOK /\ SetSoFar /\ EveryParameterIsSet /\ [RunNext]_runVars
        => SetSoFar' /\ EveryParameterIsSet'
  <2> SUFFICES ASSUME ParamTypeOK, SetSoFar, EveryParameterIsSet, [RunNext]_runVars
               PROVE  SetSoFar' /\ EveryParameterIsSet'
    OBVIOUS
  <2>1. CASE Scan \/ ScanReference
    <3>1. stage = "scan" /\ stage' = "scan" /\ nextVar' = nextVar
      BY <2>1 DEF Scan, ScanReference, Scanning
    <3> QED  BY <3>1 DEF SetSoFar, EveryParameterIsSet, Ready
  <2>2. CASE ScanFails \/ SetFails
    <3>1. stage' = "failed"
      BY <2>2 DEF ScanFails, SetFails
    <3> QED  BY <3>1 DEF SetSoFar, EveryParameterIsSet, Ready
  <2>3. CASE Prepare
    <3>1. stage = "scan" /\ stage' = "check" /\ nextVar' = nextVar
      BY <2>3 DEF Prepare
    <3> QED  BY <3>1 DEF SetSoFar, EveryParameterIsSet, Ready
  <2>4. CASE Check
    <3>1. /\ stage = "check" /\ nextVar = 1 /\ UNCHANGED <<lstParameters, nextVar>>
          /\ stage' \in {"ready", "bind", "failed"}
      BY <2>4 DEF Check, scanned
    <3>2. stage' = "ready" => lstParameters = <<>>
      BY <2>4 DEF Check
    <3>3. stage' = "bind" => \A k \in DOMAIN lstParameters : Given(variables', lstParameters[k])
      BY <2>4 DEF Check
    <3>4. \A k \in DOMAIN lstParameters : NoneFor(k, nextVar - 1)'
      BY <3>1 DEF NoneFor
    <3>5. SetSoFar'
      BY <3>1, <3>3, <3>4 DEF SetSoFar, Given, Same
    <3>6. EveryParameterIsSet'
      BY <3>1, <3>2 DEF EveryParameterIsSet, Ready
    <3> QED  BY <3>5, <3>6
  <2>5. CASE Set
    <3>1. stage' = "bind"
      BY <2>5 DEF Set, Binding
    <3> QED  BY <2>5, <3>1, SetMore DEF EveryParameterIsSet, Ready
  <2>6. CASE Bound
    <3>1. /\ stage = "bind" /\ stage' = "ready" /\ nextVar - 1 = Len(variables)
          /\ UNCHANGED <<scanned, variables, params>>
      BY <2>6 DEF Bound
    <3>2. DOMAIN variables = 1 .. Len(variables)
      OBVIOUS
    <3>3. \A k \in DOMAIN lstParameters : SetBy(k, Len(variables))
      BY <3>1, <3>2 DEF SetSoFar, Given, NoneFor
    <3> QED  BY <3>1, <3>3 DEF SetSoFar, EveryParameterIsSet, Ready, SetBy, Same, scanned
  <2>7. CASE Execute
    <3>1. /\ stage = "ready" /\ stage' \in {"stream", "answer", "error"}
          /\ UNCHANGED <<scanned, variables, params>>
      BY <2>7 DEF Execute
    <3> QED  BY <3>1 DEF SetSoFar, EveryParameterIsSet, Ready, SetBy, Same, scanned
  <2>8. CASE UNCHANGED paramVars
    BY <2>8 DEF paramVars, SetSoFar, EveryParameterIsSet, Ready, SetBy, NoneFor, Given, Same
  <2> QED
    BY <2>1, <2>2, <2>3, <2>4, <2>5, <2>6, <2>7, <2>8
    DEF RunNext, Bind, ParamNext, Write, runVars
<1> QED  BY <1>1, <1>2, ParamTypes, PTL DEF RunSpec

(* preview() returns a statement only when each of its parameters is set   *)
(* (lines 196 to 245), and nothing later changes one.                      *)
THEOREM ParametersAreSet == RunSpec => []EveryParameterIsSet
BY SetInOrder, PTL

-----------------------------------------------------------------------------
(* What a text may be read as, up to a symbol.                             *)
Readings == {"sql", "single", "double", "line", "block", "star", "slash", "dash"}

(* Each symbol leads from a reading to a reading.                          *)
LEMMA LexAfterType ==
  ASSUME NEW m \in Readings, NEW c PROVE LexAfter(m, c) \in Readings
<1>1. Plainly(c) \in Readings
  BY DEF Plainly, Readings
<1> QED BY <1>1 DEF LexAfter, Readings

(* A text is read from its begin, symbol by symbol.                        *)
LEMMA LexedIs ==
  ASSUME NEW s
  PROVE  /\ Lexed(s) \in [Nat -> Readings] /\ Lexed(s)[0] = "sql"
         /\ \A n \in Nat : Lexed(s)[n + 1] = LexAfter(Lexed(s)[n], s[n + 1])
<1> DEFINE step == [p \in Nat \X Readings |-> LexAfter(p[2], s[p[1] + 1])]
           Eq(g) == g = [k \in Nat |-> IF k = 0 THEN "sql" ELSE LexAfter(g[k - 1], s[k])]
<1>1. step \in [Nat \X Readings -> Readings]
  BY LexAfterType
<1>2. PICK f \in [Nat -> Readings] : Iterates(f, "sql", step)
  <2>1. "sql" \in Readings  BY DEF Readings
  <2> HIDE DEF step
  <2> QED BY <1>1, <2>1, Recursion
<1>3. \A n \in Nat : f[n + 1] = LexAfter(f[n], s[n + 1])
  BY <1>2 DEF Iterates
<1>4. Eq(f)
  <2>1. ASSUME NEW k \in Nat PROVE f[k] = IF k = 0 THEN "sql" ELSE LexAfter(f[k - 1], s[k])
    <3>1. CASE k # 0
      <4>1. k - 1 \in Nat /\ (k - 1) + 1 = k  BY <3>1
      <4> QED BY <3>1, <4>1, <1>3
    <3> QED BY <3>1, <1>2 DEF Iterates
  <2> QED BY <2>1, <1>2
<1> DEFINE e == CHOOSE g : Eq(g)
<1>5. Eq(e)
  BY <1>4
<1>6. Lexed(s) = e
  BY DEF Lexed
<1> HIDE DEF e
<1>7. e[0] = "sql" /\ \A k \in Nat : k # 0 => e[k] = LexAfter(e[k - 1], s[k])
  BY <1>5
<1>8. \A n \in Nat : e[n + 1] = LexAfter(e[n], s[n + 1])
  <2> TAKE n \in Nat
  <2>1. n + 1 \in Nat /\ n + 1 # 0 /\ (n + 1) - 1 = n  OBVIOUS
  <2> QED BY <2>1, <1>7
<1>9. \A n \in Nat : e[n] \in Readings
  <2> DEFINE S == {n \in Nat : e[n] \in Readings}
  <2>1. 0 \in S
    BY <1>7 DEF Readings
  <2>2. \A n \in S : n + 1 \in S
    BY <1>8, LexAfterType
  <2>3. S = Nat
    <3>1. S \in SUBSET Nat  OBVIOUS
    <3> HIDE DEF S
    <3> QED BY <3>1, <2>1, <2>2, Induct
  <2> QED BY <2>3
<1>10. e \in [Nat -> Readings]
  <2>1. e = [k \in Nat |-> IF k = 0 THEN "sql" ELSE LexAfter(e[k - 1], s[k])]
    BY <1>5
  <2>2. DOMAIN e = Nat /\ e = [k \in DOMAIN e |-> e[k]]
    BY <2>1
  <2> QED BY <2>2, <1>9
<1> QED BY <1>6, <1>7, <1>8, <1>10

(* A reading that has seen the first half of a comment's begin or end says *)
(* what the last symbol is.                                                *)
LEMMA LastSymbol ==
  ASSUME NEW s, NEW n \in Nat
  PROVE  /\ Lexed(s)[n] = "slash" => n # 0 /\ s[n] = "/"
         /\ Lexed(s)[n] = "star" => n # 0 /\ s[n] = "*"
<1>1. CASE n = 0
  BY <1>1, LexedIs
<1>2. CASE n # 0
  <2>1. n - 1 \in Nat /\ (n - 1) + 1 = n  BY <1>2
  <2>2. Lexed(s)[n] = LexAfter(Lexed(s)[n - 1], s[n]) /\ Lexed(s)[n - 1] \in Readings
    BY <2>1, LexedIs
  <2>3. ASSUME NEW m \in Readings, NEW c
        PROVE  /\ LexAfter(m, c) = "slash" => c = "/"
               /\ LexAfter(m, c) = "star" => c = "*"
    <3>1. Plainly(c) # "star" /\ (Plainly(c) = "slash" => c = "/")
      BY DEF Plainly
    <3> QED BY <3>1 DEF LexAfter, Readings
  <2> QED BY <1>2, <2>2, <2>3
<1> QED BY <1>1, <1>2

(* What comes later does not change how a text is read so far.             *)
LEMMA LexedPrefix ==
  ASSUME NEW s, NEW t, NEW b \in Nat, \A k \in 1 .. b : s[k] = t[k]
  PROVE  \A k \in 0 .. b : Lexed(s)[k] = Lexed(t)[k]
<1> DEFINE S == {n \in Nat : n <= b => Lexed(s)[n] = Lexed(t)[n]}
<1>1. 0 \in S
  BY LexedIs
<1>2. ASSUME NEW n \in S PROVE n + 1 \in S
  <2> SUFFICES ASSUME n + 1 <= b PROVE Lexed(s)[n + 1] = Lexed(t)[n + 1]
    OBVIOUS
  <2>1. Lexed(s)[n] = Lexed(t)[n] /\ s[n + 1] = t[n + 1] /\ n \in Nat
    OBVIOUS
  <2> QED BY <2>1, LexedIs
<1>3. S = Nat
  <2>1. S \in SUBSET Nat  OBVIOUS
  <2> HIDE DEF S
  <2> QED BY <2>1, <1>1, <1>2, Induct
<1> QED BY <1>3

(* Three symbols of a text that follow each other.                         *)
LEMMA ThreeOccur ==
  ASSUME NEW s \in Seq(STRING), NEW k \in 2 .. Len(s) - 1
  PROVE  Occurs(<<s[k - 1], s[k], s[k + 1]>>, s)
<1> DEFINE part == <<s[k - 1], s[k], s[k + 1]>>
           q == SubSeq(s, (k - 2) + 1, (k - 2) + 3)
<1>1. Len(part) = 3 /\ Len(s) \in Nat
  OBVIOUS
<1>2. q \in Seq(STRING) /\ Len(q) = 3
  OBVIOUS
<1>3. q[1] = s[k - 1] /\ q[2] = s[k] /\ q[3] = s[k + 1]
  OBVIOUS
<1>4. q = part
  <2>1. part \in Seq(STRING)
    OBVIOUS
  <2> HIDE DEF q
  <2>2. \A i \in 1 .. 3 : q[i] = part[i]
    BY <1>3
  <2> QED BY <1>1, <1>2, <2>1, <2>2
<1>5. k - 2 \in 0 .. Len(s) - Len(part)
  BY <1>1
<1>6. SubSeq(s, (k - 2) + 1, (k - 2) + Len(part)) = part
  BY <1>1, <1>4
<1> HIDE DEF part, q
<1>7. Occurs(part, s)
  BY <1>5, <1>6 DEF Occurs
<1> QED BY <1>7 DEF part

-----------------------------------------------------------------------------
(* The references in the part of the text before p, and their number.      *)
Passed(p) == {r \in References(text) : r < p}
Count(p) == Cardinality(Passed(p))

LEMMA IsPassed ==
  ASSUME NEW p, NEW r PROVE r \in Passed(p) <=> r \in References(text) /\ r < p
  BY DEF Passed

LEMMA IsReferred ==
  ASSUME NEW s \in Seq(STRING)
  PROVE  /\ References(s) \subseteq 1 .. Len(s)
         /\ \A r \in 1 .. Len(s) : r \in References(s) <=> IsReference(s, r) /\ InStatement(s, r)
  BY DEF References

(* One more reference is passed where there is one, and none elsewhere.    *)
LEMMA PassOne ==
  ASSUME text \in Seq(STRING), NEW p \in Nat
  PROVE  /\ Count(p) \in Nat
         /\ p \in References(text) => Passed(p + 1) = Passed(p) \cup {p} /\ Count(p + 1) = Count(p) + 1
         /\ p \notin References(text) => Passed(p + 1) = Passed(p) /\ Count(p + 1) = Count(p)
<1>1. References(text) \subseteq 1 .. Len(text) /\ Len(text) \in Nat
  BY IsReferred
<1>2. IsFiniteSet(Passed(p))
  <2>1. IsFiniteSet(1 .. Len(text))
    BY <1>1, FS_Interval
  <2>2. Passed(p) \subseteq 1 .. Len(text)
    BY <1>1, IsPassed
  <2> QED BY <2>1, <2>2, FS_Subset
<1>3. Cardinality(Passed(p)) \in Nat
  BY <1>2, FS_CardinalityType
<1>4. \A r \in References(text) : r < p + 1 <=> r < p \/ r = p
  BY <1>1
<1>5. ASSUME p \in References(text)
      PROVE  Passed(p + 1) = Passed(p) \cup {p} /\ Count(p + 1) = Count(p) + 1
  <2>1. Passed(p + 1) = Passed(p) \cup {p}
    BY <1>4, <1>5, IsPassed
  <2>2. p \notin Passed(p)
    BY IsPassed
  <2>3. Cardinality(Passed(p) \cup {p}) = Cardinality(Passed(p)) + 1
    BY <1>2, <2>2, FS_AddElement
  <2> QED BY <2>1, <2>3 DEF Count
<1>6. ASSUME p \notin References(text)
      PROVE  Passed(p + 1) = Passed(p) /\ Count(p + 1) = Count(p)
  <2>1. Passed(p + 1) = Passed(p)
    BY <1>4, <1>6, IsPassed
  <2> QED BY <2>1 DEF Count
<1> QED BY <1>3, <1>5, <1>6 DEF Count

(* Further on at least as many are passed.                                 *)
LEMMA PassMore ==
  ASSUME text \in Seq(STRING), NEW p \in Nat, NEW q \in Nat, p <= q
  PROVE  Count(p) <= Count(q)
<1> DEFINE S == {n \in Nat : p <= n => Count(p) <= Count(n)}
<1>1. \A n \in Nat : Count(n) \in Nat /\ Count(n) <= Count(n + 1)
  <2> TAKE n \in Nat
  <2>1. Count(n) \in Nat /\ (Count(n + 1) = Count(n) + 1 \/ Count(n + 1) = Count(n))
    BY PassOne
  <2> QED BY <2>1
<1>2. 0 \in S
  <2>1. p <= 0 => p = 0  OBVIOUS
  <2> QED BY <1>1, <2>1
<1>3. ASSUME NEW n \in S PROVE n + 1 \in S
  <2>1. p <= n + 1 => p <= n \/ p = n + 1  OBVIOUS
  <2>2. Count(n + 1) <= Count(n + 1)  BY <1>1
  <2>3. p <= n => Count(p) <= Count(n + 1)  BY <1>1
  <2> QED BY <2>1, <2>2, <2>3
<1>4. S = Nat
  <2>1. S \in SUBSET Nat  OBVIOUS
  <2> HIDE DEF S
  <2> QED BY <2>1, <1>2, <1>3, Induct
<1> QED BY <1>4

(* The number of a reference is how many there are up to it.               *)
LEMMA UpToIs ==
  ASSUME text \in Seq(STRING), NEW r \in Nat
  PROVE  UpTo(References(text), r) = Count(r + 1)
<1>1. \A q \in References(text) : q <= r <=> q < r + 1
  BY IsReferred
<1>2. {q \in References(text) : q <= r} = Passed(r + 1)
  BY <1>1, IsPassed
<1> QED BY <1>2 DEF UpTo, Count

(* The reading of a text and the scanner's flags, when c is the next       *)
(* symbol: the scanner looks one symbol ahead, so it is in a comment one   *)
(* symbol early and leaves it one symbol early.                            *)
Agrees(m, x, c) ==
  \/ m = "sql" /\ x = "sql"
  \/ m = "sql" /\ x = "slash" /\ c # "*"
  \/ m = "sql" /\ x = "dash" /\ c # "-"
  \/ m = "sql" /\ x = "star" /\ c = "/"
  \/ m \in {"single", "double", "line", "block"} /\ x = m
  \/ m = "line" /\ x = "dash" /\ c = "-"
  \/ m = "block" /\ x = "slash" /\ c = "*"
  \/ m = "block" /\ x = "star" /\ c # "/"

(* The scanner keeps up with the reading, unless a comment's begin and end *)
(* share a symbol: b is the symbol before c, d the one behind it.          *)
LEMMA ModeAgrees ==
  ASSUME NEW m \in {"sql", "single", "double", "block", "line"}, NEW x \in Readings,
         NEW b, NEW c, NEW d, Agrees(m, x, c),
         x = "slash" => b = "/", x = "star" => b = "*",
         ~(b = "/" /\ c = "*" /\ d = "/"), ~(b = "*" /\ c = "/" /\ d = "*")
  PROVE  Agrees(ModeAfter(m, c, d), LexAfter(x, c), d)
<1> USE DEF Agrees, ModeAfter, LexAfter
<1>1. CASE m = "sql" /\ x \in {"sql", "slash", "dash"}
  BY <1>1 DEF Plainly
<1>2. CASE m = "sql" /\ x \notin {"sql", "slash", "dash"}
  BY <1>2
<1>3. CASE m = "block"
  BY <1>3
<1>4. CASE m = "line"
  BY <1>4
<1>5. CASE m \in {"single", "double"}
  BY <1>5
<1> QED BY <1>1, <1>2, <1>3, <1>4, <1>5

-----------------------------------------------------------------------------
(* Where the placeholder of a reference stands in the statement.           *)
Place(r) == r - UpTo(References(text), r) + 1
Places(p) == {Place(r) : r \in Passed(p)}

(* What is scanned is read by SQL as the statement made of it, and its     *)
(* references are the placeholders and the names so far.                   *)
ScanReads ==
  /\ Agrees(mode, Lexed(text)[pos - 1], Symbol(text, pos))
  /\ Lexed(parsedQuery)[Len(parsedQuery)] = Lexed(text)[pos - 1]

ScanPlaces ==
  /\ Len(parsedQuery) + Count(pos) = pos - 1
  /\ Placeholders(parsedQuery) = Places(pos)

ScanNames ==
  /\ Len(lstParameters) = Count(pos)
  /\ \A r \in Passed(pos) : lstParameters[UpTo(References(text), r)] = text[r + 1]

ScanOK ==
  stage # "failed" /\ Plain(text) =>
    ScanReads /\ ScanPlaces /\ ScanNames /\ (stage # "scan" => pos > Len(text))

LEMMA IsPlace ==
  ASSUME NEW p PROVE \A k : k \in Places(p) <=> \E r \in Passed(p) : k = Place(r)
  BY DEF Places

LEMMA IsPlaceholder ==
  ASSUME NEW s \in Seq(STRING \cup {"?"})
  PROVE  \A k : k \in Placeholders(s) <=> k \in 1 .. Len(s) /\ s[k] = "?" /\ InStatement(s, k)
  BY DEF Placeholders

(* A symbol is added to the statement: how it is read, and whether it is a *)
(* placeholder.                                                            *)
LEMMA OneSymbolMore ==
  ASSUME NEW q \in Seq(STRING \cup {"?"}), NEW c \in STRING \cup {"?"}
  PROVE  LET t == Append(q, c)
             x == Lexed(q)[Len(q)]
         IN /\ Len(t) = Len(q) + 1 /\ t \in Seq(STRING \cup {"?"})
            /\ Lexed(t)[Len(t)] = LexAfter(x, c)
            /\ Placeholders(t) = Placeholders(q) \cup
                 (IF c = "?" /\ x \in {"sql", "slash", "dash"} THEN {Len(q) + 1} ELSE {})
<1> DEFINE t == Append(q, c)
           n == Len(q)
           x == Lexed(q)[n]
<1>1. t \in Seq(STRING \cup {"?"}) /\ Len(t) = n + 1 /\ t[n + 1] = c /\ n \in Nat
      /\ \A k \in 1 .. n : t[k] = q[k]
  OBVIOUS
<1> HIDE DEF t
<1>2. \A k \in 0 .. n : Lexed(t)[k] = Lexed(q)[k]
  <2>1. n \in Nat /\ \A k \in 1 .. n : t[k] = q[k]
    BY <1>1
  <2> HIDE DEF n, x
  <2>2. ASSUME NEW b \in Nat, \A k \in 1 .. b : t[k] = q[k]
        PROVE  \A k \in 0 .. b : Lexed(t)[k] = Lexed(q)[k]
    BY <2>2, LexedPrefix, ZenonT(40)
  <2> QED BY <2>1, <2>2, ZenonT(40)
<1>3. Lexed(t)[n] = x
  BY <1>1, <1>2
<1>4. Lexed(t)[n + 1] = LexAfter(x, c)
  BY <1>1, <1>3, LexedIs
<1>5. \A k \in 1 .. n : InStatement(t, k) <=> InStatement(q, k)
  <2> TAKE k \in 1 .. n
  <2>1. k - 1 \in 0 .. n  BY <1>1
  <2> QED BY <2>1, <1>2 DEF InStatement
<1>6. InStatement(t, n + 1) <=> x \in {"sql", "slash", "dash"}
  <2>1. (n + 1) - 1 = n  BY <1>1
  <2> QED BY <2>1, <1>3 DEF InStatement
<1>7. ASSUME NEW k
      PROVE  k \in Placeholders(t) <=>
               k \in Placeholders(q) \/ (k = n + 1 /\ c = "?" /\ x \in {"sql", "slash", "dash"})
  <2>1. k \in 1 .. n + 1 <=> k \in 1 .. n \/ k = n + 1
    BY <1>1
  <2>2. k \in Placeholders(t) <=> k \in 1 .. n + 1 /\ t[k] = "?" /\ InStatement(t, k)
    BY <1>1, IsPlaceholder
  <2>3. k \in Placeholders(q) <=> k \in 1 .. n /\ q[k] = "?" /\ InStatement(q, k)
    BY IsPlaceholder
  <2>4. n + 1 \notin 1 .. n  BY <1>1
  <2> HIDE DEF n, x
  <2> QED BY <1>1, <1>5, <1>6, <2>1, <2>2, <2>3, <2>4
<1>8. Placeholders(t) = Placeholders(q) \cup
        (IF c = "?" /\ x \in {"sql", "slash", "dash"} THEN {n + 1} ELSE {})
  BY <1>7
<1> QED BY <1>1, <1>4, <1>8 DEF t

(* At a reference that the reading sees the scanner is outside of literals *)
(* and comments, and at a colon it is there only if the reading is.        *)
LEMMA AtColon ==
  ASSUME NEW m, NEW x \in Readings, Agrees(m, x, ":")
  PROVE  m = "sql" <=> x \in {"sql", "slash", "dash"}
  BY DEF Agrees, Readings

(* The symbols before and behind a symbol of a plain text.                 *)
LEMMA NoShared ==
  ASSUME NEW s \in Seq(STRING), Plain(s), NEW p \in 1 .. Len(s), p # 1
  PROVE  /\ ~(s[p - 1] = "/" /\ s[p] = "*" /\ Symbol(s, p + 1) = "/")
         /\ ~(s[p - 1] = "*" /\ s[p] = "/" /\ Symbol(s, p + 1) = "*")
<1>1. ASSUME NEW d, d # "end", Symbol(s, p + 1) = d
      PROVE  Occurs(<<s[p - 1], s[p], d>>, s)
  <2>1. p + 1 \in 1 .. Len(s) /\ s[p + 1] = d /\ p \in 2 .. Len(s) - 1
    BY <1>1 DEF Symbol
  <2> QED BY <2>1, ThreeOccur
<1>2. ~Occurs(<<"/", "*", "/">>, s) /\ ~Occurs(<<"*", "/", "*">>, s)
  BY DEF Plain
<1>3. CASE s[p - 1] = "/" /\ s[p] = "*" /\ Symbol(s, p + 1) = "/"
  <2>1. Occurs(<<s[p - 1], s[p], "/">>, s)
    BY <1>1, <1>3
  <2> QED BY <1>2, <1>3, <2>1
<1>4. CASE s[p - 1] = "*" /\ s[p] = "/" /\ Symbol(s, p + 1) = "*"
  <2>1. Occurs(<<s[p - 1], s[p], "*">>, s)
    BY <1>1, <1>4
  <2> QED BY <1>2, <1>4, <2>1
<1> QED BY <1>3, <1>4

LEMMA ScanKeepsOK ==
  ASSUME ParamTypeOK, ScanOK, Scan
  PROVE  ScanOK'
<1> USE ParametersAssumption
<1> DEFINE c == text[pos]
           d == Symbol(text, pos + 1)
           x == Lexed(text)[pos - 1]
<1> SUFFICES ASSUME Plain(text)
             PROVE  ScanReads' /\ ScanPlaces' /\ ScanNames' /\ stage' = "scan"
  BY DEF Scan, ScanOK
<1>1. /\ pos \in 1 .. Len(text) /\ stage = "scan" /\ pos' = pos + 1 /\ stage' = stage
      /\ text' = text /\ lstParameters' = lstParameters /\ parsedQuery' = Append(parsedQuery, c)
      /\ mode' = ModeAfter(mode, c, d) /\ ~(mode = "sql" /\ IsReference(text, pos))
      /\ text \in Seq(STRING) /\ c \in STRING /\ pos - 1 \in Nat /\ pos \in Nat
      /\ mode \in {"sql", "single", "double", "block", "line"}
      /\ parsedQuery \in Seq(STRING \cup {"?"})
  BY DEF Scan, Scanning, ParamTypeOK
<1>2. ScanReads /\ ScanPlaces /\ ScanNames
  BY <1>1 DEF ScanOK
<1>3. Symbol(text, pos) = c
  BY <1>1 DEF Symbol
<1>4. x \in Readings /\ Lexed(text)[pos] = LexAfter(x, c)
  <2>1. (pos - 1) + 1 = pos  BY <1>1
  <2> QED BY <1>1, <2>1, LexedIs
<1>5. Agrees(mode', LexAfter(x, c), d)
  <2> DEFINE b == IF pos = 1 THEN "end" ELSE text[pos - 1]
  <2>1. (x = "slash" => b = "/") /\ (x = "star" => b = "*")
    <3>1. (x = "slash" => pos - 1 # 0 /\ text[pos - 1] = "/") /\ (x = "star" => pos - 1 # 0 /\ text[pos - 1] = "*")
      BY <1>1, LastSymbol
    <3> QED BY <3>1, <1>1
  <2>2. ~(b = "/" /\ c = "*" /\ d = "/") /\ ~(b = "*" /\ c = "/" /\ d = "*")
    BY <1>1, NoShared
  <2>3. Agrees(mode, x, c)
    BY <1>2, <1>3 DEF ScanReads
  <2> HIDE DEF b, c, d, x
  <2>4. Agrees(ModeAfter(mode, c, d), LexAfter(x, c), d)
    BY <1>1, <1>4, <2>1, <2>2, <2>3, ModeAgrees
  <2> QED BY <1>1, <2>4
<1>6. pos \notin References(text)
  <2> SUFFICES ASSUME pos \in References(text) PROVE FALSE
    OBVIOUS
  <2>1. IsReference(text, pos) /\ InStatement(text, pos)
    BY <1>1, IsReferred
  <2>2. c = ":" /\ x \in {"sql", "slash", "dash"}
    BY <2>1, <1>3 DEF IsReference, InStatement
  <2>3. mode = "sql"
    BY <1>2, <1>3, <1>4, <2>2, AtColon DEF ScanReads
  <2> QED BY <1>1, <2>1, <2>3
<1>7. ~(c = "?" /\ x \in {"sql", "slash", "dash"})
  <2> SUFFICES ASSUME c = "?", x \in {"sql", "slash", "dash"} PROVE FALSE
    OBVIOUS
  <2>1. pos \in Placeholders(text)
    BY <1>1 DEF Placeholders, InStatement
  <2> QED BY <2>1 DEF Plain
<1>8. Count(pos + 1) = Count(pos) /\ Passed(pos + 1) = Passed(pos) /\ Count(pos) \in Nat
  BY <1>1, <1>6, PassOne
<1>9. /\ Len(parsedQuery') = Len(parsedQuery) + 1
      /\ Lexed(parsedQuery')[Len(parsedQuery')] = LexAfter(x, c)
      /\ Placeholders(parsedQuery') = Placeholders(parsedQuery)
  <2>1. Lexed(parsedQuery)[Len(parsedQuery)] = x
    BY <1>2 DEF ScanReads
  <2> HIDE DEF c, x
  <2> QED BY <1>1, <1>7, <2>1, OneSymbolMore
<1>10. ScanReads'
  <2>1. (pos + 1) - 1 = pos  BY <1>1
  <2>2. Lexed(parsedQuery)' = Lexed(parsedQuery') /\ Lexed(text)' = Lexed(text)
    BY <1>1 DEF Lexed
  <2>3. Symbol(text, pos)' = d
    BY <1>1
  <2> HIDE DEF c, d, x
  <2> QED BY <1>1, <1>4, <1>5, <1>9, <2>1, <2>2, <2>3 DEF ScanReads
<1>11. ScanPlaces'
  <2>1. Count(pos)' = Count(pos)
    BY <1>1, <1>8 DEF Count, Passed
  <2>2. Places(pos)' = Places(pos)
    BY <1>1, <1>8 DEF Places, Passed, Place
  <2>3. Len(parsedQuery) \in Nat
    BY <1>1
  <2> QED BY <1>1, <1>2, <1>8, <1>9, <2>1, <2>2, <2>3 DEF ScanPlaces
<1>12. ScanNames'
  <2>1. Count(pos)' = Count(pos) /\ Passed(pos)' = Passed(pos)
    BY <1>1, <1>8 DEF Count, Passed
  <2> QED BY <1>1, <1>2, <2>1 DEF ScanNames
<1> QED BY <1>1, <1>10, <1>11, <1>12

LEMMA ReferenceKeepsOK ==
  ASSUME ParamTypeOK, ScanOK, ScanReference
  PROVE  ScanOK'
<1> USE ParametersAssumption
<1> DEFINE w == text[pos + 1]
           x == Lexed(text)[pos - 1]
           refs == References(text)
<1> SUFFICES ASSUME Plain(text)
             PROVE  ScanReads' /\ ScanPlaces' /\ ScanNames' /\ stage' = "scan"
  BY DEF ScanReference, Scanning, ScanOK
<1>1. /\ pos \in 1 .. Len(text) /\ stage = "scan" /\ pos' = pos + 2 /\ stage' = stage
      /\ text' = text /\ lstParameters' = Append(lstParameters, w)
      /\ parsedQuery' = Append(parsedQuery, "?")
      /\ mode' = mode /\ mode = "sql" /\ IsReference(text, pos)
      /\ text \in Seq(STRING) /\ pos - 1 \in Nat /\ pos \in Nat /\ pos + 1 \in Nat
      /\ parsedQuery \in Seq(STRING \cup {"?"}) /\ lstParameters \in Seq(Words)
  <2>1. /\ text \in Seq(STRING) /\ pos \in Nat \ {0}
        /\ parsedQuery \in Seq(STRING \cup {"?"}) /\ lstParameters \in Seq(Words)
    BY DEF ParamTypeOK
  <2>2. /\ stage = "scan" /\ pos <= Len(text) /\ mode = "sql" /\ IsReference(text, pos)
        /\ lstParameters' = Append(lstParameters, w) /\ parsedQuery' = Append(parsedQuery, "?")
        /\ pos' = pos + 2 /\ text' = text /\ mode' = mode /\ stage' = stage
    BY DEF ScanReference, Scanning
  <2>3. pos \in 1 .. Len(text) /\ pos - 1 \in Nat /\ pos + 1 \in Nat
    BY <2>1, <2>2
  <2> QED BY <2>1, <2>2, <2>3
<1>2. ScanReads /\ ScanPlaces /\ ScanNames
  BY <1>1 DEF ScanOK
<1>3. Symbol(text, pos) = ":" /\ text[pos] = ":"
  BY <1>1 DEF Symbol, IsReference
<1>4. pos + 1 \in 1 .. Len(text) /\ w \in Words
  <2>1. Symbol(text, pos + 1) \in Words
    BY <1>1 DEF IsReference
  <2> QED BY <1>1, <2>1 DEF Symbol
<1>5. x \in {"sql", "slash", "dash"}
  <2>1. x \in Readings
    BY <1>1, LexedIs
  <2> QED BY <1>1, <1>2, <1>3, <2>1, AtColon DEF ScanReads
<1>6. Lexed(text)[pos] = "sql" /\ Lexed(text)[pos + 1] = "sql"
  <2>1. (pos - 1) + 1 = pos  BY <1>1
  <2>2. Lexed(text)[pos] = LexAfter(x, ":") /\ Lexed(text)[pos + 1] = LexAfter(Lexed(text)[pos], w)
    BY <1>1, <1>3, <2>1, LexedIs
  <2>3. LexAfter(x, ":") = "sql"
    BY <1>5 DEF LexAfter, Plainly
  <2>4. LexAfter("sql", w) = "sql"
    BY <1>4 DEF LexAfter, Plainly, Signs
  <2> QED BY <2>2, <2>3, <2>4
<1>7. pos \in refs /\ pos + 1 \notin refs
  <2>1. InStatement(text, pos)
    BY <1>5 DEF InStatement
  <2>2. ~IsReference(text, pos + 1)
    BY <1>4 DEF IsReference, Symbol, Signs
  <2> QED BY <1>1, <1>4, <2>1, <2>2, IsReferred
<1>8. /\ Count(pos) \in Nat /\ Count(pos + 1) = Count(pos) + 1
      /\ Count(pos + 2) = Count(pos) + 1 /\ Passed(pos + 2) = Passed(pos) \cup {pos}
  <2>1. (pos + 1) + 1 = pos + 2  BY <1>1
  <2> HIDE DEF refs
  <2> QED BY <1>1, <1>7, <2>1, PassOne DEF refs
<1>9. /\ Len(parsedQuery') = Len(parsedQuery) + 1 /\ Len(parsedQuery) \in Nat
      /\ Lexed(parsedQuery')[Len(parsedQuery')] = "sql"
      /\ Placeholders(parsedQuery') = Placeholders(parsedQuery) \cup {Len(parsedQuery) + 1}
  <2>1. Lexed(parsedQuery)[Len(parsedQuery)] = x
    BY <1>2 DEF ScanReads
  <2>2. LexAfter(x, "?") = "sql"
    BY <1>5 DEF LexAfter, Plainly
  <2> HIDE DEF x
  <2> QED BY <1>1, <1>5, <2>1, <2>2, OneSymbolMore
<1>10. ScanReads'
  <2>1. (pos + 2) - 1 = pos + 1  BY <1>1
  <2>2. Lexed(parsedQuery)' = Lexed(parsedQuery') /\ Lexed(text)' = Lexed(text)
    BY <1>1 DEF Lexed
  <2> QED BY <1>1, <1>6, <1>9, <2>1, <2>2 DEF ScanReads, Agrees
<1>11. Len(parsedQuery) + 1 = Place(pos) /\ UpTo(refs, pos) = Count(pos) + 1
  <2>1. UpTo(refs, pos) = Count(pos + 1)
    BY <1>1, UpToIs
  <2>2. Len(parsedQuery) + Count(pos) = pos - 1
    BY <1>2 DEF ScanPlaces
  <2> QED BY <1>1, <1>8, <1>9, <2>1, <2>2 DEF Place
<1>12. ScanPlaces'
  <2>1. Count(pos)' = Count(pos) + 1
    BY <1>1, <1>8 DEF Count, Passed
  <2>2. Places(pos)' = Places(pos) \cup {Place(pos)}
    <3>1. Places(pos)' = Places(pos + 2)
      BY <1>1 DEF Places, Passed, Place
    <3>2. \A k : k \in Places(pos + 2) <=> k \in Places(pos) \/ k = Place(pos)
      BY <1>8, IsPlace
    <3> QED BY <3>1, <3>2
  <2>3. Placeholders(parsedQuery)' = Places(pos)'
    BY <1>2, <1>9, <1>11, <2>2 DEF ScanPlaces
  <2>4. Len(parsedQuery)' + Count(pos)' = pos' - 1
    <3>1. Len(parsedQuery) + Count(pos) = pos - 1
      BY <1>2 DEF ScanPlaces
    <3> QED BY <1>1, <1>8, <1>9, <2>1, <3>1
  <2> QED BY <2>3, <2>4 DEF ScanPlaces
<1>13. ScanNames'
  <2>1. Count(pos)' = Count(pos) + 1 /\ Passed(pos)' = Passed(pos) \cup {pos}
    BY <1>1, <1>8 DEF Count, Passed
  <2>2. /\ Len(lstParameters') = Count(pos) + 1 /\ lstParameters'[Count(pos) + 1] = w
        /\ \A k \in 1 .. Count(pos) : lstParameters'[k] = lstParameters[k]
    BY <1>1, <1>2, <1>8 DEF ScanNames
  <2>3. ASSUME NEW r \in Passed(pos)
        PROVE  UpTo(refs, r) \in 1 .. Count(pos)
    <3>1. r \in refs /\ r \in Nat /\ r + 1 \in Nat /\ r + 1 <= pos
      BY <1>1, IsPassed, IsReferred
    <3>2. UpTo(refs, r) = Count(r + 1) /\ Count(r + 1) = Count(r) + 1 /\ Count(r) \in Nat
      BY <1>1, <3>1, UpToIs, PassOne
    <3>3. Count(r + 1) <= Count(pos)
      BY <1>1, <3>1, PassMore
    <3> QED BY <1>8, <3>2, <3>3
  <2>4. ASSUME NEW r \in Passed(pos) \cup {pos}
        PROVE  lstParameters'[UpTo(refs, r)] = text[r + 1]
    <3>1. CASE r = pos
      BY <3>1, <1>11, <2>2
    <3>2. CASE r \in Passed(pos)
      BY <3>2, <1>2, <2>2, <2>3 DEF ScanNames
    <3> QED BY <3>1, <3>2
  <2> HIDE DEF w
  <2> QED BY <1>1, <2>1, <2>2, <2>4 DEF ScanNames
<1> QED BY <1>1, <1>10, <1>12, <1>13

(* The scanner reads a plain text as SQL does, and passes its references   *)
(* one by one.                                                             *)
LEMMA ScanIsRight == RunSpec => []ScanOK
<1>1. RunInit => ScanOK
  <2> SUFFICES ASSUME RunInit PROVE ScanReads /\ ScanPlaces /\ ScanNames /\ stage = "scan"
    BY DEF ScanOK
  <2>1. /\ text \in Seq(STRING) /\ pos = 1 /\ mode = "sql" /\ parsedQuery = <<>>
        /\ lstParameters = <<>> /\ stage = "scan"
    BY ParametersAssumption DEF RunInit, ParamInit
  <2>2. References(text) \subseteq 1 .. Len(text)
    BY <2>1, IsReferred
  <2>3. Passed(pos) = {}
    BY <2>1, <2>2, IsPassed
  <2>4. Count(pos) = 0
    BY <2>3, FS_EmptySet DEF Count
  <2>5. Placeholders(parsedQuery) = {} /\ Places(pos) = {}
    BY <2>1, <2>3 DEF Placeholders, Places
  <2>6. Len(parsedQuery) = 0 /\ Len(lstParameters) = 0 /\ pos - 1 = 0
    BY <2>1
  <2>7. Lexed(text)[0] = "sql" /\ Lexed(parsedQuery)[0] = "sql"
    BY LexedIs
  <2>8. ScanReads
    BY <2>1, <2>6, <2>7 DEF ScanReads, Agrees
  <2>9. ScanPlaces /\ ScanNames
    BY <2>3, <2>4, <2>5, <2>6 DEF ScanPlaces, ScanNames
  <2> QED BY <2>1, <2>8, <2>9
<1>2. ParamTypeOK /\ ScanOK /\ [RunNext]_runVars => ScanOK'
  <2> SUFFICES ASSUME ParamTypeOK, ScanOK, [RunNext]_runVars PROVE ScanOK'
    OBVIOUS
  <2>1. CASE Scan
    BY <2>1, ScanKeepsOK
  <2>2. CASE ScanReference
    BY <2>2, ReferenceKeepsOK
  <2>3. CASE ScanFails \/ SetFails
    <3>1. stage' = "failed"
      BY <2>3 DEF ScanFails, SetFails
    <3> QED BY <3>1 DEF ScanOK
  <2>4. CASE UNCHANGED scanned /\ stage # "failed" /\ (stage' # "scan" => stage # "scan" \/ pos > Len(text))
    BY <2>4 DEF scanned, ScanOK, ScanReads, ScanPlaces, ScanNames, Count, Passed, Places, Place
  <2>5. CASE Prepare \/ Check \/ Set \/ Bound \/ Execute
    BY <2>4, <2>5 DEF Prepare, Check, Set, Bound, Execute, Binding
  <2>6. CASE UNCHANGED paramVars
    <3>1. UNCHANGED scanned /\ stage' = stage
      BY <2>6 DEF paramVars, scanned
    <3> QED BY <2>4, <3>1 DEF ScanOK
  <2> QED
    BY <2>1, <2>2, <2>3, <2>5, <2>6 DEF RunNext, Bind, ParamNext, Write, runVars
<1> QED BY <1>1, <1>2, ParamTypes, PTL DEF RunSpec

(* The last value given for a name is that of the variable which a         *)
(* parameter of that name was set by.                                      *)
LEMMA SetByLast ==
  ASSUME variables \in Seq(Vars), NEW k, SetBy(k, Len(variables))
  PROVE  params[k] = LastValue(lstParameters[k])
<1> DEFINE w == lstParameters[k]
           named == {i \in DOMAIN variables : Same(variables[i].name, w)}
           Lasts(i) == i \in named /\ \A l \in named : l <= i
<1>1. PICK j \in 1 .. Len(variables) :
        /\ Same(variables[j].name, w) /\ params[k] = variables[j].value
        /\ \A l \in 1 .. Len(variables) : l > j => ~Same(variables[l].name, w)
  BY DEF SetBy
<1>2. Lasts(j)
  BY <1>1
<1>3. \A i : Lasts(i) => i = j
  <2> TAKE i
  <2>1. Lasts(i) => i \in 1 .. Len(variables) /\ j <= i /\ i <= j
    BY <1>2
  <2> QED BY <2>1
<1>4. (CHOOSE i \in named : \A l \in named : l <= i) = j
  <2> HIDE DEF named
  <2> QED BY <1>2, <1>3
<1> HIDE DEF w
<1>5. LastValue(w) = variables[j].value
  BY <1>4 DEF LastValue
<1> QED BY <1>1, <1>5 DEF w

(* A statement that is ready to run has a placeholder for each reference   *)
(* of a plain text and for nothing else, and the last value given for its  *)
(* name is bound to it (lines 62 to 143 of the scanner, 196 to 245 of      *)
(* preview): the scan is right, and every parameter is set.                *)
THEOREM ValuesReachTheirNames == RunSpec => []BoundByName
<1>1. ASSUME ParamTypeOK, ScanOK, EveryParameterIsSet PROVE BoundByName
  <2> USE DEF ParamTypeOK, Stages
  <2> DEFINE refs == References(text)
  <2> SUFFICES ASSUME stage = "ready", Plain(text)
               PROVE  /\ Placeholders(parsedQuery) = {r - UpTo(refs, r) + 1 : r \in refs}
                      /\ Len(params) = Cardinality(refs)
                      /\ \A r \in refs : params[UpTo(refs, r)] = LastValue(text[r + 1])
    BY DEF BoundByName
  <2>1. ScanPlaces /\ ScanNames /\ pos > Len(text)
    BY <1>1 DEF ScanOK
  <2>2. refs \subseteq 1 .. Len(text) /\ Len(text) \in Nat /\ pos \in Nat
    BY <1>1, IsReferred
  <2>3. Passed(pos) = refs
    <3>1. \A r \in refs : r < pos
      BY <2>1, <2>2
    <3> HIDE DEF refs
    <3> QED BY <3>1, IsPassed DEF refs
  <2>4. Placeholders(parsedQuery) = {r - UpTo(refs, r) + 1 : r \in refs}
    BY <2>1, <2>3 DEF ScanPlaces, Places, Place
  <2>5. Len(lstParameters) = Cardinality(refs)
    BY <2>1, <2>3 DEF ScanNames, Count
  <2>6. DOMAIN params = 1 .. Len(lstParameters) /\ Len(lstParameters) \in Nat
    BY <1>1
  <2>7. Len(params) = Len(lstParameters)
    <3>1. params \in [1 .. Len(lstParameters) -> STRING]
      BY <1>1, <2>6
    <3> QED BY <2>6, <3>1
  <2>8. ASSUME NEW r \in refs PROVE params[UpTo(refs, r)] = LastValue(text[r + 1])
    <3> DEFINE k == UpTo(refs, r)
    <3>1. r \in Nat /\ r + 1 \in Nat /\ r + 1 <= pos
      BY <2>1, <2>2
    <3>2. k = Count(r + 1) /\ Count(r + 1) = Count(r) + 1 /\ Count(r) \in Nat
      BY <1>1, <3>1, UpToIs, PassOne
    <3>3. Count(r + 1) <= Count(pos) /\ Count(pos) = Len(lstParameters)
      BY <1>1, <2>1, <2>2, <3>1, PassMore DEF ScanNames
    <3>4. k \in DOMAIN lstParameters
      BY <1>1, <2>6, <3>2, <3>3
    <3>5. lstParameters[k] = text[r + 1]
      BY <2>1, <2>3 DEF ScanNames
    <3> HIDE DEF k
    <3>6. SetBy(k, Len(variables))
      BY <1>1, <3>4 DEF EveryParameterIsSet, Ready
    <3>7. params[k] = LastValue(lstParameters[k])
      BY <1>1, <3>6, SetByLast
    <3> QED BY <3>5, <3>7 DEF k
  <2> HIDE DEF refs
  <2>9. Len(params) = Cardinality(refs)
    BY <2>5, <2>7
  <2> QED BY <2>4, <2>8, <2>9
<1> QED BY <1>1, ParamTypes, ScanIsRight, ParametersAreSet, PTL

-----------------------------------------------------------------------------
(* What texts are made of, as a name that the provers leave alone.         *)
Symbols == STRING

(* The text that a preview shows.  Named(w) are the references by that     *)
(* name.                                                                   *)
Named(w) == {r \in References(text) : Same(text[r + 1], w)}

(* Position k of the text, which is now at p[k], when the references in d  *)
(* are replaced: a reference and its value have one place together, what   *)
(* else there is has one of its own.                                       *)
Aligned(s, d, p) ==
  /\ p \in [1 .. Len(text) + 1 -> 1 .. Len(s) + 1]
  /\ p[1] = 1 /\ p[Len(text) + 1] = Len(s) + 1
  /\ \A k \in 1 .. Len(text) : p[k + 1] = IF k \in d THEN p[k] ELSE p[k] + 1
  /\ \A j, k \in 1 .. Len(text) + 1 : j < k => p[j] < p[k] \/ (k = j + 1 /\ j \in d)
  /\ \A i \in 1 .. Len(s) : \E k \in 1 .. Len(text) : k \notin d /\ p[k] = i

Holds(s, d, p) ==
  \A k \in 1 .. Len(text) : k \notin d =>
    s[p[k]] = IF k - 1 \in d THEN LastValue(text[k]) ELSE text[k]

(* s is the text with the references in d replaced by their values.        *)
Shows(s, d) == s \in Seq(Symbols) /\ \E p : Aligned(s, d, p) /\ Holds(s, d, p)

(* Of the text: references neither overlap nor touch a second colon, and   *)
(* those in d have a value, which is no symbol of a reference.             *)
Distinct(d) ==
  /\ text \in Seq(Symbols) /\ d \subseteq References(text)
  /\ \A k \in 1 .. Len(text) : IsReference(text, k) => k \in References(text)
  /\ \A r \in d : LastValue(text[r + 1]) \in Symbols \ (Words \cup {":"})

LEMMA ReferenceFacts ==
  ASSUME text \in Seq(Symbols), NEW r \in References(text)
  PROVE  /\ r \in 1 .. Len(text) /\ r + 1 \in 1 .. Len(text)
         /\ text[r] = ":" /\ text[r + 1] \in Words /\ ":" \notin Words /\ "end" \notin Words
         /\ r + 1 \notin References(text) /\ r - 1 \notin References(text)
<1>1. ":" \notin Words /\ "end" \notin Words
  BY ParametersAssumption DEF Signs
<1>2. \A k \in References(text) : /\ k \in 1 .. Len(text) /\ k + 1 \in 1 .. Len(text)
                                  /\ text[k] = ":" /\ text[k + 1] \in Words
  <2> TAKE k \in References(text)
  <2>1. k \in 1 .. Len(text) /\ Symbol(text, k) = ":" /\ Symbol(text, k + 1) \in Words
    BY IsReferred DEF IsReference, Symbols
  <2> QED BY <1>1, <2>1 DEF Symbol
<1>3. r \in Int /\ (r - 1) + 1 = r
  BY <1>2
<1>4. r + 1 \notin References(text)
  BY <1>1, <1>2
<1>5. r - 1 \notin References(text)
  BY <1>1, <1>2, <1>3
<1> QED BY <1>1, <1>2, <1>4, <1>5

(* At what is not replaced, s has a reference where the text has one, by   *)
(* the same name.                                                          *)
LEMMA ShownReference ==
  ASSUME NEW s \in Seq(Symbols), NEW d, NEW p, Aligned(s, d, p), Holds(s, d, p), Distinct(d),
         NEW k \in 1 .. Len(text), k \notin d
  PROVE  /\ IsReference(s, p[k]) <=> k \in References(text)
         /\ k \in References(text) => p[k] + 1 \in 1 .. Len(s) /\ s[p[k] + 1] = text[k + 1]
                                      /\ p[k + 1] = p[k] + 1
<1> USE DEF Distinct
<1>0. /\ k + 1 \in 1 .. Len(text) + 1 /\ p[k] \in 1 .. Len(s) + 1 /\ p[k + 1] \in 1 .. Len(s) + 1
      /\ p[k + 1] = p[k] + 1 /\ Len(text) \in Nat /\ Len(s) \in Nat
  <2>1. k \in 1 .. Len(text) + 1 /\ k + 1 \in 1 .. Len(text) + 1 /\ Len(text) \in Nat /\ Len(s) \in Nat
    OBVIOUS
  <2>2. p \in [1 .. Len(text) + 1 -> 1 .. Len(s) + 1]
    BY DEF Aligned
  <2>3. p[k + 1] = p[k] + 1
    BY DEF Aligned
  <2> QED BY <2>1, <2>2, <2>3
<1>1. ASSUME k \in References(text)
      PROVE  IsReference(s, p[k]) /\ p[k] + 1 \in 1 .. Len(s) /\ s[p[k] + 1] = text[k + 1]
  <2>1. /\ k + 1 \in 1 .. Len(text) /\ text[k] = ":" /\ text[k + 1] \in Words
        /\ k + 1 \notin d /\ k - 1 \notin d
    BY <1>1, ReferenceFacts
  <2>2. s[p[k]] = ":"
    BY <2>1 DEF Holds
  <2>3. (k + 1) - 1 = k
    BY <1>0
  <2>4. s[p[k + 1]] = text[k + 1]
    BY <2>1, <2>3 DEF Holds
  <2>5. p[k + 1] < p[Len(text) + 1] \/ (Len(text) + 1 = (k + 1) + 1 /\ k + 1 \in d)
    <3>1. k + 1 < Len(text) + 1 /\ Len(text) + 1 \in 1 .. Len(text) + 1
      BY <2>1
    <3>2. \A j, i \in 1 .. Len(text) + 1 : j < i => p[j] < p[i] \/ (i = j + 1 /\ j \in d)
      BY DEF Aligned
    <3> QED BY <1>0, <3>1, <3>2
  <2>6. p[k + 1] \in 1 .. Len(s) /\ p[k] \in 1 .. Len(s)
    <3>1. p[Len(text) + 1] = Len(s) + 1
      BY DEF Aligned
    <3>2. p[k + 1] < Len(s) + 1
      BY <2>1, <2>5, <3>1
    <3> QED BY <1>0, <3>2
  <2> QED BY <1>0, <2>1, <2>2, <2>4, <2>6 DEF IsReference, Symbol
<1>2. ASSUME IsReference(s, p[k]) PROVE k \in References(text)
  <2>1. ":" \notin Words /\ "end" \notin Words /\ ":" # "end"
    BY ParametersAssumption DEF Signs
  <2>2. p[k] \in 1 .. Len(s) /\ p[k + 1] \in 1 .. Len(s) /\ s[p[k]] = ":" /\ s[p[k + 1]] \in Words
    BY <1>0, <1>2, <2>1 DEF IsReference, Symbol
  <2>3. k - 1 \notin d /\ text[k] = ":"
    <3>1. ASSUME k - 1 \in d PROVE FALSE
      <4>1. s[p[k]] = LastValue(text[k])
        BY <3>1 DEF Holds
      <4>2. (k - 1) + 1 = k
        BY <1>0
      <4>3. LastValue(text[k]) # ":"
        BY <3>1, <4>2
      <4> QED BY <2>2, <4>1, <4>3
    <3> QED BY <2>2, <3>1 DEF Holds
  <2>4. k + 1 \in 1 .. Len(text)
    <3>1. k = Len(text) => p[k + 1] = Len(s) + 1
      BY DEF Aligned
    <3> QED BY <1>0, <2>2, <3>1
  <2>5. k + 1 \notin d
    <3> SUFFICES ASSUME k + 1 \in d PROVE FALSE
      OBVIOUS
    <3>1. /\ (k + 1) + 1 \in 1 .. Len(text) /\ (k + 1) + 1 \notin d /\ ((k + 1) + 1) - 1 = k + 1
      BY <1>0, ReferenceFacts
    <3>2. p[(k + 1) + 1] = p[k + 1]
      BY <2>4 DEF Aligned
    <3>3. s[p[(k + 1) + 1]] = LastValue(text[(k + 1) + 1])
      BY <3>1 DEF Holds
    <3> QED BY <2>2, <3>2, <3>3
  <2>6. s[p[k + 1]] = text[k + 1]
    <3>1. (k + 1) - 1 = k  BY <1>0
    <3> QED BY <2>4, <2>5, <3>1 DEF Holds
  <2>7. IsReference(text, k)
    BY <2>2, <2>3, <2>4, <2>6 DEF IsReference, Symbol
  <2> QED BY <2>7
<1> QED BY <1>0, <1>1, <1>2

(* The symbols of two sequences put together. *)
LEMMA Joined ==
  ASSUME NEW S, NEW a \in Seq(S), NEW b \in Seq(S)
  PROVE  /\ a \o b \in Seq(S) /\ Len(a \o b) = Len(a) + Len(b)
         /\ \A i \in 1 .. Len(a) : (a \o b)[i] = a[i]
         /\ \A i \in 1 .. Len(b) : (a \o b)[Len(a) + i] = b[i]
<1>1. a \o b \in Seq(S) /\ Len(a \o b) = Len(a) + Len(b)
  OBVIOUS
<1>2. \A i \in 1 .. Len(a) : (a \o b)[i] = a[i]
  OBVIOUS
<1>3. \A i \in 1 .. Len(b) : (a \o b)[Len(a) + i] = b[i]
  OBVIOUS
<1> QED BY <1>1, <1>2, <1>3

(* At f, a colon and an identifier give way to one symbol. *)
CutAt(s, f, v) == SubSeq(s, 1, f - 1) \o <<v>> \o <<>> \o SubSeq(s, f + 2, Len(s))

(* What stands before and behind keeps its order. *)
LEMMA Cut ==
  ASSUME NEW s \in Seq(Symbols), NEW f \in 1 .. Len(s), f + 1 \in 1 .. Len(s), NEW v \in Symbols
  PROVE  /\ CutAt(s, f, v) \in Seq(Symbols) /\ Len(CutAt(s, f, v)) = Len(s) - 1
         /\ CutAt(s, f, v)[f] = v
         /\ \A i \in 1 .. Len(s) - 1 :
              (i < f => CutAt(s, f, v)[i] = s[i]) /\ (i > f => CutAt(s, f, v)[i] = s[i + 1])
<1> DEFINE a == SubSeq(s, 1, f - 1)
           b == SubSeq(s, f + 2, Len(s))
           one == <<v>>
           c == a \o one
           t == a \o one \o <<>> \o b
<1>1. /\ a \in Seq(Symbols) /\ Len(a) = f - 1 /\ \A i \in 1 .. f - 1 : a[i] = s[i]
      /\ b \in Seq(Symbols) /\ Len(b) = Len(s) - f - 1
      /\ \A i \in 1 .. Len(s) - f - 1 : b[i] = s[f + 1 + i]
  <2>1. f \in Int /\ Len(s) \in Nat
    OBVIOUS
  <2>2. a \in Seq(Symbols) /\ Len(a) = f - 1 /\ \A i \in 1 .. f - 1 : a[i] = s[i]
    OBVIOUS
  <2>3. b \in Seq(Symbols) /\ Len(b) = Len(s) - f - 1
    OBVIOUS
  <2>4. \A i \in 1 .. Len(s) - f - 1 : b[i] = s[f + 1 + i]
    OBVIOUS
  <2> QED BY <2>2, <2>3, <2>4
<1> HIDE DEF a, b, c, t
<1>2. one \in Seq(Symbols) /\ Len(one) = 1 /\ one[1] = v
  OBVIOUS
<1> HIDE DEF one
<1>3. /\ c \in Seq(Symbols) /\ Len(c) = f /\ c[f] = v
      /\ \A i \in 1 .. f - 1 : c[i] = a[i]
  <2>1. c \in Seq(Symbols) /\ Len(c) = Len(a) + Len(one)
    BY <1>1, <1>2, Joined DEF c
  <2>2. \A i \in 1 .. Len(a) : c[i] = a[i]
    BY <1>1, <1>2, Joined DEF c
  <2>3. \A i \in 1 .. Len(one) : c[Len(a) + i] = one[i]
    BY <1>1, <1>2, Joined DEF c
  <2>4. f \in Int /\ (f - 1) + 1 = f /\ 1 \in 1 .. 1
    OBVIOUS
  <2> QED BY <1>1, <1>2, <2>1, <2>2, <2>3, <2>4
<1>4. t = c \o b
  <2>1. c \o <<>> = c
    BY <1>3
  <2> QED BY <2>1 DEF t, c
<1>5. /\ t \in Seq(Symbols) /\ Len(t) = Len(s) - 1
      /\ \A i \in 1 .. f : t[i] = c[i]
      /\ \A i \in f + 1 .. Len(s) - 1 : t[i] = b[i - f]
  <2>1. t \in Seq(Symbols) /\ Len(t) = Len(c) + Len(b)
    BY <1>1, <1>3, <1>4, Joined
  <2>2. \A i \in 1 .. Len(c) : t[i] = c[i]
    BY <1>1, <1>3, <1>4, Joined
  <2>3. \A i \in 1 .. Len(b) : t[Len(c) + i] = b[i]
    BY <1>1, <1>3, <1>4, Joined
  <2>4. f \in Int /\ Len(s) \in Nat
    OBVIOUS
  <2>5. \A i \in f + 1 .. Len(s) - 1 : i - f \in 1 .. Len(b) /\ f + (i - f) = i
    BY <1>1, <2>4
  <2> QED BY <1>1, <1>3, <2>1, <2>2, <2>3, <2>4, <2>5
<1>6. t[f] = v
  <2>1. f \in 1 .. f
    OBVIOUS
  <2> QED BY <1>3, <1>5, <2>1
<1>7. ASSUME NEW i \in 1 .. Len(t), i < f PROVE t[i] = s[i]
  <2>1. i \in 1 .. f /\ i \in 1 .. f - 1
    BY <1>7
  <2> QED BY <1>1, <1>3, <1>5, <2>1
<1>8. ASSUME NEW i \in 1 .. Len(t), i > f PROVE t[i] = s[i + 1]
  <2>1. i \in f + 1 .. Len(s) - 1 /\ i - f \in 1 .. Len(s) - f - 1 /\ f + 1 + (i - f) = i + 1
    BY <1>5, <1>8
  <2> QED BY <1>1, <1>5, <2>1
<1>9. t = CutAt(s, f, v)
  BY DEF t, a, b, one, CutAt
<1> QED BY <1>5, <1>6, <1>7, <1>8, <1>9

(* The places before and behind a reference r that is not replaced.        *)
LEMMA PlacesAround ==
  ASSUME NEW s \in Seq(Symbols), NEW d, NEW p, Aligned(s, d, p), Distinct(d),
         NEW r \in References(text), r \notin d
  PROVE  /\ p[r] \in 1 .. Len(s) - 1 /\ p[r + 1] = p[r] + 1
         /\ \A k \in 1 .. Len(text) + 1 : /\ k < r => p[k] < p[r]
                                          /\ k > r + 1 => p[k] > p[r] + 1
<1> USE DEF Distinct
<1>1. r \in 1 .. Len(text) /\ r + 1 \in 1 .. Len(text) /\ r + 1 \notin d /\ r - 1 \notin d
  BY ReferenceFacts
<1>2. p \in [1 .. Len(text) + 1 -> 1 .. Len(s) + 1] /\ p[Len(text) + 1] = Len(s) + 1
  BY DEF Aligned
<1>3. \A j, k \in 1 .. Len(text) + 1 : j < k => p[j] < p[k] \/ (k = j + 1 /\ j \in d)
  BY DEF Aligned
<1>4. p[r + 1] = p[r] + 1
  BY <1>1 DEF Aligned
<1>5. /\ r \in 1 .. Len(text) + 1 /\ r + 1 \in 1 .. Len(text) + 1 /\ Len(text) + 1 \in 1 .. Len(text) + 1
      /\ r + 1 < Len(text) + 1 /\ Len(s) \in Nat /\ r < r + 1
  BY <1>1
<1>6. p[r + 1] < Len(s) + 1
  BY <1>1, <1>2, <1>3, <1>5
<1>7. p[r] \in 1 .. Len(s) - 1
  BY <1>2, <1>4, <1>5, <1>6
<1>8. ASSUME NEW k \in 1 .. Len(text) + 1, k < r PROVE p[k] < p[r]
  <2>1. p[k] < p[r] \/ (r = k + 1 /\ k \in d)
    BY <1>3, <1>5, <1>8
  <2>2. r = k + 1 => k = r - 1
    BY <1>5
  <2> QED BY <1>1, <2>1, <2>2
<1>9. ASSUME NEW k \in 1 .. Len(text) + 1, k > r + 1 PROVE p[k] > p[r] + 1
  <2>1. p[r + 1] < p[k]
    <3>1. r + 1 < k /\ r + 1 \in 1 .. Len(text) + 1
      BY <1>5, <1>9
    <3> QED BY <1>1, <1>3, <3>1
  <2>2. p[k] \in Int /\ p[r + 1] \in Int
    <3>1. p[k] \in 1 .. Len(s) + 1 /\ p[r + 1] \in 1 .. Len(s) + 1
      BY <1>2, <1>5
    <3> QED BY <1>5, <3>1
  <2> QED BY <1>4, <2>1, <2>2
<1> QED BY <1>4, <1>7, <1>8, <1>9

(* With a value in its place the text shows one reference less.            *)
LEMMA OneReplaced ==
  ASSUME NEW s \in Seq(Symbols), NEW d, NEW p, Aligned(s, d, p), Holds(s, d, p), Distinct(d),
         NEW r \in References(text), r \notin d, NEW t \in Seq(Symbols), Len(t) = Len(s) - 1,
         t[p[r]] = LastValue(text[r + 1]),
         \A i \in 1 .. Len(s) - 1 : (i < p[r] => t[i] = s[i]) /\ (i > p[r] => t[i] = s[i + 1])
  PROVE  Shows(t, d \cup {r})
<1> DEFINE f == p[r]
           N == Len(text)
           L == Len(s)
           e == d \cup {r}
           q == [k \in 1 .. N + 1 |-> IF k <= r THEN p[k] ELSE p[k] - 1]
<1>1. /\ f \in 1 .. L - 1 /\ p[r + 1] = f + 1
      /\ \A k \in 1 .. N + 1 : (k < r => p[k] < f) /\ (k > r + 1 => p[k] > f + 1)
  BY PlacesAround
<1>2. r \in 1 .. N /\ r + 1 \in 1 .. N /\ r + 1 \notin d /\ r - 1 \notin d
  BY ReferenceFacts DEF Distinct
<1>3. N \in Nat /\ L \in Nat
  BY DEF Distinct
<1>4. /\ Len(t) = L - 1 /\ t[f] = LastValue(text[r + 1])
      /\ \A i \in 1 .. L - 1 : (i < f => t[i] = s[i]) /\ (i > f => t[i] = s[i + 1])
  OBVIOUS
<1>5. /\ p \in [1 .. N + 1 -> 1 .. L + 1] /\ p[1] = 1 /\ p[N + 1] = L + 1
  BY DEF Aligned
<1>6. \A k \in 1 .. N : p[k + 1] = IF k \in d THEN p[k] ELSE p[k] + 1
  BY DEF Aligned
<1>7. \A j, k \in 1 .. N + 1 : j < k => p[j] < p[k] \/ (k = j + 1 /\ j \in d)
  BY DEF Aligned
<1>8. \A i \in 1 .. L : \E k \in 1 .. N : k \notin d /\ p[k] = i
  BY DEF Aligned
<1>9. \A k \in 1 .. N : k \notin d => s[p[k]] = IF k - 1 \in d THEN LastValue(text[k]) ELSE text[k]
  BY DEF Holds
<1> HIDE DEF f, N, L
<1>10. \A k \in 1 .. N + 1 : q[k] = IF k <= r THEN p[k] ELSE p[k] - 1
  OBVIOUS
<1>11. \A k \in 1 .. N + 1 : /\ k < r => q[k] = p[k] /\ q[k] \in 1 .. f - 1
                             /\ k = r => q[k] = f
                             /\ k = r + 1 => q[k] = f
                             /\ k > r + 1 => q[k] = p[k] - 1 /\ q[k] \in f + 1 .. L
  <2> HIDE DEF q
  <2> TAKE k \in 1 .. N + 1
  <2>1. p[k] \in 1 .. L + 1 /\ f \in Int
    BY <1>1, <1>5
  <2>2. CASE k < r
    BY <1>1, <1>2, <1>10, <2>1, <2>2
  <2>3. CASE k = r
    BY <1>1, <1>2, <1>10, <2>1, <2>3 DEF f
  <2>4. CASE k = r + 1
    BY <1>1, <1>2, <1>10, <2>1, <2>4
  <2>5. CASE k > r + 1
    <3>1. p[k] > f + 1 /\ ~(k <= r) /\ k # r /\ k # r + 1 /\ ~(k < r)
      BY <1>1, <1>2, <2>5
    <3>2. q[k] = p[k] - 1
      BY <1>10, <3>1
    <3>3. q[k] \in f + 1 .. L
      BY <1>3, <2>1, <3>1, <3>2
    <3> QED BY <3>1, <3>2, <3>3
  <2> QED BY <1>2, <2>2, <2>3, <2>4, <2>5
<1>12. q \in [1 .. N + 1 -> 1 .. L]
  <2>1. ASSUME NEW k \in 1 .. N + 1 PROVE q[k] \in 1 .. L
    <3> HIDE DEF q
    <3>1. f \in 1 .. L - 1 /\ r \in 1 .. N
      BY <1>1, <1>2
    <3>2. q[k] \in 1 .. f - 1 \/ q[k] = f \/ q[k] \in f + 1 .. L
      BY <1>11, <3>1
    <3> QED BY <1>3, <3>1, <3>2
  <2> QED BY <2>1
<1> HIDE DEF q
<1>13. q[1] = 1 /\ q[N + 1] = L
  BY <1>1, <1>2, <1>3, <1>5, <1>10
<1>14. \A k \in 1 .. N : q[k + 1] = IF k \in e THEN q[k] ELSE q[k] + 1
  <2> TAKE k \in 1 .. N
  <2>1. k \in 1 .. N + 1 /\ k + 1 \in 1 .. N + 1 /\ p[k] \in Int /\ p[k + 1] \in Int
    BY <1>3, <1>5
  <2>2. CASE k = r
    BY <1>11, <2>1, <2>2
  <2>3. CASE k < r
    <3>1. q[k] = p[k] /\ q[k + 1] = p[k + 1] /\ (k \in e <=> k \in d)
      BY <1>2, <1>10, <2>1, <2>3
    <3> QED BY <1>6, <3>1
  <2>4. CASE k > r
    <3>1. q[k] = p[k] - 1 /\ q[k + 1] = p[k + 1] - 1 /\ (k \in e <=> k \in d)
      BY <1>2, <1>10, <2>1, <2>4
    <3>2. p[k + 1] = IF k \in d THEN p[k] ELSE p[k] + 1
      BY <1>6
    <3> QED BY <2>1, <3>1, <3>2
  <2> QED BY <1>2, <2>2, <2>3, <2>4
<1>15. \A j, k \in 1 .. N + 1 : j < k => q[j] < q[k] \/ (k = j + 1 /\ j \in e)
  <2> TAKE j, k \in 1 .. N + 1
  <2> SUFFICES ASSUME j < k PROVE q[j] < q[k] \/ (k = j + 1 /\ j \in e)
    OBVIOUS
  <2>1. p[j] \in Int /\ p[k] \in Int /\ f \in Int
    BY <1>1, <1>5
  <2>0. r \in Int /\ (p[j] < p[k] \/ (k = j + 1 /\ j \in d))
    BY <1>2, <1>7
  <2>2. CASE k <= r \/ j > r
    <3>1. (q[j] = p[j] /\ q[k] = p[k]) \/ (q[j] = p[j] - 1 /\ q[k] = p[k] - 1)
      BY <1>10, <2>0, <2>2
    <3>2. p[j] < p[k] => q[j] < q[k]
      BY <2>1, <3>1
    <3> QED BY <2>0, <3>2
  <2>3. CASE j <= r /\ k > r + 1
    BY <1>2, <1>11, <2>1, <2>3
  <2>4. CASE j < r /\ k = r + 1
    BY <1>2, <1>11, <2>1, <2>4
  <2>5. CASE j = r /\ k = r + 1
    BY <2>5
  <2> QED BY <1>2, <2>2, <2>3, <2>4, <2>5
<1>16. \A i \in 1 .. L - 1 : \E k \in 1 .. N : k \notin e /\ q[k] = i
  <2> TAKE i \in 1 .. L - 1
  <2>1. CASE i < f
    <3>1. PICK k \in 1 .. N : k \notin d /\ p[k] = i
      BY <1>3, <1>8
    <3>2. k < r
      <4>1. k \in 1 .. N + 1  BY <1>3
      <4>2. k = r => p[k] = f  BY DEF f
      <4> QED BY <1>1, <1>2, <2>1, <3>1, <4>1, <4>2
    <3> QED BY <1>3, <1>11, <3>1, <3>2
  <2>2. CASE i = f
    <3>1. r + 1 \notin e /\ q[r + 1] = f
      BY <1>2, <1>3, <1>11
    <3> QED BY <1>2, <2>2, <3>1
  <2>3. CASE i > f
    <3>1. i + 1 \in 1 .. L  BY <1>3
    <3>2. PICK k \in 1 .. N : k \notin d /\ p[k] = i + 1
      BY <1>8, <3>1
    <3>3. k > r + 1
      <4>1. k \in 1 .. N + 1  BY <1>3
      <4>2. k = r => p[k] = f  BY DEF f
      <4> QED BY <1>1, <1>2, <2>3, <3>2, <4>1, <4>2
    <3>4. k \in 1 .. N + 1 /\ k \notin e /\ (i + 1) - 1 = i
      BY <1>2, <1>3, <3>2, <3>3
    <3> QED BY <1>11, <3>2, <3>3, <3>4
  <2> QED BY <1>1, <2>1, <2>2, <2>3
<1>17. \A k \in 1 .. N : k \notin e => t[q[k]] = IF k - 1 \in e THEN LastValue(text[k]) ELSE text[k]
  <2> TAKE k \in 1 .. N
  <2> SUFFICES ASSUME k \notin e
               PROVE  t[q[k]] = IF k - 1 \in e THEN LastValue(text[k]) ELSE text[k]
    OBVIOUS
  <2>0. k \in 1 .. N + 1 /\ k # r /\ k \notin d
    BY <1>3
  <2>1. CASE k < r
    <3>1. q[k] = p[k] /\ q[k] \in 1 .. L - 1 /\ q[k] < f /\ (k - 1 \in e <=> k - 1 \in d)
      BY <1>1, <1>2, <1>3, <1>11, <2>0, <2>1
    <3> QED BY <1>4, <1>9, <2>0, <3>1
  <2>2. CASE k = r + 1
    <3>1. q[k] = f /\ k - 1 = r
      BY <1>2, <1>11, <2>0, <2>2
    <3> QED BY <1>4, <2>2, <3>1
  <2>3. CASE k > r + 1
    <3>1. k < N + 1 /\ N + 1 \in 1 .. N + 1 /\ (N + 1 = k + 1 => k \notin e)
      BY <1>3
    <3>2. q[k] < L
      BY <1>13, <1>15, <2>0, <3>1
    <3>3. p[k] \in Int /\ q[k] = p[k] - 1 /\ q[k] \in f + 1 .. L
      BY <1>5, <1>11, <2>0, <2>3
    <3>4. q[k] \in 1 .. L - 1 /\ q[k] > f /\ q[k] + 1 = p[k] /\ k - 1 # r
      <4>1. f \in Int /\ f >= 1 /\ r \in Int /\ k \in Int
        BY <1>1, <1>2
      <4>2. q[k] >= f + 1 /\ q[k] \in Int
        BY <3>3, <4>1
      <4>3. q[k] <= L - 1 /\ q[k] >= 1
        BY <1>3, <3>2, <4>1, <4>2
      <4>4. q[k] \in 1 .. L - 1 /\ q[k] > f
        BY <1>3, <4>1, <4>2, <4>3
      <4>5. k - 1 # r
        BY <2>3, <4>1
      <4> QED BY <3>3, <4>4, <4>5
    <3> QED BY <1>4, <1>9, <2>0, <3>4
  <2> QED BY <1>2, <2>0, <2>1, <2>2, <2>3
<1>18. Aligned(t, e, q)
  <2>1. Len(t) + 1 = L
    BY <1>3, <1>4
  <2> HIDE DEF e
  <2> QED BY <1>4, <1>12, <1>13, <1>14, <1>15, <1>16, <2>1 DEF Aligned, N
<1>19. Holds(t, e, q)
  BY <1>17 DEF Holds, N
<1>20. Shows(t, e)
  <2> HIDE DEF e
  <2> QED BY <1>4, <1>18, <1>19 DEF Shows
<1> QED BY <1>20

(* What the first match of a name is, if there is one: a reference by that *)
(* name that has not been replaced.                                        *)
LEMMA ReplaceStep ==
  ASSUME NEW s \in Seq(Symbols), NEW d, Shows(s, d), Distinct(d), NEW w, NEW v \in Symbols,
         \A r \in References(text) : <<Fold[text[r + 1]], Fold[w]>> \notin Prefixed,
         \A r \in Named(w) : LastValue(text[r + 1]) = v
  PROVE  \/ Named(w) \subseteq d /\ ReplaceFirst(s, w, v) = s
         \/ \E r \in Named(w) \ d : Shows(ReplaceFirst(s, w, v), d \cup {r})
<1>1. PICK p : Aligned(s, d, p) /\ Holds(s, d, p)
  BY DEF Shows
<1> DEFINE M == {k \in DOMAIN s : IsReference(s, k) /\ (Same(s[k + 1], w) \/ <<Fold[s[k + 1]], Fold[w]>> \in Prefixed)}
           m == CHOOSE k \in M : \A j \in M : k <= j
           left == IF Same(s[m + 1], w) THEN <<>> ELSE <<Rest>>
<1>2. ReplaceFirst(s, w, v) = IF M = {} THEN s
                              ELSE SubSeq(s, 1, m - 1) \o <<v>> \o left \o SubSeq(s, m + 2, Len(s))
  BY DEF ReplaceFirst
<1>3. \A k \in 1 .. Len(text) : k \notin d =>
        /\ IsReference(s, p[k]) <=> k \in References(text)
        /\ k \in References(text) => p[k] + 1 \in 1 .. Len(s) /\ s[p[k] + 1] = text[k + 1]
                                     /\ p[k + 1] = p[k] + 1
  BY <1>1, ShownReference
<1>4. \A i \in M : i \in 1 .. Len(s) /\ \E r \in Named(w) \ d : p[r] = i /\ Same(s[i + 1], w)
  <2> TAKE i \in M
  <2>1. i \in 1 .. Len(s)
    OBVIOUS
  <2>2. PICK k \in 1 .. Len(text) : k \notin d /\ p[k] = i
    BY <1>1, <2>1 DEF Aligned
  <2>3. k \in References(text) /\ s[i + 1] = text[k + 1]
    BY <1>3, <2>2
  <2>4. Same(s[i + 1], w)
    BY <2>3
  <2> QED BY <2>1, <2>2, <2>3, <2>4 DEF Named
<1>5. \A r \in Named(w) \ d : p[r] \in M
  <2> TAKE r \in Named(w) \ d
  <2>1. r \in References(text) /\ r \in 1 .. Len(text)
    BY ReferenceFacts DEF Named, Distinct
  <2>2. IsReference(s, p[r]) /\ p[r] + 1 \in 1 .. Len(s) /\ s[p[r] + 1] = text[r + 1]
    BY <1>3, <2>1
  <2>3. p[r] \in 1 .. Len(s)
    <3>1. p \in [1 .. Len(text) + 1 -> 1 .. Len(s) + 1]
      BY <1>1 DEF Aligned
    <3>2. Len(text) \in Nat /\ Len(s) \in Nat
      BY DEF Distinct
    <3>3. r \in 1 .. Len(text) + 1
      BY <2>1, <3>2
    <3>4. p[r] \in 1 .. Len(s) + 1
      BY <3>1, <3>3
    <3> QED BY <2>2, <3>2, <3>4
  <2>4. Same(s[p[r] + 1], w)
    BY <2>2 DEF Named
  <2>5. p[r] \in DOMAIN s
    BY <2>3
  <2> QED BY <2>2, <2>4, <2>5
<1> HIDE DEF M
<1>6. CASE M = {}
  BY <1>2, <1>5, <1>6
<1>7. CASE M # {}
  <2>1. m \in M
    <3>1. M \in SUBSET Nat
      BY <1>4
    <3>2. \E k \in M : \A j \in M : k <= j
      BY <1>7, <3>1, Least
    <3> QED BY <3>2
  <2>2. PICK r \in Named(w) \ d : p[r] = m /\ Same(s[m + 1], w)
    BY <1>4, <2>1
  <2> HIDE DEF m
  <2>3. r \in References(text) /\ r \in 1 .. Len(text) /\ r \notin d
    BY ReferenceFacts DEF Named, Distinct
  <2>4. m \in 1 .. Len(s) /\ m + 1 \in 1 .. Len(s)
    BY <1>3, <1>4, <2>1, <2>2, <2>3
  <2> DEFINE t == CutAt(s, m, v)
  <2>5. ReplaceFirst(s, w, v) = t
    BY <1>2, <1>7, <2>2 DEF CutAt
  <2>6. t \in Seq(Symbols)
    BY <2>4, Cut
  <2>7. Len(t) = Len(s) - 1
    BY <2>4, Cut
  <2>8. t[m] = v
    BY <2>4, Cut
  <2>9. \A i \in 1 .. Len(s) - 1 : (i < m => t[i] = s[i]) /\ (i > m => t[i] = s[i + 1])
    <3>1. s \in Seq(Symbols) /\ v \in Symbols
      OBVIOUS
    <3> HIDE DEF t
    <3>2. \A i \in 1 .. Len(s) - 1 :
            (i < m => CutAt(s, m, v)[i] = s[i]) /\ (i > m => CutAt(s, m, v)[i] = s[i + 1])
      BY ONLY <2>4, <3>1, Cut
    <3> QED BY <3>2 DEF t
  <2> HIDE DEF t
  <2>10. Shows(t, d \cup {r})
    BY <1>1, <2>2, <2>3, <2>6, <2>7, <2>8, <2>9, OneReplaced
  <2> QED BY <2>5, <2>10
<1> QED BY <1>6, <1>7

-----------------------------------------------------------------------------
(* What holds of the text holds for any of its references.                 *)
LEMMA DistinctPart ==
  ASSUME NEW d, Distinct(d), NEW e, e \subseteq d
  PROVE  Distinct(e)
BY DEF Distinct

(* The references by a name are finitely many. *)
LEMMA NamedFinite ==
  ASSUME text \in Seq(Symbols), NEW w
  PROVE  IsFiniteSet(Named(w))
<1>1. References(text) \subseteq 1 .. Len(text) /\ Len(text) \in Nat
  BY IsReferred DEF Symbols
<1>2. Named(w) \subseteq 1 .. Len(text)
  BY <1>1 DEF Named
<1>3. IsFiniteSet(1 .. Len(text))
  BY <1>1, FS_Interval
<1> QED BY <1>2, <1>3, FS_Subset

(* The texts that show some references replaced. *)
PartlyReplaced == {x \in Seq(Symbols) : \E e \in SUBSET References(text) : Shows(x, e)}

(* v is the value of each reference by name w, with which no other begins. *)
Fills(w, v) ==
  /\ v \in Symbols
  /\ \A r \in References(text) : <<Fold[text[r + 1]], Fold[w]>> \notin Prefixed
  /\ \A r \in Named(w) : LastValue(text[r + 1]) = v

(* One replacement more. *)
LEMMA ReplaceAgain ==
  ASSUME Distinct(References(text)), NEW w, NEW v, Fills(w, v),
         NEW s \in Seq(Symbols), NEW e \in SUBSET References(text), Shows(s, e)
  PROVE  \/ Named(w) \subseteq e /\ ReplaceFirst(s, w, v) = s
         \/ \E r \in Named(w) \ e : Shows(ReplaceFirst(s, w, v), e \cup {r})
<1>1. Distinct(e)
  BY DistinctPart
<1>2. v \in Symbols
  BY DEF Fills
<1>3. \A r \in References(text) : <<Fold[text[r + 1]], Fold[w]>> \notin Prefixed
  BY DEF Fills
<1>4. \A r \in Named(w) : LastValue(text[r + 1]) = v
  BY DEF Fills
<1> QED BY ONLY <1>1, <1>2, <1>3, <1>4, s \in Seq(Symbols), Shows(s, e), ReplaceStep

(* What Replaced returns is the last of a run of replacements. *)
LEMMA ReplacedIs ==
  ASSUME Distinct(References(text)), NEW w, NEW v, Fills(w, v), NEW s \in PartlyReplaced
  PROVE  \E f \in [Nat -> PartlyReplaced] :
           /\ f[0] = s /\ \A n \in Nat : f[n + 1] = ReplaceFirst(f[n], w, v)
           /\ Cardinality(Indexes(w)) \in Nat => Replaced(s, w, v) = f[Cardinality(Indexes(w))]
<1> DEFINE step == [p \in Nat \X PartlyReplaced |-> ReplaceFirst(p[2], w, v)]
           Eq(g) == g = [n \in Nat |-> IF n = 0 THEN s ELSE ReplaceFirst(g[n - 1], w, v)]
<1>1. \A x \in PartlyReplaced : ReplaceFirst(x, w, v) \in PartlyReplaced
  <2> TAKE x \in PartlyReplaced
  <2>1. PICK e \in SUBSET References(text) : x \in Seq(Symbols) /\ Shows(x, e)
    BY DEF PartlyReplaced
  <2>2. CASE ReplaceFirst(x, w, v) = x
    BY <2>2
  <2>3. CASE \E r \in Named(w) \ e : Shows(ReplaceFirst(x, w, v), e \cup {r})
    <3>1. PICK r \in Named(w) \ e : Shows(ReplaceFirst(x, w, v), e \cup {r})
      BY <2>3
    <3>2. e \cup {r} \in SUBSET References(text)
      BY DEF Named
    <3> QED BY <3>1, <3>2 DEF PartlyReplaced, Shows
  <2> QED BY <2>1, <2>2, <2>3, ReplaceAgain
<1>2. step \in [Nat \X PartlyReplaced -> PartlyReplaced]
  BY <1>1
<1>3. PICK f \in [Nat -> PartlyReplaced] : Iterates(f, s, step)
  <2> HIDE DEF step
  <2> QED BY <1>2, Recursion
<1>4. \A n \in Nat : f[n + 1] = ReplaceFirst(f[n], w, v)
  BY <1>3 DEF Iterates
<1>5. Eq(f)
  <2>1. ASSUME NEW n \in Nat PROVE f[n] = IF n = 0 THEN s ELSE ReplaceFirst(f[n - 1], w, v)
    <3>1. CASE n # 0
      <4>1. n - 1 \in Nat /\ (n - 1) + 1 = n  BY <3>1
      <4> QED BY <3>1, <4>1, <1>4
    <3> QED BY <3>1, <1>3 DEF Iterates
  <2> QED BY <2>1, <1>3
<1> DEFINE e == CHOOSE g : Eq(g)
<1>6. Eq(e)
  BY <1>5
<1>7. Replaced(s, w, v) = e[Cardinality(Indexes(w))]
  BY DEF Replaced
<1> HIDE DEF e
<1>8. \A n \in Nat : e[n] = f[n]
  <2> DEFINE S == {n \in Nat : e[n] = f[n]}
  <2>0. f[0] = s
    BY <1>3 DEF Iterates
  <2>1. 0 \in S
    BY <1>6, <2>0
  <2>2. ASSUME NEW n \in S PROVE n + 1 \in S
    <3>1. n + 1 \in Nat /\ n + 1 # 0 /\ (n + 1) - 1 = n /\ e[n] = f[n]
      OBVIOUS
    <3>2. e[n + 1] = ReplaceFirst(e[n], w, v)
      BY <1>6, <3>1
    <3> QED BY <1>4, <3>1, <3>2
  <2>3. S = Nat
    <3>1. S \in SUBSET Nat  OBVIOUS
    <3> HIDE DEF S
    <3> QED BY <3>1, <2>1, <2>2, Induct
  <2> QED BY <2>3
<1>9. f[0] = s
  BY <1>3 DEF Iterates
<1> QED BY <1>4, <1>7, <1>8, <1>9

(* As often as there are references by a name, or more often: every one is *)
(* replaced.                                                               *)
LEMMA AllReplaced ==
  ASSUME Distinct(References(text)), NEW w, NEW v, Fills(w, v),
         NEW s \in Seq(Symbols), NEW d \in SUBSET References(text), Shows(s, d),
         Cardinality(Indexes(w)) \in Nat, Cardinality(Named(w)) <= Cardinality(Indexes(w))
  PROVE  Shows(Replaced(s, w, v), d \cup Named(w))
<1> DEFINE N == Named(w)
           Part(x, n) == \E e \in SUBSET References(text) :
                           /\ Shows(x, e) /\ d \subseteq e /\ e \subseteq d \cup N
                           /\ N \subseteq e \/ Cardinality(e \cap N) >= n
<1>1. s \in PartlyReplaced /\ Distinct(References(text)) /\ Fills(w, v)
  BY DEF PartlyReplaced
<1>2. PICK f \in [Nat -> PartlyReplaced] :
        /\ f[0] = s /\ \A n \in Nat : f[n + 1] = ReplaceFirst(f[n], w, v)
        /\ Cardinality(Indexes(w)) \in Nat => Replaced(s, w, v) = f[Cardinality(Indexes(w))]
  BY ONLY <1>1, ReplacedIs
<1>3. IsFiniteSet(N) /\ N \subseteq References(text)
  BY NamedFinite DEF Distinct, Named
<1> HIDE DEF N
<1>4. \A e : IsFiniteSet(e \cap N) /\ Cardinality(e \cap N) \in Nat
  <2> TAKE e
  <2>1. e \cap N \subseteq N
    OBVIOUS
  <2>2. IsFiniteSet(e \cap N)
    BY <1>3, <2>1, FS_Subset
  <2> QED BY <2>2, FS_CardinalityType
<1>5. \A n \in Nat : Part(f[n], n)
  <2> DEFINE S == {n \in Nat : Part(f[n], n)}
  <2>1. 0 \in S
    <3>1. Cardinality(d \cap N) >= 0
      <4>1. Cardinality(d \cap N) \in Nat
        BY <1>4
      <4> QED BY <4>1
    <3>2. Part(s, 0)
      BY <3>1
    <3> HIDE DEF Part
    <3> QED BY <1>2, <3>2
  <2>2. ASSUME NEW n \in S PROVE n + 1 \in S
    <3>1. PICK e \in SUBSET References(text) :
            /\ Shows(f[n], e) /\ d \subseteq e /\ e \subseteq d \cup N
            /\ N \subseteq e \/ Cardinality(e \cap N) >= n
      OBVIOUS
    <3>2. n \in Nat /\ f[n] \in Seq(Symbols) /\ f[n + 1] = ReplaceFirst(f[n], w, v)
      BY <1>2, <3>1 DEF Shows
    <3>3. \/ N \subseteq e /\ f[n + 1] = f[n]
          \/ \E r \in N \ e : Shows(f[n + 1], e \cup {r})
      <4> DEFINE x == f[n]
      <4>1. x \in Seq(Symbols) /\ Shows(x, e)
        BY <3>1, <3>2
      <4> HIDE DEF x
      <4>2. \/ N \subseteq e /\ ReplaceFirst(x, w, v) = x
            \/ \E r \in N \ e : Shows(ReplaceFirst(x, w, v), e \cup {r})
        BY <3>1, <4>1, ReplaceAgain DEF N
      <4> QED BY <3>2, <4>2 DEF x
    <3>4. CASE N \subseteq e /\ f[n + 1] = f[n]
      BY <3>1, <3>2, <3>4
    <3>5. CASE \E r \in N \ e : Shows(f[n + 1], e \cup {r})
      <4>1. PICK r \in N \ e : Shows(f[n + 1], e \cup {r})
        BY <3>5
      <4>2. e \cup {r} \in SUBSET References(text) /\ d \subseteq e \cup {r} /\ e \cup {r} \subseteq d \cup N
        BY <1>3, <3>1
      <4>3. (e \cup {r}) \cap N = (e \cap N) \cup {r} /\ r \notin e \cap N
        OBVIOUS
      <4>4. Cardinality((e \cup {r}) \cap N) = Cardinality(e \cap N) + 1
        BY <1>4, <4>3, FS_AddElement
      <4>5. Cardinality((e \cup {r}) \cap N) >= n + 1
        <5>1. Cardinality(e \cap N) \in Nat
          BY <1>4
        <5>2. Cardinality(e \cap N) >= n
          BY <3>1, <4>1
        <5> QED BY <3>2, <4>4, <5>1, <5>2
      <4>6. Part(f[n + 1], n + 1)
        BY <4>1, <4>2, <4>5
      <4> HIDE DEF Part
      <4> QED BY <3>2, <4>6
    <3> QED BY <3>3, <3>4, <3>5
  <2>3. S = Nat
    <3> HIDE DEF S
    <3>1. S \in SUBSET Nat  BY DEF S
    <3> QED BY <3>1, <2>1, <2>2, Induct
  <2> QED BY <2>3
<1> DEFINE K == Cardinality(Indexes(w))
<1>6. PICK e \in SUBSET References(text) :
        /\ Shows(Replaced(s, w, v), e) /\ d \subseteq e /\ e \subseteq d \cup N
        /\ N \subseteq e \/ Cardinality(e \cap N) >= K
  <2>1. K \in Nat
    OBVIOUS
  <2>2. Part(f[K], K)
    <3> HIDE DEF K, Part
    <3> QED BY <1>5, <2>1
  <2> QED BY <1>2, <2>2
<1>7. N \subseteq e
  <2>1. Cardinality(N) \in Nat /\ Cardinality(N) <= K /\ K \in Nat
    BY <1>3, FS_CardinalityType DEF N
  <2>2. e \cap N \in SUBSET N
    OBVIOUS
  <2>3. Cardinality(e \cap N) <= Cardinality(N) /\ (Cardinality(N) = Cardinality(e \cap N) => N = e \cap N)
    BY <1>3, <2>2, FS_Subset
  <2>4. Cardinality(e \cap N) \in Nat
    BY <1>4
  <2> HIDE DEF K
  <2>5. Cardinality(e \cap N) >= K => N = e \cap N
    BY <2>1, <2>3, <2>4
  <2> QED BY <1>6, <2>5
<1>8. e = d \cup N
  BY <1>6, <1>7
<1> QED BY <1>6, <1>8 DEF N

-----------------------------------------------------------------------------
(* When the text is scanned, its references are numbered in order by the   *)
(* names in lstParameters.                                                 *)
LEMMA NamesScanned ==
  ASSUME ParamTypeOK, ScanOK, Plain(text), stage \notin {"scan", "failed"}
  PROVE  LET refs == References(text)
             N == Len(lstParameters)
         IN /\ N \in Nat /\ N = Cardinality(refs) /\ IsFiniteSet(refs)
            /\ \A r \in refs : UpTo(refs, r) \in 1 .. N /\ lstParameters[UpTo(refs, r)] = text[r + 1]
            /\ \A r, q \in refs : UpTo(refs, r) = UpTo(refs, q) => r = q
<1> DEFINE refs == References(text)
           N == Len(lstParameters)
<1>1. ScanNames /\ pos > Len(text) /\ text \in Seq(STRING) /\ pos \in Nat /\ N \in Nat
  BY DEF ScanOK, ParamTypeOK
<1>2. refs \subseteq 1 .. Len(text) /\ Len(text) \in Nat
  BY <1>1, IsReferred
<1>3. Passed(pos) = refs
  <2>1. \A r \in refs : r < pos
    BY <1>1, <1>2
  <2> HIDE DEF refs
  <2> QED BY <2>1, IsPassed DEF refs
<1>4. N = Cardinality(refs) /\ \A r \in refs : lstParameters[UpTo(refs, r)] = text[r + 1]
  BY <1>1, <1>3 DEF ScanNames, Count
<1>5. \A r \in refs : /\ r \in Nat /\ r + 1 \in Nat /\ r + 1 <= pos /\ Count(r) \in Nat
                      /\ UpTo(refs, r) = Count(r) + 1 /\ Count(r + 1) = Count(r) + 1
  <2> TAKE r \in refs
  <2>1. r \in Nat /\ r + 1 \in Nat /\ r + 1 <= pos
    BY <1>1, <1>2
  <2>2. UpTo(refs, r) = Count(r + 1) /\ Count(r + 1) = Count(r) + 1 /\ Count(r) \in Nat
    BY <1>1, <2>1, UpToIs, PassOne
  <2> QED BY <2>1, <2>2
<1>6. \A r \in refs : UpTo(refs, r) \in 1 .. N
  <2> TAKE r \in refs
  <2>1. Count(r + 1) <= Count(pos) /\ Count(pos) = N
    BY <1>1, <1>5, PassMore DEF ScanNames
  <2> QED BY <1>1, <1>5, <2>1
<1>7. \A r, q \in refs : r < q => UpTo(refs, r) < UpTo(refs, q)
  <2> TAKE r, q \in refs
  <2> SUFFICES ASSUME r < q PROVE UpTo(refs, r) < UpTo(refs, q)
    OBVIOUS
  <2>1. r + 1 <= q
    BY <1>5
  <2>2. Count(r + 1) <= Count(q)
    BY <1>1, <1>5, <2>1, PassMore
  <2> QED BY <1>5, <2>2
<1>8. \A r, q \in refs : UpTo(refs, r) = UpTo(refs, q) => r = q
  <2> TAKE r, q \in refs
  <2>1. r \in Nat /\ q \in Nat /\ UpTo(refs, r) \in Nat /\ UpTo(refs, q) \in Nat
    BY <1>5
  <2> QED BY <1>7, <2>1
<1>9. IsFiniteSet(refs)
  <2>1. IsFiniteSet(1 .. Len(text))
    BY <1>2, FS_Interval
  <2> QED BY <1>2, <2>1, FS_Subset
<1> HIDE DEF refs, N
<1> QED BY <1>1, <1>4, <1>6, <1>8, <1>9 DEF refs, N

(* Every name in lstParameters is that of a reference. *)
LEMMA NameOfReference ==
  ASSUME ParamTypeOK, ScanOK, Plain(text), stage \notin {"scan", "failed"},
         NEW k \in DOMAIN lstParameters
  PROVE  \E r \in References(text) : lstParameters[k] = text[r + 1]
<1> DEFINE refs == References(text)
           N == Len(lstParameters)
           f == [r \in refs |-> UpTo(refs, r)]
<1>1. /\ N \in Nat /\ N = Cardinality(refs) /\ IsFiniteSet(refs)
      /\ \A r \in refs : UpTo(refs, r) \in 1 .. N /\ lstParameters[UpTo(refs, r)] = text[r + 1]
      /\ \A r, q \in refs : UpTo(refs, r) = UpTo(refs, q) => r = q
  BY NamesScanned
<1>2. k \in 1 .. N
  BY DEF ParamTypeOK
<1> HIDE DEF refs, N
<1>3. f \in Injection(refs, 1 .. N)
  BY <1>1 DEF Injection, IsInjective
<1>4. IsFiniteSet(1 .. N) /\ Cardinality(1 .. N) = N
  BY <1>1, FS_Interval
<1> HIDE DEF f
<1>5. f \in Surjection(refs, 1 .. N)
  BY <1>1, <1>3, <1>4, FS_Injection
<1>6. PICK r \in refs : f[r] = k
  BY <1>2, <1>5 DEF Surjection
<1> QED BY <1>1, <1>6 DEF f, refs

(* A name has an index for each of its references. *)
LEMMA EachHasIndex ==
  ASSUME ParamTypeOK, ScanOK, Plain(text), stage \notin {"scan", "failed"}, NEW w
  PROVE  /\ Cardinality(Indexes(w)) \in Nat
         /\ Cardinality(Named(w)) <= Cardinality(Indexes(w))
<1> DEFINE refs == References(text)
           N == Len(lstParameters)
           f == [r \in Named(w) |-> UpTo(refs, r)]
<1>1. /\ N \in Nat
      /\ \A r \in refs : UpTo(refs, r) \in 1 .. N /\ lstParameters[UpTo(refs, r)] = text[r + 1]
      /\ \A r, q \in refs : UpTo(refs, r) = UpTo(refs, q) => r = q
  BY NamesScanned
<1>2. DOMAIN lstParameters = 1 .. N
  BY DEF ParamTypeOK
<1>3. Named(w) \subseteq refs /\ \A r \in Named(w) : Same(text[r + 1], w)
  BY DEF Named
<1> HIDE DEF refs, N
<1>4. IsFiniteSet(Indexes(w))
  <2>1. IsFiniteSet(1 .. N)
    BY <1>1, FS_Interval
  <2>2. Indexes(w) \subseteq 1 .. N
    BY <1>2 DEF Indexes
  <2> QED BY <2>1, <2>2, FS_Subset
<1>5. \A r \in Named(w) : UpTo(refs, r) \in Indexes(w)
  BY <1>1, <1>2, <1>3 DEF Indexes
<1>6. f \in Injection(Named(w), Indexes(w))
  BY <1>1, <1>3, <1>5 DEF Injection, IsInjective
<1> HIDE DEF f
<1>7. Cardinality(Named(w)) <= Cardinality(Indexes(w))
  BY <1>4, <1>6, FS_Injection
<1> QED BY <1>4, <1>7, FS_CardinalityType

(* The value of a name that is given is one of the values given for it.    *)
LEMMA LastValueIs ==
  ASSUME variables \in Seq(Vars), NEW w, Given(variables, w)
  PROVE  \E j \in 1 .. Len(variables) : /\ Same(variables[j].name, w)
                                        /\ LastValue(w) = variables[j].value
<1> DEFINE named == {k \in DOMAIN variables : Same(variables[k].name, w)}
           last == CHOOSE k \in named : \A j \in named : j <= k
<1>1. DOMAIN variables = 1 .. Len(variables) /\ Len(variables) \in Nat
  OBVIOUS
<1>2. named \in SUBSET (0 .. Len(variables)) /\ named # {}
  BY <1>1 DEF Given
<1>3. last \in named
  <2> HIDE DEF named
  <2>1. \E k \in named : \A j \in named : j <= k
    BY <1>1, <1>2, Greatest
  <2> QED BY <2>1
<1>4. LastValue(w) = variables[last].value
  BY DEF LastValue
<1> HIDE DEF last
<1> QED BY <1>1, <1>3, <1>4

(* In a tidy text each reference can be told from what the others become.  *)
LEMMA TidyDistinct ==
  ASSUME ParamTypeOK, ScanOK, Tidy, stage \notin {"scan", "failed"},
         \A k \in DOMAIN lstParameters : Given(variables, lstParameters[k])
  PROVE  Distinct(References(text))
<1>1. Plain(text) /\ \A k \in DOMAIN text : IsReference(text, k) => k \in References(text)
  BY DEF Tidy
<1>2. text \in Seq(Symbols) /\ DOMAIN text = 1 .. Len(text) /\ variables \in Seq(Vars)
  BY DEF ParamTypeOK, Symbols
<1>3. ASSUME NEW r \in References(text) PROVE LastValue(text[r + 1]) \in Symbols \ (Words \cup {":"})
  <2> DEFINE k == UpTo(References(text), r)
  <2>1. k \in 1 .. Len(lstParameters) /\ lstParameters[k] = text[r + 1]
    BY <1>1, NamesScanned
  <2> HIDE DEF k
  <2>2. Given(variables, text[r + 1])
    BY <2>1 DEF ParamTypeOK
  <2>3. PICK j \in 1 .. Len(variables) : LastValue(text[r + 1]) = variables[j].value
    BY <1>2, <2>2, LastValueIs
  <2>4. variables[j] \in Vars
    BY <1>2
  <2> QED BY <2>3, <2>4 DEF Vars, Symbols
<1> QED BY <1>1, <1>2, <1>3 DEF Distinct

-----------------------------------------------------------------------------
(* The text itself shows no reference replaced. *)
LEMMA ShowsItself ==
  ASSUME text \in Seq(Symbols)
  PROVE  Shows(text, {})
<1> DEFINE p == [k \in 1 .. Len(text) + 1 |-> k]
<1>1. Len(text) \in Nat
  OBVIOUS
<1>2. Aligned(text, {}, p)
  BY <1>1 DEF Aligned
<1>3. Holds(text, {}, p)
  BY <1>1 DEF Holds
<1> QED BY <1>2, <1>3 DEF Shows

(* From k on the text means its k-th symbol, or the value of the reference *)
(* there, and what it means behind it.                                     *)
MeaningAt(f, k) ==
  IF k > Len(text) THEN <<>>
  ELSE IF k \in References(text) THEN <<LastValue(text[k + 1])>> \o f[k + 2]
  ELSE <<text[k]>> \o f[k + 1]

(* Meaning is computed from the end of the text. *)
LEMMA MeaningIs ==
  ASSUME Distinct(References(text))
  PROVE  \E e : Meaning(text) = e[1] /\ \A k \in Nat : e[k] = MeaningAt(e, k)
<1> DEFINE N == Len(text)
           P == Nat \ {0}
           V == Seq(Symbols)
           depth == [k \in P |-> IF k > N THEN 0 ELSE N + 1 - k]
           step == [x \in P \X [P -> V] |-> MeaningAt(x[2], x[1])]
           Eq(g) == g = [k \in Nat |->
                           IF k > Len(text) THEN <<>>
                           ELSE IF k \in References(text) THEN <<LastValue(text[k + 1])>> \o g[k + 2]
                           ELSE <<text[k]>> \o g[k + 1]]
<1>1. N \in Nat /\ text \in Seq(Symbols) /\ \A r \in References(text) : LastValue(text[r + 1]) \in Symbols
  BY DEF Distinct
<1>2. depth \in [P -> Nat]
  BY <1>1
<1>3. ASSUME NEW k \in P, NEW f \in [P -> V] PROVE MeaningAt(f, k) \in V
  <2>1. f[k + 1] \in V /\ f[k + 2] \in V
    OBVIOUS
  <2>2. CASE k > N
    BY <2>2 DEF MeaningAt
  <2>3. CASE k <= N /\ k \in References(text)
    BY <1>1, <2>1, <2>3 DEF MeaningAt
  <2>4. CASE k <= N /\ k \notin References(text)
    <3>1. text[k] \in Symbols
      BY <1>1, <2>4
    <3> QED BY <1>1, <2>1, <2>4, <3>1 DEF MeaningAt
  <2> QED BY <1>1, <2>2, <2>3, <2>4
<1>4. step \in Steps(P, V)
  BY <1>3 DEF Steps
<1>5. ASSUME NEW k \in P, NEW f \in [P -> V], NEW g \in [P -> V],
             \A y \in P : depth[y] < depth[k] => f[y] = g[y]
      PROVE  MeaningAt(f, k) = MeaningAt(g, k)
  <2>1. CASE k > N
    BY <2>1 DEF MeaningAt
  <2>2. CASE k <= N
    <3>1. k + 1 \in P /\ k + 2 \in P
      OBVIOUS
    <3>2. depth[k + 1] < depth[k] /\ depth[k + 2] < depth[k]
      BY <1>1, <2>2, <3>1
    <3> HIDE DEF depth
    <3>3. f[k + 1] = g[k + 1] /\ f[k + 2] = g[k + 2]
      BY <1>5, <3>1, <3>2
    <3> QED BY <3>3 DEF MeaningAt
  <2> QED BY <1>1, <2>1, <2>2
<1>6. LooksBelow(step, P, V, depth)
  <2> HIDE DEF depth, V
  <2>1. \A k \in P : \A f \in [P -> V] : step[<<k, f>>] = MeaningAt(f, k)
    OBVIOUS
  <2> HIDE DEF step
  <2> QED BY <1>5, <2>1 DEF LooksBelow
<1>7. PICK f \in [P -> V] : Solves(f, P, step)
  <2>1. <<>> \in V
    OBVIOUS
  <2> HIDE DEF P, V, depth, step
  <2> QED BY <1>2, <1>4, <1>6, <2>1, DepthRecursion
<1>8. \A k \in P : f[k] = MeaningAt(f, k)
  <2>1. \A k \in P : step[<<k, f>>] = MeaningAt(f, k)
    OBVIOUS
  <2> HIDE DEF step
  <2> QED BY <1>7, <2>1 DEF Solves
<1> DEFINE g == [k \in Nat |-> IF k = 0 THEN MeaningAt(f, 0) ELSE f[k]]
<1>9. Eq(g)
  <2>1. ASSUME NEW k \in Nat
        PROVE  g[k] = IF k > Len(text) THEN <<>>
                      ELSE IF k \in References(text) THEN <<LastValue(text[k + 1])>> \o g[k + 2]
                      ELSE <<text[k]>> \o g[k + 1]
    <3>1. g[k + 1] = f[k + 1] /\ g[k + 2] = f[k + 2]
      OBVIOUS
    <3>2. g[k] = MeaningAt(f, k)
      BY <1>8
    <3> HIDE DEF g
    <3> QED BY <3>1, <3>2 DEF MeaningAt
  <2> QED BY <2>1
<1> DEFINE e == CHOOSE h : Eq(h)
<1>10. Eq(e)
  <2> HIDE DEF g
  <2> QED BY <1>9
<1>11. Meaning(text) = e[1]
  BY DEF Meaning
<1> HIDE DEF e
<1>12. \A k \in Nat : e[k] = MeaningAt(e, k)
  BY <1>10 DEF MeaningAt
<1> QED BY <1>11, <1>12

(* A symbol before what follows it. *)
LEMMA Lengthened ==
  ASSUME NEW t \in Seq(Symbols), NEW i \in 1 .. Len(t)
  PROVE  <<t[i]>> \o SubSeq(t, i + 1, Len(t)) = SubSeq(t, i, Len(t))
<1> DEFINE a == <<t[i]>>
           b == SubSeq(t, i + 1, Len(t))
           c == SubSeq(t, i, Len(t))
<1>1. i \in Int /\ Len(t) \in Nat /\ t[i] \in Symbols
  OBVIOUS
<1>2. a \in Seq(Symbols) /\ Len(a) = 1 /\ a[1] = t[i]
  BY <1>1
<1>3. b \in Seq(Symbols) /\ Len(b) = Len(t) - i /\ \A k \in 1 .. Len(t) - i : b[k] = t[i + k]
  <2>1. b \in Seq(Symbols) /\ Len(b) = Len(t) - i
    BY <1>1
  <2>2. \A k \in 1 .. Len(t) - i : b[k] = t[i + k]
    BY <1>1
  <2> QED BY <2>1, <2>2
<1>4. c \in Seq(Symbols) /\ Len(c) = Len(t) - i + 1 /\ \A k \in 1 .. Len(t) - i + 1 : c[k] = t[i + k - 1]
  <2>1. c \in Seq(Symbols) /\ Len(c) = Len(t) - i + 1
    BY <1>1
  <2>2. \A k \in 1 .. Len(t) - i + 1 : c[k] = t[i + k - 1]
    BY <1>1
  <2> QED BY <2>1, <2>2
<1> HIDE DEF a, b, c
<1> DEFINE d == a \o b
<1>5. d \in Seq(Symbols) /\ Len(d) = Len(c)
  <2>1. a \in Seq(Symbols) /\ b \in Seq(Symbols)
    BY <1>2, <1>3
  <2>2. d \in Seq(Symbols) /\ Len(d) = Len(a) + Len(b)
    BY <2>1
  <2> QED BY <1>1, <1>2, <1>3, <1>4, <2>2
<1>6. /\ \A k \in 1 .. Len(a) : d[k] = a[k]
      /\ \A k \in 1 .. Len(b) : d[Len(a) + k] = b[k]
  <2>1. a \in Seq(Symbols) /\ b \in Seq(Symbols)
    BY <1>2, <1>3
  <2>2. \A k \in 1 .. Len(a) : d[k] = a[k]
    BY <2>1
  <2>3. \A k \in 1 .. Len(b) : d[Len(a) + k] = b[k]
    BY <2>1
  <2> QED BY <2>2, <2>3
<1> HIDE DEF d
<1>7. \A k \in 1 .. Len(c) : d[k] = c[k]
  <2> TAKE k \in 1 .. Len(c)
  <2>1. CASE k = 1
    BY <1>1, <1>2, <1>6, <1>4, <2>1
  <2>2. CASE k # 1
    <3>1. k - 1 \in 1 .. Len(b) /\ Len(a) + (k - 1) = k /\ i + (k - 1) = i + k - 1
      BY <1>1, <1>2, <1>3, <1>4, <2>2
    <3>2. d[Len(a) + (k - 1)] = b[k - 1]
      BY <1>6, <3>1
    <3> QED BY <1>1, <1>3, <1>4, <3>1, <3>2
  <2> QED BY <2>1, <2>2
<1>8. d = c
  BY <1>4, <1>5, <1>7
<1> QED BY <1>8 DEF a, b, c, d

(* The text with every reference replaced is what it means. *)
LEMMA ShownIsMeant ==
  ASSUME Distinct(References(text)), NEW t, Shows(t, References(text))
  PROVE  t = Meaning(text)
<1> DEFINE refs == References(text)
           N == Len(text)
           L == Len(t)
<1>0. PICK e : Meaning(text) = e[1] /\ \A k \in Nat : e[k] = MeaningAt(e, k)
  BY MeaningIs
<1>1. /\ Meaning(text) = e[1]
      /\ \A k \in Nat : e[k] = IF k > N THEN <<>>
                              ELSE IF k \in refs THEN <<LastValue(text[k + 1])>> \o e[k + 2]
                              ELSE <<text[k]>> \o e[k + 1]
  BY <1>0 DEF MeaningAt
<1>2. t \in Seq(Symbols) /\ \E p : Aligned(t, refs, p) /\ Holds(t, refs, p)
  BY DEF Shows
<1>3. PICK p : Aligned(t, refs, p) /\ Holds(t, refs, p)
  BY <1>2
<1>4. N \in Nat /\ L \in Nat /\ text \in Seq(Symbols)
  BY <1>2 DEF Distinct
<1>5. /\ p \in [1 .. N + 1 -> 1 .. L + 1] /\ p[1] = 1 /\ p[N + 1] = L + 1
      /\ \A k \in 1 .. N : p[k + 1] = IF k \in refs THEN p[k] ELSE p[k] + 1
      /\ \A k \in 1 .. N : k \notin refs => t[p[k]] = IF k - 1 \in refs THEN LastValue(text[k]) ELSE text[k]
  BY <1>3 DEF Aligned, Holds
<1>6. \A r \in refs : r \in 1 .. N /\ r + 1 \in 1 .. N /\ r + 1 \notin refs
  BY <1>4, ReferenceFacts
<1> HIDE DEF refs, N, L
<1> DEFINE S == {n \in Nat : \A k \in 1 .. N + 1 : k - 1 \notin refs /\ N + 1 - k <= n
                               => e[k] = SubSeq(t, p[k], L)}
<1>7. 0 \in S
  <2>1. \A k \in 1 .. N + 1 : N + 1 - k <= 0 => k = N + 1 /\ k > N /\ k \in Nat
    BY <1>4
  <2>2. SubSeq(t, L + 1, L) = <<>>
    BY <1>2, <1>4 DEF L
  <2>3. \A k \in 1 .. N + 1 : N + 1 - k <= 0 => e[k] = <<>>
    BY <1>1, <2>1
  <2> QED BY <1>5, <2>1, <2>2, <2>3
<1>8. ASSUME NEW n \in S PROVE n + 1 \in S
  <2>1. n \in Nat /\ n + 1 \in Nat
    OBVIOUS
  <2> SUFFICES ASSUME NEW k \in 1 .. N + 1, k - 1 \notin refs, N + 1 - k <= n + 1
               PROVE  e[k] = SubSeq(t, p[k], L)
    BY <2>1
  <2>2. \A j \in 1 .. N + 1 : j - 1 \notin refs /\ N + 1 - j <= n => e[j] = SubSeq(t, p[j], L)
    OBVIOUS
  <2> HIDE DEF S
  <2>0. \A i \in 1 .. L : <<t[i]>> \o SubSeq(t, i + 1, L) = SubSeq(t, i, L)
    BY <1>2, Lengthened DEF L
  <2>3. k \in 1 .. N => e[k] = IF k \in refs THEN <<LastValue(text[k + 1])>> \o e[k + 2]
                              ELSE <<text[k]>> \o e[k + 1]
    BY <1>1, <1>4
  <2>4. CASE N + 1 - k <= n
    BY <2>2, <2>4
  <2>5. CASE ~(N + 1 - k <= n)
    <3>1. k \in 1 .. N /\ k + 1 \in 1 .. N + 1 /\ (k + 1) - 1 = k /\ N + 1 - (k + 1) <= n
      BY <1>4, <2>1, <2>5
    <3>2. CASE k \in refs
      <4>1. /\ k + 1 \in 1 .. N /\ k + 1 \notin refs /\ k + 2 \in 1 .. N + 1 /\ (k + 2) - 1 = k + 1
            /\ N + 1 - (k + 2) <= n /\ (k + 1) + 1 = k + 2
        BY <1>4, <1>6, <2>1, <3>1, <3>2
      <4>2. p[k + 1] = p[k]
        BY <1>5, <3>1, <3>2
      <4>3. p[k + 2] = p[k] + 1
        BY <1>5, <4>1, <4>2
      <4>4. e[k + 2] = SubSeq(t, p[k] + 1, L)
        BY <2>2, <4>1, <4>3
      <4>5. t[p[k]] = LastValue(text[k + 1])
        BY <1>5, <3>1, <3>2, <4>1, <4>2
      <4>6. p[k] \in 1 .. L
        BY <1>4, <1>5, <4>1, <4>3
      <4>7. e[k] = <<t[p[k]]>> \o SubSeq(t, p[k] + 1, L)
        BY <2>3, <3>1, <3>2, <4>4, <4>5
      <4> QED BY <2>0, <4>6, <4>7
    <3>3. CASE k \notin refs
      <4>1. p[k + 1] = p[k] + 1
        BY <1>5, <3>1, <3>3
      <4>2. e[k + 1] = SubSeq(t, p[k] + 1, L)
        BY <2>2, <3>1, <3>3, <4>1
      <4>3. t[p[k]] = text[k]
        BY <1>5, <3>1, <3>3
      <4>4. p[k] \in 1 .. L
        BY <1>4, <1>5, <3>1, <4>1
      <4>5. e[k] = <<t[p[k]]>> \o SubSeq(t, p[k] + 1, L)
        BY <2>3, <3>1, <3>3, <4>2, <4>3
      <4> QED BY <2>0, <4>4, <4>5
    <3> QED BY <3>2, <3>3
  <2> QED BY <2>4, <2>5
<1>9. S = Nat
  <2> HIDE DEF S
  <2>1. S \in SUBSET Nat  BY DEF S
  <2> QED BY <2>1, <1>7, <1>8, Induct
<1>10. e[1] = SubSeq(t, 1, L)
  <2> HIDE DEF S
  <2>1. 1 \in 1 .. N + 1 /\ 1 - 1 \notin refs /\ N + 1 - 1 <= N
    <3>1. 1 - 1 = 0 /\ 0 \notin refs
      <4>1. 0 \notin 1 .. N
        BY <1>4
      <4> QED BY <1>6, <4>1
    <3>2. 1 \in 1 .. N + 1 /\ N + 1 - 1 <= N
      BY <1>4
    <3> QED BY <3>1, <3>2
  <2>2. N \in S
    <3> HIDE DEF S
    <3> QED BY <1>4, <1>9
  <2>3. e[1] = SubSeq(t, p[1], L)
    BY <2>1, <2>2 DEF S
  <2> QED BY <1>5, <2>3
<1>11. SubSeq(t, 1, L) = t
  BY <1>2 DEF L
<1> QED BY <1>1, <1>10, <1>11

-----------------------------------------------------------------------------
(* The references of the text whose name has been set.                     *)
Done == {r \in References(text) :
           \E j \in 1 .. nextVar - 1 : Same(variables[j].name, text[r + 1])}

Shown(d) == (d = {} /\ originalSQL = text) \/ Shows(originalSQL, d)

(* The text that a preview shows, as far as the variables are set.         *)
Rendered ==
  /\ stage \in {"scan", "check"} => originalSQL = text
  /\ stage = "bind" /\ Tidy => Shown(Done)
  /\ stage = "ready" /\ Tidy => Shown(References(text))

(* A variable's setter replaces the references by its name.                *)
LEMMA SetFills ==
  ASSUME ParamTypeOK, ScanOK, Tidy, Binding, Indexes(Variable.name) # {}
  PROVE  Fills(Variable.name, Variable.value)
<1> DEFINE w == Variable.name
           v == Variable.value
<1>1. /\ nextVar \in 1 .. Len(variables) /\ variables \in Seq(Vars) /\ text \in Seq(Symbols)
      /\ stage \notin {"scan", "failed"} /\ Plain(text)
  BY DEF ParamTypeOK, Binding, Tidy, Symbols
<1>2. v \in Symbols
  <2>1. variables[nextVar] \in Vars
    BY <1>1
  <2> QED BY <2>1 DEF Variable, Vars, Symbols
<1>3. PICK q \in References(text) : Same(text[q + 1], w)
  <2>1. PICK k \in Indexes(w) : TRUE
    OBVIOUS
  <2>2. k \in DOMAIN lstParameters /\ Same(lstParameters[k], w)
    BY DEF Indexes
  <2> HIDE DEF w
  <2> QED BY <1>1, <2>2, NameOfReference
<1>4. \A r \in References(text) : <<Fold[text[r + 1]], Fold[w]>> \notin Prefixed
  <2>1. Fold[text[q + 1]] = Fold[w]
    BY <1>3 DEF Same
  <2>2. \A r \in References(text) : <<Fold[text[r + 1]], Fold[text[q + 1]]>> \notin Prefixed
    BY <1>3 DEF Tidy
  <2> HIDE DEF w
  <2> QED BY <2>1, <2>2
<1>5. \A r \in Named(w) : LastValue(text[r + 1]) = v
  <2> TAKE r \in Named(w)
  <2>1. Same(text[r + 1], w)
    BY DEF Named
  <2>2. nextVar \in DOMAIN variables /\ DOMAIN variables = 1 .. Len(variables)
    BY <1>1
  <2>3. Same(variables[nextVar].name, text[r + 1])
    BY <2>1 DEF Same, Variable
  <2>4. Given(variables, text[r + 1])
    BY <2>2, <2>3 DEF Given
  <2>5. PICK j \in 1 .. Len(variables) : /\ Same(variables[j].name, text[r + 1])
                                         /\ LastValue(text[r + 1]) = variables[j].value
    BY <1>1, <2>4, LastValueIs
  <2>6. Same(variables[j].name, variables[nextVar].name)
    BY <2>3, <2>5 DEF Same
  <2>7. j = nextVar
    BY <2>2, <2>6 DEF Tidy
  <2> QED BY <2>5, <2>7 DEF Variable
<1> HIDE DEF w, v
<1>6. Fills(w, v)
  BY <1>2, <1>4, <1>5 DEF Fills
<1> QED BY <1>6 DEF w, v

(* After a setter the text shows the references by that name replaced too. *)
LEMMA SetRenders ==
  ASSUME ParamTypeOK, ScanOK, SetSoFar, Tidy, Shown(Done), Set
  PROVE  Shows(originalSQL', Done \cup Named(Variable.name))
<1> DEFINE w == Variable.name
           v == Variable.value
           refs == References(text)
<1>1. /\ Binding /\ Indexes(w) # {} /\ originalSQL' = Replaced(originalSQL, w, v)
      /\ stage = "bind" /\ text \in Seq(Symbols) /\ Plain(text)
  BY DEF Set, Binding, ParamTypeOK, Symbols, Tidy
<1>2. Distinct(refs)
  BY <1>1, TidyDistinct DEF SetSoFar
<1>3. Fills(w, v)
  BY <1>1, SetFills
<1>4. Cardinality(Indexes(w)) \in Nat /\ Cardinality(Named(w)) <= Cardinality(Indexes(w))
  BY <1>1, EachHasIndex
<1>5. Shows(originalSQL, Done) /\ Done \in SUBSET refs
  BY <1>1, ShowsItself DEF Shown, Done
<1>6. originalSQL \in Seq(Symbols)
  BY <1>5 DEF Shows
<1> HIDE DEF w, v
<1>7. Shows(Replaced(originalSQL, w, v), Done \cup Named(w))
  BY <1>2, <1>3, <1>4, <1>5, <1>6, AllReplaced
<1> QED BY <1>1, <1>7 DEF w

LEMMA SetKeepsRendered ==
  ASSUME ParamTypeOK, ScanOK, SetSoFar, Rendered, Set
  PROVE  Rendered'
<1>1. /\ stage = "bind" /\ stage' = "bind" /\ nextVar \in 1 .. Len(variables)
      /\ nextVar' = nextVar + 1 /\ text' = text /\ variables' = variables
  BY DEF Set, Binding, scanned, ParamTypeOK
<1> SUFFICES ASSUME Tidy' PROVE Shown(Done)'
  BY <1>1 DEF Rendered
<1>2. Tidy
  BY <1>1 DEF Tidy
<1>3. Shows(originalSQL', Done \cup Named(Variable.name))
  BY <1>1, <1>2, SetRenders DEF Rendered
<1>4. Done' = Done \cup Named(Variable.name)
  <2>1. \A j : j \in 1 .. nextVar' - 1 <=> j \in 1 .. nextVar - 1 \/ j = nextVar
    BY <1>1
  <2>2. \A r \in References(text) :
          Same(variables[nextVar].name, text[r + 1]) <=> Same(text[r + 1], Variable.name)
    BY DEF Same, Variable
  <2> QED BY <1>1, <2>1, <2>2 DEF Done, Named, Same
<1>5. Shows(originalSQL, Done)' <=> Shows(originalSQL', Done')
  BY <1>1 DEF Shows, Aligned, Holds, LastValue, Same
<1> QED BY <1>3, <1>4, <1>5 DEF Shown

(* A preview shows the statement that would be executed (the setters'      *)
(* replaceFirst, lines 117 to 220 of the statement, one for each index of  *)
(* a name): when no name begins with another, none is in a literal or a    *)
(* comment, and no variable is given twice, each replacement finds the     *)
(* next reference by its name and nothing else.                            *)
THEOREM PreviewShowsWhatRuns == RunSpec => []PreviewIsExecuted
<1>1. RunInit => Rendered
  BY DEF RunInit, ParamInit, Rendered
<1>2. ParamTypeOK /\ ScanOK /\ SetSoFar /\ Rendered /\ [RunNext]_runVars => Rendered'
  <2> SUFFICES ASSUME ParamTypeOK, ScanOK, SetSoFar, Rendered, [RunNext]_runVars PROVE Rendered'
    OBVIOUS
  <2>1. CASE Scan \/ ScanReference \/ Prepare
    <3>1. stage = "scan" /\ stage' \in {"scan", "check"} /\ text' = text /\ originalSQL' = originalSQL
      BY <2>1 DEF Scan, ScanReference, Prepare, Scanning, scanned
    <3> QED BY <3>1 DEF Rendered
  <2>2. CASE ScanFails \/ SetFails \/ Execute
    <3>1. stage' \in {"failed", "stream", "answer", "error"}
      BY <2>2 DEF ScanFails, SetFails, Execute
    <3> QED BY <3>1 DEF Rendered
  <2>3. CASE Check
    <3>1. /\ stage = "check" /\ stage' \in {"ready", "bind", "failed"} /\ nextVar = 1 /\ nextVar' = nextVar
          /\ text' = text /\ originalSQL' = originalSQL /\ originalSQL = text
          /\ (stage' = "ready" => lstParameters = <<>>)
      BY <2>3 DEF Check, scanned, Rendered, ParamTypeOK
    <3>2. Done' = {}
      BY <3>1 DEF Done
    <3>3. ASSUME Tidy', stage' = "ready" PROVE References(text)' = {}
      <4>1. Plain(text) /\ stage \notin {"scan", "failed"}
        BY <3>1, <3>3 DEF Tidy
      <4>2. \A r \in References(text) : UpTo(References(text), r) \in 1 .. Len(lstParameters)
        BY <4>1, NamesScanned
      <4> QED BY <3>1, <3>3, <4>2
    <3> QED BY <3>1, <3>2, <3>3 DEF Rendered, Shown
  <2>4. CASE Set
    BY <2>4, SetKeepsRendered
  <2>5. CASE Bound
    <3>1. /\ stage = "bind" /\ stage' = "ready" /\ nextVar = Len(variables) + 1 /\ nextVar' = nextVar
          /\ text' = text /\ variables' = variables /\ originalSQL' = originalSQL
      BY <2>5 DEF Bound, scanned, ParamTypeOK
    <3> SUFFICES ASSUME Tidy' PROVE Shown(References(text))'
      BY <3>1 DEF Rendered
    <3>2. Tidy /\ Plain(text)
      BY <3>1 DEF Tidy
    <3>3. \A r \in References(text) : r \in Done
      <4> TAKE r \in References(text)
      <4> DEFINE k == UpTo(References(text), r)
      <4>1. k \in 1 .. Len(lstParameters) /\ lstParameters[k] = text[r + 1]
        BY <3>1, <3>2, NamesScanned
      <4> HIDE DEF k
      <4>2. Given(variables, text[r + 1])
        BY <3>1, <4>1 DEF SetSoFar, ParamTypeOK
      <4>3. DOMAIN variables = 1 .. nextVar - 1
        BY <3>1 DEF ParamTypeOK
      <4> QED BY <4>2, <4>3 DEF Given, Done
    <3>4. Done = References(text)
      BY <3>3 DEF Done
    <3>5. Shown(References(text))
      BY <3>1, <3>2, <3>4 DEF Rendered
    <3>6. References(text)' = References(text)
      BY <3>1
    <3>7. Shows(originalSQL, References(text))' <=> Shows(originalSQL, References(text))
      BY <3>1, <3>6 DEF Shows, Aligned, Holds, LastValue, Same
    <3> QED BY <3>1, <3>5, <3>6, <3>7 DEF Shown
  <2>6. CASE UNCHANGED paramVars
    <3>1. /\ stage' = stage /\ text' = text /\ variables' = variables /\ originalSQL' = originalSQL
          /\ nextVar' = nextVar
      BY <2>6 DEF paramVars
    <3>2. (Tidy' <=> Tidy) /\ Done' = Done /\ References(text)' = References(text)
      BY <3>1 DEF Tidy, Done
    <3>3. /\ Shows(originalSQL, Done)' <=> Shows(originalSQL, Done)
          /\ Shows(originalSQL, References(text))' <=> Shows(originalSQL, References(text))
      BY <3>1, <3>2 DEF Shows, Aligned, Holds, LastValue, Same
    <3> QED BY <3>1, <3>2, <3>3 DEF Rendered, Shown
  <2> QED
    BY <2>1, <2>2, <2>3, <2>4, <2>5, <2>6 DEF RunNext, Bind, ParamNext, Write, runVars
<1>3. ParamTypeOK /\ ScanOK /\ EveryParameterIsSet /\ Rendered => PreviewIsExecuted
  <2> SUFFICES ASSUME ParamTypeOK, ScanOK, EveryParameterIsSet, Rendered, stage = "ready", Tidy
               PROVE  originalSQL = Meaning(text)
    BY DEF PreviewIsExecuted
  <2>1. \A k \in DOMAIN lstParameters : Given(variables, lstParameters[k])
    <3>1. DOMAIN variables = 1 .. Len(variables)
      BY DEF ParamTypeOK
    <3> QED BY <3>1 DEF EveryParameterIsSet, Ready, SetBy, Given
  <2>2. Distinct(References(text))
    BY <2>1, TidyDistinct
  <2>3. Shown(References(text))
    BY DEF Rendered
  <2>4. Shows(originalSQL, References(text))
    BY <2>2, <2>3, ShowsItself DEF Shown, Distinct
  <2> QED BY <2>2, <2>4, ShownIsMeant
<1> QED BY <1>1, <1>2, <1>3, ParamTypes, ScanIsRight, SetInOrder, PTL DEF RunSpec

-----------------------------------------------------------------------------
(* The run of a query uses the stream as ResultStream says, so what was    *)
(* proved of a stream holds of the run.                                    *)
THEOREM RunUsesTheStream == RunSpec => StreamSpec
<1>1. RunInit => StreamInit
  BY DEF RunInit
<1>2. [RunNext]_runVars => [StreamNext]_streamVars
  BY DEF RunNext, Bind, Execute, Write, runVars, streamVars
<1> QED  BY <1>1, <1>2, PTL DEF RunSpec, StreamSpec

(* The rows that a query sends reach the producer once and in order, and a *)
(* row count is returned only when all have.                               *)
THEOREM RunSendsItsRows == RunSpec => [](EachRowOnce /\ ReturnedMeansSent)
BY RunUsesTheStream, RowsOnceInOrder, ReturnMeansSent, PTL
=============================================================================
