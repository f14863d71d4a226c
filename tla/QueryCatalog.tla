---------------------------- MODULE QueryCatalog ----------------------------
(***************************************************************************)
(* The texts of the named queries: a store and a stream of updates that    *)
(* all nodes share, and in each node the map queryMap of                   *)
(* NamedQueryExecutorServiceImpl.  Requests fill the map by check, query   *)
(* and put (getQuery, getNames); the consumer of the stream puts every     *)
(* update it is given (updateMap).                                         *)
(*                                                                         *)
(* A text is the position in the stream of the update that wrote it, so a  *)
(* larger text of one name is a newer one and 0 is no text.  The store and *)
(* the stream are external: an update is in the store when it is in the    *)
(* stream.  The map is a HashMap without a lock: while one put adds a name *)
(* (and the table perhaps grows), another at the same time may be lost,    *)
(* of a name the map has as of one it has not.  That a read at that moment *)
(* may miss a name is left out.                                            *)
(***************************************************************************)
EXTENDS Naturals, Sequences, FiniteSets

CONSTANTS
  Nodes, Names, Requests,
  MaxUpdates,   \* bound: updates of texts
  MaxRestarts   \* bound: restarts of nodes

ASSUME CatalogAssumption ==
  Nodes # {} /\ MaxUpdates \in Nat /\ MaxRestarts \in Nat

VARIABLES
  store,    \* name -> text
  stream,   \* the names updated, in order
  offset,   \* node -> the updates its consumer has processed
  queryMap, \* node -> name -> text
  req,      \* request -> what it is and how far it is
  crossed,  \* node -> names of which a newer text was put over or lost (history)
  restarts

vars == <<store, stream, offset, queryMap, req, crossed, restarts>>

PCs == {"idle", "query", "put", "get", "done"}
Answers == {"none", "text", "names", "notFound", "broken", "failed"}

Idle == [pc |-> "idle", node |-> CHOOSE n \in Nodes : TRUE, wants |-> {},
         list |-> FALSE, since |-> 0, at |-> 0, got |-> [q \in Names |-> 0],
         todo |-> {}, answer |-> "none", names |-> {}]

Init ==
  /\ store = [q \in Names |-> 0] /\ stream = <<>>
  /\ offset = [n \in Nodes |-> 0]
  /\ queryMap = [n \in Nodes |-> [q \in Names |-> 0]]
  /\ req = [r \in Requests |-> Idle]
  /\ crossed = [n \in Nodes |-> {}] /\ restarts = 0

-----------------------------------------------------------------------------
Known(n) == {q \in Names : queryMap[n][q] # 0}
Stored == {q \in Names : store[q] # 0}

(* updateSql, or any other client of the store. *)
Update(q) ==
  /\ Len(stream) < MaxUpdates
  /\ stream' = Append(stream, q)
  /\ store' = [store EXCEPT ![q] = Len(stream) + 1]
  /\ UNCHANGED <<offset, queryMap, req, crossed, restarts>>

(* A slip: an update is only for names the node does not know.             *)
ConsumeAbsent(n) ==
  /\ offset[n] < Len(stream)
  /\ offset' = [offset EXCEPT ![n] = @ + 1]
  /\ LET q == stream[offset[n] + 1]
     IN  /\ queryMap' = IF q \in Known(n) THEN queryMap
                        ELSE [queryMap EXCEPT ![n][q] = offset[n] + 1]
         /\ crossed' = [crossed EXCEPT ![n] = @ \ {q}]
  /\ UNCHANGED <<store, stream, req, restarts>>

(* processSqlResource: updateMap. *)
Consume(n) ==
  /\ offset[n] < Len(stream)
  /\ offset' = [offset EXCEPT ![n] = @ + 1]
  /\ LET q == stream[offset[n] + 1]
     IN  /\ queryMap' = [queryMap EXCEPT ![n][q] = offset[n] + 1]
         /\ crossed' = [crossed EXCEPT ![n] = @ \ {q}]
  /\ UNCHANGED <<store, stream, req, restarts>>

(* The put is lost to that of a request which adds another name.           *)
ConsumeLost(n) ==
  /\ offset[n] < Len(stream)
  /\ LET q == stream[offset[n] + 1]
     IN  /\ \E s \in Requests :
              /\ req[s].node = n /\ req[s].pc = "put"
              /\ req[s].todo \ (Known(n) \cup {q}) # {}
         /\ crossed' = [crossed EXCEPT ![n] = @ \cup {q}]
  /\ offset' = [offset EXCEPT ![n] = @ + 1]
  /\ UNCHANGED <<store, stream, queryMap, req, restarts>>

(* A slip: only the map is asked. *)
ArriveMapOnly(r, n, q) ==
  /\ req[r].pc = "idle"
  /\ req' = [req EXCEPT ![r] =
       [Idle EXCEPT !.node = n, !.wants = {q}, !.since = Len(stream), !.at = offset[n],
                    !.pc = IF q \in Known(n) THEN "get" ELSE "done",
                    !.answer = IF q \in Known(n) THEN "none" ELSE "notFound"]]
  /\ UNCHANGED <<store, stream, offset, queryMap, crossed, restarts>>

(* getQuery(q) of the commands view, preview and execute: containsKey.     *)
Arrive(r, n, q) ==
  /\ req[r].pc = "idle"
  /\ req' = [req EXCEPT ![r] =
       [Idle EXCEPT !.node = n, !.wants = {q}, !.since = Len(stream), !.at = offset[n],
                    !.pc = IF q \in Known(n) THEN "get" ELSE "query"]]
  /\ UNCHANGED <<store, stream, offset, queryMap, crossed, restarts>>

(* getNames of the command list: isEmpty. *)
ArriveList(r, n) ==
  /\ req[r].pc = "idle"
  /\ req' = [req EXCEPT ![r] =
       [Idle EXCEPT !.node = n, !.wants = Names, !.since = Len(stream), !.at = offset[n],
                    !.list = TRUE,
                    !.pc = IF Known(n) # {} THEN "get" ELSE "query"]]
  /\ UNCHANGED <<store, stream, offset, queryMap, crossed, restarts>>

(* getSqlResource, getSqlResources. *)
QueryStore(r) ==
  /\ req[r].pc = "query"
  /\ LET found == req[r].wants \cap Stored
     IN  req' = [req EXCEPT
           ![r].got = store,
           ![r].at = offset[req[r].node],
           ![r].todo = found,
           ![r].pc = IF found # {} THEN "put"
                     ELSE IF req[r].list THEN "get" ELSE "done",
           ![r].answer = IF found = {} /\ ~req[r].list THEN "notFound"
                         ELSE "none"]
  /\ UNCHANGED <<store, stream, offset, queryMap, crossed, restarts>>

(* The client of the store throws. *)
QueryFails(r) ==
  /\ req[r].pc = "query"
  /\ req' = [req EXCEPT ![r].pc = "done", ![r].answer = "failed"]
  /\ UNCHANGED <<store, stream, offset, queryMap, crossed, restarts>>

(* The node has consumed, since the request queried, a newer text of q.    *)
Overtaken(r, q) ==
  \E i \in req[r].at + 1 .. offset[req[r].node] :
    i > req[r].got[q] /\ stream[i] = q

PutDone(r, q) ==
  req' = [req EXCEPT ![r].todo = @ \ {q},
                     ![r].pc = IF req[r].todo = {q} THEN "get" ELSE "put"]

Put(r, q) ==
  /\ req[r].pc = "put" /\ q \in req[r].todo
  /\ LET n == req[r].node
     IN  /\ queryMap' = [queryMap EXCEPT ![n][q] = req[r].got[q]]
         /\ crossed' = [crossed EXCEPT ![n] =
                          IF Overtaken(r, q) THEN @ \cup {q} ELSE @ \ {q}]
  /\ PutDone(r, q)
  /\ UNCHANGED <<store, stream, offset, restarts>>

(* Another thread of the node is adding another name. *)
Racing(r, q) ==
  LET n == req[r].node
  IN  \E p \in Names \ (Known(n) \cup {q}) :
        \/ \E s \in Requests \ {r} :
             req[s].node = n /\ req[s].pc = "put" /\ p \in req[s].todo
        \/ offset[n] < Len(stream) /\ stream[offset[n] + 1] = p

(* The put is lost to the other's. *)
PutLost(r, q) ==
  /\ req[r].pc = "put" /\ q \in req[r].todo
  /\ Racing(r, q)
  /\ PutDone(r, q)
  /\ UNCHANGED <<store, stream, offset, queryMap, crossed, restarts>>

(* queryMap.get(queryName).getFileContent(), which throws when the put was *)
(* lost; queryMap.keySet().                                                *)
Get(r) ==
  /\ req[r].pc = "get"
  /\ LET n == req[r].node
     IN  req' = [req EXCEPT ![r].pc = "done",
           ![r].names = IF req[r].list THEN Known(n) ELSE {},
           ![r].answer = IF req[r].list THEN "names"
                         ELSE IF req[r].wants \subseteq Known(n) THEN "text"
                         ELSE "broken"]
  /\ UNCHANGED <<store, stream, offset, queryMap, crossed, restarts>>

(* The map is gone, the subscription continues, at worst with the update   *)
(* that was being processed.                                               *)
Restart(n) ==
  /\ restarts < MaxRestarts /\ restarts' = restarts + 1
  /\ queryMap' = [queryMap EXCEPT ![n] = [q \in Names |-> 0]]
  /\ crossed' = [crossed EXCEPT ![n] = {}]
  /\ \E o \in {offset[n], IF offset[n] = 0 THEN 0 ELSE offset[n] - 1} :
       offset' = [offset EXCEPT ![n] = o]
  /\ req' = [r \in Requests |->
               IF req[r].pc # "idle" /\ req[r].node = n
                 THEN [Idle EXCEPT !.pc = "done"] ELSE req[r]]
  /\ UNCHANGED <<store, stream>>

Next ==
  \/ \E q \in Names : Update(q)
  \/ \E n \in Nodes : Consume(n) \/ ConsumeLost(n) \/ Restart(n)
  \/ \E r \in Requests :
       \/ QueryStore(r) \/ QueryFails(r) \/ Get(r)
       \/ \E n \in Nodes : ArriveList(r, n)
       \/ \E q \in Names : Put(r, q) \/ PutLost(r, q)
       \/ \E n \in Nodes, q \in Names : Arrive(r, n, q)

Spec == Init /\ [][Next]_vars
-----------------------------------------------------------------------------
(* The types; a text in a map, or on its way into one, is a text of the    *)
(* name it is under.                                                       *)
TypeOK ==
  /\ stream \in Seq(Names) /\ store \in [Names -> Nat]
  /\ offset \in [Nodes -> Nat] /\ \A n \in Nodes : offset[n] <= Len(stream)
  /\ queryMap \in [Nodes -> [Names -> Nat]]
  /\ crossed \in [Nodes -> SUBSET Names] /\ restarts \in Nat
  /\ req \in [Requests ->
       [pc : PCs, node : Nodes, wants : SUBSET Names, list : BOOLEAN,
        since : Nat, at : Nat, got : [Names -> Nat], todo : SUBSET Names,
        answer : Answers, names : SUBSET Names]]
  /\ \A n \in Nodes, q \in Names : queryMap[n][q] # 0 =>
       queryMap[n][q] \in DOMAIN stream /\ stream[queryMap[n][q]] = q
  /\ \A r \in Requests : req[r].pc = "put" => \A q \in req[r].todo :
       req[r].got[q] \in DOMAIN stream /\ stream[req[r].got[q]] = q

(* A node that has consumed every update runs the newest text of every     *)
(* name it knows, unless a request queried the store, the node consumed a  *)
(* newer text, and the request then put its own over it (lines 291-294     *)
(* against 315), or the consumer's put of the newer text was lost to one   *)
(* that added another name.  Restarts, a list that puts many names one by  *)
(* one, and the puts of requests that are lost do not matter.              *)
CurrentUnlessCrossed ==
  \A n \in Nodes, q \in Names :
    offset[n] = Len(stream) /\ q \in Known(n) \ crossed[n] =>
      \A i \in DOMAIN stream : stream[i] = q => i <= queryMap[n][q]

(* "No Query found with name" (line 296) is only said of a name that was   *)
(* in no update when the request arrived, whatever the node has consumed.  *)
FoundWhenStored ==
  \A r \in Requests : req[r].answer = "notFound" =>
    \A i \in 1 .. req[r].since : stream[i] \notin req[r].wants
=============================================================================
