---------------------------- MODULE Permissions ----------------------------
(***************************************************************************)
(* What a user may see.  The permissions of each role are a document of a  *)
(* store; updates of documents reach every node on a stream.  A node that  *)
(* starts subscribes, then queries all documents and puts them into its    *)
(* cache one by one (DataqueryApplication.run), while the consumer puts    *)
(* what the stream brings.  A request collects the privileges of its       *)
(* user's roles from the cache, role by role, then asks for its types.     *)
(*                                                                         *)
(* One tenant and one model.  A document is the position of its update in  *)
(* the stream: a larger one of a role is newer, 0 is none.  The store and  *)
(* the stream are external: an update is in the store when it is in the    *)
(* stream.  Documents are replaced, never deleted.                         *)
(***************************************************************************)
EXTENDS Naturals, Sequences, FiniteSets

CONSTANTS
  Nodes, Roles, Requests,
  RolesOf,      \* request -> the roles of its user
  Types,        \* types of the model
  Rows,         \* rows of a table; what a filter lets through is a set of them
  Docs,         \* documents
  MaxUpdates,   \* bound: updates
  MaxStarts     \* bound: starts of a node

(* read: read_privileges.  sets[t]: row_security of type t, each filter    *)
(* set as the rows that pass all of its filters.                           *)
DocType == [read : SUBSET Types, sets : [Types -> SUBSET SUBSET Rows]]

ASSUME PermissionAssumption ==
  /\ Nodes # {} /\ RolesOf \in [Requests -> SUBSET Roles]
  /\ Docs \subseteq DocType
  /\ MaxUpdates \in Nat /\ MaxStarts \in Nat

VARIABLES
  store,    \* role -> document
  stream,   \* updates, in order: [role, doc]
  offset,   \* node -> the updates its consumer has processed
  cache,    \* dmPermissionCache: node -> role -> document
  start,    \* node -> its starting thread: pc, and what it has queried
  crossed,  \* node -> roles put at start over a newer document (history)
  starts,   \* node -> how often it started
  req       \* request -> how far it is

vars == <<store, stream, offset, cache, start, crossed, starts, req>>

StartPCs == {"down", "query", "put", "up"}
ReqPCs == {"idle", "read", "rows", "denied", "lost"}

None == [q \in Roles |-> 0]
Nothing == [t \in Types |-> {}]

Down == [pc |-> "down", at |-> 0, got |-> None, todo |-> {}]

(* known, stale, newest and calm are history: what its node had consumed   *)
(* when the request came, the roles that were crossed, what the store      *)
(* held, and whether the cache held just that and has not changed.         *)
Idle == [pc |-> "idle", node |-> CHOOSE n \in Nodes : TRUE, asks |-> {},
         got |-> None, todo |-> {}, shows |-> Nothing,
         known |-> 0, stale |-> {}, newest |-> None, calm |-> FALSE]

Init ==
  /\ store = None /\ stream = <<>>
  /\ offset = [n \in Nodes |-> 0] /\ cache = [n \in Nodes |-> None]
  /\ start = [n \in Nodes |-> Down] /\ crossed = [n \in Nodes |-> {}]
  /\ starts = [n \in Nodes |-> 0] /\ req = [r \in Requests |-> Idle]

-----------------------------------------------------------------------------
(* The administration of roles, another service. *)
Update(q, d) ==
  /\ Len(stream) < MaxUpdates
  /\ stream' = Append(stream, [role |-> q, doc |-> d])
  /\ store' = [store EXCEPT ![q] = Len(stream) + 1]
  /\ UNCHANGED <<offset, cache, start, crossed, starts, req>>

(* callConsumerRequest. *)
Subscribe(n) ==
  /\ start[n].pc = "down" /\ starts[n] < MaxStarts
  /\ start' = [start EXCEPT ![n].pc = "query"]
  /\ starts' = [starts EXCEPT ![n] = @ + 1]
  /\ UNCHANGED <<store, stream, offset, cache, crossed, req>>

Touch(n, q) ==
  req' = [r \in Requests |->
            [req[r] EXCEPT !.calm = @ /\ ~(req[r].pc = "read" /\ req[r].node = n
                                             /\ q \in RolesOf[r])]]

(* A slip: an update is only for roles the node knows not yet. *)
ConsumeAbsent(n) ==
  /\ start[n].pc # "down" /\ offset[n] < Len(stream)
  /\ offset' = [offset EXCEPT ![n] = @ + 1]
  /\ LET q == stream[offset[n] + 1].role
     IN  /\ cache' = [cache EXCEPT ![n][q] = IF @ = 0 THEN offset[n] + 1 ELSE @]
         /\ crossed' = [crossed EXCEPT ![n] = @ \ {q}]
         /\ Touch(n, q)
  /\ UNCHANGED <<store, stream, start, starts>>

(* processDmPermission. *)
Consume(n) ==
  /\ start[n].pc # "down" /\ offset[n] < Len(stream)
  /\ offset' = [offset EXCEPT ![n] = @ + 1]
  /\ LET q == stream[offset[n] + 1].role
     IN  /\ cache' = [cache EXCEPT ![n][q] = offset[n] + 1]
         /\ crossed' = [crossed EXCEPT ![n] = @ \ {q}]
         /\ Touch(n, q)
  /\ UNCHANGED <<store, stream, start, starts>>

(* buildDMPermissionCache: the query. *)
QueryAll(n) ==
  /\ start[n].pc = "query"
  /\ start' = [start EXCEPT ![n] =
       [pc |-> "put", at |-> offset[n], got |-> store,
        todo |-> {q \in Roles : store[q] # 0}]]
  /\ UNCHANGED <<store, stream, offset, cache, crossed, starts, req>>

(* The node has consumed, since it queried, a newer document of q.         *)
Overtaken(n, q) ==
  \E i \in start[n].at + 1 .. offset[n] :
    i > start[n].got[q] /\ stream[i].role = q

(* buildDMPermissionCache: the puts, in the order of the answer.           *)
Put(n, q) ==
  /\ start[n].pc = "put" /\ q \in start[n].todo
  /\ start' = [start EXCEPT ![n].todo = @ \ {q}]
  /\ cache' = [cache EXCEPT ![n][q] = start[n].got[q]]
  /\ crossed' = [crossed EXCEPT ![n] =
                   IF Overtaken(n, q) THEN @ \cup {q} ELSE @ \ {q}]
  /\ UNCHANGED <<store, stream, offset, starts, req>>

(* The rest of run. *)
Serve(n) ==
  /\ start[n].pc = "put" /\ start[n].todo = {}
  /\ start' = [start EXCEPT ![n].pc = "up"]
  /\ UNCHANGED <<store, stream, offset, cache, crossed, starts, req>>

(* The node stops, or its start fails.  Its subscription continues behind  *)
(* what it has processed, at worst with the last update once more.         *)
Stop(n) ==
  /\ start[n].pc # "down"
  /\ start' = [start EXCEPT ![n] = Down]
  /\ cache' = [cache EXCEPT ![n] = None]
  /\ crossed' = [crossed EXCEPT ![n] = {}]
  /\ \E o \in {offset[n], IF offset[n] = 0 THEN 0 ELSE offset[n] - 1} :
       offset' = [offset EXCEPT ![n] = o]
  /\ req' = [r \in Requests |->
               IF req[r].pc = "read" /\ req[r].node = n
                 THEN [Idle EXCEPT !.pc = "lost"] ELSE req[r]]
  /\ UNCHANGED <<store, stream, starts>>

-----------------------------------------------------------------------------
Arrive(r, n, ts) ==
  /\ req[r].pc = "idle" /\ start[n].pc = "up"
  /\ req' = [req EXCEPT ![r] =
       [Idle EXCEPT
          !.pc = "read", !.node = n, !.asks = ts, !.todo = RolesOf[r],
          !.known = offset[n], !.stale = crossed[n], !.newest = store,
          !.calm = offset[n] = Len(stream) /\ crossed[n] = {}]]
  /\ UNCHANGED <<store, stream, offset, cache, start, crossed, starts>>

(* A slip: the first role that has a document decides. *)
ReadRoleFirst(r, q) ==
  /\ req[r].pc = "read" /\ q \in req[r].todo
  /\ LET i == cache[req[r].node][q]
     IN  req' = [req EXCEPT ![r].todo = IF i = 0 THEN @ \ {q} ELSE {},
                            ![r].got[q] = i]
  /\ UNCHANGED <<store, stream, offset, cache, start, crossed, starts>>

(* getaccessPrivileges: one role of the user. *)
ReadRole(r, q) ==
  /\ req[r].pc = "read" /\ q \in req[r].todo
  /\ req' = [req EXCEPT ![r].todo = @ \ {q},
                        ![r].got[q] = cache[req[r].node][q]]
  /\ UNCHANGED <<store, stream, offset, cache, start, crossed, starts>>

Doc(i) == IF i = 0 THEN [read |-> {}, sets |-> Nothing] ELSE stream[i].doc

ReadPrivileges(got) == UNION {Doc(got[q]).read : q \in Roles}

(* A slip: a role replaces the row security of the roles before it.        *)
RowSecurityLast(got, t) ==
  LET restricting == {q \in Roles : Doc(got[q]).sets[t] # {}}
  IN  IF restricting = {} THEN {}
      ELSE Doc(got[CHOOSE q \in restricting : TRUE]).sets[t]

(* populateRowSecurity: the filter sets of all roles, joined with OR.      *)
RowSecurity(got, t) == UNION {Doc(got[q]).sets[t] : q \in Roles}

(* SingleTraversal: every type that is asked for must be readable, and its *)
(* row security, if there is any, is added to the query.                   *)
Decide(r) ==
  LET got == req[r].got
      granted == req[r].asks \subseteq ReadPrivileges(got)
      Passing(t) == IF RowSecurity(got, t) = {} THEN Rows
                    ELSE UNION RowSecurity(got, t)
  IN  /\ req[r].pc = "read" /\ req[r].todo = {}
      /\ req' = [req EXCEPT
           ![r].pc = IF granted THEN "rows" ELSE "denied",
           ![r].shows = [t \in Types |-> IF granted /\ t \in req[r].asks
                                           THEN Passing(t) ELSE {}]]
      /\ UNCHANGED <<store, stream, offset, cache, start, crossed, starts>>

Next ==
  \/ \E q \in Roles, d \in Docs : Update(q, d)
  \/ \E n \in Nodes :
       \/ Subscribe(n) \/ Consume(n) \/ QueryAll(n) \/ Serve(n) \/ Stop(n)
       \/ \E q \in Roles : Put(n, q)
  \/ \E r \in Requests :
       \/ Decide(r)
       \/ \E q \in Roles : ReadRole(r, q)
       \/ \E n \in Nodes, ts \in SUBSET Types \ {{}} : Arrive(r, n, ts)

Spec == Init /\ [][Next]_vars
-----------------------------------------------------------------------------
Served(r) == req[r].pc \in {"rows", "denied"}

IsDoc(i, q) == i # 0 => i \in DOMAIN stream /\ stream[i].role = q

(* The types; a document in the cache, or on its way into it, is one of    *)
(* the role it is under.                                                   *)
TypeOK ==
  /\ stream \in Seq([role : Roles, doc : Docs]) /\ store \in [Roles -> Nat]
  /\ offset \in [Nodes -> Nat] /\ \A n \in Nodes : offset[n] <= Len(stream)
  /\ cache \in [Nodes -> [Roles -> Nat]]
  /\ start \in [Nodes -> [pc : StartPCs, at : Nat, got : [Roles -> Nat],
                          todo : SUBSET Roles]]
  /\ crossed \in [Nodes -> SUBSET Roles] /\ starts \in [Nodes -> Nat]
  /\ req \in [Requests ->
       [pc : ReqPCs, node : Nodes, asks : SUBSET Types, got : [Roles -> Nat],
        todo : SUBSET Roles, shows : [Types -> SUBSET Rows], known : Nat,
        stale : SUBSET Roles, newest : [Roles -> Nat], calm : BOOLEAN]]
  /\ \A q \in Roles : /\ \A n \in Nodes : IsDoc(cache[n][q], q)
                      /\ \A r \in Requests : IsDoc(req[r].got[q], q)

(* A node that serves requests and has consumed every update has the       *)
(* newest document of every role, unless the query at its start put an     *)
(* older one over what the consumer had put meanwhile.                     *)
CurrentUnlessCrossed ==
  \A n \in Nodes, q \in Roles :
    start[n].pc = "up" /\ offset[n] = Len(stream) /\ q \notin crossed[n] =>
      cache[n][q] = store[q]

(* A request is not decided by a document older than one its node had      *)
(* consumed when it came, be it that the node has just started, or is      *)
(* behind and catching up: what is revoked there stays revoked.            *)
DecidedByWhatIsKnown ==
  \A r \in Requests : Served(r) =>
    \A q \in RolesOf[r] \ req[r].stale : \A i \in 1 .. req[r].known :
      stream[i].role = q => i <= req[r].got[q]

(* A request that finds and leaves the cache current is answered as the    *)
(* store says: all of its types are readable through some role, each the   *)
(* same or another one; and a row is shown if a role of the user that      *)
(* restricts the type lets it through, or no role restricts the type.      *)
CalmAnswerIsTheStores ==
  \A r \in Requests :
    LET doc == [q \in RolesOf[r] |-> Doc(req[r].newest[q])]
        some == \A t \in req[r].asks : \E q \in RolesOf[r] : t \in doc[q].read
    IN  Served(r) /\ req[r].calm =>
          /\ req[r].pc = "rows" <=> some
          /\ \A t \in req[r].asks, x \in Rows :
               x \in req[r].shows[t] <=>
                 /\ some
                 /\ \/ \E q \in RolesOf[r] : \E f \in doc[q].sets[t] : x \in f
                    \/ \A q \in RolesOf[r] : doc[q].sets[t] = {}
=============================================================================
