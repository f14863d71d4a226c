---------------------------- MODULE ModelServices ----------------------------
(***************************************************************************)
(* The executable GraphQL services of one model on the nodes of the        *)
(* deployment: two maps per node (service and SDL text), filled by request *)
(* threads on first use, by a refresh request, and by the consumer of the  *)
(* state stream on which a refresh is announced.  Every filler fetches the *)
(* SDL from the model service and then puts into one map after the other,  *)
(* without a lock.  Models are independent of each other; an SDL is the    *)
(* version of the model it was made from, and 0 is no entry.               *)
(***************************************************************************)
EXTENDS Naturals, Sequences

CONSTANTS
  Nodes,        \* instances ("pods"); each has one consumer thread
  Requests,     \* HTTP requests about the model
  MaxVersion,   \* bound: versions of the model
  FetchMayFail  \* whether the model service and the stream may fail

ASSUME ModelAssumption ==
  /\ Nodes \cap Requests = {}
  /\ MaxVersion \in Nat \ {0}
  /\ FetchMayFail \in BOOLEAN

VARIABLES
  version,     \* the version the model service has
  announced,   \* the refreshes on the stream: the version each was made at
  taken,       \* taken[n]: how many of them node n's consumer has received
  services,    \* services[n]: version of the executable service, or 0
  schemas,     \* schemas[n]: version of the SDL text, or 0
  at,          \* at[r]: the node that serves request r
  kind,        \* kind[r]: POST, GET, or GET with refresh=true
  pc,          \* pc[a]: where a request's thread or a node's consumer is
  sdl,         \* sdl[a]: the SDL in its hands
  answer,      \* answer[r]: how r was answered
  seen,        \* history: seen[r] is the version when r arrived
  crossed      \* history: crossed[n], two fillers were at work at once, or the
               \* consumer's fill failed

vars == <<version, announced, taken, services, schemas, at, kind, pc, sdl,
          answer, seen, crossed>>

-----------------------------------------------------------------------------
Actors == Requests \cup Nodes

Where(a) == IF a \in Nodes THEN a ELSE at[a]

Kinds == {"post", "get", "refresh"}

(* "service" and "schema": about to put into that map. "hung": the thread  *)
(* is over and the suspended response was never resumed.                   *)
PCs == {"idle", "announce", "fetch", "service", "schema", "cached", "execute",
        "done", "hung"}

Answers == {"none", "error", "sdl", "empty", "data"}

TypeOK ==
  /\ version \in Nat
  /\ announced \in Seq(Nat)
  /\ taken \in [Nodes -> Nat]
  /\ services \in [Nodes -> Nat]
  /\ schemas \in [Nodes -> Nat]
  /\ at \in [Requests -> Nodes]
  /\ kind \in [Requests -> Kinds]
  /\ pc \in [Actors -> PCs]
  /\ sdl \in [Actors -> Nat]
  /\ answer \in [Requests -> Answers]
  /\ seen \in [Requests -> Nat]
  /\ crossed \in [Nodes -> BOOLEAN]

Init ==
  /\ version = 1
  /\ announced = <<>>
  /\ taken = [n \in Nodes |-> 0]
  /\ services = [n \in Nodes |-> 0]
  /\ schemas = [n \in Nodes |-> 0]
  /\ at \in [Requests -> Nodes]
  /\ kind \in [Requests -> Kinds]
  /\ pc = [a \in Actors |-> "idle"]
  /\ sdl = [a \in Actors |-> 0]
  /\ answer = [r \in Requests |-> "none"]
  /\ seen = [r \in Requests |-> 0]
  /\ crossed = [n \in Nodes |-> FALSE]

Goto(a, from, to) == pc[a] = from /\ pc' = [pc EXCEPT ![a] = to]

(* A request ends with an answer; a consumer goes back to the stream. *)
End(a, from, how) ==
  IF a \in Nodes
  THEN Goto(a, from, "idle") /\ UNCHANGED answer
  ELSE Goto(a, from, "done") /\ answer' = [answer EXCEPT ![a] = how]

-----------------------------------------------------------------------------
(* The model service *)

ModelChanges ==
  /\ version < MaxVersion
  /\ version' = version + 1
  /\ UNCHANGED <<announced, taken, services, schemas, at, kind, pc, sdl, answer,
                 seen, crossed>>

-----------------------------------------------------------------------------
(* doPost and doGet *)

(* Fault: a refresh of a model the node knows is answered from the map. *)
ArriveCached(r) ==
  /\ \/ /\ services[at[r]] = 0 /\ kind[r] = "refresh"
        /\ Goto(r, "idle", "announce")
     \/ services[at[r]] = 0 /\ kind[r] # "refresh" /\ Goto(r, "idle", "fetch")
     \/ services[at[r]] # 0 /\ kind[r] # "post" /\ Goto(r, "idle", "cached")
     \/ services[at[r]] # 0 /\ kind[r] = "post" /\ Goto(r, "idle", "execute")
  /\ seen' = [seen EXCEPT ![r] = version]
  /\ UNCHANGED <<version, announced, taken, services, schemas, at, kind, sdl,
                 answer, crossed>>

(* refresh first, then hasService: fetch, or use what is there. *)
Arrive(r) ==
  /\ \/ kind[r] = "refresh" /\ Goto(r, "idle", "announce")
     \/ /\ kind[r] # "refresh" /\ services[at[r]] = 0
        /\ Goto(r, "idle", "fetch")
     \/ /\ kind[r] = "get" /\ services[at[r]] # 0
        /\ Goto(r, "idle", "cached")
     \/ /\ kind[r] = "post" /\ services[at[r]] # 0
        /\ Goto(r, "idle", "execute")
  /\ seen' = [seen EXCEPT ![r] = version]
  /\ UNCHANGED <<version, announced, taken, services, schemas, at, kind, sdl,
                 answer, crossed>>

(* appStateClient.update: the other nodes learn of the refresh. *)
Announce(r) ==
  /\ Goto(r, "announce", "fetch")
  /\ announced' = Append(announced, version)
  /\ UNCHANGED <<version, taken, services, schemas, at, kind, sdl, answer, seen,
                 crossed>>

ReadCached(r) ==
  /\ End(r, "cached", IF schemas[at[r]] = 0 THEN "empty" ELSE "sdl")
  /\ sdl' = [sdl EXCEPT ![r] = schemas[at[r]]]
  /\ UNCHANGED <<version, announced, taken, services, schemas, at, kind, seen,
                 crossed>>

(* The query is run by the service the map holds now. *)
Execute(r) ==
  /\ \/ services[at[r]] # 0 /\ End(r, "execute", "data")
     \/ End(r, "execute", "error")
  /\ sdl' = [sdl EXCEPT ![r] = services[at[r]]]
  /\ UNCHANGED <<version, announced, taken, services, schemas, at, kind, seen,
                 crossed>>

(* The result has GraphQL errors: setErrorResponseForGraphQLErrors builds  *)
(* a response and drops it, the suspended one is never resumed.            *)
ExecuteWithErrors(r) ==
  /\ services[at[r]] # 0
  /\ Goto(r, "execute", "hung")
  /\ UNCHANGED <<version, announced, taken, services, schemas, at, kind, sdl,
                 answer, seen, crossed>>

-----------------------------------------------------------------------------
(* getSDLByModel and createService, for requests and consumers *)

Filling(n) == {a \in Actors : Where(a) = n /\ pc[a] \in {"service", "schema"}}

Fetch(a) ==
  /\ Goto(a, "fetch", "service")
  /\ sdl' = [sdl EXCEPT ![a] = version]
  /\ crossed' = [crossed EXCEPT ![Where(a)] = @ \/ Filling(Where(a)) # {}]
  /\ UNCHANGED <<version, announced, taken, services, schemas, at, kind, answer,
                 seen>>

(* Fault: the exception is logged and the request is left alone. *)
FailsSilently(a) ==
  /\ FetchMayFail
  /\ \E from \in {"announce", "fetch"} :
       Goto(a, from, IF a \in Nodes THEN "idle" ELSE "done")
  /\ crossed' = [crossed EXCEPT ![Where(a)] = @ \/ a \in Nodes]
  /\ UNCHANGED <<version, announced, taken, services, schemas, at, kind, sdl,
                 answer, seen>>

(* The announcement cannot be made, the model service fails, or the SDL    *)
(* does not parse: an error answer, or a log line of a consumer that goes  *)
(* on to the next event.                                                   *)
Fails(a) ==
  /\ FetchMayFail
  /\ \E from \in {"announce", "fetch"} : End(a, from, "error")
  /\ crossed' = [crossed EXCEPT ![Where(a)] = @ \/ a \in Nodes]
  /\ UNCHANGED <<version, announced, taken, services, schemas, at, kind, sdl,
                 seen>>

PutService(a) ==
  /\ Goto(a, "service", "schema")
  /\ services' = [services EXCEPT ![Where(a)] = sdl[a]]
  /\ UNCHANGED <<version, announced, taken, schemas, at, kind, sdl, answer, seen,
                 crossed>>

(* Fault: the SDL text is kept for the GET requests that asked for it only. *)
PutSchemaForGet(a) ==
  /\ IF a \in Requests /\ kind[a] = "post"
     THEN Goto(a, "schema", "execute") /\ UNCHANGED <<answer, schemas>>
     ELSE /\ End(a, "schema", "sdl")
          /\ schemas' = [schemas EXCEPT ![Where(a)] = sdl[a]]
  /\ UNCHANGED <<version, announced, taken, services, at, kind, sdl, seen,
                 crossed>>

(* A POST goes on to execute, a GET answers with the SDL it fetched. *)
PutSchema(a) ==
  /\ schemas' = [schemas EXCEPT ![Where(a)] = sdl[a]]
  /\ IF a \in Requests /\ kind[a] = "post"
     THEN Goto(a, "schema", "execute") /\ UNCHANGED answer
     ELSE End(a, "schema", "sdl")
  /\ UNCHANGED <<version, announced, taken, services, at, kind, sdl, seen,
                 crossed>>

(* Fault: a node that has a service for the model ignores the refresh. *)
ConsumeUnknown(n) ==
  /\ taken[n] < Len(announced)
  /\ Goto(n, "idle", IF services[n] = 0 THEN "fetch" ELSE "idle")
  /\ taken' = [taken EXCEPT ![n] = @ + 1]
  /\ UNCHANGED <<version, announced, services, schemas, at, kind, sdl, answer,
                 seen, crossed>>

(* The subscription's thread runs processDmModel, one event at a time. *)
Consume(n) ==
  /\ taken[n] < Len(announced)
  /\ Goto(n, "idle", "fetch")
  /\ taken' = [taken EXCEPT ![n] = @ + 1]
  /\ UNCHANGED <<version, announced, services, schemas, at, kind, sdl, answer,
                 seen, crossed>>

-----------------------------------------------------------------------------
ActorStep(a) == Fetch(a) \/ Fails(a) \/ PutService(a) \/ PutSchema(a)

RequestStep(r) ==
  \/ Announce(r) \/ ReadCached(r) \/ Execute(r) \/ ExecuteWithErrors(r)
  \/ ActorStep(r)

Next ==
  \/ ModelChanges
  \/ \E r \in Requests : Arrive(r) \/ RequestStep(r)
  \/ \E n \in Nodes : Consume(n) \/ ActorStep(n)

Spec == Init /\ [][Next]_vars

(* A request that was accepted is served, and the consumers run.  Requests *)
(* need not arrive, and the model need not change.                         *)
Fairness ==
  /\ \A r \in Requests : WF_vars(RequestStep(r))
  /\ \A n \in Nodes : WF_vars(Consume(n) \/ ActorStep(n))

FairSpec == Spec /\ Fairness

-----------------------------------------------------------------------------
(* Properties *)

(* A refresh shows the model as it was when it was asked for, or newer,    *)
(* whatever the other requests and the consumer do to the maps meanwhile.  *)
RefreshIsCurrent ==
  \A r \in Requests :
    kind[r] = "refresh" /\ answer[r] = "sdl" => sdl[r] >= seen[r]

(* A service without its SDL text is seen only while a filler of that node *)
(* is between its two puts.                                                *)
SchemaFollowsService ==
  \A n \in Nodes :
    services[n] # 0 /\ schemas[n] = 0
    => \E a \in Actors : Where(a) = n /\ pc[a] = "schema"

(* Node n has consumed every announcement and nobody is filling its maps. *)
Settled(n) ==
  /\ taken[n] = Len(announced) /\ pc[n] = "idle" /\ Filling(n) = {}

(* Only an overlap of two fillers, or a failed fill of the consumer, which *)
(* goes on to the next event, can leave a node behind a refresh or with a  *)
(* service and an SDL text of different versions.                          *)
NodeFollowsUnlessCrossed ==
  \A n \in Nodes :
    Settled(n) /\ ~crossed[n] =>
      /\ services[n] = schemas[n]
      /\ \A i \in 1..Len(announced) : announced[i] <= services[n]

(* Every accepted request is answered or ends with GraphQL errors. *)
EveryRequestEnds ==
  \A r \in Requests :
    pc[r] # "idle" ~> answer[r] # "none" \/ pc[r] = "hung"

=============================================================================
