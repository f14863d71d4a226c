------------------------------ MODULE Mutations ------------------------------
(***************************************************************************)
(* A GraphQL mutation, from its document to datacast and back.  Root       *)
(* fields of an accepted document are executed one after the other: each   *)
(* sets the query type in the context they share, collects the types of    *)
(* all objects in its input, checks that the user may write them and posts *)
(* (insert) or puts (upsert) the input to datacast.  A field that fails    *)
(* leaves an error and the next one is executed all the same.  A request   *)
(* with an error of any kind is never answered: GraphQLServlet builds its  *)
(* response and drops it.                                                  *)
(*                                                                         *)
(* datacast is external: it applies a request or refuses it, and its       *)
(* answer may be lost or unreadable.  Nothing is sent twice.               *)
(***************************************************************************)
EXTENDS FieldComplexity, Sequences

CONSTANTS
  Types,        \* object types of the model
  WritableSets  \* what users may write; {} also stands for no privileges

(* The types of the objects in an input, that of the root field and those  *)
(* nested in it.  {} is a malformed one: there is no input, or a map where *)
(* the schema has a scalar, and the traversal throws.                      *)
Inputs == SUBSET Types

Operations == {"insert", "upsert"}

Asked == [operation : Operations, types : Inputs]

Unread == [operation |-> "unset", types |-> {}]

ASSUME MutationsAssumption ==
  /\ WritableSets \subseteq SUBSET Types
  /\ \A d \in Documents : d.operation \in {"query", "mutation"}

VARIABLES
  writable,   \* types the user may write, fetched when the request arrived
  root,       \* the root field at work; 0 before the first
  at,         \* "next", "send", "datacast", "back"; "over" at the end
  asked,      \* asked[f]: what root field f asks for, and the types in its
              \* input; chosen when its turn comes
  queryType,  \* of the QueryContext, shared by all root fields
  received,   \* requests that reached datacast
  result,     \* result[f]: of root field f
  answer      \* of the HTTP request: "none", "data"

mutationVars == <<writable, root, at, asked, queryType, received, result,
                  answer>>
vars == <<complexityVars, mutationVars>>

Roots == {f \in Selected(doc) : doc.parent[f] = 0}

Requests == [field : Nat, method : {"POST", "PUT"}, types : Inputs, applied : BOOLEAN]

TypeOK ==
  /\ ComplexityTypeOK
  /\ writable \in SUBSET Types
  /\ root \in 0..doc.size
  /\ at \in {"next", "send", "datacast", "back", "over"}
  /\ asked \in [Roots -> Asked \cup {Unread}]
  /\ queryType \in Operations \cup {"unset"}
  /\ received \in Seq(Requests)
  /\ result \in [Roots -> {"none", "ok", "error"}]
  /\ answer \in {"none", "data"}

Init ==
  /\ ComplexityInit
  /\ writable \in WritableSets
  /\ root = 0 /\ at = "next"
  /\ asked = [f \in Roots |-> Unread]
  /\ queryType = "unset"
  /\ received = <<>>
  /\ result = [f \in Roots |-> "none"]
  /\ answer = "none"

-----------------------------------------------------------------------------
Check == ComplexityNext /\ UNCHANGED mutationVars

Executing(step) == verdict = "accepted" /\ doc.operation = "mutation" /\ at = step

(* Fault: the query type of the first root field is kept. *)
BeginKeepingType ==
  /\ Executing("next")
  /\ \E f \in Roots :
       /\ root < f /\ \A g \in Roots : g <= root \/ f <= g
       /\ root' = f
       /\ \E a \in Asked :
            /\ asked' = [asked EXCEPT ![f] = a]
            /\ queryType' = IF queryType = "unset" THEN a.operation ELSE queryType
  /\ at' = "send"
  /\ UNCHANGED <<complexityVars, writable, received, result, answer>>

(* The next root field, and the query type it stands for. *)
Begin ==
  /\ Executing("next")
  /\ \E f \in Roots :
       /\ root < f /\ \A g \in Roots : g <= root \/ f <= g
       /\ root' = f
       /\ \E a \in Asked : /\ asked' = [asked EXCEPT ![f] = a]
                           /\ queryType' = a.operation
  /\ at' = "send"
  /\ UNCHANGED <<complexityVars, writable, received, result, answer>>

(* The field ends with a result or an error, and the next one follows. *)
EndField(how) ==
  /\ result' = [result EXCEPT ![root] = how]
  /\ at' = "next"
  /\ UNCHANGED <<complexityVars, writable, root, asked, queryType, answer>>

Authorized == asked[root].types # {} /\ asked[root].types \subseteq writable

(* The traversal throws, or the user may not write every type it found.    *)
Reject ==
  /\ Executing("send") /\ ~Authorized
  /\ EndField("error")
  /\ UNCHANGED received

(* Fault: only the type of the root field is checked, not what is nested.  *)
SendChecksRoot ==
  /\ Executing("send")
  /\ asked[root].types \cap writable # {}
  /\ received' = Append(received,
       [field |-> root, method |-> IF queryType = "insert" THEN "POST" ELSE "PUT",
        types |-> asked[root].types, applied |-> FALSE])
  /\ at' = "datacast"
  /\ UNCHANGED <<complexityVars, writable, root, asked, queryType, result,
                 answer>>

(* isAuthorized(allMutationTypes), then upsert: the context's query type   *)
(* decides between POST and PUT.                                           *)
Send ==
  /\ Executing("send") /\ Authorized
  /\ received' = Append(received,
       [field |-> root, method |-> IF queryType = "insert" THEN "POST" ELSE "PUT",
        types |-> asked[root].types, applied |-> FALSE])
  /\ at' = "datacast"
  /\ UNCHANGED <<complexityVars, writable, root, asked, queryType, result,
                 answer>>

(* The connection fails before datacast has the request. *)
SendFails ==
  /\ Executing("send") /\ Authorized
  /\ EndField("error")
  /\ UNCHANGED received

(* datacast applies the request, or refuses it with another status than    *)
(* 200: only an applied one may come back as a result.                     *)
DatacastApplies ==
  /\ Executing("datacast")
  /\ received' = [received EXCEPT ![Len(received)].applied = TRUE]
  /\ at' = "back"
  /\ UNCHANGED <<complexityVars, writable, root, asked, queryType, result,
                 answer>>

DatacastRefuses ==
  /\ Executing("datacast")
  /\ EndField("error")
  /\ UNCHANGED received

(* Status 200 and a body that can be read. *)
AnswerArrives ==
  /\ Executing("back")
  /\ EndField("ok")
  /\ UNCHANGED received

(* The answer is lost, late or unreadable; the request is not repeated.    *)
AnswerIsLost ==
  /\ Executing("back")
  /\ EndField("error")
  /\ UNCHANGED received

(* Fault: the partial result is sent back although there are errors. *)
AnswerAlways ==
  /\ Executing("next") /\ \A f \in Roots : f <= root
  /\ at' = "over"
  /\ answer' = "data"
  /\ UNCHANGED <<complexityVars, writable, root, asked, queryType, received,
                 result>>

(* doPost resumes the response only when there is no error. *)
Answer ==
  /\ Executing("next") /\ \A f \in Roots : f <= root
  /\ at' = "over"
  /\ answer' = IF \A f \in Roots : result[f] = "ok" THEN "data" ELSE answer
  /\ UNCHANGED <<complexityVars, writable, root, asked, queryType, received,
                 result>>

Next ==
  \/ Check \/ Begin \/ Reject \/ Send \/ SendFails
  \/ DatacastApplies \/ DatacastRefuses \/ AnswerArrives \/ AnswerIsLost \/ Answer

Spec == Init /\ [][Next]_vars

-----------------------------------------------------------------------------
(* Properties *)

(* What datacast receives was asked for: it comes from an accepted         *)
(* document, in the order of its root fields and at most once for each,    *)
(* with the method of that field, and holds no type the user may not       *)
(* write.                                                                  *)
ReceivedAsAsked ==
  /\ received # <<>> => verdict = "accepted"
  /\ \A i \in 1..Len(received) :
       /\ received[i].field \in Roots
       /\ received[i].types = asked[received[i].field].types
       /\ received[i].types \subseteq writable
       /\ received[i].method = IF asked[received[i].field].operation = "insert"
                               THEN "POST" ELSE "PUT"
       /\ \A k \in 1..(i - 1) : received[k].field < received[i].field

(* A request is answered only when every root field was applied.  A field  *)
(* has a result only when datacast applied it; but an error says nothing   *)
(* of the effect, and the fields after it may have been applied.           *)
AnswerTellsEffect ==
  /\ \A f \in Roots : answer = "data" \/ result[f] = "ok" =>
       \E i \in 1..Len(received) : received[i].field = f /\ received[i].applied

=============================================================================
