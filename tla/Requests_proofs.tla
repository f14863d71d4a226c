--------------------------- MODULE Requests_proofs ---------------------------
(* Proofs about requests: what a mutation may write, within which limits a *)
(* document is accepted (Mutations), and which rows a filter set may show  *)
(* (FilterSets), for any documents, types, privileges, limits and sets.    *)
EXTENDS Mutations, FilterSets, InductionFacts

-----------------------------------------------------------------------------
(* The parts of the inductive invariant *)

(* Nothing happens before the document is accepted. *)
Waiting ==
  verdict # "accepted" =>
    /\ root = 0 /\ at = "next" /\ received = <<>> /\ answer = "none"
    /\ \A f \in Roots : result[f] = "none"

(* While a root field is at work the shared query type is its own, and the *)
(* request sent last is its own once it is sent.                           *)
AtWork ==
  /\ at \in {"send", "datacast", "back"} =>
       /\ root \in Roots /\ asked[root] \in Asked
       /\ queryType = asked[root].operation
  /\ at \in {"datacast", "back"} =>
       received # <<>> /\ received[Len(received)].field = root
  /\ at = "back" => received[Len(received)].applied

(* What was received belongs to root fields that have had their turn.      *)
Past ==
  \A i \in 1..Len(received) :
    IF at = "send" THEN received[i].field < root ELSE received[i].field <= root

Applied(f) == \E i \in 1..Len(received) : received[i].field = f /\ received[i].applied

-----------------------------------------------------------------------------
(* The document's numbers are what the assumption says. *)
LEMMA DocumentFacts ==
  ASSUME doc \in Documents
  PROVE  /\ doc.size \in Nat \ {0}
         /\ doc.parent \in [Selected(doc) -> 0..doc.size]
         /\ Roots \subseteq 1..doc.size
         /\ \A f \in Selected(doc) : doc.parent[f] = 0 \/ doc.parent[f] > f
  BY DocumentsAssumption DEF Roots, Selected

(* A complexity is an integer. *)
LEMMA ComplexityType ==
  ASSUME ComplexityTypeOK, NEW f \in Selected(doc), NEW c \in Int
  PROVE  Complexity(f, c) \in Int
<1>1. doc.kind \in [Selected(doc) -> FieldKinds] /\ JoinWeight \in Int /\ SchemaBonus \in Int
  BY DocumentsAssumption DEF ComplexityTypeOK
<1>2. doc.kind[f] \in FieldKinds
  BY <1>1
<1>3. QED
  BY <1>1, <1>2 DEF Complexity, FieldKinds

(* The visit keeps its types and the document. *)
LEMMA CheckKeepsTypes ==
  ASSUME ComplexityTypeOK, ComplexityNext
  PROVE  ComplexityTypeOK' /\ doc' = doc
<1> USE DEF ComplexityTypeOK
<1>1. CASE Visit
  <2>1. visited + 1 \in Selected(doc) /\ visited' = visited + 1 /\ doc' = doc
    BY <1>1, DocumentFacts DEF Visit, Selected
  <2>2. valuesByParent[visited + 1] \in Int /\ doc.parent[visited + 1] \in 0..doc.size
    BY <2>1, DocumentFacts DEF Selected
  <2>3. Complexity(visited + 1, valuesByParent[visited + 1]) \in Int
    BY <2>1, <2>2, ComplexityType
  <2>4. valuesByParent' \in [0..doc.size -> Int]
    BY <1>1, <2>2, <2>3 DEF Visit
  <2>5. verdict' \in Verdicts
    BY <1>1 DEF Visit, Verdicts
  <2>6. QED
    BY <2>1, <2>4, <2>5 DEF Selected
<1>2. CASE Total
  BY <1>2 DEF Total, Verdicts
<1>3. QED
  BY <1>1, <1>2 DEF ComplexityNext

(* A request that Send makes. *)
LEMMA RequestType ==
  ASSUME TypeOK, root \in Roots
  PROVE  [field |-> root, method |-> IF queryType = "insert" THEN "POST" ELSE "PUT",
          types |-> asked[root].types, applied |-> FALSE] \in Requests
<1>1. asked[root] \in Asked \cup {Unread}
  BY DEF TypeOK
<1>2. asked[root].types \in Inputs
  BY <1>1 DEF Asked, Unread, Inputs
<1>3. root \in Nat
  BY DocumentFacts DEF TypeOK, ComplexityTypeOK
<1>4. QED
  BY <1>2, <1>3 DEF Requests

(* Fields and their steps keep the types. *)
THEOREM TypeCorrect == Spec => [](TypeOK /\ AtWork)
<1>1. Init => TypeOK /\ AtWork
  <2> SUFFICES ASSUME Init
               PROVE  TypeOK /\ AtWork
    OBVIOUS
  <2>1. doc.size \in Nat
    BY DocumentsAssumption DEF Init, ComplexityInit
  <2>2. ComplexityTypeOK
    BY <2>1 DEF Init, ComplexityInit, ComplexityTypeOK, Verdicts
  <2>3. QED
    BY <2>1, <2>2, MutationsAssumption DEF Init, TypeOK, AtWork, Unread
<1>2. TypeOK /\ AtWork /\ [Next]_vars => TypeOK' /\ AtWork'
  <2> SUFFICES ASSUME TypeOK, AtWork, [Next]_vars
               PROVE  TypeOK' /\ AtWork'
    OBVIOUS
  <2>0. doc \in Documents /\ ComplexityTypeOK
    BY DEF TypeOK, ComplexityTypeOK
  <2> DEFINE Same == UNCHANGED complexityVars
  <2>a. ASSUME Same
        PROVE  ComplexityTypeOK' /\ doc' = doc /\ Roots' = Roots
    BY <2>0, <2>a DEF complexityVars, ComplexityTypeOK, Roots, Selected
  <2>1. CASE Check
    <3>1. ComplexityTypeOK' /\ doc' = doc /\ Roots' = Roots
      BY <2>0, <2>1, CheckKeepsTypes DEF Check, Roots, Selected
    <3>2. UNCHANGED mutationVars
      BY <2>1 DEF Check
    <3>3. QED
      BY <3>1, <3>2 DEF TypeOK, AtWork, mutationVars
  <2>2. CASE Begin
    <3>1. PICK f \in Roots, a \in Asked :
            /\ root' = f /\ at' = "send" /\ asked' = [asked EXCEPT ![f] = a]
            /\ queryType' = a.operation
      BY <2>2 DEF Begin
    <3>2. Same /\ UNCHANGED <<writable, received, result, answer>>
      BY <2>2 DEF Begin
    <3>3. f \in 0..doc.size
      BY <2>0, DocumentFacts
    <3>4. asked' \in [Roots -> Asked \cup {Unread}] /\ asked'[f] = a
      BY <3>1 DEF TypeOK
    <3>5. a.operation \in Operations
      BY DEF Asked
    <3>6. QED
      BY <2>a, <3>1, <3>2, <3>3, <3>4, <3>5 DEF TypeOK, AtWork
  <2>3. ASSUME NEW how \in {"ok", "error"}, EndField(how), UNCHANGED received
        PROVE  TypeOK' /\ AtWork'
    BY <2>a, <2>3 DEF EndField, TypeOK, AtWork
  <2>4. CASE Send
    <3>1. /\ Same /\ UNCHANGED <<writable, root, asked, queryType, result, answer>>
          /\ at = "send" /\ at' = "datacast"
      BY <2>4 DEF Send, Executing
    <3> DEFINE r == [field |-> root, method |-> IF queryType = "insert" THEN "POST" ELSE "PUT",
                     types |-> asked[root].types, applied |-> FALSE]
    <3>2. root \in Roots /\ received' = Append(received, r)
      BY <2>4, <3>1 DEF Send, AtWork
    <3>3. r \in Requests /\ r.field = root
      BY <3>2, RequestType
    <3> HIDE DEF r
    <3>4. /\ received' \in Seq(Requests) /\ received' # <<>>
          /\ received'[Len(received')] = r
      BY <3>2, <3>3 DEF TypeOK
    <3>5. QED
      BY <2>a, <3>1, <3>3, <3>4 DEF TypeOK, AtWork
  <2>5. CASE DatacastApplies
    <3>1. /\ Same /\ UNCHANGED <<writable, root, asked, queryType, result, answer>>
          /\ at = "datacast" /\ at' = "back"
          /\ received' = [received EXCEPT ![Len(received)].applied = TRUE]
      BY <2>5 DEF DatacastApplies, Executing
    <3>2. /\ received \in Seq(Requests) /\ received # <<>> /\ Len(received) \in 1..Len(received)
          /\ received[Len(received)] \in Requests /\ received[Len(received)].field = root
      BY <3>1 DEF TypeOK, AtWork
    <3>3. /\ received' \in Seq(Requests) /\ Len(received') = Len(received)
          /\ received'[Len(received)] = [received[Len(received)] EXCEPT !.applied = TRUE]
      <4>1. [received[Len(received)] EXCEPT !.applied = TRUE] \in Requests
        BY <3>2 DEF Requests
      <4>2. received' = [received EXCEPT ![Len(received)] =
                           [received[Len(received)] EXCEPT !.applied = TRUE]]
        BY <3>1
      <4> DEFINE r == [received[Len(received)] EXCEPT !.applied = TRUE]
      <4> HIDE DEF r
      <4>3. r \in Requests /\ received' = [received EXCEPT ![Len(received)] = r]
        BY <4>1, <4>2 DEF r
      <4>4. /\ received' \in Seq(Requests) /\ Len(received') = Len(received)
            /\ received'[Len(received)] = r
        BY <3>2, <4>3
      <4>5. QED
        BY <4>4 DEF r
    <3>4. /\ received' # <<>> /\ received'[Len(received)].applied
          /\ received'[Len(received)].field = root
      BY <3>2, <3>3 DEF Requests
    <3>5. QED
      BY <2>a, <3>1, <3>3, <3>4 DEF TypeOK, AtWork
  <2>6. CASE Answer
    <3>1. /\ Same /\ UNCHANGED <<writable, root, asked, queryType, received, result>>
          /\ at' = "over" /\ answer' \in {answer, "data"}
      BY <2>6 DEF Answer
    <3>2. QED
      BY <2>a, <3>1 DEF TypeOK, AtWork
  <2>7. CASE UNCHANGED vars
    BY <2>a, <2>7 DEF vars, mutationVars, TypeOK, AtWork
  <2>8. QED
    BY <2>1, <2>2, <2>3, <2>4, <2>5, <2>6, <2>7
       DEF Next, Reject, SendFails, DatacastRefuses, AnswerArrives, AnswerIsLost
<1>3. QED
  BY <1>1, <1>2, PTL DEF Spec

(* Send adds a request of the field at work, and changes no other.         *)
LEMMA SendAppends ==
  ASSUME TypeOK, AtWork, Send
  PROVE  /\ UNCHANGED <<complexityVars, writable, root, asked, queryType, result, answer>>
         /\ at = "send" /\ at' = "datacast" /\ verdict = "accepted" /\ root \in Roots
         /\ Len(received) \in Nat /\ Len(received') = Len(received) + 1
         /\ \A i \in 1..Len(received) : received'[i] = received[i]
         /\ received'[Len(received)+1].field = root
         /\ received'[Len(received)+1].types = asked[root].types
         /\ asked[root].types \subseteq writable
         /\ received'[Len(received)+1].method = IF queryType = "insert" THEN "POST" ELSE "PUT"
<1> DEFINE r == [field |-> root, method |-> IF queryType = "insert" THEN "POST" ELSE "PUT",
                 types |-> asked[root].types, applied |-> FALSE]
<1>1. /\ UNCHANGED <<complexityVars, writable, root, asked, queryType, result, answer>>
      /\ at = "send" /\ at' = "datacast" /\ verdict = "accepted"
      /\ asked[root].types \subseteq writable /\ received' = Append(received, r)
  BY DEF Send, Executing, Authorized
<1>2. root \in Roots
  BY <1>1 DEF AtWork
<1>3. /\ r \in Requests /\ r.field = root /\ r.types = asked[root].types
      /\ r.method = IF queryType = "insert" THEN "POST" ELSE "PUT"
  BY <1>2, RequestType
<1> HIDE DEF r
<1>4. received \in Seq(Requests)
  BY DEF TypeOK
<1>5. /\ Len(received) \in Nat /\ Len(received') = Len(received) + 1
      /\ \A i \in 1..Len(received) : received'[i] = received[i]
      /\ received'[Len(received)+1] = r
  BY <1>1, <1>3, <1>4
<1>6. QED
  BY <1>1, <1>2, <1>3, <1>5

(* datacast marks the last request as applied and leaves the rest alone.   *)
LEMMA AppliesLast ==
  ASSUME TypeOK, AtWork, DatacastApplies
  PROVE  /\ UNCHANGED <<complexityVars, writable, root, asked, queryType, result, answer>>
         /\ at = "datacast" /\ at' = "back" /\ verdict = "accepted" /\ root \in Roots
         /\ Len(received) \in Nat /\ Len(received') = Len(received)
         /\ \A i \in 1..Len(received) :
              /\ received'[i].field = received[i].field
              /\ received'[i].types = received[i].types
              /\ received'[i].method = received[i].method
              /\ received[i].applied => received'[i].applied
<1>1. /\ UNCHANGED <<complexityVars, writable, root, asked, queryType, result, answer>>
      /\ at = "datacast" /\ at' = "back" /\ verdict = "accepted"
      /\ received' = [received EXCEPT ![Len(received)] =
                         [received[Len(received)] EXCEPT !.applied = TRUE]]
  BY DEF DatacastApplies, Executing
<1>2. received \in Seq(Requests) /\ Len(received) \in 1..Len(received) /\ root \in Roots
  BY <1>1 DEF TypeOK, AtWork
<1> DEFINE r == [received[Len(received)] EXCEPT !.applied = TRUE]
<1>3. /\ r.field = received[Len(received)].field /\ r.types = received[Len(received)].types
      /\ r.method = received[Len(received)].method /\ r.applied
  <2>1. received[Len(received)] \in Requests
    BY <1>2
  <2>2. QED
    BY <2>1 DEF Requests
<1>4. received' = [received EXCEPT ![Len(received)] = r]
  BY <1>1
<1> HIDE DEF r
<1>5. /\ Len(received) \in Nat /\ Len(received') = Len(received)
      /\ \A i \in 1..Len(received) :
           received'[i] = IF i = Len(received) THEN r ELSE received[i]
  BY <1>2, <1>4
<1>6. QED
  BY <1>1, <1>2, <1>3, <1>5

(* The steps that leave what datacast has received as it is.               *)
LEMMA OtherSteps ==
  ASSUME TypeOK, [Next]_vars, ~Send, ~DatacastApplies
  PROVE  /\ UNCHANGED <<received, writable, doc, Roots>>
         /\ \/ UNCHANGED mutationVars /\ Check
            \/ UNCHANGED verdict /\ verdict = "accepted"
            \/ UNCHANGED vars
<1>1. CASE Check
  <2>1. doc' = doc
    BY <1>1, CheckKeepsTypes DEF Check, TypeOK
  <2>2. QED
    BY <1>1, <2>1 DEF Check, mutationVars, Roots, Selected
<1>2. CASE Begin \/ Reject \/ SendFails \/ DatacastRefuses \/ AnswerArrives \/ AnswerIsLost \/ Answer
  <2>1. UNCHANGED <<received, writable, complexityVars>> /\ verdict = "accepted"
    BY <1>2 DEF Begin, Reject, SendFails, DatacastRefuses, AnswerArrives, AnswerIsLost,
       Answer, EndField, Executing
  <2>2. QED
    BY <2>1 DEF complexityVars, Roots, Selected
<1>3. CASE UNCHANGED vars
  BY <1>3 DEF vars, mutationVars, complexityVars, Roots, Selected
<1>4. QED
  BY <1>1, <1>2, <1>3 DEF Next

(* Nothing is sent for a document that has not been accepted, and the      *)
(* fields have their turns in order.                                       *)
THEOREM TurnsInOrder == Spec => [](Waiting /\ Past)
<1>1. Init => Waiting /\ Past
  BY DEF Init, ComplexityInit, Waiting, Past
<1>2. TypeOK /\ AtWork /\ Waiting /\ Past /\ [Next]_vars => Waiting' /\ Past'
  <2> SUFFICES ASSUME TypeOK, AtWork, Waiting, Past, [Next]_vars
               PROVE  Waiting' /\ Past'
    OBVIOUS
  <2>0. /\ \A i \in 1..Len(received) : received[i].field \in Nat
        /\ root \in Int /\ Roots \subseteq Int
    <3>1. \A i \in 1..Len(received) : received[i] \in Requests
      BY DEF TypeOK
    <3>2. QED
      BY <3>1, DocumentFacts DEF TypeOK, ComplexityTypeOK, Requests
  <2>1. CASE Send
    BY <2>0, <2>1, SendAppends DEF Waiting, Past, complexityVars
  <2>2. CASE DatacastApplies
    BY <2>0, <2>2, AppliesLast DEF Waiting, Past, complexityVars
  <2>3. CASE ~Send /\ ~DatacastApplies
    <3>1. Waiting'
      <4>1. CASE UNCHANGED mutationVars /\ Check
        <5>1. verdict = "visiting"
          BY <4>1 DEF Check, ComplexityNext, Visit, Total
        <5>2. QED
          BY <2>3, <4>1, <5>1, OtherSteps DEF Waiting, mutationVars
      <4>2. CASE ~(UNCHANGED mutationVars /\ Check)
        BY <2>3, <4>2, OtherSteps DEF Waiting, vars, mutationVars, complexityVars
      <4>3. QED
        BY <4>1, <4>2
    <3>2. \/ root' = root /\ at # "send" /\ at' # "send"
          \/ root' = root /\ at = "send"
          \/ root < root' /\ at # "send"
          \/ root' = root /\ at' = at
      BY <2>3 DEF Next, Check, Begin, Reject, SendFails, DatacastRefuses, AnswerArrives,
         AnswerIsLost, Answer, EndField, Executing, vars, mutationVars
    <3>3. received' = received /\ root' \in Int
      <4>1. root' \in Int
        BY <2>0, <2>3 DEF Next, Check, Begin, Reject, SendFails, DatacastRefuses,
           AnswerArrives, AnswerIsLost, Answer, EndField, vars, mutationVars
      <4>2. QED
        BY <2>3, <4>1, OtherSteps
    <3>4. Past'
      BY <2>0, <3>2, <3>3 DEF Past
    <3>5. QED
      BY <3>1, <3>4
  <2>4. QED
    BY <2>1, <2>2, <2>3
<1>3. QED
  BY <1>1, <1>2, TypeCorrect, PTL DEF Spec

(* No request in received loses what was asked of its field.               *)
LEMMA AskedStays ==
  ASSUME TypeOK, AtWork, Past, [Next]_vars, NEW i \in 1..Len(received)
  PROVE  asked'[received[i].field] = asked[received[i].field]
<1>1. CASE Begin
  <2>1. PICK f \in Roots, a \in Asked :
          root < f /\ at = "next" /\ asked' = [asked EXCEPT ![f] = a]
    BY <1>1 DEF Begin, Executing
  <2>2. received[i] \in Requests /\ root \in Int /\ f \in Int
    BY DocumentFacts DEF TypeOK, ComplexityTypeOK
  <2>3. received[i].field # f
    BY <2>1, <2>2 DEF Past, Requests
  <2>4. QED
    BY <2>1, <2>3 DEF TypeOK
<1>2. CASE ~Begin
  BY <1>2 DEF Next, Check, Reject, Send, SendFails, DatacastApplies, DatacastRefuses,
     AnswerArrives, AnswerIsLost, Answer, EndField, vars, mutationVars
<1>3. QED
  BY <1>1, <1>2

(* datacast receives what was asked for, once, in order and with leave.    *)
THEOREM OnlyWhatWasAsked == Spec => []ReceivedAsAsked
<1>1. Init => ReceivedAsAsked
  BY DEF Init, ReceivedAsAsked
<1>2. TypeOK /\ AtWork /\ Waiting /\ Waiting' /\ Past /\ ReceivedAsAsked /\ [Next]_vars
      => ReceivedAsAsked'
  <2> SUFFICES ASSUME TypeOK, AtWork, Waiting, Waiting', Past, ReceivedAsAsked, [Next]_vars
               PROVE  ReceivedAsAsked'
    OBVIOUS
  <2>0. received' # <<>> => verdict' = "accepted"
    BY DEF Waiting
  <2> DEFINE Fits(i) ==
        /\ received[i].field \in Roots
        /\ received[i].types = asked[received[i].field].types
        /\ received[i].types \subseteq writable
        /\ received[i].method = IF asked[received[i].field].operation = "insert"
                                THEN "POST" ELSE "PUT"
        /\ \A k \in 1..(i - 1) : received[k].field < received[i].field
  <2>1. \A i \in 1..Len(received) : Fits(i)
    BY DEF ReceivedAsAsked
  <2>2. CASE Send
    <3>1. \A i \in 1..Len(received) : Fits(i)'
      <4> SUFFICES ASSUME NEW i \in 1..Len(received)
                   PROVE  Fits(i)'
        OBVIOUS
      <4>1. /\ UNCHANGED <<writable, asked, Roots>> /\ received'[i] = received[i]
            /\ \A k \in 1..(i - 1) : received'[k] = received[k]
        BY <2>2, SendAppends DEF complexityVars, Roots, Selected
      <4>2. QED
        BY <2>1, <4>1
    <3>2. ASSUME NEW i \in Nat, i = Len(received) + 1
          PROVE  Fits(i)'
      <4>1. UNCHANGED <<writable, asked, Roots, root>>
        BY <2>2, SendAppends DEF complexityVars, Roots, Selected
      <4>2. queryType = asked[root].operation
        BY <2>2, SendAppends DEF AtWork
      <4>3. \A k \in 1..Len(received) : received'[k].field < root
        BY <2>2, SendAppends DEF Past
      <4>4. QED
        BY <2>2, <3>2, <4>1, <4>2, <4>3, SendAppends
    <3>3. \A i \in 1..Len(received') : Fits(i)'
      <4> SUFFICES ASSUME NEW i \in 1..Len(received')
                   PROVE  Fits(i)'
        OBVIOUS
      <4>1. i \in Nat /\ (i \in 1..Len(received) \/ i = Len(received) + 1)
        BY <2>2, SendAppends
      <4>2. QED
        BY <3>1, <3>2, <4>1
    <3>4. QED
      BY <2>0, <3>3 DEF ReceivedAsAsked
  <2>3. CASE DatacastApplies
    <3>1. \A i \in 1..Len(received') : Fits(i)'
      <4> SUFFICES ASSUME NEW i \in 1..Len(received)
                   PROVE  Fits(i)'
        BY <2>3, AppliesLast
      <4>1. /\ UNCHANGED <<writable, asked, Roots>>
            /\ received'[i].field = received[i].field
            /\ received'[i].types = received[i].types
            /\ received'[i].method = received[i].method
            /\ \A k \in 1..(i - 1) : received'[k].field = received[k].field
        BY <2>3, AppliesLast DEF complexityVars, Roots, Selected
      <4>2. QED
        BY <2>1, <4>1
    <3>2. QED
      BY <2>0, <3>1 DEF ReceivedAsAsked
  <2>4. CASE ~Send /\ ~DatacastApplies
    <3>1. \A i \in 1..Len(received') : Fits(i)'
      <4> SUFFICES ASSUME NEW i \in 1..Len(received)
                   PROVE  Fits(i)'
        BY <2>4, OtherSteps
      <4>1. /\ UNCHANGED <<writable, received, Roots>>
            /\ asked'[received[i].field] = asked[received[i].field]
        BY <2>4, OtherSteps, AskedStays
      <4>2. QED
        BY <2>1, <4>1
    <3>2. QED
      BY <2>0, <3>1 DEF ReceivedAsAsked
  <2>5. QED
    BY <2>2, <2>3, <2>4
<1>3. QED
  BY <1>1, <1>2, TypeCorrect, TurnsInOrder, PTL DEF Spec

(* An answer, and every result in it, stands for what datacast has applied. *)
THEOREM ResultsAreEffects == Spec => []AnswerTellsEffect
<1> DEFINE Told == \A f \in Roots : answer = "data" \/ result[f] = "ok" => Applied(f)
<1>1. Init => AnswerTellsEffect
  BY DEF Init, AnswerTellsEffect
<1>2. TypeOK /\ AtWork /\ AnswerTellsEffect /\ [Next]_vars => AnswerTellsEffect'
  <2> SUFFICES ASSUME TypeOK, AtWork, Told, [Next]_vars
               PROVE  Told'
    BY DEF AnswerTellsEffect, Applied
  <2>1. Roots' = Roots
    BY SendAppends, AppliesLast, OtherSteps DEF complexityVars, Roots, Selected
  <2>2. \A f : Applied(f) => Applied(f)'
    <3>1. CASE Send
      BY <3>1, SendAppends DEF Applied
    <3>2. CASE DatacastApplies
      BY <3>2, AppliesLast DEF Applied
    <3>3. CASE ~Send /\ ~DatacastApplies
      BY <3>3, OtherSteps DEF Applied
    <3>4. QED
      BY <3>1, <3>2, <3>3
  <2>3. CASE AnswerArrives
    <3>1. Applied(root)
      <4>1. /\ received # <<>> /\ received \in Seq(Requests)
            /\ received[Len(received)].field = root
            /\ received[Len(received)].applied
        BY <2>3 DEF AnswerArrives, Executing, AtWork, TypeOK
      <4>2. Len(received) \in 1..Len(received)
        <5>1. Len(received) \in Nat /\ Len(received) # 0
          BY <4>1
        <5>2. QED
          BY <5>1
      <4>3. QED
        BY <4>1, <4>2 DEF Applied
    <3>2. \A f \in Roots : f # root => result'[f] = result[f]
      BY <2>3 DEF AnswerArrives, EndField, TypeOK
    <3>3. answer' = answer
      BY <2>3 DEF AnswerArrives, EndField
    <3>4. QED
      BY <2>1, <2>2, <3>1, <3>2, <3>3
  <2>4. CASE Answer
    <3>1. /\ UNCHANGED result
          /\ answer' = "data" => answer = "data" \/ \A f \in Roots : result[f] = "ok"
      BY <2>4 DEF Answer
    <3>2. QED
      BY <2>1, <2>2, <3>1
  <2>5. CASE ~AnswerArrives /\ ~Answer
    <3>1. answer' = answer /\ \A f \in Roots : result'[f] = "ok" => result[f] = "ok"
      BY <2>5 DEF Next, Check, Begin, Reject, Send, SendFails, DatacastApplies,
         DatacastRefuses, AnswerIsLost, EndField, TypeOK, vars, mutationVars
    <3>2. QED
      BY <2>1, <2>2, <3>1
  <2>6. QED
    BY <2>3, <2>4, <2>5
<1>3. QED
  BY <1>1, <1>2, TypeCorrect, PTL DEF Spec

-----------------------------------------------------------------------------
(* The limits *)

(* The document of a request does not change, nor do its subtrees.         *)
LEMMA SubtreeStays ==
  ASSUME doc' = doc, NEW f
  PROVE  Subtree(f)' = Subtree(f)
  BY DEF Subtree, Selected

(* inside's equation has a solution: the least set that holds f and every  *)
(* field whose parent it holds.                                            *)
LEMMA InsideIs ==
  ASSUME doc \in Documents, NEW f
  PROVE  \E h : /\ h = [g \in Selected(doc) \cup {0} |-> g = f \/ (g # 0 /\ h[doc.parent[g]])]
                /\ Subtree(f) = {g \in Selected(doc) : h[g]}
<1> DEFINE D == Selected(doc) \cup {0}
           Closed(U) == \A g \in D : g = f \/ (g # 0 /\ doc.parent[g] \in U) => g \in U
           C == {g \in D : \A U \in SUBSET D : Closed(U) => g \in U}
           h == [g \in D |-> g \in C]
           Eq(k) == k = [g \in D |-> g = f \/ (g # 0 /\ k[doc.parent[g]])]
<1>1. \A g \in Selected(doc) : doc.parent[g] \in D
  BY DocumentsAssumption DEF Selected
<1>2. ASSUME NEW g \in D
      PROVE  g \in C <=> g = f \/ (g # 0 /\ doc.parent[g] \in C)
  <2>1. CASE g = f \/ (g # 0 /\ doc.parent[g] \in C)
    <3>1. ASSUME NEW U \in SUBSET D, Closed(U) PROVE g \in U
      BY <2>1, <3>1
    <3> QED BY <3>1, <2>1
  <2>2. ASSUME g \in C, g # f, g = 0 \/ doc.parent[g] \notin C PROVE FALSE
    <3>1. Closed(C \ {g})
      <4> SUFFICES ASSUME NEW k \in D, k = f \/ (k # 0 /\ doc.parent[k] \in C \ {g}) PROVE k \in C \ {g}
        OBVIOUS
      <4>1. k # g  BY <2>2
      <4>2. ASSUME NEW U \in SUBSET D, Closed(U) PROVE k \in U
        BY <4>2
      <4> QED BY <4>1, <4>2
    <3>2. C \ {g} \in SUBSET D  OBVIOUS
    <3> HIDE DEF Closed
    <3> QED BY <3>1, <3>2, <2>2
  <2> HIDE DEF C
  <2> QED BY <2>1, <2>2
<1>3. Eq(h)
  <2> HIDE DEF C
  <2>1. \A x \in D : h[x] = (x \in C)
    OBVIOUS
  <2> DEFINE e(g) == g = f \/ (g # 0 /\ h[doc.parent[g]])
  <2>2. ASSUME NEW g \in D
        PROVE  (g \in C) = e(g)
    <3>1. g # 0 => h[doc.parent[g]] = (doc.parent[g] \in C)
      BY <2>1, <1>1
    <3>2. e(g) <=> g = f \/ (g # 0 /\ doc.parent[g] \in C)
      BY <3>1
    <3>3. e(g) \in BOOLEAN
      OBVIOUS
    <3> QED BY <3>2, <3>3, <1>2
  <2>3. [g \in D |-> g \in C] = [g \in D |-> e(g)]
    <3> HIDE DEF e, h
    <3> QED BY <2>2, Zenon
  <2> QED BY <2>3
<1>4. \E k : Eq(k)
  <2> HIDE DEF h
  <2> QED BY <1>3
<1>5. Eq(CHOOSE k : Eq(k))
  <2> HIDE DEF Eq
  <2> QED BY <1>4
<1>6. Subtree(f) = {g \in Selected(doc) : (CHOOSE k : Eq(k))[g]}
  BY DEF Subtree
<1> HIDE DEF Eq
<1>7. \E k : Eq(k) /\ Subtree(f) = {g \in Selected(doc) : k[g]}
  BY <1>5, <1>6
<1> QED BY <1>7 DEF Eq
(* A field is in a subtree when it is its root or its parent is in it.     *)
LEMMA SubtreeRule ==
  ASSUME doc \in Documents, NEW f \in 0..doc.size, NEW g \in Selected(doc)
  PROVE  g \in Subtree(f) <=> g = f \/ doc.parent[g] = f \/ doc.parent[g] \in Subtree(f)
<1>1. PICK h : /\ h = [k \in Selected(doc) \cup {0} |-> k = f \/ (k # 0 /\ h[doc.parent[k]])]
               /\ Subtree(f) = {k \in Selected(doc) : h[k]}
  BY InsideIs
<1>2. doc.parent[g] \in Selected(doc) \cup {0} /\ 0 \notin Selected(doc)
  BY DocumentsAssumption DEF Selected
<1>3. h[g] <=> g = f \/ h[doc.parent[g]]
  BY <1>1, <1>2
<1>4. h[0] <=> f = 0
  BY <1>1
<1>5. doc.parent[g] # 0 => (h[doc.parent[g]] <=> doc.parent[g] \in Subtree(f))
  BY <1>1, <1>2
<1>6. doc.parent[g] # 0 /\ doc.parent[g] = f => h[doc.parent[g]]
  BY <1>1, <1>2
<1>7. g \in Subtree(f) <=> h[g]
  BY <1>1
<1>8. 0 \notin Subtree(f)
  BY <1>1, <1>2
<1> QED BY <1>3, <1>4, <1>5, <1>6, <1>7, <1>8

(* A subtree has selected fields only.                                     *)
LEMMA SubtreeSelected ==
  ASSUME NEW f PROVE Subtree(f) \subseteq Selected(doc)
  BY DEF Subtree

(* Induction from the last field to the first: what a field has when the   *)
(* field it is selected in has it, every field has.                        *)
LEMMA FromParents ==
  ASSUME doc \in Documents, NEW S \in SUBSET Selected(doc),
         \A g \in Selected(doc) : doc.parent[g] = 0 \/ doc.parent[g] \in S => g \in S
  PROVE  S = Selected(doc)
<1> DEFINE T == Selected(doc) \ S
<1> SUFFICES ASSUME T # {} PROVE FALSE
  OBVIOUS
<1>1. T \in SUBSET (0 .. doc.size) /\ doc.size \in Nat
  BY DocumentFacts DEF Selected
<1>2. PICK g \in T : \A k \in T : k <= g
  BY <1>1, Greatest
<1>3. doc.parent[g] # 0 /\ doc.parent[g] \notin S
  BY <1>2
<1>4. doc.parent[g] \in Selected(doc) /\ doc.parent[g] > g /\ g \in Nat
  BY <1>1, <1>3, DocumentFacts DEF Selected
<1>5. doc.parent[g] \in T
  BY <1>3, <1>4
<1>6. doc.parent[g] <= g
  BY <1>2, <1>5
<1> QED BY <1>4, <1>6, DocumentFacts DEF Selected

(* Fields are numbered as they are left: the root of a subtree has the     *)
(* highest number in it.                                                   *)
LEMMA SubtreeBelow ==
  ASSUME doc \in Documents, NEW f \in Selected(doc), NEW g \in Subtree(f)
  PROVE  g <= f
<1> DEFINE S == {k \in Selected(doc) : k \in Subtree(f) => k <= f}
<1>1. ASSUME NEW k \in Selected(doc), doc.parent[k] = 0 \/ doc.parent[k] \in S PROVE k \in S
  <2>1. k \in Nat /\ f \in Nat /\ f # 0 /\ f \in 0 .. doc.size
    BY DocumentFacts DEF Selected
  <2>2. doc.parent[k] = 0 \/ (doc.parent[k] > k /\ doc.parent[k] \in Nat)
    BY DocumentFacts DEF Selected
  <2>3. CASE doc.parent[k] = 0
    BY <2>1, <2>3, SubtreeRule, SubtreeSelected DEF Selected
  <2>4. CASE doc.parent[k] \in S
    <3>1. k \in Subtree(f) => k = f \/ doc.parent[k] = f \/ doc.parent[k] \in Subtree(f)
      BY <2>1, SubtreeRule
    <3>2. doc.parent[k] > k
      BY <2>2, <2>4 DEF Selected
    <3> QED BY <2>1, <2>2, <2>4, <3>1, <3>2
  <2> QED BY <1>1, <2>3, <2>4
<1>2. S = Selected(doc)
  <2> HIDE DEF S
  <2>1. S \in SUBSET Selected(doc)  BY DEF S
  <2> QED BY <1>1, <2>1, FromParents
<1> QED BY <1>2, SubtreeSelected

(* What is below a child is below its parent.                              *)
LEMMA SubtreeOfChild ==
  ASSUME doc \in Documents, NEW c \in Selected(doc)
  PROVE  Subtree(c) \subseteq Subtree(doc.parent[c])
<1> DEFINE p == doc.parent[c]
           S == {k \in Selected(doc) : k \in Subtree(c) => k \in Subtree(p)}
<1>0. p \in 0 .. doc.size /\ c \in 0 .. doc.size
  BY DocumentFacts DEF Selected
<1>1. ASSUME NEW k \in Selected(doc), doc.parent[k] = 0 \/ doc.parent[k] \in S PROVE k \in S
  <2>1. c \in Subtree(p) /\ 0 \notin Subtree(c) /\ c # 0
    BY <1>0, SubtreeRule, SubtreeSelected DEF Selected
  <2> QED BY <1>0, <1>1, <2>1, SubtreeRule
<1>2. S = Selected(doc)
  <2> HIDE DEF S
  <2>1. S \in SUBSET Selected(doc)  BY DEF S
  <2> QED BY <1>1, <2>1, FromParents
<1> QED BY <1>2, SubtreeSelected

(* What is below a field, is below one of its children or is one.          *)
LEMMA SubtreeSplit ==
  ASSUME doc \in Documents, NEW p \in 0 .. doc.size, NEW g \in Subtree(p), g # p
  PROVE  \E c \in Selected(doc) : doc.parent[c] = p /\ g \in Subtree(c)
<1> DEFINE Hangs(k) == \E c \in Selected(doc) : doc.parent[c] = p /\ k \in Subtree(c)
           S == {k \in Selected(doc) : k \in Subtree(p) /\ k # p => Hangs(k)}
<1>1. ASSUME NEW k \in Selected(doc), doc.parent[k] = 0 \/ doc.parent[k] \in S PROVE k \in S
  <2> SUFFICES ASSUME k \in Subtree(p), k # p PROVE Hangs(k)
    OBVIOUS
  <2>1. doc.parent[k] = p \/ doc.parent[k] \in Subtree(p)
    BY SubtreeRule
  <2>2. CASE doc.parent[k] = p
    <3>1. k \in Subtree(k)
      BY SubtreeRule, DocumentFacts DEF Selected
    <3> QED BY <2>2, <3>1
  <2>3. CASE doc.parent[k] \in Subtree(p) /\ doc.parent[k] # p
    <3>1. doc.parent[k] \in S
      BY <1>1, <2>3, SubtreeSelected DEF Selected
    <3>2. PICK c \in Selected(doc) : doc.parent[c] = p /\ doc.parent[k] \in Subtree(c)
      BY <2>3, <3>1
    <3>3. k \in Subtree(c)
      BY <3>2, SubtreeRule, DocumentFacts DEF Selected
    <3> QED BY <3>2, <3>3
  <2> QED BY <2>1, <2>2, <2>3
<1>2. S = Selected(doc)
  <2> HIDE DEF S
  <2>1. S \in SUBSET Selected(doc)  BY DEF S
  <2> QED BY <1>1, <2>1, FromParents
<1> QED BY <1>2, SubtreeSelected

(* Two children of a field have nothing in common.                         *)
LEMMA SiblingsApart ==
  ASSUME doc \in Documents, NEW c \in Selected(doc), NEW e \in Selected(doc),
         doc.parent[c] = doc.parent[e], c # e
  PROVE  Subtree(c) \cap Subtree(e) = {}
<1> DEFINE S == {k \in Selected(doc) : ~(k \in Subtree(c) /\ k \in Subtree(e))}
<1>0. c \in 0 .. doc.size /\ e \in 0 .. doc.size /\ c # 0 /\ e # 0
  BY DocumentFacts DEF Selected
<1>1. ASSUME NEW a \in {c, e}, NEW b \in {c, e}
      PROVE  doc.parent[a] # b /\ doc.parent[a] \notin Subtree(b)
  <2>1. doc.parent[a] = doc.parent[b] /\ b \in Selected(doc) /\ b \in Nat /\ doc.parent[b] \in Nat
    BY DocumentFacts DEF Selected
  <2>2. doc.parent[b] = 0 \/ doc.parent[b] > b
    BY DocumentFacts
  <2>3. b # 0 /\ 0 \notin Subtree(b)
    BY SubtreeSelected, <1>0 DEF Selected
  <2>4. doc.parent[b] \in Subtree(b) => doc.parent[b] <= b
    BY <2>1, SubtreeBelow
  <2> QED BY <2>1, <2>2, <2>3, <2>4
<1>2. ASSUME NEW k \in Selected(doc), doc.parent[k] = 0 \/ doc.parent[k] \in S PROVE k \in S
  <2> SUFFICES ASSUME k \in Subtree(c), k \in Subtree(e) PROVE FALSE
    OBVIOUS
  <2>1. k # c /\ k # e
    BY <1>0, <1>1, SubtreeRule
  <2>2. (doc.parent[k] = c \/ doc.parent[k] \in Subtree(c)) /\ (doc.parent[k] = e \/ doc.parent[k] \in Subtree(e))
    BY <1>0, <2>1, SubtreeRule
  <2>3. c \in Subtree(c) /\ e \in Subtree(e)
    BY <1>0, SubtreeRule
  <2>4. doc.parent[k] \in Subtree(c) /\ doc.parent[k] \in Subtree(e)
    BY <2>2, <2>3
  <2>5. doc.parent[k] # 0
    BY <2>4, SubtreeSelected DEF Selected
  <2> QED BY <1>2, <2>4, <2>5
<1>3. S = Selected(doc)
  <2> HIDE DEF S
  <2>1. S \in SUBSET Selected(doc)  BY DEF S
  <2> QED BY <1>2, <2>1, FromParents
<1> QED BY <1>3, SubtreeSelected
-----------------------------------------------------------------------------
(* The weight of a set of fields: what Weight says of a subtree.           *)
OfKind(U, k) == Cardinality({g \in U : doc.kind[g] = k})

WeightOf(U) ==
  OfKind(U, "join") * JoinWeight + OfKind(U, "field") - OfKind(U, "schema") * SchemaBonus

(* The fields below p, its first n children with all that is below them.   *)
Below(p, n) ==
  {g \in Selected(doc) : \E c \in 1 .. n : doc.parent[c] = p /\ g \in Subtree(c)}

(* What has been added up for a field is the weight of the children that   *)
(* were visited, with all below them; what was visited is within the       *)
(* limits, unless the visit was aborted because something is not.          *)
Limited ==
  /\ \A p \in 0 .. doc.size : valuesByParent[p] = WeightOf(Below(p, visited))
  /\ verdict # "aborted" =>
       \A f \in 1 .. visited : ~TooManyFields(Weight(f)) /\ ~TooManyJoins(Weight(f))
  /\ verdict = "accepted" =>
       visited = doc.size /\ Weight(0) <= MaxNormal + MaxJoin * JoinWeight
  /\ verdict = "aborted" => ~Allowed

(* Sets of selected fields are finite.                                     *)
LEMMA SelectedFinite ==
  ASSUME doc \in Documents, NEW U \in SUBSET Selected(doc)
  PROVE  IsFiniteSet(U)
<1>1. IsFiniteSet(Selected(doc))
  BY FS_Interval, DocumentFacts DEF Selected
<1> QED BY <1>1, FS_Subset

(* The fields of a kind in two sets that are apart are counted in each.    *)
LEMMA KindsAddUp ==
  ASSUME doc \in Documents, NEW U \in SUBSET Selected(doc), NEW V \in SUBSET Selected(doc),
         U \cap V = {}, NEW k
  PROVE  /\ OfKind(U, k) \in Nat /\ OfKind(V, k) \in Nat
         /\ OfKind(U \cup V, k) = OfKind(U, k) + OfKind(V, k)
<1> DEFINE A == {g \in U : doc.kind[g] = k}
           B == {g \in V : doc.kind[g] = k}
<1>1. A \in SUBSET Selected(doc) /\ B \in SUBSET Selected(doc) /\ A \cap B = {}
  OBVIOUS
<1>2. IsFiniteSet(A) /\ IsFiniteSet(B)
  BY <1>1, SelectedFinite
<1>3. {g \in U \cup V : doc.kind[g] = k} = A \cup B
  OBVIOUS
<1>4. /\ OfKind(U, k) = Cardinality(A) /\ OfKind(V, k) = Cardinality(B)
      /\ OfKind(U \cup V, k) = Cardinality(A \cup B)
  BY <1>3 DEF OfKind
<1> HIDE DEF A, B
<1>5. Cardinality(A \cup B) = Cardinality(A) + Cardinality(B) - Cardinality(A \cap B)
  BY <1>2, FS_Union
<1>6. Cardinality(A \cap B) = 0 /\ Cardinality(A) \in Nat /\ Cardinality(B) \in Nat
  BY <1>1, <1>2, FS_EmptySet, FS_CardinalityType
<1> QED BY <1>4, <1>5, <1>6

(* The arithmetic of a sum of products.                                    *)
LEMMA Distributes ==
  \A a, b, c \in Int : (a + b) * c = a * c + b * c /\ a * c \in Int /\ b * c \in Int
  OBVIOUS

(* So the weights of two such sets add up.                                 *)
LEMMA WeightsAddUp ==
  ASSUME doc \in Documents, NEW U \in SUBSET Selected(doc), NEW V \in SUBSET Selected(doc),
         U \cap V = {}
  PROVE  WeightOf(U) \in Int /\ WeightOf(U \cup V) = WeightOf(U) + WeightOf(V)
<1>1. ASSUME NEW k
      PROVE  /\ OfKind(U, k) \in Int /\ OfKind(V, k) \in Int
             /\ OfKind(U \cup V, k) = OfKind(U, k) + OfKind(V, k)
  <2>1. /\ OfKind(U, k) \in Nat /\ OfKind(V, k) \in Nat
        /\ OfKind(U \cup V, k) = OfKind(U, k) + OfKind(V, k)
    BY KindsAddUp
  <2> QED BY <2>1
<1>2. JoinWeight \in Int /\ SchemaBonus \in Int
  BY DocumentsAssumption
<1>3. ASSUME NEW k, NEW c \in Int
      PROVE  /\ OfKind(U \cup V, k) * c = OfKind(U, k) * c + OfKind(V, k) * c
             /\ OfKind(U, k) * c \in Int /\ OfKind(V, k) * c \in Int
  <2>1. OfKind(U, k) \in Int /\ OfKind(V, k) \in Int
    BY <1>1
  <2>2. /\ (OfKind(U, k) + OfKind(V, k)) * c = OfKind(U, k) * c + OfKind(V, k) * c
        /\ OfKind(U, k) * c \in Int /\ OfKind(V, k) * c \in Int
    BY <2>1, <1>3, Distributes
  <2> QED BY <1>1, <2>2
<1>4. \A a, b, c, d, e, f \in Int :
        a + c - e \in Int /\ (a + b) + (c + d) - (e + f) = (a + c - e) + (b + d - f)
  OBVIOUS
<1> DEFINE j(W) == OfKind(W, "join") * JoinWeight
           s(W) == OfKind(W, "schema") * SchemaBonus
<1>5. /\ j(U \cup V) = j(U) + j(V) /\ j(U) \in Int /\ j(V) \in Int
      /\ s(U \cup V) = s(U) + s(V) /\ s(U) \in Int /\ s(V) \in Int
  BY <1>2, <1>3
<1>6. \A W : WeightOf(W) = j(W) + OfKind(W, "field") - s(W)
  BY DEF WeightOf
<1> HIDE DEF j, s
<1>7. WeightOf(U \cup V) = (j(U) + j(V)) + (OfKind(U, "field") + OfKind(V, "field")) - (s(U) + s(V))
  BY <1>1, <1>5, <1>6
<1> QED BY <1>1, <1>4, <1>5, <1>6, <1>7

(* The empty set has no weight.                                            *)
LEMMA WeightOfNone ==
  ASSUME doc \in Documents
  PROVE  WeightOf({}) = 0
<1>1. \A k : OfKind({}, k) = 0
  <2> TAKE k
  <2>1. {g \in {} : doc.kind[g] = k} = {}
    OBVIOUS
  <2> QED BY <2>1, FS_EmptySet DEF OfKind
<1>2. JoinWeight \in Int /\ SchemaBonus \in Int
  BY DocumentsAssumption
<1> QED BY <1>1, <1>2 DEF WeightOf

(* calculate gives a field its own weight and that of what is below it.    *)
LEMMA WeightOfOne ==
  ASSUME doc \in Documents, NEW f \in Selected(doc), NEW c \in Int,
         doc.kind[f] = "typename" => c = 0
  PROVE  Complexity(f, c) = WeightOf({f}) + c
<1>1. ASSUME NEW k PROVE OfKind({f}, k) = IF doc.kind[f] = k THEN 1 ELSE 0
  <2>1. CASE doc.kind[f] = k
    <3>1. {g \in {f} : doc.kind[g] = k} = {f}  BY <2>1
    <3> QED BY <2>1, <3>1, FS_Singleton DEF OfKind
  <2>2. CASE doc.kind[f] # k
    <3>1. {g \in {f} : doc.kind[g] = k} = {}  BY <2>2
    <3> QED BY <2>2, <3>1, FS_EmptySet DEF OfKind
  <2> QED BY <2>1, <2>2
<1>2. JoinWeight \in Int /\ SchemaBonus \in Int /\ doc.kind[f] \in FieldKinds
  BY DocumentsAssumption DEF Selected
<1>3. \A a \in Int : 1 * a = a /\ 0 * a = 0
  OBVIOUS
<1>4. /\ OfKind({f}, "join") * JoinWeight = (IF doc.kind[f] = "join" THEN JoinWeight ELSE 0)
      /\ OfKind({f}, "schema") * SchemaBonus = (IF doc.kind[f] = "schema" THEN SchemaBonus ELSE 0)
      /\ OfKind({f}, "field") = (IF doc.kind[f] = "field" THEN 1 ELSE 0)
  BY <1>1, <1>2, <1>3
<1>5. WeightOf({f}) = (IF doc.kind[f] = "join" THEN JoinWeight ELSE 0)
                      + (IF doc.kind[f] = "field" THEN 1 ELSE 0)
                      - (IF doc.kind[f] = "schema" THEN SchemaBonus ELSE 0)
  BY <1>4 DEF WeightOf
<1> QED BY <1>2, <1>5 DEF Complexity, FieldKinds

(* Weight is the weight of the subtree.                                    *)
LEMMA WeightIs == ASSUME NEW f PROVE Weight(f) = WeightOf(Subtree(f))
  BY DEF Weight, WeightOf, Count, OfKind

(* Children come before their parent: when f is visited, all that is below *)
(* it has been.                                                            *)
LEMMA SubtreeIsBelow ==
  ASSUME doc \in Documents, NEW f \in Selected(doc)
  PROVE  /\ Subtree(f) = {f} \cup Below(f, f - 1)
         /\ f \notin Below(f, f - 1)
         /\ doc.kind[f] = "typename" => Below(f, f - 1) = {}
<1>0. f \in Nat \ {0} /\ f \in 0 .. doc.size /\ doc.size \in Nat /\ Selected(doc) = 1 .. doc.size
  BY DocumentFacts DEF Selected
<1>1. ASSUME NEW c \in Selected(doc), doc.parent[c] = f
      PROVE  c \in 1 .. (f - 1) /\ doc.kind[f] # "typename"
  BY <1>0, <1>1, DocumentsAssumption DEF Selected
<1>2. f \in Subtree(f)
  BY <1>0, SubtreeRule
<1>3. ASSUME NEW g \in Subtree(f), g # f PROVE g \in Below(f, f - 1)
  <2>1. PICK c \in Selected(doc) : doc.parent[c] = f /\ g \in Subtree(c)
    BY <1>0, <1>3, SubtreeSplit
  <2> QED BY <2>1, <1>1, SubtreeSelected DEF Below
<1>4. ASSUME NEW g \in Below(f, f - 1) PROVE g \in Subtree(f) /\ g # f
  <2>1. PICK c \in 1 .. (f - 1) : doc.parent[c] = f /\ g \in Subtree(c)
    BY DEF Below
  <2>2. c \in Selected(doc) /\ g <= c /\ g \in Nat
    BY <1>0, <2>1, SubtreeBelow, SubtreeSelected
  <2> QED BY <1>0, <2>1, <2>2, SubtreeOfChild
<1>5. doc.kind[f] = "typename" => Below(f, f - 1) = {}
  <2>1. \A c \in 1 .. (f - 1) : c \in Selected(doc)
    BY <1>0
  <2> QED BY <1>1, <2>1 DEF Below
<1> QED BY <1>2, <1>3, <1>4, <1>5

(* The whole document is below its root, whose children are visited last.  *)
LEMMA AllBelowRoot ==
  ASSUME doc \in Documents
  PROVE  Subtree(0) = Selected(doc) /\ Below(0, doc.size) = Selected(doc)
<1>0. 0 \in 0 .. doc.size /\ doc.size \in Nat /\ Selected(doc) = 1 .. doc.size
  BY DocumentFacts DEF Selected
<1>1. Subtree(0) = Selected(doc)
  <2>1. \A g \in Selected(doc) : doc.parent[g] = 0 \/ doc.parent[g] \in Subtree(0) => g \in Subtree(0)
    BY <1>0, SubtreeRule
  <2> QED BY <2>1, SubtreeSelected, FromParents
<1>2. ASSUME NEW g \in Selected(doc) PROVE g \in Below(0, doc.size)
  <2>1. PICK c \in Selected(doc) : doc.parent[c] = 0 /\ g \in Subtree(c)
    <3>1. g \in Subtree(0) /\ g # 0
      BY <1>0, <1>1
    <3> QED BY <1>0, <3>1, SubtreeSplit
  <2> QED BY <1>0, <2>1 DEF Below
<1> QED BY <1>1, <1>2 DEF Below

(* A visit completes its parent's part of the sum by one child's subtree.  *)
LEMMA BelowGrows ==
  ASSUME doc \in Documents, NEW f \in Selected(doc), NEW p \in 0 .. doc.size
  PROVE  /\ Below(p, f) = IF doc.parent[f] = p THEN Below(p, f - 1) \cup Subtree(f)
                          ELSE Below(p, f - 1)
         /\ doc.parent[f] = p => Below(p, f - 1) \cap Subtree(f) = {}
<1>1. /\ f \in Nat \ {0} /\ 1 .. f = (1 .. (f - 1)) \cup {f}
      /\ \A c \in 1 .. (f - 1) : c \in Selected(doc) /\ c # f
  BY DocumentFacts DEF Selected
<1>2. ASSUME doc.parent[f] = p, NEW g \in Below(p, f - 1) PROVE g \notin Subtree(f)
  <2>1. PICK c \in 1 .. (f - 1) : doc.parent[c] = p /\ g \in Subtree(c)
    BY DEF Below
  <2> QED BY <1>1, <1>2, <2>1, SiblingsApart
<1>3. Below(p, f) = IF doc.parent[f] = p THEN Below(p, f - 1) \cup Subtree(f) ELSE Below(p, f - 1)
  BY <1>1, SubtreeSelected DEF Below
<1> QED BY <1>2, <1>3

(* No field's weight, and not the sum of the root fields', hides joins.    *)
LEMMA JoinsWithin ==
  ASSUME doc \in Documents, MaxNormal < JoinWeight, Count(0, "schema") = 0,
         Weight(0) <= MaxNormal + MaxJoin * JoinWeight
  PROVE  Count(0, "join") <= MaxJoin
<1>1. Count(0, "join") \in Nat /\ Count(0, "field") \in Nat
  <2>1. Subtree(0) \in SUBSET Selected(doc) /\ {} \in SUBSET Selected(doc) /\ Subtree(0) \cap {} = {}
    BY SubtreeSelected
  <2>2. OfKind(Subtree(0), "join") \in Nat /\ OfKind(Subtree(0), "field") \in Nat
    BY <2>1, KindsAddUp
  <2> QED BY <2>2 DEF Count, OfKind
<1>2. MaxNormal \in Nat /\ JoinWeight \in Nat \ {0} /\ MaxJoin \in Nat /\ SchemaBonus \in Nat
  BY DocumentsAssumption
<1>3. Weight(0) = Count(0, "join") * JoinWeight + Count(0, "field")
  BY <1>1, <1>2 DEF Weight
<1> DEFINE J == Count(0, "join")
           F == Count(0, "field")
<1> HIDE DEF J, F
<1>4. \A j, m, w, n, x \in Nat : j * w + x <= n + m * w /\ n < w /\ j > m => FALSE
  <2> SUFFICES ASSUME NEW j \in Nat, NEW m \in Nat, NEW w \in Nat, NEW n \in Nat, NEW x \in Nat,
                      j * w + x <= n + m * w, n < w, j > m
               PROVE  FALSE
    OBVIOUS
  <2>1. j - (m + 1) \in Nat
    OBVIOUS
  <2>2. (j - (m + 1)) * w \in Nat
    BY <2>1
  <2>3. (j - (m + 1)) * w = j * w - m * w - w /\ j * w \in Nat /\ m * w \in Nat
    OBVIOUS
  <2> QED BY <2>2, <2>3
<1> QED BY <1>1, <1>2, <1>3, <1>4

(* What is said of a document stays said while it is the document.         *)
LEMMA DocumentStays ==
  ASSUME doc' = doc
  PROVE  /\ \A U : WeightOf(U)' = WeightOf(U)
         /\ \A p, n : Below(p, n)' = Below(p, n)
         /\ \A g : /\ Weight(g)' = Weight(g)
                   /\ TooManyFields(Weight(g))' <=> TooManyFields(Weight(g))
                   /\ TooManyJoins(Weight(g))' <=> TooManyJoins(Weight(g))
         /\ Allowed' <=> Allowed
<1>1. \A U : WeightOf(U)' = WeightOf(U)
  BY DEF WeightOf, OfKind
<1>2. \A f : Subtree(f)' = Subtree(f)
  BY SubtreeStays
<1>3. \A p, n : Below(p, n)' = Below(p, n)
  BY <1>2 DEF Below, Selected
<1>4. \A g : Weight(g)' = Weight(g)
  <2>1. \A g, k : Count(g, k)' = Count(g, k)
    BY <1>2 DEF Count
  <2> QED BY <2>1 DEF Weight
<1>5. \A g : /\ TooManyFields(Weight(g))' <=> TooManyFields(Weight(g))
             /\ TooManyJoins(Weight(g))' <=> TooManyJoins(Weight(g))
  BY <1>4 DEF TooManyFields, TooManyJoins
<1>6. Allowed' <=> Allowed
  BY <1>4, <1>5 DEF Allowed, Selected
<1> QED BY <1>1, <1>3, <1>4, <1>5, <1>6

(* A visit leaves sums and verdict as they should be.                      *)
LEMMA VisitKeepsLimited ==
  ASSUME ComplexityTypeOK, Limited, Visit
  PROVE  Limited'
<1> DEFINE f == visited + 1
           c == Complexity(f, valuesByParent[f])
<1>1. /\ doc \in Documents /\ doc' = doc /\ visited' = f /\ verdict = "visiting"
      /\ f \in Selected(doc) /\ f \in 0 .. doc.size /\ f - 1 = visited /\ visited \in Nat
  BY DocumentFacts DEF ComplexityTypeOK, Visit, Selected
<1>2. /\ verdict' = IF TooManyFields(c) \/ TooManyJoins(c) THEN "aborted" ELSE verdict
      /\ valuesByParent' = [valuesByParent EXCEPT ![doc.parent[f]] = @ + c]
  BY DEF Visit
<1>5. c = Weight(f)
  <2>1. valuesByParent[f] = WeightOf(Below(f, f - 1))
    BY <1>1 DEF Limited
  <2>2. {f} \in SUBSET Selected(doc) /\ Below(f, f - 1) \in SUBSET Selected(doc)
    BY <1>1 DEF Below
  <2>3. doc.kind[f] = "typename" => valuesByParent[f] = 0
    BY <1>1, <2>1, SubtreeIsBelow, WeightOfNone
  <2>4. valuesByParent[f] \in Int
    BY <1>1 DEF ComplexityTypeOK
  <2>5. c = WeightOf({f}) + valuesByParent[f]
    BY <1>1, <2>3, <2>4, WeightOfOne
  <2>6. WeightOf(Subtree(f)) = WeightOf({f}) + WeightOf(Below(f, f - 1))
    <3>1. {f} \cap Below(f, f - 1) = {} /\ Subtree(f) = {f} \cup Below(f, f - 1)
      BY <1>1, SubtreeIsBelow
    <3> QED BY <1>1, <2>2, <3>1, WeightsAddUp
  <2> QED BY <2>1, <2>5, <2>6, WeightIs
<1>6. ASSUME NEW p \in 0 .. doc.size
      PROVE  valuesByParent'[p] = WeightOf(Below(p, f))
  <2>1. valuesByParent[p] = WeightOf(Below(p, f - 1)) /\ valuesByParent \in [0 .. doc.size -> Int]
    BY <1>1 DEF Limited, ComplexityTypeOK
  <2>2. CASE doc.parent[f] = p
    <3>1. WeightOf(Below(p, f - 1) \cup Subtree(f)) = WeightOf(Below(p, f - 1)) + WeightOf(Subtree(f))
      <4>1. Below(p, f - 1) \in SUBSET Selected(doc) /\ Subtree(f) \in SUBSET Selected(doc)
        BY SubtreeSelected DEF Below
      <4>2. Below(p, f - 1) \cap Subtree(f) = {}
        BY <1>1, <2>2, BelowGrows
      <4> QED BY <1>1, <4>1, <4>2, WeightsAddUp
    <3>2. Below(p, f) = Below(p, f - 1) \cup Subtree(f)
      BY <1>1, <2>2, BelowGrows
    <3>3. valuesByParent'[p] = valuesByParent[p] + c
      BY <1>2, <2>1, <2>2
    <3> QED BY <1>5, <2>1, <3>1, <3>2, <3>3, WeightIs
  <2>3. CASE doc.parent[f] # p
    <3>1. valuesByParent'[p] = valuesByParent[p]
      BY <1>2, <2>1, <2>3
    <3> QED BY <1>1, <2>1, <2>3, <3>1, BelowGrows
  <2> QED BY <2>2, <2>3
<1>7. verdict' # "aborted" => ~TooManyFields(Weight(f)) /\ ~TooManyJoins(Weight(f))
  BY <1>2, <1>5
<1>8. verdict' = "aborted" => ~Allowed
  <2> SUFFICES ASSUME verdict' = "aborted" PROVE ~Allowed
    OBVIOUS
  <2>1. TooManyFields(Weight(f)) \/ TooManyJoins(Weight(f))
    BY <1>1, <1>2, <1>5
  <2>2. doc.kind[f] # "typename"
    <3> SUFFICES ASSUME doc.kind[f] = "typename" PROVE FALSE
      OBVIOUS
    <3>1. Weight(f) = 0
      BY <1>5 DEF Complexity
    <3>2. JoinWeight \in Nat \ {0} /\ MaxNormal \in Nat /\ MaxJoin \in Nat
      BY DocumentsAssumption
    <3>3. 0 % JoinWeight = 0 /\ 0 \div JoinWeight = 0
      BY <3>2
    <3> QED BY <2>1, <3>1, <3>2, <3>3 DEF TooManyFields, TooManyJoins
  <2> QED BY <1>1, <2>1, <2>2 DEF Allowed
<1>9. \A g \in 1 .. f : g = f \/ g \in 1 .. visited
  BY <1>1
<1>10. verdict' # "aborted" => verdict' = "visiting"
  BY <1>1, <1>2
<1> HIDE DEF f, c
<1> QED BY <1>1, <1>6, <1>7, <1>8, <1>9, <1>10, DocumentStays DEF Limited

(* The last sum is the document's, and decides on it.                      *)
LEMMA TotalKeepsLimited ==
  ASSUME ComplexityTypeOK, Limited, Total
  PROVE  Limited'
<1>1. /\ doc \in Documents /\ doc' = doc /\ visited' = visited /\ visited = doc.size
      /\ valuesByParent' = valuesByParent /\ verdict = "visiting"
      /\ verdict' = IF valuesByParent[0] > MaxNormal + MaxJoin * JoinWeight
                    THEN "aborted" ELSE "accepted"
  BY DEF ComplexityTypeOK, Total
<1>2. valuesByParent[0] = Weight(0)
  <2>1. 0 \in 0 .. doc.size
    BY <1>1, DocumentFacts
  <2> QED BY <1>1, <2>1, AllBelowRoot, WeightIs DEF Limited
<1>3. verdict' = "aborted" => ~Allowed
  <2>1. Weight(0) \in Int /\ MaxNormal + MaxJoin * JoinWeight \in Int
    <3>1. valuesByParent[0] \in Int
      BY <1>1, DocumentFacts DEF ComplexityTypeOK
    <3> QED BY <1>2, <3>1, DocumentsAssumption
  <2>2. Weight(0) > MaxNormal + MaxJoin * JoinWeight => ~(Weight(0) <= MaxNormal + MaxJoin * JoinWeight)
    BY <2>1
  <2> QED BY <1>1, <1>2, <2>2 DEF Allowed
<1>4. verdict' = "accepted" => Weight(0) <= MaxNormal + MaxJoin * JoinWeight
  <2>1. valuesByParent[0] \in Int /\ MaxNormal + MaxJoin * JoinWeight \in Int
    BY <1>1, DocumentFacts, DocumentsAssumption DEF ComplexityTypeOK
  <2> QED BY <1>1, <1>2, <2>1
<1> QED BY <1>1, <1>3, <1>4, DocumentStays DEF Limited

(* The visitor's sums and verdict, at every step of the request. *)
LEMMA LimitedAlways == Spec => []Limited
<1>1. Init => Limited
  <2> SUFFICES ASSUME Init PROVE Limited
    OBVIOUS
  <2>1. doc \in Documents /\ visited = 0 /\ verdict = "visiting" /\ valuesByParent = [p \in 0 .. doc.size |-> 0]
    BY DEF Init, ComplexityInit
  <2>2. \A p : Below(p, 0) = {}
    BY DEF Below
  <2> QED BY <2>1, <2>2, WeightOfNone DEF Limited
<1>2. TypeOK /\ Limited /\ [Next]_vars => Limited'
  <2> SUFFICES ASSUME TypeOK, Limited, [Next]_vars PROVE Limited'
    OBVIOUS
  <2>1. ComplexityTypeOK
    BY DEF TypeOK
  <2>2. CASE Check
    BY <2>1, <2>2, VisitKeepsLimited, TotalKeepsLimited DEF Check, ComplexityNext
  <2>3. CASE UNCHANGED complexityVars
    BY <2>3, DocumentStays DEF complexityVars, Limited
  <2>4. Check \/ UNCHANGED complexityVars
    BY DEF Next, vars, Begin, Reject, Send, SendFails, DatacastApplies, DatacastRefuses,
           AnswerArrives, AnswerIsLost, Answer, EndField
  <2> QED BY <2>2, <2>3, <2>4
<1> QED BY <1>1, <1>2, TypeCorrect, PTL DEF Spec

(* A document is executed exactly when every subtree and the whole are     *)
(* within the limits, and then joins no more often than MaxJoin, for every *)
(* shape and size of document, every limit and every weight of a join.     *)
THEOREM LimitsAreMeant == Spec => []WithinLimits
<1>1. TypeOK /\ Limited => WithinLimits
  <2> SUFFICES ASSUME TypeOK, Limited PROVE WithinLimits
    OBVIOUS
  <2>1. doc \in Documents /\ Selected(doc) = 1 .. doc.size
    BY DEF TypeOK, ComplexityTypeOK, Selected
  <2>2. verdict = "accepted" => Allowed
    BY <2>1 DEF Limited, Allowed
  <2>3. verdict = "accepted" /\ MaxNormal < JoinWeight /\ Count(0, "schema") = 0
        => Count(0, "join") <= MaxJoin
    BY <2>1, JoinsWithin DEF Limited
  <2> QED BY <2>2, <2>3 DEF WithinLimits, Limited
<1> QED BY <1>1, TypeCorrect, LimitedAlways, PTL

-----------------------------------------------------------------------------
(* The lemmas on sequences of sequences. *)

(* None, and one alone. *)
LEMMA FlattenNone == FlattenSeq(<<>>) = <<>>
  BY DEF FlattenSeq

LEMMA FlattenOne ==
  ASSUME NEW x PROVE FlattenSeq(<<x>>) = x
<1> DEFINE s == <<x>>
           IsIt(f) == f = [i \in 1 .. Len(s) |-> IF i = 1 THEN s[i] ELSE f[i - 1] \o s[i]]
           g == [i \in 1 .. 1 |-> x]
<1>1. Len(s) = 1 /\ s[1] = x
  OBVIOUS
<1>2. IsIt(g)
  <2>1. \A i \in 1 .. 1 : i = 1  OBVIOUS
  <2>2. [i \in 1 .. Len(s) |-> IF i = 1 THEN s[i] ELSE g[i - 1] \o s[i]] = [i \in 1 .. 1 |-> x]
    BY <2>1, <1>1
  <2> QED BY <2>2
<1>3. IsIt(CHOOSE f : IsIt(f))
  BY <1>2
<1>4. (CHOOSE f : IsIt(f))[1] = x
  BY <1>3, <1>1
<1> QED BY <1>4, <1>1 DEF FlattenSeq

(* What is flattened stays in the set of the members. *)
LEMMA FlattenType ==
  ASSUME NEW V, NEW s \in Seq(Seq(V)) PROVE FlattenSeq(s) \in Seq(V)
<1> DEFINE n == Len(s)
           IsIt(f) == f = [i \in 1 .. n |-> IF i = 1 THEN s[i] ELSE f[i - 1] \o s[i]]
           step == [p \in Nat \X Seq(V) |->
                      IF p[1] + 1 \in 1 .. n THEN p[2] \o s[p[1] + 1] ELSE <<>>]
<1>1. n \in Nat /\ \A i \in 1 .. n : s[i] \in Seq(V)
  OBVIOUS
<1>2. CASE n = 0
  <2>1. s = <<>>  BY <1>2
  <2>2. FlattenSeq(s) = <<>>  BY <2>1, FlattenNone
  <2> QED BY <2>2
<1>3. CASE n # 0
  <2>1. step \in [Nat \X Seq(V) -> Seq(V)] /\ <<>> \in Seq(V)
    BY <1>1
  <2>2. PICK f \in [Nat -> Seq(V)] : Iterates(f, <<>>, step)
    <3> HIDE DEF step
    <3> QED BY <2>1, Recursion
  <2> DEFINE g == [i \in 1 .. n |-> f[i]]
  <2>3. ASSUME NEW i \in 1 .. n PROVE f[i] = IF i = 1 THEN s[i] ELSE f[i - 1] \o s[i]
    <3>1. i - 1 \in Nat /\ (i - 1) + 1 = i
      BY <1>1
    <3>2. f[i] = step[<<i - 1, f[i - 1]>>]
      BY <3>1, <2>2 DEF Iterates
    <3>3. f[i] = f[i - 1] \o s[i]
      BY <3>1, <3>2
    <3>4. i = 1 => f[i - 1] = <<>>
      BY <2>2 DEF Iterates
    <3>5. <<>> \o s[i] = s[i]
      BY <1>1
    <3> QED BY <3>3, <3>4, <3>5
  <2>4. IsIt(g)
    <3>1. ASSUME NEW i \in 1 .. n
          PROVE g[i] = IF i = 1 THEN s[i] ELSE g[i - 1] \o s[i]
      <4>1. i # 1 => i - 1 \in 1 .. n
        BY <1>1
      <4>2. i # 1 => g[i - 1] = f[i - 1]
        BY <4>1
      <4> QED BY <2>3, <4>2
    <3> QED BY <3>1
  <2>5. IsIt(CHOOSE h : IsIt(h))
    BY <2>4
  <2> DEFINE h == CHOOSE h : IsIt(h)
  <2>6. IsIt(h)
    BY <2>5
  <2> HIDE DEF h
  <2> DEFINE T == {k \in Nat : k + 1 \in 1 .. n => h[k + 1] = f[k + 1]}
  <2>7. 0 \in T
    <3>1. 0 + 1 = 1 /\ 1 \in 1 .. n
      BY <1>1, <1>3
    <3>2. h[1] = s[1]
      BY <2>6, <3>1
    <3>3. f[1] = s[1]
      BY <2>3, <3>1
    <3> QED BY <3>1, <3>2, <3>3
  <2>8. ASSUME NEW k \in T PROVE k + 1 \in T
    <3>1. k \in Nat /\ k + 1 \in Nat
      OBVIOUS
    <3>2. ASSUME (k + 1) + 1 \in 1 .. n PROVE h[(k + 1) + 1] = f[(k + 1) + 1]
      <4>1. k + 1 \in 1 .. n /\ (k + 1) + 1 # 1 /\ ((k + 1) + 1) - 1 = k + 1
        BY <3>1, <3>2, <1>1
      <4>2. h[(k + 1) + 1] = h[k + 1] \o s[(k + 1) + 1]
        BY <2>6, <3>2, <4>1
      <4>3. f[(k + 1) + 1] = f[k + 1] \o s[(k + 1) + 1]
        BY <2>3, <3>2, <4>1
      <4> QED BY <4>1, <4>2, <4>3
    <3> QED BY <3>1, <3>2
  <2>9. T = Nat
    <3> HIDE DEF T
    <3>1. T \in SUBSET Nat  BY DEF T
    <3> QED BY <3>1, <2>7, <2>8, Induct
  <2>10. n - 1 \in Nat /\ (n - 1) + 1 = n /\ n \in 1 .. n
    BY <1>1, <1>3
  <2>11. n - 1 \in T
    <3> HIDE DEF T
    <3> QED BY <2>9, <2>10
  <2>12. h[n] = f[n] /\ f[n] \in Seq(V)
    BY <2>10, <2>11
  <2>13. FlattenSeq(s) = h[n]
    BY <1>3 DEF FlattenSeq, h
  <2> QED BY <2>12, <2>13
<1> QED BY <1>2, <1>3

-----------------------------------------------------------------------------
(* What the assumption says of one filter set. *)
LEMMA SetFacts ==
  ASSUME NEW fs \in Sets
  PROVE  /\ fs.has \subseteq Lists /\ fs.not \in BOOLEAN /\ fs.sent \in BOOLEAN
         /\ fs.filters \in Seq(Filters) /\ fs.filtersets \in Seq(Sets)
         /\ "filtersets" \notin fs.has => fs.filtersets = <<>>
         /\ fs.has = {"filtersets"} => fs.filtersets # <<>>
         /\ \A i \in DOMAIN fs.filters : /\ fs.filters[i].column \in Columns
                                         /\ fs.filters[i].not \in BOOLEAN
         /\ \A i \in DOMAIN fs.filtersets :
              /\ fs.filtersets[i] \in Sets /\ Depth[fs.filtersets[i]] < Depth[fs]
              /\ fs.sent => fs.filtersets[i].sent
<1>1. fs \in [has : SUBSET Lists, filters : Seq(Filters), filtersets : Seq(Sets),
              op : Operators \cup {"none"}, not : BOOLEAN, sent : BOOLEAN]
  BY FilterSetAssumption
<1>2. fs.filters \in Seq(Filters) /\ fs.filtersets \in Seq(Sets) /\ fs.has \in SUBSET Lists
      /\ fs.not \in BOOLEAN /\ fs.sent \in BOOLEAN
  BY <1>1
<1>3. \A i \in DOMAIN fs.filters : fs.filters[i] \in Filters
  BY <1>2
<1>4. \A i \in DOMAIN fs.filters : fs.filters[i].column \in Columns /\ fs.filters[i].not \in BOOLEAN
  BY <1>3 DEF Filters
<1>5. \A i \in DOMAIN fs.filtersets : fs.filtersets[i] \in Sets
  BY <1>2
<1> QED BY <1>2, <1>4, <1>5, FilterSetAssumption

(* What a set consists of. *)
LEMMA PartsAre ==
  ASSUME NEW fs \in Sets
  PROVE  /\ Len(Parts(fs)) \in Nat /\ DOMAIN Parts(fs) = 1 .. Len(Parts(fs))
         /\ "filters" \in fs.has => Parts(fs) = fs.filters
         /\ "filters" \notin fs.has => Parts(fs) = fs.filtersets
<1>1. fs.filters \in Seq(Filters) /\ fs.filtersets \in Seq(Sets)
  BY SetFacts
<1> QED BY <1>1 DEF Parts

(* Two functions that agree on the sets in a set. *)
AgreeIn(f, g, fs) == \A i \in DOMAIN fs.filtersets : f[fs.filtersets[i]] = g[fs.filtersets[i]]

(* One step of each of the definitions by recursion. *)
WithinStep(f, fs) == {fs} \cup UNION {f[fs.filtersets[i]] : i \in DOMAIN fs.filtersets}

Conditions(f, fs) ==
  [i \in DOMAIN Parts(fs) |->
     IF "filters" \in fs.has THEN Comparison(fs.filters[i])
     ELSE f[fs.filtersets[i]]]

ConditionStep(f, fs) ==
  IF Operator(fs) # "none" THEN Combo(fs, Conditions(f, fs))
  ELSE IF Conditions(f, fs) = <<>> THEN NoCondition ELSE Conditions(f, fs)[1]

Made(f, fs) ==
  [i \in DOMAIN Parts(fs) |->
     IF "filters" \in fs.has THEN <<fs.filters[i].column>>
     ELSE f[fs.filtersets[i]]]

BindsStep(f, fs) ==
  IF Operator(fs) # "none" THEN FlattenSeq(Made(f, fs))
  ELSE IF Made(f, fs) = <<>> THEN <<>> ELSE Made(f, fs)[1]

ValuesStep(f, fs) == FlattenSeq(Made(f, fs))

MeantStep(f, fs) ==
  [r \in Rows |-> Negated(fs.not, Combined(fs.op, {
    IF "filters" \in fs.has THEN Negated(fs.filters[i].not, r[fs.filters[i].column])
    ELSE f[fs.filtersets[i]][r] : i \in DOMAIN Parts(fs)}))]

(* Each step looks at the sets in the set and at no others. *)
LEMMA StepsAgree ==
  ASSUME NEW fs \in Sets, NEW f, NEW g, AgreeIn(f, g, fs)
  PROVE  /\ WithinStep(f, fs) = WithinStep(g, fs)
         /\ ConditionStep(f, fs) = ConditionStep(g, fs)
         /\ BindsStep(f, fs) = BindsStep(g, fs)
         /\ ValuesStep(f, fs) = ValuesStep(g, fs)
         /\ MeantStep(f, fs) = MeantStep(g, fs)
<1>1. \A i \in DOMAIN fs.filtersets : f[fs.filtersets[i]] = g[fs.filtersets[i]]
  BY DEF AgreeIn
<1>2. \A i \in DOMAIN Parts(fs) : "filters" \notin fs.has => i \in DOMAIN fs.filtersets
  BY PartsAre
<1>3. WithinStep(f, fs) = WithinStep(g, fs)
  BY <1>1 DEF WithinStep
<1>4. ConditionStep(f, fs) = ConditionStep(g, fs)
  <2>1. Conditions(f, fs) = Conditions(g, fs)
    BY <1>1, <1>2 DEF Conditions
  <2> QED BY <2>1 DEF ConditionStep
<1>5. Made(f, fs) = Made(g, fs)
  BY <1>1, <1>2 DEF Made
<1>6. BindsStep(f, fs) = BindsStep(g, fs) /\ ValuesStep(f, fs) = ValuesStep(g, fs)
  BY <1>5 DEF BindsStep, ValuesStep
<1>7. MeantStep(f, fs) = MeantStep(g, fs)
  <2> DEFINE P(h, r) == {
    IF "filters" \in fs.has THEN Negated(fs.filters[i].not, r[fs.filters[i].column])
    ELSE h[fs.filtersets[i]][r] : i \in DOMAIN Parts(fs)}
  <2>1. \A r \in Rows : P(f, r) = P(g, r)
    BY <1>1, <1>2
  <2> HIDE DEF P
  <2>2. [r \in Rows |-> Negated(fs.not, Combined(fs.op, P(f, r)))]
        = [r \in Rows |-> Negated(fs.not, Combined(fs.op, P(g, r)))]
    BY <2>1
  <2> QED BY <2>2 DEF MeantStep, P
<1> QED BY <1>3, <1>4, <1>5, <1>6, <1>7

(* A step that makes members of V, where there are some, has one function. *)
LEMMA SetRecursion ==
  ASSUME NEW V, NEW v \in V, NEW step \in Steps(Sets, V),
         \A fs \in Sets : \A f, g \in [Sets -> V] :
           AgreeIn(f, g, fs) => step[<<fs, f>>] = step[<<fs, g>>]
  PROVE  \E f \in [Sets -> V] : Solves(f, Sets, step)
<1>1. Depth \in [Sets -> Nat]
  BY FilterSetAssumption
<1>2. ASSUME NEW x \in Sets, NEW f \in [Sets -> V], NEW g \in [Sets -> V],
             \A y \in Sets : Depth[y] < Depth[x] => f[y] = g[y]
      PROVE  step[<<x, f>>] = step[<<x, g>>]
  <2>1. AgreeIn(f, g, x)
    BY <1>2, SetFacts DEF AgreeIn
  <2> QED BY <2>1
<1>3. LooksBelow(step, Sets, V, Depth)
  BY <1>2 DEF LooksBelow
<1> QED BY <1>1, <1>3, DepthRecursion

(* Two functions that the same step makes agree. *)
LEMMA SetUnique ==
  ASSUME NEW f, NEW g, \A fs \in Sets : AgreeIn(f, g, fs) => f[fs] = g[fs]
  PROVE  \A fs \in Sets : f[fs] = g[fs]
<1> DEFINE P == {fs \in Sets : f[fs] = g[fs]}
<1>1. Depth \in [Sets -> Nat]
  BY FilterSetAssumption
<1>2. ASSUME NEW x \in Sets, \A y \in Sets : Depth[y] < Depth[x] => y \in P PROVE x \in P
  <2>1. AgreeIn(f, g, x)
    BY <1>2, SetFacts DEF AgreeIn
  <2> QED BY <2>1
<1>3. \A x \in Sets : x \in P
  <2> HIDE DEF P
  <2> QED BY <1>1, <1>2, DepthInduct
<1> QED BY <1>3

-----------------------------------------------------------------------------
(* The three values of SQL. *)
LEMMA TruthFacts ==
  /\ \A v \in Truth : Not(v) \in Truth
  /\ \A b \in BOOLEAN, v \in Truth : Negated(b, v) \in Truth
  /\ \A v \in Truth : Negated(FALSE, v) = v
  BY DEF Truth, Not, Negated

LEMMA CombinedType ==
  ASSUME NEW op, NEW vs PROVE Combined(op, vs) \in Truth
<1> DEFINE weak == IF op = "OR" THEN "T" ELSE "F"
<1>1. weak \in Truth /\ "U" \in Truth
  BY DEF Truth
<1>2. Not(weak) \in Truth
  BY <1>1, TruthFacts
<1>3. Combined(op, vs) \in {weak, "U", Not(weak)}
  BY DEF Combined
<1> QED BY <1>1, <1>2, <1>3

(* One value alone is combined to itself, whatever the operator.           *)
LEMMA CombinedOne ==
  ASSUME NEW op, NEW v \in Truth PROVE Combined(op, {v}) = v
  BY DEF Combined, Truth, Not

(* AND and OR of values. *)
LEMMA CombinedTrue ==
  ASSUME NEW vs \in SUBSET Truth
  PROVE  /\ Combined("AND", vs) = "T" <=> vs \subseteq {"T"}
         /\ Combined("OR", vs) = "T" <=> "T" \in vs
  BY DEF Combined, Truth, Not

-----------------------------------------------------------------------------
(* The types of what is made, one step after the other. *)
Condit == [truth : [Rows -> Truth], columns : Seq(Columns)]

LEMMA ComparisonType ==
  ASSUME NEW c \in Columns, NEW b \in BOOLEAN, NEW f, f.column = c, f.not = b
  PROVE  Comparison(f) \in Condit
<1>1. \A r \in Rows : Negated(f.not, r[f.column]) \in Truth
  BY TruthFacts DEF Rows
<1>2. <<f.column>> \in Seq(Columns)
  OBVIOUS
<1>3. [r \in Rows |-> Negated(f.not, r[f.column])] \in [Rows -> Truth]
  BY <1>1
<1> QED BY <1>2, <1>3 DEF Comparison, Condit

LEMMA NoConditionType == NoCondition \in Condit
<1>1. [r \in Rows |-> "T"] \in [Rows -> Truth]
  BY DEF Truth
<1>2. <<>> \in Seq(Columns)
  OBVIOUS
<1> QED BY <1>1, <1>2 DEF NoCondition, Condit

LEMMA SeqMade ==
  ASSUME NEW n \in Nat, NEW V, NEW s, s \in [1 .. n -> V]
  PROVE  s \in Seq(V)
  OBVIOUS

LEMMA ConditionsType ==
  ASSUME NEW fs \in Sets, NEW f \in [Sets -> Condit]
  PROVE  /\ Conditions(f, fs) \in Seq(Condit) /\ Len(Conditions(f, fs)) = Len(Parts(fs))
         /\ DOMAIN Conditions(f, fs) = DOMAIN Parts(fs)
<1> DEFINE n == Len(Parts(fs))
<1>1. n \in Nat /\ DOMAIN Parts(fs) = 1 .. n
  BY PartsAre
<1>2. ASSUME NEW i \in DOMAIN Parts(fs)
      PROVE  (IF "filters" \in fs.has THEN Comparison(fs.filters[i])
              ELSE f[fs.filtersets[i]]) \in Condit
  <2>1. CASE "filters" \in fs.has
    BY <2>1, PartsAre, SetFacts, ComparisonType
  <2>2. CASE "filters" \notin fs.has
    <3>1. fs.filtersets[i] \in Sets
      BY <2>2, PartsAre, SetFacts
    <3> QED BY <2>2, <3>1
  <2> QED BY <2>1, <2>2
<1>3. Conditions(f, fs) \in [1 .. n -> Condit]
  BY <1>1, <1>2 DEF Conditions
<1> QED BY <1>1, <1>3, SeqMade

LEMMA ConditionType ==
  ASSUME NEW fs \in Sets, NEW f \in [Sets -> Condit]
  PROVE  ConditionStep(f, fs) \in Condit
<1> DEFINE parts == Conditions(f, fs)
           n == Len(Parts(fs))
<1>1. parts \in Seq(Condit) /\ n \in Nat /\ Len(parts) = n /\ DOMAIN parts = 1 .. n
  BY ConditionsType, PartsAre
<1> HIDE DEF parts
<1>2. \A i \in DOMAIN parts : parts[i] \in Condit
  BY <1>1
<1>3. Combo(fs, parts) \in Condit
  <2>1. \A r \in Rows : Negated(fs.not, Combined(fs.op, {parts[i].truth[r] : i \in DOMAIN parts})) \in Truth
    BY TruthFacts, CombinedType, SetFacts
  <2>2. [i \in DOMAIN parts |-> parts[i].columns] \in [1 .. n -> Seq(Columns)]
    BY <1>1, <1>2 DEF Condit
  <2>3. [i \in DOMAIN parts |-> parts[i].columns] \in Seq(Seq(Columns))
    BY <2>2, <1>1, SeqMade
  <2>4. FlattenSeq([i \in DOMAIN parts |-> parts[i].columns]) \in Seq(Columns)
    BY <2>3, FlattenType
  <2> QED BY <2>1, <2>4 DEF Combo, Condit
<1>4. parts # <<>> => parts[1] \in Condit
  BY <1>1
<1> QED BY <1>3, <1>4, NoConditionType DEF ConditionStep, parts

LEMMA MadeType ==
  ASSUME NEW fs \in Sets, NEW f \in [Sets -> Seq(Columns)]
  PROVE  /\ Made(f, fs) \in Seq(Seq(Columns)) /\ Len(Made(f, fs)) = Len(Parts(fs))
         /\ DOMAIN Made(f, fs) = DOMAIN Parts(fs)
<1> DEFINE n == Len(Parts(fs))
<1>1. n \in Nat /\ DOMAIN Parts(fs) = 1 .. n
  BY PartsAre
<1>2. ASSUME NEW i \in DOMAIN Parts(fs)
      PROVE  (IF "filters" \in fs.has THEN <<fs.filters[i].column>>
              ELSE f[fs.filtersets[i]]) \in Seq(Columns)
  <2>1. CASE "filters" \in fs.has
    <3>1. fs.filters[i].column \in Columns
      BY <2>1, PartsAre, SetFacts
    <3> QED BY <2>1, <3>1
  <2>2. CASE "filters" \notin fs.has
    <3>1. fs.filtersets[i] \in Sets
      BY <2>2, PartsAre, SetFacts
    <3> QED BY <2>2, <3>1
  <2> QED BY <2>1, <2>2
<1>3. Made(f, fs) \in [1 .. n -> Seq(Columns)] /\ DOMAIN Made(f, fs) = DOMAIN Parts(fs)
  BY <1>1, <1>2 DEF Made
<1> HIDE DEF n
<1>4. Made(f, fs) \in Seq(Seq(Columns))
  BY <1>1, <1>3, SeqMade
<1>5. Len(Made(f, fs)) = n
  BY <1>1, <1>3, <1>4
<1> QED BY <1>3, <1>4, <1>5 DEF n

LEMMA BindsType ==
  ASSUME NEW fs \in Sets, NEW f \in [Sets -> Seq(Columns)]
  PROVE  BindsStep(f, fs) \in Seq(Columns)
<1> DEFINE made == Made(f, fs)
<1>1. made \in Seq(Seq(Columns))
  BY MadeType
<1> HIDE DEF made
<1>2. FlattenSeq(made) \in Seq(Columns)
  BY <1>1, FlattenType
<1>3. made # <<>> => made[1] \in Seq(Columns)
  BY <1>1
<1>4. <<>> \in Seq(Columns)
  OBVIOUS
<1> QED BY <1>2, <1>3, <1>4 DEF BindsStep, made

LEMMA ValuesType ==
  ASSUME NEW fs \in Sets, NEW f \in [Sets -> Seq(Columns)]
  PROVE  ValuesStep(f, fs) \in Seq(Columns)
  BY MadeType, FlattenType DEF ValuesStep

LEMMA MeantType ==
  ASSUME NEW fs \in Sets, NEW f \in [Sets -> [Rows -> Truth]]
  PROVE  MeantStep(f, fs) \in [Rows -> Truth]
<1>1. \A op, vs : Negated(fs.not, Combined(op, vs)) \in Truth
  BY CombinedType, TruthFacts, SetFacts
<1> QED BY <1>1 DEF MeantStep

LEMMA WithinType ==
  ASSUME NEW fs \in Sets, NEW f \in [Sets -> SUBSET Sets]
  PROVE  WithinStep(f, fs) \in SUBSET Sets
<1>1. \A i \in DOMAIN fs.filtersets : f[fs.filtersets[i]] \in SUBSET Sets
  BY SetFacts
<1> QED BY <1>1 DEF WithinStep

-----------------------------------------------------------------------------
(* Each of the definitions by recursion is the function its step makes. *)
LEMMA WithinIs ==
  /\ Within \in [Sets -> SUBSET Sets]
  /\ \A fs \in Sets : Within[fs] = WithinStep(Within, fs)
<1> DEFINE V == SUBSET Sets
           step == [p \in Sets \X [Sets -> V] |-> WithinStep(p[2], p[1])]
<1>1. step \in Steps(Sets, V)
  BY WithinType DEF Steps
<1>2. \A fs \in Sets : \A f \in [Sets -> V] : step[<<fs, f>>] = WithinStep(f, fs)
  OBVIOUS
<1>3. {} \in V
  OBVIOUS
<1> HIDE DEF step, V
<1>4. PICK f \in [Sets -> V] : Solves(f, Sets, step)
  BY <1>1, <1>2, <1>3, StepsAgree, SetRecursion
<1>5. \A fs \in Sets : f[fs] = WithinStep(f, fs)
  BY <1>2, <1>4 DEF Solves
<1>6. f = [fs \in Sets |-> WithinStep(f, fs)]
  BY <1>5
<1>7. Within = [fs \in Sets |-> WithinStep(Within, fs)]
  BY <1>6 DEF Within, WithinStep
<1>8. \A fs \in Sets : Within[fs] = WithinStep(Within, fs)
  BY <1>7
<1>9. \A fs \in Sets : AgreeIn(Within, f, fs) => Within[fs] = f[fs]
  BY <1>5, <1>8, StepsAgree
<1>10. \A fs \in Sets : Within[fs] = f[fs]
  BY <1>9, SetUnique
<1>11. Within = f
  BY <1>7, <1>10
<1> QED BY <1>8, <1>11 DEF V

LEMMA ConditionIs ==
  /\ Condition \in [Sets -> Condit]
  /\ \A fs \in Sets : Condition[fs] = ConditionStep(Condition, fs)
<1> DEFINE V == Condit
           step == [p \in Sets \X [Sets -> V] |-> ConditionStep(p[2], p[1])]
<1>1. step \in Steps(Sets, V)
  BY ConditionType DEF Steps
<1>2. \A fs \in Sets : \A f \in [Sets -> V] : step[<<fs, f>>] = ConditionStep(f, fs)
  OBVIOUS
<1>3. NoCondition \in V
  BY NoConditionType
<1> HIDE DEF step, V
<1>4. PICK f \in [Sets -> V] : Solves(f, Sets, step)
  BY <1>1, <1>2, <1>3, StepsAgree, SetRecursion
<1>5. \A fs \in Sets : f[fs] = ConditionStep(f, fs)
  BY <1>2, <1>4 DEF Solves
<1>6. f = [fs \in Sets |-> ConditionStep(f, fs)]
  BY <1>5
<1>7. Condition = [fs \in Sets |-> ConditionStep(Condition, fs)]
  BY <1>6 DEF Condition, ConditionStep, Conditions
<1>8. \A fs \in Sets : Condition[fs] = ConditionStep(Condition, fs)
  BY <1>7
<1>9. \A fs \in Sets : AgreeIn(Condition, f, fs) => Condition[fs] = f[fs]
  BY <1>5, <1>8, StepsAgree
<1>10. \A fs \in Sets : Condition[fs] = f[fs]
  BY <1>9, SetUnique
<1>11. Condition = f
  BY <1>7, <1>10
<1> QED BY <1>8, <1>11 DEF V

LEMMA BindsIs ==
  /\ Binds \in [Sets -> Seq(Columns)]
  /\ \A fs \in Sets : Binds[fs] = BindsStep(Binds, fs)
<1> DEFINE V == Seq(Columns)
           step == [p \in Sets \X [Sets -> V] |-> BindsStep(p[2], p[1])]
<1>1. step \in Steps(Sets, V)
  BY BindsType DEF Steps
<1>2. \A fs \in Sets : \A f \in [Sets -> V] : step[<<fs, f>>] = BindsStep(f, fs)
  OBVIOUS
<1>3. <<>> \in V
  OBVIOUS
<1> HIDE DEF step, V
<1>4. PICK f \in [Sets -> V] : Solves(f, Sets, step)
  BY <1>1, <1>2, <1>3, StepsAgree, SetRecursion
<1>5. \A fs \in Sets : f[fs] = BindsStep(f, fs)
  BY <1>2, <1>4 DEF Solves
<1>6. f = [fs \in Sets |-> BindsStep(f, fs)]
  BY <1>5
<1>7. Binds = [fs \in Sets |-> BindsStep(Binds, fs)]
  BY <1>6 DEF Binds, BindsStep, Made
<1>8. \A fs \in Sets : Binds[fs] = BindsStep(Binds, fs)
  BY <1>7
<1>9. \A fs \in Sets : AgreeIn(Binds, f, fs) => Binds[fs] = f[fs]
  BY <1>5, <1>8, StepsAgree
<1>10. \A fs \in Sets : Binds[fs] = f[fs]
  BY <1>9, SetUnique
<1>11. Binds = f
  BY <1>7, <1>10
<1> QED BY <1>8, <1>11 DEF V

LEMMA ValuesIs ==
  /\ Values \in [Sets -> Seq(Columns)]
  /\ \A fs \in Sets : Values[fs] = ValuesStep(Values, fs)
<1> DEFINE V == Seq(Columns)
           step == [p \in Sets \X [Sets -> V] |-> ValuesStep(p[2], p[1])]
<1>1. step \in Steps(Sets, V)
  BY ValuesType DEF Steps
<1>2. \A fs \in Sets : \A f \in [Sets -> V] : step[<<fs, f>>] = ValuesStep(f, fs)
  OBVIOUS
<1>3. <<>> \in V
  OBVIOUS
<1> HIDE DEF step, V
<1>4. PICK f \in [Sets -> V] : Solves(f, Sets, step)
  BY <1>1, <1>2, <1>3, StepsAgree, SetRecursion
<1>5. \A fs \in Sets : f[fs] = ValuesStep(f, fs)
  BY <1>2, <1>4 DEF Solves
<1>6. f = [fs \in Sets |-> ValuesStep(f, fs)]
  BY <1>5
<1>7. Values = [fs \in Sets |-> ValuesStep(Values, fs)]
  BY <1>6 DEF Values, ValuesStep, Made
<1>8. \A fs \in Sets : Values[fs] = ValuesStep(Values, fs)
  BY <1>7
<1>9. \A fs \in Sets : AgreeIn(Values, f, fs) => Values[fs] = f[fs]
  BY <1>5, <1>8, StepsAgree
<1>10. \A fs \in Sets : Values[fs] = f[fs]
  BY <1>9, SetUnique
<1>11. Values = f
  BY <1>7, <1>10
<1> QED BY <1>8, <1>11 DEF V

LEMMA MeantIs ==
  /\ Meant \in [Sets -> [Rows -> Truth]]
  /\ \A fs \in Sets : Meant[fs] = MeantStep(Meant, fs)
<1> DEFINE V == [Rows -> Truth]
           step == [p \in Sets \X [Sets -> V] |-> MeantStep(p[2], p[1])]
<1>1. step \in Steps(Sets, V)
  BY MeantType DEF Steps
<1>2. \A fs \in Sets : \A f \in [Sets -> V] : step[<<fs, f>>] = MeantStep(f, fs)
  OBVIOUS
<1>3. [r \in Rows |-> "T"] \in V
  BY DEF Truth
<1> HIDE DEF step, V
<1>4. PICK f \in [Sets -> V] : Solves(f, Sets, step)
  BY <1>1, <1>2, <1>3, StepsAgree, SetRecursion
<1>5. \A fs \in Sets : f[fs] = MeantStep(f, fs)
  BY <1>2, <1>4 DEF Solves
<1>6. f = [fs \in Sets |-> MeantStep(f, fs)]
  BY <1>5
<1>7. Meant = [fs \in Sets |-> MeantStep(Meant, fs)]
  BY <1>6 DEF Meant, MeantStep
<1>8. \A fs \in Sets : Meant[fs] = MeantStep(Meant, fs)
  BY <1>7
<1>9. \A fs \in Sets : AgreeIn(Meant, f, fs) => Meant[fs] = f[fs]
  BY <1>5, <1>8, StepsAgree
<1>10. \A fs \in Sets : Meant[fs] = f[fs]
  BY <1>9, SetUnique
<1>11. Meant = f
  BY <1>7, <1>10
<1> QED BY <1>8, <1>11 DEF V

-----------------------------------------------------------------------------
(* What holds of every set within a set holds within each of its parts.    *)
LEMMA WithinFacts ==
  ASSUME NEW fs \in Sets
  PROVE  /\ fs \in Within[fs] /\ Within[fs] \in SUBSET Sets
         /\ \A i \in DOMAIN fs.filtersets : Within[fs.filtersets[i]] \subseteq Within[fs]
<1>1. Within[fs] = {fs} \cup UNION {Within[fs.filtersets[i]] : i \in DOMAIN fs.filtersets}
  BY WithinIs DEF WithinStep
<1>2. Within[fs] \in SUBSET Sets
  BY WithinIs
<1> QED BY <1>1, <1>2

LEMMA PartsInherit ==
  ASSUME NEW fs \in Sets, NEW i \in DOMAIN fs.filtersets
  PROVE  /\ Accepted(fs) => Accepted(fs.filtersets[i])
         /\ ~Fails(fs) => ~Fails(fs.filtersets[i])
         /\ ~LoneNegation(fs) => ~LoneNegation(fs.filtersets[i])
<1>1. Within[fs.filtersets[i]] \subseteq Within[fs]
  BY WithinFacts
<1>2. Accepted(fs) => Accepted(fs.filtersets[i])
  BY <1>1 DEF Accepted
<1>3. ~Fails(fs) => ~Fails(fs.filtersets[i])
  BY <1>1 DEF Fails
<1>4. ~LoneNegation(fs) => ~LoneNegation(fs.filtersets[i])
  BY <1>1 DEF LoneNegation
<1> QED BY <1>2, <1>3, <1>4

(* Induction over sets: what holds of a set if it holds of those in it.    *)
LEMMA SetInduct ==
  ASSUME NEW P, \A fs \in Sets : (\A i \in DOMAIN fs.filtersets : fs.filtersets[i] \in P) => fs \in P
  PROVE  \A fs \in Sets : fs \in P
<1>1. Depth \in [Sets -> Nat]
  BY FilterSetAssumption
<1>2. \A x \in Sets : (\A y \in Sets : Depth[y] < Depth[x] => y \in P) => x \in P
  BY SetFacts
<1> QED BY <1>1, <1>2, DepthInduct

(* The condition of a set, by its parts. *)
LEMMA ConditionOf ==
  ASSUME NEW fs \in Sets
  PROVE  LET parts == Conditions(Condition, fs)
         IN  /\ parts \in Seq(Condit) /\ Len(parts) = Len(Parts(fs))
             /\ DOMAIN parts = DOMAIN Parts(fs)
             /\ \A i \in DOMAIN Parts(fs) :
                  parts[i] = IF "filters" \in fs.has THEN Comparison(fs.filters[i])
                             ELSE Condition[fs.filtersets[i]]
             /\ Condition[fs] = IF Operator(fs) # "none" THEN Combo(fs, parts)
                                ELSE IF parts = <<>> THEN NoCondition ELSE parts[1]
<1> DEFINE parts == Conditions(Condition, fs)
<1>1. parts \in Seq(Condit) /\ Len(parts) = Len(Parts(fs)) /\ DOMAIN parts = DOMAIN Parts(fs)
  BY ConditionsType, ConditionIs
<1>2. Condition[fs] = IF Operator(fs) # "none" THEN Combo(fs, parts)
                            ELSE IF parts = <<>> THEN NoCondition ELSE parts[1]
  BY ConditionIs DEF ConditionStep
<1>3. \A i \in DOMAIN Parts(fs) :
              parts[i] = IF "filters" \in fs.has THEN Comparison(fs.filters[i])
                         ELSE Condition[fs.filtersets[i]]
  BY <1>1 DEF Conditions
<1> QED BY <1>1, <1>2, <1>3

(* The columns of the parts, where f has those of the sets in fs. *)
LEMMA ColumnsOfParts ==
  ASSUME NEW fs \in Sets, NEW f \in [Sets -> Seq(Columns)],
         \A i \in DOMAIN fs.filtersets :
           "filters" \notin fs.has => f[fs.filtersets[i]] = Condition[fs.filtersets[i]].columns
  PROVE  LET parts == Conditions(Condition, fs)
         IN  [i \in DOMAIN parts |-> parts[i].columns] = Made(f, fs)
<1> DEFINE parts == Conditions(Condition, fs)
<1>1. DOMAIN parts = DOMAIN Parts(fs)
  BY ConditionOf
<1>2. ASSUME NEW i \in DOMAIN Parts(fs)
      PROVE  parts[i].columns = IF "filters" \in fs.has THEN <<fs.filters[i].column>>
                                ELSE f[fs.filtersets[i]]
  <2>1. parts[i] = IF "filters" \in fs.has THEN Comparison(fs.filters[i])
                         ELSE Condition[fs.filtersets[i]]
    BY <1>1, ConditionOf
  <2>2. CASE "filters" \in fs.has
    BY <2>1, <2>2 DEF Comparison
  <2>3. CASE "filters" \notin fs.has
    <3>1. i \in DOMAIN fs.filtersets
      BY <2>3, PartsAre
    <3> QED BY <2>1, <2>3, <3>1
  <2> QED BY <2>2, <2>3
<1> HIDE DEF parts
<1>3. [i \in DOMAIN parts |-> parts[i].columns] = Made(f, fs)
  BY <1>1, <1>2 DEF Made
<1> QED BY <1>3 DEF parts

(* The parameters of a condition are those its placeholders stand for.     *)
LEMMA BindsAreColumns ==
  \A fs \in Sets : Binds[fs] = Condition[fs].columns
<1> DEFINE P == {fs \in Sets : Binds[fs] = Condition[fs].columns}
<1>1. ASSUME NEW fs \in Sets, \A i \in DOMAIN fs.filtersets : fs.filtersets[i] \in P
      PROVE  fs \in P
  <2> DEFINE parts == Conditions(Condition, fs)
             made == Made(Binds, fs)
  <2>1. [i \in DOMAIN parts |-> parts[i].columns] = made
    BY <1>1, BindsIs, ColumnsOfParts
  <2>2. /\ parts \in Seq(Condit) /\ made \in Seq(Seq(Columns))
        /\ Len(parts) = Len(made) /\ DOMAIN parts = DOMAIN made
    BY ConditionOf, MadeType, BindsIs
  <2>3. Condition[fs] = IF Operator(fs) # "none" THEN Combo(fs, parts)
                            ELSE IF parts = <<>> THEN NoCondition ELSE parts[1]
    BY ConditionOf
  <2>4. Binds[fs] = IF Operator(fs) # "none" THEN FlattenSeq(made)
                    ELSE IF made = <<>> THEN <<>> ELSE made[1]
    BY BindsIs DEF BindsStep
  <2> HIDE DEF parts, made
  <2>5. CASE Operator(fs) # "none"
    BY <2>1, <2>3, <2>4, <2>5 DEF Combo
  <2>6. CASE Operator(fs) = "none" /\ parts = <<>>
    <3>1. made = <<>>
      BY <2>2, <2>6
    <3> QED BY <2>3, <2>4, <2>6, <3>1 DEF NoCondition
  <2>7. CASE Operator(fs) = "none" /\ parts # <<>>
    <3>1. made # <<>> /\ 1 \in DOMAIN parts
      BY <2>2, <2>7
    <3>2. made[1] = parts[1].columns
      BY <2>1, <3>1
    <3> QED BY <2>3, <2>4, <2>7, <3>1, <3>2
  <2> QED BY <2>5, <2>6, <2>7
<1>2. \A fs \in Sets : fs \in P
  <2> HIDE DEF P
  <2> QED BY <1>1, SetInduct
<1> QED BY <1>2

(* The operator of a set that was sent is missing if it has one part.      *)
LEMMA OperatorIs ==
  ASSUME NEW fs \in Sets, fs.sent, Accepted(fs) \/ fs = Unfiltered
  PROVE  /\ Operator(fs) = "none" <=> Len(Parts(fs)) <= 1
         /\ Operator(fs) # "none" => Operator(fs) = fs.op
<1>1. Len(Parts(fs)) \in Nat
  BY PartsAre
<1>2. CASE Accepted(fs)
  <2>1. Len(Parts(fs)) > 1 => fs.op # "none"
    <3>1. fs \in Within[fs]
      BY WithinFacts
    <3> QED BY <1>2, <3>1 DEF Accepted
  <2>2. CASE Len(Parts(fs)) <= 1
    BY <2>2 DEF Operator
  <2>3. CASE ~(Len(Parts(fs)) <= 1)
    <3>1. Len(Parts(fs)) > 1
      BY <1>1, <2>3
    <3>2. Operator(fs) = fs.op
      BY <2>3 DEF Operator
    <3> QED BY <2>1, <2>3, <3>1, <3>2
  <2> QED BY <2>2, <2>3
<1>3. CASE fs = Unfiltered
  <2>1. Parts(fs) = <<>>
    BY <1>3, SetFacts, PartsAre, FilterSetAssumption
  <2> QED BY <2>1 DEF Operator
<1> QED BY <1>2, <1>3

(* The values of a set that was sent, filter by filter, are those too.     *)
LEMMA ValuesAreColumns ==
  \A fs \in Sets : fs.sent /\ (Accepted(fs) \/ fs = Unfiltered) => Values[fs] = Condition[fs].columns
<1> DEFINE P == {fs \in Sets : fs.sent /\ (Accepted(fs) \/ fs = Unfiltered) =>
                                 Values[fs] = Condition[fs].columns}
<1>1. ASSUME NEW fs \in Sets, \A i \in DOMAIN fs.filtersets : fs.filtersets[i] \in P,
             fs.sent, Accepted(fs) \/ fs = Unfiltered
      PROVE  Values[fs] = Condition[fs].columns
  <2> DEFINE parts == Conditions(Condition, fs)
             made == Made(Values, fs)
  <2>0. \A i \in DOMAIN fs.filtersets : Values[fs.filtersets[i]] = Condition[fs.filtersets[i]].columns
    <3>1. fs = Unfiltered => fs.filtersets = <<>>
      BY SetFacts, FilterSetAssumption
    <3>2. ASSUME NEW i \in DOMAIN fs.filtersets
          PROVE  Values[fs.filtersets[i]] = Condition[fs.filtersets[i]].columns
      <4>1. Accepted(fs)
        BY <3>1, <1>1
      <4> QED BY <4>1, <1>1, SetFacts, PartsInherit
    <3> QED BY <3>2
  <2>1. [i \in DOMAIN parts |-> parts[i].columns] = made
    BY <2>0, ValuesIs, ColumnsOfParts
  <2>2. /\ parts \in Seq(Condit) /\ made \in Seq(Seq(Columns))
        /\ Len(parts) = Len(Parts(fs)) /\ Len(made) = Len(Parts(fs)) /\ DOMAIN parts = DOMAIN made
    BY ConditionOf, MadeType, ValuesIs
  <2>3. Condition[fs] = IF Operator(fs) # "none" THEN Combo(fs, parts)
                            ELSE IF parts = <<>> THEN NoCondition ELSE parts[1]
    BY ConditionOf
  <2>4. Values[fs] = FlattenSeq(made)
    BY ValuesIs DEF ValuesStep
  <2>5. Operator(fs) = "none" <=> Len(Parts(fs)) <= 1
    BY <1>1, OperatorIs
  <2> HIDE DEF parts, made
  <2>6. CASE Operator(fs) # "none"
    BY <2>1, <2>3, <2>4, <2>6 DEF Combo
  <2>7. CASE Operator(fs) = "none" /\ parts = <<>>
    <3>1. made = <<>>
      BY <2>2, <2>7
    <3> QED BY <2>3, <2>4, <2>7, <3>1, FlattenNone DEF NoCondition
  <2>8. CASE Operator(fs) = "none" /\ parts # <<>>
    <3>1. Len(made) = 1 /\ 1 \in DOMAIN parts
      BY <2>2, <2>5, <2>8
    <3>2. made = <<made[1]>>
      BY <2>2, <3>1
    <3>3. made[1] = parts[1].columns
      BY <2>1, <3>1
    <3>4. FlattenSeq(made) = made[1]
      BY <3>2, FlattenOne
    <3> QED BY <2>3, <2>4, <2>8, <3>3, <3>4
  <2> QED BY <2>6, <2>7, <2>8
<1>2. \A fs \in Sets : (\A i \in DOMAIN fs.filtersets : fs.filtersets[i] \in P) => fs \in P
  BY <1>1
<1>3. \A fs \in Sets : fs \in P
  <2> HIDE DEF P
  <2> QED BY <1>2, SetInduct
<1> QED BY <1>3

-----------------------------------------------------------------------------
(* The condition of a set that was sent and accepted, and is not one that  *)
(* fails or loses a negation, says of a row what the set means.            *)
LEMMA MeantIsCondition ==
  \A fs \in Sets : fs.sent /\ Accepted(fs) /\ ~Fails(fs) /\ ~LoneNegation(fs) =>
    \A r \in Rows : Condition[fs].truth[r] = Meant[fs][r]
<1> DEFINE P == {fs \in Sets : fs.sent /\ Accepted(fs) /\ ~Fails(fs) /\ ~LoneNegation(fs) =>
                                 \A r \in Rows : Condition[fs].truth[r] = Meant[fs][r]}
<1>1. ASSUME NEW fs \in Sets, \A i \in DOMAIN fs.filtersets : fs.filtersets[i] \in P,
             fs.sent, Accepted(fs), ~Fails(fs), ~LoneNegation(fs), NEW r \in Rows
      PROVE  Condition[fs].truth[r] = Meant[fs][r]
  <2> DEFINE parts == Conditions(Condition, fs)
             n == Len(Parts(fs))
             each(i) == IF "filters" \in fs.has THEN Negated(fs.filters[i].not, r[fs.filters[i].column])
                        ELSE Meant[fs.filtersets[i]][r]
  <2>1. /\ parts \in Seq(Condit) /\ n \in Nat /\ Len(parts) = n
        /\ DOMAIN parts = 1 .. n /\ DOMAIN Parts(fs) = 1 .. n
    BY ConditionOf, PartsAre
  <2>2. Condition[fs] = IF Operator(fs) # "none" THEN Combo(fs, parts)
                            ELSE IF parts = <<>> THEN NoCondition ELSE parts[1]
    BY ConditionOf
  <2>3. Meant[fs][r] = Negated(fs.not, Combined(fs.op, {each(i) : i \in 1 .. n}))
    BY <2>1, MeantIs DEF MeantStep
  <2>4. ASSUME NEW i \in 1 .. n PROVE parts[i].truth[r] = each(i)
    <3>1. parts[i] = IF "filters" \in fs.has THEN Comparison(fs.filters[i])
                           ELSE Condition[fs.filtersets[i]]
      BY <2>1, ConditionOf
    <3>2. CASE "filters" \in fs.has
      BY <3>1, <3>2 DEF Comparison
    <3>3. CASE "filters" \notin fs.has
      <4>1. i \in DOMAIN fs.filtersets
        BY <2>1, <3>3, PartsAre
      <4>2. fs.filtersets[i] \in P /\ fs.filtersets[i].sent
        BY <4>1, <1>1, SetFacts
      <4>3. Accepted(fs.filtersets[i]) /\ ~Fails(fs.filtersets[i]) /\ ~LoneNegation(fs.filtersets[i])
        BY <4>1, <1>1, PartsInherit
      <4> QED BY <3>1, <3>3, <4>2, <4>3
    <3> QED BY <3>2, <3>3
  <2>5. fs \in Within[fs]
    BY WithinFacts
  <2>6. fs.has \in {{"filters"}, {"filtersets"}}
    BY <1>1, <2>5 DEF Accepted
  <2>7. /\ Operator(fs) = "none" <=> n <= 1
        /\ Operator(fs) # "none" => Operator(fs) = fs.op
    BY <1>1, OperatorIs
  <2>8. parts[1] \in Condit \/ n = 0
    BY <2>1
  <2> HIDE DEF parts, each
  <2>9. CASE Operator(fs) # "none"
    <3>1. {parts[i].truth[r] : i \in DOMAIN parts} = {each(i) : i \in 1 .. n}
      BY <2>1, <2>4
    <3>2. Combo(fs, parts).truth[r]
          = Negated(fs.not, Combined(fs.op, {parts[i].truth[r] : i \in DOMAIN parts}))
      BY DEF Combo
    <3> QED BY <2>2, <2>3, <2>9, <3>1, <3>2
  <2>10. CASE Operator(fs) = "none"
    <3>1. n # 0
      <4>1. CASE fs.has = {"filters"}
        <5>1. fs.filters # <<>>
          BY <1>1, <2>5, <2>10, <4>1 DEF Fails
        <5>2. Parts(fs) = fs.filters /\ fs.filters \in Seq(Filters)
          BY <4>1, PartsAre, SetFacts
        <5> QED BY <5>1, <5>2
      <4>2. CASE fs.has = {"filtersets"}
        <5>1. fs.filtersets # <<>> /\ fs.filtersets \in Seq(Sets)
          BY <4>2, SetFacts
        <5>2. Parts(fs) = fs.filtersets
          BY <4>2, PartsAre
        <5> QED BY <5>1, <5>2
      <4> QED BY <2>6, <4>1, <4>2
    <3>2. n = 1
      BY <2>1, <2>7, <2>10, <3>1
    <3>3. ~fs.not
      BY <1>1, <2>5, <3>2 DEF LoneNegation
    <3>4. fs.not = FALSE
      BY <3>3, SetFacts
    <3>5. parts # <<>> /\ parts[1].truth[r] = each(1)
      <4>1. Len(parts) = 1 /\ 1 \in 1 .. n
        BY <2>1, <3>2
      <4>2. parts[1].truth[r] = each(1)
        <5> HIDE DEF n
        <5> QED BY <2>4, <4>1
      <4> QED BY <4>1, <4>2
    <3>6. each(1) \in Truth
      BY <2>8, <3>2, <3>5 DEF Condit
    <3>7. {each(i) : i \in 1 .. n} = {each(1)}
      BY <3>2
    <3>8. Meant[fs][r] = each(1)
      BY <2>3, <3>4, <3>6, <3>7, CombinedOne, TruthFacts
    <3> QED BY <2>2, <2>10, <3>5, <3>8
  <2> QED BY <2>9, <2>10
<1>2. \A fs \in Sets : (\A i \in DOMAIN fs.filtersets : fs.filtersets[i] \in P) => fs \in P
  BY <1>1
<1>3. \A fs \in Sets : fs \in P
  <2> HIDE DEF P
  <2> QED BY <1>2, SetInduct
<1> QED BY <1>3

(* A set that the code made has its operator and no negation. *)
LEMMA MadeTruth ==
  ASSUME NEW fs \in Sets, ~fs.sent, fs.op \in Operators, fs.not = FALSE, NEW r \in Rows
  PROVE  LET values == {Conditions(Condition, fs)[i].truth[r] : i \in DOMAIN Parts(fs)}
         IN  /\ values \in SUBSET Truth
             /\ Condition[fs].truth[r] = Combined(fs.op, values)
<1> DEFINE parts == Conditions(Condition, fs)
<1>1. parts \in Seq(Condit) /\ DOMAIN parts = DOMAIN Parts(fs)
  BY ConditionOf
<1>2. Operator(fs) = fs.op /\ fs.op # "none"
  BY DEF Operator, Operators
<1>3. Condition[fs] = Combo(fs, parts)
  BY <1>2, ConditionOf
<1>4. \A i \in DOMAIN parts : parts[i].truth[r] \in Truth
  <2> HIDE DEF parts
  <2>1. \A i \in DOMAIN parts : parts[i] \in Condit
    BY <1>1
  <2>2. \A i \in DOMAIN parts : parts[i].truth \in [Rows -> Truth]
    BY <2>1 DEF Condit
  <2> QED BY <2>2
<1> HIDE DEF parts
<1>5. Condition[fs].truth[r] = Negated(fs.not, Combined(fs.op, {parts[i].truth[r] : i \in DOMAIN Parts(fs)}))
  BY <1>1, <1>3 DEF Combo
<1>6. {parts[i].truth[r] : i \in DOMAIN Parts(fs)} \in SUBSET Truth
  BY <1>1, <1>4
<1>7. Condition[fs].truth[r] = Combined(fs.op, {parts[i].truth[r] : i \in DOMAIN Parts(fs)})
  BY <1>5, CombinedType, TruthFacts
<1> QED BY <1>6, <1>7 DEF parts

(* Some role's filters all hold of the row. *)
SomeRole(security, r) ==
  \E i \in DOMAIN security : \A j \in DOMAIN security[i] :
    Negated(security[i][j].not, r[security[i][j].column]) = "T"

LEMMA RowSecurityTrue ==
  ASSUME NEW security \in Seq(Seq(Filters)), RowSecurity(security) \in Sets, NEW r \in Rows
  PROVE  Condition[RowSecurity(security)].truth[r] = "T" <=> SomeRole(security, r)
<1> DEFINE rs == RowSecurity(security)
           role(i) == [has |-> {"filters"}, filters |-> security[i], filtersets |-> <<>>,
                       op |-> "AND", not |-> FALSE, sent |-> FALSE]
           parts == Conditions(Condition, rs)
<1>1. /\ rs.has = {"filtersets"} /\ rs.op = "OR" /\ rs.not = FALSE /\ rs.sent = FALSE
      /\ rs.filtersets = [i \in DOMAIN security |-> role(i)]
  BY DEF RowSecurity, SetOf
<1>2. rs \in Sets
  OBVIOUS
<1> HIDE DEF rs
<1>3. Parts(rs) = rs.filtersets /\ DOMAIN Parts(rs) = DOMAIN security
  BY <1>1, <1>2, PartsAre
<1>4. /\ {parts[i].truth[r] : i \in DOMAIN Parts(rs)} \in SUBSET Truth
      /\ Condition[rs].truth[r] = Combined(rs.op, {parts[i].truth[r] : i \in DOMAIN Parts(rs)})
  BY <1>1, <1>2, MadeTruth DEF Operators
<1>5. ASSUME NEW i \in DOMAIN security
      PROVE  parts[i].truth[r] = "T" <=>
               \A j \in DOMAIN security[i] : Negated(security[i][j].not, r[security[i][j].column]) = "T"
  <2> DEFINE fs == role(i)
             each == Conditions(Condition, fs)
  <2>1. parts[i] = Condition[fs] /\ fs \in Sets
    <3>1. parts[i] = Condition[rs.filtersets[i]]
      BY <1>1, <1>2, <1>3, ConditionOf
    <3>2. rs.filtersets[i] = fs
      BY <1>1
    <3>3. rs.filtersets[i] \in Sets
      BY <1>1, <1>2, SetFacts
    <3> QED BY <3>1, <3>2, <3>3
  <2>2. fs.has = {"filters"} /\ fs.op = "AND" /\ fs.not = FALSE /\ fs.sent = FALSE /\ fs.filters = security[i]
    OBVIOUS
  <2> HIDE DEF fs
  <2>3. /\ {each[j].truth[r] : j \in DOMAIN Parts(fs)} \in SUBSET Truth
        /\ Condition[fs].truth[r] = Combined(fs.op, {each[j].truth[r] : j \in DOMAIN Parts(fs)})
    BY <2>1, <2>2, MadeTruth DEF Operators
  <2>4. Parts(fs) = security[i]
    BY <2>1, <2>2, PartsAre
  <2>5. ASSUME NEW j \in DOMAIN security[i]
        PROVE  each[j].truth[r] = Negated(security[i][j].not, r[security[i][j].column])
    <3>1. each[j] = Comparison(security[i][j])
      BY <2>1, <2>2, <2>4, ConditionOf
    <3> QED BY <3>1 DEF Comparison
  <2> HIDE DEF each, role
  <2>6. parts[i].truth[r] = "T" <=> {each[j].truth[r] : j \in DOMAIN Parts(fs)} \subseteq {"T"}
    BY <2>1, <2>2, <2>3, CombinedTrue
  <2> QED BY <2>4, <2>5, <2>6
<1> HIDE DEF parts
<1>6. Condition[rs].truth[r] = "T" <=> "T" \in {parts[i].truth[r] : i \in DOMAIN Parts(rs)}
  BY <1>1, <1>4, CombinedTrue
<1>7. Condition[rs].truth[r] = "T" <=> SomeRole(security, r)
  BY <1>3, <1>5, <1>6 DEF SomeRole
<1> QED BY <1>7 DEF rs

-----------------------------------------------------------------------------
(* What is joined with AND, in order. *)
Joined(fs, security) ==
  (IF security = <<>> THEN <<>> ELSE <<RowSecurity(security)>>)
    \o (IF Asks(fs) THEN <<fs>> ELSE <<>>)

(* The members of a sequence of none, one or two. *)
LEMMA FewMembers ==
  ASSUME NEW x, NEW y, NEW s
  PROVE  /\ ~\E i \in DOMAIN <<>> : <<>>[i] = s
         /\ (\E i \in DOMAIN <<x>> : <<x>>[i] = s) <=> s = x
         /\ (\E i \in DOMAIN <<x, y>> : <<x, y>>[i] = s) <=> s = x \/ s = y
         /\ <<x>> # <<>> /\ <<x, y>> # <<>>
<1>1. 1 \in DOMAIN <<x>> /\ <<x>>[1] = x /\ \A i \in DOMAIN <<x>> : i = 1
  OBVIOUS
<1>2. /\ 1 \in DOMAIN <<x, y>> /\ <<x, y>>[1] = x /\ 2 \in DOMAIN <<x, y>> /\ <<x, y>>[2] = y
      /\ \A i \in DOMAIN <<x, y>> : i = 1 \/ i = 2
  OBVIOUS
<1>3. DOMAIN <<>> = {}
  OBVIOUS
<1>4. <<x>> # <<>> /\ <<x, y>> # <<>>
  OBVIOUS
<1>5. (\E i \in DOMAIN <<x>> : <<x>>[i] = s) <=> s = x
  BY <1>1
<1>6. (\E i \in DOMAIN <<x, y>> : <<x, y>>[i] = s) <=> s = x \/ s = y
  BY <1>2
<1>7. ~\E i \in DOMAIN <<>> : <<>>[i] = s
  BY <1>3
<1> QED BY <1>4, <1>5, <1>6, <1>7

LEMMA JoinedIs ==
  ASSUME NEW fs, NEW security
  PROVE  /\ \A s : (\E i \in DOMAIN Joined(fs, security) : Joined(fs, security)[i] = s) <=>
              \/ security # <<>> /\ s = RowSecurity(security)
              \/ Asks(fs) /\ s = fs
         /\ Joined(fs, security) = <<>> <=> security = <<>> /\ ~Asks(fs)
<1> DEFINE rs == RowSecurity(security)
<1> HIDE DEF rs
<1>1. CASE security = <<>> /\ ~Asks(fs)
  <2>1. Joined(fs, security) = <<>>
    BY <1>1 DEF Joined
  <2>2. \A s : ~\E i \in DOMAIN <<>> : <<>>[i] = s
    BY FewMembers
  <2> QED BY <1>1, <2>1, <2>2
<1>2. CASE security # <<>> /\ ~Asks(fs)
  <2>1. Joined(fs, security) = <<rs>>
    BY <1>2 DEF Joined, rs
  <2> QED BY <1>2, <2>1, FewMembers DEF rs
<1>3. CASE security = <<>> /\ Asks(fs)
  <2>1. Joined(fs, security) = <<fs>>
    BY <1>3 DEF Joined
  <2> QED BY <1>3, <2>1, FewMembers
<1>4. CASE security # <<>> /\ Asks(fs)
  <2>1. Joined(fs, security) = <<rs>> \o <<fs>>
    BY <1>4 DEF Joined, rs
  <2>2. <<rs>> \o <<fs>> = <<rs, fs>>
    <3> DEFINE V == {rs, fs}
               s == <<rs>> \o <<fs>>
               t == <<rs, fs>>
    <3>1. <<rs>> \in Seq(V) /\ <<fs>> \in Seq(V) /\ Len(<<rs>>) = 1 /\ Len(<<fs>>) = 1
      OBVIOUS
    <3>2. s \in Seq(V) /\ Len(s) = 2 /\ s[1] = rs /\ s[2] = fs
      BY <3>1
    <3>3. t \in Seq(V) /\ Len(t) = 2 /\ t[1] = rs /\ t[2] = fs
      OBVIOUS
    <3> HIDE DEF s, t
    <3>4. \A i \in 1 .. 2 : s[i] = t[i]
      BY <3>2, <3>3
    <3>5. s = t
      BY <3>2, <3>3, <3>4
    <3> QED BY <3>5 DEF s, t
  <2>3. Joined(fs, security) = <<rs, fs>>
    BY <2>1, <2>2
  <2> QED BY <1>4, <2>3, FewMembers DEF rs
<1> QED BY <1>1, <1>2, <1>3, <1>4

(* No filter set at all lets every row through. *)
LEMMA UnfilteredIs == Condition[Unfiltered] = NoCondition
<1>1. Unfiltered \in Sets /\ Parts(Unfiltered) = <<>> /\ Unfiltered.sent
  BY FilterSetAssumption, SetFacts, PartsAre
<1>2. Operator(Unfiltered) = "none"
  BY <1>1 DEF Operator
<1>3. Conditions(Condition, Unfiltered) = <<>>
  BY <1>1, ConditionOf
<1> QED BY <1>1, <1>2, <1>3, ConditionOf

(* Row security and what is asked are both asked of a row. *)
LEMMA PopulatedTrue ==
  ASSUME NEW fs \in Sets, NEW security \in Seq(Seq(Filters)),
         PopulateFilterSetForType(fs, security) \in Sets, NEW r \in Rows
  PROVE  Condition[PopulateFilterSetForType(fs, security)].truth[r] = "T" <=>
           /\ security # <<>> => SomeRole(security, r)
           /\ Condition[fs].truth[r] = "T"
<1> DEFINE both == PopulateFilterSetForType(fs, security)
           sets == Joined(fs, security)
           values == {Conditions(Condition, both)[i].truth[r] : i \in DOMAIN Parts(both)}
<1>1. fs = Unfiltered => Condition[fs].truth[r] = "T"
  BY UnfilteredIs DEF NoCondition
<1>2. CASE sets = <<>>
  <2>1. both = Unfiltered /\ security = <<>> /\ fs = Unfiltered
    BY <1>2, JoinedIs DEF PopulateFilterSetForType, Joined, Asks
  <2> QED BY <2>1, <1>1
<1>3. CASE sets # <<>>
  <2>1. both = SetOf("AND", sets)
    BY <1>3 DEF PopulateFilterSetForType, Joined
  <2>2. /\ both.has = {"filtersets"} /\ both.op = "AND" /\ both.not = FALSE /\ both.sent = FALSE
        /\ both.filtersets = sets
    BY <2>1 DEF SetOf
  <2>3. both \in Sets
    OBVIOUS
  <2> HIDE DEF both, sets
  <2>4. values \in SUBSET Truth /\ Condition[both].truth[r] = Combined(both.op, values)
    BY <2>2, <2>3, MadeTruth DEF Operators
  <2>5. Parts(both) = sets
    BY <2>2, <2>3, PartsAre
  <2>6. \A i \in DOMAIN sets : sets[i] \in Sets /\ Conditions(Condition, both)[i] = Condition[sets[i]]
    BY <2>2, <2>3, <2>5, ConditionOf, SetFacts
  <2>7. Condition[both].truth[r] = "T" <=> \A i \in DOMAIN sets : Condition[sets[i]].truth[r] = "T"
    <3>1. Condition[both].truth[r] = "T" <=> values \subseteq {"T"}
      BY <2>2, <2>4, CombinedTrue
    <3>2. values = {Condition[sets[i]].truth[r] : i \in DOMAIN sets}
      BY <2>5, <2>6
    <3> HIDE DEF values
    <3> QED BY <3>1, <3>2
  <2>8. \A s : (\E i \in DOMAIN sets : sets[i] = s) <=>
          \/ security # <<>> /\ s = RowSecurity(security)
          \/ Asks(fs) /\ s = fs
    BY JoinedIs DEF sets
  <2>9. Condition[both].truth[r] = "T" <=>
          /\ security # <<>> => Condition[RowSecurity(security)].truth[r] = "T"
          /\ Asks(fs) => Condition[fs].truth[r] = "T"
    BY <2>7, <2>8
  <2>10. security # <<>> => RowSecurity(security) \in Sets
    BY <2>6, <2>8
  <2>11. security # <<>> => (Condition[RowSecurity(security)].truth[r] = "T" <=> SomeRole(security, r))
    BY <2>10, RowSecurityTrue
  <2>12. Condition[both].truth[r] = "T" <=>
           /\ security # <<>> => SomeRole(security, r)
           /\ Condition[fs].truth[r] = "T"
    BY <1>1, <2>9, <2>11 DEF Asks
  <2> QED BY <2>12 DEF both
<1> QED BY <1>2, <1>3

(* What is asked is within what is made of it. *)
LEMMA PopulatedWithin ==
  ASSUME NEW fs \in Sets, Asks(fs), NEW security,
         PopulateFilterSetForType(fs, security) \in Sets
  PROVE  ~Fails(PopulateFilterSetForType(fs, security)) => ~Fails(fs)
<1> DEFINE both == PopulateFilterSetForType(fs, security)
           sets == Joined(fs, security)
<1>1. sets # <<>> /\ \E i \in DOMAIN sets : sets[i] = fs
  <2>1. \E i \in DOMAIN sets : sets[i] = fs
    <3>1. \A s : (\E i \in DOMAIN sets : sets[i] = s) <=>
            \/ security # <<>> /\ s = RowSecurity(security)
            \/ Asks(fs) /\ s = fs
      BY JoinedIs
    <3> HIDE DEF sets
    <3> QED BY <3>1
  <2>2. sets # <<>>
    BY JoinedIs
  <2> QED BY <2>1, <2>2
<1>2. both = SetOf("AND", sets)
  BY <1>1 DEF PopulateFilterSetForType, Joined
<1>3. both.filtersets = sets
  BY <1>2 DEF SetOf
<1> HIDE DEF both, sets
<1>4. both \in Sets
  BY DEF both
<1>5. PICK i \in DOMAIN both.filtersets : both.filtersets[i] = fs
  BY <1>1, <1>3
<1>6. ~Fails(both) => ~Fails(fs)
  BY <1>4, <1>5, PartsInherit
<1> QED BY <1>6 DEF both

-----------------------------------------------------------------------------
(* What the filter sets are at each step. *)
Passed == pc \in {"valid", "secured", "generated", "fetched"}

Validated == IF request.scroll THEN Unfiltered ELSE request.asked

Restricted ==
  IF request.model = "MULTI" THEN Validated
  ELSE PopulateFilterSetForType(Validated, request.security)

JoinRestricted ==
  IF request.model = "MULTI" THEN Unfiltered
  ELSE PopulateFilterSetForType(request.joined, <<>>)

Followed ==
  /\ request \in Queries /\ row \in Rows
  /\ pc = "sent" => filterSet = request.asked /\ joinSet = request.joined
  /\ Passed => /\ request.scroll \/ Accepted(request.asked)
               /\ Asks(request.joined) => Accepted(request.joined)
  /\ pc = "valid" => filterSet = Validated /\ joinSet = request.joined
  /\ pc \in {"secured", "generated", "fetched"} =>
       filterSet = Restricted /\ joinSet = JoinRestricted
  /\ pc \in {"generated", "fetched"} =>
       /\ where = Condition[filterSet] /\ on = Condition[joinSet]
       /\ parameters = Parameters /\ ~Fails(filterSet)
  /\ shown \in BOOLEAN
  /\ pc = "fetched" => (shown <=> where.truth[row] = "T")

LEMMA QueryFacts ==
  ASSUME NEW q \in Queries
  PROVE  /\ q.model \in {"SINGLE", "MULTI"} /\ q.scroll \in BOOLEAN
         /\ q.asked \in Sets /\ q.asked.sent /\ q.joined \in Sets /\ q.joined.sent
         /\ q.security \in Seq(Seq(Filters))
<1>1. q \in [model : {"SINGLE", "MULTI"}, scroll : BOOLEAN,
             asked : {fs \in Sets : fs.sent}, joined : {fs \in Sets : fs.sent},
             security : Seq(Seq(Filters))]
  BY FilterSetAssumption
<1> QED BY <1>1

LEMMA FollowedAlways == FilterSpec => []Followed
<1>1. FilterInit => Followed
  <2> SUFFICES ASSUME FilterInit PROVE Followed
    OBVIOUS
  <2>1. [c \in Columns |-> "U"] \in Rows
    BY DEF Rows, Truth
  <2> QED BY <2>1 DEF FilterInit, Followed, Passed
<1>2. Followed /\ [FilterNext]_filterVars => Followed'
  <2> SUFFICES ASSUME Followed, [FilterNext]_filterVars PROVE Followed'
    OBVIOUS
  <2>0. request.scroll \in BOOLEAN
    BY QueryFacts DEF Followed
  <2>1. CASE Validate
    <3>1. pc = "sent" /\ request' = request /\ row' = row /\ shown' = shown
      BY <2>1 DEF Validate
    <3>2. CASE pc' = "rejected"
      BY <2>1, <3>1, <3>2 DEF Validate, Followed, Passed
    <3>3. CASE pc' # "rejected"
      <4>1. /\ pc' = "valid"
            /\ request.scroll \/ Accepted(request.asked)
            /\ Asks(request.joined) => Accepted(request.joined)
            /\ joinSet' = joinSet
            /\ filterSet' = IF request.scroll THEN Unfiltered ELSE filterSet
        BY <2>1, <2>0, <3>3 DEF Validate
      <4>2. filterSet = request.asked /\ joinSet = request.joined
        BY <3>1 DEF Followed
      <4>3. filterSet' = Validated' /\ joinSet' = request'.joined
        BY <3>1, <4>1, <4>2 DEF Validated
      <4> QED BY <3>1, <4>1, <4>3 DEF Followed, Passed
    <3> QED BY <3>2, <3>3
  <2>2. CASE Secure
    <3>1. /\ pc = "valid" /\ pc' = "secured" /\ request' = request /\ row' = row /\ shown' = shown
          /\ filterSet' = IF request.model = "MULTI" THEN filterSet
                          ELSE PopulateFilterSetForType(filterSet, request.security)
          /\ joinSet' = IF request.model = "MULTI" THEN Unfiltered
                        ELSE PopulateFilterSetForType(joinSet, <<>>)
      BY <2>2 DEF Secure
    <3>2. filterSet = Validated /\ joinSet = request.joined
      BY <3>1 DEF Followed
    <3>3. filterSet' = Restricted' /\ joinSet' = JoinRestricted'
      BY <3>1, <3>2 DEF Restricted, JoinRestricted, Validated
    <3> QED BY <3>1, <3>3 DEF Followed, Passed
  <2>3. CASE Generate
    <3>1. /\ pc = "secured" /\ request' = request /\ row' = row /\ shown' = shown
          /\ filterSet' = filterSet /\ joinSet' = joinSet
      BY <2>3 DEF Generate
    <3>2. CASE pc' = "failed"
      BY <3>1, <3>2 DEF Followed, Passed
    <3>3. CASE pc' # "failed"
      <4>1. /\ pc' = "generated" /\ parameters' = Parameters /\ ~Fails(filterSet)
            /\ where' = Condition[filterSet] /\ on' = Condition[joinSet]
        BY <2>3, <3>3 DEF Generate
      <4>2. Parameters' = Parameters
        BY <3>1 DEF Parameters
      <4>3. Restricted' = Restricted /\ JoinRestricted' = JoinRestricted
        BY <3>1 DEF Restricted, JoinRestricted, Validated
      <4> QED BY <3>1, <4>1, <4>2, <4>3 DEF Followed, Passed
    <3> QED BY <3>2, <3>3
  <2>4. CASE Fetch
    <3>1. /\ pc = "generated" /\ pc' = "fetched" /\ row' \in Rows
          /\ shown' = (where.truth[row'] = "T")
          /\ UNCHANGED <<request, filterSet, joinSet, where, on, parameters>>
      BY <2>4 DEF Fetch
    <3>2. Parameters' = Parameters /\ Restricted' = Restricted /\ JoinRestricted' = JoinRestricted
      BY <3>1 DEF Parameters, Restricted, JoinRestricted, Validated
    <3>3. shown' \in BOOLEAN /\ (shown' <=> where'.truth[row'] = "T")
      BY <3>1
    <3> QED BY <3>1, <3>2, <3>3 DEF Followed, Passed
  <2>5. CASE UNCHANGED filterVars
    BY <2>5 DEF filterVars, Followed, Passed, Restricted, JoinRestricted, Validated, Parameters
  <2> QED BY <2>1, <2>2, <2>3, <2>4, <2>5 DEF FilterNext
<1> QED BY <1>1, <1>2, PTL DEF FilterSpec

-----------------------------------------------------------------------------
(* What each of the two sets is, once it is secured. *)
LEMMA SetsOfStatement ==
  ASSUME Followed, pc \in {"secured", "generated", "fetched"}
  PROVE  /\ Validated \in Sets /\ Validated.sent
         /\ ~request.scroll => Validated = request.asked /\ Asks(request.asked)
         /\ Accepted(Validated) \/ Validated = Unfiltered
         /\ filterSet \in Sets /\ joinSet \in Sets
<1>1. request.asked \in Sets /\ request.asked.sent /\ request.joined \in Sets
      /\ request.scroll \in BOOLEAN
  BY QueryFacts DEF Followed
<1>2. Unfiltered \in Sets /\ Unfiltered.sent
  BY FilterSetAssumption
<1>3. ~Accepted(Unfiltered)
  <2>1. Unfiltered \in Within[Unfiltered]
    BY <1>2, WithinFacts
  <2>2. Unfiltered.has = {}
    BY FilterSetAssumption
  <2> QED BY <2>1, <2>2 DEF Accepted
<1>4. request.scroll \/ Accepted(request.asked)
  BY DEF Followed, Passed
<1>5. ~request.scroll => Asks(request.asked)
  BY <1>3, <1>4 DEF Asks
<1>6. Validated \in {request.asked, request.joined, Unfiltered}
  BY DEF Validated
<1>7. \A fs \in {request.asked, request.joined, Unfiltered}, roles \in {request.security, <<>>} :
        PopulateFilterSetForType(fs, roles) \in Sets
  BY PopulateAssumption DEF Followed
<1>8. Restricted \in Sets /\ JoinRestricted \in Sets
  BY <1>1, <1>2, <1>6, <1>7 DEF Restricted, JoinRestricted
<1>9. filterSet \in Sets /\ joinSet \in Sets
  BY <1>8 DEF Followed
<1> QED BY <1>1, <1>2, <1>4, <1>5, <1>9 DEF Validated

(* The row that is shown is one that row security and the set let through. *)
LEMMA RestrictedTrue ==
  ASSUME Followed, pc = "fetched"
  PROVE  shown <=> Secured(row) /\ Condition[Validated].truth[row] = "T"
<1>1. shown <=> Condition[Restricted].truth[row] = "T"
  BY DEF Followed
<1>2. Validated \in Sets /\ row \in Rows /\ Restricted \in Sets
  BY SetsOfStatement DEF Followed
<1>3. request.security \in Seq(Seq(Filters)) /\ request.model \in {"SINGLE", "MULTI"}
  BY QueryFacts DEF Followed
<1>4. CASE request.model = "MULTI"
  <2>1. Restricted = Validated /\ Secured(row)
    BY <1>4 DEF Restricted, Secured
  <2> QED BY <1>1, <2>1
<1>5. CASE request.model = "SINGLE"
  <2>1. Restricted = PopulateFilterSetForType(Validated, request.security)
    BY <1>5 DEF Restricted
  <2>2. Secured(row) <=> (request.security # <<>> => SomeRole(request.security, row))
    BY <1>5 DEF Secured, SomeRole
  <2> QED BY <1>1, <1>2, <1>3, <2>1, <2>2, PopulatedTrue
<1> QED BY <1>3, <1>4, <1>5

(* Nothing that is written into a filter set shows a row that no role of   *)
(* the user lets through: SingleTraversal joins the row security with AND. *)
THEOREM SecurityIsKept == FilterSpec => []SecurityNarrows
<1>1. Followed => SecurityNarrows
  BY RestrictedTrue DEF SecurityNarrows
<1> QED BY <1>1, FollowedAlways, PTL

(* The rows shown are those that were asked for and may be seen, for sets  *)
(* nested in any way: FilterSet, SingleTraversal and SQLQueryParser.       *)
THEOREM ShownAreMeant == FilterSpec => []ShowsWhatIsMeant
<1>1. ASSUME Followed, pc = "fetched", request.scroll \/ ~LoneNegation(request.asked)
      PROVE  shown = (Secured(row) /\ (request.scroll \/ Meant[request.asked][row] = "T"))
  <2>1. shown <=> Secured(row) /\ Condition[Validated].truth[row] = "T"
    BY <1>1, RestrictedTrue
  <2>2. row \in Rows /\ shown \in BOOLEAN /\ request.scroll \in BOOLEAN
        /\ request.model \in {"SINGLE", "MULTI"}
    BY <1>1, QueryFacts DEF Followed
  <2>3. CASE request.scroll
    <3>1. Condition[Validated].truth[row] = "T"
      BY <2>2, <2>3, UnfilteredIs DEF Validated, NoCondition
    <3>2. shown <=> (Secured(row) /\ (request.scroll \/ Meant[request.asked][row] = "T"))
      BY <2>1, <2>3, <3>1
    <3> QED BY <2>2, <3>2
  <2>4. CASE ~request.scroll
    <3>1. Validated = request.asked /\ Asks(request.asked)
      BY <1>1, <2>4, SetsOfStatement
    <3>2. request.asked \in Sets /\ request.asked.sent /\ Accepted(request.asked)
      BY <1>1, <2>4, QueryFacts DEF Followed, Passed
    <3>3. ~Fails(request.asked)
      <4>1. Restricted \in Sets /\ ~Fails(Restricted)
        BY <1>1, SetsOfStatement DEF Followed
      <4>2. CASE request.model = "MULTI"
        BY <3>1, <4>1, <4>2 DEF Restricted
      <4>3. CASE request.model = "SINGLE"
        <5>1. Restricted = PopulateFilterSetForType(request.asked, request.security)
          BY <3>1, <4>3 DEF Restricted
        <5> QED BY <3>1, <3>2, <4>1, <5>1, PopulatedWithin
      <4> QED BY <2>2, <4>2, <4>3
    <3>4. Condition[request.asked].truth[row] = Meant[request.asked][row]
      BY <1>1, <2>2, <2>4, <3>2, <3>3, MeantIsCondition
    <3>5. shown <=> (Secured(row) /\ (request.scroll \/ Meant[request.asked][row] = "T"))
      BY <2>1, <2>4, <3>1, <3>4
    <3> QED BY <2>2, <3>5
  <2> QED BY <2>2, <2>3, <2>4
<1>2. Followed => ShowsWhatIsMeant
  BY <1>1 DEF ShowsWhatIsMeant
<1> QED BY <1>2, FollowedAlways, PTL

(* The values of a statement are in the order of its placeholders:         *)
(* SQLSimpleParser and RDBMSBatchLoader.                                   *)
THEOREM ParametersAreInOrder == FilterSpec => []ParametersFit
<1>1. ASSUME Followed, pc = "generated"
      PROVE  LET each == on.columns \o where.columns
             IN  parameters = IF request.model = "MULTI" THEN each ELSE each \o each
  <2>1. where = Condition[filterSet] /\ on = Condition[joinSet] /\ parameters = Parameters
    BY <1>1 DEF Followed
  <2>2. filterSet \in Sets /\ joinSet \in Sets
    BY <1>1, SetsOfStatement
  <2>3. CASE request.model = "MULTI"
    <3>1. filterSet = Validated /\ joinSet = Unfiltered
      BY <1>1, <2>3 DEF Followed, Restricted, JoinRestricted
    <3>2. Values[filterSet] = where.columns
      BY <1>1, <2>1, <3>1, SetsOfStatement, ValuesAreColumns
    <3>3. on.columns = <<>>
      BY <2>1, <3>1, UnfilteredIs DEF NoCondition
    <3>4. where.columns \in Seq(Columns)
      BY <2>1, <2>2, ConditionIs DEF Condit
    <3>5. <<>> \o where.columns = where.columns
      BY <3>4
    <3> QED BY <2>1, <2>3, <3>2, <3>3, <3>5 DEF Parameters
  <2>4. CASE request.model # "MULTI"
    <3>1. Binds[joinSet] = on.columns /\ Binds[filterSet] = where.columns
      BY <2>1, <2>2, BindsAreColumns
    <3> QED BY <2>1, <2>4, <3>1 DEF Parameters
  <2> QED BY <2>3, <2>4
<1>2. Followed => ParametersFit
  BY <1>1 DEF ParametersFit
<1> QED BY <1>2, FollowedAlways, PTL

-----------------------------------------------------------------------------
InSets == pc \in {"secured", "generated", "fetched"} => filterSet \in Sets /\ joinSet \in Sets

(* The types hold: a set with several parts that was accepted has an       *)
(* operator, and what row security makes is a filter set.                  *)
THEOREM FilterTypesCorrect == FilterSpec => []FilterTypeOK
<1>1. FilterInit => FilterTypeOK
  <2> SUFFICES ASSUME FilterInit PROVE FilterTypeOK
    OBVIOUS
  <2>1. [c \in Columns |-> "U"] \in Rows /\ <<>> \in Seq(Columns)
    BY DEF Rows, Truth
  <2>2. filterSet \in Sets /\ joinSet \in Sets
    BY QueryFacts DEF FilterInit
  <2>3. NoCondition.truth \in [Rows -> Truth] /\ NoCondition.columns \in Seq(Columns)
    BY NoConditionType DEF Condit
  <2> QED BY <2>1, <2>2, <2>3 DEF FilterInit, FilterTypeOK
<1>2. FilterTypeOK /\ Followed /\ InSets /\ Followed' /\ InSets' /\ [FilterNext]_filterVars
      => FilterTypeOK'
  <2> SUFFICES ASSUME FilterTypeOK, Followed, InSets, Followed', InSets', [FilterNext]_filterVars
               PROVE  FilterTypeOK'
    OBVIOUS
  <2>0. /\ request \in Queries /\ shown \in BOOLEAN /\ row \in Rows
        /\ filterSet \in Sets /\ joinSet \in Sets /\ parameters \in Seq(Columns)
        /\ where.truth \in [Rows -> Truth] /\ where.columns \in Seq(Columns)
        /\ on.truth \in [Rows -> Truth] /\ on.columns \in Seq(Columns)
    BY DEF FilterTypeOK
  <2>1. CASE Validate
    <3>1. /\ UNCHANGED <<request, where, on, parameters, row, shown>>
          /\ filterSet' \in {filterSet, Unfiltered} /\ joinSet' \in {joinSet, Unfiltered}
          /\ pc' \in {"valid", "rejected"} /\ pc = "sent"
      BY <2>1 DEF Validate
    <3>2. filterSet' \in Sets /\ joinSet' \in Sets
      BY <2>0, <3>1, FilterSetAssumption
    <3>3. ASSUME pc' = "valid", NEW fs \in {filterSet', joinSet'}, Asks(fs) PROVE Accepted(fs)
      <4>1. /\ request'.scroll \/ Accepted(request'.asked)
            /\ Asks(request'.joined) => Accepted(request'.joined)
            /\ filterSet' = Validated' /\ joinSet' = request'.joined
        BY <3>3 DEF Followed, Passed
      <4>2. Validated' \in {Unfiltered, request'.asked}
            /\ (Validated' # Unfiltered => ~request'.scroll)
        BY DEF Validated
      <4>3. CASE fs = filterSet'
        BY <3>3, <4>1, <4>2, <4>3 DEF Asks
      <4>4. CASE fs = joinSet'
        BY <3>3, <4>1, <4>4 DEF Asks
      <4> QED BY <3>3, <4>3, <4>4
    <3> QED BY <2>0, <3>1, <3>2, <3>3 DEF FilterTypeOK
  <2>2. CASE Secure
    <3>1. pc' = "secured" /\ UNCHANGED <<request, where, on, parameters, row, shown>>
      BY <2>2 DEF Secure
    <3>2. filterSet' \in Sets /\ joinSet' \in Sets
      BY <3>1 DEF InSets
    <3> QED BY <2>0, <3>1, <3>2 DEF FilterTypeOK
  <2>3. CASE Generate
    <3>1. /\ pc = "secured" /\ pc' \in {"failed", "generated"}
          /\ UNCHANGED <<request, filterSet, joinSet, row, shown>>
      BY <2>3 DEF Generate
    <3>2. CASE pc' = "failed"
      <4>1. UNCHANGED <<where, on, parameters>>
        BY <2>3, <3>2 DEF Generate
      <4> QED BY <2>0, <3>1, <3>2, <4>1 DEF FilterTypeOK
    <3>3. CASE pc' = "generated"
      <4>1. where' = Condition[filterSet] /\ on' = Condition[joinSet] /\ parameters' = Parameters
        BY <2>3, <3>3 DEF Generate
      <4>2. where' \in Condit /\ on' \in Condit
        BY <2>0, <4>1, ConditionIs
      <4>3. /\ Values[filterSet] \in Seq(Columns) /\ Binds[joinSet] \in Seq(Columns)
            /\ Binds[filterSet] \in Seq(Columns)
        BY <2>0, ValuesIs, BindsIs
      <4>4. parameters' \in Seq(Columns)
        <5>1. CASE request.model = "MULTI"
          BY <4>1, <4>3, <5>1 DEF Parameters
        <5>2. CASE request.model # "MULTI"
          <6> DEFINE each == Binds[joinSet] \o Binds[filterSet]
          <6>1. each \in Seq(Columns)
            BY <4>3
          <6>2. each \o each \in Seq(Columns)
            BY <6>1
          <6> QED BY <4>1, <5>2, <6>2 DEF Parameters
        <5> QED BY <5>1, <5>2
      <4>5. /\ where'.truth \in [Rows -> Truth] /\ where'.columns \in Seq(Columns)
            /\ on'.truth \in [Rows -> Truth] /\ on'.columns \in Seq(Columns)
        BY <4>2 DEF Condit
      <4> QED BY <2>0, <3>1, <3>3, <4>4, <4>5 DEF FilterTypeOK
    <3> QED BY <3>1, <3>2, <3>3
  <2>4. CASE Fetch
    <3>1. /\ pc' = "fetched" /\ row' \in Rows /\ shown' \in BOOLEAN
          /\ UNCHANGED <<request, filterSet, joinSet, where, on, parameters>>
      BY <2>4 DEF Fetch
    <3> QED BY <2>0, <3>1 DEF FilterTypeOK
  <2>5. CASE UNCHANGED filterVars
    BY <2>5 DEF filterVars, FilterTypeOK
  <2> QED BY <2>1, <2>2, <2>3, <2>4, <2>5 DEF FilterNext
<1>3. Followed => InSets
  BY SetsOfStatement DEF InSets
<1> QED BY <1>1, <1>2, <1>3, FollowedAlways, PTL DEF FilterSpec
=============================================================================
