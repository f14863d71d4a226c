--------------------------- MODULE FieldComplexity ---------------------------
(***************************************************************************)
(* The limits on a GraphQL document.  Before a document is executed its    *)
(* selected fields are visited, children before parents, and each gets a   *)
(* complexity: the sum of its children's, plus 1 for a plain field or      *)
(* JoinWeight for a relationship.  One number carries two counts, fields   *)
(* in its remainder and joins in its quotient, and both are compared with  *)
(* a limit at every field.                                                 *)
(*                                                                         *)
(* The visitor is graphql-java's MaxQueryComplexityInstrumentation; it     *)
(* compares the sum of the root fields with a total of its own.            *)
(***************************************************************************)
EXTENDS Integers, FiniteSets

CONSTANTS
  Documents,    \* selected fields in the order of the visit
  JoinWeight,   \* 1000
  SchemaBonus,  \* 1000000, what a field of the schema's own tables is worth
  MaxNormal,    \* maxGraphQLQueryComplexity
  MaxJoin       \* maxJoinFieldComplexity

(* "schema" is a field whose parent field belongs to the type __Schema.    *)
FieldKinds == {"field", "join", "typename", "schema"}

Selected(d) == 1..d.size

(* parent[f] is 0 for a root field and greater than f for the others;      *)
(* __typename is a String and has nothing selected below it.               *)
ASSUME DocumentsAssumption ==
  /\ JoinWeight \in Nat \ {0} /\ SchemaBonus \in Nat
  /\ MaxNormal \in Nat /\ MaxJoin \in Nat
  /\ \A d \in Documents :
       /\ d.size \in Nat \ {0}
       /\ d.parent \in [Selected(d) -> 0..d.size]
       /\ d.kind \in [Selected(d) -> FieldKinds]
       /\ \A f \in Selected(d) : d.parent[f] = 0 \/ d.parent[f] > f
       /\ \A f \in Selected(d) :
            d.parent[f] # 0 => d.kind[d.parent[f]] # "typename"

VARIABLES
  doc,             \* the document
  visited,         \* how many of its fields have been visited
  valuesByParent,  \* field -> sum of its children's complexities; 0 the roots
  verdict          \* "visiting", then "accepted" or "aborted"

complexityVars == <<doc, visited, valuesByParent, verdict>>

Verdicts == {"visiting", "accepted", "aborted"}

ComplexityTypeOK ==
  /\ doc \in Documents
  /\ visited \in 0..doc.size
  /\ valuesByParent \in [0..doc.size -> Int]
  /\ verdict \in Verdicts

ComplexityInit ==
  /\ doc \in Documents
  /\ visited = 0
  /\ valuesByParent = [p \in 0..doc.size |-> 0]
  /\ verdict = "visiting"

-----------------------------------------------------------------------------
(* calculate; the visitor does not ask it about __typename. *)
Complexity(f, childComplexity) ==
  CASE doc.kind[f] = "typename" -> 0
    [] doc.kind[f] = "schema"   -> childComplexity - SchemaBonus
    [] doc.kind[f] = "join"     -> childComplexity + JoinWeight
    [] doc.kind[f] = "field"    -> childComplexity + 1

(* Java's % and / are those of a negative number's absolute value, negated. *)
TooManyFields(c) == c >= 0 /\ c % JoinWeight > MaxNormal

TooManyJoins(c) == c >= 0 /\ c \div JoinWeight > MaxJoin

(* Fault: a field hands its parent its own weight, not what is below it.   *)
VisitForgetting ==
  /\ verdict = "visiting" /\ visited < doc.size
  /\ visited' = visited + 1
  /\ LET f == visited + 1
         c == Complexity(f, valuesByParent[f]) IN
     /\ verdict' = IF TooManyFields(c) \/ TooManyJoins(c) THEN "aborted" ELSE verdict
     /\ valuesByParent' = [valuesByParent EXCEPT ![doc.parent[f]] = @ + Complexity(f, 0)]
  /\ UNCHANGED doc

(* Fault: only the joins are held against a limit.                         *)
VisitJoinsOnly ==
  /\ verdict = "visiting" /\ visited < doc.size
  /\ visited' = visited + 1
  /\ LET f == visited + 1
         c == Complexity(f, valuesByParent[f]) IN
     /\ verdict' = IF TooManyJoins(c) THEN "aborted" ELSE verdict
     /\ valuesByParent' = [valuesByParent EXCEPT ![doc.parent[f]] = @ + c]
  /\ UNCHANGED doc

Visit ==
  /\ verdict = "visiting" /\ visited < doc.size
  /\ visited' = visited + 1
  /\ LET f == visited + 1
         c == Complexity(f, valuesByParent[f]) IN
     /\ verdict' = IF TooManyFields(c) \/ TooManyJoins(c) THEN "aborted" ELSE verdict
     /\ valuesByParent' = [valuesByParent EXCEPT ![doc.parent[f]] = @ + c]
  /\ UNCHANGED doc

(* The instrumentation's own limit, for all root fields together. *)
Total ==
  /\ verdict = "visiting" /\ visited = doc.size
  /\ verdict' = IF valuesByParent[0] > MaxNormal + MaxJoin * JoinWeight
                THEN "aborted" ELSE "accepted"
  /\ UNCHANGED <<doc, visited, valuesByParent>>

ComplexityNext == Visit \/ Total

-----------------------------------------------------------------------------
(* What the limits mean *)

(* f and the fields selected below it; all fields for f = 0.               *)
Subtree(f) ==
  LET inside[g \in Selected(doc) \cup {0}] ==
        \/ g = f
        \/ g # 0 /\ inside[doc.parent[g]]
  IN {g \in Selected(doc) : inside[g]}

Count(f, k) == Cardinality({g \in Subtree(f) : doc.kind[g] = k})

Weight(f) ==
  Count(f, "join") * JoinWeight + Count(f, "field") - Count(f, "schema") * SchemaBonus

Allowed ==
  /\ \A f \in Selected(doc) : doc.kind[f] # "typename" =>
       ~TooManyFields(Weight(f)) /\ ~TooManyJoins(Weight(f))
  /\ Weight(0) <= MaxNormal + MaxJoin * JoinWeight

(* A document is executed exactly when the weight of every subtree and of  *)
(* the whole is within the limits; then, unless it asks for the schema, it *)
(* joins no more than MaxJoin times in all, however its joins are nested   *)
(* or spread over root fields.  (Its plain fields may be more than         *)
(* MaxNormal: the sum of siblings can pass over the limit into the next    *)
(* multiple of JoinWeight.)                                                *)
WithinLimits ==
  /\ verdict = "accepted" => Allowed
  /\ verdict = "aborted" => ~Allowed
  /\ verdict = "accepted" /\ MaxNormal < JoinWeight /\ Count(0, "schema") = 0
     => Count(0, "join") <= MaxJoin

=============================================================================
