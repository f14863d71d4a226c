---------------------------- MODULE MCMutations ----------------------------
(* A small instance of Mutations for TLC. *)
EXTENDS Mutations

CONSTANTS order, item

TwoTypes == {order, item}

(* Whoever may write all types, or those of the items only. *)
Writers == {{order, item}, {item}}

(* Selections of n fields, visited children first: the fields below one    *)
(* follow each other.                                                      *)
Shapes(n) ==
  {p \in [1..n -> 0..n] : \A f \in 1..n :
     /\ p[f] = 0 \/ p[f] > f
     /\ \A g \in 1..(f - 1) : p[g] > f => p[f] \in 1..p[g]}

Labelled(n, kinds, op) ==
  {d \in [size : {n}, parent : Shapes(n), kind : [1..n -> kinds],
          operation : {op}] :
     \A f \in 1..n :
       /\ d.kind[f] = "typename" => \A g \in 1..n : d.parent[g] # f
       /\ d.kind[f] = "schema" =>
            d.parent[f] # 0 /\ d.parent[d.parent[f]] # 0
       /\ op = "mutation" /\ d.parent[f] = 0 => d.kind[f] = "field"}

Small ==
  Labelled(5, {"field", "join"}, "query")
  \cup Labelled(4, FieldKinds, "query")
  \cup Labelled(3, {"field", "join"}, "mutation")

=============================================================================
