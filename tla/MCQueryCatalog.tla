--------------------------- MODULE MCQueryCatalog ---------------------------
(* Two names: a list puts them in either order, and two puts can race.     *)
EXTENDS QueryCatalog, TLC

CONSTANTS a, b, r1, r2, n1

MCNames == {a, b}
MCRequests == {r1, r2}
MCNodes == {n1}

Symmetry == Permutations(MCNames) \cup Permutations(MCRequests)
=============================================================================
