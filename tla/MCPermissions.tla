--------------------------- MODULE MCPermissions ---------------------------
(* One node, two roles, a user of both: documents that differ in what they *)
(* let read and in the rows they let through.                              *)
EXTENDS Permissions, TLC

CONSTANTS n1, q1, q2, r1, t1, t2

MCNodes == {n1}
MCRoles == {q1, q2}
MCRequests == {r1}
MCRolesOf == [r \in MCRequests |-> MCRoles]
MCTypes == {t1, t2}
MCRows == 1 .. 2

Document(types, sets) ==
  [read |-> types,
   sets |-> [t \in MCTypes |-> IF t = t1 THEN sets ELSE {}]]

MCDocs == {Document({t1}, {}), Document({t2}, {{1}}), Document({t1}, {{2}})}

Symmetry == Permutations(MCRoles)
=============================================================================
