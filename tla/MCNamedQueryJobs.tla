------------------------- MODULE MCNamedQueryJobs -------------------------
(* A small instance of NamedQueryJobs for TLC. *)
EXTENDS NamedQueryJobs

CONSTANTS n1, n2, j1

TwoNodes == {n1, n2}
OneJob   == {j1}

=============================================================================
