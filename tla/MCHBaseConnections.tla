------------------------- MODULE MCHBaseConnections -------------------------
(* Two requests of any kind; the pages asked for are the first one, the    *)
(* last one, and one whose offset is not an int.                           *)
EXTENDS HBaseConnections

CONSTANTS r1, r2

MCRequests == {r1, r2}
MCKinds == AllKinds
MCSizes == {0, 2}
MCPages == {0, 2, 4}
=============================================================================
