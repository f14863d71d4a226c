--------------------------- MODULE MCModelServices ---------------------------
(* Two requests on one node, and a second node that only consumes.         *)
EXTENDS ModelServices

CONSTANTS n1, n2, r1, r2

TwoNodes    == {n1, n2}
TwoRequests == {r1, r2}

(* Nodes meet through the announcements only, so a request on the second   *)
(* node is one on the first.  Of two requests of different kinds it does   *)
(* not matter which is which.                                              *)
OnePlace ==
  /\ Init /\ at = [r \in Requests |-> n1]
  /\ <<kind[r1], kind[r2]>> \notin {<<"get", "post">>, <<"refresh", "post">>,
                                    <<"refresh", "get">>}

FairOnePlace == OnePlace /\ [][Next]_vars /\ Fairness
=============================================================================
