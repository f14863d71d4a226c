----------------------------- MODULE MCQueryRun -----------------------------
(* Texts of up to four pieces, each a reference, a literal, a comment or  *)
(* a part of one, over names that differ in case and begin with another.   *)
(* Requests give up to three variables, two of them for the same name.     *)
EXTENDS QueryRun

MCFold == [w \in {"id", "ID", "idx"} |-> IF w = "ID" THEN "id" ELSE w]
MCPrefixed == {<<"idx", "id">>}

Pieces ==
  { <<":", "id">>, <<":", "ID">>, <<":", "idx">>, <<"'">>, <<"\"">>, <<"/", "*">>,
    <<"*", "/">>, <<"-">>, <<":">>, <<"?">>, <<"and">> }

MCTexts ==
  {p \o q : p, q \in Pieces} \cup {p \o q \o r : p, q, r \in Pieces} \cup
  UNION { {<<"/", "*">> \o p \o <<"*", "/">> \o q, <<"\"">> \o p \o <<"\"">> \o q,
           <<"'">> \o p \o <<"'">> \o q, p \o <<"and">> \o q \o <<"and">>} : p, q \in Pieces }

V(n, v) == [name |-> n, value |-> v]
MCVariableLists ==
  { <<>>, <<V("id", "1")>>, <<V("idx", "2")>>, <<V("id", "bad")>>,
    <<V("id", "1"), V("ID", "2")>>, <<V("id", "1"), V("idx", "2")>>,
    <<V("idx", "1"), V("ID", "2")>>, <<V("idx", "1"), V("id", "bad")>>,
    <<V("ID", "1"), V("idx", "2"), V("id", "3")>> }
=============================================================================
