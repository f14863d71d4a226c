---------------------------- MODULE MCBatchJoin ----------------------------
(* Three parents 1-3; the first has the child 4, the third the children 5  *)
(* and 6, the second none.  The children have two fields more, g and h, and *)
(* 4 and 6 have an object under each (7-10), but 4 no key for g.  The join *)
(* conditions of 3 and of 6 may have the hash code of a sibling's.  The    *)
(* rows of g and h hold the key of their parent in columns of their own;   *)
(* that of h has a narrower type than the key it refers to, which SQL does *)
(* not mind and Java does.                                                 *)
EXTENDS BatchJoin

MCObjects == 1 .. 10
MCFields == {"root", "k", "g", "h"}
MCSelect == [f \in MCFields |-> CASE f = "root" -> <<"k">>
                                  [] f = "k" -> <<"g", "h">>
                                  [] OTHER -> <<>>]
Row(o, k) == [obj |-> o, key |-> <<k, "Long">>]
NarrowRow(o, k) == [obj |-> o, key |-> <<k, "Integer">>]
MCTable == [f \in MCFields |-> CASE f = "root" -> {Row(i, 0) : i \in 1 .. 3}
                                 [] f = "k" -> {Row(4, 1), Row(5, 3), Row(6, 3)}
                                 [] f = "g" -> {Row(7, 4), Row(9, 6)}
                                 [] f = "h" -> {NarrowRow(8, 4), NarrowRow(10, 6)}]
MCColumn == [f \in MCFields |-> f]
MCClashing == {3, 6}
MCDenials == {{}, {"h"}}
NoDenial == {{}}
MCNoKey == <<-1, "none">>
MCKeyOf == [p \in (MCObjects \cup {0}) \X MCFields |->
              IF p[1] = 4 /\ p[2] = "g" THEN MCNoKey
              ELSE <<p[1], "Long">>]
=============================================================================
