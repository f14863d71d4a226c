--------------------------- MODULE MCTreeAssembly ---------------------------
(* Persons with two lists, one of objects that persons may share and that  *)
(* have an owner; of the list two objects have one hash code.              *)
EXTENDS TreeAssembly

MCPaths == {"Person", "list", "owner", "tags"}
MCParent == [p \in {"list", "owner", "tags"} |->
               IF p = "owner" THEN "list" ELSE "Person"]
MCLists == {"list", "tags"}
MCKeys == 1 .. 3
MCHash == [p \in MCPaths |-> [k \in MCKeys |-> IF p = "list" /\ k = 3 THEN 1 ELSE k]]

MCDatabases ==
  {[list |-> l, owner |-> o, tags |-> t] :
     l \in SUBSET {<<1, 1>>, <<1, 2>>, <<1, 3>>, <<2, 1>>},
     o \in {{<<1, 1>>, <<3, 2>>}, {<<1, 2>>, <<2, 2>>}},
     t \in SUBSET {<<1, 1>>, <<1, 2>>, <<2, 2>>}}

MCQueries ==
  [where : {[op |-> "AND", root |-> MCKeys, path |-> "Person", some |-> MCKeys],
            [op |-> "AND", root |-> {1, 2}, path |-> "tags", some |-> {2}],
            [op |-> "AND", root |-> MCKeys, path |-> "owner", some |-> {2}],
            [op |-> "OR", root |-> {1}, path |-> "owner", some |-> {2}]},
   skip : {0, 1}, limit : {1, 2}, rank : {<<2, 1, 1>>}]
=============================================================================
