---------------------------- MODULE MCFilterSets ----------------------------
(* Filter sets of up to three levels over two columns, alone and with row  *)
(* security of one or two roles, with and without a joined type.           *)
EXTENDS FilterSets

Col == {"a", "b"}

Leaf(fs, op, not) ==
  [has |-> {"filters"}, filters |-> fs, filtersets |-> <<>>, op |-> op, not |-> not,
   sent |-> TRUE]
Node(sets, op, not) ==
  [has |-> {"filtersets"}, filters |-> <<>>, filtersets |-> sets, op |-> op, not |-> not,
   sent |-> TRUE]

None == [Leaf(<<>>, "none", FALSE) EXCEPT !.has = {}]
Both(l, n) == [l EXCEPT !.has = {"filters", "filtersets"}, !.filtersets = n.filtersets]

F(c, not) == [column |-> c, not |-> not]
A == F("a", FALSE)
NotA == F("a", TRUE)
B == F("b", FALSE)

Ops == {"AND", "OR", "none"}
Leaves ==
  {Leaf(fs, op, not) : fs \in {<<>>, <<A>>, <<B>>, <<NotA>>, <<A, B>>, <<B, NotA>>},
                       op \in Ops, not \in BOOLEAN}
Inner == {Leaf(<<A>>, "none", FALSE), Leaf(<<B>>, "AND", TRUE),
          Leaf(<<A, B>>, "OR", FALSE), Leaf(<<A, B>>, "AND", TRUE)}
Nodes == {Node(sets, op, not) : sets \in {<<x>> : x \in Inner}
                                  \cup {<<x, y>> : x \in Inner, y \in Inner},
                                op \in Ops, not \in BOOLEAN}
Deep == {Node(<<x, Leaf(<<B>>, "none", FALSE)>>, "AND", FALSE) : x \in Nodes}
Odd == {[None EXCEPT !.op = "AND"],
        Both(Leaf(<<A>>, "none", FALSE), Node(<<Leaf(<<B>>, "none", FALSE)>>, "none", FALSE))}

Trees == Leaves \cup Nodes \cup Deep \cup Odd
Securities == {<<>>, << <<A>> >>, << <<A, B>> >>, << <<NotA>>, <<B>> >>}
Joins == {None, Leaf(<<B, A>>, "OR", TRUE)}

MCQueries ==
  [model : {"SINGLE", "MULTI"}, scroll : {FALSE}, asked : Trees,
   joined : Joins, security : Securities]
  \cup [model : {"SINGLE", "MULTI"}, scroll : {TRUE}, asked : {None},
        joined : Joins, security : Securities]

(* The sets that are sent, what row security makes of them, joined with    *)
(* either operator, and all the sets in them.                              *)
Roles == {RowSecurity(s) : s \in Securities \ {<<>>}}
Asked == Trees \cup Joins
AllSets ==
  Asked \cup Inner \cup Roles \cup UNION {Range(r.filtersets) : r \in Roles}
  \cup {SetOf(op, <<s>>) : op \in Operators, s \in Roles \cup Asked}
  \cup {SetOf(op, <<r, a>>) : op \in Operators, r \in Roles, a \in Asked}
DepthOf[fs \in AllSets] ==
  IF fs.filtersets = <<>> THEN 0
  ELSE 1 + Max({DepthOf[s] : s \in Range(fs.filtersets)})

(* TLC evaluates each of the definitions above once. *)
MCSets == AllSets
MCDepth == DepthOf
=============================================================================
