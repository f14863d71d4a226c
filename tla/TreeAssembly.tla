---------------------------- MODULE TreeAssembly ----------------------------
(***************************************************************************)
(* A query of the SINGLE model.  SQLSimpleParser makes one statement of    *)
(* the root type and all nested types: a subquery selects a page of root   *)
(* objects, the outer query joins every nested type to it.  Its rows are a *)
(* cartesian product, which RDBMSSimpleLoader folds back into a tree, row  *)
(* by row, with a cache of the objects it has made.                        *)
(*                                                                         *)
(* The database is external.  An object is its primary key; its other      *)
(* columns are left out.  A key 0 is null: the row has no such object.     *)
(***************************************************************************)
EXTENDS Naturals, Sequences, FiniteSets

CONSTANTS
  Paths,       \* of the root and the nested types, "Person.addresses"
  Root,
  Parent,      \* nested path -> the path it is nested in
  Lists,       \* nested paths that hold a list
  Keys,
  Hash,        \* path -> key -> hash code of the object's cache key
  Databases,   \* nested path -> pairs of the keys of parent and child
  Queries      \* [where, skip, limit, rank]; rank: the sort field of a root

Nested == Paths \ {Root}

(* Every path leads to the root.  Joins to one object find one at most.    *)
(* Conditions that a null satisfies are left out.                          *)
ASSUME AssemblyAssumption ==
  /\ Root \in Paths /\ Parent \in [Nested -> Paths] /\ Lists \subseteq Nested
  /\ Keys \subseteq Nat \ {0} /\ Hash \in [Paths -> [Keys -> Nat]]
  /\ \A d \in Databases :
       /\ d \in [Nested -> SUBSET (Keys \X Keys)]
       /\ \A p \in Nested \ Lists : \A x, y \in d[p] : x[1] = y[1] => x = y
  /\ \A S \in SUBSET Paths :
       Root \in S /\ (\A p \in Nested : Parent[p] \in S => p \in S) => S = Paths
  /\ \A q \in Queries :
       /\ q.skip \in Nat /\ q.limit \in Nat /\ q.rank \in [Keys -> Nat]
       /\ q.where.path \in Paths /\ q.where.some \subseteq Keys

VARIABLES
  db, query,
  pc,
  resultSet,   \* rows of the statement
  todo,        \* rows that have not been read
  objectCache, \* cache keys of the objects made
  children,    \* nested path -> pairs of cache keys, parent and child
  resultList   \* root objects

treeVars ==
  <<db, query, pc, resultSet, todo, objectCache, children, resultList>>

TreeInit ==
  /\ db \in Databases /\ query \in Queries
  /\ pc = "parsed" /\ resultSet = {} /\ todo = {}
  /\ objectCache = {} /\ resultList = <<>>
  /\ children = [p \in Nested |-> {}]

-----------------------------------------------------------------------------
Row == [Paths -> Keys \cup {0}]

Linked(p, k) == {c \in Keys : <<k, c>> \in db[p]}

(* A slip: the joins are inner ones. *)
RowsInner ==
  {r \in Row : /\ r[Root] # 0
               /\ \A p \in Nested : r[p] \in Linked(p, r[Parent[p]])}

(* addJoin: left outer joins, each to the table of the path's parent.      *)
Rows ==
  {r \in Row :
     /\ r[Root] # 0
     /\ \A p \in Nested :
          LET linked == Linked(p, r[Parent[p]])
          IN  IF linked = {} THEN r[p] = 0 ELSE r[p] \in linked}

(* A filter set on the root's columns and one on those of a nested type.   *)
Passes(r) ==
  LET w == query.where
      onRoot == r[Root] \in w.root
      onPath == r[w.path] \in w.some
  IN  IF w.op = "OR" THEN onRoot \/ onPath ELSE onRoot /\ onPath

(* addSortWithPK: the sort field, then the primary key.                    *)
(* (To sort by a field named id that is not the key is left out: there the *)
(* key is not added, and equal values come in any order.)                  *)
Before(a, b) ==
  query.rank[a] < query.rank[b] \/ (query.rank[a] = query.rank[b] /\ a < b)

PageOf(roots) ==
  {a \in roots : LET i == Cardinality({b \in roots : Before(b, a)})
                 IN  query.skip <= i /\ i < query.skip + query.limit}

(* A slip: offset and limit count the rows of the joins.                   *)
SelectedRows ==
  LET passing == {r \in Rows : Passes(r)}
      first == {r \in passing : \A s \in passing :
                  s[Root] = r[Root] => \A p \in Paths : s[p] <= r[p]}
  IN  {r \in first : r[Root] \in PageOf({s[Root] : s \in passing})}

(* parse: SELECT DISTINCT of the root's columns, with the joins and the    *)
(* condition; then the joins and the condition once more.                  *)
Selected ==
  LET passing == {r \in Rows : Passes(r)}
      page == PageOf({r[Root] : r \in passing})
  IN  {r \in passing : r[Root] \in page}

Execute ==
  /\ pc = "parsed" /\ pc' = "read" /\ resultSet' = Selected /\ todo' = resultSet'
  /\ UNCHANGED <<db, query, objectCache, children, resultList>>

(* getCacheKey. *)
GetCacheKey(p, k) == <<p, k>>

(* A slip: a list holds the last object only. *)
AddLast(p, pairs, k, c) ==
  {x \in pairs : x[1] # GetCacheKey(Parent[p], k)}
    \cup {<<GetCacheKey(Parent[p], k), GetCacheKey(p, c)>>}

(* The child object is added to a TreeSet, which compares hash codes and   *)
(* keeps what it has; or put into the field.                               *)
Add(p, pairs, k, c) ==
  LET parent == GetCacheKey(Parent[p], k)
      has == \E d \in Keys : /\ <<parent, GetCacheKey(p, d)>> \in pairs
                             /\ Hash[p][d] = Hash[p][c]
      kept == IF p \in Lists THEN pairs ELSE {x \in pairs : x[1] # parent}
  IN  IF p \in Lists /\ has THEN pairs
      ELSE kept \cup {<<parent, GetCacheKey(p, c)>>}

(* parseTabularTree.  Rows come in the order of the roots.  The statement  *)
(* orders the rows of one root too; here they come in any order.           *)
ReadRow(r) ==
  /\ pc = "read" /\ r \in todo /\ \A s \in todo : ~Before(s[Root], r[Root])
  /\ todo' = todo \ {r}
  /\ objectCache' = objectCache
                      \cup {GetCacheKey(p, r[p]) : p \in {q \in Paths : r[q] # 0}}
  /\ children' = [p \in Nested |->
                    IF r[p] = 0 THEN children[p]
                    ELSE Add(p, children[p], r[Parent[p]], r[p])]
  /\ resultList' = IF GetCacheKey(Root, r[Root]) \in objectCache THEN resultList
                   ELSE Append(resultList, r[Root])
  /\ UNCHANGED <<db, query, pc, resultSet>>

Return ==
  /\ pc = "read" /\ todo = {} /\ pc' = "returned"
  /\ UNCHANGED <<db, query, resultSet, todo, objectCache, children,
                 resultList>>

(* An SQLException: DataLoaderException, and what was read is dropped. *)
Fails ==
  /\ pc \in {"parsed", "read"} /\ pc' = "failed"
  /\ resultSet' = {} /\ todo' = {} /\ objectCache' = {} /\ resultList' = <<>>
  /\ children' = [p \in Nested |-> {}]
  /\ UNCHANGED <<db, query>>

TreeNext == Execute \/ Return \/ Fails \/ \E r \in todo : ReadRow(r)

TreeSpec == TreeInit /\ [][TreeNext]_treeVars
-----------------------------------------------------------------------------
Read == resultSet \ todo

Holds(p, k, c) == <<<<Parent[p], k>>, <<p, c>>>> \in children[p]

(* The types; an object that is held, or returned, is in the cache.        *)
TreeTypeOK ==
  /\ db \in Databases /\ query \in Queries
  /\ pc \in {"parsed", "read", "returned", "failed"} /\ resultSet \subseteq Row /\ todo \subseteq resultSet
  /\ objectCache \subseteq Paths \X Keys
  /\ children \in [Nested -> SUBSET (objectCache \X objectCache)]
  /\ resultList \in Seq(Keys)
  /\ \A i \in DOMAIN resultList : <<Root, resultList[i]>> \in objectCache

(* An object holds a child only because a row says so, and what a row says *)
(* is held, or a sibling with the same hash code is.                       *)
HeldAsRead ==
  \A p \in Nested, k \in Keys, c \in Keys :
    /\ Holds(p, k, c) => \E r \in Read : r[Parent[p]] = k /\ r[p] = c
    /\ (\E r \in Read : r[Parent[p]] = k /\ r[p] = c) =>
         \E d \in Keys : Holds(p, k, d) /\ (d = c \/ Hash[p][d] = Hash[p][c])

(* Keys of roots and of what can be reached from them on a path.           *)
Reached ==
  LET to[p \in Paths] ==
        IF p = Root THEN {<<k, k>> : k \in Keys}
        ELSE {<<x[1], c>> : x \in to[Parent[p]], c \in Keys} \cap
             {y \in Keys \X Keys : \E x \in to[Parent[p]] :
                x[1] = y[1] /\ <<x[2], y[2]>> \in db[p]}
  IN  to

Matching ==
  LET w == query.where
      onPath(a) == \E b \in w.some : <<a, b>> \in Reached[w.path]
  IN  {a \in Keys : IF w.op = "OR" THEN a \in w.root \/ onPath(a)
                    ELSE a \in w.root /\ onPath(a)}

(* The page counts root objects, each once and in the order asked for, and *)
(* roots without children, whatever the joins multiply.                    *)
PageOfRoots ==
  pc = "returned" =>
    /\ {resultList[i] : i \in DOMAIN resultList} = PageOf(Matching)
    /\ \A i, j \in DOMAIN resultList :
         i < j => Before(resultList[i], resultList[j])

(* No page cuts children: an object that is returned holds what the whole  *)
(* database matches to it, as it would if its root were asked for alone.   *)
(* With OR a child that several roots share may hold more.                 *)
PageCutsNoChildren ==
  pc = "returned" /\ query.where.op = "AND" =>
    LET passing == {r \in Rows : Passes(r)}
        Codes(p, cs) == {Hash[p][c] : c \in cs}
    IN  \A p \in Nested, k \in Keys : <<Parent[p], k>> \in objectCache =>
          Codes(p, {c \in Keys : Holds(p, k, c)}) =
          Codes(p, {c \in Keys :
                      \E r \in passing : r[Parent[p]] = k /\ r[p] = c})
=============================================================================
