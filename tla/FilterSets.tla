----------------------------- MODULE FilterSets -----------------------------
(***************************************************************************)
(* From the filter set of a request to the condition of a statement:       *)
(* FilterSet validates what the user sent, SingleTraversal adds the row    *)
(* security of the user's roles, SQLQueryParser makes the condition and    *)
(* the parameters, and the database, which is external, applies them.      *)
(*                                                                         *)
(* A filter names a column, and stands for one comparison with one value;  *)
(* a row says of each column whether the comparison holds, "U" when the    *)
(* column is null.  Left out: the values and their types, an empty list of *)
(* filter sets (the query builder decides what it means), and row security *)
(* without a filter.                                                       *)
(***************************************************************************)
EXTENDS Naturals, SequencesExt

CONSTANTS
  Columns,
  Queries,      \* what is sent: [model, scroll, asked, joined, security]
  Sets,         \* filter sets: those sent, and those made of them
  Depth,        \* Depth[fs]: more than that of each set in fs
  Unfiltered    \* a filter set that is none

Filters == [column : Columns, not : BOOLEAN]
Lists == {"filters", "filtersets"}
Operators == {"AND", "OR"}

(* A filter set is made of finitely many others.  has says which of its    *)
(* two lists it was given, sent that it came with a request.               *)
ASSUME FilterSetAssumption ==
  /\ Sets \subseteq [has : SUBSET Lists, filters : Seq(Filters), filtersets : Seq(Sets),
                     op : Operators \cup {"none"}, not : BOOLEAN, sent : BOOLEAN]
  /\ Depth \in [Sets -> Nat]
  /\ \A fs \in Sets : \A i \in DOMAIN fs.filtersets :
       /\ Depth[fs.filtersets[i]] < Depth[fs]
       /\ fs.sent => fs.filtersets[i].sent
  /\ \A fs \in Sets : /\ fs.has = {"filtersets"} => fs.filtersets # <<>>
                      /\ "filtersets" \notin fs.has => fs.filtersets = <<>>
  /\ Unfiltered \in Sets /\ Unfiltered.has = {} /\ Unfiltered.sent
  /\ Queries \subseteq [model : {"SINGLE", "MULTI"}, scroll : BOOLEAN,
                        asked : {fs \in Sets : fs.sent}, joined : {fs \in Sets : fs.sent},
                        security : Seq(Seq(Filters))]

VARIABLES
  request, pc,
  filterSet,   \* of the query, as it is at this step
  joinSet,     \* of the one nested type that is joined
  where, on,   \* the conditions made of them
  parameters,  \* the columns whose values are bound, in order
  row,         \* the row that is looked at
  shown

filterVars == <<request, pc, filterSet, joinSet, where, on, parameters, row, shown>>

Truth == {"T", "F", "U"}
Rows == [Columns -> Truth]

(* A condition is what it says of each row, and the columns that its       *)
(* placeholders are compared with, in the order of its text.               *)
NoCondition == [truth |-> [r \in Rows |-> "T"], columns |-> <<>>]

FilterInit ==
  /\ request \in Queries /\ pc = "sent" /\ shown = FALSE
  /\ filterSet = request.asked /\ joinSet = request.joined
  /\ where = NoCondition /\ on = NoCondition /\ parameters = <<>>
  /\ row = [c \in Columns |-> "U"]

-----------------------------------------------------------------------------
Parts(fs) == IF "filters" \in fs.has THEN fs.filters ELSE fs.filtersets

(* The set and the sets in it. *)
Within[fs \in Sets] ==
  {fs} \cup UNION {Within[fs.filtersets[i]] : i \in DOMAIN fs.filtersets}

(* A slip: a set of several parts needs no operator. *)
AcceptedLenient(fs) == \A s \in Within[fs] : s.has \in {{"filters"}, {"filtersets"}}

(* parseQueryFilter, validateQueryFilter. *)
Accepted(fs) ==
  \A s \in Within[fs] : /\ s.has \in {{"filters"}, {"filtersets"}}
                        /\ Len(Parts(s)) > 1 => s.op # "none"

(* validateQueryFilter takes the operator from a set of one part.          *)
Operator(fs) == IF fs.sent /\ Len(Parts(fs)) <= 1 THEN "none" ELSE fs.op

Asks(fs) == fs # Unfiltered

(* buildQueryFilter, of the root and of the nested type.  An empty list of *)
(* filters is let through.                                                 *)
Validate ==
  LET ok == /\ request.scroll \/ Accepted(request.asked)
            /\ Asks(request.joined) => Accepted(request.joined)
  IN  /\ pc = "sent" /\ pc' = IF ok THEN "valid" ELSE "rejected"
      /\ filterSet' = IF ok /\ ~request.scroll THEN filterSet ELSE Unfiltered
      /\ joinSet' = IF ok THEN joinSet ELSE Unfiltered
      /\ UNCHANGED <<request, where, on, parameters, row, shown>>

SetOf(op, sets) ==
  [has |-> {"filtersets"}, filters |-> <<>>, filtersets |-> sets, op |-> op,
   not |-> FALSE, sent |-> FALSE]

(* populateRowSecurity: filters joined with AND, the sets of all roles     *)
(* with OR.                                                                *)
RowSecurity(security) ==
  SetOf("OR", [i \in DOMAIN security |->
    [has |-> {"filters"}, filters |-> security[i], filtersets |-> <<>>,
     op |-> "AND", not |-> FALSE, sent |-> FALSE]])

(* A slip: what the user asks and the row security are joined with OR.     *)
PopulateBeside(fs, security) ==
  LET sets == (IF security = <<>> THEN <<>> ELSE <<RowSecurity(security)>>)
                \o (IF Asks(fs) THEN <<fs>> ELSE <<>>)
  IN  IF sets = <<>> THEN Unfiltered ELSE SetOf("OR", sets)

(* populateFilterSetForType. *)
PopulateFilterSetForType(fs, security) ==
  LET sets == (IF security = <<>> THEN <<>> ELSE <<RowSecurity(security)>>)
                \o (IF Asks(fs) THEN <<fs>> ELSE <<>>)
  IN  IF sets = <<>> THEN Unfiltered ELSE SetOf("AND", sets)

ASSUME PopulateAssumption ==
  \A q \in Queries : \A asked \in {q.asked, q.joined, Unfiltered}, roles \in {q.security, <<>>} :
    PopulateFilterSetForType(asked, roles) \in Sets

(* SingleTraversal.execute: the root's row security, and none, here, of    *)
(* the nested type, whose set gets the AND all the same.  The MULTI model  *)
(* adds nothing and joins nothing.                                         *)
Secure ==
  /\ pc = "valid" /\ pc' = "secured"
  /\ filterSet' = IF request.model = "MULTI" THEN filterSet
                  ELSE PopulateFilterSetForType(filterSet, request.security)
  /\ joinSet' = IF request.model = "MULTI" THEN Unfiltered
                ELSE PopulateFilterSetForType(joinSet, <<>>)
  /\ UNCHANGED <<request, where, on, parameters, row, shown>>

-----------------------------------------------------------------------------
Not(v) == CASE v = "T" -> "F" [] v = "F" -> "T" [] OTHER -> "U"

Combined(op, vs) ==
  LET weak == IF op = "OR" THEN "T" ELSE "F"
  IN  IF weak \in vs THEN weak ELSE IF "U" \in vs THEN "U" ELSE Not(weak)

Negated(b, v) == IF b THEN Not(v) ELSE v

(* getBinaryOrInCondition. *)
Comparison(f) ==
  [truth |-> [r \in Rows |-> Negated(f.not, r[f.column])], columns |-> <<f.column>>]

(* A ComboCondition, in a NotCondition if the set is negated.              *)
Combo(fs, parts) ==
  [truth |-> [r \in Rows |-> Negated(fs.not,
                Combined(fs.op, {parts[i].truth[r] : i \in DOMAIN parts}))],
   columns |-> FlattenSeq([i \in DOMAIN parts |-> parts[i].columns])]

(* parseFilterSet.  A set without an operator is its first part, if it has *)
(* one.                                                                    *)
Condition[fs \in Sets] ==
  LET parts == [i \in DOMAIN Parts(fs) |->
                  IF "filters" \in fs.has THEN Comparison(fs.filters[i])
                  ELSE Condition[fs.filtersets[i]]]
  IN  IF Operator(fs) # "none" THEN Combo(fs, parts)
      ELSE IF parts = <<>> THEN NoCondition ELSE parts[1]

(* getFilters().get(0) of an empty list. *)
Fails(fs) ==
  \E s \in Within[fs] : "filters" \in s.has /\ Operator(s) = "none" /\ s.filters = <<>>

(* addParameter, once for each comparison that is made.                    *)
Binds[fs \in Sets] ==
  LET made == [i \in DOMAIN Parts(fs) |->
                 IF "filters" \in fs.has THEN <<fs.filters[i].column>>
                 ELSE Binds[fs.filtersets[i]]]
  IN  IF Operator(fs) # "none" THEN FlattenSeq(made)
      ELSE IF made = <<>> THEN <<>> ELSE made[1]

(* populateFilterArrayList: every filter of the set.                       *)
Values[fs \in Sets] ==
  FlattenSeq([i \in DOMAIN Parts(fs) |->
    IF "filters" \in fs.has THEN <<fs.filters[i].column>>
    ELSE Values[fs.filtersets[i]]])

(* A slip: a statement's conditions bind their values once. *)
ParametersOnce ==
  IF request.model = "MULTI" THEN Values[filterSet]
  ELSE Binds[joinSet] \o Binds[filterSet]

(* SQLSimpleParser.parse: the subquery and the outer query each make the   *)
(* join and the condition.  RDBMSBatchLoader.executeSql.                   *)
Parameters ==
  IF request.model = "MULTI" THEN Values[filterSet]
  ELSE LET each == Binds[joinSet] \o Binds[filterSet] IN each \o each

Generate ==
  /\ pc = "secured"
  /\ IF Fails(filterSet) \/ Fails(joinSet)
       THEN pc' = "failed" /\ UNCHANGED <<where, on, parameters>>
       ELSE /\ pc' = "generated" /\ parameters' = Parameters
            /\ where' = Condition[filterSet] /\ on' = Condition[joinSet]
  /\ UNCHANGED <<request, filterSet, joinSet, row, shown>>

-----------------------------------------------------------------------------
(* A row of the root's table. *)
Fetch ==
  /\ pc = "generated" /\ pc' = "fetched"
  /\ row' \in Rows
  /\ shown' = (where.truth[row'] = "T")
  /\ UNCHANGED <<request, filterSet, joinSet, where, on, parameters>>

FilterNext == Validate \/ Secure \/ Generate \/ Fetch

FilterSpec == FilterInit /\ [][FilterNext]_filterVars
-----------------------------------------------------------------------------
(* What the user asks of a row: every filter set, read on its own.         *)
Meant[fs \in Sets] ==
  [r \in Rows |-> Negated(fs.not, Combined(fs.op, {
    IF "filters" \in fs.has THEN Negated(fs.filters[i].not, r[fs.filters[i].column])
    ELSE Meant[fs.filtersets[i]][r] : i \in DOMAIN Parts(fs)}))]

(* Somewhere a set of one part is negated. *)
LoneNegation(fs) == \E s \in Within[fs] : s.not /\ Len(Parts(s)) = 1

Secured(r) ==
  request.model = "SINGLE" /\ request.security # <<>> =>
    \E i \in DOMAIN request.security : \A j \in DOMAIN request.security[i] :
      Negated(request.security[i][j].not, r[request.security[i][j].column]) = "T"

(* The types; a set with several parts that was accepted has an operator. *)
FilterTypeOK ==
  /\ request \in Queries /\ shown \in BOOLEAN /\ row \in Rows
  /\ pc \in {"sent", "rejected", "valid", "secured", "generated", "failed",
             "fetched"}
  /\ {filterSet, joinSet} \subseteq Sets
  /\ pc = "valid" => \A fs \in {filterSet, joinSet} : Asks(fs) => Accepted(fs)
  /\ \A c \in {where, on} : c.truth \in [Rows -> Truth] /\ c.columns \in Seq(Columns)
  /\ parameters \in Seq(Columns)

(* A row is shown if and only if the user asked for it and some set of its *)
(* row security lets it through, however the sets are nested, with three   *)
(* truth values.  Of a set of one part the negation is lost.               *)
ShowsWhatIsMeant ==
  pc = "fetched" /\ (request.scroll \/ ~LoneNegation(request.asked)) =>
    shown = (Secured(row) /\ (request.scroll \/ Meant[request.asked][row] = "T"))

(* Nothing the user can write into a filter set shows a row that no set of *)
(* the row security lets through.                                          *)
SecurityNarrows == pc = "fetched" /\ shown => Secured(row)

(* The values are bound in the order in which the statement has            *)
(* placeholders: subquery before outer query, join before condition.       *)
ParametersFit ==
  pc = "generated" =>
    LET each == on.columns \o where.columns
    IN  parameters = IF request.model = "MULTI" THEN each ELSE each \o each
=============================================================================
