--------------------------- MODULE NamedParameters ---------------------------
(***************************************************************************)
(* The parameters of a named query: NamedPreparedStatement replaces each   *)
(* :name of a text by a placeholder, preview() asks for a variable for     *)
(* each name and sets the placeholders one variable after the other, and   *)
(* every setter replaces a reference in the text that a preview shows.     *)
(*                                                                         *)
(* A text is a sequence of symbols, an identifier being one.  Left out are *)
(* the quoted name of the model, which begins and ends in the same mode    *)
(* (a text without one is PreviewRejects of NamedQueryJobs), and the line  *)
(* break: preview's pattern, whose dot matches none, rejects a text of     *)
(* several lines, so a line comment lasts to the end.                      *)
(***************************************************************************)
EXTENDS Naturals, Sequences, FiniteSets

CONSTANTS
  Texts,         \* the query texts
  Fold,          \* Fold[w]: identifier w in lower case
  Prefixed,      \* identifiers in lower case: the first is longer and begins with the second
  VariableLists, \* the sequences of variables that requests give: [name, value]
  Bad,           \* a value that does not convert to its variable's type
  Unset,         \* no value
  Rest           \* what is left of an identifier when a prefix of it is replaced

Words == DOMAIN Fold

(* A value is shown in quotes: it is no identifier and no colon. *)
Vars == [name : Words, value : STRING \ (Words \cup {":"})]

(* The symbols that the scanner, or SQL's, looks for.                      *)
Signs == {"'", "\"", "/", "*", "-", ":", "?"}

(* No sign is part of an identifier.                                       *)
ASSUME ParametersAssumption ==
  /\ Texts \subseteq Seq(STRING) /\ VariableLists \subseteq Seq(Vars)
  /\ Words \subseteq STRING \ (Signs \cup {"end"}) /\ {Bad, Unset, Rest} \subseteq STRING

VARIABLES
  text,          \* the query
  pos,           \* the next symbol to be scanned
  mode,          \* the flags of prepareStatement, of which one at most is set
  parsedQuery,   \* the text of the statement
  lstParameters, \* the names in it, in order
  variables,     \* those of the request, once they are looked at
  nextVar,       \* the variable to be set
  params,        \* the parameters of the statement
  originalSQL,   \* the text that a preview shows
  stage

paramVars == <<text, pos, mode, parsedQuery, lstParameters, variables, nextVar, params,
               originalSQL, stage>>
scanned == <<text, pos, mode, parsedQuery, lstParameters>>

(* The last three are outcomes of a statement that was ready. *)
Stages == {"scan", "check", "bind", "ready", "failed", "stream", "answer", "error"}

ParamInit ==
  /\ text \in Texts /\ originalSQL = text
  /\ pos = 1 /\ mode = "sql" /\ parsedQuery = <<>> /\ lstParameters = <<>>
  /\ variables = <<>> /\ nextVar = 1 /\ params = <<>> /\ stage = "scan"

-----------------------------------------------------------------------------
(* The symbol at k, "end" where there is none. *)
Symbol(s, k) == IF k \in 1 .. Len(s) THEN s[k] ELSE "end"

IsReference(s, k) == Symbol(s, k) = ":" /\ Symbol(s, k + 1) \in Words

(* A slip: an apostrophe in double quotes begins a literal.                *)
ModeAfterMixed(m, c, d) ==
  CASE m = "single" -> IF c = "'" THEN "sql" ELSE m
    [] m = "double" -> IF c = "\"" THEN "sql" ELSE IF c = "'" THEN "single" ELSE m
    [] m = "block"  -> IF c = "*" /\ d = "/" THEN "sql" ELSE m
    [] m = "sql" /\ c = "'"  -> "single"
    [] m = "sql" /\ c = "\"" -> "double"
    [] m = "sql" /\ c = "/" /\ d = "*" -> "block"
    [] m = "sql" /\ c = "-" /\ d = "-" -> "line"
    [] OTHER -> m

(* The flags after symbol c when d follows it. *)
ModeAfter(m, c, d) ==
  CASE m = "single" -> IF c = "'" THEN "sql" ELSE m
    [] m = "double" -> IF c = "\"" THEN "sql" ELSE m
    [] m = "block"  -> IF c = "*" /\ d = "/" THEN "sql" ELSE m
    [] m = "sql" /\ c = "'"  -> "single"
    [] m = "sql" /\ c = "\"" -> "double"
    [] m = "sql" /\ c = "/" /\ d = "*" -> "block"
    [] m = "sql" /\ c = "-" /\ d = "-" -> "line"
    [] OTHER -> m

(* charAt(i + 1) is asked for behind the last character: a text may not    *)
(* end in / or -, nor within a comment in *.                               *)
Overruns ==
  /\ pos = Len(text)
  /\ \/ mode = "sql" /\ text[pos] \in {"/", "-"}
     \/ mode = "block" /\ text[pos] = "*"

Scanning == stage = "scan" /\ pos <= Len(text)

Scan ==
  /\ Scanning /\ ~Overruns /\ ~(mode = "sql" /\ IsReference(text, pos))
  /\ mode' = ModeAfter(mode, text[pos], Symbol(text, pos + 1))
  /\ parsedQuery' = Append(parsedQuery, text[pos]) /\ pos' = pos + 1
  /\ UNCHANGED <<text, lstParameters, variables, nextVar, params, originalSQL, stage>>

ScanReference ==
  /\ Scanning /\ mode = "sql" /\ IsReference(text, pos)
  /\ lstParameters' = Append(lstParameters, text[pos + 1])
  /\ parsedQuery' = Append(parsedQuery, "?") /\ pos' = pos + 2
  /\ UNCHANGED <<text, mode, variables, nextVar, params, originalSQL, stage>>

ScanFails ==
  /\ Scanning /\ Overruns /\ stage' = "failed"
  /\ UNCHANGED <<scanned, variables, nextVar, params, originalSQL>>

Prepare ==
  /\ stage = "scan" /\ pos > Len(text)
  /\ stage' = "check" /\ params' = [k \in DOMAIN lstParameters |-> Unset]
  /\ UNCHANGED <<scanned, variables, nextVar, originalSQL>>

-----------------------------------------------------------------------------
(* equalsIgnoreCase, in the variables' equals and in getParameterIndexes.  *)
Same(a, b) == Fold[a] = Fold[b]

Given(vs, w) == \E k \in DOMAIN vs : Same(vs[k].name, w)

(* Without parameters the variables are not looked at; with parameters     *)
(* each needs a variable.                                                  *)
Check ==
  /\ stage = "check"
  /\ \E vs \in VariableLists :
       /\ variables' = vs
       /\ stage' = IF lstParameters = <<>> THEN "ready"
                   ELSE IF \A k \in DOMAIN lstParameters : Given(vs, lstParameters[k])
                        THEN "bind" ELSE "failed"
  /\ UNCHANGED <<scanned, nextVar, params, originalSQL>>

Indexes(w) == {k \in DOMAIN lstParameters : Same(lstParameters[k], w)}

(* replaceFirst("(?i):" + name, value): the pattern does not ask where the *)
(* identifier ends, nor in which mode it stands.                           *)
ReplaceFirst(s, w, v) ==
  LET Begins(k) == IsReference(s, k) /\ (Same(s[k + 1], w) \/ <<Fold[s[k + 1]], Fold[w]>> \in Prefixed)
      Matches == {k \in DOMAIN s : Begins(k)}
      first == CHOOSE k \in Matches : \A j \in Matches : k <= j
      left == IF Same(s[first + 1], w) THEN <<>> ELSE <<Rest>>
  IN IF Matches = {} THEN s
     ELSE SubSeq(s, 1, first - 1) \o <<v>> \o left \o SubSeq(s, first + 2, Len(s))

(* Once for each index. *)
Replaced(s, w, v) ==
  LET after[n \in Nat] == IF n = 0 THEN s ELSE ReplaceFirst(after[n - 1], w, v)
  IN after[Cardinality(Indexes(w))]

Binding == stage = "bind" /\ nextVar <= Len(variables)

Variable == variables[nextVar]

Convertible == Variable.value # Bad

(* A slip: the setter stops at the first index. *)
SetFirst ==
  /\ Binding /\ Convertible /\ Indexes(Variable.name) # {}
  /\ params' = [params EXCEPT ![CHOOSE k \in Indexes(Variable.name) :
                                  \A j \in Indexes(Variable.name) : k <= j] = Variable.value]
  /\ originalSQL' = Replaced(originalSQL, Variable.name, Variable.value)
  /\ nextVar' = nextVar + 1
  /\ UNCHANGED <<scanned, variables, stage>>

(* A slip: the text is replaced once, and not for each index. *)
SetRendersOnce ==
  /\ Binding /\ Convertible /\ Indexes(Variable.name) # {}
  /\ params' = [k \in DOMAIN params |->
                  IF k \in Indexes(Variable.name) THEN Variable.value ELSE params[k]]
  /\ originalSQL' = ReplaceFirst(originalSQL, Variable.name, Variable.value)
  /\ nextVar' = nextVar + 1
  /\ UNCHANGED <<scanned, variables, stage>>

(* setString, setInt, setBoolean, setDate or setTimestamp. *)
Set ==
  /\ Binding /\ Convertible /\ Indexes(Variable.name) # {}
  /\ params' = [k \in DOMAIN params |->
                  IF k \in Indexes(Variable.name) THEN Variable.value ELSE params[k]]
  /\ originalSQL' = Replaced(originalSQL, Variable.name, Variable.value)
  /\ nextVar' = nextVar + 1
  /\ UNCHANGED <<scanned, variables, stage>>

(* The value does not convert, or the text has no parameter of that name.  *)
SetFails ==
  /\ Binding /\ (~Convertible \/ Indexes(Variable.name) = {})
  /\ stage' = "failed"
  /\ UNCHANGED <<scanned, variables, nextVar, params, originalSQL>>

Bound ==
  /\ stage = "bind" /\ nextVar > Len(variables) /\ stage' = "ready"
  /\ UNCHANGED <<scanned, variables, nextVar, params, originalSQL>>

ParamNext ==
  Scan \/ ScanReference \/ ScanFails \/ Prepare \/ Check \/ Set \/ SetFails \/ Bound

-----------------------------------------------------------------------------
(* How SQL reads a text, symbol by symbol: "slash", "dash" and "star" have *)
(* seen the first half of a comment's begin or end.                        *)
Plainly(c) ==
  CASE c = "'" -> "single" [] c = "\"" -> "double" [] c = "/" -> "slash"
    [] c = "-" -> "dash"   [] OTHER -> "sql"

LexAfter(m, c) ==
  CASE m = "single" -> IF c = "'" THEN "sql" ELSE m
    [] m = "double" -> IF c = "\"" THEN "sql" ELSE m
    [] m = "line"   -> m
    [] m = "block"  -> IF c = "*" THEN "star" ELSE m
    [] m = "star"   -> CASE c = "/" -> "sql" [] c = "*" -> m [] OTHER -> "block"
    [] m = "slash" /\ c = "*" -> "block"
    [] m = "dash" /\ c = "-"  -> "line"
    [] OTHER -> Plainly(c)

Lexed(s) ==
  LET after[k \in Nat] == IF k = 0 THEN "sql" ELSE LexAfter(after[k - 1], s[k])
  IN after

(* The k-th symbol is neither in a literal nor in a comment. *)
InStatement(s, k) == Lexed(s)[k - 1] \in {"sql", "slash", "dash"}

Placeholders(s) == {k \in DOMAIN s : s[k] = "?" /\ InStatement(s, k)}

References(s) == {k \in DOMAIN s : IsReference(s, k) /\ InStatement(s, k)}

Occurs(part, s) ==
  \E k \in 0 .. Len(s) - Len(part) : SubSeq(s, k + 1, k + Len(part)) = part

(* What the scanner is not made for: a cast, a placeholder of the text's   *)
(* own, a comment whose begin or end shares a symbol with another.         *)
Plain(s) ==
  /\ Placeholders(s) = {} /\ ~Occurs(<<":", ":">>, s)
  /\ ~Occurs(<<"/", "*", "/">>, s) /\ ~Occurs(<<"*", "/", "*">>, s)

LastValue(w) ==
  LET named == {k \in DOMAIN variables : Same(variables[k].name, w)}
  IN variables[CHOOSE k \in named : \A j \in named : j <= k].value

UpTo(set, r) == Cardinality({q \in set : q <= r})

(* A statement that is ready to run has a placeholder where the text has a *)
(* reference and nowhere else, literals and comments aside, and to each is *)
(* bound the last value given for its name, whatever the case of letters,  *)
(* the order of the variables and the repetitions of a name.               *)
BoundByName ==
  stage = "ready" /\ Plain(text) =>
    LET refs == References(text) IN
    /\ Placeholders(parsedQuery) = {r - UpTo(refs, r) + 1 : r \in refs}
    /\ Len(params) = Cardinality(refs)
    /\ \A r \in refs : params[UpTo(refs, r)] = LastValue(text[r + 1])

(* No name of the text begins with another, none is in a literal or a      *)
(* comment, and no variable is given twice.                                *)
Tidy ==
  /\ Plain(text) /\ \A k \in DOMAIN text : IsReference(text, k) => k \in References(text)
  /\ \A r, q \in References(text) : <<Fold[text[r + 1]], Fold[text[q + 1]]>> \notin Prefixed
  /\ \A j, k \in DOMAIN variables : Same(variables[j].name, variables[k].name) => j = k

Meaning(s) ==
  LET from[k \in Nat] ==
        IF k > Len(s) THEN <<>>
        ELSE IF k \in References(s) THEN <<LastValue(s[k + 1])>> \o from[k + 2]
        ELSE <<s[k]>> \o from[k + 1]
  IN from[1]

(* What a preview shows is the statement that would be executed: the text  *)
(* with the bound value in place of each reference.                        *)
PreviewIsExecuted == stage = "ready" /\ Tidy => originalSQL = Meaning(text)

(* The types: a statement has as many parameters as there are names.      *)
ParamTypeOK ==
  /\ text \in Seq(STRING) /\ pos \in Nat \ {0} /\ stage \in Stages
  /\ mode \in {"sql", "single", "double", "block", "line"}
  /\ parsedQuery \in Seq(STRING \cup {"?"}) /\ lstParameters \in Seq(Words)
  /\ variables \in Seq(Vars) /\ nextVar \in 1 .. Len(variables) + 1
  /\ stage \in {"scan", "check"} => nextVar = 1
  /\ params \in [DOMAIN params -> STRING]
  /\ stage \notin {"scan", "failed"} => DOMAIN params = DOMAIN lstParameters
=============================================================================
