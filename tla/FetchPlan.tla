------------------------------ MODULE FetchPlan ------------------------------
(***************************************************************************)
(* How scalardb_migrate/decomposer.py splits a SELECT that ScalarDB cannot *)
(* run: one fetch for each base table, with the predicates ScalarDB can    *)
(* evaluate and the columns the statement needs, and the statement itself, *)
(* run by H2 over what was fetched.  And what such a statement means, so   *)
(* that the two can be compared.                                           *)
(*                                                                         *)
(* A query is a sequence of selects (UNION ALL).  A select has tables, the *)
(* first of side "FROM" and the others joined, a condition and the columns *)
(* it returns.  A condition is a tree over comparisons with a value, NULL  *)
(* tests, comparisons of two columns, IN lists and subqueries; every name  *)
(* is qualified and every alias names one table.  A value below 0 is a     *)
(* bind parameter.  A column is compared by "=" and "<>" only: the other   *)
(* operators are pushed and evaluated alike.                               *)
(*                                                                         *)
(* What is defined along the tree of a statement is a function on the      *)
(* conditions and selects there are, whose parts are among them.           *)
(***************************************************************************)
EXTENDS PlanTables, Integers, Sequences, FiniteSets, SequencesExt, FiniteSetsExt

CONSTANTS
  Indexed,    \* the columns of each table with a secondary index
  Binds,      \* the values of the bind parameters
  Aliases,    \* the names that tables have in the statements
  Conditions, \* the conditions of the statements, all their parts among them
  Selections, \* and their selects
  Size        \* the nodes in the tree of each

Null   == 0
NoRow  == [row |-> <<>>, copy |-> 0]   \* the side of an outer join that has none
Always == [op |-> "TRUE"]

Bound(v) == IF v < 0 THEN Binds[v] ELSE v

----------------------------------------------------------------------------
(* The statement: its selects and the columns it names                     *)

Operands(e) ==
  CASE e.op \in {"AND", "OR"} -> {e.args[1], e.args[2]}
    [] e.op = "NOT" -> {e.arg}
    [] OTHER -> {}

Queries(e) == IF e.op \in {"EXISTS", "IN QUERY"} THEN {e.query} ELSE {}

(* The columns a condition itself names *)
References(e) ==
  CASE e.op = "SAME" -> {e.ref, e.other}
    [] e.op \in {"=", "<>", "IS NULL", "IN", "IN QUERY"} -> {e.ref}
    [] OTHER -> {}

Reference == [alias : Aliases, col : UNION {Columns[t] : t \in Tables}]

IsCondition(e) ==
  /\ e.op \in {"TRUE", "AND", "OR", "NOT", "=", "<>", "IS NULL", "SAME", "IN", "IN QUERY", "EXISTS"}
  /\ \A d \in Operands(e) : d \in Conditions /\ Size[d] < Size[e]
  /\ \A s \in Queries(e) : s \in Selections /\ Size[s] < Size[e]
  /\ References(e) \subseteq Reference
  /\ e.op \in {"=", "<>"} => e.val \in Int
  /\ e.op = "IN" => e.vals \in Seq(Int) /\ e.vals # <<>>
  /\ e.op = "IN QUERY" => e.query.out # <<>>

IsSelection(s) ==
  /\ s.tables \in Seq([table : Tables, alias : Aliases, side : {"FROM", "INNER", "LEFT", "RIGHT", "NATURAL"},
                       on : Conditions])
  /\ \A i, j \in DOMAIN s.tables : s.tables[i].alias = s.tables[j].alias => i = j
  /\ \A i \in DOMAIN s.tables : Size[s.tables[i].on] + Len(s.tables) < Size[s]
  /\ s.where \in Conditions /\ Size[s.where] < Size[s]
  /\ s.out \in Seq(Reference) /\ s.star \in BOOLEAN

(* The first n tables of a select *)
Join(s, n) == [select |-> s, upto |-> n]
Joins      == [select : Selections, upto : Nat]

ASSUME FetchPlanAssumption ==
  /\ Conditions \cap (Selections \cup Joins) = {}
  /\ Size \in [Conditions \cup Selections -> Nat]
  /\ \A e \in Conditions : IsCondition(e)
  /\ \A s \in Selections : IsSelection(s)
  /\ IsFiniteSet(Aliases) /\ IsFiniteSet(Tables)
  /\ \A t \in Tables : KeyColumn[t] \in Columns[t]

SelectsIn[x \in Conditions \cup Selections] ==
  IF x \in Selections
    THEN {x} \cup SelectsIn[x.where] \cup UNION {SelectsIn[x.tables[i].on] : i \in DOMAIN x.tables}
    ELSE UNION {SelectsIn[y] : y \in Operands(x) \cup Queries(x)}

AllSelects(q) == UNION {SelectsIn[q[i]] : i \in DOMAIN q}

(* The tables of a query under their aliases *)
Entries(q)  == UNION {ToSet(s.tables) : s \in AllSelects(q)}
TablesOf(q) == {x.table : x \in Entries(q)}

(* The columns a condition names in its own select *)
NamedIn[e \in Conditions] == References(e) \cup UNION {NamedIn[d] : d \in Operands(e)}

Named(s) == ToSet(s.out) \cup NamedIn[s.where] \cup UNION {NamedIn[s.tables[i].on] : i \in DOMAIN s.tables}

NamesIn(q) == UNION {Named(s) : s \in AllSelects(q)}

(* A statement whose aliases each name one table, and whose names are of   *)
(* the columns of those tables                                             *)
IsQuery(q) ==
  /\ q \in Seq(Selections)
  /\ \A x, y \in Entries(q) : x.alias = y.alias => x.table = y.table
  /\ \A ref \in NamesIn(q) : \A x \in Entries(q) : x.alias = ref.alias => ref.col \in Columns[x.table]

(* A statement whose natural joins are under a star: their common columns, *)
(* which the statement does not name, are fetched then.                    *)
StarOverNatural(q) ==
  \A s \in AllSelects(q) : (\E i \in DOMAIN s.tables : s.tables[i].side = "NATURAL") => s.star

(* Whether a name is of table t: owner, and global_alias for a reference   *)
(* to an enclosing select                                                  *)
Names(q, ref, t) == \E x \in Entries(q) : x.alias = ref.alias /\ x.table = t

(* The columns of table t that a fetch reads: those named and the key *)
Needed(q, t) ==
  IF \E s \in AllSelects(q) : s.star /\ \E i \in DOMAIN s.tables : s.tables[i].table = t
    THEN Columns[t]
    ELSE {ref.col : ref \in {r \in NamesIn(q) : Names(q, r, t)}} \cup {KeyColumn[t]}

----------------------------------------------------------------------------
(* _pushdown: the predicates of one table of one select                    *)

Not(e) == [op |-> "NOT", arg |-> e]
Comparison(op, ref, val) == [op |-> op, ref |-> ref, val |-> val]

(* Every clause of one with every clause of the other *)
Crossed(c, d) ==
  [i \in 1 .. Len(c) * Len(d) |-> c[1 + ((i - 1) \div Len(d))] \o d[1 + ((i - 1) % Len(d))]]

(* The condition, or its negation, as an AND of ORs (_push_not, then       *)
(* _expand_in, then sqlglot's normalize).  IN (subquery) says nothing of   *)
(* one table.                                                              *)
Clauses[e \in Conditions] ==
  [negate \in BOOLEAN |->
     CASE e.op = "NOT" -> Clauses[e.arg][~negate]
       [] e.op = (IF negate THEN "OR" ELSE "AND") -> Clauses[e.args[1]][negate] \o Clauses[e.args[2]][negate]
       [] e.op = (IF negate THEN "AND" ELSE "OR") -> Crossed(Clauses[e.args[1]][negate], Clauses[e.args[2]][negate])
       [] e.op \in {"=", "<>"} -> <<<<Comparison(IF (e.op = "=") = negate THEN "<>" ELSE "=", e.ref, e.val)>>>>
       [] e.op = "IN" /\ ~negate -> <<[i \in DOMAIN e.vals |-> Comparison("=", e.ref, e.vals[i])]>>
       [] e.op = "IN" /\ negate -> [i \in DOMAIN e.vals |-> <<Comparison("<>", e.ref, e.vals[i])>>]
       [] e.op = "IN QUERY" -> <<<<Always>>>>
       [] OTHER -> <<<<IF negate THEN Not(e) ELSE e>>>>]

(* _leaf_predicate: what ScalarDB evaluates on one row of the table *)
IsPredicate(leaf, alias) ==
  \/ leaf.op \in {"=", "<>", "IS NULL"} /\ leaf.ref.alias = alias
  \/ leaf.op = "NOT" /\ leaf.arg.op = "IS NULL" /\ leaf.arg.ref.alias = alias

Predicate(leaf) ==
  IF leaf.op = "NOT" THEN [col |-> leaf.arg.ref.col, op |-> "IS NOT NULL", val |-> Null]
  ELSE [col |-> leaf.ref.col, op |-> leaf.op, val |-> IF leaf.op = "IS NULL" THEN Null ELSE leaf.val]

(* Plausible error: a RIGHT JOIN leaves only the FROM table without a row. *)
FromOuterJoined(s) ==
  {s.tables[i].alias : i \in {n \in DOMAIN s.tables :
     s.tables[n].side = "LEFT" \/ (n = 1 /\ \E m \in DOMAIN s.tables : s.tables[m].side = "RIGHT")}}

(* Scope.outer_joined: the aliases that a join may leave without a row *)
OuterJoined(s) ==
  {s.tables[i].alias : i \in {n \in DOMAIN s.tables :
     s.tables[n].side = "LEFT" \/ \E m \in n + 1 .. Len(s.tables) : s.tables[m].side = "RIGHT"}}

NullTest(p) == p.op \in {"IS NULL", "IS NOT NULL"}

(* The members of ss that are good, in their order *)
Kept(ss, good) ==
  LET kept[n \in 0 .. Len(ss)] ==
        IF n = 0 THEN <<>> ELSE IF ss[n] \in good THEN Append(kept[n - 1], ss[n]) ELSE kept[n - 1]
  IN  kept[Len(ss)]

Pushed(s, alias) ==
  LET holds(clause) ==
        \A i \in DOMAIN clause :
          /\ IsPredicate(clause[i], alias)
          /\ alias \in OuterJoined(s) => ~NullTest(Predicate(clause[i]))
      all     == Clauses[s.where][FALSE]
      clauses == Kept(all, {c \in ToSet(all) : holds(c)})
  IN  [i \in DOMAIN clauses |-> [j \in DOMAIN clauses[i] |-> Predicate(clauses[i][j])]]

PushedOnto(q, t) ==
  UNION {{Pushed(s, s.tables[i].alias) : i \in {n \in DOMAIN s.tables : s.tables[n].table = t}} :
         s \in AllSelects(q)}

(* One fetch serves every select and alias of the table: its predicates    *)
(* are kept only if all of them have the same.                             *)
Agreed(q, t) ==
  LET all == PushedOnto(q, t)
  IN  IF \E p \in all : all = {p} THEN CHOOSE p \in all : TRUE ELSE <<>>

----------------------------------------------------------------------------
(* _access_path and _split_key_or                                          *)

EqualColumns(groups) == {groups[i][1].col : i \in {n \in DOMAIN groups : Len(groups[n]) = 1 /\ groups[n][1].op = "="}}

CrossPartition(t, groups) == EqualColumns(groups) \cap (Indexed[t] \cup {KeyColumn[t]}) = {}

Splits(t, group) ==
  /\ \A i \in DOMAIN group : group[i].op = "=" /\ group[i].col = group[1].col
  /\ group[1].col \in Indexed[t] \cup {KeyColumn[t]}
  /\ Cardinality({group[i].val : i \in DOMAIN group}) > 1

(* The predicates of the fetches of one table: on a storage that is not    *)
(* given cross-partition scans, one fetch for each value of a key.         *)
Parts(t, groups, storage) ==
  LET able == {i \in DOMAIN groups : Splits(t, groups[i])}
      n    == Min(able)
      rest == RemoveAt(groups, n)
  IN  IF storage = "jdbc" \/ ~CrossPartition(t, groups) \/ able = {} THEN {groups}
      ELSE {<<<<p>>>> \o rest : p \in ToSet(groups[n])}

(* FULL_SCAN: the plan cannot run there. *)
Blocked(q, storage) ==
  /\ storage # "jdbc"
  /\ \E t \in TablesOf(q) : \E groups \in Parts(t, Agreed(q, t), storage) : CrossPartition(t, groups)

----------------------------------------------------------------------------
(* What a fetch reads: through ScalarDB SQL (_fetch_sql) every predicate,  *)
(* through the Core API (CoreFetcher.buildScan) those that are no OR, and  *)
(* of a key that the scan names none but its first "=".                    *)

Compares(p, v) ==
  LET w == Bound(p.val)
  IN  CASE p.op = "IS NULL"     -> v = Null
        [] p.op = "IS NOT NULL" -> v # Null
        [] p.op = "="  -> v # Null /\ w # Null /\ v = w
        [] p.op = "<>" -> v # Null /\ w # Null /\ v # w

JdbcReads(groups, row) ==
  \A i \in DOMAIN groups : \E j \in DOMAIN groups[i] : Compares(groups[i][j], row[groups[i][j].col])

CoreReads(t, groups, row) ==
  LET ands   == {i \in DOMAIN groups : Len(groups[i]) = 1}
      equal(c) == {i \in ands : groups[i][1].col = c /\ groups[i][1].op = "=" /\ Bound(groups[i][1].val) # Null}
      keyed  == IF equal(KeyColumn[t]) # {} THEN {KeyColumn[t]}
                ELSE LET c == {x \in Indexed[t] : equal(x) # {}} IN IF c = {} THEN {} ELSE {CHOOSE x \in c : TRUE}
      left(p) == p.col \in keyed /\ (p.col = KeyColumn[t] \/ p.op = "=")
  IN  /\ \A c \in keyed : Compares(groups[Min(equal(c))][1], row[c])
      /\ \A i \in ands : left(groups[i][1]) \/ Compares(groups[i][1], row[groups[i][1].col])

Reads(t, groups, row, fetcher) ==
  IF fetcher = "jdbc" THEN JdbcReads(groups, row) ELSE CoreReads(t, groups, row)

(* The fetches of a query, as the runtime performs them: of all the rows   *)
(* its table may have, those that the fetch reads.                         *)
FetchesOf(q, storage, fetcher) ==
  LET parts == SetToSeq(UNION {{[table |-> t, groups |-> g] : g \in Parts(t, Agreed(q, t), storage)} : t \in TablesOf(q)})
  IN  [i \in DOMAIN parts |->
         LET t == parts[i].table
         IN  [table |-> t, columns |-> Needed(q, t),
              keeps |-> {r \in Rows[t] : Reads(t, parts[i].groups, r, fetcher)}]]

----------------------------------------------------------------------------
(* What a query returns over tables: of each its columns and its rows, the *)
(* copies of a row numbered.  Truth is 1, Unknown or 0.  A condition is    *)
(* true in an environment: the row that each alias stands for.             *)

Unknown == 2
AsTruth(b) == IF b THEN 1 ELSE 0

NoRows == [x \in Aliases |-> NoRow]

Cell(env, ref) == IF env[ref.alias] = NoRow THEN Null ELSE env[ref.alias].row[ref.col]

Compared(v, w, b) == IF v = Null \/ w = Null THEN Unknown ELSE AsTruth(b)

AllOf(values) == IF 0 \in values THEN 0 ELSE IF Unknown \in values THEN Unknown ELSE 1
AnyOf(values) == IF 1 \in values THEN 1 ELSE IF Unknown \in values THEN Unknown ELSE 0
Negated(v)    == IF v = Unknown THEN Unknown ELSE IF v = 0 THEN 1 ELSE 0

(* In what follows m gives the meaning of the parts: of a condition its    *)
(* truth in each environment, of a join the environments that its tables   *)
(* make within each.                                                       *)
RowsOf(m, s, outer) == {env \in m[<<Join(s, Len(s.tables)), outer>>] : m[<<s.where, env>>] = 1}

TruthOf(m, e, env) ==
  CASE e.op = "TRUE" -> 1
    [] e.op = "AND" -> AllOf({m[<<e.args[1], env>>], m[<<e.args[2], env>>]})
    [] e.op = "OR"  -> AnyOf({m[<<e.args[1], env>>], m[<<e.args[2], env>>]})
    [] e.op = "NOT" -> Negated(m[<<e.arg, env>>])
    [] e.op = "IS NULL" -> AsTruth(Cell(env, e.ref) = Null)
    [] e.op \in {"=", "<>"} ->
         LET v == Cell(env, e.ref) w == Bound(e.val) IN Compared(v, w, (v = w) = (e.op = "="))
    [] e.op = "SAME" -> LET v == Cell(env, e.ref) w == Cell(env, e.other) IN Compared(v, w, v = w)
    [] e.op = "IN" ->
         LET v == Cell(env, e.ref) IN AnyOf({LET w == Bound(x) IN Compared(v, w, v = w) : x \in ToSet(e.vals)})
    [] e.op = "IN QUERY" ->
         LET v == Cell(env, e.ref)
         IN  AnyOf({LET w == Cell(r, e.query.out[1]) IN Compared(v, w, v = w) : r \in RowsOf(m, e.query, env)})
    [] e.op = "EXISTS" -> AsTruth(RowsOf(m, e.query, env) # {})

(* Whether row r of the n-th table of select s goes with the rows of env *)
Matches(m, s, n, env, r, tables) ==
  LET t == s.tables[n]
      common(i) == tables[s.tables[i].table].columns \cap tables[t.table].columns
  IN  IF t.side = "NATURAL"
        THEN \A i \in 1 .. n - 1 : \A c \in common(i) :
               LET v == Cell(env, [alias |-> s.tables[i].alias, col |-> c]) IN v # Null /\ v = r.row[c]
        ELSE m[<<t.on, [env EXCEPT ![t.alias] = r]>>] = 1

Joined(m, s, n, outer, tables) ==
  LET t    == s.tables[n]
      rows == tables[t.table].rows
      left == m[<<Join(s, n - 1), outer>>]
      match(env, r) == Matches(m, s, n, env, r, tables)
      before == {s.tables[i].alias : i \in 1 .. n - 1}
      none   == [x \in Aliases |-> IF x \in before THEN NoRow ELSE outer[x]]
  IN  IF n \notin DOMAIN s.tables THEN {outer}
      ELSE {[x[1] EXCEPT ![t.alias] = x[2]] : x \in {y \in left \X rows : match(y[1], y[2])}}
             \cup {[env EXCEPT ![t.alias] = NoRow] :
                     env \in {e \in left : t.side = "LEFT" /\ \A r \in rows : ~match(e, r)}}
             \cup {[none EXCEPT ![t.alias] = r] :
                     r \in {x \in rows : t.side = "RIGHT" /\ \A env \in left : ~match(env, x)}}

Meaning(tables) ==
  LET environments == [Aliases -> {NoRow} \cup UNION {tables[t].rows : t \in Tables}]
      m[p \in (Conditions \cup Joins) \X environments] ==
        IF p[1] \in Joins THEN Joined(m, p[1].select, p[1].upto, p[2], tables) ELSE TruthOf(m, p[1], p[2])
  IN  m

(* The rows that a query returns, with how often it returns each *)
Answer(q, tables) ==
  LET found    == UNION {{<<i, env>> : env \in RowsOf(Meaning(tables), q[i], NoRows)} : i \in DOMAIN q}
      cells(x) == [k \in DOMAIN q[x[1]].out |-> Cell(x[2], q[x[1]].out[k])]
  IN  [row \in {cells(x) : x \in found} |-> Cardinality({x \in found : cells(x) = row})]
=============================================================================
