------------------------------- MODULE MCPlan -------------------------------
(* Two tables, A(k, x) with an index on x and B(j, x), of up to two rows,    *)
(* x being 1, 2 or NULL: 256 contents.  Statements: joins of every side with *)
(* conditions on both sides, a table joined with itself, three tables, UNION *)
(* ALL, EXISTS and IN subqueries, and lists of key values whose parameters   *)
(* may be equal or NULL; fetched through ScalarDB SQL and the Core API, on a *)
(* storage with cross-partition scans and on one without.                    *)
EXTENDS PlanRun, TLC

MCTables    == {"A", "B"}
MCKeyColumn == "A" :> "k" @@ "B" :> "j"
MCColumns   == "A" :> {"k", "x"} @@ "B" :> {"j", "x"}
MCIndexed   == "A" :> {"x"} @@ "B" :> {}
MCBinds     == (-1) :> 1 @@ (-2) :> 1 @@ (-3) :> Null

Keys   == 1 .. 2
Values == {1, 2, Null}

Row(t, key, x) == MCKeyColumn[t] :> key @@ "x" :> x
RowsOfTable == [t \in MCTables |-> {Row(t, key, x) : key \in Keys, x \in Values}]
MCRows == RowsOfTable

Held(t) ==
  {S \in SUBSET MCRows[t] : \A r, s \in S : r[MCKeyColumn[t]] = s[MCKeyColumn[t]] => r = s}
AllContents == {"A" :> rows @@ "B" :> others : rows \in Held("A"), others \in Held("B")}
MCContents == AllContents
MCStarts ==
  {"A" :> {Row("A", 1, Null), Row("A", 2, 1)} @@ "B" :> {Row("B", 1, 2)},
   "A" :> {Row("A", 1, 2)} @@ "B" :> {Row("B", 1, 1), Row("B", 2, Null)}}

Put(t, key, rows) == [u \in MCTables |-> IF u = t THEN [keys |-> {key}, rows |-> rows] ELSE [keys |-> {}, rows |-> {}]]
MCWrites ==
  {Put("A", 1, {}), Put("A", 1, {Row("A", 1, 2)}), Put("A", 2, {Row("A", 2, 1)}), Put("B", 2, {}),
   Put("B", 1, {Row("B", 1, Null)}), Put("B", 2, {Row("B", 2, 1)}),
   "A" :> [keys |-> {1}, rows |-> {}] @@ "B" :> [keys |-> {1}, rows |-> {Row("B", 1, 1)}]}

----------------------------------------------------------------------------
a(c) == [alias |-> "a", col |-> c]
b(c) == [alias |-> "b", col |-> c]
d(c) == [alias |-> "d", col |-> c]

Is(ref, v)     == [op |-> "=", ref |-> ref, val |-> v]
IsNot(ref, v)  == [op |-> "<>", ref |-> ref, val |-> v]
IsNull(ref)    == [op |-> "IS NULL", ref |-> ref]
Same(ref, s)   == [op |-> "SAME", ref |-> ref, other |-> s]
In(ref, vs)    == [op |-> "IN", ref |-> ref, vals |-> vs]
InQuery(ref, s) == [op |-> "IN QUERY", ref |-> ref, query |-> s]
Exists(s)      == [op |-> "EXISTS", query |-> s]
And(e, f)      == [op |-> "AND", args |-> <<e, f>>]
Or(e, f)       == [op |-> "OR", args |-> <<e, f>>]

From(t, alias)           == [table |-> t, alias |-> alias, side |-> "FROM", on |-> Always]
JoinOn(t, alias, side, e) == [table |-> t, alias |-> alias, side |-> side, on |-> e]
Select(tables, e, out)   == [tables |-> tables, where |-> e, out |-> out, star |-> FALSE]

(* 1. joins of A and B *)
OnBoth ==
  {Is(b("x"), 1), IsNot(b("x"), 1), IsNull(b("x")), Not(IsNull(b("x"))), Is(a("x"), 1), IsNull(a("x")),
   Or(Is(b("x"), 1), IsNull(b("x"))), Or(Is(a("x"), 1), Is(b("x"), 1)),
   And(Is(a("x"), 1), Not(Or(Is(b("x"), 1), IsNull(b("x"))))),
   Not(And(Is(a("x"), 1), Not(Is(b("x"), 2)))), In(b("x"), <<1, 2>>), Not(In(b("x"), <<1, -3>>)),
   Or(And(Is(a("x"), 1), Is(b("x"), 1)), And(IsNot(a("x"), 1), IsNot(b("x"), 1)))}

JoinPairs ==
  {<<Select(<<From("A", "a"), JoinOn("B", "b", side, on)>>, e, <<a("x"), b("j")>>)>> :
     side \in {"INNER", "LEFT", "RIGHT"}, on \in {Same(a("k"), b("j")), Same(a("x"), b("x"))}, e \in OnBoth}

(* 2. the same table under two names, and three tables *)
Selfs ==
  {<<Select(<<From("A", "a"), JoinOn("A", "d", side, Same(a("x"), d("k")))>>, e, <<a("k"), d("x")>>)>> :
     side \in {"INNER", "LEFT"},
     e \in {Is(a("x"), 1), And(Is(a("x"), 1), Is(d("x"), 1)), And(Is(a("x"), 1), Is(d("x"), 2)), Is(d("x"), 1)}}
Threes ==
  {<<Select(<<From("A", "a"), JoinOn("B", "b", side, Same(a("k"), b("j"))), JoinOn("A", "d", "RIGHT", Same(b("x"), d("k")))>>,
            e, <<a("k"), b("j"), d("x")>>)>> :
     side \in {"INNER", "LEFT"}, e \in {IsNull(b("x")), Not(IsNull(b("x"))), Is(b("x"), 1)}}

(* 3. UNION ALL and subqueries *)
Of(t, alias, e, out) == Select(<<From(t, alias)>>, e, out)
Unions ==
  {<<Of("A", "a", Is(a("x"), 1), <<a("x")>>), Of("A", "d", e, <<d("x")>>)>> : e \in {Is(d("x"), 1), Is(d("x"), 2), Always}}
    \cup {<<Of("A", "a", Is(a("x"), 1), <<a("x")>>), Of("B", "b", IsNull(b("x")), <<b("x")>>)>>}
Subs ==
  LET corr(e) == Of("B", "b", And(Same(b("j"), a("k")), e), <<b("x")>>)
      in(e)   == Of("B", "b", e, <<b("x")>>)
      self(e) == Of("A", "d", e, <<d("x")>>)
  IN  {<<Of("A", "a", e, <<a("k")>>)>> :
         e \in {Exists(corr(Is(b("x"), 1))), Not(Exists(corr(IsNot(b("x"), 1)))),
                And(IsNull(a("x")), Exists(corr(Always))), Or(Is(a("x"), 1), InQuery(a("k"), in(Always))),
                InQuery(a("k"), in(Is(b("j"), 1))), Not(InQuery(a("k"), in(Not(Is(b("j"), 1))))),
                And(Is(a("x"), 1), InQuery(a("k"), self(Is(d("x"), 1)))),
                And(Is(a("x"), 1), InQuery(a("k"), self(Is(d("x"), 2))))}}

(* 4. lists of key values *)
Lists ==
  {<<Of("A", "a", e, <<a("k"), a("x")>>)>> :
     e \in {In(a("k"), <<1, 2>>), In(a("k"), <<-1, -2>>), In(a("k"), <<-1, -3>>), In(a("x"), <<-1, 1>>),
            And(In(a("k"), <<1, -2>>), Is(a("x"), -3)), And(In(a("x"), <<1, 2>>), In(a("k"), <<1, 2>>)),
            And(IsNull(a("x")), In(a("k"), <<-2, -1>>)), And(Is(a("k"), 1), Is(a("k"), 2)),
            And(Is(a("x"), 1), IsNot(a("x"), 2))}}

(* 5. no table, and every column *)
Dual  == {<<Select(<<>>, Always, <<>>)>>}
Stars ==
  {<<[Select(<<From("A", "a"), JoinOn("B", "b", side, e)>>, Is(a("x"), 1), <<a("k"), b("j"), b("x")>>) EXCEPT !.star = TRUE]>> :
     side \in {"NATURAL", "RIGHT"}, e \in {Same(a("k"), b("j"))}}

Statements == JoinPairs \cup Selfs \cup Threes \cup Unions \cup Subs \cup Lists \cup Dual \cup Stars

(* 6. a NATURAL JOIN, whose common column x the statement does not name *)
NaturalJoins == {<<Select(<<From("A", "a"), JoinOn("B", "b", "NATURAL", Always)>>, Always, <<a("k"), b("j")>>)>>}

(* The parts of the statements, and how large each is *)
IsSelect(x) == "tables" \in DOMAIN x

RECURSIVE PartsOf(_), SizeOf(_)
PartsOf(x) ==
  {x} \cup (IF IsSelect(x) THEN PartsOf(x.where) \cup UNION {PartsOf(x.tables[i].on) : i \in DOMAIN x.tables}
            ELSE UNION {PartsOf(y) : y \in Operands(x) \cup Queries(x)})
SizeOf(x) ==
  IF IsSelect(x) THEN 1 + SizeOf(x.where) + SumSet({SizeOf(x.tables[i].on) + Len(x.tables) : i \in DOMAIN x.tables})
  ELSE 1 + SumSet({SizeOf(y) : y \in Operands(x) \cup Queries(x)})

Phrases == UNION {UNION {PartsOf(q[i]) : i \in DOMAIN q} : q \in Statements \cup NaturalJoins}

MCAliases    == {"a", "b", "d"}
Formulas == {x \in Phrases : ~IsSelect(x)}
Blocks   == {x \in Phrases : IsSelect(x)}

MCConditions == Formulas
MCSelections == Blocks
MCSize       == [x \in Phrases |-> SizeOf(x)]

Job(q, storage, fetcher, owned, limit) ==
  [query |-> q, storage |-> storage, fetcher |-> fetcher, owned |-> owned, limit |-> limit]

Some == Subs \cup Dual \cup {q \in JoinPairs : q[1].tables[2].side = "LEFT" /\ q[1].where \in {Is(b("x"), 1), IsNull(a("x"))}}

MCJobs ==
  {Job(q, "jdbc", fetcher, TRUE, 2) : q \in Statements, fetcher \in {"jdbc", "core"}}
    \cup {Job(q, "other", fetcher, TRUE, 2) : q \in {x \in Lists : ~Blocked(x, "other")}, fetcher \in {"jdbc", "core"}}
    \cup {Job(q, "jdbc", "jdbc", owned, limit) : q \in Some, owned \in BOOLEAN, limit \in 1 .. 2}
(* What the theorems about plans assume of their statements *)
ASSUME NaturalAssumption == \A q \in Statements : StarOverNatural(q)

NaturalJobs == {Job(q, "jdbc", fetcher, TRUE, 2) : q \in NaturalJoins, fetcher \in {"jdbc", "core"}}
=============================================================================
