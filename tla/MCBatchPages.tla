---------------------------- MODULE MCBatchPages ----------------------------
(* Three keys, no join or one: to a table of one or two rows by its whole   *)
(* key, by part of it, by an inequality, by a condition between its own     *)
(* columns (refused when both are qualified, else paged with two rows per   *)
(* key), to a table without a key and to a subquery.                        *)
EXTENDS BatchPages

MCKeys  == 1 .. 3
MCCols  == {"a", "b"}
MCVals  == 0 .. 1

Given  == [k \in MCKeys |-> [t \in [MCCols -> MCVals] |-> IF k = 3 THEN 0 ELSE 1]]
Own(c) == [k \in MCKeys |-> [t \in [MCCols -> MCVals] |-> t[c]]]

Plain == [limited |-> FALSE, collapsed |-> FALSE, keyColumns |-> 1, keySelected |-> TRUE,
          keyIsNumber |-> TRUE, order |-> "none", joins |-> <<>>]

On(op, col, pins, with) == [op |-> op, col |-> col, pins |-> pins, with |-> with]
To(key, on) == [base |-> TRUE, side |-> "INNER", key |-> key, on |-> on]

ByA == On("=", "a", TRUE, Given)

(* l.b = NVL(l.c, l.b), or l.b = b: any b will do, and b counts as pinned. *)
SeveralRows == To({"a", "b"}, {ByA, On("=", "b", TRUE, Own("b"))})

Refusals ==
  {To({"a", "b"}, {ByA}),                         \* part of its key
   To({"a", "b"}, {ByA, On("=", "b", FALSE, Own("b"))}),      \* the rest is of the table itself
   To({"a", "b"}, {ByA, On("<>", "b", TRUE, Given)}),   \* not only equalities
   To({}, {ByA}),                                 \* a table without a key
   [To({}, {ByA}) EXCEPT !.base = FALSE]}         \* a subquery

AB(x, y) == [c \in MCCols |-> IF c = "a" THEN x ELSE y]
Parent == {AB(1, 0), AB(0, 1)}
Many   == {AB(1, 0), AB(1, 1)}

Job(query, contents, batch, parts, leaves) ==
  [query |-> query, contents |-> contents, batch |-> batch, parts |-> parts, leaves |-> leaves]
Every == {"start", "failed", "done", "failed_batch"}
Join(j) == [Plain EXCEPT !.joins = <<j>>]

MCJobs ==
  {Job(Plain, <<>>, batch, parts, leaves) :
     batch \in 0 .. 2, parts \in {Every, {"done"}}, leaves \in BOOLEAN} \cup
  {Job([Plain EXCEPT !.order = o], <<>>, 2, Every, FALSE) : o \in {"key", "other"}} \cup
  {Job(Join(j), <<Parent>>, 1, Every, TRUE) :
     j \in {To({"a"}, {ByA}), [To({"a"}, {ByA}) EXCEPT !.side = "LEFT"]}} \cup
  {Job(Join(j), <<Many>>, 1, {"done"}, TRUE) : j \in Refusals \cup {SeveralRows}} \cup
  {Job(Join(SeveralRows), <<Many>>, 2, {"done"}, FALSE)}
=============================================================================
