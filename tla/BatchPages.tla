----------------------------- MODULE BatchPages -----------------------------
(***************************************************************************)
(* A routine that limits.yaml splits into one transaction per iteration    *)
(* (transactions.perIteration): paging.py rewrites the query of its loop   *)
(* to read a page of rows in key order, split.py emits the parts           *)
(*     Start  Targets(after, batch)  One(row)  Failed(row, exception)      *)
(*     Done   FailedBatch                                                  *)
(* and, as the comment of _caller_comment, the loop that calls them:       *)
(*     tx.run(Start); after = null;                                        *)
(*     while (!(page = tx.run(Targets(after, batch))).isEmpty()) {         *)
(*       for (r : page) try { tx.run(One(r)) }                             *)
(*                      catch (failed) { tx.run(Failed(r, failed)) }       *)
(*       after = After(last row of the page) }                             *)
(*     tx.run(Done);           // the whole failed: tx.run(FailedBatch)    *)
(* Every part is a transaction, so other clients' transactions come        *)
(* between any two of them; tx (the caller's) may fail a part, and may     *)
(* fail after the part took effect.  The driver may die and the batch be   *)
(* run again from the start.                                               *)
(***************************************************************************)
EXTENDS Integers, Sequences, FiniteSets

CONSTANTS
  Keys,         \* primary keys of the table the loop drives from
  First,        \* the value Targets starts from when after is null
  Cols, Vals,   \* columns of a joined table, and what they hold
  Jobs,         \* the routines and how they are called: query, contents of the
                \* joined tables, batch (pBatch), the optional parts it has,
                \* and whether a row leaves the query when it is handled
  MaxRuns,      \* how often the batch is run
  MaxChanges    \* how many rows other clients change

NoRow == <<>>        \* what a LEFT join gives a row that finds nothing

(* split._smallest: the value below every key of its type.  It is for     *)
(* NUMBER columns of up to 18 digits; a wider one has keys below it, which *)
(* the model leaves out.                                                   *)
ASSUME KeysAssumption ==
  /\ Keys \subseteq Int
  /\ First \in Int
  /\ \A k \in Keys : First < k

----------------------------------------------------------------------------
(* The query of the loop.  A join is to a base table or not; `key` is the   *)
(* table's primary key; its ON is a set of conditions `col op with`, where *)
(* with[k][t] is what the other side is worth for the driving row k and    *)
(* the joined row t: a value of the driving row does not depend on t, a    *)
(* column of the joined table or an expression over its columns does.      *)
(* (What an earlier join gives is a value of the driving row as long as    *)
(* that join gives it one row.)                                            *)
(* `pins`: the condition names col with the alias of the joined table, and *)
(* its other side is not a column named with that alias.                   *)

Row == [Cols -> Vals]

Leaf == [op : {"=", "<>"}, col : Cols, pins : BOOLEAN, with : [Keys -> [Row -> Vals]]]

Holds(leaf, k, t) ==
  IF leaf.op = "=" THEN t[leaf.col] = leaf.with[k][t] ELSE t[leaf.col] # leaf.with[k][t]

Matched(join, k, table) == {t \in table : \A leaf \in join.on : Holds(leaf, k, t)}

(* The rows of one joined table that a driving row meets. *)
Found(join, k, table) ==
  IF Matched(join, k, table) # {} \/ join.side # "LEFT"
    THEN Matched(join, k, table)
    ELSE {NoRow}

(* A primary key is unique. *)
Keyed(join, table) ==
  join.base /\ join.key # {} =>
    \A t, u \in table : (\A c \in join.key : t[c] = u[c]) => t = u

Lines(query, contents, k) ==
  {l \in [DOMAIN query.joins -> Row \cup {NoRow}] :
     \A i \in DOMAIN query.joins : l[i] \in Found(query.joins[i], k, contents[i])}

ResultRows(query, contents) ==
  {r \in Keys \X [DOMAIN query.joins -> Row \cup {NoRow}] :
     r[2] \in Lines(query, contents, r[1])}

KeyOf(r) == r[1]

(* What the code takes as fixed by the driving row: an unqualified column  *)
(* of the joined table, or an expression over its columns, is taken so too.*)
Pinned(join) == {leaf.col : leaf \in {f \in join.on : f.pins}}

(* Plausible error: any equality will do. *)
OneRowByAnyEquality(join) ==
  /\ join.base
  /\ join.side \in {"INNER", "LEFT"}
  /\ \A leaf \in join.on : leaf.op = "="

(* paging._joins_keep_one_row_per_key for one join. *)
OneRowAtMost(join) ==
  /\ join.base
  /\ join.side \in {"INNER", "LEFT"}
  /\ join.key # {}
  /\ join.on # {}
  /\ \A leaf \in join.on : leaf.op = "="
  /\ join.key \subseteq Pinned(join)

(* paging._page: the query is read in pages. *)
Paged(query) ==
  /\ ~query.limited                       \* no FETCH of its own
  /\ \A i \in DOMAIN query.joins : OneRowAtMost(query.joins[i])
  /\ ~query.collapsed                     \* DISTINCT, GROUP BY, aggregates
  /\ query.keyColumns = 1
  /\ query.keySelected
  /\ query.keyIsNumber
  /\ query.order \in {"none", "key"}

ASSUME JobsAssumption ==
  \A j \in Jobs :
    /\ j.batch \in Nat
    /\ \A i \in DOMAIN j.query.joins :
         /\ j.query.joins[i].on \subseteq Leaf
         /\ j.contents[i] \subseteq Row
         /\ Keyed(j.query.joins[i], j.contents[i])

----------------------------------------------------------------------------
VARIABLES
  job,        \* the routine and how it is called: fixed
  rows,       \* the rows its query can return: fixed
  matching,   \* the rows that satisfy the query now
  pc,         \* where the caller's loop is
  after,      \* the key the next page starts behind
  page,       \* the rows of the page that was read
  todo,       \* those of them One has not been called for
  count,      \* the caller's count of iterations (ERROR_INDEX)
  control,    \* what Start, Done and FailedBatch left (batch_control)
  recorded,   \* what Failed has recorded: rows and their count
  runs,       \* how often the batch was started
  changes,    \* how many rows other clients have changed
  since, seen, handled, raised     \* history of the run, for the properties

table   == <<matching, control, recorded>>
loop    == <<pc, after, page, todo, count>>
history == <<since, seen, handled, raised>>
vars    == <<job, rows, table, loop, history, runs, changes>>

Handled == {handled[i] : i \in DOMAIN handled}
Has(p)  == p \in job.parts

Init ==
  /\ job \in Jobs
  /\ rows = ResultRows(job.query, job.contents)
  /\ matching \in SUBSET rows
  /\ pc = "start" /\ after = First /\ page = {} /\ todo = {} /\ count = 0
  /\ control = "none" /\ recorded = {}
  /\ runs = 1 /\ changes = 0
  /\ since = matching /\ seen = matching /\ handled = <<>> /\ raised = {}

Goto(place) == pc' = place /\ UNCHANGED <<after, page, todo, count>>

(* Start is a transaction of its own, when the routine has one. *)
StartPart ==
  /\ pc = "start"
  /\ control' = IF Has("start") THEN "RUNNING" ELSE control
  /\ Goto("targets")
  /\ UNCHANGED <<job, rows, matching, recorded, history, runs, changes>>

(* Plausible error: the page begins with the row the last one ended with. *)
NotBefore(key) == {r \in matching : KeyOf(r) >= key}

(* ... AND key > :after ORDER BY key FETCH FIRST :batch ROWS ONLY *)
Behind(key) == {r \in matching : KeyOf(r) > key}

PageOf(p, behind) ==
  /\ p \subseteq behind
  /\ \A r \in p, s \in behind \ p : KeyOf(r) <= KeyOf(s)
  /\ p = behind \/ (IsFiniteSet(p) /\ Cardinality(p) = job.batch)
  /\ IsFiniteSet(p) => Cardinality(p) <= job.batch

(* Plausible error: LIMIT 0 is passed on. *)
NeverRefused == FALSE

Refused == Paged(job.query) /\ job.batch < 1    \* pBatch must be 1 or more

(* Plausible error: an empty page does not end the loop. *)
ReadForEver ==
  /\ pc = "targets"
  /\ ~Refused
  /\ \E p \in SUBSET matching :
       /\ IF Paged(job.query) THEN PageOf(p, Behind(after)) ELSE p = matching
       /\ page' = p
       /\ todo' = p
  /\ pc' = "rows"
  /\ UNCHANGED <<job, rows, table, after, count, history, runs, changes>>

ReadTargets ==
  /\ pc = "targets"
  /\ ~Refused
  /\ \E p \in SUBSET matching :
       /\ IF Paged(job.query) THEN PageOf(p, Behind(after)) ELSE p = matching
       /\ page' = p
       /\ todo' = p
       /\ pc' = IF p = {} THEN "done" ELSE "rows"
  /\ UNCHANGED <<job, rows, table, after, count, history, runs, changes>>

(* The next row of the page: in key order, or in any. *)
IsNext(r) == r \in todo /\ (Paged(job.query) => \A s \in todo : KeyOf(r) <= KeyOf(s))

(* What One does to its row: a routine whose rows leave the query checks   *)
(* that the row is still in it (SHIPPED -> CLOSED, DELETE).                *)
Effect(r) == matching' = IF job.leaves THEN matching \ {r} ELSE matching

OneCommits(r) ==
  /\ pc = "rows"
  /\ IsNext(r)
  /\ Effect(r)
  /\ todo' = todo \ {r}
  /\ count' = count + 1
  /\ handled' = Append(handled, r)
  /\ UNCHANGED <<job, rows, control, recorded, pc, after, page, since, seen, raised, runs, changes>>

(* tx.run(One(r)) throws: the transaction did nothing, or it committed and *)
(* the answer was lost.  With no Failed part the exception ends the loop.  *)
OneRaises(r) ==
  /\ pc = "rows"
  /\ IsNext(r)
  /\ Effect(r) \/ UNCHANGED matching
  /\ todo' = todo \ {r}
  /\ count' = count + 1
  /\ handled' = Append(handled, r)
  /\ raised' = raised \cup {r}
  /\ pc' = IF Has("failed") THEN "failing" ELSE "aborting"
  /\ UNCHANGED <<job, rows, control, recorded, after, page, since, seen, runs, changes>>

(* Plausible error: the position is counted from 0. *)
RecordFromZero(r) ==
  /\ pc = "failing"
  /\ handled # <<>> /\ r = handled[Len(handled)]
  /\ recorded' = recorded \cup {<<r, count - 1>>}
  /\ Goto("rows")
  /\ UNCHANGED <<job, rows, matching, control, history, runs, changes>>

(* Failed is called with the row and the count of the iteration. *)
RecordFailure(r) ==
  /\ pc = "failing"
  /\ handled # <<>> /\ r = handled[Len(handled)]
  /\ recorded' = recorded \cup {<<r, count>>}
  /\ Goto("rows")
  /\ UNCHANGED <<job, rows, matching, control, history, runs, changes>>

(* The page is done: read behind its last row, or leave the loop if all    *)
(* was read at once.                                                       *)
LastOf(p) == {r \in p : \A s \in p : KeyOf(s) <= KeyOf(r)}

NextPage ==
  /\ pc = "rows"
  /\ todo = {}
  /\ IF Paged(job.query)
       THEN /\ \E r \in LastOf(page) : after' = KeyOf(r)
            /\ pc' = "targets"
       ELSE pc' = "done" /\ UNCHANGED after
  /\ UNCHANGED <<job, rows, table, page, todo, count, history, runs, changes>>

DonePart ==
  /\ pc = "done"
  /\ control' = IF Has("done") THEN "DONE" ELSE control
  /\ Goto("over")
  /\ UNCHANGED <<job, rows, matching, recorded, history, runs, changes>>

(* A part other than One fails, or Targets refuses its batch: the          *)
(* exception leaves the loop.                                              *)
PartRaises ==
  /\ pc \in {"start", "targets", "failing", "done"}
  /\ Goto("aborting")
  /\ UNCHANGED <<job, rows, table, history, runs, changes>>

(* FailedBatch: what the routine's own handler recorded. *)
BatchFails ==
  /\ pc = "aborting"
  /\ control' \in {control, IF Has("failed_batch") THEN "FAILED" ELSE control}
  /\ Goto("aborted")
  /\ UNCHANGED <<job, rows, matching, recorded, history, runs, changes>>

(* The driver dies between two of its steps. *)
Crash ==
  /\ pc \notin {"over", "aborted"}
  /\ Goto("aborted")
  /\ UNCHANGED <<job, rows, table, history, runs, changes>>

(* The batch is run again, from the start, whatever ended the last run. *)
Rerun ==
  /\ pc \in {"over", "aborted"}
  /\ runs < MaxRuns
  /\ runs' = runs + 1
  /\ pc' = "start" /\ after' = First /\ page' = {} /\ todo' = {} /\ count' = 0
  /\ since' = matching /\ seen' = matching /\ handled' = <<>> /\ raised' = {}
  /\ recorded' = {}
  /\ UNCHANGED <<job, rows, matching, control, changes>>

(* Other clients: a row comes to satisfy the query, or no longer does. *)
Enters(r) ==
  /\ r \notin matching
  /\ matching' = matching \cup {r}
  /\ seen' = seen \cup {r}
  /\ UNCHANGED since

Leaves(r) ==
  /\ r \in matching
  /\ matching' = matching \ {r}
  /\ since' = since \ {r}
  /\ UNCHANGED seen

OtherClient(r) ==
  /\ changes < MaxChanges
  /\ changes' = changes + 1
  /\ Enters(r) \/ Leaves(r)
  /\ UNCHANGED <<job, rows, control, recorded, loop, handled, raised, runs>>

Driver ==
  \/ StartPart \/ ReadTargets \/ NextPage \/ DonePart \/ PartRaises \/ BatchFails
  \/ \E r \in rows : OneCommits(r) \/ OneRaises(r) \/ RecordFailure(r)

Next ==
  \/ Driver
  \/ Crash
  \/ Rerun
  \/ \E r \in rows : OtherClient(r)

(* The driver keeps running: a thread of the caller that is not stopped. *)
Spec == Init /\ [][Next]_vars /\ WF_vars(Driver)

----------------------------------------------------------------------------
(* The variables have the types of the code's. *)
TypeOK ==
  /\ matching \subseteq rows /\ since \subseteq rows /\ seen \subseteq rows
  /\ page \subseteq rows /\ todo \subseteq page
  /\ handled \in Seq(rows) /\ raised \subseteq rows
  /\ pc \in {"start", "targets", "rows", "failing", "done", "aborting", "over", "aborted"}
  /\ after \in Keys \cup {First}
  /\ count \in Nat
  /\ control \in {"none", "RUNNING", "DONE", "FAILED"}
  /\ recorded \subseteq rows \X Nat
  /\ runs \in Nat /\ changes \in Nat

(* No row is handled twice in a run, although other clients take rows out  *)
(* and put them back between the pages, rows that stay in the query are    *)
(* read again by every page that reaches them, and a failed row is still   *)
(* in it.                                                                  *)
EachOnce == \A i, j \in DOMAIN handled : handled[i] = handled[j] => i = j

(* What the docstring of _joins_keep_one_row_per_key takes for granted:    *)
(* the conditions that pin a column compare it with a value of the driving *)
(* row.                                                                    *)
DecidedByRow(query) ==
  \A i \in DOMAIN query.joins : \A leaf \in query.joins[i].on :
    leaf.pins => \A k \in Keys, t, u \in Row : leaf.with[k][t] = leaf.with[k][u]

OneRowPerKey == Paged(job.query) => DecidedByRow(job.query)

(* The batch ends normally only when, of each key of which a row was left  *)
(* in the query by the other clients all through the run, a row was handed *)
(* to One; and only when every such row was, unless the query is paged     *)
(* with several rows for a key, of which the boundary of a page skips some.*)
NoneMissed ==
  pc = "over" =>
    /\ \A r \in since : \E h \in Handled : KeyOf(h) = KeyOf(r)
    /\ OneRowPerKey => since \subseteq Handled

(* A run that ended normally has a record of every iteration that raised,  *)
(* and the count recorded with a row is its position in the run, across    *)
(* the pages (SQL%BULK_EXCEPTIONS(i).ERROR_INDEX).                         *)
FailuresOnRecord ==
  /\ pc = "over" => \A r \in raised : \E n \in 1 .. Len(handled) : <<r, n>> \in recorded
  /\ \A f \in recorded : f[2] \in DOMAIN handled /\ handled[f[2]] = f[1]

(* Every run ends, also of a routine whose rows stay in the query: the     *)
(* driver never reads the same page for ever.                              *)
EveryRunEnds == pc = "start" ~> pc \in {"over", "aborted"}

Cursor == INSTANCE BatchCursor WITH over <- pc = "over" /\ OneRowPerKey

(* The split loop implements the cursor loop it was made from; it claims   *)
(* the normal end of that loop, where every row is handled, for a query    *)
(* that is read at once or has one row per key.                            *)
ImplementsCursor == Cursor!Spec
=============================================================================
