# Verification of sql-migration

`sql-migration` moves applications from Oracle (also PostgreSQL and MySQL) to ScalarDB. It parses PL/SQL and SQL,
decides for every routine whether it may be generated unattended (AUTO), needs a review (REVIEW) or a redesign
(REDESIGN), generates Java, brings a runtime for the generated code, and has a workflow in which people approve what
was found, decided and converted. The modules here state what the stateful and order-dependent parts of it promise,
check them with TLC on small instances, and prove the most important ones with TLAPS for all instances.

Paths below are relative to `src/`.

## 1. The system

| component | state | operations | interacts with | hard behaviour | correct when | here |
|---|---|---|---|---|---|---|
| `CountersSequences` (`runtime-java/.../plsql/`) | a table of counters in the database; per instance the range it holds and a monitor per name | `next` (take from the range, or reserve a block in a transaction of its own, up to 10 attempts) | threads of all instances, through the database | races on the counter row, lost commit answers, crashes, interrupted waits, a database that hangs | no number twice, none silently dropped, order, every call ends, names do not block one another | modelled, proved |
| sequence policies (`plsql/sequences.py`) | none | DDL and overrides to block sizes and seed rows | `CountersSequences` | block 0, INCREMENT BY | block >= 1 | as constants |
| `migrate-flow` (`skills/migrate-flow/scripts/flow.py`) | `flow.yaml`: approvals with fingerprints, the test, the evidence | `init`, `adopt`, `approve`, `gate`, `tested`, `status` | files of the other skills and of people; other commands at the same time | files change between check and save; lost updates; kills while writing; advice that invalidates itself | a test stands for what was tested; no silent question; following the advice ends | modelled, proved |
| rule engine (`plsql/rules/engine.py`) | decisions by routine, changed while they propagate | `decide`, `_verdict`, `_propagate` | call graph, evidence | cycles, order of visiting | verdict is the worst reachable; AUTO is backed by evidence | modelled, proved |
| evidence (`plsql/review.py`, `fingerprint.py`) | comparison report with the fingerprints it was made for | `evidence_from_diff`, `credit_private_callees` | difftest (captures), the edited sources | stale results, results of several moments, indirect evidence | only what was measured on the present files counts | modelled, proved |
| program analysis (`plsql/analysis.py`) | call graph, effects | reachability, `written_after`, `write_then_scan` | engine, generator | loops and handlers in the flow of control | a superset of what can happen | graph in Verdict, `written_after` in ScanAnalysis |
| capability (`plsql/capability.py`, `rmw.py`, `bulk.py`, `cursors.py`) | written tables along a path | `scan_after_write`, `annotate` | analysis | COMMIT on some paths, back edges, inlined calls | no scan ScalarDB refuses is missed, none is reported in vain | modelled |
| plan decomposer (`scalardb_migrate/decomposer.py`) | none | a SELECT to fetches (predicates, columns, access path) and a residual query | converter, plan runtime | predicates of several scopes, outer joins, NULL, columns nobody names | fetched rows suffice for the answer | modelled in FetchPlan, proved |
| plan runtime (`runtime-java/.../runtime/`) | a transaction, rows of each table, an in-memory database | `execute`, `fetch`, `load`, `query` | ScalarDB/JDBC, H2, the caller's transaction | reads at several moments, joined transactions, row limit, second load of a table, failures | answered as of the commit, or an exception; the owner ends the transaction | modelled in PlanRun, proved |
| batches (`plsql/paging.py`, `plsql/gen_java/split.py`) | the caller's loop: key, page, count | `Start`, `Targets`, `One`, `Failed`, `Done`, `FailedBatch`, each a transaction | other clients of the tables, the caller's `tx.run` | rows entering and leaving between pages, joins, lost answers, restarts | every row once, none skipped, failures on record | modelled, proved |
| GOTO (`plsql/goto.py`) | the routine, its ranges and names | `rewrite`, `_nest`, `_build` | lowering, everything that reads the IR | crossing ranges, captured EXITs | the rebuilt routine does what it did | modelled, nesting proved |
| `Hierarchy` (`appside/Hierarchy.java`), collections and cursors (`plsql/Plsql.java`) | stack and ancestors; sparse collections | `connectBy`; `extend`, `delete`, `fetch` | generated code | cycles against diamonds, holes | equals CONNECT BY | not yet |
| skills around the engine (`decision_items.py`, `migration_doc.py`, `spec_facts.py`, `plsql/cli.py`) | the record of decisions, documents | `scan`, `set`, `facts`, analysis | `migrate-flow` | read and written at any time | as far as the workflow sees them | in MigrateFlow, Verdict |
| SQL converter, front end, lowering, rest of the generator, text helpers (`OracleFormat`, `OracleRegex`, `Nls`) | none that outlives a call | text to text | each other | dialects | tests and golden files | no |
| explorer, anonymizer, command lines, generated parser, byte copies of `scalardb_migrate` | none | | | | | no |

The hazards of the code, each at its line and with the properties that would show it going wrong, are listed in
`PROJECT.json`.

## 2. Modules

| module | models | extends / uses |
|---|---|---|
| `BlockAllocator` | the promise of a numbering service: blocks are reserved in one atomic step | |
| `Counters` | `CountersSequences.java`, its threads, processes and two kinds of database | `INSTANCE BlockAllocator` (refinement) |
| `CountersProofs` | type correctness, inductive invariant; the refinement, the safety of the allocator and what follows | `Counters` |
| `MigrateFlow` | `flow.py` for `kind: plsql`, and everyone who writes its files | |
| `MigrateFlowProofs` | its safety | `MigrateFlow` |
| `Verdict` | comparisons, `evidence_from_diff`, `credit_private_callees`, `decide`, `_propagate` | |
| `VerdictProofs` | what AUTO means | `Verdict` |
| `ScanAnalysis` | `scan_after_write`, `write_then_scan`, and the programs they read | |
| `ScanProofs` | that the recursive functions of the walk are defined, and what they compute | `ScanAnalysis` |
| `WriteThenScan` | the execution they speak about | `ScanAnalysis` |
| `WriteThenScanProofs` | that no run escapes the analysis, and that it is exact without loops and calls | `WriteThenScan`, `ScanProofs` |
| `BatchCursor` | the promise of a cursor loop over rows that others change | |
| `BatchPages` | the page query, the parts and the loop of a batch split into transactions | `INSTANCE BatchCursor` (refinement) |
| `BatchProofs` | its safety and the refinement | `BatchPages` |
| `GotoNest` | `_nest`: widening crossing ranges, one comparison a step | |
| `GotoNestProofs` | its safety | `GotoNest` |
| `Goto` | the rest of `goto.py`, and the run of a routine before and after | `GotoNest` (composed: `Widen` is its step) |
| `PlanTables` | tables, rows, keys | |
| `FetchPlan` | `decompose`, what the fetchers read, and what a SELECT means | `PlanTables` |
| `PlanRun` | `PlanRunner.execute`, the fetchers, `Residual`, the transaction, other clients | `FetchPlan` |
| `PlanRunProofs` | that the fetches of a plan suffice, and the safety of a run | `PlanRun` |
| `MCCounters`, `MCMigrateFlow`, `MCVerdict`, `MCWriteThenScan`, `MCBatchPages`, `MCGoto`, `MCPlan` | values of the constants for TLC | |

### Counters

`pc[t]` is where a thread is inside `next`/`allocate`; a step is what happens between two points where another thread,
process or the database may act: entering the monitor, the SELECT, the UPDATE, the commit, and the return. `held`,
`lock` (the monitors) belong to an instance, `table` and `rowLock` to the database. `locking` chooses between the two
kinds of database the class comment speaks of: one that locks the row and re-evaluates the condition of the UPDATE
(READ COMMITTED), and one that lets writers run and rejects the second at commit (Consensus Commit). `Fail` is any
exception before a commit takes effect, `LoseAck` a commit that takes effect and is reported as failed, `Crash` the
death of a process. `handed`, `since` and `lost` are history: what was returned in which order, what a caller could
know when it asked, and what nobody can return any more. The random length of the pause between attempts is left out;
that it may be interrupted is not.

### MigrateFlow

A file is represented by what it was made from: `generated` by the source and the limits it was generated with, `docs`
by the facts it states, an approval's fingerprint by the contents it is a digest of. Every command is a sequence of
steps with the files read where the code reads them, so an edit may fall between the check of a stage and the
fingerprint that is saved, between the first and the second load of `flow.yaml` in `tested`, or between the steps of
`adopt`, which compares, removes, copies and saves (`CheckAdopted`, `RemoveOld`, `CopyNew`, `SaveAdopted`). `save` first
empties the file (`Torn`). The other tools and people are actions on the files.

`Guided` is a person (`Person`) who does what `status` says (`Advice`, from `cmd_status` and `next_command`), while files
are edited, others run commands other than `adopt` (`Interfere`), and commands are killed.

What is abstracted: `init` with other input paths is an edit; prose and diagram checks count as documents out of date;
routines that are REVIEW or REDESIGN act like an open item; `adopt` takes a folder at a time; the report of a
comparison is one file; the outcome (pass, fail) of a test is left out; an item that is out of scope is like one that
is absent. `kind: sql` and the comparison of modification times are not modelled.

### Verdict

`files` is the toolchain with the project inputs (`common`, part of every hash), a text per routine (its lines and
the rest of its package) and one per package that is only named, of constants or types. A routine's fingerprint is that
of all it reaches and of the packages those name, directly or through one another (`Depends`); it has none when a file
among them is missing or ambiguous (`Unfounded`), and then no evidence counts. A comparison takes the fingerprint, generates and runs, takes the fingerprint again and is
dropped if the two differ (`docs/design/plsql-kpi.md`); `plsql.cli` analyses the text (`Parse`), takes the fingerprint
and counts the report (`Measure`), visits the private routines (`Credit`), and judges (`Decide`, `Propagate`). The
loops of the code run in program order; the model lets every order happen, so what holds does not depend on it. The
rules' own verdict of a routine, the call graph and `unconditional_callees` are data of a program, and so are the
confidence factors other than `testEvidence` (`Others`: one is 0, their product is below the threshold, or it is not);
an edit changes a text and with it both. A factor that is too low makes the routine REVIEW (`ForReview`) and leaves its
captures alone: they go on vouching for private routines it calls. What a scenario ran is history: its routine, and everything always called by what it ran, unless an
exception cut it short.

Left out: overloads, which share an id and of which `decide` keeps the worse (`engine.py:850`); and refusals recorded for
private routines. The code looks refusals up for routines with scenarios only
(`review.py:87`), so a private routine with a refusal is credited although the docstring (`review.py:57`) says a
routine with a refusal is not; adding them would change nothing the model computes. The text that is analysed and the
files of the fingerprint may differ (an edit between `cli.py:87` and `cli.py:117`): `AutoIsTested` speaks of the
latter.

### WriteThenScan

ScalarDB refuses to scan rows the same transaction has written; AUTO prohibition 11 keeps routines that would do it
away from unattended generation, so a missed one fails in production. A program is data: routines with declarations
that call, statements (SQL, COMMIT, IF, LOOP with or without a cursor query or a WHILE condition, block with handlers,
EXIT, CONTINUE, RETURN, anything that calls) and handlers. In `ScanAnalysis`, `ScanAfterWrite` is the walk of
`capability.py`, function by function (`scans`, `callees`, `reachable`, `run`, `writes_in`, `visit`), `WriteThenScan`
the coarser walk of `analysis.py`, as functions over statement sequences; `Depth` says that statement trees are finite.
Module `WriteThenScan` runs the program: `stack` is what was entered and not yet left, the innermost first, each with
the statements left of it and the calls its next statement still has to make; every branch, number of iterations and
exception is possible, and `written` is what the open transaction has written. The verdict on the program, `reported`,
is computed in the first state, as the tool computes it before anything runs. What the walk is known to get wrong
(below) is excluded by `Covered`, of which the runs contain both sides: `MCWriteThenScan` the covered programs,
`ScanMissed` the others.

A statement is reduced to the tables it reads and writes, whether it reads by key, and what it calls. Access paths,
names in expressions and the variants of folded dynamic SQL (each read like a static statement) are left out, a
`ROLLBACK` is a `COMMIT` (both end the transaction), and one to a savepoint is no statement.

### BatchPages

`limits.yaml` may split a routine into one transaction per iteration. `Paged` is when `paging.py` rewrites the query to
pages in key order (`_page`, `_joins_keep_one_row_per_key`); the steps of the driver are the calls of the loop that
`split.py` writes as a comment for the caller (`_caller_comment`), each a transaction of its own. `pc` is where that
loop is, `after`, `page`, `todo` and `count` are its variables, `matching` is what satisfies the query at the moment;
`control` and `recorded` are what the other parts write. Other clients change `matching` between any two parts, every
part may fail, `One` may also fail after it took effect, the driver may die and the batch be started again. `One`
either takes its row out of the query or leaves it there, which is how the routines it was made for differ. `since`,
`seen`, `handled` and `raised` are history. `BatchCursor` is what `FOR r IN (query) LOOP` promises when its rows may
change under it.

What is abstracted: a row is its key and the rows a join adds to it. A condition of a join (`Leaf`) is a column, an
operator and what the other side is worth for each driving row and joined row, so the other side may be a value of the
driving row, a column of the joined table, or an expression over both. Of that `paging.py` looks at two things, which
are kept: whether it is an equality, and whether the other side is a column written with the alias of the joined table
(if not, the condition `pins` its column). The second is not the same as being decided by the driving row
(`DecidedByRow`, a notion of the properties, not of the code): see section 3. RIGHT
and FULL joins are refused by the code and not modelled, FORALL loops are split but not paged. `First` is below every
key (`KeysAssumption`): `_smallest` says so of itself, which for keys of more than 18 digits is true down to -2^63 only.

### Goto

`goto.py` looks at one sequence after the other, inner ones first (`todo`); for each it collects the ranges of the
GOTOs whose label is there (`Collect`), widens them until they nest (`Widen`, a step of `GotoNest`), and puts blocks
and loops around them (`Rewrite`) or leaves the GOTOs and reports them (`LeaveGotos`). Then (`Start`, `Run`) the
routine as written and as rebuilt run side by side: `was` and `is` are paths to the statement each is at, conditions
and exceptions go the same way in both. A run stands only at statements that can be told apart from outside; jumps and
ends of blocks are passed silently (`Settled`), and one that passes them for ever counts as `Round`. A statement is
its kind, its label and its labels; the word and the number of a name stand for the Java name `fresh` makes of it.

### FetchPlan and PlanRun

`FetchPlan` gives a SELECT two meanings. `FetchesOf` is what `decompose` and the fetchers make of it: predicates that
are pushed (`Clauses` is `_push_not`, `_expand_in` and the conjunctive normal form; `Pushed`, `Agreed`), the columns
(`Needed`), one fetch per value of a key list (`Parts`), and of these what ScalarDB SQL (`JdbcReads`) or the scan of the
Core API (`CoreReads`) reads. `Answer` is what the statement returns over tables, in three-valued logic, with outer
joins, subqueries and duplicates. `Suffices` compares the answers over the fetched rows and over the tables.

The statements are constants: `Conditions` and `Selections` are sets of trees closed under their parts, `Size` makes
them finite, `IsCondition`, `IsSelection` and `IsQuery` say what sqlglot makes of a SELECT. What is defined along a tree
(`SelectsIn`, `NamedIn`, `Clauses`) is a recursive function on these sets. So is `Meaning`: of a condition its truth in
each environment (which row each alias stands for), of the first n tables of a select the environments they make.

`PlanRun` runs a plan. A step is one fetch with its load, the commit, or the residual query; between steps other
clients write. `tx` is the runner's own transaction (`job.owned`) or the caller's, which has written `own` before and is
ended by the caller after. `SeenOf` is what the runtime sees of a scan with the limit, `Load` the first or a later load
of a table. ScalarDB is external: a scan touching what its transaction has written is refused (`Overlaps`), and a
commit reads every scan again (`Unchanged`); SERIALIZABLE is what the converter assumes by default
(`skills/sql-transpile/scripts/transpile.py:114`).
A job of `Jobs` is a query, the storage, the fetcher, whose transaction it is and the row limit; what runs is
`Planned(job)`, with the fetches that `FetchPlan` makes of the query.

Left out: CTEs and derived tables, unqualified names, composite keys, LIKE and BETWEEN (pushed like other
comparisons), conversions of values, indexes of H2, and the rewriting of the statement for H2. Predicate lists are
compared as the code compares their text. A list of keys is split however long it is: the code's bound on that
(`MAX_KEY_SPLIT`) is left out.

## 3. Runs

| run | bounds | shows |
|---|---|---|
| `MCCounters` | 2 instances, 3 threads, names with blocks of 2 and 1, 3 calls, 2 attempts, 1 crash, both databases | `NoDuplicate`, `Conservation`, `RealTimeOrder`, and that the threads implement `BlockAllocator` (`ImplementsAllocator`) |
| `CountersLive` | the same without crashes, the name with block 1 without a row | `EveryCallEnds`; `NamesIndependent`: a reservation that hangs holds up its own name only |
| `CountersGap` | small | violated: `NoGap` |
| `MCMigrateFlow` | one command at a time, one source, two contents of limits.yaml of which one raises a question, one edit | `TestCoversContents`, `NoSilentQuestion`, `NothingForgotten` |
| `FlowGuided` | a person who does what `status` says and one who runs commands, two sources, two limits, two edits or commands of the other, one kill | `TestMatchesApprovals`, `AdviceEnds` |
| `MCVerdict` | 10 programs of three routines and a package (private helper called always or not, shared, in a cycle, a chain, two public; naming the package, whose file is found or not; factors of the confidence too low), two variants, two comparisons, one edit, scenarios cut short | `AutoIsTested`, `AutoWasRun`, `WorstReachable`, `TestedIsAuto` |
| `MCWriteThenScan` | 5,373 programs of two routines over one table | `RefusedWasReported`; `NoFalseAlarm` and `CoarseCovers` for routines without loops and calls |
| `ScanMissed` | five programs | violated: `RefusedWasReported` |
| `MCBatchPages` | 3 keys, batches of 0, 1, 2 or one read, 10 joins and orders (one paged with two rows per key), with and without the optional parts, 1 change, 2 runs | `EachOnce`, `NoneMissed`, `FailuresOnRecord`, `EveryRunEnds`, and that the pages implement `BatchCursor` (`ImplementsCursor`) |
| `MCGoto` | 3,140 routines: one sequence of 4 or 5 statements with every set of up to 4 ranges; a loop, branch, or block with a handler between two statements, alone and in a loop; a handler of the routine | `Laminar`, `LandsTheSame`, `RefusedOnlyIfAsked`, `AcceptedOnlyIfNot`, `NestingEnds`; `SameRun`, `LeftIsReported`; that the rest of `goto.py` uses `GotoNest` as it wants (`ImplementsNest`) |
| `MCPlan` | 116 statements over two tables of two rows (256 contents), both fetchers, both kinds of storage, limits 1 and 2, owned and joined, 7 writes of which others make one | `Suffices`, `SameAnswer`, `LimitExact`, `EndedByItsOwner` |
| `PlanNatural` | one statement, both fetchers | violated: `Suffices` |

Why the bounds are enough for the question asked. Counters: two reservations race with two threads on different
instances; a third thread adds the monitor; three calls let a name be reserved, used up and reserved again; two
attempts contain the retry and the last attempt. MigrateFlow: generating, approving and testing are not bounded at
all, only edits and kills are; each property compares two moments, so one edit in between is what it takes to break
it (the mutants are found well inside the bounds). With one source and one command, what `TestCoversContents` says of
the specification, of kills and of commands in between is left to the proof. `TestMatchesApprovals` takes two people,
one of whom approves while the other's `tested` is between its two readings of `flow.yaml`; the commands of the other
count as edits, and one kill may leave an empty file. Nothing tells the two sources apart, so `FlowGuided`
begins with the one (`AtFirst`). Verdict: a comparison for each variant, and an edit before, during,
between or after them and between analysis and fingerprint; three routines make the shortest chain and cycle in which
direct and indirect callees differ. The proofs below remove these bounds for the safety properties of these three.
WriteThenScan: the walks treat each table
by itself, so one table suffices; the programs put every pair of sequences of at most two statements (write, scan,
COMMIT) into the parts of a branch, block or loop, statements around it and a handler that scans below it, nest
compounds two deep, and call a function in every way the code looks for. What is left out are deeper nests and longer
call chains, which the code treats by the same recursion; a program that calls itself is followed until twelve entries
are on the stack (`Deepest`), three rounds of main and f calling each other. The proofs below remove these bounds. BatchPages: three keys make a page boundary with a row before
and after it, with pages of one and of two; one change falls before, between and after the pages. Goto: crossing
needs two ranges, a fixed point that takes more than one pass three; an EXIT is captured through one compound and one
loop. The code the model rebuilds was compared with what `goto.py` makes of the same 3,140 routines: they are
identical. Plan: a table's fetch is wrong because of one row of it and the rows it is joined with, so two rows of each
table suffice; predicates combine the two sides, values, NULL, NOT, OR, IN and binds that are NULL or equal; three
tables are needed for a later RIGHT JOIN only, and are there. The proofs below remove these bounds.

`CHECK_DEADLOCK FALSE` is used in `FlowGuided`, where a finished workflow is the end, in `MCWriteThenScan`,
`ScanMissed` and `MCGoto`, where a program that has ended is, in `MCBatchPages`, where the last run is, and in
`MCPlan` and `PlanNatural`, where an ended transaction is.

### Fairness

`EveryCallEnds` and `NamesIndependent` assume weak fairness of a thread's steps: a thread that was called is
scheduled, and the database answers. Java monitors are not fair; the calls are finitely many, so no thread is
overtaken for ever. `NamesIndependent` grants this to the calls of one name only. `AdviceEnds` assumes weak fairness
of the person who follows the advice and of the steps of commands. Edits, kills and the commands of others are finitely
many and need no fairness; without that bound nothing would hold, since each person's `save` writes back the whole file
and two who follow the advice at once can undo each other's approvals for ever. `EveryRunEnds` assumes that the driver of a batch keeps running (a thread of the caller); a part of it always
ends, by its effect or by an exception, crashes and restarts are bounded and need no fairness. `NestingEnds` assumes
that `_nest`, a sequential loop, is run to its end. No other property uses fairness.

### Where the code and its words part

* `CountersGap`: after a commit whose answer is lost the block is reserved again, so the counter scheme can skip a
  number; `CountersSequences.java:24` and `plsql/sequences.py:5` say it cannot.
* `ScanMissed`: a forward GOTO is rebuilt as a block that an EXIT leaves; `visit` takes the end of the block's body
  for the only way out, so `UPDATE t; IF c THEN GOTO done; END IF; COMMIT; <<done>> SELECT .. FROM t` is not reported
  and the routine may be AUTO. `capability.py:342` says only a COMMIT every path runs through clears the written tables.
  The same run finds that `callees` (`capability.py:289`) takes each routine an expression calls once and in
  alphabetical order, and that the calls of a WHILE condition are not among what its loop repeats: `v := f(1) + f(2)`
  and `WHILE f(1) > 0 LOOP .. END LOOP` with an `f` that scans and then writes, and `v := g(1) + f(2)` with a `g` that
  writes what `f` scans, are not reported either. `Jumped`, `Repeating` and `Reordered` in `MCWriteThenScan` are the
  programs; each was also given to the code itself, with the same result.
* `PlanNatural`: the columns of a fetch are collected from the names in the statement (`decomposer.py:460`); the common
  columns of a NATURAL JOIN are named nowhere, so those that are not keys are not fetched and H2 joins on fewer columns,
  without an error; `decomposer.py:5` says the fetch has the columns the statement needs. The same holds of the columns
  of USING, but there H2 reports the missing column.

More observations are not runs:

* `_joins_keep_one_row_per_key` counts a key column of a joined table as pinned by any `=` whose other side is not a
  column written with that table's alias (`paging.py:73-77`): also by an expression over the table's own columns or by
  one of its columns without an alias. Its docstring (`paging.py:53-56`) says "Then the driving table's key is still
  unique in the result", but with `JOIN order_lines l ON l.order_id = o.order_id AND l.line_no = NVL(l.parent_line,
  l.line_no)` an order has several rows, the query is paged all the same, and the rows of an order that fall behind the
  end of a page are never handled. `SeveralRows` in `MCBatchPages` is such a query; `NoneMissed` and `ImplementsCursor`
  claim every row only where `OneRowPerKey` holds, and of the others that every key is handled. Without that proviso
  TLC finds both violated.
* The emitted caller comment calls `Targets` with `pAfterKey` while its loop advances `after` (`split.py:298-343`); the
  model has one variable. A query with `ORDER BY key DESC` is paged too, in ascending order (`paging.py:120-128` looks at
  the column only): its rows are handled in the opposite order. The model has one order "key" for both.
* A range that cannot be nested gives up all GOTOs of its sequence (`goto.py:135-142`), also those that have nothing to do
  with it; the docstring (`goto.py:15-16`) says "that GOTO stays a `Goto`".
* SQL statements call no functions in the programs of `WriteThenScan`; a PL/SQL function called from a SELECT list is left
  out.

* After an edit of limits.yaml, `decisions` may be approved again at once; the gate opens and a test is recorded for
  code generated with the earlier decisions; `flow.py:613` says the test confirmed the code with the decisions applied.
  `problems_of` (`flow.py:241`) never compares the two.
* `_propagate` compares the rules' verdict of a callee, not its verdict (`engine.py:868`): a caller can be AUTO over a
  routine that is REVIEW for want of evidence; `engine.py:858` and `review.py:144` say it cannot.
* `unconditional_callees` does not count a statement or a callee that raises as leaving (`analysis.py:407`): a private
  routine after it is credited for scenarios that ended before the call; `review.py:152` and `analysis.py:382` say it
  ran on every run. `AutoWasRun` therefore excepts scenarios that were cut short.
* `Residual.load` refuses two tables of one name from two namespaces (`Residual.java:209`), but the decomposer gives them
  one fetch (`decomposer.py:444`), so the check is not reached.
* An `OutOfMemoryError` in a fetch is no `Exception`: `execute` (`PlanRunner.java:120`) does not roll back.
  `max_rows + 1` (`CoreFetcher.java:123`) overflows for the largest limit, and LIKE with a NULL bind ends in a
  NullPointerException (`CoreFetcher.java:200`) although `params` calls a NULL argument ordinary.
* `scan_after_write` does not follow functions called by the declarations of a nested
block (`callees`, `capability.py:285`, looks at expressions; `initialisers`, 291, at the routine's declarations), while
the call graph does (`analysis.py:339`): in the model, a `Block` whose `declares` calls a scanning function after a write
breaks `RefusedWasReported`, so the programs of the run have none.
* `write_then_scan` is called "the superset"
(`engine.py:558`) of what `scan_after_write` finds; it passes over a loop body once, follows no calls and does not look
at a routine's own handlers, so it is one only under the conditions of `CoarseCovers`.
* An empty `flow.yaml`, left by a kill, makes `init` start
from nothing (`flow.py:388`) although `load` says the approvals remain (`flow.py:119`); two parallel commands lose
each other's approvals (each writes back the whole file it loaded), so `NothingForgotten` and `TestCoversContents` are
stated for one command at a time.

## 4. Proofs

All theorems hold for every value of the constants under the named assumptions of the modules
(`CountersAssumption`, `FlowAssumption`, `NoneAssumption`, `VerdictAssumption`, `StatementsAssumption`, `SortedAssumption`,
`ProgramsAssumption`, `KeysAssumption`, `JobsAssumption`, `FetchPlanAssumption`,
`PlanRunAssumption`), which TLC evaluates in
the runs.

* **Counters.** `CountersProofs` proves `TypeCorrect` and `Inductive`: `IInv` adds to the types that
  whoever is past the monitor owns it and holds nothing (`Monitors`), and that a locking database keeps the row as read
  between UPDATE and commit (`RowKept`). Both are needed: without the first a return could overwrite a range, without
  the second a commit could reserve from an old value. `Refinement` shows that every step is one
  step of the allocator or none (the commit is the reservation; a return hands out; a lost answer and a crash lose).
  `AllocatorSafe` proves the allocator safe by the invariant `Safe` (unique, accounted, disjoint), and
  `NoDuplicateHolds` and `ConservationHolds` carry that over. `OrderHolds` adds to them what is
  held or committed by an instance: it is above all the instance has returned, and a single number that was committed
  is above all its caller knew of (`HeldAhead`, `BlockAhead`), because what is returned is below the counter
  (`Conservation`) and the block starts at the counter as it is at the commit (`RowKept`).
* **MigrateFlow.** `TypeCorrect`; `TestMatches`, for any number of parallel commands and kills, by the invariant that
  the states commands have in memory are consistent too, since any of them may be written back; `TestCovers`, for one
  command at a time, by the invariant that what was tried is what is approved (`TriedIsTested`), that memory and file
  agree while a command runs (`InMemory`), and that what the gate has checked was approved (`Gated`).
  `NothingIsForgotten` follows from the same invariants; it needs that None is not itself a result (`NoneAssumption`).
  `QuestionsNoted` holds for any number of commands: every state, on file or in memory, that approves decisions over an
  open question has its reason (`HasReason`), and what approve noted is still in the record when it saves (`Noted`),
  both as long as nobody wrote the record while a command ran.
* **Verdict.** `Inductive` proves `IInv`: an undisturbed comparison ran the files it is filed under (`CaptureInv`,
  `ReportInv`), everything counted is vouched for by a public scenario that reached it (`EvidenceInv`), a verdict of
  the rules is always one of those reachable and the worst once visited (`FloorInv`), and only counted routines are
  AUTO (`VerdictInv`). From it: `AutoIsTestedHolds`, `AutoWasRunHolds`, `WorstReachableHolds`, `TestedIsAutoHolds`.
  `TestedIsAutoHolds` needs that the routine's sources are found and its own other factors are high enough, as the code
  does; of what it calls only the rules' verdicts count.
  `Reach` is the least closed set, so its transitivity, on which `WorstReachableHolds` rests for every call graph, is
  a lemma without induction.
* **WriteThenScan.** `RefusedCorrect`: whatever programs are given, of any size, nesting and call graph, if the analysis
  covers them (`AllCovered`), what ScalarDB refuses is reported of a routine on the call stack. The hypothesis is
  `Covered`, which the 5,373 programs of the run `MCWriteThenScan` satisfy, and without which the theorem is false: the run
  `ScanMissed` shows it. `ScanProofs` comes first. The walk is defined by functions that recurse over statement
  sequences, and `reachable` by one over pairs of lists; that such functions exist is itself proved, from a measure that
  shrinks (`Recursion`, `Inductive`, over the library's well-founded order on pairs): the height of the statements, for
  `reachable` the routines not seen yet. On that rest `ReachedDef` (it is the closure of the calls, in cyclic call
  graphs too), `VisitBounds` and `VisitKeeps` (the walk writes what `writes_in` says, no more, and without a COMMIT no
  less) and `CalledScans` (what a callee scans of what was written before the call is found at the statement that
  calls). `WriteThenScanProofs` proves `TypeCorrect` and then the invariant. `RefusedWasReported` is not inductive: the
  stack says nothing of how far the walk is. So each entry of the stack is given a note (`Note`): where the walk is
  when the run is there (`acc`), what may be written whenever this entry is the innermost (`start`), what the callers
  may have written (`guard`), and which tables are known to be reported of a routine below (`known`). `Fit` says what
  the note of one entry means: all the walk has found or will find of what is left is known, and nothing that is left
  scans what the callers wrote without being known. `Link` says what leaving an entry means for the one below it, for
  its end, for EXIT, for an exception and for RETURN. Every action keeps `Good`, which is `Fit` and `Link` all the way
  down. The invariant was checked with TLC on the programs of the run, with the notes as a variable, before it was
  proved. `NoFalseAlarmCorrect` and `CoarseCorrect` are about routines without loops, jumps and calls, of any size and
  nesting. The first follows from `ExactHolds`: a table the walk says is written at the end of a sequence, whatever was
  written before it, is so at the end of one of its runs, one it says is scanned is scanned in one, and one that
  `writes_in` names is written in a run that an exception cuts short. The last part is what handlers need, which start
  from whatever part of the body ran. The second compares the two analyses statement by statement (`CoarseOne`).
* **BatchPages.** `PagedKeyIsUnique` comes first: if `_page` pages a query and what its joins compare key columns with is
  decided by the driving row (`DecidedByRow`), two rows of its result with one key are the same row, because every join
  pins a whole primary key by equalities. Without that hypothesis, which the code does not check, it is false. `IInv`
  needs no such hypothesis: what was handled lies behind the window of the current page and what is left of it inside
  (`Window`), of every row which stayed in the query the key is handled, in the page, or behind the key the next one
  starts from (`Covered`, row by row for a query read at once), and where failures are on record (`Failures`). From it
  `HandledOnce` and `FailedOnRecord`, for all queries; `NothingMissed`, key by key for all queries and row by row with
  `OneRowPerKey`; and `PagesImplementCursor`: every step is one of the cursor loop or none, where the normal end of that
  loop is claimed under `OneRowPerKey`. Keys, batch sizes, joins, changes and restarts are arbitrary.
* **GotoNest.** `NestTypes`, `AcceptedNests`, `JumpsLandTheSame`, `RefusalIsJustified` and `CrossingIsRefused`, for any
  number of ranges over any number of places. `IInv` is the type, `LandsTheSame`, `Laminar`, `RefusedOnlyIfAsked`,
  `Scanned` (the pairs compared so far in a pass that changed nothing do not cross) and `Clear`, which is what makes the
  last direction inductive: as long as the ranges asked for do not cross, no forward range starts before a backward one
  it ends inside (`NonePartly`), the backward ranges stand in the order of their starts (`Sorted`) and before the forward
  ranges inside them (`HolderFirst`), and the one being compared is already as wide as the rows before it make it
  (`RowDone`); so the refusal is never met.
* **FetchPlan and PlanRun.** `FetchesAreEnough` is `Suffices` for every schema, every statement (conditions of any
  depth, any number of tables joined by any side, correlated subqueries, IN lists and binds, UNION ALL), any contents of
  the tables, both fetchers and both kinds of storage. Its only hypothesis is `NaturalUnderStar`: natural joins are under
  a star. The statements of `MCPlan` satisfy it (`NaturalAssumption`, which TLC evaluates), the one of `PlanNatural` does
  not, and there `Suffices` fails. That aliases each name one table (`IsQuery`) is a limit of the model.
  The recursive functions come first: `Recursion` proves, over the library's well-founded order of the naturals, that a
  function whose values depend on values of lower rank exists, and the functions of `FetchPlan` are instances of it with
  a rank made of `Size`. What holds of all trees is then proved by a counterexample of least size. The argument has
  three parts.
  1. *What is pushed holds.* A clause of the normal form of a true condition has a true member (`Holding`, by cases over
     the operators and the negation at once); so the predicates pushed onto an alias hold of its row (`PushedHolds`). If
     a join may leave the alias without a row, none of them is a NULL test, so it has one (`RowsSatisfy`). With the
     agreement of the scopes, every row a statement really uses is one its table's fetch reads; a key list that is split
     loses none (`PartsCover`), and the Core API reads what SQL reads or more (`CoreReadsMore`).
  2. *The joins agree.* Not every environment over the whole tables has a counterpart over what is fetched: a row that
     is not fetched can match in a LEFT JOIN and keep the row without a partner from appearing. `Forth` and `Back`, by
     induction over the tables of a select (`JoinsAgree`), say which have: those in which every table with predicates has
     a row that is fetched (`PassW`), over the fetched rows those in which it has a row at all (`PassF`). `Img` cuts each
     row of an environment to its columns; by part 1 the WHERE drops all others, on both sides. Conditions agree on
     counterparts (`CondAgree`), because the columns they name are fetched (`Needed`).
  3. *Nothing is counted twice or lost.* The key is always fetched and `Residual.load` inserts each row once, so `Img` is
     one to one (`ImgInjective`), and each row of the answer is returned as often (`AnswersAgree`). `JobFacts` says of
     the plans that `FetchesOf` makes what this rests on.

  Of the run, `IInv` relates what is loaded into H2 to what was read and in which order (`Loaded`), what was read to
  what the tables held, and the moment of the commit to both (`Viewed`, `Answered`). `RunTypes` includes that no row is
  loaded twice; `OwnerEnds` and `LimitIsExact` follow from the invariant. `AnsweredAsOfCommit` combines it with
  `PlansSuffice`, the lemma behind `FetchesAreEnough`: an answer in a committed transaction is the one over the tables
  at the commit, for any statement (under `NaturalUnderStar`), tables, writers and limits.

Only model-checked: the liveness properties (fairness is out of the prover's reach); of `Goto`, beyond what is proved of
`GotoNest`, `SameRun`, `LeftIsReported` and `ImplementsNest`, whose definitions are recursive operators over routines,
which the prover does not take; and the violations. `TypeOK` of `BatchPages` and `NestTypeOK` are proved and in no run.

## 5. Plan

What is left, in this order:

1. `Hierarchy`: the walk of `connectBy` against the recursive definition, refinement by the stack.
2. `FetchPlan`: CTEs, derived tables, composite keys, and names of two namespaces.
3. `MigrateFlow`: `kind: sql`.
4. The job that checks what a trigger did (`gen_java/checks.py`), and `generate.py`: what it checks before it writes.

### Not modelled

The greatest part of the repository is not the program's own logic: of some 243,000 lines, 197,000 are the generated
ANTLR parser (`plsql/grammar/generated/`) and several thousand are byte copies of `scalardb_migrate` under
`skills/sql-transpile`. Of the rest, the converter (`converter.py`), the lowering (`lower.py`) and the generator of
statements and expressions (`gen_java/service.py`, `repository.py`, `expr.py`) translate one text into another, clause
by clause, with no state and no order of events; what is wrong there is wrong for one SQL construct, and the tests run
each against Oracle or H2. Formatting and regular expressions of the runtime are measured against Oracle by golden
files. The explorer, the anonymizer, command lines and documentation keep no state.
