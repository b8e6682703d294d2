------------------------------- MODULE PlanRun -------------------------------
(***************************************************************************)
(* The plan runtime (runtime-java, PlanRunner.execute): the fetches of a   *)
(* plan are read through ScalarDB, one after the other, in a transaction,  *)
(* and loaded into H2, which then runs the statement over them.  The       *)
(* transaction is the runner's own, begun and committed here, or the       *)
(* caller's, who has written in it and ends it.  Other clients commit      *)
(* their writes between any two steps.                                     *)
(*                                                                         *)
(* ScalarDB is external: a scan reads what is committed, refuses to touch  *)
(* what its transaction has written, and a commit (SERIALIZABLE, the       *)
(* default the converter assumes) reads every scan again.                  *)
(***************************************************************************)
EXTENDS FetchPlan

CONSTANTS
  Jobs,           \* what is run: a query, on which storage and how, whose transaction, the row limit
  Contents,       \* what the tables may hold
  Starts,         \* what they hold at first
  Writes,         \* what a transaction may write: for each table, keys and new rows
  MaxChanges      \* the most writes of other clients

Fetch ==
  [table : Tables, columns : SUBSET UNION {Columns[t] : t \in Tables}, keeps : SUBSET UNION {Rows[t] : t \in Tables}]

Applied(w, contents) ==
  [t \in Tables |-> {r \in contents[t] : Key(t, r) \notin w[t].keys} \cup w[t].rows]

Keyed(contents) ==
  /\ contents \in [Tables -> SUBSET UNION {Rows[t] : t \in Tables}]
  /\ \A t \in Tables :
       /\ contents[t] \subseteq Rows[t]
       /\ \A r, s \in contents[t] : Key(t, r) = Key(t, s) => r = s

JobAssumption(j) ==
  /\ IsQuery(j.query) /\ j.storage \in {"jdbc", "other"} /\ j.fetcher \in {"jdbc", "core"}
  /\ j.owned \in BOOLEAN /\ j.limit \in Nat

(* What is run is what the decomposer makes of a query. *)
Planned(j) ==
  [query |-> j.query, fetches |-> FetchesOf(j.query, j.storage, j.fetcher), owned |-> j.owned, limit |-> j.limit]

ASSUME PlanRunAssumption ==
  /\ Starts \subseteq Contents
  /\ \A contents \in Contents : Keyed(contents) /\ \A t \in Tables : IsFiniteSet(contents[t])
  /\ \A w \in Writes : \A contents \in Contents : Applied(w, contents) \in Contents
  /\ \A j \in Jobs : JobAssumption(j)
  /\ MaxChanges \in Nat

Nothing == [t \in Tables |-> [keys |-> {}, rows |-> {}]]
None    == <<>>

VARIABLES
  job,
  db,        \* what is committed
  own,       \* what the caller has written in its transaction before
  tx,        \* the transaction: "none", "active", "committed" or "aborted"
  pc,        \* "start", "fetching", "querying" or "done"
  scans,     \* what the fetches have read
  loaded,    \* the tables of H2: rows with the copies of each numbered
  outcome,   \* "running", "answered", or what was raised
  answer,
  view,      \* what was committed when the transaction was (for the properties)
  changes    \* the writes of other clients

vars == <<job, db, own, tx, pc, scans, loaded, outcome, answer, view, changes>>

NextFetch == job.fetches[Len(scans) + 1]
Scan(f, contents) == contents[f.table] \cap f.keeps

Once(images) == {[row |-> m, copy |-> 1] : m \in images}

(* What a query sees: all of the tables, or what the fetches read of them. *)
Full(contents) == [t \in Tables |-> [columns |-> Columns[t], rows |-> Once(contents[t])]]

FetchedColumns(j, t) == UNION {f.columns : f \in {j.fetches[i] : i \in {n \in DOMAIN j.fetches : j.fetches[n].table = t}}}
FetchedRows(j, t, contents) ==
  {r \in contents[t] : \E i \in DOMAIN j.fetches : j.fetches[i].table = t /\ r \in j.fetches[i].keeps}

Fetched(j, contents) ==
  [t \in Tables |-> [columns |-> FetchedColumns(j, t),
                     rows |-> Once({Image(r, FetchedColumns(j, t)) : r \in FetchedRows(j, t, contents)})]]

----------------------------------------------------------------------------
(* Residual.load: the first load of a table inserts the rows as they are,  *)
(* a later one each row that is not there yet, NULLs compared as equal.    *)

Inserted(f, rows) ==
  UNION {{[row |-> m, copy |-> n] : n \in 1 .. Cardinality({r \in rows : Image(r, f.columns) = m})} :
         m \in {Image(r, f.columns) : r \in rows}}

First(t) == \A i \in DOMAIN scans : job.fetches[i].table # t

(* Plausible error: a column is compared by "=", which no NULL satisfies    *)
(* (MERGE ... KEY), so that a row with a NULL is added once more.          *)
MissingByEquals(f, rows) ==
  LET images == {Image(r, f.columns) : r \in rows}
      there  == {e.row : e \in loaded[f.table]}
  IN  Once(images \ there)
        \cup {[row |-> m, copy |-> 2] : m \in {n \in images \cap there : \E c \in f.columns : n[c] = 0}}

Missing(f, rows) ==
  Once({Image(r, f.columns) : r \in rows} \ {e.row : e \in loaded[f.table]})

Load(f, rows) ==
  loaded' = [loaded EXCEPT ![f.table] = IF First(f.table) THEN Inserted(f, rows) ELSE @ \cup Missing(f, rows)]

----------------------------------------------------------------------------
Init ==
  /\ job \in {Planned(j) : j \in Jobs}
  /\ db \in Starts
  /\ own \in IF job.owned THEN {Nothing} ELSE Writes \cup {Nothing}
  /\ tx = IF job.owned THEN "none" ELSE "active"
  /\ pc = "start"
  /\ scans = <<>>
  /\ loaded = [t \in Tables |-> {}]
  /\ outcome = "running"
  /\ answer = None
  /\ view = None
  /\ changes = 0

Raise(why) ==
  /\ outcome' = why
  /\ pc' = "done"

(* Plausible error: the transaction is left behind. *)
FailLeaving(why) ==
  /\ Raise(why)
  /\ UNCHANGED <<job, db, own, tx, scans, loaded, answer, view, changes>>

(* An exception in the fetches: the runner's own transaction is aborted,   *)
(* the caller's is left to the caller.                                     *)
Fail(why) ==
  /\ Raise(why)
  /\ tx' = IF job.owned THEN "aborted" ELSE tx
  /\ UNCHANGED <<job, db, own, scans, loaded, answer, view, changes>>

(* A plan that fetches nothing needs no transaction. *)
Begin ==
  /\ pc = "start"
  /\ IF job.fetches = <<>>
       THEN pc' = "querying" /\ tx' = tx
       ELSE pc' = "fetching" /\ tx' = "active"
  /\ UNCHANGED <<job, db, own, scans, loaded, outcome, answer, view, changes>>

BeginFails ==
  /\ pc = "start" /\ job.owned /\ job.fetches # <<>>
  /\ Raise("failed")
  /\ UNCHANGED <<job, db, own, tx, scans, loaded, answer, view, changes>>

Fetching == pc = "fetching" /\ Len(scans) < Len(job.fetches)

(* The scan touches a row that its transaction has written or deleted.     *)
Overlaps(f) ==
  \/ \E r \in Scan(f, db) : Key(f.table, r) \in own[f.table].keys
  \/ own[f.table].rows \cap f.keeps # {}

(* Plausible error: the scan is asked for no more than the limit. *)
SeenToLimit(scan) ==
  {rows \in SUBSET scan : /\ Cardinality(rows) <= job.limit
                          /\ rows # scan => Cardinality(rows) = job.limit}

(* What the runtime sees of a scan: with more rows than the limit, one     *)
(* more than it (JdbcFetcher stops there, CoreFetcher.buildScan asks for   *)
(* max_rows + 1).                                                          *)
SeenOf(scan) ==
  {rows \in SUBSET scan : /\ Cardinality(rows) <= job.limit + 1
                          /\ rows # scan => Cardinality(rows) = job.limit + 1}

FetchRows ==
  /\ Fetching
  /\ LET f == NextFetch IN
       /\ ~Overlaps(f)
       /\ \E rows \in SeenOf(Scan(f, db)) :
            /\ Cardinality(rows) <= job.limit
            /\ scans' = Append(scans, rows)
            /\ Load(f, rows)
  /\ UNCHANGED <<job, db, own, tx, pc, outcome, answer, view, changes>>

(* RowLimitExceededException *)
FetchTooMany ==
  /\ Fetching
  /\ ~Overlaps(NextFetch)
  /\ \E rows \in SeenOf(Scan(NextFetch, db)) : Cardinality(rows) > job.limit
  /\ Fail("too many")

(* ScanAfterWriteException *)
FetchAfterWrite ==
  /\ Fetching
  /\ Overlaps(NextFetch)
  /\ Fail("after write")

FetchFails == Fetching /\ Fail("failed")

AllFetched == pc = "fetching" /\ Len(scans) = Len(job.fetches)
Unchanged  == \A i \in DOMAIN scans : scans[i] \in SeenOf(Scan(job.fetches[i], db))

Commit ==
  /\ AllFetched /\ job.owned
  /\ Unchanged
  /\ tx' = "committed"
  /\ view' = db
  /\ pc' = "querying"
  /\ UNCHANGED <<job, db, own, scans, loaded, outcome, answer, changes>>

CommitFails == AllFetched /\ job.owned /\ Fail("failed")

(* The caller's transaction is not committed here. *)
LeaveOpen ==
  /\ AllFetched /\ ~job.owned
  /\ pc' = "querying"
  /\ UNCHANGED <<job, db, own, tx, scans, loaded, outcome, answer, view, changes>>

Query ==
  /\ pc = "querying"
  /\ answer' = Answer(job.query, [t \in Tables |-> [columns |-> FetchedColumns(job, t), rows |-> loaded[t]]])
  /\ outcome' = "answered"
  /\ pc' = "done"
  /\ UNCHANGED <<job, db, own, tx, scans, loaded, view, changes>>

QueryFails ==
  /\ pc = "querying"
  /\ Raise("failed")
  /\ UNCHANGED <<job, db, own, tx, scans, loaded, answer, view, changes>>

Execute ==
  \/ Begin \/ BeginFails
  \/ FetchRows \/ FetchTooMany \/ FetchAfterWrite \/ FetchFails
  \/ Commit \/ CommitFails \/ LeaveOpen
  \/ Query \/ QueryFails

(* The caller of a joined plan, whatever it returned, ends the transaction. *)
CallerCommits ==
  /\ pc = "done" /\ ~job.owned /\ tx = "active"
  /\ Unchanged
  /\ tx' = "committed"
  /\ db' = Applied(own, db)
  /\ view' = db'
  /\ UNCHANGED <<job, own, pc, scans, loaded, outcome, answer, changes>>

CallerRollsBack ==
  /\ pc = "done" /\ ~job.owned /\ tx = "active"
  /\ tx' = "aborted"
  /\ UNCHANGED <<job, db, own, pc, scans, loaded, outcome, answer, view, changes>>

(* Other clients, until the transaction and the query are over. *)
Others ==
  /\ changes < MaxChanges
  /\ pc = "done" => tx = "active"
  /\ changes' = changes + 1
  /\ \E w \in Writes : db' = Applied(w, db)
  /\ UNCHANGED <<job, own, tx, pc, scans, loaded, outcome, answer, view>>

Next == Execute \/ CallerCommits \/ CallerRollsBack \/ Others

Spec == Init /\ [][Next]_vars

----------------------------------------------------------------------------
TypeOK ==
  /\ job.fetches \in Seq(Fetch) /\ Keyed(db) /\ own \in Writes \cup {Nothing}
  /\ tx \in {"none", "active", "committed", "aborted"}
  /\ pc \in {"start", "fetching", "querying", "done"}
  /\ scans \in Seq(SUBSET UNION {Rows[t] : t \in Tables}) /\ Len(scans) <= Len(job.fetches)
  /\ DOMAIN loaded = Tables
  /\ \A t \in Tables : \A e \in loaded[t] : e.copy = 1 /\ DOMAIN e.row = FetchedColumns(job, t)
  /\ outcome \in {"running", "answered", "too many", "after write", "failed"}
  /\ view # None => Keyed(view)
  /\ changes \in 0 .. MaxChanges

(* The fetches of the plan read enough: over what they leave of the tables *)
(* the statement returns what it returns over all of them, whatever they   *)
(* hold (decomposer.py: predicates only where every scope has them, no     *)
(* NULL test on the side of an outer join that may have no row, the        *)
(* columns the statement needs).                                           *)
FetchesSuffice(j) ==
  \A contents \in Contents : Answer(j.query, Fetched(j, contents)) = Answer(j.query, Full(contents))

Suffices == pc = "start" /\ changes = 0 => FetchesSuffice(job)

(* A query that is answered, in a transaction that is committed, is        *)
(* answered as of the moment of that commit, although its tables were read *)
(* one after the other while others wrote, in one or several fetches each, *)
(* and the answer was worked out after it (or, joined, before the caller's *)
(* own writes took effect).                                                *)
SameAnswer ==
  outcome = "answered" /\ tx = "committed" => answer = Answer(job.query, Full(view))

(* The row limit refuses a table that is over it and no other: while the   *)
(* tables stay as they are, a plan is refused for the limit only when one  *)
(* of its fetches has more rows than that, and answered only when none     *)
(* has - one of exactly the limit is no error (JdbcFetcher.java:74,        *)
(* CoreFetcher.java:92, 123).                                              *)
LimitExact ==
  changes = 0 /\ (job.owned \/ tx # "committed") =>
    LET over == \E i \in DOMAIN job.fetches : Cardinality(Scan(job.fetches[i], db)) > job.limit
    IN  /\ outcome = "too many" => over
        /\ outcome = "answered" => ~over

(* A transaction is ended by who began it: the runner leaves none of its   *)
(* own behind, whatever failed, and never ends the caller's.               *)
EndedByItsOwner ==
  /\ job.owned /\ pc = "done" => tx # "active"
  /\ ~job.owned /\ pc # "done" => tx = "active"
=============================================================================
