---------------------------- MODULE ScanAnalysis ----------------------------
(***************************************************************************)
(* ScalarDB refuses to scan rows the same transaction has written.  The    *)
(* capability check (plsql/capability.py, scan_after_write) finds, without *)
(* running anything, the routines that would do so; the rule engine never  *)
(* lets one of them be AUTO.  Without a ScalarDB schema the coarser        *)
(* analysis.write_then_scan answers instead.                               *)
(*                                                                         *)
(* A program is data: a routine is a sequence of statements with handlers, *)
(* and calls.  This module holds the two analyses as the code computes     *)
(* them; WriteThenScan runs the program.                                   *)
(***************************************************************************)
EXTENDS Naturals, Sequences, FiniteSets, SequencesExt

CONSTANTS
  Tables,       \* the tables statements name
  Routines,     \* the names of the routines
  Sorted,       \* Python's sorted: the names of a set of routines, alphabetically
  Statements,   \* the statements of the programs
  Depth         \* how many levels of statements there are below a statement

(* A statement sequence of the IR *)
Code == Seq(Statements)

(* What F maps the members of a sequence to, one after the other *)
FlatMap(F) ==
  LET flat[s \in Seq(DOMAIN F)] == IF s = <<>> THEN <<>> ELSE F[Head(s)] \o flat[Tail(s)]
  IN flat

----------------------------------------------------------------------------
(* Statements.  Every kind has every field, empty where the IR has none.   *)

(* The IR's Statement: what it reads and writes; the routines its          *)
(* expressions call, in the order they are evaluated, the one a call       *)
(* statement names (`callee`) last; and the sequences below it.            *)
Plain ==
  [kind |-> "Plain", label |-> "none", loop_kind |-> "basic", reads |-> {}, keyed |-> FALSE, writes |-> {},
   calls |-> <<>>, callee |-> <<>>, declares |-> <<>>, query |-> <<>>, branches |-> <<>>, orElse |-> <<>>,
   body |-> <<>>, handlers |-> <<>>]

Simple == {"Plain", "Exit", "Continue", "Return", "Sql", "Commit"}

IsStatement(s) ==
  /\ s \in [kind : Simple \cup {"If", "Loop", "Block"}, label : STRING, loop_kind : STRING,
            reads : SUBSET Tables, keyed : BOOLEAN, writes : SUBSET Tables,
            calls : Seq(Routines), callee : Seq(Routines), declares : Seq(Routines), query : Code,
            branches : Seq(Code), orElse : Code, body : Code, handlers : Seq(Code)]
  /\ ToSet(s.callee) \subseteq ToSet(s.calls)
  /\ s.kind \in Simple =>
       s.query = <<>> /\ s.branches = <<>> /\ s.orElse = <<>> /\ s.body = <<>> /\ s.handlers = <<>>
  /\ s.kind \in {"Sql", "Commit"} => s.calls = <<>>       \* a function called from SQL may not write
  /\ s.kind # "Sql" => s.reads = {} /\ s.writes = {}
  /\ s.kind # "Block" => s.declares = <<>> /\ s.handlers = <<>>
  /\ s.kind # "Loop" => s.query = <<>> /\ s.loop_kind = "basic"
  /\ s.kind = "If" => s.branches # <<>> /\ s.body = <<>>
  /\ s.kind # "If" => s.branches = <<>> /\ s.orElse = <<>>
  /\ s.query # <<>> => s.calls = <<>> /\ Len(s.query) = 1  \* of a cursor FOR loop
  /\ \A q \in ToSet(s.query) : q.kind = "Sql" /\ q.writes = {}

(* The statement sequences directly under a statement, one after the other *)
Joined    == FlatMap([ss \in Code |-> ss])
Inside(s) == Joined[s.branches] \o s.orElse \o s.body \o Joined[s.handlers]

(* A statement tree is finite. *)
ASSUME StatementsAssumption ==
  /\ Routines \subseteq STRING /\ IsFiniteSet(Routines)
  /\ \A s \in Statements : IsStatement(s)
  /\ Depth \in [Statements -> Nat]
  /\ \A s \in Statements : \A below \in ToSet(s.query) \cup ToSet(Inside(s)) : Depth[below] < Depth[s]

ASSUME SortedAssumption ==
  /\ Sorted \in [SUBSET Routines -> Seq(Routines)]
  /\ \A R \in SUBSET Routines : ToSet(Sorted[R]) = R /\ Len(Sorted[R]) = Cardinality(R)

Call(rs) == [Plain EXCEPT !.calls = rs]

(* A routine's body under its handlers, after the calls of its declarations *)
Whole(routine) ==
  [Plain EXCEPT !.kind = "Block", !.calls = routine.initialisers, !.body = routine.body, !.handlers = routine.handlers]

IsProgram(p) ==
  /\ DOMAIN p = Routines
  /\ \A r \in Routines : Whole(p[r]) \in Statements

(* lower._walk: every statement, a cursor loop's query right after its loop *)
Walk[ss \in Code] ==
  IF ss = <<>> THEN <<>>
  ELSE <<Head(ss)>> \o Head(ss).query \o Walk[Inside(Head(ss))] \o Walk[Tail(ss)]

Written(ss) == UNION {s.writes : s \in ToSet(ss)}

(* COMMIT, or a ROLLBACK of the whole transaction *)
NeverEnds(s)       == FALSE
EndsTransaction(s) == s.kind = "Commit"

----------------------------------------------------------------------------
(* scan_after_write                                                        *)

(* Its `scans`: the written tables a statement reads other than by key *)
Scans(s, written) == IF s.keyed THEN {} ELSE s.reads \cap written

(* Its `everything`: the statements of a routine, the handlers' included *)
Everything(routine) == Walk[Inside(Whole(routine))]

(* Its `callees`: the routine a call statement names, then those that its  *)
(* expressions call, each once and in alphabetical order.  A nested        *)
(* block's declarations (s.declares) are not among its expressions.        *)
Callees(s) == s.callee \o Sorted[ToSet(s.calls) \ ToSet(s.callee)]

(* What a routine calls: its `initialisers`, then its statements' callees *)
CallsIn          == FlatMap([s \in Statements |-> Callees(s)])
CallsOf(routine) == Callees(Whole(routine)) \o CallsIn[Everything(routine)]

(* Its `reachable`: the routines still to visit and what they call, depth  *)
(* first, behind those `seen` already                                      *)
Reachable(p) ==
  LET reachable[at \in Seq(Routines) \X Seq(Routines)] ==
        LET seen == at[1]
            next == at[2]
        IN IF next = <<>> THEN seen
           ELSE IF Contains(seen, Head(next)) THEN reachable[<<seen, Tail(next)>>]
           ELSE reachable[<<Append(seen, Head(next)), CallsOf(p[Head(next)]) \o Tail(next)>>]
  IN reachable

Reached(p, r) == Reachable(p)[<<<<>>, <<r>>>>]

(* Every statement run when the routines cs are called one after the other *)
StatementsOf(p) == FlatMap([r \in Routines |-> Everything(p[r])])
Ran(p, cs)      == FlatMap([r \in Routines |-> StatementsOf(p)[Reached(p, r)]])[cs]

(* Its `writes_in`: every table the statements may write, calls included *)
WritesOf(p, all)    == Written(all) \cup Written(Ran(p, CallsIn[all]))
OwnWritesIn(p, ss)  == Written(Walk[ss])
WritesIn(p, ss)     == WritesOf(p, Walk[ss])

(* A walk in progress: what the transaction has written by now, and the    *)
(* tables found scanned after that.                                        *)
Accs == [written : SUBSET Tables, found : SUBSET Tables]
Nothing == [written |-> {}, found |-> {}]
Scanned(acc, tables) == [acc EXCEPT !.found = @ \cup tables]

(* Its `run`: the callees' statements, as if they were the caller's *)
Before(all, i, written) == written \cup Written(SubSeq(all, 1, i - 1))

Follow(all, acc) ==
  [written |-> acc.written \cup Written(all),
   found   |-> acc.found \cup UNION {Scans(all[i], Before(all, i, acc.written)) : i \in DOMAIN all}]

Run(p, cs, acc) == Follow(Ran(p, cs), acc)

(* The alternatives of a branching walk: what any of them wrote or found *)
Union(accs) == [written |-> UNION {a.written : a \in accs}, found |-> UNION {a.found : a \in accs}]

(* Its `visit`: what the transaction has written once the statements ran.  *)
(* The parts of a statement, in the order visit asks for them: the query   *)
(* of a cursor loop, opened once, before the first iteration;              *)
Opened(s, acc) == Scanned(acc, UNION {Scans(q, acc.written) : q \in ToSet(s.query)})

(* the back edge: a later iteration runs after the writes of this one;     *)
Repeated(p, s, acc) ==
  IF s.kind = "Loop" THEN [acc EXCEPT !.written = @ \cup WritesIn(p, s.body)] ELSE acc

(* the statement itself, what it calls, and what it writes;                *)
Done(p, s, acc) ==
  [Run(p, Callees(s), Scanned(acc, Scans(s, acc.written))) EXCEPT !.written = @ \cup s.writes]

(* one of the branches, or none of them;                                   *)
Branched(visit, s, acc) ==
  IF s.branches = <<>> THEN acc
  ELSE Union({visit[b][acc] : b \in ToSet(s.branches) \cup {s.orElse}})

(* the body, which a loop may not run at all;                              *)
Entered(visit, s, acc) ==
  Union({visit[s.body][acc]} \cup IF s.kind = "Loop" THEN {acc} ELSE {})

(* and a handler, after whatever part of the body ran.                     *)
Interrupted(p, s, before, end) == [end EXCEPT !.written = @ \cup before.written \cup WritesIn(p, s.body)]

Handled(p, visit, s, before, end) ==
  Union({end} \cup {visit[h][Interrupted(p, s, before, end)] : h \in ToSet(s.handlers)})

Below(p, visit, s, before) == Handled(p, visit, s, before, Entered(visit, s, before))

(* What a statement does before its body: all the above but the last two *)
Reaches(p, s, acc) == Done(p, s, Repeated(p, s, Opened(s, acc)))

VisitOne(p, visit, s, acc) ==
  IF EndsTransaction(s) THEN [acc EXCEPT !.written = {}]
  ELSE Below(p, visit, s, Branched(visit, s, Reaches(p, s, acc)))

Visit(p) ==
  LET visit[ss \in Code] ==
        [acc \in Accs |-> IF ss = <<>> THEN acc ELSE visit[Tail(ss)][VisitOne(p, visit, Head(ss), acc)]]
  IN visit

(* The tables one routine is reported for, its own handlers last *)
ScansOf(p, r) ==
  LET whole == Whole(p[r])
  IN Below(p, Visit(p), whole, IF p[r].body = <<>> THEN Nothing ELSE Run(p, Callees(whole), Nothing)).found

(* scan_after_write, by routine and table: what annotate marks and the     *)
(* engine's _writes_then_scans reads                                       *)
ScanAfterWrite(p) == UNION {{r} \X ScansOf(p, r) : r \in Routines}

----------------------------------------------------------------------------
(* The coarse answer: analysis.written_after and write_then_scan           *)

(* What the handlers of s start from, after its body left `after` *)
AfterBody(s, before, after)  == after
BeforeHandlers(s, before, after) == before \cup after \cup Written(Walk[s.body])

Read(s, acc) ==
  [written |-> acc.written \cup s.writes,
   found   |-> acc.found \cup ((s.reads \cup UNION {q.reads : q \in ToSet(s.query)}) \cap acc.written)]

AfterHandlers(after, s, before, end) ==
  Union({end} \cup
        {after[h][[end EXCEPT !.written = BeforeHandlers(s, before.written, @)]] : h \in ToSet(s.handlers)})

AfterBelow(after, s, before) == AfterHandlers(after, s, before, Entered(after, s, before))

AfterOne(after, s, acc) ==
  IF EndsTransaction(s) THEN [acc EXCEPT !.written = {}]
  ELSE AfterBelow(after, s, Branched(after, s, Read(s, acc)))

After[ss \in Code] ==
  [acc \in Accs |-> IF ss = <<>> THEN acc ELSE After[Tail(ss)][AfterOne(After, Head(ss), acc)]]

(* Only the routine's body: its handlers and its calls are not followed *)
WriteThenScan(p) == UNION {{r} \X After[p[r].body][Nothing].found : r \in Routines}
=============================================================================
