--------------------------- MODULE WriteThenScan ---------------------------
(***************************************************************************)
(* The program the analyses of ScanAnalysis look at, run: PL/SQL's own     *)
(* order of steps, with every branch, iteration and exception the program  *)
(* could take, in one transaction of ScalarDB at a time.  What the run     *)
(* meets, the analysis must have reported before.                          *)
(***************************************************************************)
EXTENDS ScanAnalysis

CONSTANTS
  Programs,     \* the programs examined: functions from routine names to routines
  Entry         \* the routine the transaction starts in

ASSUME ProgramsAssumption ==
  /\ \A p \in Programs : IsProgram(p)
  /\ Entry \in Routines

VARIABLES
  prog,       \* the program under examination
  reported,   \* what scan_after_write said of it, before anything ran
  stack,      \* what was entered and not yet left, the innermost first
  written,    \* the tables the open transaction has written
  refused     \* the scan ScalarDB refused: its tables, and the routines on the call stack

vars == <<prog, reported, stack, written, refused>>

(* What is entered is a statement sequence of a routine, a loop, a block   *)
(* or a branch (`of`), with the statements left of it.  Before the next    *)
(* one runs, its expressions call: `calls` are the calls still to make.    *)
(* The declarations of a block call before its handlers are in place, the  *)
(* condition of a WHILE at the end of each iteration.                      *)
CallsBefore(of, ss) ==
  IF ss # <<>> THEN Head(ss).calls \o Head(ss).declares
  ELSE IF of.loop_kind = "while" THEN of.calls ELSE <<>>

At(of, ss) == [of |-> of, left |-> ss, calls |-> CallsBefore(of, ss)]

(* A block of its own: a branch, a handler *)
Block(ss) == [Plain EXCEPT !.kind = "Block", !.body = ss]

Frame(r) == At([Plain EXCEPT !.kind = "Routine", !.label = r], <<Whole(prog[r])>>)

Top    == Head(stack)
Rest   == Tail(stack)
This   == Head(Top.left)
Behind == At(Top.of, Tail(Top.left))

Running     == stack # <<>> /\ refused = <<>>
Ready(kind) == Running /\ Top.calls = <<>> /\ Top.left # <<>> /\ This.kind = kind
AtEnd(kind) == Running /\ Top.calls = <<>> /\ Top.left = <<>> /\ Top.of.kind = kind

(* The innermost of that label, or loop without one; the innermost routine *)
(* and the innermost with handlers; what is left to run from there         *)
Labelled(l) == SelectInSeq(stack, LAMBDA c : /\ c.of.kind \in {"Loop", "Block"}
                                             /\ IF l = "none" THEN c.of.kind = "Loop" ELSE c.of.label = l)
Caller      == SelectInSeq(stack, LAMBDA c : c.of.kind = "Routine")
Handling    == SelectInSeq(stack, LAMBDA c : c.of.handlers # <<>>)
From(at)    == SubSeq(stack, at, Len(stack))

(* The routines being called *)
Labels == {stack[i].of.label : i \in DOMAIN stack}
Stack  == {stack[i].of.label : i \in {j \in DOMAIN stack : stack[j].of.kind = "Routine"}}

Init ==
  /\ prog \in Programs
  /\ reported = ScanAfterWrite(prog)
  /\ stack = <<Frame(Entry)>>
  /\ written = {}
  /\ refused = <<>>

Goto(next) == stack' = next /\ UNCHANGED <<prog, reported, written, refused>>

(* The next call of an expression *)
CallNext ==
  /\ Running /\ Top.calls # <<>>
  /\ Goto(<<Frame(Head(Top.calls)), [Top EXCEPT !.calls = Tail(@)]>> \o Rest)

(* An assignment, a call statement: done once it has called *)
Evaluate ==
  /\ Ready("Plain")
  /\ Goto(<<Behind>> \o Rest)

(* A statement of SQL runs, or ScalarDB refuses its scan *)
Operate ==
  /\ Ready("Sql")
  /\ IF Scans(This, written) = {}
     THEN /\ written' = written \cup This.writes
          /\ stack' = <<Behind>> \o Rest
          /\ UNCHANGED refused
     ELSE /\ refused' = <<Scans(This, written), Stack>>
          /\ UNCHANGED <<stack, written>>
  /\ UNCHANGED <<prog, reported>>

Commit ==
  /\ Ready("Commit")
  /\ written' = {}
  /\ stack' = <<Behind>> \o Rest
  /\ UNCHANGED <<prog, reported, refused>>

Choose ==
  /\ Ready("If")
  /\ \E b \in ToSet(This.branches) \cup {This.orElse} : Goto(<<At(Block(b), b), Behind>> \o Rest)

(* A cursor FOR loop opens its query once *)
OpenLoop ==
  /\ Ready("Loop")
  /\ Goto(<<[of |-> This, left |-> This.query, calls |-> <<>>], Behind>> \o Rest)

Iterate ==
  /\ AtEnd("Loop")
  /\ Goto(<<At(Top.of, Top.of.body)>> \o Rest)

EnterBlock ==
  /\ Ready("Block")
  /\ Goto(<<At(This, This.body), Behind>> \o Rest)

Leave ==
  /\ AtEnd("Loop") \/ AtEnd("Block") \/ AtEnd("Routine")
  /\ Goto(Rest)

(* EXIT WHEN and CONTINUE WHEN, and the EXIT of the block a forward GOTO   *)
(* was rebuilt as: taken, or not                                           *)
Jump ==
  /\ Ready("Exit") \/ Ready("Continue")
  /\ \/ Goto(<<Behind>> \o Rest)
     \/ LET to == Labelled(This.label)
        IN /\ to # 0
           /\ Goto((IF This.kind = "Continue" THEN <<At(stack[to].of, <<>>)>> ELSE <<>>) \o From(to + 1))

Return ==
  /\ Ready("Return")
  /\ Goto(From(Caller + 1))

(* An exception may come at any point of a routine: the innermost handlers *)
(* take it; one that no handler takes ends the program.                    *)
Raise ==
  /\ Running
  /\ IF Handling = 0 THEN Goto(<<>>)
     ELSE \E h \in ToSet(stack[Handling].of.handlers) : Goto(<<At(Block(h), h)>> \o From(Handling + 1))

Next == \/ CallNext \/ Evaluate \/ Operate \/ Commit \/ Choose \/ OpenLoop \/ Iterate
        \/ EnterBlock \/ Leave \/ Jump \/ Return \/ Raise

Spec == Init /\ [][Next]_vars

----------------------------------------------------------------------------
(* Properties                                                              *)

IsContext(c) ==
  /\ DOMAIN c = {"of", "left", "calls"}
  /\ DOMAIN c.of = DOMAIN Plain
  /\ c.left \in Code
  /\ c.calls \in Seq(Routines)

TypeOK ==
  /\ IsProgram(prog)
  /\ reported \subseteq Routines \X Tables
  /\ \A i \in DOMAIN stack : IsContext(stack[i])
  /\ written \subseteq Tables
  /\ refused = <<>> \/ (refused[1] \subseteq Tables /\ refused[2] \subseteq Routines)

(* What ScalarDB refuses was found beforehand: a scan of a table the open  *)
(* transaction has written is reported, for that table, of one of the      *)
(* routines on the call stack -- the one that scans or one that called it, *)
(* whose verdict is then no better (capability.py 267-272, 310-311).       *)
RefusedWasReported ==
  refused # <<>> => \A t \in refused[1] : \E r \in refused[2] : <<r, t>> \in reported

(* The callees of a statement make the same scans of what they write in    *)
(* whatever order, and however often, they are called.                     *)
Unordered(all)   == \A x \in ToSet(all) : Scans(x, Written(all)) \subseteq Follow(all, Nothing).found
InAnyOrder(p, s) == Unordered(Ran(p, Callees(s)))

(* The analysis covers a routine whose nested blocks call nothing in their *)
(* declarations (capability.py 285-289 does not look there), that leaves   *)
(* no block with a COMMIT by EXIT (370: the block's end is taken for       *)
(* reached), and in which the order and the number of an expression's      *)
(* calls make no difference (288-289).                                     *)
CoveredStatement(p, s) ==
  /\ s.declares = <<>>
  /\ s.kind = "Block" /\ s.label # "none" => \A x \in ToSet(Walk[s.body]) : ~EndsTransaction(x)
  /\ Len(s.calls) > 1 \/ (s.loop_kind = "while" /\ s.calls # <<>>) => InAnyOrder(p, s)

Covered(p, r) ==
  /\ p[r].body = <<>> => p[r].initialisers = <<>>
  /\ CoveredStatement(p, Whole(p[r]))
  /\ \A s \in ToSet(Everything(p[r])) : CoveredStatement(p, s)

(* The runs of a statement sequence without loops, jumps and calls: the    *)
(* SQL and the COMMITs met, and whether an exception cut the run short.    *)
Runs[ss \in Code] ==
  LET cut == [met |-> <<>>, raised |-> TRUE]
      catch(r, hs) == IF r.raised /\ hs # <<>>
                      THEN {[h EXCEPT !.met = r.met \o @] : h \in UNION {Runs[h] : h \in ToSet(hs)}}
                      ELSE {r}
      one(s) == CASE s.kind = "If"    -> UNION {Runs[b] : b \in ToSet(s.branches) \cup {s.orElse}}
                  [] s.kind = "Block" -> UNION {catch(r, s.handlers) : r \in Runs[s.body]}
                  [] OTHER            -> {[met |-> <<s>>, raised |-> FALSE]}
      next(r) == IF r.raised THEN {r} ELSE {[l EXCEPT !.met = r.met \o @] : l \in Runs[Tail(ss)]}
  IN {cut} \cup IF ss = <<>> THEN {[met |-> <<>>, raised |-> FALSE]}
                 ELSE UNION {next(r) : r \in one(Head(ss))}

(* The run scans t after writing it in the same transaction *)
ScansWritten(met, t) ==
  \E j \in DOMAIN met : \E i \in 1..(j - 1) :
    /\ t \in met[i].writes
    /\ t \in met[j].reads /\ ~met[j].keyed
    /\ \A k \in i..j : met[k].kind # "Commit"

WithoutLoopsAndCalls(routine) ==
  /\ routine.initialisers = <<>>
  /\ \A s \in ToSet(Everything(routine)) :
       s.kind \in {"Plain", "Sql", "Commit", "If", "Block"} /\ s.calls = <<>> /\ s.declares = <<>>

(* No false alarm where the walk is exact: a routine without loops, jumps  *)
(* and calls is reported for a table only when some run of it scans the    *)
(* table after writing it, with no COMMIT between (capability.py 342-343:  *)
(* what was written before a COMMIT can be scanned again).                 *)
NoFalseAlarm ==
  stack = <<Frame(Entry)>> /\ WithoutLoopsAndCalls(prog[Entry]) =>
    LET runs == Runs[<<Whole(prog[Entry])>>]
    IN \A t \in Tables : <<Entry, t>> \in reported => \E r \in runs : ScansWritten(r.met, t)

(* Without a schema, write_then_scan is "the superset from the SQL alone"  *)
(* (rules/engine.py 557-559) of what scan_after_write narrows: so it is    *)
(* for routines without loops, calls and handlers of their own.            *)
CoarseCovers ==
  stack = <<Frame(Entry)>> /\ WithoutLoopsAndCalls(prog[Entry]) /\ prog[Entry].handlers = <<>> =>
    \A x \in reported : x[1] = Entry => x \in WriteThenScan(prog)
=============================================================================
