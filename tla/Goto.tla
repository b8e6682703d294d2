-------------------------------- MODULE Goto --------------------------------
(***************************************************************************)
(* plsql/goto.py rebuilds the GOTOs of a routine as the jumps Java has: a  *)
(* forward GOTO leaves a labelled block put around what it skips, a        *)
(* backward one continues a labelled loop put around what it repeats.  It  *)
(* works on one sequence of statements after the other, inner ones first;  *)
(* the ranges of a sequence are made to nest by module GotoNest.           *)
(*                                                                         *)
(* The model rebuilds a routine that way, then runs the routine as written *)
(* and as rebuilt side by side, every condition and every statement that   *)
(* raises going the same way in both, and compares where they are.         *)
(*                                                                         *)
(* A routine is its body and, if it has one, its handler: statement        *)
(* sequences.  A path alternates the number of a sequence and the number   *)
(* of a statement: <<1, 3>> is the third statement of the body and         *)
(* <<1, 3, 2>> the second sequence in it.                                  *)
(***************************************************************************)
EXTENDS GotoNest, FiniteSets, SequencesExt, FiniteSetsExt

CONSTANTS
  Programs,   \* the routines examined
  Patience    \* silent steps after which a run is taken to go round for ever

(* A statement: `inner` is the branches of an If, the body of a Loop or a  *)
(* While, the body of a Block and its handler.  A name is a word and a     *)
(* number, the number that _Context.fresh puts behind it.                  *)
NoName == <<>>
Added  == 0         \* the id of the blocks, loops and EXITs that are put in
Statement(id, kind, label, inner) ==
  [id |-> id, kind |-> kind, label |-> label, labels |-> {}, inner |-> inner]

IsLoop(s)  == s.kind \in {"Loop", "While"}
IsPlain(s) == s.kind \in {"Exit", "Continue"} /\ s.label = NoName

----------------------------------------------------------------------------
(* Paths                                                                   *)

RECURSIVE SequenceAt(_, _)
SequenceAt(program, q) ==
  IF Len(q) = 1 THEN program[q[1]]
  ELSE SequenceAt(program, SubSeq(q, 1, Len(q) - 2))[q[Len(q) - 1]].inner[Last(q)]

StatementAt(program, p) == SequenceAt(program, Front(p))[Last(p)]

RECURSIVE Replaced(_, _, _)
Replaced(program, q, ss) ==
  IF Len(q) = 1 THEN [program EXCEPT ![q[1]] = ss]
  ELSE [program EXCEPT ![q[1]][q[2]].inner = Replaced(@, SubSeq(q, 3, Len(q)), ss)]

(* The sequences and the statements around a path, as lengths of it *)
SequencesAround(p)  == {k \in 1 .. Len(p) - 1 : k % 2 = 1}
StatementsAround(p) == {k \in 1 .. Len(p) - 1 : k % 2 = 0}

(* The sequences of a program, inner ones first *)
RECURSIVE SequencesIn(_, _)
SequencesIn(ss, q) ==
  LET under(i) == FlattenSeq([c \in DOMAIN ss[i].inner |-> SequencesIn(ss[i].inner[c], q \o <<i, c>>)])
  IN  FlattenSeq([i \in DOMAIN ss |-> under(i)]) \o <<q>>

Sequences(program) == FlattenSeq([c \in DOMAIN program |-> SequencesIn(program[c], <<c>>)])

(* The paths of the statements of a kind (_walk, _all) *)
RECURSIVE Paths(_, _, _)
Paths(inner, q, kinds) ==
  UNION {UNION {(IF inner[c][i].kind \in kinds THEN {q \o <<c, i>>} ELSE {})
                  \cup Paths(inner[c][i].inner, q \o <<c, i>>, kinds) :
                i \in DOMAIN inner[c]} : c \in DOMAIN inner}

Gotos(program) == Paths(program, <<>>, {"Goto"})

----------------------------------------------------------------------------
(* _resolve: the innermost sequence around a GOTO that has its label.      *)
(* The handler of the routine has no sequence around it.                   *)
HasLabel(ss, label) == \E i \in DOMAIN ss : label \in ss[i].labels

SequencesWith(program, p, label) ==
  {k \in SequencesAround(p) : HasLabel(SequenceAt(program, SubSeq(p, 1, k)), label)}

Resolves(program, p) == SequencesWith(program, p, StatementAt(program, p).label) # {}
Target(program, p)   == SubSeq(p, 1, Max(SequencesWith(program, p, StatementAt(program, p).label)))

LabelIndex(ss, label) == Min({i \in DOMAIN ss : label \in ss[i].labels})

----------------------------------------------------------------------------
VARIABLES
  program,    \* the routine as written: fixed
  gotos,      \* its GOTOs: where they are and the sequence of their label
  code,       \* the routine as it is rebuilt
  todo,       \* the sequences still to be looked at
  jumps,      \* of the ranges that are being nested: their labels and GOTOs
  taken,      \* the names of loops and blocks that are in use
  left,       \* the GOTOs that stay
  running,    \* whether the two are run
  was, is     \* where the routine as written and as rebuilt are

rebuild == <<program, gotos, code, todo, jumps, taken, left>>
run     == <<running, was, is>>
vars    == <<rebuild, run, nest>>

(* _Context.target *)
GotoAt(p) ==
  LET s == StatementAt(program, p)
  IN  [id |-> s.id, label |-> s.label, path |-> p,
       target |-> IF Resolves(program, p) THEN Target(program, p) ELSE <<>>]

(* _restructure: the GOTOs whose label is in sequence q, each with the     *)
(* statement of q that holds it and the one that has the label             *)
Asks(q) ==
  {[goto |-> g.id, label |-> g.label, holder |-> g.path[Len(q) + 1],
    at |-> LabelIndex(SequenceAt(program, q), g.label)] : g \in {x \in gotos : x.target = q}}

(* Plausible error: a GOTO to the statement that holds it goes forward. *)
ForwardToo(ask) == ask.at >= ask.holder

Forward(ask) == ask.at > ask.holder
First(ask)   == IF Forward(ask) THEN ask.holder ELSE ask.at
Final(ask)   == IF Forward(ask) THEN ask.at - 1 ELSE ask.holder

Together(asks, k) == {x \in asks : x.label = k.label /\ Forward(x) = Forward(k)}

RangeOf(group) ==
  [start   |-> Min({First(x) : x \in group}),
   end     |-> Max({Final(x) : x \in group}),
   forward |-> \A x \in group : Forward(x),
   label   |-> (CHOOSE x \in group : TRUE).label,
   gotos   |-> {x.goto : x \in group}]

(* One range for each label and direction *)
RangesOf(asks) == {RangeOf(Together(asks, k)) : k \in asks}

Ranges(q) == SetToSortSeq(RangesOf(Asks(q)), Before)

----------------------------------------------------------------------------
(* _build and _wrap: the statements of a sequence with blocks and loops    *)
(* around its ranges.                                                      *)

(* _jump *)
RECURSIVE Jumped(_, _, _, _)
Jumped(ss, ids, kind, name) ==
  [i \in DOMAIN ss |->
     IF ss[i].id \in ids THEN [ss[i] EXCEPT !.kind = kind, !.label = name]
     ELSE [ss[i] EXCEPT !.inner = [c \in DOMAIN ss[i].inner |->
                                     Jumped(ss[i].inner[c], ids, kind, name)]]]

(* Plausible error: a plain EXIT is left as it is. *)
AsWritten(ss, around) == ss

(* An EXIT or CONTINUE that meant the loop around keeps meaning it. *)
RECURSIVE Relabelled(_, _)
Relabelled(ss, around) ==
  [i \in DOMAIN ss |->
     IF IsPlain(ss[i]) THEN [ss[i] EXCEPT !.label = around]
     ELSE IF IsLoop(ss[i]) THEN ss[i]
     ELSE [ss[i] EXCEPT !.inner = [c \in DOMAIN ss[i].inner |-> Relabelled(ss[i].inner[c], around)]]]

Wrap(span, body, around) ==
  IF span.forward
    THEN Statement(Added, "Block", span.name, <<Jumped(body, span.gotos, "Exit", span.name)>>)
    ELSE Statement(Added, "Loop", span.name,
           <<Jumped(Relabelled(body, around), span.gotos, "Continue", span.name)
               \o <<Statement(Added, "Exit", span.name, <<>>)>>>>)

Within(s, t) == t.start <= s.start /\ s.end <= t.end

RECURSIVE Build(_, _, _, _, _)
Build(ss, low, high, ready, around) ==
  LET here   == {s \in ready : s.start = low}
      top    == CHOOSE s \in here : \A t \in here : ~Before(t, s)
      inside == {s \in ready \ {top} : Within(s, top)}
  IN  IF low > high THEN <<>>
      ELSE IF here = {} THEN <<ss[low]>> \o Build(ss, low + 1, high, ready, around)
      ELSE <<Wrap(top, Build(ss, low, top.end, inside, around), around)>>
             \o Build(ss, top.end + 1, high, ready \ (inside \cup {top}), around)

(* _Context.fresh: the word, with the first number not in use *)
Fresh(word, names) ==
  <<word, CHOOSE n \in 1 .. Cardinality(names) + 1 :
            /\ <<word, n>> \notin names
            /\ \A m \in 1 .. n - 1 : <<word, m>> \in names>>

RECURSIVE Names(_, _)
Names(words, names) ==
  IF words = <<>> THEN <<>>
  ELSE LET name == Fresh(Head(words), names)
       IN  <<name>> \o Names(Tail(words), names \cup {name})

(* Whether a plain EXIT or CONTINUE is under ss, outside its loops *)
RECURSIVE LeavesPlainly(_)
LeavesPlainly(ss) ==
  \E i \in DOMAIN ss :
    \/ IsPlain(ss[i])
    \/ ~IsLoop(ss[i]) /\ \E c \in DOMAIN ss[i].inner : LeavesPlainly(ss[i].inner[c])

(* The innermost loop around sequence q: its path, or none *)
LoopAround(q) ==
  LET loops == {k \in StatementsAround(q) : IsLoop(StatementAt(program, SubSeq(q, 1, k)))}
  IN  IF loops = {} THEN <<>> ELSE SubSeq(q, 1, Max(loops))

(* The code with a name on the loop at path p *)
Named(p, name) ==
  LET q == Front(p)
  IN  Replaced(code, q, [SequenceAt(code, q) EXCEPT ![Last(p)].label = name])

Rebuilt(q) ==
  LET names   == Names([i \in DOMAIN jumps |-> jumps[i].label[1]], taken)
      ready   == {[start |-> spans[i].start, end |-> spans[i].end, forward |-> spans[i].forward,
                   gotos |-> jumps[i].gotos, name |-> names[i]] : i \in DOMAIN spans}
      ss      == SequenceAt(code, q)
      loop    == LoopAround(q)
      plainly == loop # <<>> /\ \E s \in ready : ~s.forward /\ LeavesPlainly(SubSeq(ss, s.start, s.end))
      written == IF loop = <<>> THEN NoName ELSE StatementAt(code, loop).label
      around  == IF plainly /\ written = NoName THEN Fresh("loop", taken \cup ToSet(names)) ELSE written
      outer   == IF plainly THEN Named(loop, around) ELSE code
  IN  [code  |-> Replaced(outer, q, Build(ss, 1, Len(ss), ready, around)),
       taken |-> taken \cup ToSet(names) \cup (IF plainly THEN {around} ELSE {})]

----------------------------------------------------------------------------
(* Running a program.  A run is at a statement that can be told from       *)
(* outside (a plain one, a condition, a GOTO without a label), or ended.   *)

Ended  == <<>>
Thrown == <<-1>>
Round  == <<0>>       \* it goes round without doing anything

After(p) == [p EXCEPT ![Len(p)] = @ + 1]

(* What the EXIT or CONTINUE s at p leaves or continues *)
Left(prog, p, s) ==
  SubSeq(p, 1, Max({k \in StatementsAround(p) :
                      LET o == StatementAt(prog, SubSeq(p, 1, k))
                      IN  IF s.label = NoName THEN IsLoop(o) ELSE o.label = s.label}))

Owner(p) == SubSeq(p, 1, Len(p) - 2)

RECURSIVE Settled(_, _, _)
Settled(prog, p, patience) ==
  LET on(q) == Settled(prog, q, patience - 1)
      again(q) == IF StatementAt(prog, q).kind = "Loop" THEN on(q \o <<1, 1>>) ELSE q
      s == StatementAt(prog, p)
  IN  IF patience = 0 THEN Round
      ELSE IF Last(p) > Len(SequenceAt(prog, Front(p)))
        THEN IF Len(p) = 2 THEN Ended
             ELSE IF IsLoop(StatementAt(prog, Owner(p))) THEN again(Owner(p))
             ELSE on(After(Owner(p)))
      ELSE CASE s.kind \in {"Plain", "If", "While"} -> p
             [] s.kind \in {"Loop", "Block"} -> on(p \o <<1, 1>>)
             [] s.kind = "Exit"     -> on(After(Left(prog, p, s)))
             [] s.kind = "Continue" -> again(Left(prog, p, s))
             [] s.kind = "Goto" /\ Resolves(prog, p) ->
                  LET q == Target(prog, p)
                  IN  on(q \o <<LabelIndex(SequenceAt(prog, q), s.label)>>)
             [] OTHER -> p

(* The handler that takes what the statement at p raises *)
Handler(prog, p) ==
  LET blocks == {k \in StatementsAround(p) :
                   /\ Len(StatementAt(prog, SubSeq(p, 1, k)).inner) = 2
                   /\ StatementAt(prog, SubSeq(p, 1, k)).kind = "Block"
                   /\ p[k + 1] = 1}
  IN  IF blocks # {} THEN SubSeq(p, 1, Max(blocks)) \o <<2, 1>>
      ELSE IF p[1] = 1 /\ Len(prog) = 2 THEN <<2, 1>>
      ELSE Thrown

Stopped(prog, p) == Len(p) < 2 \/ StatementAt(prog, p).kind = "Goto"

(* Where the statement at p leads: on, into a branch, or to a handler *)
Ways(s) ==
  CASE s.kind = "Plain" -> {"on", "raise"}
    [] s.kind \in {"If", "While"} -> {"yes", "no"}

Settle(prog, p) == IF Len(p) < 2 THEN p ELSE Settled(prog, p, Patience)

Step(prog, p, choice) ==
  Settle(prog,
    CASE choice = "raise" -> Handler(prog, p)
      [] choice = "yes"   -> p \o <<1, 1>>
      [] choice = "no" /\ StatementAt(prog, p).kind = "If" -> p \o <<2, 1>>
      [] OTHER            -> After(p))

(* What can be told of a run from outside *)
Seen(prog, p) == IF Len(p) < 2 THEN p ELSE <<StatementAt(prog, p).id>>

----------------------------------------------------------------------------
Init ==
  /\ program \in Programs
  /\ code = program
  /\ todo = Sequences(program)
  /\ jumps = <<>>
  /\ gotos = {GotoAt(p) : p \in Gotos(program)}
  /\ taken = {StatementAt(program, p).label : p \in Paths(program, <<>>, {"Loop", "While"})} \ {NoName}
  /\ left = {g.id : g \in {x \in gotos : x.target = <<>>}}
  /\ running = FALSE /\ was = Ended /\ is = Ended
  /\ NestInit

(* A sequence without a label that a GOTO names stays as it is. *)
Skip ==
  /\ todo # <<>> /\ jumps = <<>>
  /\ Asks(Head(todo)) = {}
  /\ todo' = Tail(todo)
  /\ UNCHANGED <<program, gotos, code, jumps, taken, left, run, nest>>

Collect ==
  /\ todo # <<>> /\ jumps = <<>>
  /\ Asks(Head(todo)) # {}
  /\ LET ranges == Ranges(Head(todo))
     IN  /\ jumps' = [i \in DOMAIN ranges |-> [label |-> ranges[i].label, gotos |-> ranges[i].gotos]]
         /\ Begin([i \in DOMAIN ranges |->
              [start |-> ranges[i].start, end |-> ranges[i].end, forward |-> ranges[i].forward]])
  /\ UNCHANGED <<program, gotos, code, todo, taken, left, run>>

Widen == Compare /\ UNCHANGED <<rebuild, run>>

Rewrite ==
  /\ jumps # <<>> /\ outcome = "nested"
  /\ LET new == Rebuilt(Head(todo)) IN code' = new.code /\ taken' = new.taken
  /\ todo' = Tail(todo)
  /\ jumps' = <<>>
  /\ UNCHANGED <<program, gotos, left, run, nest>>

(* Plausible error: the GOTOs that stay are not reported. *)
LeaveSilently ==
  /\ jumps # <<>> /\ outcome = "crossing"
  /\ todo' = Tail(todo)
  /\ jumps' = <<>>
  /\ UNCHANGED <<program, gotos, code, taken, left, run, nest>>

LeaveGotos ==
  /\ jumps # <<>> /\ outcome = "crossing"
  /\ left' = left \cup UNION {jumps[i].gotos : i \in DOMAIN jumps}
  /\ todo' = Tail(todo)
  /\ jumps' = <<>>
  /\ UNCHANGED <<program, gotos, code, taken, run, nest>>

Start ==
  /\ todo = <<>> /\ ~running
  /\ running' = TRUE
  /\ was' = Settle(program, <<1, 1>>)
  /\ is' = Settle(code, <<1, 1>>)
  /\ UNCHANGED <<rebuild, nest>>

Run ==
  /\ running
  /\ ~Stopped(program, was) /\ ~Stopped(code, is)
  /\ \E choice \in Ways(StatementAt(program, was)) :
       /\ was' = Step(program, was, choice)
       /\ is' = Step(code, is, choice)
  /\ UNCHANGED <<rebuild, running, nest>>

Next == Skip \/ Collect \/ Widen \/ Rewrite \/ LeaveGotos \/ Start \/ Run

(* rewrite() runs to its end. *)
Spec == Init /\ [][Next]_vars /\ WF_vars(Widen)

----------------------------------------------------------------------------
(* The rebuilt routine does what the routine did: at every moment both are *)
(* at the same statement or condition, whatever way the earlier ones went, *)
(* through every loop, EXIT, CONTINUE, exception and GOTO of every nesting *)
(* of sequences.                                                           *)
SameRun == Seen(program, was) = Seen(code, is)

(* A GOTO that is left in the rebuilt routine is one that is reported for  *)
(* a person (GOTO_NOT_RESTRUCTURED), and the other way round.              *)
LeftIsReported == running => {StatementAt(code, p).id : p \in Gotos(code)} = left

(* The ranges are given to module GotoNest as it wants them, in order and  *)
(* none of them empty, and only it changes them.                           *)
ImplementsNest == NestSpec

(* The passes that widen ranges come to an end.                            *)
NestingEnds == outcome = "going" ~> outcome # "going"
=============================================================================
