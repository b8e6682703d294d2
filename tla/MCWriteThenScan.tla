-------------------------- MODULE MCWriteThenScan --------------------------
(* Programs of a procedure main and functions f and g over one table t: the *)
(* analyses treat every table by itself, so one table decides.              *)
EXTENDS WriteThenScan, TLC

CONSTANTS t,
          Missed,     \* TRUE: the programs the analysis does not cover
          Deepest     \* bound on the stack of a recursive program

W == [Plain EXCEPT !.kind = "Sql", !.writes = {t}]
S == [Plain EXCEPT !.kind = "Sql", !.reads = {t}]
K == [S EXCEPT !.keyed = TRUE]
C == [Plain EXCEPT !.kind = "Commit"]
N == Call(<<>>)

If(b, e)       == [Plain EXCEPT !.kind = "If", !.branches = <<b>>, !.orElse = e]
Loop(q, b)     == [Plain EXCEPT !.kind = "Loop", !.label = "l", !.query = q, !.body = b]
While(cs, b)   == [Loop(<<>>, b) EXCEPT !.loop_kind = "while", !.calls = cs]
Try(b, hs)     == [Block(b) EXCEPT !.handlers = hs]
Exit(l)        == [Plain EXCEPT !.kind = "Exit", !.label = l]
Continue(l)    == [Plain EXCEPT !.kind = "Continue", !.label = l]
Return0        == [Plain EXCEPT !.kind = "Return"]

Routine(i, b, hs)  == [initialisers |-> i, body |-> b, handlers |-> hs]
Empty              == Routine(<<>>, <<>>, <<>>)
Program(main, f)   == ("main" :> main) @@ ("f" :> f) @@ ("g" :> Empty)

Leaves  == {W, S, C}
Bodies  == BoundedSeq(Leaves, 2)
AtMost1 == BoundedSeq(Leaves, 1)
Short   == {<<W>>, <<C>>, <<S, W>>, <<W, C>>}

(* One compound statement between leaves; the routine's handler scans or not *)
Compounds ==
  {If(b, e) : b \in Bodies, e \in AtMost1} \cup {Try(b, <<h>>) : b \in Bodies, h \in Bodies}
  \cup {Loop(q, b) : q \in {<<>>, <<S>>, <<K>>}, b \in Bodies}
  \cup {Loop(<<>>, <<x, j, y>>) : x \in Leaves, j \in {Exit("l"), Exit("none"), Continue("l")}, y \in Leaves}
  \cup {If(<<Return0>>, <<>>), K}
Alone == {Program(Routine(<<>>, x \o <<s>> \o y, <<>>), Empty) : x \in {<<>>, <<W>>}, s \in Compounds, y \in AtMost1}
         \cup {Program(Routine(<<>>, <<s>>, <<<<S>>>>), Empty) : s \in Compounds}

(* f is called by a statement, a condition, a declaration; in a loop, under *)
(* a handler; f itself may call main again.                                 *)
Callers == {Call(<<"f">>), Call(<<"f", "f">>), [If(<<W>>, <<C>>) EXCEPT !.calls = <<"f">>],
            [Loop(<<>>, <<W>>) EXCEPT !.calls = <<"f">>], While(<<"f">>, <<C>>), While(<<"f">>, <<N>>),
            Loop(<<S>>, <<Call(<<"f">>), C>>), Try(<<Call(<<"f">>), C>>, <<<<S>>, <<W>>>>)}
Bodied  == {Routine(<<>>, b, h) : b \in Bodies, h \in {<<>>, <<<<S>>>>}}
             \cup {Routine(<<>>, <<Loop(<<S>>, b)>>, <<>>) : b \in Short}
             \cup {Routine(<<>>, <<W, Call(<<"main">>)>>, <<>>)}
Calling == {Program(Routine(<<>>, x \o <<s>> \o y, <<>>), f) :
              x \in {<<>>, <<W>>}, s \in Callers, y \in AtMost1, f \in Bodied}
           \cup {Program(Routine(<<"f">>, b, <<<<S>>>>), f) : b \in Bodies \ {<<>>}, f \in Bodied}

(* A compound within a compound *)
Nested == {Program(Routine(<<>>, <<outer>> \o y, <<>>), Empty) : y \in AtMost1,
            outer \in {Loop(<<>>, <<Try(b, <<h>>)>> \o z) : b \in Short, h \in Short, z \in AtMost1}
                 \cup {Try(<<Loop(q, b)>> \o z, <<<<S>>>>) : q \in {<<>>, <<S>>}, b \in Short, z \in AtMost1}
                 \cup {Loop(<<>>, <<Loop(<<S>>, b)>> \o z) : b \in Short, z \in AtMost1}
                 \cup {Try(<<If(b, <<Try(<<W, C>>, <<h>>)>>)>>, <<<<S>>>>) : b \in Short, h \in Short}}

(* UPDATE t; IF .. THEN GOTO done; END IF; COMMIT; <<done>> SELECT .. FROM t *)
Jumped == Program(Routine(<<>>, <<W, [Block(<<If(<<Exit("done")>>, <<>>), C>>) EXCEPT !.label = "done"], S>>, <<>>), Empty)

(* v := f(1) + f(2), WHILE f(1) LOOP NULL; END LOOP: f scans, then writes;  *)
(* v := g(1) + f(2), f(g(1)): f scans, g writes.                            *)
Repeating == {Program(Routine(<<>>, <<s>>, <<>>), Routine(<<>>, <<S, W>>, <<>>)) :
                s \in {Call(<<"f", "f">>), While(<<"f">>, <<N>>)}}
Reordered == {[Program(Routine(<<>>, <<s>>, <<>>), Routine(<<>>, <<S>>, <<>>)) EXCEPT !["g"] = Routine(<<>>, <<W>>, <<>>)] :
                s \in {Call(<<"g", "f">>), [Call(<<"g", "f">>) EXCEPT !.callee = <<"f">>]}}

MCTables   == {t}
MCRoutines == {"f", "g", "main"}
Sorting    == [R \in SUBSET MCRoutines |-> SelectSeq(<<"f", "g", "main">>, LAMBDA r : r \in R)]

Examined == IF Missed THEN {Jumped} \cup Repeating \cup Reordered ELSE Alone \cup Calling \cup Nested

(* The statements of the examined programs, and how many levels are below *)
Directly(s) == s.query \o FlattenSeq(s.branches \o <<s.orElse, s.body>> \o s.handlers)

RECURSIVE Under(_)
Under(above) == IF above = {} THEN {} ELSE above \cup Under(UNION {ToSet(Directly(s)) : s \in above})

RECURSIVE Height(_)
Height(s) == IF Directly(s) = <<>> THEN 0 ELSE 1 + Max({Height(below) : below \in ToSet(Directly(s))})

Heights  == [s \in Under({Whole(p[r]) : p \in Examined, r \in MCRoutines}) |-> Height(s)]
Covering == {p \in Examined : Missed \/ \A r \in MCRoutines : Covered(p, r)}

Bounded == Len(stack) <= Deepest

(* Indirect, so that TLC computes them once *)
MCSorted     == Sorting
MCDepth      == Heights
MCStatements == DOMAIN Heights
MCPrograms   == Covering
=============================================================================
