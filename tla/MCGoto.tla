------------------------------- MODULE MCGoto -------------------------------
(* Routines of four and of five statements, each plain or `IF .. THEN GOTO` *)
(* to any of their labels: every set of up to four ranges of a sequence.    *)
(* Routines with a loop, a branch or a block with a handler between two     *)
(* such statements, in which GOTOs to labels inside and outside, EXIT and   *)
(* CONTINUE follow each other, by themselves and within a loop.  And GOTOs  *)
(* of the handler of the routine, or with nowhere to go.                    *)
EXTENDS Goto

L(n) == <<"L", n>>
M(n) == <<"M", n>>

At(label, s) == [s EXCEPT !.labels = {label}]
Mark(id)     == Statement(id, "Plain", NoName, <<>>)
Jump(id, label)   == Statement(id, "Goto", label, <<>>)
If(id, yes, no)   == Statement(id, "If", NoName, <<yes, no>>)
IfJump(id, label) == If(id, <<Jump(id + 100, label)>>, <<>>)
IfLeave(id, kind) == If(id, <<Mark(id + 50)>>, <<Statement(id + 100, kind, NoName, <<>>)>>)

HasGoto(p) == Gotos(p) # {}

(* 1. one sequence *)
Flat(n, most) ==
  {<<[i \in 1 .. n |-> At(L(i), IF f[i] = 0 THEN Mark(i) ELSE IfJump(i, L(f[i])))]>> :
     f \in {g \in [1 .. n -> 0 .. n] : Cardinality({i \in 1 .. n : g[i] # 0}) <= most}}

(* 2. a compound statement between two others, with a sequence in it *)
Inner(i) == {Mark(i), IfJump(i, L(1)), IfJump(i, L(3)), IfJump(i, M(1)), IfJump(i, M(2)),
             IfLeave(i, "Exit"), IfLeave(i, "Continue")}
Inside(inLoop) == {<<At(M(1), x), At(M(2), y)>> :
                     x \in {s \in Inner(11) : inLoop \/ s.inner = <<>> \/ s.inner[2] = <<>>},
                     y \in {s \in Inner(12) : inLoop \/ s.inner = <<>> \/ s.inner[2] = <<>>}}

Compound(inLoop) ==
  {Statement(2, "Loop", NoName, <<ss>>) : ss \in Inside(TRUE)} \cup
  {Statement(2, "While", L(2), <<ss>>) : ss \in Inside(TRUE)} \cup
  {If(2, ss, <<Mark(13)>>) : ss \in Inside(inLoop)} \cup
  {Statement(2, "Block", NoName, <<ss, <<Mark(13)>>>>) : ss \in Inside(inLoop)} \cup
  {Statement(2, "Block", NoName, <<<<Mark(13)>>, ss>>) : ss \in Inside(inLoop)}

Around(x) ==
  {<<<<At(L(1), Mark(1)), At(L(2), x), At(L(3), y)>>>> : y \in {Mark(3), IfJump(3, L(1)), IfJump(3, L(2))}}

(* 3. the same within a loop, so that EXIT and CONTINUE have to leave it *)
Looped(label, x) ==
  <<<<Statement(20, "Loop", label,
        <<<<At(L(1), Mark(1)), At(L(2), x), At(L(3), IfLeave(3, "Exit")), IfJump(4, L(1))>>>>), Mark(21)>>>>

(* 4. a handler of the routine, whose GOTOs find their labels only there *)
Handled(l) == <<<<At(L(1), Mark(1)), IfJump(2, L(1))>>, <<At(M(1), Mark(3)), IfJump(4, l), Jump(5, M(2)),
                Mark(6), At(M(2), Mark(7))>>>>

MCPrograms ==
  {p \in Flat(4, 4) \cup Flat(5, 3) \cup UNION {Around(x) : x \in Compound(FALSE)}
           \cup {Looped(label, x) : label \in {NoName, L(1)}, x \in Compound(TRUE)}
           \cup {Handled(l) : l \in {L(1), M(1), M(2)}} : HasGoto(p)}
=============================================================================
