----------------------------- MODULE MCVerdict -----------------------------
(* Programs of three routines: two public ones and a helper, in the shapes  *)
(* that tell evidence and verdicts apart, and a package of constants.       *)
EXTENDS Verdict, TLC

CONSTANTS a, b, h, k

Calls(x, y, z)  == (a :> x) @@ (b :> y) @@ (h :> z)
Still(x, y, z)  == (a :> (0 :> x @@ 1 :> x)) @@ (b :> (0 :> y @@ 1 :> y)) @@ (h :> (0 :> z @@ 1 :> z))
Changed(x)      == (a :> (0 :> 0 @@ 1 :> x)) @@ (b :> (0 :> 0 @@ 1 :> 0)) @@ (h :> (0 :> 0 @@ 1 :> x))

Shape(public, calls, always, floor) ==
  [public |-> public, calls |-> calls, always |-> always, floor |-> floor,
   names |-> [u \in Unit |-> {}], lost |-> {},
   others |-> [r \in Routine |-> [t \in Text |-> "enough"]]]

(* a calls the helper, always or not; the helper names a package; the file  *)
(* of that is missing; the factors of a, or of the edited helper, are too   *)
(* low.                                                                     *)
Simple(always) == Shape({a}, Calls({h}, {}, {}), always, Still(0, 0, 0))
Always == Calls({h}, {}, {})
Never  == Calls({}, {}, {})
Helped ==
  {Simple(Never),
   [Simple(Always) EXCEPT !.names[h] = {k}],
   [Simple(Always) EXCEPT !.names[h] = {k}, !.lost = {k}],
   [Simple(Always) EXCEPT !.others[a][0] = "low", !.others[h][1] = "zero"]}

(* Both call the helper; it calls back; a chain; one public calls another.  *)
Shared == {Shape({a, b}, Calls({h}, {h}, {}), Calls({h}, {}, {}), Changed(2))}
Cycle  == {Shape({a}, Calls({b}, {h}, {a}), Calls({b}, {h}, {}), floor) :
             floor \in {Still(0, 1, 2), Still(2, 0, 1)}}
Chain  == {Shape({a}, Calls({b}, {h}, {}), Calls({b}, {h}, {}), floor) :
             floor \in {Still(0, 0, 0), Still(1, 0, 2)}}
Two    == {Shape({a, b}, Calls({b}, {}, {}), Calls({b}, {}, {}), Still(0, 0, 0))}

MCPrograms == Helped \cup Shared \cup Cycle \cup Chain \cup Two
=============================================================================
