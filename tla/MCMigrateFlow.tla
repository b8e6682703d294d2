--------------------------- MODULE MCMigrateFlow ---------------------------
(* Two commands, two contents of the source, which nothing tells apart (so  *)
(* it begins with the one of them), and two of the limits, of which the     *)
(* second raises a question.                                                *)
EXTENDS MigrateFlow

CONSTANTS p1, p2, s1, s2

MCLimits == 0 .. 1
MCAsks   == {1}
=============================================================================
