----------------------------- MODULE MCCounters -----------------------------
(* The values of the constants for the runs of Counters: two instances, one *)
(* with two threads; a name that reserves two numbers at a time and one     *)
(* that reserves one.                                                       *)
EXTENDS Counters, TLC

CONSTANTS i1, i2, t1, t2, t3, hilo, counter

MCHome  == (t1 :> i1) @@ (t2 :> i1) @@ (t3 :> i2)
MCBlock == (hilo :> 2) @@ (counter :> 1)

(* t1 and t2 are threads of the same instance: nothing tells them apart.    *)
SameHome == Permutations({t1, t2})
MCStart == (hilo :> 0) @@ (counter :> 0)
=============================================================================
