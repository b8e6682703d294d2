---------------------------- MODULE BatchCursor ----------------------------
(***************************************************************************)
(* What a batch over the rows of a query promises, before it is split into *)
(* transactions and pages: FOR r IN (query) LOOP ... END LOOP.  A row is   *)
(* handled at most once in a run, nothing that never satisfied the query   *)
(* is handled, and a run ends normally only when every row that satisfied  *)
(* the query all through it has been handled.  Other clients add and take  *)
(* away rows at any time, which the pages of module BatchPages let in.     *)
(***************************************************************************)
EXTENDS Sequences

VARIABLES
  rows,       \* the rows the query can return at all
  matching,   \* the rows it returns at this moment
  since,      \* the rows other clients left in it since the run began
  seen,       \* the rows that were in it at some moment of the run
  handled,    \* the rows handled by the run, in order
  over        \* whether the run has ended normally

vars == <<rows, matching, since, seen, handled, over>>

Handled == {handled[i] : i \in DOMAIN handled}

Begin ==
  /\ since' = matching
  /\ seen' = matching
  /\ handled' = <<>>
  /\ over' = FALSE

Init ==
  /\ matching \subseteq rows
  /\ since = matching
  /\ seen = matching
  /\ handled = <<>>
  /\ over = FALSE

Enter(r) ==
  /\ matching' = matching \cup {r}
  /\ seen' = seen \cup {r}
  /\ UNCHANGED <<rows, since, handled, over>>

Leave(r) ==
  /\ matching' = matching \ {r}
  /\ since' = since \ {r}
  /\ UNCHANGED <<rows, seen, handled, over>>

(* The row leaves the query by being handled, or stays in it. *)
Handle(r) ==
  /\ ~over
  /\ r \in seen \ Handled
  /\ handled' = Append(handled, r)
  /\ matching' \in {matching, matching \ {r}}
  /\ UNCHANGED <<rows, since, seen, over>>

Finish ==
  /\ ~over
  /\ since \subseteq Handled
  /\ over' = TRUE
  /\ UNCHANGED <<rows, matching, since, seen, handled>>

Restart == Begin /\ UNCHANGED <<rows, matching>>

Next ==
  \/ \E r \in rows : Enter(r) \/ Leave(r) \/ Handle(r)
  \/ Finish
  \/ Restart

Spec == Init /\ [][Next]_vars
=============================================================================
