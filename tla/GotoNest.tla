------------------------------ MODULE GotoNest ------------------------------
(***************************************************************************)
(* The ranges of statements that the GOTOs of one sequence jump over or    *)
(* repeat, and how plsql/goto.py (_nest) widens them until they nest, as   *)
(* the blocks and loops of Java must: a forward range may start earlier    *)
(* (its break lands behind it all the same), a backward one may end later  *)
(* (its loop runs what follows once).  _nest compares the ranges two by    *)
(* two, in passes, until a pass changes nothing; the model does one        *)
(* comparison a step.                                                      *)
(***************************************************************************)
EXTENDS Integers, Sequences

VARIABLES
  spans,      \* the ranges, in the order compared
  asked,      \* the ranges as they were (for the properties)
  a, b,       \* the two that are compared next
  changed,    \* whether this pass has widened one
  outcome     \* "none", "going", "nested" or "crossing"

nest == <<spans, asked, a, b, changed, outcome>>

(* One range: the statements start .. end, jumped over or repeated. *)
Span == [start : Nat, end : Nat, forward : BOOLEAN]

IsRange(s) == s.start <= s.end

(* Two ranges, the first starting first, of which neither holds the other *)
Cross(s, t) == s.start < t.start /\ t.start <= s.end /\ s.end < t.end

(* The order in which they are compared: by start, the longer first, a     *)
(* backward range before a forward one.                                    *)
Before(s, t) ==
  \/ s.start < t.start
  \/ s.start = t.start /\ s.end > t.end
  \/ s.start = t.start /\ s.end = t.end /\ ~s.forward /\ t.forward

InOrder(ss) == \A i, j \in DOMAIN ss : i < j => ~Before(ss[j], ss[i])

NestInit ==
  /\ spans = <<>> /\ asked = <<>>
  /\ a = 1 /\ b = 1
  /\ changed = FALSE
  /\ outcome = "none"

Begin(ss) ==
  /\ outcome # "going"
  /\ spans' = ss /\ asked' = ss
  /\ a' = 1 /\ b' = 1
  /\ changed' = FALSE
  /\ outcome' = "going"

(* The next two of the pass *)
Advance ==
  IF b < Len(spans) THEN b' = b + 1 /\ a' = a
  ELSE b' = 1 /\ a' = a + 1

InPass == outcome = "going" /\ a <= Len(spans)

Agree ==
  /\ InPass
  /\ ~Cross(spans[a], spans[b])
  /\ Advance
  /\ UNCHANGED <<spans, asked, changed, outcome>>

(* A forward range starts with the one it crosses. *)
StartEarlier ==
  /\ InPass
  /\ Cross(spans[a], spans[b])
  /\ spans[b].forward
  /\ spans' = [spans EXCEPT ![b].start = spans[a].start]
  /\ changed' = TRUE
  /\ Advance
  /\ UNCHANGED <<asked, outcome>>

(* Plausible error: the later backward range starts earlier. *)
StartAnyEarlier ==
  /\ InPass
  /\ Cross(spans[a], spans[b])
  /\ ~spans[b].forward /\ ~spans[a].forward
  /\ spans' = [spans EXCEPT ![b].start = spans[a].start]
  /\ changed' = TRUE
  /\ Advance
  /\ UNCHANGED <<asked, outcome>>

(* Plausible error: any range ends later. *)
EndAnyLater ==
  /\ InPass
  /\ Cross(spans[a], spans[b])
  /\ ~spans[b].forward
  /\ spans' = [spans EXCEPT ![a].end = spans[b].end]
  /\ changed' = TRUE
  /\ Advance
  /\ UNCHANGED <<asked, outcome>>

(* A backward range ends with the backward one it crosses. *)
EndLater ==
  /\ InPass
  /\ Cross(spans[a], spans[b])
  /\ ~spans[b].forward /\ ~spans[a].forward
  /\ spans' = [spans EXCEPT ![a].end = spans[b].end]
  /\ changed' = TRUE
  /\ Advance
  /\ UNCHANGED <<asked, outcome>>

(* Plausible error: a forward range that crosses any other is given up. *)
GiveUpForward ==
  /\ InPass
  /\ Cross(spans[a], spans[b])
  /\ spans[a].forward
  /\ outcome' = "crossing"
  /\ UNCHANGED <<spans, asked, a, b, changed>>

(* Plausible error: what cannot be widened is passed over. *)
PassOver ==
  /\ InPass
  /\ Cross(spans[a], spans[b])
  /\ ~spans[b].forward /\ spans[a].forward
  /\ Advance
  /\ UNCHANGED <<spans, asked, changed, outcome>>

(* A forward range that starts before a backward one and ends inside it *)
GiveUp ==
  /\ InPass
  /\ Cross(spans[a], spans[b])
  /\ ~spans[b].forward /\ spans[a].forward
  /\ outcome' = "crossing"
  /\ UNCHANGED <<spans, asked, a, b, changed>>

(* Plausible error: a new pass does not forget that the last one widened. *)
EndPassChanged ==
  /\ outcome = "going" /\ a > Len(spans)
  /\ IF changed
       THEN a' = 1 /\ b' = 1 /\ UNCHANGED <<changed, outcome>>
       ELSE outcome' = "nested" /\ UNCHANGED <<a, b, changed>>
  /\ UNCHANGED <<spans, asked>>

EndPass ==
  /\ outcome = "going" /\ a > Len(spans)
  /\ IF changed
       THEN a' = 1 /\ b' = 1 /\ changed' = FALSE /\ UNCHANGED outcome
       ELSE outcome' = "nested" /\ UNCHANGED <<a, b, changed>>
  /\ UNCHANGED <<spans, asked>>

Compare == Agree \/ StartEarlier \/ EndLater \/ GiveUp \/ EndPass

NestNext ==
  \/ Compare
  \/ /\ spans' \in Seq({s \in Span : IsRange(s)})
     /\ InOrder(spans')
     /\ Begin(spans')

NestSpec == NestInit /\ [][NestNext]_nest

----------------------------------------------------------------------------
(* The pair a and b is within the pass. *)
NestTypeOK ==
  /\ spans \in Seq(Span) /\ asked \in Seq(Span) /\ Len(asked) = Len(spans)
  /\ a \in 1 .. Len(spans) + 1 /\ b \in Nat \ {0}
  /\ a <= Len(spans) => b <= Len(spans)
  /\ changed \in BOOLEAN
  /\ outcome \in {"none", "going", "nested", "crossing"}

(* Ranges that are accepted nest: no two of them cross, so every GOTO has  *)
(* a block or a loop of its own.  One pass that changes nothing says so of *)
(* all pairs, although each pass compares ranges that others have widened. *)
Laminar ==
  outcome = "nested" => \A i, j \in DOMAIN spans : ~Cross(spans[i], spans[j])

(* Widening never moves where a jump lands: behind a forward range, at the *)
(* start of a backward one.                                                *)
LandsTheSame ==
  \A i \in DOMAIN spans :
    /\ spans[i].forward = asked[i].forward
    /\ IF spans[i].forward
         THEN spans[i].end = asked[i].end /\ spans[i].start <= asked[i].start
         ELSE spans[i].start = asked[i].start /\ spans[i].end >= asked[i].end

(* A forward range that starts before a backward one it ends inside *)
AskedToCross ==
  \E i, j \in DOMAIN asked : asked[i].forward /\ ~asked[j].forward /\ Cross(asked[i], asked[j])

(* The ranges are refused exactly when the GOTOs themselves ask for what   *)
(* no nesting expresses (goto.py:17): no order of widening brings two      *)
(* others into that position, and none hides one that is.                  *)
RefusedOnlyIfAsked == outcome = "crossing" => AskedToCross
AcceptedOnlyIfNot  == outcome = "nested" => ~AskedToCross
=============================================================================
