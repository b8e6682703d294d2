--------------------------- MODULE GotoNestProofs ---------------------------
(***************************************************************************)
(* For any sequence of ranges: what _nest accepts nests and lands where it *)
(* did, and it refuses exactly the ranges in which a forward GOTO asks to  *)
(* end inside what a backward one repeats.                                 *)
(***************************************************************************)
EXTENDS GotoNest, TLAPS

(* No pair that this pass has compared crosses, if it has widened none. *)
Scanned ==
  outcome = "going" /\ ~changed =>
    \A i, j \in DOMAIN spans : i < a \/ (i = a /\ j < b) => ~Cross(spans[i], spans[j])

(* No forward range starts before a backward one that it ends inside. *)
NonePartly ==
  \A i, j \in DOMAIN spans :
    spans[i].forward /\ ~spans[j].forward => ~Cross(spans[i], spans[j])

(* The backward ranges are in the order they start. *)
Sorted ==
  \A i, j \in DOMAIN spans :
    ~spans[i].forward /\ ~spans[j].forward /\ spans[i].start < spans[j].start => i < j

(* A backward range is compared before the forward ranges within it. *)
HolderFirst ==
  \A i, j \in DOMAIN spans :
    /\ spans[i].forward /\ ~spans[j].forward
    /\ spans[i].start >= spans[j].start /\ spans[i].end < spans[j].end
    => j < i

(* The backward range that is being compared has been widened by all the   *)
(* backward ones before b.                                                 *)
RowDone ==
  a <= Len(spans) /\ ~spans[a].forward =>
    \A j \in DOMAIN spans : j < b /\ ~spans[j].forward => ~Cross(spans[a], spans[j])

Clear == outcome = "going" /\ ~AskedToCross => NonePartly /\ Sorted /\ HolderFirst /\ RowDone

IInv == NestTypeOK /\ LandsTheSame /\ Scanned /\ Laminar /\ Clear /\ RefusedOnlyIfAsked

---------------------------------------------------------------------------
(* What a step that widens changes *)

LEMMA StartOnly ==
  ASSUME NestTypeOK, StartEarlier
  PROVE  /\ a \in DOMAIN spans /\ b \in DOMAIN spans /\ a # b
         /\ spans' \in Seq(Span) /\ Len(spans') = Len(spans) /\ DOMAIN spans' = DOMAIN spans
         /\ \A i \in DOMAIN spans : i # b => spans'[i] = spans[i]
         /\ spans'[b].start = spans[a].start
         /\ spans'[b].end = spans[b].end
         /\ spans'[b].forward = spans[b].forward
<1>1. a \in 1 .. Len(spans) /\ b \in 1 .. Len(spans) /\ spans \in Seq(Span)
  BY DEF NestTypeOK, StartEarlier, InPass
<1>2. spans[a] \in Span /\ spans[b] \in Span
  BY <1>1
<1>3. a # b
  BY <1>2 DEF StartEarlier, Cross, Span
<1>4. spans' = [spans EXCEPT ![b] = [spans[b] EXCEPT !.start = spans[a].start]]
  BY DEF StartEarlier
<1>5. [spans[b] EXCEPT !.start = spans[a].start] \in Span
  BY <1>2 DEF Span
<1> DEFINE r == [spans[b] EXCEPT !.start = spans[a].start]
<1>6. r.start = spans[a].start /\ r.end = spans[b].end /\ r.forward = spans[b].forward
  BY <1>2 DEF Span
<1> HIDE DEF r
<1> QED
  BY <1>1, <1>3, <1>4, <1>5, <1>6 DEF r

LEMMA EndOnly ==
  ASSUME NestTypeOK, EndLater
  PROVE  /\ a \in DOMAIN spans /\ b \in DOMAIN spans /\ a # b
         /\ spans' \in Seq(Span) /\ Len(spans') = Len(spans) /\ DOMAIN spans' = DOMAIN spans
         /\ \A i \in DOMAIN spans : i # a => spans'[i] = spans[i]
         /\ spans'[a].start = spans[a].start
         /\ spans'[a].end = spans[b].end
         /\ spans'[a].forward = spans[a].forward
<1>1. a \in 1 .. Len(spans) /\ b \in 1 .. Len(spans) /\ spans \in Seq(Span)
  BY DEF NestTypeOK, EndLater, InPass
<1>2. spans[a] \in Span /\ spans[b] \in Span
  BY <1>1
<1>3. a # b
  BY <1>2 DEF EndLater, Cross, Span
<1>4. spans' = [spans EXCEPT ![a] = [spans[a] EXCEPT !.end = spans[b].end]]
  BY DEF EndLater
<1>5. [spans[a] EXCEPT !.end = spans[b].end] \in Span
  BY <1>2 DEF Span
<1> DEFINE r == [spans[a] EXCEPT !.end = spans[b].end]
<1>6. r.start = spans[a].start /\ r.end = spans[b].end /\ r.forward = spans[a].forward
  BY <1>2 DEF Span
<1> HIDE DEF r
<1> QED
  BY <1>1, <1>3, <1>4, <1>5, <1>6 DEF r

LEMMA Elements ==
  ASSUME NestTypeOK, NEW i \in DOMAIN spans
  PROVE  /\ i \in Nat
         /\ spans[i].start \in Nat /\ spans[i].end \in Nat /\ spans[i].forward \in BOOLEAN
         /\ asked[i].start \in Nat /\ asked[i].end \in Nat /\ asked[i].forward \in BOOLEAN
<1>1. spans \in Seq(Span) /\ asked \in Seq(Span) /\ i \in 1 .. Len(spans) /\ i \in 1 .. Len(asked)
  BY DEF NestTypeOK
<1>2. spans[i] \in Span /\ asked[i] \in Span
  BY <1>1
<1> QED
  BY <1>1, <1>2 DEF Span

---------------------------------------------------------------------------
LEMMA NestInitial == NestInit => IInv
<1> SUFFICES ASSUME NestInit PROVE IInv
  OBVIOUS
<1>1. spans = <<>> /\ asked = <<>> /\ DOMAIN spans = {} /\ outcome = "none" /\ a = 1 /\ b = 1 /\ changed = FALSE
  BY DEF NestInit
<1>2. NestTypeOK
  <2>1. Len(spans) = 0 /\ Len(asked) = 0 /\ spans \in Seq(Span) /\ asked \in Seq(Span)
    BY <1>1
  <2>2. a \in 1 .. Len(spans) + 1 /\ b \in Nat \ {0} /\ (a <= Len(spans) => b <= Len(spans))
    BY <1>1, <2>1
  <2>3. changed \in BOOLEAN /\ outcome \in {"none", "going", "nested", "crossing"}
    BY <1>1
  <2> QED
    BY <2>1, <2>2, <2>3 DEF NestTypeOK
<1>3. LandsTheSame /\ Scanned /\ Laminar /\ Clear /\ RefusedOnlyIfAsked
  BY <1>1 DEF LandsTheSame, Scanned, Laminar, Clear, RefusedOnlyIfAsked
<1> QED
  BY <1>2, <1>3 DEF IInv

(* The order of the ranges as they come is the one the proof needs. *)
LEMMA BeginsInOrder ==
  ASSUME spans' \in Seq({s \in Span : IsRange(s)}), InOrder(spans'), Begin(spans')
  PROVE  IInv'
<1> DEFINE R == {s \in Span : IsRange(s)}
<1>1. /\ spans' \in Seq(Span) /\ asked' = spans' /\ a' = 1 /\ b' = 1
      /\ changed' = FALSE /\ outcome' = "going"
  <2>1. Len(spans') \in Nat /\ DOMAIN spans' = 1 .. Len(spans') /\ \A i \in 1 .. Len(spans') : spans'[i] \in Span
    OBVIOUS
  <2> QED
    BY <2>1 DEF Begin
<1>2. NestTypeOK'
  <2>1. Len(spans') \in Nat /\ Len(asked') = Len(spans') /\ asked' \in Seq(Span)
    BY <1>1
  <2>2. 1 \in 1 .. Len(spans') + 1 /\ (1 <= Len(spans') => 1 <= Len(spans')) /\ 1 \in Nat \ {0}
    BY <2>1
  <2> QED
    BY <1>1, <2>1, <2>2 DEF NestTypeOK
<1>3. \A i \in DOMAIN spans' : /\ i \in Nat /\ spans'[i] \in Span
                               /\ spans'[i].start \in Nat /\ spans'[i].end \in Nat
                               /\ spans'[i].forward \in BOOLEAN
  BY <1>1 DEF Span
<1>4. LandsTheSame'
  BY <1>1, <1>3 DEF LandsTheSame
<1>5. Scanned'
  BY <1>1, <1>3 DEF Scanned
<1>6. Laminar' /\ RefusedOnlyIfAsked'
  BY <1>1 DEF Laminar, RefusedOnlyIfAsked
<1>7. Clear'
  <2> SUFFICES ASSUME ~AskedToCross' PROVE (NonePartly /\ Sorted /\ HolderFirst /\ RowDone)'
    BY DEF Clear
  <2>1. NonePartly'
    BY <1>1 DEF NonePartly, AskedToCross
  <2>2. Sorted'
    <3> SUFFICES ASSUME NEW i \in DOMAIN spans', NEW j \in DOMAIN spans',
                        spans'[i].start < spans'[j].start
                 PROVE  i < j
      BY DEF Sorted
    <3>1. Before(spans'[i], spans'[j]) /\ i # j
      BY <1>3 DEF Before
    <3> QED
      BY <3>1, <1>3 DEF InOrder
  <2>3. HolderFirst'
    <3> SUFFICES ASSUME NEW i \in DOMAIN spans', NEW j \in DOMAIN spans',
                        spans'[i].forward, ~spans'[j].forward,
                        spans'[i].start >= spans'[j].start, spans'[i].end < spans'[j].end
                 PROVE  j < i
      BY DEF HolderFirst
    <3>1. Before(spans'[j], spans'[i]) /\ i # j
      BY <1>3 DEF Before
    <3> QED
      BY <3>1, <1>3 DEF InOrder
  <2>4. RowDone'
    BY <1>1, <1>3 DEF RowDone
  <2> QED
    BY <2>1, <2>2, <2>3, <2>4
<1> QED
  BY <1>2, <1>4, <1>5, <1>6, <1>7 DEF IInv

---------------------------------------------------------------------------
LEMMA NextPair ==
  ASSUME NestTypeOK, InPass, Advance, Len(spans') = Len(spans)
  PROVE  /\ a' \in 1 .. Len(spans') + 1 /\ b' \in Nat \ {0}
         /\ a' <= Len(spans') => b' <= Len(spans')
         /\ \/ b < Len(spans) /\ a' = a /\ b' = b + 1
            \/ b = Len(spans) /\ a' = a + 1 /\ b' = 1
<1>1. a \in 1 .. Len(spans) /\ b \in 1 .. Len(spans) /\ Len(spans) \in Nat
  BY DEF NestTypeOK, InPass
<1> QED
  BY <1>1 DEF Advance

LEMMA Agreed == IInv /\ Agree => IInv'
<1> SUFFICES ASSUME IInv, Agree PROVE IInv'
  OBVIOUS
<1>1. NestTypeOK /\ InPass /\ Advance /\ UNCHANGED <<spans, asked, changed, outcome>> /\ outcome = "going"
  BY DEF IInv, Agree, InPass
<1>2. /\ a' \in 1 .. Len(spans) + 1 /\ b' \in Nat \ {0}
      /\ a' <= Len(spans) => b' <= Len(spans)
      /\ \/ b < Len(spans) /\ a' = a /\ b' = b + 1
         \/ b = Len(spans) /\ a' = a + 1 /\ b' = 1
  BY <1>1, NextPair
<1>3. a \in 1 .. Len(spans) /\ b \in 1 .. Len(spans) /\ DOMAIN spans = 1 .. Len(spans) /\ Len(spans) \in Nat
  BY <1>1 DEF NestTypeOK, InPass
<1>4. NestTypeOK'
  BY <1>1, <1>2 DEF NestTypeOK
<1>5. LandsTheSame' /\ Laminar' /\ RefusedOnlyIfAsked' /\ AskedToCross' = AskedToCross
  BY <1>1 DEF LandsTheSame, Laminar, RefusedOnlyIfAsked, AskedToCross, IInv
<1>6. ~Cross(spans[a], spans[b])
  BY DEF Agree
<1>7. Scanned'
  <2> SUFFICES ASSUME ~changed, NEW i \in DOMAIN spans, NEW j \in DOMAIN spans,
                      i < a' \/ (i = a' /\ j < b')
               PROVE  ~Cross(spans[i], spans[j])
    BY <1>1 DEF Scanned
  <2>0. i \in 1 .. Len(spans) /\ j \in 1 .. Len(spans)
    BY <1>3
  <2>1. (i < a \/ (i = a /\ j < b)) \/ (i = a /\ j = b)
    <3>1. CASE a' = a /\ b' = b + 1
      BY <2>0, <3>1, <1>3
    <3>2. CASE b = Len(spans) /\ a' = a + 1 /\ b' = 1
      BY <2>0, <3>2, <1>3
    <3> QED
      BY <3>1, <3>2, <1>2
  <2> QED
    BY <2>1, <1>1, <1>6 DEF IInv, Scanned
<1>8. Clear'
  <2> SUFFICES ASSUME ~AskedToCross PROVE NonePartly' /\ Sorted' /\ HolderFirst' /\ RowDone'
    BY <1>5 DEF Clear
  <2>1. NonePartly /\ Sorted /\ HolderFirst /\ RowDone
    BY <1>1 DEF IInv, Clear
  <2>2. NonePartly' /\ Sorted' /\ HolderFirst'
    BY <1>1, <2>1 DEF NonePartly, Sorted, HolderFirst
  <2>3. RowDone'
    <3> SUFFICES ASSUME ~spans[a'].forward, NEW j \in DOMAIN spans, j < b', ~spans[j].forward
                 PROVE  ~Cross(spans[a'], spans[j])
      BY <1>1 DEF RowDone
    <3>0. j \in 1 .. Len(spans)
      BY <1>3
    <3>1. a' = a /\ (j < b \/ j = b)
      <4>1. CASE b' = 1
        BY <4>1, <3>0, <1>3
      <4>2. CASE a' = a /\ b' = b + 1
        BY <4>2, <3>0, <1>3
      <4> QED
        BY <4>1, <4>2, <1>2
    <3> QED
      BY <3>1, <2>1, <1>3, <1>6 DEF RowDone
  <2> QED
    BY <2>2, <2>3
<1> QED
  BY <1>4, <1>5, <1>7, <1>8 DEF IInv

LEMMA StartedEarlier == IInv /\ StartEarlier => IInv'
<1> SUFFICES ASSUME IInv, StartEarlier PROVE IInv'
  OBVIOUS
<1>1. /\ NestTypeOK /\ InPass /\ Advance /\ UNCHANGED <<asked, outcome>> /\ outcome = "going"
      /\ changed' = TRUE /\ spans[b].forward
      /\ Cross(spans[a], spans[b])
  BY DEF IInv, StartEarlier, InPass
<1>2. /\ a \in DOMAIN spans /\ b \in DOMAIN spans /\ a # b
      /\ spans' \in Seq(Span) /\ Len(spans') = Len(spans) /\ DOMAIN spans' = DOMAIN spans
      /\ \A i \in DOMAIN spans : i # b => spans'[i] = spans[i]
      /\ spans'[b].start = spans[a].start
      /\ spans'[b].end = spans[b].end
      /\ spans'[b].forward = spans[b].forward
  BY <1>1, StartOnly
<1>3. /\ a' \in 1 .. Len(spans') + 1 /\ b' \in Nat \ {0}
      /\ a' <= Len(spans') => b' <= Len(spans')
      /\ \/ b < Len(spans) /\ a' = a /\ b' = b + 1
         \/ b = Len(spans) /\ a' = a + 1 /\ b' = 1
  BY <1>1, <1>2, NextPair
<1>4. NestTypeOK'
  BY <1>1, <1>2, <1>3 DEF NestTypeOK
<1>t. \A i \in DOMAIN spans :
         /\ i \in Nat
         /\ spans[i].start \in Nat /\ spans[i].end \in Nat /\ spans[i].forward \in BOOLEAN
         /\ asked[i].start \in Nat /\ asked[i].end \in Nat /\ asked[i].forward \in BOOLEAN
  BY <1>1, Elements
<1>c. spans[a].start < spans[b].start /\ spans[b].start <= spans[a].end /\ spans[a].end < spans[b].end
  BY <1>1 DEF Cross
<1>5. LandsTheSame'
  <2> SUFFICES ASSUME NEW i \in DOMAIN spans
               PROVE  /\ spans'[i].forward = asked[i].forward
                      /\ IF spans'[i].forward
                           THEN spans'[i].end = asked[i].end /\ spans'[i].start <= asked[i].start
                           ELSE spans'[i].start = asked[i].start /\ spans'[i].end >= asked[i].end
    BY <1>1, <1>2 DEF LandsTheSame
  <2>1. /\ spans[i].forward = asked[i].forward
        /\ IF spans[i].forward
             THEN spans[i].end = asked[i].end /\ spans[i].start <= asked[i].start
             ELSE spans[i].start = asked[i].start /\ spans[i].end >= asked[i].end
    BY DEF IInv, LandsTheSame
  <2>2. CASE i # b
    <3>1. spans'[i] = spans[i]
      BY <2>2, <1>2
    <3> QED
      BY <3>1, <2>1
  <2>3. CASE i = b
    <3>1. spans[i].end = asked[i].end /\ spans[i].start <= asked[i].start
      BY <2>1, <2>3, <1>1
    <3>2. spans'[i].start <= asked[i].start
      BY <3>1, <2>3, <1>2, <1>t, <1>c
    <3>3. spans'[i].forward = spans[i].forward /\ spans'[i].forward /\ spans'[i].end = spans[i].end
      BY <2>3, <1>1, <1>2
    <3> QED
      BY <3>1, <3>2, <3>3, <2>1
  <2> QED
    BY <2>2, <2>3
<1>6. Scanned' /\ Laminar' /\ RefusedOnlyIfAsked' /\ AskedToCross' = AskedToCross
  BY <1>1 DEF Scanned, Laminar, RefusedOnlyIfAsked, AskedToCross
<1>7. Clear'
  <2> SUFFICES ASSUME ~AskedToCross PROVE NonePartly' /\ Sorted' /\ HolderFirst' /\ RowDone'
    BY <1>6 DEF Clear
  <2>1. NonePartly /\ Sorted /\ HolderFirst /\ RowDone
    BY <1>1 DEF IInv, Clear
  <2>2. NonePartly'
    <3> SUFFICES ASSUME NEW i \in DOMAIN spans, NEW j \in DOMAIN spans,
                        spans'[i].forward, ~spans'[j].forward, Cross(spans'[i], spans'[j])
                 PROVE  FALSE
      BY <1>2 DEF NonePartly
    <3>1. j # b /\ spans'[j] = spans[j] /\ ~spans[j].forward
      BY <1>1, <1>2
    <3>2. CASE i # b
      BY <3>1, <3>2, <1>2, <2>1 DEF NonePartly
    <3>3. CASE i = b
      <4>1. /\ spans[a].start < spans[j].start
            /\ spans[j].start <= spans[b].end /\ spans[b].end < spans[j].end
        BY <3>1, <3>3, <1>2 DEF Cross
      <4>2. spans[b].start >= spans[j].start
        <5>1. ~Cross(spans[b], spans[j])
          BY <3>1, <1>1, <1>2, <2>1 DEF NonePartly
        <5> QED
          BY <5>1, <4>1, <1>t, <1>2 DEF Cross
      <4>3. Cross(spans[a], spans[j])
        BY <4>1, <4>2, <1>c, <1>t, <1>2 DEF Cross
      <4>4. ~spans[a].forward
        BY <4>3, <3>1, <1>2, <2>1 DEF NonePartly
      <4>5. j < b
        BY <4>1, <4>2, <3>1, <1>1, <1>2, <2>1 DEF HolderFirst
      <4>6. a <= Len(spans)
        BY <1>1 DEF InPass
      <4> QED
        BY <4>3, <4>4, <4>5, <4>6, <3>1, <2>1 DEF RowDone
    <3> QED
      BY <3>2, <3>3
  <2>3. Sorted'
    BY <1>1, <1>2, <2>1 DEF Sorted
  <2>4. HolderFirst'
    <3> SUFFICES ASSUME NEW i \in DOMAIN spans, NEW j \in DOMAIN spans,
                        spans'[i].forward, ~spans'[j].forward,
                        spans'[i].start >= spans'[j].start, spans'[i].end < spans'[j].end
                 PROVE  j < i
      BY <1>2 DEF HolderFirst
    <3>1. j # b /\ spans'[j] = spans[j] /\ ~spans[j].forward
      BY <1>1, <1>2
    <3>2. spans[i].forward /\ spans[i].end = spans'[i].end
      BY <1>1, <1>2
    <3>3. spans[i].start >= spans[j].start
      <4>1. CASE i = b
        BY <4>1, <3>1, <1>2, <1>t, <1>c
      <4>2. CASE i # b
        BY <4>2, <3>1, <1>2
      <4> QED
        BY <4>1, <4>2
    <3> QED
      BY <3>1, <3>2, <3>3, <2>1 DEF HolderFirst
  <2>5. RowDone'
    <3> SUFFICES ASSUME a' <= Len(spans), ~spans'[a'].forward,
                        NEW j \in DOMAIN spans, j < b', ~spans'[j].forward
                 PROVE  ~Cross(spans'[a'], spans'[j])
      BY <1>2 DEF RowDone
    <3>1. j # b /\ spans'[j] = spans[j] /\ ~spans[j].forward
      BY <1>1, <1>2
    <3>2. a' = a /\ j < b
      BY <3>1, <1>3, <1>t, <1>2
    <3>3. spans'[a] = spans[a] /\ a <= Len(spans)
      BY <1>2, <1>1 DEF InPass
    <3> QED
      BY <3>1, <3>2, <3>3, <2>1 DEF RowDone
  <2> QED
    BY <2>2, <2>3, <2>4, <2>5
<1> QED
  BY <1>4, <1>5, <1>6, <1>7 DEF IInv

LEMMA EndedLater == IInv /\ EndLater => IInv'
<1> SUFFICES ASSUME IInv, EndLater PROVE IInv'
  OBVIOUS
<1>1. /\ NestTypeOK /\ InPass /\ Advance /\ UNCHANGED <<asked, outcome>> /\ outcome = "going"
      /\ changed' = TRUE /\ ~spans[b].forward /\ ~spans[a].forward
      /\ Cross(spans[a], spans[b])
  BY DEF IInv, EndLater, InPass
<1>2. /\ a \in DOMAIN spans /\ b \in DOMAIN spans /\ a # b
      /\ spans' \in Seq(Span) /\ Len(spans') = Len(spans) /\ DOMAIN spans' = DOMAIN spans
      /\ \A i \in DOMAIN spans : i # a => spans'[i] = spans[i]
      /\ spans'[a].start = spans[a].start
      /\ spans'[a].end = spans[b].end
      /\ spans'[a].forward = spans[a].forward
  BY <1>1, EndOnly
<1>3. /\ a' \in 1 .. Len(spans') + 1 /\ b' \in Nat \ {0}
      /\ a' <= Len(spans') => b' <= Len(spans')
      /\ \/ b < Len(spans) /\ a' = a /\ b' = b + 1
         \/ b = Len(spans) /\ a' = a + 1 /\ b' = 1
  BY <1>1, <1>2, NextPair
<1>4. NestTypeOK'
  BY <1>1, <1>2, <1>3 DEF NestTypeOK
<1>t. \A i \in DOMAIN spans :
         /\ i \in Nat
         /\ spans[i].start \in Nat /\ spans[i].end \in Nat /\ spans[i].forward \in BOOLEAN
         /\ asked[i].start \in Nat /\ asked[i].end \in Nat /\ asked[i].forward \in BOOLEAN
  BY <1>1, Elements
<1>c. spans[a].start < spans[b].start /\ spans[b].start <= spans[a].end /\ spans[a].end < spans[b].end
  BY <1>1 DEF Cross
<1>f. \A i \in DOMAIN spans : spans'[i].forward = spans[i].forward /\ spans'[i].start = spans[i].start
  BY <1>2
<1>5. LandsTheSame'
  <2> SUFFICES ASSUME NEW i \in DOMAIN spans
               PROVE  /\ spans'[i].forward = asked[i].forward
                      /\ IF spans'[i].forward
                           THEN spans'[i].end = asked[i].end /\ spans'[i].start <= asked[i].start
                           ELSE spans'[i].start = asked[i].start /\ spans'[i].end >= asked[i].end
    BY <1>1, <1>2 DEF LandsTheSame
  <2>1. /\ spans[i].forward = asked[i].forward
        /\ IF spans[i].forward
             THEN spans[i].end = asked[i].end /\ spans[i].start <= asked[i].start
             ELSE spans[i].start = asked[i].start /\ spans[i].end >= asked[i].end
    BY DEF IInv, LandsTheSame
  <2>2. CASE i # a
    BY <2>1, <2>2, <1>2
  <2>3. CASE i = a
    BY <2>1, <2>3, <1>1, <1>2, <1>t, <1>c
  <2> QED
    BY <2>2, <2>3
<1>6. Scanned' /\ Laminar' /\ RefusedOnlyIfAsked' /\ AskedToCross' = AskedToCross
  BY <1>1 DEF Scanned, Laminar, RefusedOnlyIfAsked, AskedToCross
<1>7. Clear'
  <2> SUFFICES ASSUME ~AskedToCross PROVE NonePartly' /\ Sorted' /\ HolderFirst' /\ RowDone'
    BY <1>6 DEF Clear
  <2>1. NonePartly /\ Sorted /\ HolderFirst /\ RowDone
    BY <1>1 DEF IInv, Clear
  <2>2. NonePartly'
    <3> SUFFICES ASSUME NEW i \in DOMAIN spans, NEW j \in DOMAIN spans,
                        spans'[i].forward, ~spans'[j].forward, Cross(spans'[i], spans'[j])
                 PROVE  FALSE
      BY <1>2 DEF NonePartly
    <3>1. i # a /\ spans'[i] = spans[i] /\ spans[i].forward /\ ~spans[j].forward
      BY <1>1, <1>2
    <3>2. CASE j # a
      BY <3>1, <3>2, <1>2, <2>1 DEF NonePartly
    <3>3. CASE j = a
      <4>1. /\ spans[i].start < spans[a].start
            /\ spans[a].start <= spans[i].end /\ spans[i].end < spans[b].end
        BY <3>1, <3>3, <1>2 DEF Cross
      <4>2. spans[i].end >= spans[a].end
        <5>1. ~Cross(spans[i], spans[a])
          BY <3>1, <1>1, <1>2, <2>1 DEF NonePartly
        <5> QED
          BY <5>1, <4>1, <1>t, <1>2 DEF Cross
      <4>3. Cross(spans[i], spans[b])
        BY <4>1, <4>2, <1>c, <1>t, <1>2 DEF Cross
      <4> QED
        BY <4>3, <3>1, <1>1, <1>2, <2>1 DEF NonePartly
    <3> QED
      BY <3>2, <3>3
  <2>3. Sorted'
    BY <1>f, <1>2, <2>1 DEF Sorted
  <2>4. HolderFirst'
    <3> SUFFICES ASSUME NEW i \in DOMAIN spans, NEW j \in DOMAIN spans,
                        spans'[i].forward, ~spans'[j].forward,
                        spans'[i].start >= spans'[j].start, spans'[i].end < spans'[j].end
                 PROVE  j < i
      BY <1>2 DEF HolderFirst
    <3>1. i # a /\ spans'[i] = spans[i] /\ spans[i].forward /\ ~spans[j].forward
          /\ spans[i].start >= spans[j].start
      BY <1>1, <1>2
    <3>2. CASE j # a
      BY <3>1, <3>2, <1>2, <2>1 DEF HolderFirst
    <3>3. CASE j = a /\ spans[i].end < spans[a].end
      BY <3>1, <3>3, <1>2, <2>1 DEF HolderFirst
    <3>4. CASE j = a /\ ~(spans[i].end < spans[a].end)
      <4>1. spans[i].end < spans[b].end
        BY <3>1, <3>4, <1>2
      <4>2. spans[b].start <= spans[i].end
        BY <3>4, <1>c, <1>t, <1>2
      <4>3. spans[i].start >= spans[b].start
        <5>1. ~Cross(spans[i], spans[b])
          BY <3>1, <1>1, <1>2, <2>1 DEF NonePartly
        <5> QED
          BY <5>1, <4>1, <4>2, <1>t, <1>2 DEF Cross
      <4>4. b < i
        BY <4>1, <4>3, <3>1, <1>1, <1>2, <2>1 DEF HolderFirst
      <4>5. a < b
        BY <1>1, <1>2, <1>c, <2>1 DEF Sorted
      <4> QED
        BY <4>4, <4>5, <3>4, <1>t, <1>2
    <3> QED
      BY <3>2, <3>3, <3>4
  <2>5. RowDone'
    <3> SUFFICES ASSUME a' <= Len(spans), NEW j \in DOMAIN spans, j < b', ~spans'[j].forward,
                        Cross(spans'[a'], spans'[j])
                 PROVE  FALSE
      BY <1>2 DEF RowDone
    <3>1. a' = a /\ (j < b \/ j = b)
      BY <1>3, <1>t, <1>2
    <3>2. /\ spans[a].start < spans'[j].start /\ spans'[j].start <= spans[b].end
          /\ spans[b].end < spans'[j].end
      BY <3>1, <1>2 DEF Cross
    <3>3. j # a /\ j # b /\ spans'[j] = spans[j] /\ ~spans[j].forward
      BY <3>2, <1>2, <1>t
    <3>4. ~Cross(spans[a], spans[j])
      <4>1. a <= Len(spans)
        BY <1>1 DEF InPass
      <4> QED
        BY <4>1, <3>1, <3>3, <1>1, <2>1 DEF RowDone
    <3>5. spans[b].start < spans[j].start
      BY <3>2, <3>3, <3>4, <1>c, <1>t, <1>2 DEF Cross
    <3>6. b < j
      BY <3>3, <3>5, <1>1, <1>2, <2>1 DEF Sorted
    <3> QED
      BY <3>1, <3>3, <3>6, <1>t, <1>2
  <2> QED
    BY <2>2, <2>3, <2>4, <2>5
<1> QED
  BY <1>4, <1>5, <1>6, <1>7 DEF IInv

LEMMA GaveUp == IInv /\ GiveUp => IInv'
<1> SUFFICES ASSUME IInv, GiveUp PROVE IInv'
  OBVIOUS
<1>1. /\ UNCHANGED <<spans, asked, a, b, changed>> /\ outcome' = "crossing" /\ outcome = "going"
      /\ NestTypeOK
  BY DEF IInv, GiveUp, InPass
<1>2. NestTypeOK' /\ LandsTheSame' /\ Scanned' /\ Laminar' /\ Clear' /\ AskedToCross' = AskedToCross
  BY <1>1 DEF IInv, NestTypeOK, LandsTheSame, Scanned, Laminar, Clear, AskedToCross
<1>3. AskedToCross
  <2> SUFFICES ASSUME ~AskedToCross PROVE FALSE
    OBVIOUS
  <2>1. NonePartly
    BY <1>1 DEF IInv, Clear
  <2>2. a \in DOMAIN spans /\ b \in DOMAIN spans
    BY <1>1 DEF NestTypeOK, GiveUp, InPass
  <2> QED
    BY <2>1, <2>2 DEF NonePartly, GiveUp
<1> QED
  BY <1>2, <1>3 DEF IInv, RefusedOnlyIfAsked

LEMMA PassEnded == IInv /\ EndPass => IInv'
<1> SUFFICES ASSUME IInv, EndPass PROVE IInv'
  OBVIOUS
<1>1. UNCHANGED <<spans, asked>> /\ outcome = "going" /\ a > Len(spans) /\ NestTypeOK
  BY DEF IInv, EndPass
<1>2. LandsTheSame' /\ AskedToCross' = AskedToCross
  BY <1>1 DEF IInv, LandsTheSame, AskedToCross
<1>3. Len(spans) \in Nat /\ DOMAIN spans = 1 .. Len(spans)
  BY <1>1 DEF NestTypeOK
<1>4. CASE changed
  <2>1. a' = 1 /\ b' = 1 /\ changed' = FALSE /\ outcome' = "going"
    BY <1>1, <1>4 DEF EndPass
  <2>2. NestTypeOK' /\ Laminar' /\ RefusedOnlyIfAsked'
    <3>1. 1 \in 1 .. Len(spans) + 1 /\ (1 <= Len(spans) => 1 <= Len(spans)) /\ 1 \in Nat \ {0}
      BY <1>3
    <3> QED
      BY <3>1, <1>1, <2>1 DEF NestTypeOK, Laminar, RefusedOnlyIfAsked
  <2>3. Scanned'
    BY <1>1, <1>3, <2>1 DEF Scanned
  <2>4. Clear'
    <3> SUFFICES ASSUME ~AskedToCross PROVE NonePartly' /\ Sorted' /\ HolderFirst' /\ RowDone'
      BY <1>2 DEF Clear
    <3>1. NonePartly /\ Sorted /\ HolderFirst
      BY <1>1 DEF IInv, Clear
    <3>2. NonePartly' /\ Sorted' /\ HolderFirst'
      BY <3>1, <1>1 DEF NonePartly, Sorted, HolderFirst
    <3>3. RowDone'
      BY <1>1, <1>3, <2>1 DEF RowDone
    <3> QED
      BY <3>2, <3>3
  <2> QED
    BY <1>2, <2>2, <2>3, <2>4 DEF IInv
<1>5. CASE ~changed
  <2>1. UNCHANGED <<a, b, changed>> /\ outcome' = "nested"
    BY <1>1, <1>5 DEF EndPass
  <2>2. NestTypeOK' /\ Scanned' /\ RefusedOnlyIfAsked' /\ Clear'
    BY <1>1, <2>1 DEF NestTypeOK, Scanned, RefusedOnlyIfAsked, Clear
  <2>3. Laminar'
    <3>1. \A i, j \in DOMAIN spans : ~Cross(spans[i], spans[j])
      <4>1. \A i \in DOMAIN spans : i < a
        BY <1>1, <1>3 DEF NestTypeOK
      <4> QED
        BY <4>1, <1>1, <1>5 DEF IInv, Scanned
    <3> QED
      BY <3>1, <1>1 DEF Laminar
  <2> QED
    BY <1>2, <2>2, <2>3 DEF IInv
<1> QED
  BY <1>4, <1>5

LEMMA NestSafe == NestSpec => []IInv
<1>1. NestInit => IInv
  BY NestInitial
<1>2. IInv /\ [NestNext]_nest => IInv'
  <2> SUFFICES ASSUME IInv, [NestNext]_nest PROVE IInv'
    OBVIOUS
  <2>1. CASE UNCHANGED nest
    BY <2>1 DEF nest, IInv, NestTypeOK, LandsTheSame, Scanned, Laminar, Clear, RefusedOnlyIfAsked,
                AskedToCross, NonePartly, Sorted, HolderFirst, RowDone
  <2>2. CASE Compare
    BY <2>2, Agreed, StartedEarlier, EndedLater, GaveUp, PassEnded DEF Compare
  <2>3. CASE spans' \in Seq({s \in Span : IsRange(s)}) /\ InOrder(spans') /\ Begin(spans')
    BY <2>3, BeginsInOrder
  <2> QED
    BY <2>1, <2>2, <2>3 DEF NestNext
<1> QED
  BY <1>1, <1>2, PTL DEF NestSpec

(* What is accepted was not asked to cross: the forward range of such a    *)
(* pair has kept its end and the backward one its start.                   *)
LEMMA NestedWasNotAsked == IInv => AcceptedOnlyIfNot
<1> SUFFICES ASSUME IInv, outcome = "nested", AskedToCross PROVE FALSE
  BY DEF AcceptedOnlyIfNot
<1>1. PICK i, j \in DOMAIN asked : asked[i].forward /\ ~asked[j].forward /\ Cross(asked[i], asked[j])
  BY DEF AskedToCross
<1>2. i \in DOMAIN spans /\ j \in DOMAIN spans
  BY DEF IInv, NestTypeOK
<1>3. /\ spans[i].end = asked[i].end /\ spans[i].start <= asked[i].start
      /\ spans[j].start = asked[j].start /\ spans[j].end >= asked[j].end
  BY <1>1, <1>2 DEF IInv, LandsTheSame
<1>4. /\ spans[i].start \in Nat /\ asked[i].start \in Nat /\ asked[i].end \in Nat
      /\ spans[j].end \in Nat /\ asked[j].start \in Nat /\ asked[j].end \in Nat
  BY <1>2, Elements DEF IInv
<1>5. Cross(spans[i], spans[j])
  BY <1>1, <1>3, <1>4 DEF Cross
<1> QED
  BY <1>2, <1>5 DEF IInv, Laminar

---------------------------------------------------------------------------
(* The comparison stays within the ranges, and they stay ranges of the     *)
(* same jumps (_nest's two loops).                                         *)
THEOREM NestTypes == NestSpec => []NestTypeOK
<1>1. IInv => NestTypeOK
  BY DEF IInv
<1> QED
  BY <1>1, NestSafe, PTL

(* Accepted ranges nest, however many there are. *)
THEOREM AcceptedNests == NestSpec => []Laminar
<1>1. IInv => Laminar
  BY DEF IInv
<1> QED
  BY <1>1, NestSafe, PTL

(* No widening moves where a jump lands. *)
THEOREM JumpsLandTheSame == NestSpec => []LandsTheSame
<1>1. IInv => LandsTheSame
  BY DEF IInv
<1> QED
  BY <1>1, NestSafe, PTL

(* Ranges are refused only for a forward GOTO that starts before the       *)
(* label of a backward one and lands inside what that repeats: the reason  *)
(* that goto.py gives for every GOTO that stays.                           *)
THEOREM RefusalIsJustified == NestSpec => []RefusedOnlyIfAsked
<1>1. IInv => RefusedOnlyIfAsked
  BY DEF IInv
<1> QED
  BY <1>1, NestSafe, PTL

(* And such ranges are never accepted. *)
THEOREM CrossingIsRefused == NestSpec => []AcceptedOnlyIfNot
<1> QED
  BY NestedWasNotAsked, NestSafe, PTL
=============================================================================
