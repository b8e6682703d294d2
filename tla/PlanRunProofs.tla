---------------------------- MODULE PlanRunProofs ----------------------------
(***************************************************************************)
(* Proofs about FetchPlan and PlanRun, for every schema, every statement,  *)
(* whatever the tables hold and however often others write.                *)
(*                                                                         *)
(* The decomposer: over what the fetches of a plan leave of the tables,    *)
(* its statement returns what it returns over all of them.  The argument   *)
(* has three parts.                                                        *)
(*   1. The predicates that are pushed onto an alias hold of its row       *)
(*      wherever the WHERE is true (PushedHolds): each clause of the       *)
(*      normal form holds when the condition is true, and where a join may *)
(*      leave the alias without a row none of them is a NULL test, so that *)
(*      an alias with predicates has a row (RowsSatisfy).                  *)
(*   2. The environments of each select over the whole tables that pass,   *)
(*      and those over what is left, are each other's images, join by join *)
(*      and condition by condition (JoinsAgree, CondAgree), although a row *)
(*      that is left out may have matched in a join before it is dropped.  *)
(*   3. The images are one to one, since the key is fetched (ImgInjective),*)
(*      so that each row is returned as often (AnswersAgree), and every    *)
(*      row that satisfies the predicates is read by a fetch (JobFacts).   *)
(*                                                                         *)
(* The runtime: an inductive invariant, IInv, and what follows from it.    *)
(***************************************************************************)
EXTENDS PlanRun, FiniteSetTheorems, WellFoundedInduction, TLAPS

----------------------------------------------------------------------------
(* Values defined along a rank: tlapm is told that the recursive functions *)
(* of FetchPlan have the values their definitions give                     *)

Less == {ss \in Nat \X Nat : ss[1] < ss[2]}

(* Every set of naturals that is not empty has a least member. *)
LEMMA LeastNatural ==
  ASSUME NEW T, T \subseteq Nat, T # {}
  PROVE  \E n \in T : \A m \in T : n <= m
<1>1. IsWellFoundedOn(Less, Nat)
  BY NatLessThanWellFounded DEF OpToRel, Less
<1>2. PICK n \in T : \A m \in T : ~ (<<m, n>> \in Less)
  BY <1>1, WFMin
<1>3. \A m \in T : ~ (m < n)
  BY <1>2 DEF Less
<1> QED BY <1>3

(* What is defined along a rank, each value from those of lower rank, is   *)
(* defined: a function with these values exists.                           *)
Valued(D, T) == {g \in [D -> UNION {T[x] : x \in D}] : \A x \in D : g[x] \in T[x]}

Ranked(D, F, G, rank) ==
  \A g, h \in F : \A x \in D : (\A y \in D : rank[y] < rank[x] => g[y] = h[y]) => G[g][x] = G[h][x]

AlongRank(D, T, G, rank) ==
  /\ rank \in [D -> Nat]
  /\ G \in [Valued(D, T) -> Valued(D, T)]
  /\ \A x \in D : T[x] # {}
  /\ Ranked(D, Valued(D, T), G, rank)

(* What is defined along a rank exists and has the values given to it.     *)
LEMMA Recursion ==
  ASSUME NEW D, NEW T, NEW G, NEW rank, AlongRank(D, T, G, rank)
  PROVE  \E f \in Valued(D, T) : f = G[f]
<1>h. /\ rank \in [D -> Nat] /\ G \in [Valued(D, T) -> Valued(D, T)]
      /\ (\A x \in D : T[x] # {}) /\ Ranked(D, Valued(D, T), G, rank)
  BY DEF AlongRank
<1> USE <1>h
<1> DEFINE F == Valued(D, T)
<1>a. F = {g \in [D -> UNION {T[x] : x \in D}] : \A x \in D : g[x] \in T[x]}
  BY DEF Valued
<1>b. \A g, h \in F : \A x \in D : (\A y \in D : rank[y] < rank[x] => g[y] = h[y]) => G[g][x] = G[h][x]
  BY DEF Ranked
<1>c. G \in [F -> F]
  OBVIOUS
<1> HIDE DEF F
<1> USE <1>a, <1>b, <1>c
<1> DEFINE Below(g, n) == \A x \in D : rank[x] < n => g[x] = G[g][x]
           A(n) == {g \in F : Below(g, n)}
<1>1. \A n \in Nat : A(n) # {}
  <2> SUFFICES ASSUME \E n \in Nat : A(n) = {}
               PROVE  FALSE
    OBVIOUS
  <2> DEFINE None0 == {n \in Nat : A(n) = {}}
  <2>1. PICK n \in None0 : \A k \in None0 : n <= k
    <3> None0 \subseteq Nat /\ None0 # {}
      <4> HIDE DEF A
      <4> QED OBVIOUS
    <3> HIDE DEF None0
    <3> QED BY LeastNatural
  <2>2. n # 0
    <3> DEFINE g == [x \in D |-> CHOOSE v \in T[x] : TRUE]
    <3>1. g \in F
      <4>1. \A x \in D : (CHOOSE v \in T[x] : TRUE) \in T[x]
        <5> TAKE x \in D
        <5>1. \E v : v \in T[x]
          BY T[x] # {}
        <5> QED BY <5>1
      <4>2. g \in [D -> UNION {T[x] : x \in D}] /\ \A x \in D : g[x] \in T[x]
        BY <4>1
      <4> HIDE DEF g
      <4> QED BY <4>2
    <3>2. \A x \in D : ~ (rank[x] < 0)
      OBVIOUS
    <3> HIDE DEF g
    <3>3. g \in A(0)
      BY <3>1, <3>2
    <3> HIDE DEF A
    <3> QED BY <3>3, <2>1
  <2>3. n - 1 \in Nat /\ A(n - 1) # {}
    <3> HIDE DEF A
    <3>1. n \in Nat /\ n - 1 \in Nat
      BY <2>1, <2>2
    <3>2. n - 1 \notin None0
      <4> HIDE DEF None0
      <4>1. ~ (n <= n - 1)
        BY <3>1
      <4> QED BY <2>1, <4>1
    <3> QED BY <3>1, <3>2
  <2>4. PICK g \in A(n - 1) : TRUE
    BY <2>3
  <2> DEFINE h == G[g]
  <2>5. g \in F /\ h \in F
    BY <2>4
  <2>6. ASSUME NEW x \in D, rank[x] < n
        PROVE  h[x] = G[h][x]
    <3>1. ASSUME NEW y \in D, rank[y] < rank[x]
          PROVE  g[y] = h[y]
      <4>1. rank[y] < n - 1
        BY <3>1, <2>6, <2>1
      <4> QED BY <4>1, <2>4
    <3>2. G[g][x] = G[h][x]
      <4> HIDE DEF h, A
      <4> QED BY <3>1, <2>5
    <3> QED BY <3>2
  <2>7. h \in A(n)
    BY <2>5, <2>6
  <2> QED BY <2>7, <2>1
<1>2. ASSUME NEW n \in Nat, NEW k \in Nat, NEW g \in A(n), NEW h \in A(k),
             NEW z \in D, rank[z] < n, rank[z] < k
      PROVE  g[z] = h[z]
  <2> SUFFICES ASSUME g[z] # h[z] PROVE FALSE
    OBVIOUS
  <2> DEFINE B == {x \in D : rank[x] < n /\ rank[x] < k /\ g[x] # h[x]}
             R == {rank[x] : x \in B}
  <2>1. R \subseteq Nat /\ R # {}
    <3>1. z \in B
      BY <1>2
    <3> HIDE DEF B
    <3>2. B \subseteq D
      BY DEF B
    <3> QED BY <3>1, <3>2
  <2>2. PICK r \in R : \A s \in R : r <= s
    <3> HIDE DEF R
    <3> QED BY <2>1, LeastNatural
  <2>3. PICK x \in B : rank[x] = r
    BY <2>2
  <2>4. ASSUME NEW y \in D, rank[y] < rank[x]
        PROVE  g[y] = h[y]
    <3>1. rank[y] < n /\ rank[y] < k
      BY <2>3, <2>4
    <3>2. y \notin B
      <4>1. ~ (r <= rank[y])
        BY <2>3, <2>4
      <4> QED BY <4>1, <2>2
    <3> QED BY <3>1, <3>2
  <2>5. G[g][x] = G[h][x]
    BY <2>4, <2>3
  <2>6. g[x] = G[g][x] /\ h[x] = G[h][x]
    BY <2>3
  <2> QED BY <2>3, <2>5, <2>6
<1> DEFINE upto(x) == CHOOSE g \in A(rank[x] + 1) : TRUE
           f == [x \in D |-> upto(x)[x]]
<1>3. \A x \in D : upto(x) \in A(rank[x] + 1)
  <2> TAKE x \in D
  <2>1. A(rank[x] + 1) # {}
    <3> HIDE DEF A
    <3> QED BY <1>1, rank[x] + 1 \in Nat
  <2> HIDE DEF A
  <2> QED BY <2>1
<1>4. f \in F
  <2>1. \A x \in D : upto(x)[x] \in T[x]
    <3> TAKE x \in D
    <3>1. upto(x) \in F
      BY <1>3
    <3> HIDE DEF upto
    <3> QED BY <3>1
  <2> HIDE DEF upto
  <2>2. f \in [D -> UNION {T[x] : x \in D}] /\ \A x \in D : f[x] \in T[x]
    BY <2>1
  <2> HIDE DEF f
  <2> QED BY <2>2
<1>5. ASSUME NEW x \in D
      PROVE  G[f][x] = f[x]
  <2> DEFINE g == upto(x)
  <2>1. g \in F /\ g \in A(rank[x] + 1)
    BY <1>3
  <2>2. ASSUME NEW y \in D, rank[y] < rank[x]
        PROVE  f[y] = g[y]
    <3>1. upto(y) \in A(rank[y] + 1)
      BY <1>3
    <3>2. upto(y)[y] = g[y]
      <4> HIDE DEF A, upto, g
      <4> QED BY <1>2, <2>1, <3>1, <2>2, rank[y] + 1 \in Nat, rank[x] + 1 \in Nat, rank[y] < rank[y] + 1, rank[y] < rank[x] + 1
    <3> QED BY <3>2
  <2>3. G[f][x] = G[g][x]
    <3> HIDE DEF f, g
    <3> QED BY <2>1, <2>2, <1>4
  <2>4. G[g][x] = g[x]
    <3> HIDE DEF g
    <3>1. Below(g, rank[x] + 1)
      BY <2>1
    <3> QED BY <3>1, rank[x] < rank[x] + 1
  <2> QED BY <2>3, <2>4
<1>6. f = G[f]
  <2> HIDE DEF f
  <2>1. f \in F /\ G[f] \in F
    BY <1>4
  <2>2. /\ f \in [D -> UNION {T[x] : x \in D}]
        /\ G[f] \in [D -> UNION {T[x] : x \in D}]
    BY <2>1
  <2>3. DOMAIN f = D /\ DOMAIN G[f] = D /\ \A x \in D : f[x] = G[f][x]
    BY <2>2, <1>5
  <2>4. f = [x \in D |-> f[x]] /\ G[f] = [x \in D |-> G[f][x]]
    BY <2>2
  <2> QED BY <2>3, <2>4
<1> QED BY <1>4, <1>6 DEF F

----------------------------------------------------------------------------
(* The phrases of a statement and the selects in them                      *)

Phrases == Conditions \cup Selections

(* The selects of a phrase, those of its parts given *)
SelectsFrom(g, x) ==
  IF x \in Selections
    THEN {x} \cup g[x.where] \cup UNION {g[x.tables[i].on] : i \in DOMAIN x.tables}
    ELSE UNION {g[y] : y \in Operands(x) \cup Queries(x)}

(* The parts of a condition are conditions and selects, and smaller.       *)
LEMMA PartsOfCondition ==
  ASSUME NEW e \in Conditions
  PROVE  /\ IsCondition(e) /\ e \notin Selections /\ e \notin Joins /\ Size[e] \in Nat
         /\ \A d \in Operands(e) : d \in Conditions /\ Size[d] \in Nat /\ Size[d] < Size[e]
         /\ \A s \in Queries(e) : s \in Selections /\ Size[s] \in Nat /\ Size[s] < Size[e]
<1>1. IsCondition(e) /\ e \notin Selections /\ e \notin Joins
  BY FetchPlanAssumption
<1>2. \A d \in Conditions \cup Selections : Size[d] \in Nat
  BY FetchPlanAssumption
<1> QED BY <1>1, <1>2 DEF IsCondition

Entry == [table : Tables, alias : Aliases, side : {"FROM", "INNER", "LEFT", "RIGHT", "NATURAL"}, on : Conditions]

(* So are the parts of a select; a join has room for all of its tables.    *)
LEMMA PartsOfSelect ==
  ASSUME NEW s \in Selections
  PROVE  /\ s.tables \in Seq(Entry) /\ Len(s.tables) \in Nat /\ DOMAIN s.tables = 1 .. Len(s.tables)
         /\ \A i \in DOMAIN s.tables :
              /\ s.tables[i] \in Entry /\ s.tables[i].on \in Conditions
              /\ Size[s.tables[i].on] \in Nat /\ Size[s.tables[i].on] + Len(s.tables) < Size[s]
         /\ \A i, j \in DOMAIN s.tables : s.tables[i].alias = s.tables[j].alias => i = j
         /\ s.where \in Conditions /\ Size[s.where] \in Nat /\ Size[s.where] < Size[s]
         /\ s.out \in Seq(Reference) /\ Size[s] \in Nat
<1>1. IsSelection(s)
  BY FetchPlanAssumption
<1>2. \A d \in Conditions \cup Selections : Size[d] \in Nat
  BY FetchPlanAssumption
<1>3. s.tables \in Seq(Entry)
  BY <1>1 DEF IsSelection, Entry
<1>4. Len(s.tables) \in Nat /\ DOMAIN s.tables = 1 .. Len(s.tables)
      /\ \A i \in DOMAIN s.tables : s.tables[i] \in Entry
  BY <1>3
<1>5. \A z \in Entry : z.on \in Conditions
  BY DEF Entry
<1> QED BY <1>1, <1>2, <1>3, <1>4, <1>5 DEF IsSelection

(* SelectsIn is what its recursion says.                                   *)
LEMMA SelectsInDef ==
  SelectsIn = [x \in Conditions \cup Selections |-> SelectsFrom(SelectsIn, x)]
<1> DEFINE D == Conditions \cup Selections
           T == [x \in D |-> SUBSET Selections]
           F == Valued(D, T)
           G == [g \in F |-> [x \in D |-> SelectsFrom(g, x)]]
<1>1. ASSUME NEW g \in F, NEW x \in D
      PROVE  SelectsFrom(g, x) \subseteq Selections
  <2>1. \A y \in D : g[y] \subseteq Selections
    BY DEF Valued
  <2>2. CASE x \in Selections
    <3>1. x.where \in D /\ \A i \in DOMAIN x.tables : x.tables[i].on \in D
      BY <2>2, PartsOfSelect
    <3> HIDE DEF D, F
    <3> QED BY <3>1, <2>1, <2>2 DEF SelectsFrom
  <2>3. CASE x \notin Selections
    <3>1. \A y \in Operands(x) \cup Queries(x) : y \in D
      BY <2>3, PartsOfCondition
    <3> HIDE DEF D, F
    <3> QED BY <3>1, <2>1, <2>3 DEF SelectsFrom
  <2> QED BY <2>2, <2>3
<1>2. G \in [F -> F]
  <2> SUFFICES ASSUME NEW g \in F
               PROVE  [x \in D |-> SelectsFrom(g, x)] \in F
    OBVIOUS
  <2>1. \A x \in D : SelectsFrom(g, x) \in T[x]
    BY <1>1
  <2>2. [x \in D |-> SelectsFrom(g, x)] \in [D -> UNION {T[x] : x \in D}]
    BY <2>1
  <2> HIDE DEF T, D
  <2> QED BY <2>1, <2>2 DEF Valued
<1>3. ASSUME NEW g \in F, NEW h \in F, NEW x \in D,
             \A y \in D : Size[y] < Size[x] => g[y] = h[y]
      PROVE  G[g][x] = G[h][x]
  <2>1. CASE x \in Selections
    <3>1. g[x.where] = h[x.where]
      BY <2>1, <1>3, PartsOfSelect
    <3>2. \A i \in DOMAIN x.tables : g[x.tables[i].on] = h[x.tables[i].on]
      <4> TAKE i \in DOMAIN x.tables
      <4>1. x.tables[i].on \in D /\ Size[x.tables[i].on] < Size[x]
        BY <2>1, PartsOfSelect
      <4> QED BY <4>1, <1>3
    <3>3. SelectsFrom(g, x) = SelectsFrom(h, x)
      BY <3>1, <3>2, <2>1 DEF SelectsFrom
    <3> QED BY <3>3
  <2>2. CASE x \notin Selections
    <3>1. \A y \in Operands(x) \cup Queries(x) : g[y] = h[y]
      <4> TAKE y \in Operands(x) \cup Queries(x)
      <4>1. y \in D /\ Size[y] < Size[x]
        BY <2>2, PartsOfCondition
      <4> QED BY <4>1, <1>3
    <3>2. SelectsFrom(g, x) = SelectsFrom(h, x)
      BY <3>1, <2>2 DEF SelectsFrom
    <3> QED BY <3>2
  <2> QED BY <2>1, <2>2
<1>4. \A x \in D : T[x] # {}
  OBVIOUS
<1>5. Size \in [D -> Nat]
  BY FetchPlanAssumption
<1>6. \E f \in F : f = G[f]
  <2>1. Ranked(D, F, G, Size)
    <3> HIDE DEF F, G, T, D
    <3> QED BY <1>3 DEF Ranked
  <2> HIDE DEF G, T, D
  <2> QED
    <3>1. AlongRank(D, T, G, Size)
      BY <1>2, <1>4, <1>5, <2>1 DEF AlongRank
    <3>2. \E f \in Valued(D, T) : f = G[f]
      BY ONLY <3>1, Recursion
    <3> QED BY <3>2
<1>7. \E f : f = [x \in Conditions \cup Selections |-> SelectsFrom(f, x)]
  <2>1. PICK f \in F : f = G[f]
    BY <1>6
  <2>2. G[f] = [x \in D |-> SelectsFrom(f, x)]
    OBVIOUS
  <2> HIDE DEF G, F
  <2> QED BY <2>1, <2>2
<1> DEFINE S == CHOOSE f : f = [x \in Conditions \cup Selections |-> SelectsFrom(f, x)]
<1>8. S = [x \in Conditions \cup Selections |-> SelectsFrom(S, x)]
  BY <1>7
<1>9. SelectsIn = S
  BY DEF SelectsIn, SelectsFrom
<1> QED
  <2> HIDE DEF S
  <2> QED BY <1>8, <1>9

(* Every set of ranked values that is not empty has one of least rank. *)
LEMMA LeastRanked ==
  ASSUME NEW D, NEW rank \in [D -> Nat], NEW B, B \subseteq D, B # {}
  PROVE  \E x \in B : \A y \in D : rank[y] < rank[x] => y \notin B
<1> DEFINE R == {rank[x] : x \in B}
<1>1. R \subseteq Nat /\ R # {}
  OBVIOUS
<1>2. PICK n \in R : \A m \in R : n <= m
  <2> HIDE DEF R
  <2> QED BY <1>1, LeastNatural
<1>3. PICK x \in B : rank[x] = n
  BY <1>2
<1>4. ASSUME NEW y \in D, rank[y] < rank[x], y \in B
      PROVE  FALSE
  <2>1. n <= rank[y] /\ rank[y] \in Nat /\ n \in Nat
    BY <1>4, <1>2, <1>1
  <2> QED BY <2>1, <1>3, <1>4
<1> QED BY <1>4, <1>3

(* The same, for a select and for a condition                              *)
LEMMA SelectsInParts ==
  /\ \A s \in Selections :
       SelectsIn[s] = {s} \cup SelectsIn[s.where] \cup UNION {SelectsIn[s.tables[i].on] : i \in DOMAIN s.tables}
  /\ \A e \in Conditions : SelectsIn[e] = UNION {SelectsIn[y] : y \in Operands(e) \cup Queries(e)}
<1>1. \A x \in Conditions \cup Selections : SelectsIn[x] = SelectsFrom(SelectsIn, x)
  <2> DEFINE S == SelectsIn
  <2>1. S = [x \in Conditions \cup Selections |-> SelectsFrom(S, x)]
    BY SelectsInDef
  <2> HIDE DEF S
  <2>2. \A x \in Conditions \cup Selections : S[x] = SelectsFrom(S, x)
    BY <2>1
  <2> QED BY <2>2 DEF S
<1>2. \A e \in Conditions : e \notin Selections
  BY PartsOfCondition
<1> QED BY <1>1, <1>2 DEF SelectsFrom

(* What is in a phrase are selects.                                        *)
LEMMA SelectsInTyped ==
  \A x \in Conditions \cup Selections : SelectsIn[x] \subseteq Selections
<1> DEFINE D == Conditions \cup Selections
           B == {x \in D : ~ (SelectsIn[x] \subseteq Selections)}
<1> SUFFICES ASSUME B # {} PROVE FALSE
  OBVIOUS
<1>1. Size \in [D -> Nat]
  BY FetchPlanAssumption
<1>2. PICK x \in B : \A y \in D : Size[y] < Size[x] => y \notin B
  <2>1. B \subseteq D
    OBVIOUS
  <2> HIDE DEF B, D
  <2> QED BY <1>1, <2>1, LeastRanked
<1>3. CASE x \in Selections
  <2>1. SelectsIn[x.where] \subseteq Selections
    BY <1>2, <1>3, PartsOfSelect
  <2>2. \A i \in DOMAIN x.tables : SelectsIn[x.tables[i].on] \subseteq Selections
    <3> TAKE i \in DOMAIN x.tables
    <3>1. x.tables[i].on \in D /\ Size[x.tables[i].on] < Size[x]
      BY <1>3, PartsOfSelect
    <3> QED BY <3>1, <1>2
  <2>3. SelectsIn[x] \subseteq Selections
    BY <2>1, <2>2, <1>3, SelectsInParts
  <2> QED BY <2>3
<1>4. CASE x \in Conditions
  <2>1. \A y \in Operands(x) \cup Queries(x) : SelectsIn[y] \subseteq Selections
    <3> TAKE y \in Operands(x) \cup Queries(x)
    <3>1. y \in D /\ Size[y] < Size[x]
      BY <1>4, PartsOfCondition
    <3> QED BY <3>1, <1>2
  <2>2. SelectsIn[x] \subseteq Selections
    BY <2>1, <1>4, SelectsInParts
  <2> QED BY <2>2
<1> QED BY <1>3, <1>4

(* The selects of a select in a phrase are in that phrase. *)
LEMMA SelectsInClosed ==
  \A x \in Conditions \cup Selections : \A s \in SelectsIn[x] : SelectsIn[s] \subseteq SelectsIn[x]
<1> DEFINE D == Conditions \cup Selections
           Closed(x) == \A s \in SelectsIn[x] : SelectsIn[s] \subseteq SelectsIn[x]
           B == {x \in D : ~ Closed(x)}
<1> SUFFICES ASSUME B # {} PROVE FALSE
  OBVIOUS
<1>1. Size \in [D -> Nat]
  BY FetchPlanAssumption
<1>2. PICK x \in B : \A y \in D : Size[y] < Size[x] => y \notin B
  <2>1. B \subseteq D
    OBVIOUS
  <2> HIDE DEF B, D
  <2> QED BY <1>1, <2>1, LeastRanked
<1>3. CASE x \in Selections
  <2>1. Closed(x.where)
    BY <1>2, <1>3, PartsOfSelect
  <2>2. \A i \in DOMAIN x.tables : Closed(x.tables[i].on)
    <3> TAKE i \in DOMAIN x.tables
    <3>1. x.tables[i].on \in D /\ Size[x.tables[i].on] < Size[x]
      BY <1>3, PartsOfSelect
    <3> QED BY <3>1, <1>2
  <2>3. Closed(x)
    <3> SUFFICES ASSUME NEW s \in SelectsIn[x] PROVE SelectsIn[s] \subseteq SelectsIn[x]
      OBVIOUS
    <3>0. SelectsIn[x] = {x} \cup SelectsIn[x.where] \cup UNION {SelectsIn[x.tables[i].on] : i \in DOMAIN x.tables}
      BY <1>3, SelectsInParts
    <3>1. CASE s = x
      BY <3>1
    <3>2. CASE s \in SelectsIn[x.where]
      BY <3>2, <2>1, <3>0
    <3>3. CASE \E i \in DOMAIN x.tables : s \in SelectsIn[x.tables[i].on]
      <4>1. PICK i \in DOMAIN x.tables : s \in SelectsIn[x.tables[i].on]
        BY <3>3
      <4>2. SelectsIn[s] \subseteq SelectsIn[x.tables[i].on]
        BY <4>1, <2>2
      <4> QED BY <4>2, <3>0
    <3> QED BY <3>0, <3>1, <3>2, <3>3
  <2> QED BY <2>3
<1>4. CASE x \in Conditions
  <2>1. \A y \in Operands(x) \cup Queries(x) : Closed(y)
    <3> TAKE y \in Operands(x) \cup Queries(x)
    <3>1. y \in D /\ Size[y] < Size[x]
      BY <1>4, PartsOfCondition
    <3> QED BY <3>1, <1>2
  <2>2. SelectsIn[x] = UNION {SelectsIn[y] : y \in Operands(x) \cup Queries(x)}
    BY <1>4, SelectsInParts
  <2>3. Closed(x)
    <3> SUFFICES ASSUME NEW s \in SelectsIn[x] PROVE SelectsIn[s] \subseteq SelectsIn[x]
      OBVIOUS
    <3>1. PICK y \in Operands(x) \cup Queries(x) : s \in SelectsIn[y]
      BY <2>2
    <3>2. SelectsIn[s] \subseteq SelectsIn[y]
      BY <3>1, <2>1
    <3> QED BY <3>2, <2>2
  <2> QED BY <2>3
<1> QED BY <1>3, <1>4

(* The columns a condition names, those that its operands name given *)
NamedFrom(g, e) == References(e) \cup UNION {g[d] : d \in Operands(e)}

(* NamedIn is what its recursion says.                                     *)
LEMMA NamedInDef ==
  \A e \in Conditions : NamedIn[e] = NamedFrom(NamedIn, e)
<1> DEFINE D == Conditions
           T == [x \in D |-> SUBSET Reference]
           F == Valued(D, T)
           G == [g \in F |-> [x \in D |-> NamedFrom(g, x)]]
<1>1. ASSUME NEW g \in F, NEW x \in D
      PROVE  NamedFrom(g, x) \subseteq Reference
  <2>1. \A y \in D : g[y] \subseteq Reference
    BY DEF Valued
  <2>2. References(x) \subseteq Reference /\ \A d \in Operands(x) : d \in D
    BY PartsOfCondition DEF IsCondition
  <2> HIDE DEF D, F
  <2> QED BY <2>1, <2>2 DEF NamedFrom
<1>2. G \in [F -> F]
  <2> SUFFICES ASSUME NEW g \in F
               PROVE  [x \in D |-> NamedFrom(g, x)] \in F
    OBVIOUS
  <2>1. \A x \in D : NamedFrom(g, x) \in T[x]
    BY <1>1
  <2>2. [x \in D |-> NamedFrom(g, x)] \in [D -> UNION {T[x] : x \in D}]
    BY <2>1
  <2> HIDE DEF T, D
  <2> QED BY <2>1, <2>2 DEF Valued
<1>3. ASSUME NEW g \in F, NEW h \in F, NEW x \in D,
             \A y \in D : Size[y] < Size[x] => g[y] = h[y]
      PROVE  G[g][x] = G[h][x]
  <2>1. \A d \in Operands(x) : g[d] = h[d]
    <3> TAKE d \in Operands(x)
    <3>1. d \in D /\ Size[d] < Size[x]
      BY PartsOfCondition
    <3> QED BY <3>1, <1>3
  <2>2. NamedFrom(g, x) = NamedFrom(h, x)
    BY <2>1 DEF NamedFrom
  <2> QED BY <2>2
<1>4. \A x \in D : T[x] # {}
  OBVIOUS
<1> DEFINE rank == [x \in D |-> Size[x]]
<1>5. rank \in [D -> Nat]
  BY FetchPlanAssumption
<1>6. \E f \in F : f = G[f]
  <2>1. Ranked(D, F, G, rank)
    <3>1. \A x \in D : rank[x] = Size[x]
      OBVIOUS
    <3> HIDE DEF F, G, T, D, rank
    <3> QED BY <1>3, <3>1 DEF Ranked
  <2> HIDE DEF G, T, D, rank
  <2> QED
    <3>1. AlongRank(D, T, G, rank)
      BY <1>2, <1>4, <1>5, <2>1 DEF AlongRank
    <3>2. \E f \in Valued(D, T) : f = G[f]
      BY ONLY <3>1, Recursion
    <3> QED BY <3>2
<1>7. \E f : f = [x \in Conditions |-> NamedFrom(f, x)]
  <2>1. PICK f \in F : f = G[f]
    BY <1>6
  <2>2. G[f] = [x \in D |-> NamedFrom(f, x)]
    OBVIOUS
  <2> HIDE DEF G, F
  <2> QED BY <2>1, <2>2
<1> DEFINE S == CHOOSE f : f = [x \in Conditions |-> NamedFrom(f, x)]
<1>8. S = [x \in Conditions |-> NamedFrom(S, x)]
  BY <1>7
<1>9. NamedIn = S
  BY DEF NamedIn, NamedFrom
<1> HIDE DEF S
<1>10. \A e \in Conditions : S[e] = NamedFrom(S, e)
  BY <1>8
<1> QED
  BY <1>9, <1>10

----------------------------------------------------------------------------
(* The clauses of a condition (_expand_in, _push_not, normalize)           *)

OneOfEach(c, d) ==
  \A i \in DOMAIN Crossed(c, d) : \E k \in DOMAIN c, n \in DOMAIN d : Crossed(c, d)[i] = c[k] \o d[n]

(* Crossing two sets of clauses gives each of one with each of the other.  *)
LEMMA CrossedFacts ==
  ASSUME NEW L, NEW c \in Seq(Seq(L)), NEW d \in Seq(Seq(L))
  PROVE  /\ Crossed(c, d) \in Seq(Seq(L))
         /\ OneOfEach(c, d)
<1> DEFINE m == Len(c)
           n == Len(d)
<1>1. /\ m \in Nat /\ n \in Nat /\ m * n \in Nat /\ DOMAIN c = 1 .. m /\ DOMAIN d = 1 .. n
      /\ \A k \in 1 .. m : c[k] \in Seq(L)
      /\ \A k \in 1 .. n : d[k] \in Seq(L)
  OBVIOUS
<1>2. ASSUME NEW i \in 1 .. m * n
      PROVE  1 + ((i - 1) \div n) \in 1 .. m /\ 1 + ((i - 1) % n) \in 1 .. n
  <2> HIDE DEF m, n
  <2>1. n > 0
    BY <1>1, SMT
  <2>2. (i - 1) % n \in 0 .. n - 1
    BY <1>1, <2>1, SMT
  <2> DEFINE q == (i - 1) \div n
             r == (i - 1) % n
  <2>3. q \in Int /\ r \in Int /\ i - 1 = n * q + r
    BY <1>1, <2>1, SMT
  <2>4. q >= 0 /\ q < m
    <3>1. r \in 0 .. n - 1
      BY <2>2
    <3> HIDE DEF q, r
    <3>2. n * q > - n /\ n * q < m * n
      <4> DEFINE u == n * q
                 v == m * n
      <4>1. u \in Int /\ v \in Int /\ i - 1 = u + r /\ r \in Int /\ 0 <= r /\ r < n /\ i \in Int /\ 1 <= i /\ i <= v
        BY <1>1, <2>1, <2>3, <3>1
      <4> HIDE DEF u, v
      <4> QED BY <4>1, <1>1 DEF u, v
    <3>3. \A u, v \in Int : n * u < n * v => u < v
      BY <1>1, <2>1, SMT
    <3>4. n * (-1) = - n /\ n * m = m * n
      BY <1>1, SMT
    <3>5. -1 < q /\ q < m
      BY <3>2, <3>3, <3>4, <2>3, <1>1
    <3> QED BY <3>5, <2>3
  <2> QED BY <1>1, <2>2, <2>3, <2>4 DEF q
<1>3. Crossed(c, d) = [i \in 1 .. m * n |-> c[1 + ((i - 1) \div n)] \o d[1 + ((i - 1) % n)]]
  BY DEF Crossed
<1>4. \A i \in 1 .. m * n : Crossed(c, d)[i] = c[1 + ((i - 1) \div n)] \o d[1 + ((i - 1) % n)]
  BY <1>3
<1> HIDE DEF m, n
<1>5. ASSUME NEW i \in 1 .. m * n
      PROVE  /\ Crossed(c, d)[i] \in Seq(L)
             /\ \E a \in DOMAIN c, b \in DOMAIN d : Crossed(c, d)[i] = c[a] \o d[b]
  <2> DEFINE a == 1 + ((i - 1) \div n)
             b == 1 + ((i - 1) % n)
  <2>1. a \in 1 .. m /\ b \in 1 .. n /\ Crossed(c, d)[i] = c[a] \o d[b]
    BY <1>2, <1>4
  <2> HIDE DEF a, b
  <2>2. c[a] \in Seq(L) /\ d[b] \in Seq(L)
    BY <2>1, <1>1
  <2>3. c[a] \o d[b] \in Seq(L)
    BY <2>2
  <2>4. a \in DOMAIN c /\ b \in DOMAIN d
    BY <2>1, <1>1
  <2> QED BY <2>1, <2>3, <2>4
<1>6. Crossed(c, d) \in Seq(Seq(L)) /\ DOMAIN Crossed(c, d) = 1 .. m * n
  <2>1. DOMAIN Crossed(c, d) = 1 .. m * n
    BY <1>3
  <2>2. Crossed(c, d) \in [1 .. m * n -> Seq(L)]
    BY <1>3, <1>5, <1>4
  <2> DEFINE k == m * n
             S == Seq(L)
  <2>3. k \in Nat /\ Crossed(c, d) \in [1 .. k -> S]
    BY <2>2, <1>1
  <2> HIDE DEF k, S
  <2>4. Crossed(c, d) \in Seq(S)
    BY <2>3
  <2> QED BY <2>1, <2>4 DEF S
<1> QED BY <1>5, <1>6 DEF OneOfEach

Leaves ==
  Conditions \cup {Not(e) : e \in Conditions} \cup {Always}
    \cup [op : {"=", "<>"}, ref : Reference, val : Int]

(* The clauses of a condition, or its negation, those of its operands given *)
ClausesFrom(g, e) ==
  [negate \in BOOLEAN |->
     CASE e.op = "NOT" -> g[e.arg][~negate]
       [] e.op = (IF negate THEN "OR" ELSE "AND") -> g[e.args[1]][negate] \o g[e.args[2]][negate]
       [] e.op = (IF negate THEN "AND" ELSE "OR") -> Crossed(g[e.args[1]][negate], g[e.args[2]][negate])
       [] e.op \in {"=", "<>"} -> <<<<Comparison(IF (e.op = "=") = negate THEN "<>" ELSE "=", e.ref, e.val)>>>>
       [] e.op = "IN" /\ ~negate -> <<[i \in DOMAIN e.vals |-> Comparison("=", e.ref, e.vals[i])]>>
       [] e.op = "IN" /\ negate -> [i \in DOMAIN e.vals |-> <<Comparison("<>", e.ref, e.vals[i])>>]
       [] e.op = "IN QUERY" -> <<<<Always>>>>
       [] OTHER -> <<<<IF negate THEN Not(e) ELSE e>>>>]

(* The clauses, operator by operator                                       *)
LEMMA ClausesCases ==
  ASSUME NEW g, NEW e \in Conditions, NEW b \in BOOLEAN
  PROVE  LET c == ClausesFrom(g, e)[b]
         IN  /\ e.op = "NOT" => c = g[e.arg][~b]
             /\ e.op = "AND" /\ ~b => c = g[e.args[1]][b] \o g[e.args[2]][b]
             /\ e.op = "OR" /\ b => c = g[e.args[1]][b] \o g[e.args[2]][b]
             /\ e.op = "OR" /\ ~b => c = Crossed(g[e.args[1]][b], g[e.args[2]][b])
             /\ e.op = "AND" /\ b => c = Crossed(g[e.args[1]][b], g[e.args[2]][b])
             /\ e.op \in {"=", "<>"} => c = <<<<Comparison(IF (e.op = "=") = b THEN "<>" ELSE "=", e.ref, e.val)>>>>
             /\ e.op = "IN" /\ ~b => c = <<[i \in DOMAIN e.vals |-> Comparison("=", e.ref, e.vals[i])]>>
             /\ e.op = "IN" /\ b => c = [i \in DOMAIN e.vals |-> <<Comparison("<>", e.ref, e.vals[i])>>]
             /\ e.op = "IN QUERY" => c = <<<<Always>>>>
             /\ e.op \in {"TRUE", "IS NULL", "SAME", "EXISTS"} => c = <<<<IF b THEN Not(e) ELSE e>>>>
BY DEF ClausesFrom

AllClauses == [BOOLEAN -> Seq(Seq(Leaves))]

(* One leaf is a clause, and the clause alone is all of them.              *)
LEMMA SingleClause ==
  ASSUME NEW x \in Leaves
  PROVE  <<<<x>>>> \in Seq(Seq(Leaves))
OBVIOUS

(* The parts of a condition, operator by operator                          *)
LEMMA OperandsOf ==
  ASSUME NEW e \in Conditions
  PROVE  /\ e.op = "NOT" => e.arg \in Operands(e)
         /\ e.op \in {"AND", "OR"} => e.args[1] \in Operands(e) /\ e.args[2] \in Operands(e)
         /\ e.op \in {"EXISTS", "IN QUERY"} => e.query \in Queries(e)
         /\ e.op = "SAME" => e.ref \in References(e) /\ e.other \in References(e)
         /\ e.op \in {"=", "<>", "IS NULL", "IN", "IN QUERY"} => e.ref \in References(e)
         /\ References(e) \subseteq Reference
         /\ e.op \in {"TRUE", "AND", "OR", "NOT", "=", "<>", "IS NULL", "SAME", "IN", "IN QUERY", "EXISTS"}
BY PartsOfCondition DEF Operands, Queries, References, IsCondition

(* Clauses are sequences of leaves, those of the operands being such.      *)
LEMMA ClausesFromTyped ==
  ASSUME NEW e \in Conditions, NEW g, \A d \in Operands(e) : g[d] \in AllClauses
  PROVE  ClausesFrom(g, e) \in AllClauses
<1> DEFINE S == Seq(Seq(Leaves))
<1> SUFFICES ASSUME NEW b \in BOOLEAN PROVE ClausesFrom(g, e)[b] \in S
  <2> DEFINE c == ClausesFrom(g, e)
  <2>1. c = [negate \in BOOLEAN |-> c[negate]]
    BY DEF ClausesFrom
  <2>2. \A b \in BOOLEAN : c[b] \in S
    OBVIOUS
  <2> HIDE DEF c, S
  <2>3. c \in [BOOLEAN -> S]
    BY <2>1, <2>2
  <2> QED BY <2>3 DEF AllClauses, S, c
<1> DEFINE c == ClausesFrom(g, e)[b]
<1>0. \A d \in Operands(e) : \A n \in BOOLEAN : g[d][n] \in S
  BY DEF AllClauses
<1>1. CASE e.op = "NOT"
  <2>1. e.arg \in Operands(e) /\ c = g[e.arg][~b]
    BY <1>1, OperandsOf, ClausesCases
  <2> HIDE DEF S
  <2> QED BY <2>1, <1>0
<1>2. CASE e.op = "AND"
  <2> DEFINE x == g[e.args[1]][b]
             y == g[e.args[2]][b]
  <2>1. x \in S /\ y \in S
    BY <1>2, <1>0, OperandsOf
  <2>2. x \o y \in S /\ Crossed(x, y) \in S
    <3> HIDE DEF x, y
    <3> QED BY <2>1, CrossedFacts
  <2>3. c = x \o y \/ c = Crossed(x, y)
    BY <1>2, ClausesCases
  <2> HIDE DEF x, y, S
  <2> QED BY <2>2, <2>3
<1>3. CASE e.op = "OR"
  <2> DEFINE x == g[e.args[1]][b]
             y == g[e.args[2]][b]
  <2>1. x \in S /\ y \in S
    BY <1>3, <1>0, OperandsOf
  <2>2. x \o y \in S /\ Crossed(x, y) \in S
    <3> HIDE DEF x, y
    <3> QED BY <2>1, CrossedFacts
  <2>3. c = x \o y \/ c = Crossed(x, y)
    BY <1>3, ClausesCases
  <2> HIDE DEF x, y, S
  <2> QED BY <2>2, <2>3
<1>4. CASE e.op \in {"=", "<>"}
  <2> DEFINE x == Comparison(IF (e.op = "=") = b THEN "<>" ELSE "=", e.ref, e.val)
  <2>1. c = <<<<x>>>>
    BY <1>4, ClausesCases
  <2>2. e.ref \in Reference /\ e.val \in Int
    BY <1>4, OperandsOf, PartsOfCondition DEF IsCondition
  <2>3. x \in Leaves
    BY <2>2 DEF Comparison, Leaves
  <2> HIDE DEF x
  <2> QED BY <2>1, <2>3, SingleClause
<1>5. CASE e.op = "IN"
  <2>1. e.ref \in Reference /\ e.vals \in Seq(Int)
    BY <1>5, OperandsOf, PartsOfCondition DEF IsCondition
  <2>2. \A i \in DOMAIN e.vals : \A op \in {"=", "<>"} : Comparison(op, e.ref, e.vals[i]) \in Leaves
    BY <2>1 DEF Comparison, Leaves
  <2>3. CASE ~ b
    <3> DEFINE x == [i \in DOMAIN e.vals |-> Comparison("=", e.ref, e.vals[i])]
    <3>1. c = <<x>>
      BY <1>5, <2>3 DEF ClausesFrom
    <3>2. x \in Seq(Leaves)
      BY <2>1, <2>2
    <3> HIDE DEF x
    <3> QED BY <3>1, <3>2
  <2>4. CASE b
    <3> DEFINE x == [i \in DOMAIN e.vals |-> <<Comparison("<>", e.ref, e.vals[i])>>]
    <3>0. b = TRUE
      BY <2>4
    <3>1. c = x
      BY ONLY <1>5, <3>0 DEF ClausesFrom
    <3>2. \A i \in DOMAIN e.vals : <<Comparison("<>", e.ref, e.vals[i])>> \in Seq(Leaves)
      BY <2>2
    <3>3. x \in Seq(Seq(Leaves))
      <4> DEFINE k == Len(e.vals)
                 Q == Seq(Leaves)
      <4>1. k \in Nat /\ DOMAIN e.vals = 1 .. k
        BY <2>1
      <4> HIDE DEF k, Q
      <4>2. x \in [1 .. k -> Q]
        BY <3>2, <4>1 DEF Q
      <4> HIDE DEF x
      <4>3. x \in Seq(Q)
        BY <4>1, <4>2
      <4> QED BY <4>3 DEF Q
    <3> HIDE DEF x
    <3> QED BY <3>1, <3>3
  <2> QED BY <2>3, <2>4
<1>6. CASE e.op = "IN QUERY"
  <2>1. c = <<<<Always>>>>
    BY <1>6, ClausesCases
  <2>2. Always \in Leaves
    BY DEF Leaves
  <2> QED BY <2>1, <2>2, SingleClause
<1>7. CASE e.op \in {"TRUE", "IS NULL", "SAME", "EXISTS"}
  <2> DEFINE x == IF b THEN Not(e) ELSE e
  <2>1. c = <<<<x>>>>
    BY <1>7, ClausesCases
  <2>2. x \in Leaves
    BY DEF Leaves
  <2> HIDE DEF x
  <2> QED BY <2>1, <2>2, SingleClause
<1> QED BY <1>1, <1>2, <1>3, <1>4, <1>5, <1>6, <1>7, OperandsOf

(* Clauses depend on the clauses of the operands and no others.            *)
LEMMA ClausesFromLocal ==
  ASSUME NEW e \in Conditions, NEW g, NEW h, \A d \in Operands(e) : g[d] = h[d]
  PROVE  ClausesFrom(g, e) = ClausesFrom(h, e)
<1> SUFFICES ASSUME NEW b \in BOOLEAN PROVE ClausesFrom(g, e)[b] = ClausesFrom(h, e)[b]
  BY DEF ClausesFrom
<1>1. e.op = "NOT" => g[e.arg] = h[e.arg]
  BY OperandsOf
<1>2. e.op \in {"AND", "OR"} => g[e.args[1]] = h[e.args[1]] /\ g[e.args[2]] = h[e.args[2]]
  BY OperandsOf
<1>3. CASE e.op \in {"NOT", "AND", "OR"}
  BY <1>1, <1>2, <1>3 DEF ClausesFrom
<1>4. CASE e.op = "IN"
  BY <1>4 DEF ClausesFrom
<1>5. CASE e.op \in {"TRUE", "=", "<>", "IS NULL", "SAME", "IN QUERY", "EXISTS"}
  BY <1>5 DEF ClausesFrom
<1> QED BY <1>3, <1>4, <1>5, OperandsOf

(* Clauses is what its recursion says.                                     *)
LEMMA ClausesDef ==
  \A e \in Conditions : Clauses[e] = ClausesFrom(Clauses, e) /\ Clauses[e] \in AllClauses
<1> DEFINE D == Conditions
           T == [x \in D |-> AllClauses]
           F == Valued(D, T)
           G == [g \in F |-> [x \in D |-> ClausesFrom(g, x)]]
<1>1. ASSUME NEW g \in F, NEW x \in D
      PROVE  ClausesFrom(g, x) \in AllClauses
  <2>1. \A y \in D : g[y] \in AllClauses
    BY DEF Valued
  <2>2. \A d \in Operands(x) : d \in D
    BY PartsOfCondition
  <2> QED BY <2>1, <2>2, ClausesFromTyped
<1>2. G \in [F -> F]
  <2> SUFFICES ASSUME NEW g \in F
               PROVE  [x \in D |-> ClausesFrom(g, x)] \in F
    OBVIOUS
  <2>1. \A x \in D : ClausesFrom(g, x) \in T[x]
    BY <1>1
  <2>2. [x \in D |-> ClausesFrom(g, x)] \in [D -> UNION {T[x] : x \in D}]
    BY <2>1
  <2> HIDE DEF T, D
  <2> QED BY <2>1, <2>2 DEF Valued
<1>3. ASSUME NEW g \in F, NEW h \in F, NEW x \in D,
             \A y \in D : Size[y] < Size[x] => g[y] = h[y]
      PROVE  G[g][x] = G[h][x]
  <2>1. \A d \in Operands(x) : g[d] = h[d]
    <3> TAKE d \in Operands(x)
    <3>1. d \in D /\ Size[d] < Size[x]
      BY PartsOfCondition
    <3> QED BY <3>1, <1>3
  <2>2. ClausesFrom(g, x) = ClausesFrom(h, x)
    BY <2>1, ClausesFromLocal
  <2> QED BY <2>2
<1>4. \A x \in D : T[x] # {}
  <2>1. [b \in BOOLEAN |-> <<>>] \in AllClauses
    BY DEF AllClauses
  <2> QED BY <2>1
<1> DEFINE rank == [x \in D |-> Size[x]]
<1>5. rank \in [D -> Nat]
  BY FetchPlanAssumption
<1>6. \E f \in F : f = G[f]
  <2>1. Ranked(D, F, G, rank)
    <3>1. \A x \in D : rank[x] = Size[x]
      OBVIOUS
    <3> HIDE DEF F, G, T, D, rank
    <3> QED BY <1>3, <3>1 DEF Ranked
  <2> HIDE DEF G, T, D, rank
  <2> QED
    <3>1. AlongRank(D, T, G, rank)
      BY <1>2, <1>4, <1>5, <2>1 DEF AlongRank
    <3>2. \E f \in Valued(D, T) : f = G[f]
      BY ONLY <3>1, Recursion
    <3> QED BY <3>2
<1>7. \E f : f = [x \in Conditions |-> ClausesFrom(f, x)]
  <2>1. PICK f \in F : f = G[f]
    BY <1>6
  <2>2. G[f] = [x \in D |-> ClausesFrom(f, x)]
    OBVIOUS
  <2> HIDE DEF G, F
  <2> QED BY <2>1, <2>2
<1> DEFINE S == CHOOSE f : f = [x \in Conditions |-> ClausesFrom(f, x)]
<1>8. S = [x \in Conditions |-> ClausesFrom(S, x)]
  BY <1>7
<1>9. Clauses = S
  BY DEF Clauses, ClausesFrom
<1> HIDE DEF S
<1>10. \A e \in Conditions : S[e] = ClausesFrom(S, e)
  BY <1>8
<1> DEFINE B == {x \in D : Clauses[x] \notin AllClauses}
<1>11. B = {}
  <2> SUFFICES ASSUME B # {} PROVE FALSE
    OBVIOUS
  <2>1. PICK x \in B : \A y \in D : rank[y] < rank[x] => y \notin B
    <3>1. B \subseteq D
      OBVIOUS
    <3> HIDE DEF B, D, rank
    <3> QED BY <1>5, <3>1, LeastRanked
  <2>2. \A d \in Operands(x) : Clauses[d] \in AllClauses
    <3> TAKE d \in Operands(x)
    <3>1. d \in D /\ Size[d] < Size[x]
      BY PartsOfCondition
    <3> QED BY <3>1, <2>1
  <2>3. ClausesFrom(Clauses, x) \in AllClauses
    BY <2>2, ClausesFromTyped
  <2> QED BY <2>3, <1>9, <1>10
<1> QED
  BY <1>9, <1>10, <1>11

----------------------------------------------------------------------------
(* What is pushed onto an alias (_pushdown)                                *)

(* The first n members, those of the first n - 1 given *)
KeptFrom(g, ss, good, n) ==
  IF n = 0 THEN <<>> ELSE IF ss[n] \in good THEN Append(g[n - 1], ss[n]) ELSE g[n - 1]

(* What is kept of a sequence is good and was in it.                       *)
LEMMA KeptFacts ==
  ASSUME NEW L, NEW ss \in Seq(L), NEW good
  PROVE  /\ Kept(ss, good) \in Seq(L)
         /\ \A i \in DOMAIN Kept(ss, good) : Kept(ss, good)[i] \in good /\ Kept(ss, good)[i] \in L
<1> DEFINE len == Len(ss)
           D == 0 .. len
           M == L \cap good
           T == [n \in D |-> Seq(M)]
           F == Valued(D, T)
           G == [g \in F |-> [n \in D |-> KeptFrom(g, ss, good, n)]]
<1>0. len \in Nat /\ D \subseteq Nat /\ \A n \in D : n # 0 => n - 1 \in D /\ ss[n] \in L
  OBVIOUS
<1>1. ASSUME NEW g, NEW n \in D, n # 0 => g[n - 1] \in Seq(M)
      PROVE  KeptFrom(g, ss, good, n) \in Seq(M)
  <2>1. CASE n = 0
    BY <2>1 DEF KeptFrom
  <2>2. CASE n # 0 /\ ss[n] \in good
    <3>1. g[n - 1] \in Seq(M) /\ ss[n] \in M
      BY <2>2, <1>1, <1>0
    <3> HIDE DEF M
    <3> QED BY <3>1, <2>2 DEF KeptFrom
  <2>3. CASE n # 0 /\ ss[n] \notin good
    BY <2>3, <1>1 DEF KeptFrom
  <2> QED BY <2>1, <2>2, <2>3
<1> HIDE DEF len, M
<1>2. G \in [F -> F]
  <2> SUFFICES ASSUME NEW g \in F
               PROVE  [n \in D |-> KeptFrom(g, ss, good, n)] \in F
    OBVIOUS
  <2>1. \A n \in D : g[n] \in Seq(M)
    BY DEF Valued
  <2>2. \A n \in D : KeptFrom(g, ss, good, n) \in T[n]
    BY <1>0, <1>1, <2>1
  <2>3. [n \in D |-> KeptFrom(g, ss, good, n)] \in [D -> UNION {T[n] : n \in D}]
    BY <2>2
  <2> HIDE DEF T, D
  <2> QED BY <2>2, <2>3 DEF Valued
<1> DEFINE rank == [n \in D |-> n]
<1>3. ASSUME NEW g \in F, NEW h \in F, NEW n \in D,
             \A y \in D : rank[y] < rank[n] => g[y] = h[y]
      PROVE  G[g][n] = G[h][n]
  <2>1. n # 0 => g[n - 1] = h[n - 1]
    <3>1. n # 0 => n - 1 \in D /\ n - 1 < n
      BY <1>0
    <3> QED BY <3>1, <1>3
  <2>2. KeptFrom(g, ss, good, n) = KeptFrom(h, ss, good, n)
    BY <2>1 DEF KeptFrom
  <2> QED BY <2>2
<1>4. \A n \in D : T[n] # {}
  <2>1. <<>> \in Seq(M)
    OBVIOUS
  <2> QED BY <2>1
<1>5. rank \in [D -> Nat]
  BY <1>0
<1>6. \E f \in F : f = G[f]
  <2>1. Ranked(D, F, G, rank)
    <3> HIDE DEF F, G, T, D, rank
    <3> QED BY <1>3 DEF Ranked
  <2> HIDE DEF G, T, D, rank
  <2> QED
    <3>1. AlongRank(D, T, G, rank)
      BY <1>2, <1>4, <1>5, <2>1 DEF AlongRank
    <3>2. \E f \in Valued(D, T) : f = G[f]
      BY ONLY <3>1, Recursion
    <3> QED BY <3>2
<1>7. \E f : f = [n \in D |-> KeptFrom(f, ss, good, n)]
  <2>1. PICK f \in F : f = G[f]
    BY <1>6
  <2>2. G[f] = [n \in D |-> KeptFrom(f, ss, good, n)]
    OBVIOUS
  <2> HIDE DEF G, F
  <2> QED BY <2>1, <2>2
<1> DEFINE S == CHOOSE f : f = [n \in D |-> KeptFrom(f, ss, good, n)]
<1>8. S = [n \in D |-> KeptFrom(S, ss, good, n)]
  BY <1>7
<1>9. Kept(ss, good) = S[len]
  BY DEF Kept, KeptFrom, len
<1> HIDE DEF S
<1>10. \A n \in D : S[n] = KeptFrom(S, ss, good, n)
  BY <1>8
<1> DEFINE B == {n \in D : S[n] \notin Seq(M)}
<1>11. B = {}
  <2> SUFFICES ASSUME B # {} PROVE FALSE
    OBVIOUS
  <2>1. PICK n \in B : \A y \in D : rank[y] < rank[n] => y \notin B
    <3>1. B \subseteq D
      OBVIOUS
    <3> HIDE DEF B, D, rank
    <3> QED BY <1>5, <3>1, LeastRanked
  <2>2. n # 0 => S[n - 1] \in Seq(M)
    <3>1. n \in D
      BY <2>1
    <3>2. n # 0 => n - 1 \in D /\ rank[n - 1] < rank[n]
      BY <3>1, <1>0
    <3> HIDE DEF rank
    <3>3. n # 0 => n - 1 \notin B
      BY <3>2, <2>1
    <3> QED BY <3>2, <3>3
  <2>3. KeptFrom(S, ss, good, n) \in Seq(M)
    BY <2>1, <2>2, <1>1
  <2> QED BY <2>1, <2>3, <1>10
<1>12. S[len] \in Seq(M)
  <2>1. len \in D
    BY <1>0
  <2> QED BY <2>1, <1>11
<1>13. Kept(ss, good) \in Seq(M)
  BY <1>9, <1>12
<1> DEFINE K == Kept(ss, good)
<1> HIDE DEF K
<1>14. K \in Seq(M)
  BY <1>13 DEF K
<1>15. \A i \in DOMAIN K : K[i] \in M
  BY <1>14
<1>16. K \in Seq(L)
  <2>1. M \subseteq L
    BY DEF M
  <2> QED BY <1>14, <2>1
<1> QED BY <1>15, <1>16 DEF K, M

(* The members of a sequence                                               *)
LEMMA ToSetOf ==
  ASSUME NEW L, NEW ss \in Seq(L)
  PROVE  /\ \A x \in ToSet(ss) : x \in L /\ \E i \in DOMAIN ss : x = ss[i]
         /\ \A i \in DOMAIN ss : ss[i] \in ToSet(ss)
         /\ ss \in Seq(ToSet(ss))
<1>1. \A x \in ToSet(ss) : x \in L /\ \E i \in DOMAIN ss : x = ss[i]
  BY DEF ToSet
<1>2. \A i \in DOMAIN ss : ss[i] \in ToSet(ss)
  BY DEF ToSet
<1>3. Len(ss) \in Nat /\ DOMAIN ss = 1 .. Len(ss) /\ ss \in [1 .. Len(ss) -> ToSet(ss)]
  BY <1>2
<1> DEFINE S == ToSet(ss)
           n == Len(ss)
<1>4. n \in Nat /\ ss \in [1 .. n -> S]
  BY <1>3
<1> HIDE DEF S, n
<1>5. ss \in Seq(S)
  BY <1>4
<1> QED BY <1>1, <1>2, <1>5 DEF S

(* A group of predicates that select s pushes onto an alias: the whole of  *)
(* clause c of the WHERE, on its columns, and no NULL test where the alias *)
(* may stand for no row                                                    *)
GroupFrom(s, alias, group, c) ==
  /\ \E k \in DOMAIN Clauses[s.where][FALSE] : c = Clauses[s.where][FALSE][k]
  /\ group = [j \in DOMAIN c |-> Predicate(c[j])]
  /\ \A j \in DOMAIN c :
       /\ IsPredicate(c[j], alias)
       /\ alias \in OuterJoined(s) => ~NullTest(Predicate(c[j]))

(* What a select pushes onto an alias is a sequence of such groups.        *)
LEMMA PushedFacts ==
  ASSUME NEW s \in Selections, NEW alias
  PROVE  /\ DOMAIN Pushed(s, alias) \subseteq Nat
         /\ \E n \in Nat : Pushed(s, alias) = [i \in 1 .. n |-> Pushed(s, alias)[i]]
         /\ \A i \in DOMAIN Pushed(s, alias) : \E c \in Seq(Leaves) : GroupFrom(s, alias, Pushed(s, alias)[i], c)
<1> DEFINE holds(clause) ==
             \A i \in DOMAIN clause :
               /\ IsPredicate(clause[i], alias)
               /\ alias \in OuterJoined(s) => ~NullTest(Predicate(clause[i]))
           all  == Clauses[s.where][FALSE]
           good == {c \in ToSet(all) : holds(c)}
           kept == Kept(all, good)
<1>1. all \in Seq(Seq(Leaves))
  <2>1. s.where \in Conditions
    BY PartsOfSelect
  <2> QED BY <2>1, ClausesDef DEF AllClauses
<1>2. Pushed(s, alias) = [i \in DOMAIN kept |-> [j \in DOMAIN kept[i] |-> Predicate(kept[i][j])]]
  BY DEF Pushed
<1> HIDE DEF all
<1>3. kept \in Seq(Seq(Leaves)) /\ \A i \in DOMAIN kept : kept[i] \in good /\ kept[i] \in Seq(Leaves)
  <2> DEFINE L == Seq(Leaves)
  <2> HIDE DEF good, L
  <2>1. all \in Seq(L)
    BY <1>1 DEF L
  <2>2. kept \in Seq(L) /\ \A i \in DOMAIN kept : kept[i] \in good /\ kept[i] \in L
    BY <2>1, KeptFacts
  <2> QED BY <2>2 DEF L
<1> HIDE DEF kept
<1>4. DOMAIN kept \subseteq Nat /\ Len(kept) \in Nat /\ DOMAIN kept = 1 .. Len(kept)
  BY <1>3
<1>5. DOMAIN Pushed(s, alias) = DOMAIN kept
      /\ \A i \in DOMAIN kept : Pushed(s, alias)[i] = [j \in DOMAIN kept[i] |-> Predicate(kept[i][j])]
  BY <1>2
<1>6. ASSUME NEW i \in DOMAIN kept
      PROVE  /\ kept[i] \in Seq(Leaves) /\ holds(kept[i])
             /\ \E k \in DOMAIN all : kept[i] = all[k]
  <2>1. kept[i] \in good /\ kept[i] \in Seq(Leaves)
    BY <1>3
  <2>2. \A c \in ToSet(all) : \E k \in DOMAIN all : c = all[k]
    BY <1>1, ToSetOf
  <2> QED BY <2>1, <2>2
<1>7. Pushed(s, alias) = [i \in 1 .. Len(kept) |-> Pushed(s, alias)[i]]
  BY <1>2, <1>4
<1>8. ASSUME NEW i \in DOMAIN Pushed(s, alias)
      PROVE  \E c \in Seq(Leaves) : GroupFrom(s, alias, Pushed(s, alias)[i], c)
  <2>1. i \in DOMAIN kept /\ Pushed(s, alias)[i] = [j \in DOMAIN kept[i] |-> Predicate(kept[i][j])]
    BY <1>5
  <2>2. kept[i] \in Seq(Leaves) /\ holds(kept[i]) /\ \E k \in DOMAIN all : kept[i] = all[k]
    BY <1>6, <2>1
  <2>3. GroupFrom(s, alias, Pushed(s, alias)[i], kept[i])
    BY ONLY <2>1, <2>2 DEF GroupFrom, all
  <2> QED BY <2>2, <2>3
<1> QED BY <1>4, <1>5, <1>7, <1>8

----------------------------------------------------------------------------
(* What conditions and joins mean, and that Meaning is well defined        *)

Environments(tables) == [Aliases -> {NoRow} \cup UNION {tables[t].rows : t \in Tables}]

(* A join is told from a condition and has its select and its tables.      *)
LEMMA JoinFacts ==
  ASSUME NEW s \in Selections, NEW n \in Nat
  PROVE  /\ Join(s, n) \in Joins /\ Join(s, n).select = s /\ Join(s, n).upto = n
         /\ Join(s, n) \notin Conditions
BY FetchPlanAssumption DEF Join, Joins

(* The truth of a condition, operator by operator                          *)
LEMMA TruthCases ==
  ASSUME NEW m, NEW e \in Conditions, NEW env
  PROVE  /\ e.op = "TRUE" => TruthOf(m, e, env) = 1
         /\ e.op = "AND" => TruthOf(m, e, env) = AllOf({m[<<e.args[1], env>>], m[<<e.args[2], env>>]})
         /\ e.op = "OR" => TruthOf(m, e, env) = AnyOf({m[<<e.args[1], env>>], m[<<e.args[2], env>>]})
         /\ e.op = "NOT" => TruthOf(m, e, env) = Negated(m[<<e.arg, env>>])
         /\ e.op = "IS NULL" => TruthOf(m, e, env) = AsTruth(Cell(env, e.ref) = Null)
         /\ e.op = "EXISTS" => TruthOf(m, e, env) = AsTruth(RowsOf(m, e.query, env) # {})
<1>1. CASE e.op \in {"TRUE", "AND", "OR", "NOT", "IS NULL"}
  BY <1>1 DEF TruthOf
<1>2. CASE e.op = "EXISTS"
  BY <1>2 DEF TruthOf
<1> QED BY <1>1, <1>2

(* of the comparisons of a column,                                         *)
LEMMA TruthOfComparison ==
  ASSUME NEW m, NEW e \in Conditions, NEW env
  PROVE  /\ e.op \in {"=", "<>"} =>
              TruthOf(m, e, env) = Compared(Cell(env, e.ref), Bound(e.val), (Cell(env, e.ref) = Bound(e.val)) = (e.op = "="))
         /\ e.op = "SAME" =>
              TruthOf(m, e, env) = Compared(Cell(env, e.ref), Cell(env, e.other), Cell(env, e.ref) = Cell(env, e.other))
<1>1. CASE e.op \in {"=", "<>"}
  BY <1>1 DEF TruthOf
<1>2. CASE e.op = "SAME"
  BY <1>2 DEF TruthOf
<1> QED BY <1>1, <1>2

(* of a list                                                               *)
LEMMA TruthOfIn ==
  ASSUME NEW m, NEW e \in Conditions, NEW env, e.op = "IN"
  PROVE  TruthOf(m, e, env) = AnyOf({Compared(Cell(env, e.ref), Bound(x), Cell(env, e.ref) = Bound(x)) : x \in ToSet(e.vals)})
BY DEF TruthOf

(* and of a subquery                                                       *)
LEMMA TruthOfInQuery ==
  ASSUME NEW m, NEW e \in Conditions, NEW env, e.op = "IN QUERY"
  PROVE  TruthOf(m, e, env) =
           AnyOf({Compared(Cell(env, e.ref), Cell(r, e.query.out[1]), Cell(env, e.ref) = Cell(r, e.query.out[1])) :
                  r \in RowsOf(m, e.query, env)})
BY DEF TruthOf

(* Truth is 0, 1 or Unknown.                                               *)
LEMMA TruthTyped ==
  ASSUME NEW m, NEW e \in Conditions, NEW env
  PROVE  TruthOf(m, e, env) \in 0 .. 2
<1>1. \A S : AllOf(S) \in 0 .. 2 /\ AnyOf(S) \in 0 .. 2
  BY DEF AllOf, AnyOf, Unknown
<1>2. \A v : Negated(v) \in 0 .. 2
  BY DEF Negated, Unknown
<1>3. \A b : AsTruth(b) \in 0 .. 2
  BY DEF AsTruth
<1>4. \A v, w, b : Compared(v, w, b) \in 0 .. 2
  BY DEF Compared, AsTruth, Unknown
<1>5. CASE e.op = "TRUE"
  BY <1>5 DEF TruthOf
<1>6. CASE e.op = "AND"
  <2>1. TruthOf(m, e, env) = AllOf({m[<<e.args[1], env>>], m[<<e.args[2], env>>]})
    BY <1>6 DEF TruthOf
  <2> QED BY <2>1, <1>1
<1>7. CASE e.op = "OR"
  <2>1. TruthOf(m, e, env) = AnyOf({m[<<e.args[1], env>>], m[<<e.args[2], env>>]})
    BY <1>7 DEF TruthOf
  <2> QED BY <2>1, <1>1
<1>8. CASE e.op = "NOT"
  BY <1>8, <1>2, TruthCases
<1>9. CASE e.op = "IS NULL"
  BY <1>9, <1>3, TruthCases
<1>10. CASE e.op = "EXISTS"
  BY <1>10, <1>3, TruthCases
<1>11. CASE e.op \in {"=", "<>", "SAME"}
  BY <1>11, <1>4, TruthOfComparison
<1>12. CASE e.op = "IN"
  <2> DEFINE S == {Compared(Cell(env, e.ref), Bound(x), Cell(env, e.ref) = Bound(x)) : x \in ToSet(e.vals)}
  <2>1. TruthOf(m, e, env) = AnyOf(S)
    BY <1>12 DEF TruthOf
  <2> HIDE DEF S
  <2> QED BY <2>1, <1>1
<1>13. CASE e.op = "IN QUERY"
  <2> DEFINE S == {Compared(Cell(env, e.ref), Cell(r, e.query.out[1]), Cell(env, e.ref) = Cell(r, e.query.out[1])) :
                     r \in RowsOf(m, e.query, env)}
  <2>1. TruthOf(m, e, env) = AnyOf(S)
    BY <1>13 DEF TruthOf
  <2> HIDE DEF S
  <2> QED BY <2>1, <1>1
<1> QED BY <1>5, <1>6, <1>7, <1>8, <1>9, <1>10, <1>11, <1>12, <1>13, OperandsOf

NoneOf(s, n, outer) ==
  [x \in Aliases |-> IF x \in {s.tables[i].alias : i \in 1 .. n - 1} THEN NoRow ELSE outer[x]]

(* The environments of a join: pairs that match, rows of the left side     *)
(* alone and rows of the right side alone                                  *)
Both(m, s, n, left, tables, x) ==
  \E env \in left, r \in tables[s.tables[n].table].rows :
    Matches(m, s, n, env, r, tables) /\ x = [env EXCEPT ![s.tables[n].alias] = r]

Lone(m, s, n, left, tables, x) ==
  /\ s.tables[n].side = "LEFT"
  /\ \E env \in left : /\ \A r \in tables[s.tables[n].table].rows : ~ Matches(m, s, n, env, r, tables)
                       /\ x = [env EXCEPT ![s.tables[n].alias] = NoRow]

Spare(m, s, n, left, outer, tables, x) ==
  /\ s.tables[n].side = "RIGHT"
  /\ \E r \in tables[s.tables[n].table].rows :
       /\ \A env \in left : ~ Matches(m, s, n, env, r, tables)
       /\ x = [NoneOf(s, n, outer) EXCEPT ![s.tables[n].alias] = r]

(* An environment is in a join in one of these three ways.                 *)
LEMMA JoinedIff ==
  ASSUME NEW m, NEW s \in Selections, NEW n \in DOMAIN s.tables, NEW outer, NEW tables, NEW x
  PROVE  x \in Joined(m, s, n, outer, tables) <=>
           \/ Both(m, s, n, m[<<Join(s, n - 1), outer>>], tables, x)
           \/ Lone(m, s, n, m[<<Join(s, n - 1), outer>>], tables, x)
           \/ Spare(m, s, n, m[<<Join(s, n - 1), outer>>], outer, tables, x)
<1> DEFINE t    == s.tables[n]
           rows == tables[t.table].rows
           left == m[<<Join(s, n - 1), outer>>]
           match(env, r) == Matches(m, s, n, env, r, tables)
           both == {[y[1] EXCEPT ![t.alias] = y[2]] : y \in {z \in left \X rows : match(z[1], z[2])}}
           lone == {[env EXCEPT ![t.alias] = NoRow] : env \in {e \in left : t.side = "LEFT" /\ \A r \in rows : ~match(e, r)}}
           spare == {[NoneOf(s, n, outer) EXCEPT ![t.alias] = r] :
                       r \in {y \in rows : t.side = "RIGHT" /\ \A env \in left : ~match(env, y)}}
<1>1. Joined(m, s, n, outer, tables) = both \cup lone \cup spare
  BY DEF Joined, NoneOf
<1> HIDE DEF match
<1>2. x \in both <=> \E env \in left, r \in rows : match(env, r) /\ x = [env EXCEPT ![t.alias] = r]
  <2> HIDE DEF left, rows, t
  <2>1. ASSUME x \in both
        PROVE  \E env \in left, r \in rows : match(env, r) /\ x = [env EXCEPT ![t.alias] = r]
    <3>1. PICK y \in left \X rows : match(y[1], y[2]) /\ x = [y[1] EXCEPT ![t.alias] = y[2]]
      BY <2>1
    <3> QED BY <3>1
  <2>2. ASSUME NEW env \in left, NEW r \in rows, match(env, r), x = [env EXCEPT ![t.alias] = r]
        PROVE  x \in both
    <3> DEFINE y == <<env, r>>
    <3>1. y \in left \X rows /\ y[1] = env /\ y[2] = r
      OBVIOUS
    <3> HIDE DEF y
    <3>2. match(y[1], y[2]) /\ x = [y[1] EXCEPT ![t.alias] = y[2]]
      BY <3>1, <2>2
    <3> QED BY <3>1, <3>2
  <2> QED BY <2>1, <2>2
<1>3. x \in lone <=> t.side = "LEFT" /\ \E env \in left : (\A r \in rows : ~match(env, r)) /\ x = [env EXCEPT ![t.alias] = NoRow]
  <2> HIDE DEF left, rows, t
  <2> QED OBVIOUS
<1>4. x \in spare <=> t.side = "RIGHT" /\ \E r \in rows : (\A env \in left : ~match(env, r)) /\ x = [NoneOf(s, n, outer) EXCEPT ![t.alias] = r]
  <2> HIDE DEF left, rows, t
  <2> QED OBVIOUS
<1> HIDE DEF both, lone, spare
<1>5. /\ x \in both <=> Both(m, s, n, left, tables, x)
      /\ x \in lone <=> Lone(m, s, n, left, tables, x)
      /\ x \in spare <=> Spare(m, s, n, left, outer, tables, x)
  BY <1>2, <1>3, <1>4 DEF match, Both, Lone, Spare
<1> QED BY <1>1, <1>5

(* Joining no table gives the environment outside.                         *)
LEMMA JoinedNone ==
  ASSUME NEW m, NEW s, NEW n, n \notin DOMAIN s.tables, NEW outer, NEW tables
  PROVE  Joined(m, s, n, outer, tables) = {outer}
BY DEF Joined

Firsts(rows, u) == {Cell(r, u.out[1]) : r \in rows}

(* What the truth of a condition depends on: the cells it names, the truth *)
(* of its operands and the rows of its subquery                            *)
SameParts(e, g, env, h, other) ==
  /\ \A ref \in References(e) : Cell(env, ref) = Cell(other, ref)
  /\ \A d \in Operands(e) : g[<<d, env>>] = h[<<d, other>>]
  /\ \A u \in Queries(e) : (RowsOf(g, u, env) = {}) <=> (RowsOf(h, u, other) = {})
  /\ e.op = "IN QUERY" => Firsts(RowsOf(g, e.query, env), e.query) = Firsts(RowsOf(h, e.query, other), e.query)

(* Conditions whose parts agree are as true in both.                       *)
LEMMA TruthAgrees ==
  ASSUME NEW e \in Conditions, NEW g, NEW env, NEW h, NEW other, SameParts(e, g, env, h, other)
  PROVE  TruthOf(g, e, env) = TruthOf(h, e, other)
<1>a. \A ref \in References(e) : Cell(env, ref) = Cell(other, ref)
  BY DEF SameParts
<1>b. \A d \in Operands(e) : g[<<d, env>>] = h[<<d, other>>]
  BY DEF SameParts
<1>c. \A u \in Queries(e) : (RowsOf(g, u, env) = {}) <=> (RowsOf(h, u, other) = {})
  BY DEF SameParts
<1>d. e.op = "IN QUERY" => Firsts(RowsOf(g, e.query, env), e.query) = Firsts(RowsOf(h, e.query, other), e.query)
  BY DEF SameParts
<1> USE <1>a, <1>b, <1>c, <1>d
<1>1. CASE e.op = "TRUE"
  BY <1>1 DEF TruthOf
<1>2. CASE e.op \in {"AND", "OR"}
  <2>1. g[<<e.args[1], env>>] = h[<<e.args[1], other>>] /\ g[<<e.args[2], env>>] = h[<<e.args[2], other>>]
    BY <1>2, OperandsOf
  <2> QED BY <1>2, <2>1 DEF TruthOf
<1>3. CASE e.op = "NOT"
  <2>1. g[<<e.arg, env>>] = h[<<e.arg, other>>]
    BY <1>3, OperandsOf
  <2> QED BY <1>3, <2>1 DEF TruthOf
<1>4. CASE e.op \in {"=", "<>", "IS NULL", "SAME"}
  <2>1. Cell(env, e.ref) = Cell(other, e.ref) /\ (e.op = "SAME" => Cell(env, e.other) = Cell(other, e.other))
    BY <1>4, OperandsOf
  <2>2. CASE e.op = "IS NULL"
    BY <2>1, <2>2 DEF TruthOf
  <2>3. CASE e.op \in {"=", "<>"}
    BY <2>1, <2>3 DEF TruthOf
  <2>4. CASE e.op = "SAME"
    BY <2>1, <2>4 DEF TruthOf
  <2> QED BY <1>4, <2>2, <2>3, <2>4
<1>5. CASE e.op = "IN"
  <2>1. Cell(env, e.ref) = Cell(other, e.ref)
    BY <1>5, OperandsOf
  <2>2. TruthOf(g, e, env) = AnyOf({Compared(Cell(env, e.ref), Bound(x), Cell(env, e.ref) = Bound(x)) : x \in ToSet(e.vals)})
    BY <1>5 DEF TruthOf
  <2>3. TruthOf(h, e, other) = AnyOf({Compared(Cell(other, e.ref), Bound(x), Cell(other, e.ref) = Bound(x)) : x \in ToSet(e.vals)})
    BY <1>5 DEF TruthOf
  <2> DEFINE v == Cell(env, e.ref)
             w == Cell(other, e.ref)
  <2>4. {Compared(v, Bound(x), v = Bound(x)) : x \in ToSet(e.vals)} = {Compared(w, Bound(x), w = Bound(x)) : x \in ToSet(e.vals)}
    <3>1. v = w
      BY <2>1
    <3> HIDE DEF v, w
    <3> QED BY <3>1
  <2> QED BY <2>4, <2>2, <2>3
<1>6. CASE e.op = "IN QUERY"
  <2> DEFINE v == Cell(env, e.ref)
             R == RowsOf(g, e.query, env)
             Q == RowsOf(h, e.query, other)
  <2>1. v = Cell(other, e.ref) /\ Firsts(R, e.query) = Firsts(Q, e.query)
    BY <1>6, OperandsOf
  <2>2. TruthOf(g, e, env) = AnyOf({Compared(v, Cell(r, e.query.out[1]), v = Cell(r, e.query.out[1])) : r \in R})
    BY <1>6 DEF TruthOf
  <2>3. TruthOf(h, e, other) =
          AnyOf({Compared(Cell(other, e.ref), Cell(r, e.query.out[1]), Cell(other, e.ref) = Cell(r, e.query.out[1])) : r \in Q})
    BY <1>6 DEF TruthOf
  <2> DEFINE w == Cell(other, e.ref)
  <2>4. ASSUME NEW S
        PROVE  {Compared(v, Cell(r, e.query.out[1]), v = Cell(r, e.query.out[1])) : r \in S}
                 = {Compared(v, c, v = c) : c \in Firsts(S, e.query)}
    <3> HIDE DEF v
    <3> DEFINE f(r) == Cell(r, e.query.out[1])
               C(c) == Compared(v, c, v = c)
    <3>1. Firsts(S, e.query) = {f(r) : r \in S}
      BY DEF Firsts
    <3> HIDE DEF f, C
    <3>2. {C(f(r)) : r \in S} = {C(c) : c \in {f(r) : r \in S}}
      OBVIOUS
    <3> QED BY <3>1, <3>2 DEF f, C
  <2>5. {Compared(w, Cell(r, e.query.out[1]), w = Cell(r, e.query.out[1])) : r \in Q}
          = {Compared(v, Cell(r, e.query.out[1]), v = Cell(r, e.query.out[1])) : r \in Q}
    <3>1. v = w
      BY <2>1
    <3> HIDE DEF v, w, Q
    <3> QED BY <3>1
  <2> HIDE DEF v, R, Q, w
  <2> QED BY <2>1, <2>2, <2>3, <2>4, <2>5 DEF w
<1>7. CASE e.op = "EXISTS"
  <2>1. (RowsOf(g, e.query, env) = {}) <=> (RowsOf(h, e.query, other) = {})
    BY <1>7, OperandsOf
  <2> QED BY <1>7, <2>1 DEF TruthOf
<1> QED BY <1>1, <1>2, <1>3, <1>4, <1>5, <1>6, <1>7, OperandsOf

(* An environment with a row of one of the tables for an alias is one. *)
LEMMA EnvironmentWith ==
  ASSUME NEW tables, NEW env \in Environments(tables), NEW a \in Aliases, NEW t \in Tables, NEW r \in tables[t].rows
  PROVE  [env EXCEPT ![a] = r] \in Environments(tables) /\ [env EXCEPT ![a] = NoRow] \in Environments(tables)
BY DEF Environments

(* And so is one with no row for it,                                       *)
LEMMA EnvironmentWithout ==
  ASSUME NEW tables, NEW env \in Environments(tables), NEW a \in Aliases
  PROVE  [env EXCEPT ![a] = NoRow] \in Environments(tables)
BY DEF Environments

(* or with none for the tables before.                                     *)
LEMMA NoneOfTyped ==
  ASSUME NEW tables, NEW outer \in Environments(tables), NEW s, NEW n
  PROVE  NoneOf(s, n, outer) \in Environments(tables)
BY DEF Environments, NoneOf

(* The tables of a select, and the ones before each                        *)
LEMMA EntryFacts ==
  ASSUME NEW s \in Selections, NEW n \in DOMAIN s.tables
  PROVE  /\ s.tables[n].table \in Tables /\ s.tables[n].alias \in Aliases /\ s.tables[n].on \in Conditions
         /\ n \in Nat /\ n - 1 \in Nat /\ n >= 1 /\ n <= Len(s.tables) /\ Len(s.tables) \in Nat
<1>1. s.tables[n] \in Entry
  BY PartsOfSelect
<1>2. s.tables[n].table \in Tables /\ s.tables[n].alias \in Aliases /\ s.tables[n].on \in Conditions
  BY <1>1 DEF Entry
<1>3. Len(s.tables) \in Nat /\ DOMAIN s.tables = 1 .. Len(s.tables)
  BY PartsOfSelect
<1> QED BY <1>2, <1>3

(* A join of environments gives environments.                              *)
LEMMA JoinedTyped ==
  ASSUME NEW m, NEW s \in Selections, NEW n \in Nat, NEW tables, NEW outer \in Environments(tables),
         n \in DOMAIN s.tables => m[<<Join(s, n - 1), outer>>] \subseteq Environments(tables)
  PROVE  Joined(m, s, n, outer, tables) \subseteq Environments(tables)
<1>1. CASE n \notin DOMAIN s.tables
  BY <1>1, JoinedNone
<1>2. CASE n \in DOMAIN s.tables
  <2> SUFFICES ASSUME NEW x \in Joined(m, s, n, outer, tables) PROVE x \in Environments(tables)
    OBVIOUS
  <2> DEFINE t    == s.tables[n]
             rows == tables[t.table].rows
             left == m[<<Join(s, n - 1), outer>>]
  <2>1. t.table \in Tables /\ t.alias \in Aliases
    BY <1>2, EntryFacts
  <2>2. left \subseteq Environments(tables)
    BY <1>2
  <2>3. NoneOf(s, n, outer) \in Environments(tables)
    BY NoneOfTyped
  <2>4. \/ \E env \in left, r \in rows : x = [env EXCEPT ![t.alias] = r]
        \/ \E env \in left : x = [env EXCEPT ![t.alias] = NoRow]
        \/ \E r \in rows : x = [NoneOf(s, n, outer) EXCEPT ![t.alias] = r]
    <3>1. Both(m, s, n, left, tables, x) \/ Lone(m, s, n, left, tables, x) \/ Spare(m, s, n, left, outer, tables, x)
      BY <1>2, JoinedIff
    <3> HIDE DEF left
    <3> QED BY <3>1 DEF Both, Lone, Spare
  <2> HIDE DEF left, t, rows
  <2>5. CASE \E env \in left, r \in rows : x = [env EXCEPT ![t.alias] = r]
    <3>1. PICK env \in left, r \in rows : x = [env EXCEPT ![t.alias] = r]
      BY <2>5
    <3>2. env \in Environments(tables) /\ r \in tables[t.table].rows
      BY <3>1, <2>2 DEF rows
    <3> QED BY <3>1, <3>2, <2>1, EnvironmentWith
  <2>6. CASE \E env \in left : x = [env EXCEPT ![t.alias] = NoRow]
    BY <2>1, <2>2, <2>6, EnvironmentWithout
  <2>7. CASE \E r \in rows : x = [NoneOf(s, n, outer) EXCEPT ![t.alias] = r]
    <3>1. PICK r \in rows : x = [NoneOf(s, n, outer) EXCEPT ![t.alias] = r]
      BY <2>7
    <3>2. r \in tables[t.table].rows
      BY <3>1 DEF rows
    <3> QED BY <3>1, <3>2, <2>1, <2>3, EnvironmentWith
  <2> QED BY <2>4, <2>5, <2>6, <2>7
<1> QED BY <1>1, <1>2

(* Whether a row matches depends on the truth of the ON condition.         *)
LEMMA MatchesAgree ==
  ASSUME NEW g, NEW h, NEW s \in Selections, NEW n \in DOMAIN s.tables, NEW tables, NEW env, NEW r,
         g[<<s.tables[n].on, [env EXCEPT ![s.tables[n].alias] = r]>>] = h[<<s.tables[n].on, [env EXCEPT ![s.tables[n].alias] = r]>>]
  PROVE  Matches(g, s, n, env, r, tables) <=> Matches(h, s, n, env, r, tables)
BY DEF Matches

(* The meaning of a part, the meaning of its parts given *)
MeaningFrom(g, p, tables) ==
  IF p[1] \in Joins THEN Joined(g, p[1].select, p[1].upto, p[2], tables) ELSE TruthOf(g, p[1], p[2])

RankOf(x) == IF x \in Joins THEN Size[x.select] - Len(x.select.tables) + x.upto ELSE Size[x]

(* The rank of a part is above the ranks of what its meaning needs.        *)
LEMMA RankFacts ==
  /\ \A e \in Conditions : RankOf(e) = Size[e] /\ RankOf(e) \in Nat
  /\ \A s \in Selections, n \in Nat :
       /\ RankOf(Join(s, n)) \in Nat /\ RankOf(Join(s, n)) = Size[s] - Len(s.tables) + n
       /\ \A i \in DOMAIN s.tables : Size[s.tables[i].on] < RankOf(Join(s, n))
<1>1. \A e \in Conditions : RankOf(e) = Size[e] /\ RankOf(e) \in Nat
  BY PartsOfCondition DEF RankOf
<1>2. ASSUME NEW s \in Selections, NEW n \in Nat
      PROVE  /\ RankOf(Join(s, n)) \in Nat /\ RankOf(Join(s, n)) = Size[s] - Len(s.tables) + n
             /\ \A i \in DOMAIN s.tables : Size[s.tables[i].on] < RankOf(Join(s, n))
  <2>1. RankOf(Join(s, n)) = Size[s] - Len(s.tables) + n
    BY JoinFacts DEF RankOf
  <2>2. /\ Len(s.tables) \in Nat /\ DOMAIN s.tables = 1 .. Len(s.tables) /\ Size[s] \in Nat
        /\ \A i \in DOMAIN s.tables : Size[s.tables[i].on] \in Nat /\ Size[s.tables[i].on] + Len(s.tables) < Size[s]
    BY PartsOfSelect
  <2>3. CASE Len(s.tables) = 0
    BY <2>1, <2>2, <2>3
  <2>4. CASE Len(s.tables) # 0
    <3>1. 1 \in DOMAIN s.tables
      BY <2>2, <2>4
    <3> QED BY <2>1, <2>2, <3>1
  <2> QED BY <2>3, <2>4
<1> QED BY <1>1, <1>2

SameBefore(g, h, s, n, tables, outer) ==
  n \in DOMAIN s.tables =>
    /\ g[<<Join(s, n - 1), outer>>] = h[<<Join(s, n - 1), outer>>]
    /\ g[<<Join(s, n - 1), outer>>] \subseteq Environments(tables)
    /\ \A env \in Environments(tables) : g[<<s.tables[n].on, env>>] = h[<<s.tables[n].on, env>>]

(* A join depends on the join before it and on its ON condition,           *)
LEMMA JoinedLocal ==
  ASSUME NEW g, NEW h, NEW s \in Selections, NEW n \in Nat, NEW tables, NEW outer \in Environments(tables),
         SameBefore(g, h, s, n, tables, outer)
  PROVE  Joined(g, s, n, outer, tables) = Joined(h, s, n, outer, tables)
<1>1. CASE n \notin DOMAIN s.tables
  BY <1>1 DEF Joined
<1>2. CASE n \in DOMAIN s.tables
  <2> DEFINE t    == s.tables[n]
             rows == tables[t.table].rows
             left == g[<<Join(s, n - 1), outer>>]
  <2>1. t.table \in Tables /\ t.alias \in Aliases
    BY <1>2, EntryFacts
  <2>2. left \subseteq Environments(tables) /\ left = h[<<Join(s, n - 1), outer>>]
        /\ \A env \in Environments(tables) : g[<<s.tables[n].on, env>>] = h[<<s.tables[n].on, env>>]
    BY <1>2 DEF SameBefore
  <2>3. ASSUME NEW env \in left, NEW r \in rows
        PROVE  Matches(g, s, n, env, r, tables) <=> Matches(h, s, n, env, r, tables)
    <3>1. [env EXCEPT ![t.alias] = r] \in Environments(tables)
      BY <2>1, <2>2, <2>3, EnvironmentWith
    <3> QED BY <1>2, <2>2, <3>1, MatchesAgree
  <2>4. ASSUME NEW x
        PROVE  x \in Joined(g, s, n, outer, tables) <=> x \in Joined(h, s, n, outer, tables)
    <3>1. /\ x \in Joined(g, s, n, outer, tables) <=>
               Both(g, s, n, left, tables, x) \/ Lone(g, s, n, left, tables, x) \/ Spare(g, s, n, left, outer, tables, x)
          /\ x \in Joined(h, s, n, outer, tables) <=>
               Both(h, s, n, left, tables, x) \/ Lone(h, s, n, left, tables, x) \/ Spare(h, s, n, left, outer, tables, x)
      BY <1>2, <2>2, JoinedIff
    <3>2. Both(g, s, n, left, tables, x) <=> Both(h, s, n, left, tables, x)
      <4> HIDE DEF left
      <4> QED BY <2>3 DEF Both
    <3>3. Lone(g, s, n, left, tables, x) <=> Lone(h, s, n, left, tables, x)
      <4> HIDE DEF left
      <4> QED BY <2>3 DEF Lone
    <3>4. Spare(g, s, n, left, outer, tables, x) <=> Spare(h, s, n, left, outer, tables, x)
      <4> HIDE DEF left
      <4> QED BY <2>3 DEF Spare
    <3> QED BY <3>1, <3>2, <3>3, <3>4
  <2> QED BY <2>4
<1> QED BY <1>1, <1>2

(* the rows of a select on its joins and its WHERE,                        *)
LEMMA RowsOfLocal ==
  ASSUME NEW g, NEW h, NEW u \in Selections, NEW tables, NEW env \in Environments(tables),
         g[<<Join(u, Len(u.tables)), env>>] = h[<<Join(u, Len(u.tables)), env>>],
         g[<<Join(u, Len(u.tables)), env>>] \subseteq Environments(tables),
         \A x \in Environments(tables) : g[<<u.where, x>>] = h[<<u.where, x>>]
  PROVE  RowsOf(g, u, env) = RowsOf(h, u, env)
BY DEF RowsOf

(* and truth on the operands and the rows of subqueries.                   *)
LEMMA TruthLocal ==
  ASSUME NEW e \in Conditions, NEW g, NEW env, NEW h,
         \A d \in Operands(e) : g[<<d, env>>] = h[<<d, env>>],
         \A u \in Queries(e) : RowsOf(g, u, env) = RowsOf(h, u, env)
  PROVE  TruthOf(g, e, env) = TruthOf(h, e, env)
<1>1. e.op = "IN QUERY" => Firsts(RowsOf(g, e.query, env), e.query) = Firsts(RowsOf(h, e.query, env), e.query)
  BY OperandsOf
<1>2. \A u \in Queries(e) : (RowsOf(g, u, env) = {}) <=> (RowsOf(h, u, env) = {})
  OBVIOUS
<1>3. \A ref \in References(e) : Cell(env, ref) = Cell(env, ref)
  OBVIOUS
<1>4. SameParts(e, g, env, h, env)
  BY <1>1, <1>2, <1>3 DEF SameParts
<1> QED BY <1>4, TruthAgrees

Pieces(tables) == (Conditions \cup Joins) \X Environments(tables)
Meanings(tables) == [p \in Pieces(tables) |-> IF p[1] \in Joins THEN SUBSET Environments(tables) ELSE 0 .. 2]

(* What a meaning may be, for joins and for conditions                     *)
LEMMA MeaningsOf ==
  ASSUME NEW tables, NEW g \in Valued(Pieces(tables), Meanings(tables)), NEW env \in Environments(tables)
  PROVE  /\ \A s \in Selections, n \in Nat : g[<<Join(s, n), env>>] \subseteq Environments(tables)
         /\ \A e \in Conditions : g[<<e, env>>] \in 0 .. 2
<1>1. \A p \in Pieces(tables) : g[p] \in Meanings(tables)[p]
  BY DEF Valued
<1>2. ASSUME NEW s \in Selections, NEW n \in Nat
      PROVE  g[<<Join(s, n), env>>] \subseteq Environments(tables)
  <2> DEFINE p == <<Join(s, n), env>>
  <2>1. p \in Pieces(tables) /\ p[1] \in Joins
    BY JoinFacts DEF Pieces
  <2> HIDE DEF p
  <2>2. Meanings(tables)[p] = SUBSET Environments(tables)
    BY <2>1 DEF Meanings
  <2> QED BY <1>1, <2>1, <2>2 DEF p
<1>3. ASSUME NEW e \in Conditions
      PROVE  g[<<e, env>>] \in 0 .. 2
  <2> DEFINE p == <<e, env>>
  <2>1. p \in Pieces(tables) /\ p[1] \notin Joins
    BY PartsOfCondition DEF Pieces
  <2> HIDE DEF p
  <2>2. Meanings(tables)[p] = 0 .. 2
    BY <2>1 DEF Meanings
  <2> QED BY <1>1, <2>1, <2>2 DEF p
<1> QED BY <1>2, <1>3

(* The meaning of a part is one of those,                                  *)
LEMMA MeaningFromTyped ==
  ASSUME NEW tables, NEW g \in Valued(Pieces(tables), Meanings(tables)), NEW p \in Pieces(tables)
  PROVE  MeaningFrom(g, p, tables) \in Meanings(tables)[p]
<1>1. p[2] \in Environments(tables)
  BY DEF Pieces
<1>2. CASE p[1] \in Joins
  <2>1. PICK s \in Selections, n \in Nat : p[1] = Join(s, n)
    BY <1>2 DEF Joins, Join
  <2>2. p[1].select = s /\ p[1].upto = n
    BY <2>1, JoinFacts
  <2>3. n \in DOMAIN s.tables => g[<<Join(s, n - 1), p[2]>>] \subseteq Environments(tables)
    BY <1>1, MeaningsOf, EntryFacts
  <2>4. Joined(g, s, n, p[2], tables) \subseteq Environments(tables)
    BY <1>1, <2>3, JoinedTyped
  <2> QED BY <1>2, <2>2, <2>4 DEF MeaningFrom, Meanings
<1>3. CASE p[1] \notin Joins
  <2>1. p[1] \in Conditions
    BY <1>3 DEF Pieces
  <2>2. TruthOf(g, p[1], p[2]) \in 0 .. 2
    BY <2>1, TruthTyped
  <2> QED BY <1>3, <2>2 DEF MeaningFrom, Meanings
<1> QED BY <1>2, <1>3

(* and depends on parts of lower rank only.                                *)
LEMMA MeaningFromLocal ==
  ASSUME NEW tables, NEW g \in Valued(Pieces(tables), Meanings(tables)), NEW h,
         NEW p \in Pieces(tables), \A y \in Pieces(tables) : RankOf(y[1]) < RankOf(p[1]) => g[y] = h[y]
  PROVE  MeaningFrom(g, p, tables) = MeaningFrom(h, p, tables)
<1>0. ASSUME NEW x \in Conditions \cup Joins, NEW env \in Environments(tables), RankOf(x) < RankOf(p[1])
      PROVE  g[<<x, env>>] = h[<<x, env>>]
  BY <1>0 DEF Pieces
<1>1. p[2] \in Environments(tables)
  BY DEF Pieces
<1>2. CASE p[1] \in Joins
  <2>1. PICK s \in Selections, n \in Nat : p[1] = Join(s, n)
    BY <1>2 DEF Joins, Join
  <2>2. p[1].select = s /\ p[1].upto = n
    BY <2>1, JoinFacts
  <2>0. PICK outer \in Environments(tables) : p[2] = outer
    BY <1>1
  <2>3. ASSUME n \in DOMAIN s.tables
        PROVE  /\ g[<<Join(s, n - 1), outer>>] = h[<<Join(s, n - 1), outer>>]
               /\ g[<<Join(s, n - 1), outer>>] \subseteq Environments(tables)
               /\ \A env \in Environments(tables) : g[<<s.tables[n].on, env>>] = h[<<s.tables[n].on, env>>]
    <3>1. n - 1 \in Nat /\ s.tables[n].on \in Conditions
      BY <2>3, EntryFacts
    <3>2. Join(s, n - 1) \in Joins
      BY <3>1, JoinFacts
    <3>3. RankOf(Join(s, n - 1)) < RankOf(Join(s, n)) /\ RankOf(s.tables[n].on) < RankOf(Join(s, n))
      <4>1. /\ RankOf(Join(s, n - 1)) = Size[s] - Len(s.tables) + (n - 1)
            /\ RankOf(Join(s, n)) = Size[s] - Len(s.tables) + n
            /\ RankOf(s.tables[n].on) < RankOf(Join(s, n))
        BY <2>3, <3>1, RankFacts
      <4>2. Size[s] \in Nat /\ Len(s.tables) \in Nat
        BY PartsOfSelect
      <4> QED BY <4>1, <4>2
    <3>4. g[<<Join(s, n - 1), outer>>] = h[<<Join(s, n - 1), outer>>]
      BY <1>0, <2>0, <2>1, <3>2, <3>3
    <3>5. g[<<Join(s, n - 1), outer>>] \subseteq Environments(tables)
      BY <2>0, <3>1, MeaningsOf
    <3>6. \A env \in Environments(tables) : g[<<s.tables[n].on, env>>] = h[<<s.tables[n].on, env>>]
      BY <1>0, <2>1, <3>1, <3>3
    <3> QED BY <3>4, <3>5, <3>6
  <2>4. Joined(g, s, n, outer, tables) = Joined(h, s, n, outer, tables)
    <3>1. SameBefore(g, h, s, n, tables, outer)
      BY <2>3 DEF SameBefore
    <3> QED BY <3>1, JoinedLocal
  <2> QED BY <1>2, <2>0, <2>2, <2>4 DEF MeaningFrom
<1>3. CASE p[1] \notin Joins
  <2> DEFINE e == p[1]
  <2>1. e \in Conditions
    BY <1>3 DEF Pieces
  <2>2. RankOf(e) = Size[e]
    BY <2>1, RankFacts
  <2>3. \A d \in Operands(e) : g[<<d, p[2]>>] = h[<<d, p[2]>>]
    <3> TAKE d \in Operands(e)
    <3>1. d \in Conditions /\ Size[d] < Size[e]
      BY <2>1, PartsOfCondition
    <3>2. RankOf(d) < RankOf(e)
      BY <3>1, <2>2, RankFacts
    <3> QED BY <1>0, <1>1, <3>1, <3>2
  <2>4. ASSUME NEW u \in Queries(e)
        PROVE  RowsOf(g, u, p[2]) = RowsOf(h, u, p[2])
    <3>1. u \in Selections /\ Size[u] < Size[e] /\ Size[e] \in Nat
      BY <2>1, PartsOfCondition
    <3>2. /\ u.where \in Conditions /\ Size[u.where] < Size[u] /\ Size[u] \in Nat /\ Size[u.where] \in Nat
          /\ Len(u.tables) \in Nat
      BY <3>1, PartsOfSelect
    <3>3. RankOf(u.where) < RankOf(e) /\ RankOf(Join(u, Len(u.tables))) < RankOf(e)
      <4>1. RankOf(u.where) = Size[u.where] /\ RankOf(Join(u, Len(u.tables))) = Size[u] - Len(u.tables) + Len(u.tables)
        BY <3>1, <3>2, RankFacts
      <4> QED BY <4>1, <3>1, <3>2, <2>2
    <3>4. Join(u, Len(u.tables)) \in Joins
      BY <3>1, <3>2, JoinFacts
    <3>5. g[<<Join(u, Len(u.tables)), p[2]>>] = h[<<Join(u, Len(u.tables)), p[2]>>]
      BY <1>0, <1>1, <3>3, <3>4
    <3>6. g[<<Join(u, Len(u.tables)), p[2]>>] \subseteq Environments(tables)
      BY <1>1, <3>1, <3>2, MeaningsOf
    <3>7. \A x \in Environments(tables) : g[<<u.where, x>>] = h[<<u.where, x>>]
      BY <1>0, <3>2, <3>3
    <3> QED BY <1>1, <3>1, <3>5, <3>6, <3>7, RowsOfLocal
  <2>5. TruthOf(g, e, p[2]) = TruthOf(h, e, p[2])
    <3> HIDE DEF e
    <3> QED BY <2>1, <2>3, <2>4, TruthLocal
  <2> QED BY <1>3, <2>5 DEF MeaningFrom
<1> QED BY <1>2, <1>3

(* The meaning is what it is defined to be of the meaning of the parts. *)
LEMMA MeaningDef ==
  ASSUME NEW tables
  PROVE  /\ Meaning(tables) \in Valued(Pieces(tables), Meanings(tables))
         /\ \A p \in Pieces(tables) : Meaning(tables)[p] = MeaningFrom(Meaning(tables), p, tables)
<1> DEFINE D == Pieces(tables)
           T == Meanings(tables)
           F == Valued(D, T)
           G == [g \in F |-> [x \in D |-> MeaningFrom(g, x, tables)]]
<1>2. G \in [F -> F]
  <2> SUFFICES ASSUME NEW g \in F
               PROVE  [x \in D |-> MeaningFrom(g, x, tables)] \in F
    OBVIOUS
  <2>1. \A x \in D : MeaningFrom(g, x, tables) \in T[x]
    BY MeaningFromTyped
  <2>2. [x \in D |-> MeaningFrom(g, x, tables)] \in [D -> UNION {T[x] : x \in D}]
    BY <2>1
  <2> HIDE DEF T, D
  <2> QED BY <2>1, <2>2 DEF Valued
<1> DEFINE rank == [x \in D |-> RankOf(x[1])]
<1>3. ASSUME NEW g \in F, NEW h \in F, NEW x \in D,
             \A y \in D : rank[y] < rank[x] => g[y] = h[y]
      PROVE  G[g][x] = G[h][x]
  <2>1. \A y \in D : RankOf(y[1]) < RankOf(x[1]) => g[y] = h[y]
    BY <1>3
  <2>2. MeaningFrom(g, x, tables) = MeaningFrom(h, x, tables)
    BY <2>1, MeaningFromLocal
  <2> QED BY <2>2
<1>4. \A x \in D : T[x] # {}
  <2> TAKE x \in D
  <2>1. T[x] = IF x[1] \in Joins THEN SUBSET Environments(tables) ELSE 0 .. 2
    BY DEF Meanings
  <2>2. 0 \in 0 .. 2 /\ {} \in SUBSET Environments(tables)
    OBVIOUS
  <2> HIDE DEF T
  <2> QED BY <2>1, <2>2
<1>5. rank \in [D -> Nat]
  <2> SUFFICES ASSUME NEW x \in D PROVE RankOf(x[1]) \in Nat
    OBVIOUS
  <2>1. CASE x[1] \in Joins
    <3>1. PICK s \in Selections, n \in Nat : x[1] = Join(s, n)
      BY <2>1 DEF Joins, Join
    <3> QED BY <3>1, RankFacts
  <2>2. CASE x[1] \in Conditions
    BY <2>2, RankFacts
  <2> QED BY <2>1, <2>2 DEF Pieces
<1>6. \E f \in F : f = G[f]
  <2>1. Ranked(D, F, G, rank)
    <3> HIDE DEF F, G, T, D, rank
    <3> QED BY <1>3 DEF Ranked
  <2> HIDE DEF G, T, D, rank
  <2> QED
    <3>1. AlongRank(D, T, G, rank)
      BY <1>2, <1>4, <1>5, <2>1 DEF AlongRank
    <3>2. \E f \in Valued(D, T) : f = G[f]
      BY ONLY <3>1, Recursion
    <3> QED BY <3>2
<1>7. PICK f0 \in F : f0 = G[f0]
  BY <1>6
<1>7a. f0 = [p \in D |-> MeaningFrom(f0, p, tables)]
  <2>2. G[f0] = [x \in D |-> MeaningFrom(f0, x, tables)]
    OBVIOUS
  <2> HIDE DEF G, F
  <2> QED BY <1>7, <2>2
<1> DEFINE S == CHOOSE f : f = [p \in D |-> MeaningFrom(f, p, tables)]
<1>8. S = [p \in D |-> MeaningFrom(S, p, tables)]
  BY <1>7a
<1>9. Meaning(tables) = S
  BY DEF Meaning, MeaningFrom, Pieces, Environments
<1>10. S = f0
  <2> DEFINE B == {p \in D : S[p] # f0[p]}
  <2>0. f0 \in F
    BY <1>7
  <2> HIDE DEF S
  <2>1. B = {}
    <3> SUFFICES ASSUME B # {} PROVE FALSE
      OBVIOUS
    <3>1. PICK p \in B : \A y \in D : rank[y] < rank[p] => y \notin B
      <4>1. B \subseteq D
        OBVIOUS
      <4> HIDE DEF B, D, rank
      <4> QED BY <1>5, <4>1, LeastRanked
    <3>2. \A y \in D : RankOf(y[1]) < RankOf(p[1]) => f0[y] = S[y]
      BY <3>1
    <3>3. MeaningFrom(f0, p, tables) = MeaningFrom(S, p, tables)
      BY <2>0, <3>1, <3>2, MeaningFromLocal
    <3>4. S[p] = MeaningFrom(S, p, tables) /\ f0[p] = MeaningFrom(f0, p, tables)
      <4>1. p \in D
        BY <3>1
      <4> HIDE DEF D
      <4> QED BY <4>1, <1>8, <1>7a
    <3> QED BY <3>1, <3>3, <3>4
  <2>2. \A p \in D : S[p] = f0[p]
    BY <2>1
  <2> HIDE DEF D
  <2>3. S = [p \in D |-> S[p]] /\ f0 = [p \in D |-> f0[p]]
    BY <1>8, <1>7a
  <2> QED BY <2>2, <2>3
<1>11. \A p \in D : f0[p] = MeaningFrom(f0, p, tables)
  <2> HIDE DEF D
  <2> QED BY <1>7a
<1> QED BY <1>7, <1>9, <1>10, <1>11

----------------------------------------------------------------------------
(* The clauses hold where the condition is true                            *)

(* Meaning, for conditions and for joins, is what its recursion says.      *)
LEMMA MeaningFacts ==
  ASSUME NEW tables, NEW env \in Environments(tables)
  PROVE  /\ \A e \in Conditions : /\ Meaning(tables)[<<e, env>>] = TruthOf(Meaning(tables), e, env)
                                  /\ Meaning(tables)[<<e, env>>] \in 0 .. 2
         /\ \A s \in Selections, n \in Nat :
              /\ Meaning(tables)[<<Join(s, n), env>>] = Joined(Meaning(tables), s, n, env, tables)
              /\ Meaning(tables)[<<Join(s, n), env>>] \subseteq Environments(tables)
<1> DEFINE m == Meaning(tables)
<1>1. m \in Valued(Pieces(tables), Meanings(tables)) /\ \A p \in Pieces(tables) : m[p] = MeaningFrom(m, p, tables)
  BY MeaningDef
<1> HIDE DEF m
<1>2. ASSUME NEW e \in Conditions
      PROVE  m[<<e, env>>] = TruthOf(m, e, env) /\ m[<<e, env>>] \in 0 .. 2
  <2> DEFINE p == <<e, env>>
  <2>1. p \in Pieces(tables) /\ p[1] \notin Joins /\ p[1] = e /\ p[2] = env
    BY PartsOfCondition DEF Pieces
  <2> HIDE DEF p
  <2>2. MeaningFrom(m, p, tables) = TruthOf(m, e, env)
    BY <2>1 DEF MeaningFrom
  <2>3. m[p] = TruthOf(m, e, env)
    BY <1>1, <2>1, <2>2
  <2> QED BY <2>3, TruthTyped DEF p
<1>3. ASSUME NEW s \in Selections, NEW n \in Nat
      PROVE  m[<<Join(s, n), env>>] = Joined(m, s, n, env, tables) /\ m[<<Join(s, n), env>>] \subseteq Environments(tables)
  <2> DEFINE p == <<Join(s, n), env>>
  <2>1. p \in Pieces(tables) /\ p[1] \in Joins /\ p[1].select = s /\ p[1].upto = n /\ p[2] = env
    BY JoinFacts DEF Pieces
  <2>2. m[p] \subseteq Environments(tables)
    BY <1>1, MeaningsOf
  <2> HIDE DEF p
  <2>3. MeaningFrom(m, p, tables) = Joined(m, s, n, env, tables)
    BY <2>1 DEF MeaningFrom
  <2>4. m[p] = Joined(m, s, n, env, tables)
    BY <1>1, <2>1, <2>3
  <2> QED BY <2>2, <2>4 DEF p
<1> QED BY <1>2, <1>3 DEF m

(* A leaf that is a predicate of an alias holds of its row. *)
Sound(leaf, env) ==
  \A a \in Aliases : IsPredicate(leaf, a) => Compares(Predicate(leaf), Cell(env, [alias |-> a, col |-> Predicate(leaf).col]))

Holding(cs, env) == \A i \in DOMAIN cs : \E j \in DOMAIN cs[i] : Sound(cs[i][j], env)

(* Clauses that hold, put together, hold.                                  *)
LEMMA HoldingBoth ==
  ASSUME NEW L, NEW c \in Seq(Seq(L)), NEW d \in Seq(Seq(L)), NEW env, Holding(c, env), Holding(d, env)
  PROVE  Holding(c \o d, env)
<1> SUFFICES ASSUME NEW i \in DOMAIN (c \o d) PROVE \E j \in DOMAIN (c \o d)[i] : Sound((c \o d)[i][j], env)
  BY DEF Holding
<1>1. \/ i \in DOMAIN c /\ (c \o d)[i] = c[i]
      \/ i - Len(c) \in DOMAIN d /\ (c \o d)[i] = d[i - Len(c)]
  <2> DEFINE S == Seq(L)
  <2>1. c \in Seq(S) /\ d \in Seq(S)
    OBVIOUS
  <2> HIDE DEF S
  <2> QED BY <2>1
<1> QED BY <1>1 DEF Holding

(* Clauses crossed hold when those of either side do.                      *)
LEMMA HoldingCrossed ==
  ASSUME NEW L, NEW c \in Seq(Seq(L)), NEW d \in Seq(Seq(L)), NEW env, Holding(c, env) \/ Holding(d, env)
  PROVE  Holding(Crossed(c, d), env)
<1> SUFFICES ASSUME NEW i \in DOMAIN Crossed(c, d)
             PROVE  \E j \in DOMAIN Crossed(c, d)[i] : Sound(Crossed(c, d)[i][j], env)
  BY DEF Holding
<1>0. OneOfEach(c, d)
  BY CrossedFacts
<1>1. PICK k \in DOMAIN c, n \in DOMAIN d : Crossed(c, d)[i] = c[k] \o d[n]
  BY <1>0 DEF OneOfEach
<1> DEFINE x == c[k]
           y == d[n]
<1>2. x \in Seq(L) /\ y \in Seq(L)
  OBVIOUS
<1>3. (\E j \in DOMAIN x : Sound(x[j], env)) \/ (\E j \in DOMAIN y : Sound(y[j], env))
  BY DEF Holding
<1> HIDE DEF x, y
<1>4. CASE \E j \in DOMAIN x : Sound(x[j], env)
  <2>1. PICK j \in DOMAIN x : Sound(x[j], env)
    BY <1>4
  <2>2. j \in DOMAIN (x \o y) /\ (x \o y)[j] = x[j]
    BY <1>2
  <2> QED BY <1>1, <2>1, <2>2 DEF x, y
<1>5. CASE \E j \in DOMAIN y : Sound(y[j], env)
  <2>1. PICK j \in DOMAIN y : Sound(y[j], env)
    BY <1>5
  <2>2. Len(x) + j \in DOMAIN (x \o y) /\ (x \o y)[Len(x) + j] = y[j]
    BY <1>2
  <2> QED BY <1>1, <2>1, <2>2 DEF x, y
<1> QED BY <1>3, <1>4, <1>5

(* A clause of one leaf that is sound holds.                               *)
LEMMA HoldingOne ==
  ASSUME NEW leaf, NEW env, Sound(leaf, env)
  PROVE  Holding(<<<<leaf>>>>, env)
BY DEF Holding

(* A reference is its alias and its column.                                *)
LEMMA ReferenceOf ==
  ASSUME NEW ref \in Reference
  PROVE  ref = [alias |-> ref.alias, col |-> ref.col]
BY DEF Reference

(* A comparison that is true of the values is a sound leaf,                *)
LEMMA ComparisonSound ==
  ASSUME NEW ref \in Reference, NEW val, NEW env, NEW op \in {"=", "<>"},
         Cell(env, ref) # Null, Bound(val) # Null, (Cell(env, ref) = Bound(val)) <=> (op = "=")
  PROVE  Sound(Comparison(op, ref, val), env)
<1> DEFINE leaf == Comparison(op, ref, val)
<1> SUFFICES ASSUME NEW a \in Aliases, IsPredicate(leaf, a)
             PROVE  Compares(Predicate(leaf), Cell(env, [alias |-> a, col |-> Predicate(leaf).col]))
  BY DEF Sound
<1>1. leaf.op = op /\ leaf.ref = ref /\ leaf.val = val
  BY DEF Comparison
<1>2. ref.alias = a
  BY <1>1 DEF IsPredicate
<1>3. Predicate(leaf) = [col |-> ref.col, op |-> op, val |-> val]
  BY <1>1 DEF Predicate
<1>4. [alias |-> a, col |-> ref.col] = ref
  BY <1>2, ReferenceOf
<1>5. Compares([col |-> ref.col, op |-> op, val |-> val], Cell(env, ref))
  BY DEF Compares
<1> QED BY <1>3, <1>4, <1>5

(* a NULL test as well, or its negation,                                   *)
LEMMA NullTestSound ==
  ASSUME NEW e \in Conditions, NEW env, e.op = "IS NULL"
  PROVE  /\ Cell(env, e.ref) = Null => Sound(e, env)
         /\ Cell(env, e.ref) # Null => Sound(Not(e), env)
<1>1. e.ref \in Reference
  BY OperandsOf
<1>2. ASSUME Cell(env, e.ref) = Null, NEW a \in Aliases, IsPredicate(e, a)
      PROVE  Compares(Predicate(e), Cell(env, [alias |-> a, col |-> Predicate(e).col]))
  <2>1. e.ref.alias = a
    BY <1>2 DEF IsPredicate
  <2>2. Predicate(e) = [col |-> e.ref.col, op |-> "IS NULL", val |-> Null]
    BY DEF Predicate
  <2>3. [alias |-> a, col |-> e.ref.col] = e.ref
    BY <1>1, <2>1, ReferenceOf
  <2>4. Predicate(e).op = "IS NULL" /\ Predicate(e).col = e.ref.col
    <3> DEFINE p == Predicate(e)
               c == e.ref.col
    <3>1. p = [col |-> c, op |-> "IS NULL", val |-> Null]
      BY <2>2
    <3> HIDE DEF p, c
    <3>2. p.op = "IS NULL" /\ p.col = c
      BY <3>1
    <3> QED BY <3>2 DEF p, c
  <2>5. Cell(env, [alias |-> a, col |-> Predicate(e).col]) = Null
    BY <1>2, <2>3, <2>4
  <2> QED BY <2>4, <2>5 DEF Compares
<1>3. ASSUME Cell(env, e.ref) # Null, NEW a \in Aliases, IsPredicate(Not(e), a)
      PROVE  Compares(Predicate(Not(e)), Cell(env, [alias |-> a, col |-> Predicate(Not(e)).col]))
  <2>1. e.ref.alias = a
    BY <1>3 DEF IsPredicate, Not
  <2>2. Predicate(Not(e)) = [col |-> e.ref.col, op |-> "IS NOT NULL", val |-> Null]
    BY DEF Predicate, Not
  <2>3. [alias |-> a, col |-> e.ref.col] = e.ref
    BY <1>1, <2>1, ReferenceOf
  <2>4. Predicate(Not(e)).op = "IS NOT NULL" /\ Predicate(Not(e)).col = e.ref.col
    <3> DEFINE p == Predicate(Not(e))
               c == e.ref.col
    <3>1. p = [col |-> c, op |-> "IS NOT NULL", val |-> Null]
      BY <2>2
    <3> HIDE DEF p, c
    <3>2. p.op = "IS NOT NULL" /\ p.col = c
      BY <3>1
    <3> QED BY <3>2 DEF p, c
  <2>5. Cell(env, [alias |-> a, col |-> Predicate(Not(e)).col]) # Null
    BY <1>3, <2>3, <2>4
  <2> QED BY <2>4, <2>5 DEF Compares
<1> QED BY <1>2, <1>3 DEF Sound

(* and a leaf that is no predicate of one table says nothing.              *)
LEMMA OthersSound ==
  ASSUME NEW env
  PROVE  /\ Sound(Always, env)
         /\ \A e \in Conditions : e.op \in {"TRUE", "SAME", "EXISTS"} => Sound(e, env) /\ Sound(Not(e), env)
<1>1. \A a \in Aliases : ~ IsPredicate(Always, a)
  BY DEF IsPredicate, Always
<1>2. ASSUME NEW e \in Conditions, e.op \in {"TRUE", "SAME", "EXISTS"}, NEW a \in Aliases
      PROVE  ~ IsPredicate(e, a) /\ ~ IsPredicate(Not(e), a)
  BY <1>2 DEF IsPredicate, Not
<1> QED BY <1>1, <1>2 DEF Sound

(* AND, OR and NOT in three values                                         *)
LEMMA TruthCombined ==
  ASSUME NEW v \in 0 .. 2, NEW w \in 0 .. 2
  PROVE  /\ AllOf({v, w}) = 1 <=> v = 1 /\ w = 1
         /\ AllOf({v, w}) = 0 <=> v = 0 \/ w = 0
         /\ AnyOf({v, w}) = 1 <=> v = 1 \/ w = 1
         /\ AnyOf({v, w}) = 0 <=> v = 0 /\ w = 0
         /\ Negated(v) = 1 <=> v = 0
         /\ Negated(v) = 0 <=> v = 1
BY DEF AllOf, AnyOf, Negated, Unknown

(* What the clauses of a condition say of one row holds when it is true,   *)
(* what those of its negation say when it is false.                        *)
Clausal(m, e, env) ==
  /\ m[<<e, env>>] = 1 => Holding(Clauses[e][FALSE], env)
  /\ m[<<e, env>>] = 0 => Holding(Clauses[e][TRUE], env)

(* AND, OR and NOT: from the operands to the whole                         *)
LEMMA ClausalOperands ==
  ASSUME NEW tables, NEW env \in Environments(tables), NEW e \in Conditions, e.op \in {"AND", "OR", "NOT"},
         \A d \in Operands(e) : Clausal(Meaning(tables), d, env)
  PROVE  Clausal(Meaning(tables), e, env)
<1> DEFINE m == Meaning(tables)
<1>1. m[<<e, env>>] = TruthOf(m, e, env)
  BY MeaningFacts
<1>2. \A d \in Operands(e) : d \in Conditions /\ m[<<d, env>>] \in 0 .. 2 /\ Clauses[d][FALSE] \in Seq(Seq(Leaves)) /\ Clauses[d][TRUE] \in Seq(Seq(Leaves))
  BY PartsOfCondition, MeaningFacts, ClausesDef DEF AllClauses
<1>3. Clauses[e] = ClausesFrom(Clauses, e)
  BY ClausesDef
<1> HIDE DEF m
<1>4. CASE e.op = "NOT"
  <2>1. e.arg \in Operands(e)
    BY <1>4, OperandsOf
  <2>2. m[<<e, env>>] = Negated(m[<<e.arg, env>>])
    BY <1>1, <1>4, TruthCases
  <2>3. Clauses[e][FALSE] = Clauses[e.arg][TRUE] /\ Clauses[e][TRUE] = Clauses[e.arg][FALSE]
    <3>1. ClausesFrom(Clauses, e)[FALSE] = Clauses[e.arg][~FALSE] /\ ClausesFrom(Clauses, e)[TRUE] = Clauses[e.arg][~TRUE]
      BY <1>4 DEF ClausesFrom
    <3>2. (~FALSE) = TRUE /\ (~TRUE) = FALSE
      OBVIOUS
    <3> QED BY <1>3, <3>1, <3>2
  <2>4. Clausal(m, e.arg, env) /\ m[<<e.arg, env>>] \in 0 .. 2
    BY <2>1, <1>2 DEF m
  <2> DEFINE v == m[<<e.arg, env>>]
  <2>5. /\ Negated(v) = 1 <=> v = 0
        /\ Negated(v) = 0 <=> v = 1
    BY <2>4, TruthCombined
  <2> QED BY <2>2, <2>3, <2>4, <2>5 DEF Clausal, m
<1>5. CASE e.op \in {"AND", "OR"}
  <2> DEFINE x == e.args[1]
             y == e.args[2]
             v == m[<<x, env>>]
             w == m[<<y, env>>]
  <2>1. x \in Operands(e) /\ y \in Operands(e)
    BY <1>5, OperandsOf
  <2>2. Clausal(m, x, env) /\ Clausal(m, y, env) /\ v \in 0 .. 2 /\ w \in 0 .. 2
    BY <2>1, <1>2 DEF m
  <2>3. /\ AllOf({v, w}) = 1 <=> v = 1 /\ w = 1
        /\ AllOf({v, w}) = 0 <=> v = 0 \/ w = 0
        /\ AnyOf({v, w}) = 1 <=> v = 1 \/ w = 1
        /\ AnyOf({v, w}) = 0 <=> v = 0 /\ w = 0
    BY <2>2, TruthCombined
  <2>4. \A b \in BOOLEAN : Clauses[x][b] \in Seq(Seq(Leaves)) /\ Clauses[y][b] \in Seq(Seq(Leaves))
    BY <2>1, <1>2
  <2>5. ASSUME NEW b \in BOOLEAN
        PROVE  /\ Holding(Clauses[x][b], env) /\ Holding(Clauses[y][b], env) => Holding(Clauses[x][b] \o Clauses[y][b], env)
               /\ Holding(Clauses[x][b], env) \/ Holding(Clauses[y][b], env) => Holding(Crossed(Clauses[x][b], Clauses[y][b]), env)
    <3> DEFINE c == Clauses[x][b]
               d == Clauses[y][b]
    <3>1. c \in Seq(Seq(Leaves)) /\ d \in Seq(Seq(Leaves))
      BY <2>4
    <3> HIDE DEF c, d
    <3> QED BY <3>1, HoldingBoth, HoldingCrossed DEF c, d
  <2>6. CASE e.op = "AND"
    <3>1. m[<<e, env>>] = AllOf({v, w})
      BY <1>1, <2>6 DEF TruthOf
    <3>2. Clauses[e][FALSE] = Clauses[x][FALSE] \o Clauses[y][FALSE]
      BY <1>3, <2>6 DEF ClausesFrom
    <3>3. Clauses[e][TRUE] = Crossed(Clauses[x][TRUE], Clauses[y][TRUE])
      BY <1>3, <2>6 DEF ClausesFrom
    <3>4. /\ v = 1 => Holding(Clauses[x][FALSE], env)
          /\ v = 0 => Holding(Clauses[x][TRUE], env)
          /\ w = 1 => Holding(Clauses[y][FALSE], env)
          /\ w = 0 => Holding(Clauses[y][TRUE], env)
      BY <2>2 DEF Clausal
    <3> HIDE DEF v, w
    <3>5. m[<<e, env>>] = 1 => Holding(Clauses[e][FALSE], env)
      BY <2>3, <2>5, <3>1, <3>2, <3>3, <3>4
    <3>6. m[<<e, env>>] = 0 => Holding(Clauses[e][TRUE], env)
      BY <2>3, <2>5, <3>1, <3>2, <3>3, <3>4
    <3> QED BY <3>5, <3>6 DEF Clausal, m
  <2>7. CASE e.op = "OR"
    <3>1. m[<<e, env>>] = AnyOf({v, w})
      BY <1>1, <2>7 DEF TruthOf
    <3>2. Clauses[e][TRUE] = Clauses[x][TRUE] \o Clauses[y][TRUE]
      BY <1>3, <2>7 DEF ClausesFrom
    <3>3. Clauses[e][FALSE] = Crossed(Clauses[x][FALSE], Clauses[y][FALSE])
      BY <1>3, <2>7 DEF ClausesFrom
    <3>4. /\ v = 1 => Holding(Clauses[x][FALSE], env)
          /\ v = 0 => Holding(Clauses[x][TRUE], env)
          /\ w = 1 => Holding(Clauses[y][FALSE], env)
          /\ w = 0 => Holding(Clauses[y][TRUE], env)
      BY <2>2 DEF Clausal
    <3> HIDE DEF v, w
    <3>5. m[<<e, env>>] = 1 => Holding(Clauses[e][FALSE], env)
      BY <2>3, <2>5, <3>1, <3>2, <3>3, <3>4
    <3>6. m[<<e, env>>] = 0 => Holding(Clauses[e][TRUE], env)
      BY <2>3, <2>5, <3>1, <3>2, <3>3, <3>4
    <3> QED BY <3>5, <3>6 DEF Clausal, m
  <2> QED BY <1>5, <2>6, <2>7 DEF m
<1> QED BY <1>4, <1>5

(* When the comparison of two values is true, and when false               *)
LEMMA ComparedCases ==
  ASSUME NEW v, NEW w, NEW b \in BOOLEAN
  PROVE  /\ Compared(v, w, b) = 1 => v # Null /\ w # Null /\ b
         /\ Compared(v, w, b) = 0 => v # Null /\ w # Null /\ ~b
         /\ Compared(v, w, b) \in {0, 1, Unknown}
BY DEF Compared, AsTruth, Unknown

(* A comparison with a value,                                              *)
LEMMA ClausalComparison ==
  ASSUME NEW tables, NEW env \in Environments(tables), NEW e \in Conditions, e.op \in {"=", "<>"}
  PROVE  Clausal(Meaning(tables), e, env)
<1> DEFINE m == Meaning(tables)
           v == Cell(env, e.ref)
           w == Bound(e.val)
           b == (v = w) = (e.op = "=")
<1>1. m[<<e, env>>] = Compared(v, w, b)
  BY MeaningFacts, TruthOfComparison
<1>2. Clauses[e] = ClausesFrom(Clauses, e) /\ e.ref \in Reference
  BY ClausesDef, OperandsOf
<1>3. ASSUME m[<<e, env>>] = 1
      PROVE  Holding(Clauses[e][FALSE], env)
  <2>1. v # Null /\ w # Null /\ b
    <3>1. b \in BOOLEAN
      OBVIOUS
    <3> HIDE DEF m, v, w, b
    <3> QED BY <1>1, <1>3, <3>1, ComparedCases
  <2>2. ClausesFrom(Clauses, e)[FALSE] = <<<<Comparison(IF (e.op = "=") = FALSE THEN "<>" ELSE "=", e.ref, e.val)>>>>
    BY DEF ClausesFrom
  <2>3. (IF (e.op = "=") = FALSE THEN "<>" ELSE "=") = e.op
    OBVIOUS
  <2>4. Clauses[e][FALSE] = <<<<Comparison(e.op, e.ref, e.val)>>>>
    BY <1>2, <2>2, <2>3
  <2>5. Sound(Comparison(e.op, e.ref, e.val), env)
    BY <1>2, <2>1, ComparisonSound
  <2> QED BY <2>4, <2>5, HoldingOne
<1>4. ASSUME m[<<e, env>>] = 0
      PROVE  Holding(Clauses[e][TRUE], env)
  <2> DEFINE op == IF e.op = "=" THEN "<>" ELSE "="
  <2>1. v # Null /\ w # Null /\ ~b
    <3>1. b \in BOOLEAN
      OBVIOUS
    <3> HIDE DEF m, v, w, b
    <3> QED BY <1>1, <1>4, <3>1, ComparedCases
  <2>2. ClausesFrom(Clauses, e)[TRUE] = <<<<Comparison(IF (e.op = "=") = TRUE THEN "<>" ELSE "=", e.ref, e.val)>>>>
    BY DEF ClausesFrom
  <2>3. (IF (e.op = "=") = TRUE THEN "<>" ELSE "=") = op /\ op \in {"=", "<>"} /\ (op = "=" <=> e.op # "=")
    OBVIOUS
  <2>4. Clauses[e][TRUE] = <<<<Comparison(op, e.ref, e.val)>>>>
    BY <1>2, <2>2, <2>3
  <2> HIDE DEF op
  <2>5. Sound(Comparison(op, e.ref, e.val), env)
    BY <1>2, <2>1, <2>3, ComparisonSound
  <2> QED BY <2>4, <2>5, HoldingOne
<1> QED BY <1>3, <1>4 DEF Clausal

(* a list                                                                  *)
LEMMA ClausalIn ==
  ASSUME NEW tables, NEW env \in Environments(tables), NEW e \in Conditions, e.op = "IN"
  PROVE  Clausal(Meaning(tables), e, env)
<1> DEFINE m == Meaning(tables)
           v == Cell(env, e.ref)
           S == {Compared(v, Bound(x), v = Bound(x)) : x \in ToSet(e.vals)}
<1>1. m[<<e, env>>] = AnyOf(S)
  BY MeaningFacts, TruthOfIn
<1>2. Clauses[e] = ClausesFrom(Clauses, e) /\ e.ref \in Reference /\ e.vals \in Seq(Int)
  BY ClausesDef, OperandsOf, PartsOfCondition DEF IsCondition
<1>2a. /\ \A x \in ToSet(e.vals) : \E i \in DOMAIN e.vals : x = e.vals[i]
       /\ \A i \in DOMAIN e.vals : e.vals[i] \in ToSet(e.vals)
  <2>1. e.vals \in Seq(Int)
    BY <1>2
  <2> QED BY <2>1, ToSetOf
<1>3. ASSUME m[<<e, env>>] = 1
      PROVE  Holding(Clauses[e][FALSE], env)
  <2>1. 1 \in S
    <3> HIDE DEF S, m
    <3> QED BY <1>1, <1>3 DEF AnyOf, Unknown
  <2>2. PICK x \in ToSet(e.vals) : Compared(v, Bound(x), v = Bound(x)) = 1
    BY <2>1
  <2>3. PICK i \in DOMAIN e.vals : x = e.vals[i]
    BY <1>2a
  <2>4. v # Null /\ Bound(x) # Null /\ v = Bound(x)
    <3> DEFINE w == Bound(x)
    <3> HIDE DEF v, w
    <3> QED BY <2>2, ComparedCases DEF w
  <2>5. Sound(Comparison("=", e.ref, e.vals[i]), env)
    BY <1>2, <2>3, <2>4, ComparisonSound
  <2>6. Clauses[e][FALSE] = <<[k \in DOMAIN e.vals |-> Comparison("=", e.ref, e.vals[k])]>>
    <3>1. ClausesFrom(Clauses, e)[FALSE] = <<[k \in DOMAIN e.vals |-> Comparison("=", e.ref, e.vals[k])]>>
      BY DEF ClausesFrom
    <3> QED BY <1>2, <3>1
  <2> DEFINE c == [k \in DOMAIN e.vals |-> Comparison("=", e.ref, e.vals[k])]
  <2>7. i \in DOMAIN c /\ c[i] = Comparison("=", e.ref, e.vals[i])
    OBVIOUS
  <2> HIDE DEF c
  <2>8. Holding(<<c>>, env)
    BY <2>5, <2>7 DEF Holding
  <2> QED BY <2>6, <2>8 DEF c
<1>4. ASSUME m[<<e, env>>] = 0
      PROVE  Holding(Clauses[e][TRUE], env)
  <2>1. 1 \notin S /\ Unknown \notin S
    <3> HIDE DEF S, m
    <3> QED BY <1>1, <1>4 DEF AnyOf, Unknown
  <2>2. ASSUME NEW i \in DOMAIN e.vals
        PROVE  Sound(Comparison("<>", e.ref, e.vals[i]), env)
    <3> DEFINE w == Bound(e.vals[i])
    <3>1. Compared(v, w, v = w) \in S
      BY <1>2a
    <3>2. v # Null /\ w # Null /\ v # w
      <4> HIDE DEF v, w, S
      <4>1. Compared(v, w, v = w) # 1 /\ Compared(v, w, v = w) # Unknown
        BY <2>1, <3>1
      <4> QED BY <4>1, ComparedCases
    <3> QED BY <1>2, <3>2, ComparisonSound
  <2> DEFINE c == [i \in DOMAIN e.vals |-> <<Comparison("<>", e.ref, e.vals[i])>>]
  <2>3. Clauses[e][TRUE] = c
    <3>1. ClausesFrom(Clauses, e)[TRUE] = c
      BY DEF ClausesFrom
    <3> QED BY <1>2, <3>1
  <2>4. Holding(c, env)
    BY <2>2 DEF Holding
  <2> QED BY <2>3, <2>4
<1> QED BY <1>3, <1>4 DEF Clausal

(* and any other condition that has no operands                            *)
LEMMA ClausalOther ==
  ASSUME NEW tables, NEW env \in Environments(tables), NEW e \in Conditions,
         e.op \in {"TRUE", "IS NULL", "SAME", "EXISTS", "IN QUERY"}
  PROVE  Clausal(Meaning(tables), e, env)
<1> DEFINE m == Meaning(tables)
<1>1. m[<<e, env>>] = TruthOf(m, e, env) /\ Clauses[e] = ClausesFrom(Clauses, e)
  BY MeaningFacts, ClausesDef
<1> HIDE DEF m
<1>2. CASE e.op = "IN QUERY"
  <2>1. ClausesFrom(Clauses, e)[FALSE] = <<<<Always>>>> /\ ClausesFrom(Clauses, e)[TRUE] = <<<<Always>>>>
    BY <1>2 DEF ClausesFrom
  <2>2. Holding(<<<<Always>>>>, env)
    BY OthersSound, HoldingOne
  <2> QED BY <1>1, <2>1, <2>2 DEF Clausal, m
<1>3. CASE e.op # "IN QUERY"
  <2>1. ClausesFrom(Clauses, e)[FALSE] = <<<<e>>>> /\ ClausesFrom(Clauses, e)[TRUE] = <<<<Not(e)>>>>
    BY <1>3 DEF ClausesFrom
  <2>2. CASE e.op \in {"TRUE", "SAME", "EXISTS"}
    <3>1. Holding(<<<<e>>>>, env) /\ Holding(<<<<Not(e)>>>>, env)
      BY <2>2, OthersSound, HoldingOne
    <3> QED BY <1>1, <2>1, <3>1 DEF Clausal, m
  <2>3. CASE e.op = "IS NULL"
    <3>1. m[<<e, env>>] = AsTruth(Cell(env, e.ref) = Null)
      BY <1>1, <2>3, TruthCases
    <3>2. (m[<<e, env>>] = 1 => Sound(e, env)) /\ (m[<<e, env>>] = 0 => Sound(Not(e), env))
      <4>1. (Cell(env, e.ref) = Null => Sound(e, env)) /\ (Cell(env, e.ref) # Null => Sound(Not(e), env))
        BY <2>3, NullTestSound
      <4>2. AsTruth(Cell(env, e.ref) = Null) = IF Cell(env, e.ref) = Null THEN 1 ELSE 0
        BY DEF AsTruth
      <4> DEFINE x == m[<<e, env>>]
                 c == Cell(env, e.ref)
      <4>3. x = (IF c = Null THEN 1 ELSE 0)
        BY <3>1, <4>2
      <4> HIDE DEF x, c, Null
      <4>5. x = 1 => c = Null
        BY ONLY <4>3
      <4>6. x = 0 => c # Null
        BY ONLY <4>3
      <4>4. (x = 1 => Sound(e, env)) /\ (x = 0 => Sound(Not(e), env))
        BY <4>1, <4>5, <4>6, Zenon DEF c
      <4> QED BY <4>4 DEF x
    <3>3. (m[<<e, env>>] = 1 => Holding(<<<<e>>>>, env)) /\ (m[<<e, env>>] = 0 => Holding(<<<<Not(e)>>>>, env))
      BY <3>2, HoldingOne
    <3> QED BY <1>1, <2>1, <3>3 DEF Clausal, m
  <2> QED BY <1>3, <2>2, <2>3
<1> QED BY <1>2, <1>3

(* Every condition: what its clauses say holds when it is true.            *)
LEMMA ClausalAll ==
  ASSUME NEW tables, NEW env \in Environments(tables)
  PROVE  \A e \in Conditions : Clausal(Meaning(tables), e, env)
<1> DEFINE m == Meaning(tables)
           B == {e \in Conditions : ~ Clausal(m, e, env)}
           D == Conditions
           rank == [e \in D |-> Size[e]]
<1> SUFFICES ASSUME B # {} PROVE FALSE
  OBVIOUS
<1>1. rank \in [D -> Nat]
  BY FetchPlanAssumption
<1>2. PICK e \in B : \A y \in D : rank[y] < rank[e] => y \notin B
  <2>1. B \subseteq D
    OBVIOUS
  <2> HIDE DEF B, D, rank
  <2> QED BY <1>1, <2>1, LeastRanked
<1>3. \A d \in Operands(e) : Clausal(m, d, env)
  <2> TAKE d \in Operands(e)
  <2>1. d \in D /\ Size[d] < Size[e]
    BY PartsOfCondition
  <2> QED BY <2>1, <1>2
<1>4. ~ Clausal(m, e, env) /\ e \in Conditions
  BY <1>2
<1> HIDE DEF B
<1> QED
  BY <1>3, <1>4, ClausalOperands, ClausalComparison, ClausalIn, ClausalOther, OperandsOf

(* What is pushed onto an alias holds where the WHERE is true. *)
Passed(groups, a, env) ==
  \A i \in DOMAIN groups : \E j \in DOMAIN groups[i] :
    Compares(groups[i][j], Cell(env, [alias |-> a, col |-> groups[i][j].col]))

(* The predicates of an alias hold of its row wherever the WHERE is true.  *)
LEMMA PushedHolds ==
  ASSUME NEW tables, NEW env \in Environments(tables), NEW s \in Selections, NEW a \in Aliases,
         Meaning(tables)[<<s.where, env>>] = 1
  PROVE  Passed(Pushed(s, a), a, env)
<1> DEFINE groups == Pushed(s, a)
           cs == Clauses[s.where][FALSE]
<1>1. Holding(cs, env)
  <2>1. s.where \in Conditions
    BY PartsOfSelect
  <2>2. Clausal(Meaning(tables), s.where, env)
    BY <2>1, ClausalAll
  <2> QED BY <2>2 DEF Clausal
<1> SUFFICES ASSUME NEW i \in DOMAIN groups
             PROVE  \E j \in DOMAIN groups[i] : Compares(groups[i][j], Cell(env, [alias |-> a, col |-> groups[i][j].col]))
  BY DEF Passed
<1>from. PICK c \in Seq(Leaves) : GroupFrom(s, a, groups[i], c)
  BY PushedFacts
<1>2. /\ \E k \in DOMAIN cs : c = cs[k]
      /\ groups[i] = [j \in DOMAIN c |-> Predicate(c[j])]
      /\ \A j \in DOMAIN c : IsPredicate(c[j], a)
  <2> HIDE DEF groups
  <2> QED BY <1>from DEF GroupFrom
<1> HIDE DEF groups, cs
<1>3. PICK j \in DOMAIN c : Sound(c[j], env)
  BY <1>1, <1>2 DEF Holding
<1>4. j \in DOMAIN groups[i] /\ groups[i][j] = Predicate(c[j])
  BY <1>2
<1>5. Compares(Predicate(c[j]), Cell(env, [alias |-> a, col |-> Predicate(c[j]).col]))
  BY <1>2, <1>3 DEF Sound
<1> QED BY <1>4, <1>5

(* No NULL test is pushed onto an alias that may have no row.              *)
LEMMA PushedNoNullTest ==
  ASSUME NEW s \in Selections, NEW a \in OuterJoined(s)
  PROVE  \A i \in DOMAIN Pushed(s, a) : \A j \in DOMAIN Pushed(s, a)[i] : ~NullTest(Pushed(s, a)[i][j])
<1> DEFINE groups == Pushed(s, a)
<1> SUFFICES ASSUME NEW i \in DOMAIN groups, NEW j \in DOMAIN groups[i] PROVE ~NullTest(groups[i][j])
  OBVIOUS
<1>1. PICK c \in Seq(Leaves) : GroupFrom(s, a, groups[i], c)
  BY PushedFacts
<1> HIDE DEF groups
<1>2. /\ groups[i] = [k \in DOMAIN c |-> Predicate(c[k])]
      /\ \A k \in DOMAIN c : ~NullTest(Predicate(c[k]))
  BY <1>1 DEF GroupFrom
<1> QED BY <1>2

----------------------------------------------------------------------------
(* The rows of an outer join, and what a row that passed satisfies         *)

(* What an environment of the first n tables of a select looks like: each  *)
(* alias has a row of its table, or none if a join may leave it without;   *)
(* the other aliases have what they have outside.                          *)
MayLack(s, n, i) == s.tables[i].side = "LEFT" \/ \E k \in i + 1 .. n : s.tables[k].side = "RIGHT"

Shaped(s, n, outer, tables, env) ==
  /\ \A i \in 1 .. n : \/ env[s.tables[i].alias] \in tables[s.tables[i].table].rows
                       \/ env[s.tables[i].alias] = NoRow /\ MayLack(s, n, i)
  /\ \A x \in Aliases : (\A i \in 1 .. n : x # s.tables[i].alias) => env[x] = outer[x]

(* A table more keeps that shape,                                          *)
LEMMA ShapedStep ==
  ASSUME NEW tables, NEW outer \in Environments(tables), NEW s \in Selections, NEW n \in DOMAIN s.tables,
         NEW left, left \subseteq Environments(tables), \A env \in left : Shaped(s, n - 1, outer, tables, env),
         NEW m, NEW x,
         Both(m, s, n, left, tables, x) \/ Lone(m, s, n, left, tables, x) \/ Spare(m, s, n, left, outer, tables, x)
  PROVE  Shaped(s, n, outer, tables, x)
<1> DEFINE a == s.tables[n].alias
           rows == tables[s.tables[n].table].rows
<1>1. /\ n \in Nat /\ n - 1 \in Nat /\ n >= 1 /\ n <= Len(s.tables) /\ a \in Aliases
      /\ DOMAIN s.tables = 1 .. Len(s.tables) /\ Len(s.tables) \in Nat
  BY EntryFacts, PartsOfSelect
<1>2. \A i \in 1 .. n - 1 : s.tables[i].alias # a /\ s.tables[i].alias \in Aliases /\ i \in DOMAIN s.tables
  <2> TAKE i \in 1 .. n - 1
  <2>1. i \in DOMAIN s.tables /\ i # n
    BY <1>1
  <2> QED BY <2>1, PartsOfSelect, EntryFacts
<1>3. \A i \in 1 .. n : i = n \/ i \in 1 .. n - 1
  BY <1>1
<1>4. \A i \in 1 .. n - 1 : MayLack(s, n - 1, i) => MayLack(s, n, i)
  <2> TAKE i \in 1 .. n - 1
  <2>1. \A k \in i + 1 .. n - 1 : k \in i + 1 .. n
    BY <1>1
  <2> QED BY <2>1 DEF MayLack
<1>5. ASSUME NEW env \in left, NEW r, x = [env EXCEPT ![a] = r], r \in rows \/ (r = NoRow /\ s.tables[n].side = "LEFT")
      PROVE  Shaped(s, n, outer, tables, x)
  <2>1. Shaped(s, n - 1, outer, tables, env) /\ env \in Environments(tables)
    OBVIOUS
  <2>2. x[a] = r /\ \A y \in Aliases : y # a => x[y] = env[y]
    BY <1>5, <2>1, <1>1 DEF Environments
  <2>3. ASSUME NEW i \in 1 .. n
        PROVE  \/ x[s.tables[i].alias] \in tables[s.tables[i].table].rows
               \/ x[s.tables[i].alias] = NoRow /\ MayLack(s, n, i)
    <3>1. CASE i = n
      BY <3>1, <2>2, <1>5 DEF MayLack
    <3>2. CASE i \in 1 .. n - 1
      <4>1. x[s.tables[i].alias] = env[s.tables[i].alias]
        BY <3>2, <1>2, <2>2
      <4> QED BY <4>1, <3>2, <2>1, <1>4 DEF Shaped
    <3> QED BY <3>1, <3>2, <1>3
  <2>4. ASSUME NEW y \in Aliases, \A i \in 1 .. n : y # s.tables[i].alias
        PROVE  x[y] = outer[y]
    <3>1. y # a /\ \A i \in 1 .. n - 1 : y # s.tables[i].alias
      BY <2>4, <1>1
    <3> QED BY <3>1, <2>1, <2>2 DEF Shaped
  <2> QED BY <2>3, <2>4 DEF Shaped
<1>6. ASSUME NEW r \in rows, s.tables[n].side = "RIGHT", x = [NoneOf(s, n, outer) EXCEPT ![a] = r]
      PROVE  Shaped(s, n, outer, tables, x)
  <2> DEFINE none == NoneOf(s, n, outer)
  <2>1. none = [y \in Aliases |-> IF y \in {s.tables[i].alias : i \in 1 .. n - 1} THEN NoRow ELSE outer[y]]
    BY DEF NoneOf
  <2> HIDE DEF none
  <2>2. x[a] = r /\ \A y \in Aliases : y # a => x[y] = none[y]
    <3>1. x = [none EXCEPT ![a] = r]
      BY <1>6 DEF none
    <3> QED BY <3>1, <2>1, <1>1
  <2>3. ASSUME NEW i \in 1 .. n
        PROVE  \/ x[s.tables[i].alias] \in tables[s.tables[i].table].rows
               \/ x[s.tables[i].alias] = NoRow /\ MayLack(s, n, i)
    <3>1. CASE i = n
      BY <3>1, <2>2, <1>6
    <3>2. CASE i \in 1 .. n - 1
      <4>1. x[s.tables[i].alias] = none[s.tables[i].alias]
        BY <3>2, <1>2, <2>2
      <4>2. none[s.tables[i].alias] = NoRow
        BY <2>1, <3>2, <1>2
      <4>3. n \in i + 1 .. n
        BY <3>2, <1>1
      <4> QED BY <4>1, <4>2, <4>3, <1>6 DEF MayLack
    <3> QED BY <3>1, <3>2, <1>3
  <2>4. ASSUME NEW y \in Aliases, \A i \in 1 .. n : y # s.tables[i].alias
        PROVE  x[y] = outer[y]
    <3>1. y # a /\ \A i \in 1 .. n - 1 : y # s.tables[i].alias
      BY <2>4, <1>1
    <3> QED BY <3>1, <2>1, <2>2
  <2> QED BY <2>3, <2>4 DEF Shaped
<1> QED BY <1>5, <1>6 DEF Both, Lone, Spare

(* so that all environments of a join have it.                             *)
LEMMA AllShaped ==
  ASSUME NEW tables, NEW outer \in Environments(tables), NEW s \in Selections
  PROVE  \A n \in 0 .. Len(s.tables) : \A env \in Meaning(tables)[<<Join(s, n), outer>>] : Shaped(s, n, outer, tables, env)
<1> DEFINE m == Meaning(tables)
           Fits(n) == \A env \in m[<<Join(s, n), outer>>] : Shaped(s, n, outer, tables, env)
           B == {n \in 0 .. Len(s.tables) : ~ Fits(n)}
<1> SUFFICES ASSUME B # {} PROVE FALSE
  OBVIOUS
<1>1. Len(s.tables) \in Nat /\ DOMAIN s.tables = 1 .. Len(s.tables)
  BY PartsOfSelect
<1>2. PICK n \in B : \A k \in B : n <= k
  <2>1. B \subseteq Nat
    BY <1>1
  <2> HIDE DEF B
  <2> QED BY <2>1, LeastNatural
<1>3. n \in Nat /\ m[<<Join(s, n), outer>>] = Joined(m, s, n, outer, tables)
  <2>1. n \in Nat
    BY <1>1, <1>2
  <2> QED BY <2>1, MeaningFacts
<1>4. CASE n = 0
  <2>1. n \notin DOMAIN s.tables
    BY <1>4, <1>1
  <2>2. m[<<Join(s, n), outer>>] = {outer}
    BY <1>3, <2>1, JoinedNone
  <2>3. Shaped(s, n, outer, tables, outer)
    BY <1>4 DEF Shaped
  <2> QED BY <2>2, <2>3, <1>2
<1>5. CASE n # 0
  <2>1. n \in DOMAIN s.tables /\ n - 1 \in Nat /\ n - 1 \in 0 .. Len(s.tables) /\ ~(n <= n - 1)
    BY <1>1, <1>2, <1>5
  <2> DEFINE left == m[<<Join(s, n - 1), outer>>]
  <2>2. Fits(n - 1)
    <3>1. n - 1 \notin B
      <4> HIDE DEF B
      <4> QED BY <1>2, <2>1
    <3> QED BY <2>1, <3>1
  <2>3. left \subseteq Environments(tables)
    BY <2>1, MeaningFacts
  <2>4. ASSUME NEW x \in m[<<Join(s, n), outer>>]
        PROVE  Shaped(s, n, outer, tables, x)
    <3>1. Both(m, s, n, left, tables, x) \/ Lone(m, s, n, left, tables, x) \/ Spare(m, s, n, left, outer, tables, x)
      BY <1>3, <2>1, <2>4, JoinedIff
    <3>2. \A env \in left : Shaped(s, n - 1, outer, tables, env)
      BY <2>2
    <3> HIDE DEF left, m, B
    <3> QED BY <2>1, <2>3, <3>1, <3>2, ShapedStep
  <2> QED BY <2>4, <1>2
<1> QED BY <1>4, <1>5

(* Predicates that are kept for a table are those of each of its aliases.  *)
LEMMA AgreedIsPushed ==
  ASSUME NEW q, NEW s \in AllSelects(q), NEW i \in DOMAIN s.tables, Agreed(q, s.tables[i].table) # <<>>
  PROVE  Pushed(s, s.tables[i].alias) = Agreed(q, s.tables[i].table)
<1> DEFINE t == s.tables[i].table
           all == PushedOnto(q, t)
           p == Pushed(s, s.tables[i].alias)
<1>1. p \in all
  BY DEF PushedOnto
<1>2. Agreed(q, t) = IF \E x \in all : all = {x} THEN CHOOSE x \in all : TRUE ELSE <<>>
  BY DEF Agreed
<1> HIDE DEF all, p
<1>3. PICK x \in all : all = {x}
  BY <1>2
<1>4. Agreed(q, t) = CHOOSE y \in all : TRUE
  BY <1>2, <1>3
<1>5. Agreed(q, t) \in all
  BY <1>1, <1>4
<1> QED BY <1>1, <1>3, <1>5 DEF p

(* The operators of the predicates                                         *)
LEMMA PushedOps ==
  ASSUME NEW s \in Selections, NEW a
  PROVE  /\ \A i \in DOMAIN Pushed(s, a) : \A j \in DOMAIN Pushed(s, a)[i] :
              Pushed(s, a)[i][j].op \in {"=", "<>", "IS NULL", "IS NOT NULL"}
         /\ Pushed(s, a) # <<>> => DOMAIN Pushed(s, a) # {}
<1> DEFINE groups == Pushed(s, a)
<1>1. ASSUME NEW i \in DOMAIN groups, NEW j \in DOMAIN groups[i]
      PROVE  groups[i][j].op \in {"=", "<>", "IS NULL", "IS NOT NULL"}
  <2>from. PICK c \in Seq(Leaves) : GroupFrom(s, a, groups[i], c)
    BY PushedFacts
  <2> HIDE DEF groups
  <2>1. /\ groups[i] = [k \in DOMAIN c |-> Predicate(c[k])]
        /\ \A k \in DOMAIN c : IsPredicate(c[k], a)
    BY <2>from DEF GroupFrom
  <2>2. groups[i][j] = Predicate(c[j]) /\ IsPredicate(c[j], a)
    BY <2>1
  <2>3. Predicate(c[j]).op \in {"=", "<>", "IS NULL", "IS NOT NULL"}
    BY <2>2 DEF Predicate, IsPredicate
  <2> QED BY <2>2, <2>3
<1>2. ASSUME DOMAIN groups = {}
      PROVE  groups = <<>>
  <2>1. groups = [i \in DOMAIN groups |-> groups[i]]
    BY DEF Pushed
  <2> HIDE DEF groups
  <2> QED BY <1>2, <2>1
<1> QED BY <1>1, <1>2

(* NULL satisfies a NULL test and no other predicate.                      *)
LEMMA ComparesNull ==
  \A p : Compares(p, Null) /\ p.op \in {"=", "<>", "IS NULL", "IS NOT NULL"} => NullTest(p)
BY DEF NullTest, Compares

(* A row that passed a select, of a table with predicates that every scope *)
(* has, satisfies them, and the table is not the side without a row.       *)
LEMMA RowsSatisfy ==
  ASSUME NEW tables, \A t \in Tables : NoRow \notin tables[t].rows,
         NEW outer \in Environments(tables), NEW q, NEW s \in Selections, s \in AllSelects(q),
         NEW env \in RowsOf(Meaning(tables), s, outer),
         NEW i \in DOMAIN s.tables, Agreed(q, s.tables[i].table) # <<>>
  PROVE  /\ env[s.tables[i].alias] \in tables[s.tables[i].table].rows
         /\ JdbcReads(Agreed(q, s.tables[i].table), env[s.tables[i].alias].row)
<1> DEFINE m == Meaning(tables)
           t == s.tables[i].table
           a == s.tables[i].alias
           n == Len(s.tables)
           groups == Pushed(s, a)
<1>1. t \in Tables /\ a \in Aliases /\ n \in Nat /\ i \in 1 .. n /\ DOMAIN s.tables = 1 .. n /\ n \in 0 .. n
  BY EntryFacts, PartsOfSelect
<1>2. env \in m[<<Join(s, n), outer>>] /\ m[<<s.where, env>>] = 1
  BY DEF RowsOf
<1>3. env \in Environments(tables) /\ Shaped(s, n, outer, tables, env)
  <2>1. m[<<Join(s, n), outer>>] \subseteq Environments(tables)
    BY <1>1, MeaningFacts
  <2>2. \A x \in m[<<Join(s, n), outer>>] : Shaped(s, n, outer, tables, x)
    BY <1>1, AllShaped
  <2> HIDE DEF m
  <2> QED BY <1>2, <2>1, <2>2
<1>4. groups = Agreed(q, t) /\ groups # <<>>
  BY AgreedIsPushed
<1>5. Passed(groups, a, env)
  BY <1>1, <1>2, <1>3, PushedHolds
<1>6. PICK k \in DOMAIN groups : TRUE
  BY <1>4, PushedOps
<1>7. env[a] # NoRow
  <2> SUFFICES ASSUME env[a] = NoRow PROVE FALSE
    OBVIOUS
  <2>1. MayLack(s, n, i)
    <3>1. NoRow \notin tables[t].rows
      BY <1>1
    <3> HIDE DEF t, a, n
    <3>2. env[a] \in tables[t].rows \/ MayLack(s, n, i)
      BY <1>1, <1>3 DEF Shaped, a, t
    <3> QED BY <3>1, <3>2
  <2>2. a \in OuterJoined(s)
    BY <1>1, <2>1 DEF MayLack, OuterJoined
  <2>3. PICK j \in DOMAIN groups[k] : Compares(groups[k][j], Cell(env, [alias |-> a, col |-> groups[k][j].col]))
    BY <1>5, <1>6 DEF Passed
  <2>4. ~NullTest(groups[k][j])
    BY <1>6, <2>2, <2>3, PushedNoNullTest
  <2>5. groups[k][j].op \in {"=", "<>", "IS NULL", "IS NOT NULL"}
    BY <1>6, <2>3, PushedOps
  <2>6. Cell(env, [alias |-> a, col |-> groups[k][j].col]) = Null
    BY DEF Cell
  <2> DEFINE p == groups[k][j]
  <2>7. Compares(p, Null) /\ ~NullTest(p) /\ p.op \in {"=", "<>", "IS NULL", "IS NOT NULL"}
    BY <2>3, <2>4, <2>5, <2>6
  <2> HIDE DEF p
  <2>8. ~ Compares(p, Null)
    BY <2>7, ComparesNull
  <2> QED BY <2>7, <2>8
<1>8. env[a] \in tables[t].rows
  <2> HIDE DEF t, a, n
  <2> QED BY <1>1, <1>3, <1>7 DEF Shaped, a, t
<1>9. JdbcReads(groups, env[a].row)
  <2>1. \A c : Cell(env, [alias |-> a, col |-> c]) = env[a].row[c]
    BY <1>7 DEF Cell
  <2> HIDE DEF groups, a
  <2> QED BY <1>5, <2>1 DEF Passed, JdbcReads
<1> QED BY <1>4, <1>8, <1>9

----------------------------------------------------------------------------
(* Of a job: all of the tables, and what its fetches leave of them         *)

Left(j, contents)    == [t \in Tables |-> FetchedRows(j, t, contents)]
LeftCols(j)          == [t \in Tables |-> FetchedColumns(j, t)]

(* What the fetches must leave: all columns that are needed, and all rows  *)
(* that satisfy the predicates                                             *)
Enough(j, contents) ==
  /\ IsQuery(j.query)
  /\ \A t \in Tables : contents[t] \subseteq Rows[t]
  /\ \A t \in Tables : Left(j, contents)[t] \subseteq contents[t]
  /\ \A t \in TablesOf(j.query) :
       /\ LeftCols(j)[t] = Needed(j.query, t)
       /\ \A r \in contents[t] : JdbcReads(Agreed(j.query, t), r) => r \in Left(j, contents)[t]
  /\ \A s \in AllSelects(j.query) : (\E i \in DOMAIN s.tables : s.tables[i].side = "NATURAL") => s.star

(* The rows and columns of both                                            *)
LEMMA WorldFacts ==
  ASSUME NEW j, NEW contents
  PROVE  /\ \A t \in Tables : /\ Full(contents)[t].columns = Columns[t]
                              /\ Full(contents)[t].rows = Once(contents[t])
                              /\ Fetched(j, contents)[t].columns = LeftCols(j)[t]
                              /\ Fetched(j, contents)[t].rows = Once({Image(r, LeftCols(j)[t]) : r \in Left(j, contents)[t]})
         /\ \A t \in Tables : NoRow \notin Full(contents)[t].rows /\ NoRow \notin Fetched(j, contents)[t].rows
<1>1. \A t \in Tables : /\ Full(contents)[t].columns = Columns[t]
                        /\ Full(contents)[t].rows = Once(contents[t])
                        /\ Fetched(j, contents)[t].columns = LeftCols(j)[t]
                        /\ Fetched(j, contents)[t].rows = Once({Image(r, LeftCols(j)[t]) : r \in Left(j, contents)[t]})
  BY DEF Full, Fetched, LeftCols, Left
<1>2. \A S : NoRow \notin Once(S)
  <2> SUFFICES ASSUME NEW S, NEW x \in S PROVE NoRow # [row |-> x, copy |-> 1]
    BY DEF Once
  <2>1. NoRow.copy = 0 /\ [row |-> x, copy |-> 1].copy = 1
    BY DEF NoRow
  <2> QED BY <2>1
<1> QED BY <1>1, <1>2

----------------------------------------------------------------------------
(* What occurs in a query; rows that are left and their images             *)

(* The conditions that occur in a query *)
Occurs(q, e) == e \in Conditions /\ SelectsIn[e] \subseteq AllSelects(q) /\ NamedIn[e] \subseteq NamesIn(q)

(* The selects of a query, with those in them                              *)
LEMMA SelectsTyped ==
  ASSUME NEW q, IsQuery(q)
  PROVE  /\ AllSelects(q) \subseteq Selections
         /\ \A s \in AllSelects(q) : SelectsIn[s] \subseteq AllSelects(q)
<1>1. \A i \in DOMAIN q : q[i] \in Selections
  BY DEF IsQuery
<1>2. \A i \in DOMAIN q : SelectsIn[q[i]] \subseteq Selections
  BY <1>1, SelectsInTyped
<1>3. ASSUME NEW s \in AllSelects(q)
      PROVE  SelectsIn[s] \subseteq AllSelects(q)
  <2>1. PICK i \in DOMAIN q : s \in SelectsIn[q[i]]
    BY DEF AllSelects
  <2>2. SelectsIn[s] \subseteq SelectsIn[q[i]]
    BY <1>1, <2>1, SelectsInClosed
  <2> QED BY <2>2 DEF AllSelects
<1> QED BY <1>2, <1>3 DEF AllSelects

(* The parts of a condition that occurs occur, and its names are names.    *)
LEMMA OccurringParts ==
  ASSUME NEW q, IsQuery(q), NEW e, Occurs(q, e)
  PROVE  /\ e \in Conditions
         /\ \A d \in Operands(e) : Occurs(q, d)
         /\ \A u \in Queries(e) : u \in AllSelects(q)
         /\ References(e) \subseteq NamesIn(q)
<1>0. e \in Conditions /\ SelectsIn[e] \subseteq AllSelects(q) /\ NamedIn[e] \subseteq NamesIn(q)
  BY DEF Occurs
<1>1. SelectsIn[e] = UNION {SelectsIn[y] : y \in Operands(e) \cup Queries(e)}
  BY <1>0, SelectsInParts
<1>2. NamedIn[e] = References(e) \cup UNION {NamedIn[d] : d \in Operands(e)}
  BY <1>0, NamedInDef DEF NamedFrom
<1>3. ASSUME NEW d \in Operands(e)
      PROVE  Occurs(q, d)
  <2>1. d \in Conditions
    BY <1>0, PartsOfCondition
  <2>2. SelectsIn[d] \subseteq SelectsIn[e]
    BY <1>1
  <2>3. NamedIn[d] \subseteq NamedIn[e]
    BY <1>2
  <2> QED BY <1>0, <2>1, <2>2, <2>3 DEF Occurs
<1>4. ASSUME NEW u \in Queries(e)
      PROVE  u \in AllSelects(q)
  <2>1. u \in Selections
    BY <1>0, PartsOfCondition
  <2>2. u \in SelectsIn[u]
    BY <2>1, SelectsInParts
  <2>3. SelectsIn[u] \subseteq SelectsIn[e]
    BY <1>1
  <2> QED BY <1>0, <2>2, <2>3
<1> QED BY <1>0, <1>2, <1>3, <1>4

(* So do the conditions of a select, and the names it returns.             *)
LEMMA OccurringSelect ==
  ASSUME NEW q, IsQuery(q), NEW s \in AllSelects(q)
  PROVE  /\ s \in Selections
         /\ Occurs(q, s.where)
         /\ \A i \in DOMAIN s.tables : Occurs(q, s.tables[i].on)
         /\ \A k \in DOMAIN s.out : s.out[k] \in NamesIn(q)
<1>1. s \in Selections /\ SelectsIn[s] \subseteq AllSelects(q)
  BY SelectsTyped
<1>2. SelectsIn[s] = {s} \cup SelectsIn[s.where] \cup UNION {SelectsIn[s.tables[i].on] : i \in DOMAIN s.tables}
  BY <1>1, SelectsInParts
<1>3. Named(s) \subseteq NamesIn(q)
  BY DEF NamesIn
<1>4. Occurs(q, s.where)
  <2>1. s.where \in Conditions
    BY <1>1, PartsOfSelect
  <2>2. NamedIn[s.where] \subseteq Named(s)
    BY DEF Named
  <2> QED BY <1>1, <1>2, <1>3, <2>1, <2>2 DEF Occurs
<1>5. ASSUME NEW i \in DOMAIN s.tables
      PROVE  Occurs(q, s.tables[i].on)
  <2>1. s.tables[i].on \in Conditions
    BY <1>1, PartsOfSelect
  <2>2. NamedIn[s.tables[i].on] \subseteq Named(s)
    BY DEF Named
  <2>3. SelectsIn[s.tables[i].on] \subseteq SelectsIn[s]
    BY <1>2
  <2> QED BY <1>1, <1>3, <2>1, <2>2, <2>3 DEF Occurs
<1>6. ASSUME NEW k \in DOMAIN s.out
      PROVE  s.out[k] \in NamesIn(q)
  <2>1. s.out \in Seq(Reference)
    BY <1>1, PartsOfSelect
  <2>2. s.out[k] \in ToSet(s.out)
    BY <2>1, ToSetOf
  <2>3. ToSet(s.out) \subseteq Named(s)
    BY DEF Named
  <2> QED BY <1>3, <2>2, <2>3
<1> QED BY <1>1, <1>4, <1>5, <1>6

(* The tables of a query under their aliases are those of its selects.     *)
LEMMA EntriesOf ==
  ASSUME NEW q, IsQuery(q)
  PROVE  /\ \A x \in Entries(q) : /\ x.table \in Tables /\ x.alias \in Aliases /\ x.table \in TablesOf(q)
                                  /\ \E s \in AllSelects(q) : \E i \in DOMAIN s.tables : x = s.tables[i]
         /\ \A s \in AllSelects(q) : \A i \in DOMAIN s.tables : s.tables[i] \in Entries(q)
<1>1. \A s \in AllSelects(q) : s.tables \in Seq(Entry)
  BY SelectsTyped, PartsOfSelect
<1>2. ASSUME NEW x \in Entries(q)
      PROVE  /\ x.table \in Tables /\ x.alias \in Aliases /\ x.table \in TablesOf(q)
             /\ \E s \in AllSelects(q) : \E i \in DOMAIN s.tables : x = s.tables[i]
  <2>1. PICK s \in AllSelects(q) : x \in ToSet(s.tables)
    BY DEF Entries
  <2>2. s.tables \in Seq(Entry)
    BY <1>1
  <2>3. x \in Entry /\ \E i \in DOMAIN s.tables : x = s.tables[i]
    BY <2>1, <2>2, ToSetOf
  <2>4. x.table \in TablesOf(q)
    BY DEF TablesOf
  <2> QED BY <2>3, <2>4 DEF Entry
<1>3. ASSUME NEW s \in AllSelects(q), NEW i \in DOMAIN s.tables
      PROVE  s.tables[i] \in Entries(q)
  <2>1. s.tables \in Seq(Entry)
    BY <1>1
  <2>2. s.tables[i] \in ToSet(s.tables)
    BY <2>1, ToSetOf
  <2> QED BY <2>2 DEF Entries
<1> QED BY <1>2, <1>3

----------------------------------------------------------------------------
(* Environments over the whole tables and over what is left of them        *)

TableOf(q, a) == CHOOSE t : \E x \in Entries(q) : x.alias = a /\ x.table = t

ImgRow(j, t, r) == [row |-> Image(r.row, LeftCols(j)[t]), copy |-> 1]

Img(j, env) == [a \in Aliases |-> IF env[a] = NoRow THEN NoRow ELSE ImgRow(j, TableOf(j.query, a), env[a])]

(* The rows that are left *)
Good(j, contents, env) ==
  /\ env \in Environments(Full(contents))
  /\ \A a \in Aliases : \/ env[a] = NoRow
                        \/ \E x \in Entries(j.query) : x.alias = a /\ env[a] \in Once(Left(j, contents)[x.table])

(* An alias names one table.                                               *)
LEMMA TableOfEntry ==
  ASSUME NEW q, IsQuery(q), NEW x \in Entries(q)
  PROVE  TableOf(q, x.alias) = x.table
<1> DEFINE P(t) == \E y \in Entries(q) : y.alias = x.alias /\ y.table = t
<1>1. P(x.table)
  OBVIOUS
<1>2. \A t : P(t) => t = x.table
  BY DEF IsQuery
<1>3. TableOf(q, x.alias) = CHOOSE t : P(t)
  BY DEF TableOf
<1>4. P(CHOOSE t : P(t))
  BY <1>1
<1> HIDE DEF P
<1> QED BY <1>2, <1>3, <1>4

(* The rows of a table that has each once                                  *)
LEMMA OnceFacts ==
  ASSUME NEW S, NEW r \in Once(S)
  PROVE  r.row \in S /\ r.copy = 1 /\ r = [row |-> r.row, copy |-> 1] /\ r # NoRow
<1>1. PICK x \in S : r = [row |-> x, copy |-> 1]
  BY DEF Once
<1>2. NoRow.copy = 0
  BY DEF NoRow
<1> QED BY <1>1, <1>2

(* What is left of a row is a row of what was fetched, with its cells.     *)
LEMMA ImgRowFacts ==
  ASSUME NEW j, NEW contents, NEW t \in Tables, NEW r \in Once(Left(j, contents)[t])
  PROVE  /\ ImgRow(j, t, r) \in Fetched(j, contents)[t].rows /\ ImgRow(j, t, r) # NoRow
         /\ \A c \in LeftCols(j)[t] : ImgRow(j, t, r).row[c] = r.row[c]
<1>1. r.row \in Left(j, contents)[t]
  BY OnceFacts
<1>2. ImgRow(j, t, r) \in Once({Image(x, LeftCols(j)[t]) : x \in Left(j, contents)[t]})
  BY <1>1 DEF ImgRow, Once
<1>3. \A c \in LeftCols(j)[t] : Image(r.row, LeftCols(j)[t])[c] = r.row[c]
  BY DEF Image
<1>4. ImgRow(j, t, r).row = Image(r.row, LeftCols(j)[t])
  BY DEF ImgRow
<1> QED BY <1>2, <1>3, <1>4, WorldFacts, OnceFacts

(* An environment of rows that are left has one of the right table.        *)
LEMMA GoodAt ==
  ASSUME NEW j, NEW contents, Enough(j, contents), NEW env, Good(j, contents, env), NEW x \in Entries(j.query)
  PROVE  env[x.alias] = NoRow \/ env[x.alias] \in Once(Left(j, contents)[x.table])
<1>1. x.alias \in Aliases
  BY EntriesOf DEF Enough
<1>2. \A y \in Entries(j.query) : y.alias = x.alias => y.table = x.table
  BY DEF Enough, IsQuery
<1> QED BY <1>1, <1>2 DEF Good

(* Its image is an environment over what was fetched.                      *)
LEMMA ImgFacts ==
  ASSUME NEW j, NEW contents, Enough(j, contents), NEW env, Good(j, contents, env)
  PROVE  /\ Img(j, env) \in Environments(Fetched(j, contents))
         /\ \A a \in Aliases : Img(j, env)[a] = NoRow <=> env[a] = NoRow
         /\ \A x \in Entries(j.query) : env[x.alias] # NoRow => Img(j, env)[x.alias] = ImgRow(j, x.table, env[x.alias])
<1>0. IsQuery(j.query)
  BY DEF Enough
<1>1. ASSUME NEW a \in Aliases
      PROVE  /\ Img(j, env)[a] = NoRow <=> env[a] = NoRow
             /\ Img(j, env)[a] \in {NoRow} \cup UNION {Fetched(j, contents)[t].rows : t \in Tables}
  <2>1. CASE env[a] = NoRow
    BY <2>1 DEF Img
  <2>2. CASE env[a] # NoRow
    <3>1. PICK x \in Entries(j.query) : x.alias = a /\ env[a] \in Once(Left(j, contents)[x.table])
      BY <2>2 DEF Good
    <3>2. TableOf(j.query, a) = x.table /\ x.table \in Tables
      BY <1>0, <3>1, TableOfEntry, EntriesOf
    <3>3. Img(j, env)[a] = ImgRow(j, x.table, env[a])
      BY <2>2, <3>2 DEF Img
    <3>4. ImgRow(j, x.table, env[a]) \in Fetched(j, contents)[x.table].rows /\ ImgRow(j, x.table, env[a]) # NoRow
      BY <3>1, <3>2, ImgRowFacts
    <3> QED BY <2>2, <3>2, <3>3, <3>4
  <2> QED BY <2>1, <2>2
<1>2. Img(j, env) \in Environments(Fetched(j, contents))
  <2> DEFINE S == {NoRow} \cup UNION {Fetched(j, contents)[t].rows : t \in Tables}
  <2>1. \A a \in Aliases : Img(j, env)[a] \in S
    BY <1>1
  <2>2. Img(j, env) = [a \in Aliases |-> Img(j, env)[a]]
    BY DEF Img
  <2> HIDE DEF S
  <2>3. Img(j, env) \in [Aliases -> S]
    BY <2>1, <2>2
  <2> QED BY <2>3 DEF Environments, S
<1>3. ASSUME NEW x \in Entries(j.query), env[x.alias] # NoRow
      PROVE  Img(j, env)[x.alias] = ImgRow(j, x.table, env[x.alias])
  <2>1. TableOf(j.query, x.alias) = x.table /\ x.alias \in Aliases
    BY <1>0, TableOfEntry, EntriesOf
  <2> QED BY <1>3, <2>1 DEF Img
<1> QED BY <1>1, <1>2, <1>3

(* The columns that are left are those that are needed.                    *)
LEMMA LeftColsFacts ==
  ASSUME NEW j, NEW contents, Enough(j, contents), NEW x \in Entries(j.query)
  PROVE  /\ LeftCols(j)[x.table] = Needed(j.query, x.table)
         /\ \A ref \in NamesIn(j.query) : ref.alias = x.alias => ref.col \in LeftCols(j)[x.table]
         /\ \A s \in AllSelects(j.query) :
              s.star /\ (\E i \in DOMAIN s.tables : s.tables[i].table = x.table) => LeftCols(j)[x.table] = Columns[x.table]
         /\ KeyColumn[x.table] \in LeftCols(j)[x.table]
<1> DEFINE q == j.query
           t == x.table
<1>1. t \in TablesOf(q) /\ t \in Tables
  BY EntriesOf DEF Enough
<1>2. LeftCols(j)[t] = Needed(q, t)
  BY <1>1 DEF Enough
<1>3. \A s \in AllSelects(q) : s.star /\ (\E i \in DOMAIN s.tables : s.tables[i].table = t) => Needed(q, t) = Columns[t]
  BY DEF Needed
<1>4. ASSUME NEW ref \in NamesIn(q), ref.alias = x.alias
      PROVE  ref.col \in Needed(q, t)
  <2>1. ref.col \in Columns[t]
    BY <1>4 DEF Enough, IsQuery
  <2>2. Names(q, ref, t)
    BY <1>4 DEF Names
  <2>3. Needed(q, t) = Columns[t] \/ {y.col : y \in {z \in NamesIn(q) : Names(q, z, t)}} \subseteq Needed(q, t)
    BY DEF Needed
  <2> HIDE DEF t, q
  <2> QED BY <1>4, <2>1, <2>2, <2>3
<1>5. KeyColumn[t] \in Needed(q, t)
  <2>1. KeyColumn[t] \in Columns[t]
    BY <1>1, FetchPlanAssumption
  <2> QED BY <2>1 DEF Needed
<1> QED BY <1>2, <1>3, <1>4, <1>5

(* A column that is left has the same value in both.                       *)
LEMMA CellAt ==
  ASSUME NEW j, NEW contents, Enough(j, contents), NEW env, Good(j, contents, env),
         NEW x \in Entries(j.query), NEW c \in LeftCols(j)[x.table]
  PROVE  Cell(Img(j, env), [alias |-> x.alias, col |-> c]) = Cell(env, [alias |-> x.alias, col |-> c])
<1> DEFINE a == x.alias
<1>1. a \in Aliases /\ x.table \in Tables
  BY EntriesOf DEF Enough
<1>2. Img(j, env)[a] = NoRow <=> env[a] = NoRow
  BY <1>1, ImgFacts
<1>3. CASE env[a] = NoRow
  BY <1>2, <1>3 DEF Cell
<1>4. CASE env[a] # NoRow
  <2>1. Img(j, env)[a] = ImgRow(j, x.table, env[a])
    BY <1>4, ImgFacts
  <2>2. env[a] \in Once(Left(j, contents)[x.table])
    BY <1>4, GoodAt
  <2>3. ImgRow(j, x.table, env[a]).row[c] = env[a].row[c]
    BY <1>1, <2>2, ImgRowFacts
  <2> QED BY <1>2, <1>4, <2>1, <2>3 DEF Cell
<1> QED BY <1>3, <1>4

(* A name of the query has the same value in both. *)
LEMMA CellImg ==
  ASSUME NEW j, NEW contents, Enough(j, contents), NEW env, Good(j, contents, env),
         NEW ref \in NamesIn(j.query), ref \in Reference
  PROVE  Cell(Img(j, env), ref) = Cell(env, ref)
<1>1. ref = [alias |-> ref.alias, col |-> ref.col] /\ ref.alias \in Aliases
  BY ReferenceOf DEF Reference
<1>2. Img(j, env)[ref.alias] = NoRow <=> env[ref.alias] = NoRow
  BY <1>1, ImgFacts
<1>3. CASE env[ref.alias] = NoRow
  BY <1>2, <1>3 DEF Cell
<1>4. CASE env[ref.alias] # NoRow
  <2>1. PICK x \in Entries(j.query) : x.alias = ref.alias
    BY <1>1, <1>4 DEF Good
  <2>2. ref.col \in LeftCols(j)[x.table]
    BY <2>1, LeftColsFacts
  <2>3. Cell(Img(j, env), [alias |-> x.alias, col |-> ref.col]) = Cell(env, [alias |-> x.alias, col |-> ref.col])
    BY <2>2, CellAt
  <2> QED BY <1>1, <2>1, <2>3
<1> QED BY <1>3, <1>4

(* Giving an alias a row that is left, or none, goes over to the images,   *)
LEMMA GoodWith ==
  ASSUME NEW j, NEW contents, Enough(j, contents), NEW env, Good(j, contents, env),
         NEW x \in Entries(j.query), NEW r \in Once(Left(j, contents)[x.table])
  PROVE  /\ Good(j, contents, [env EXCEPT ![x.alias] = r])
         /\ Img(j, [env EXCEPT ![x.alias] = r]) = [Img(j, env) EXCEPT ![x.alias] = ImgRow(j, x.table, r)]
<1> DEFINE a == x.alias
           new == [env EXCEPT ![a] = r]
<1>0. IsQuery(j.query) /\ \A t \in Tables : Left(j, contents)[t] \subseteq contents[t]
  BY DEF Enough
<1>1. a \in Aliases /\ x.table \in Tables
  BY <1>0, EntriesOf
<1>2. env \in Environments(Full(contents))
  BY DEF Good
<1>3. r \in Full(contents)[x.table].rows
  <2>1. Left(j, contents)[x.table] \subseteq contents[x.table]
    BY <1>0, <1>1
  <2>2. Once(Left(j, contents)[x.table]) \subseteq Once(contents[x.table])
    BY <2>1 DEF Once
  <2>3. Full(contents)[x.table].rows = Once(contents[x.table])
    BY <1>1 DEF Full
  <2> QED BY <2>2, <2>3
<1>4. new \in Environments(Full(contents))
  BY <1>1, <1>2, <1>3, EnvironmentWith
<1>5. new[a] = r /\ (\A y \in Aliases : y # a => new[y] = env[y])
  BY <1>1, <1>2 DEF Environments
<1> HIDE DEF new
<1>6. Good(j, contents, new)
  <2> SUFFICES ASSUME NEW y \in Aliases
               PROVE  \/ new[y] = NoRow
                      \/ \E z \in Entries(j.query) : z.alias = y /\ new[y] \in Once(Left(j, contents)[z.table])
    BY <1>4 DEF Good
  <2>1. CASE y = a
    BY <2>1, <1>5
  <2>2. CASE y # a
    BY <2>2, <1>5 DEF Good
  <2> QED BY <2>1, <2>2
<1>7. TableOf(j.query, a) = x.table /\ r # NoRow
  BY <1>0, TableOfEntry, OnceFacts
<1>8. \A y \in Aliases : Img(j, new)[y] = [Img(j, env) EXCEPT ![a] = ImgRow(j, x.table, r)][y]
  <2> TAKE y \in Aliases
  <2>1. CASE y = a
    BY <2>1, <1>5, <1>7 DEF Img
  <2>2. CASE y # a
    BY <2>2, <1>5 DEF Img
  <2> QED BY <2>1, <2>2
<1>9. Img(j, new) = [Img(j, env) EXCEPT ![a] = ImgRow(j, x.table, r)]
  <2> DEFINE f == Img(j, new)
             g == [Img(j, env) EXCEPT ![a] = ImgRow(j, x.table, r)]
  <2>1. f = [y \in Aliases |-> f[y]] /\ g = [y \in Aliases |-> g[y]]
    BY DEF Img
  <2>2. \A y \in Aliases : f[y] = g[y]
    BY <1>8
  <2> HIDE DEF f, g
  <2>3. f = g
    BY <2>1, <2>2
  <2> QED BY <2>3 DEF f, g
<1> QED BY <1>6, <1>9 DEF new

(* as it does with none                                                    *)
LEMMA GoodWithout ==
  ASSUME NEW j, NEW contents, Enough(j, contents), NEW env, Good(j, contents, env), NEW a \in Aliases
  PROVE  /\ Good(j, contents, [env EXCEPT ![a] = NoRow])
         /\ Img(j, [env EXCEPT ![a] = NoRow]) = [Img(j, env) EXCEPT ![a] = NoRow]
<1> DEFINE new == [env EXCEPT ![a] = NoRow]
<1>2. env \in Environments(Full(contents))
  BY DEF Good
<1>4. new \in Environments(Full(contents))
  BY <1>2, EnvironmentWithout
<1>5. new[a] = NoRow /\ (\A y \in Aliases : y # a => new[y] = env[y])
  BY <1>2 DEF Environments
<1> HIDE DEF new
<1>6. Good(j, contents, new)
  <2> SUFFICES ASSUME NEW y \in Aliases
               PROVE  \/ new[y] = NoRow
                      \/ \E z \in Entries(j.query) : z.alias = y /\ new[y] \in Once(Left(j, contents)[z.table])
    BY <1>4 DEF Good
  <2>1. CASE y = a
    BY <2>1, <1>5
  <2>2. CASE y # a
    BY <2>2, <1>5 DEF Good
  <2> QED BY <2>1, <2>2
<1>8. \A y \in Aliases : Img(j, new)[y] = [Img(j, env) EXCEPT ![a] = NoRow][y]
  <2> TAKE y \in Aliases
  <2>1. CASE y = a
    BY <2>1, <1>5 DEF Img
  <2>2. CASE y # a
    BY <2>2, <1>5 DEF Img
  <2> QED BY <2>1, <2>2
<1>9. Img(j, new) = [Img(j, env) EXCEPT ![a] = NoRow]
  <2> DEFINE f == Img(j, new)
             g == [Img(j, env) EXCEPT ![a] = NoRow]
  <2>1. f = [y \in Aliases |-> f[y]] /\ g = [y \in Aliases |-> g[y]]
    BY DEF Img
  <2>2. \A y \in Aliases : f[y] = g[y]
    BY <1>8
  <2> HIDE DEF f, g
  <2>3. f = g
    BY <2>1, <2>2
  <2> QED BY <2>3 DEF f, g
<1> QED BY <1>6, <1>9 DEF new

(* and with none for all the tables before.                                *)
LEMMA GoodNone ==
  ASSUME NEW j, NEW contents, Enough(j, contents), NEW outer, Good(j, contents, outer), NEW s, NEW n
  PROVE  /\ Good(j, contents, NoneOf(s, n, outer))
         /\ Img(j, NoneOf(s, n, outer)) = NoneOf(s, n, Img(j, outer))
<1> DEFINE none == NoneOf(s, n, outer)
           before == {s.tables[i].alias : i \in 1 .. n - 1}
<1>1. outer \in Environments(Full(contents))
  BY DEF Good
<1>2. none \in Environments(Full(contents))
  BY <1>1, NoneOfTyped
<1>3. none = [y \in Aliases |-> IF y \in before THEN NoRow ELSE outer[y]]
      /\ NoneOf(s, n, Img(j, outer)) = [y \in Aliases |-> IF y \in before THEN NoRow ELSE Img(j, outer)[y]]
  BY DEF NoneOf
<1> HIDE DEF none, before
<1>4. Good(j, contents, none)
  <2> SUFFICES ASSUME NEW y \in Aliases
               PROVE  \/ none[y] = NoRow
                      \/ \E z \in Entries(j.query) : z.alias = y /\ none[y] \in Once(Left(j, contents)[z.table])
    BY <1>2 DEF Good
  <2>1. none[y] = NoRow \/ none[y] = outer[y]
    BY <1>3
  <2> QED BY <2>1 DEF Good
<1>5. Img(j, none) = NoneOf(s, n, Img(j, outer))
  <2> DEFINE f == Img(j, none)
             g == NoneOf(s, n, Img(j, outer))
  <2>1. f = [y \in Aliases |-> f[y]] /\ g = [y \in Aliases |-> g[y]]
    BY DEF Img, NoneOf
  <2>2. \A y \in Aliases : f[y] = g[y]
    <3> TAKE y \in Aliases
    <3>1. CASE y \in before
      BY <1>3, <3>1 DEF Img
    <3>2. CASE y \notin before
      BY <1>3, <3>2 DEF Img
    <3> QED BY <3>1, <3>2
  <2> HIDE DEF f, g
  <2>3. f = g
    BY <2>1, <2>2
  <2> QED BY <2>3 DEF f, g
<1> QED BY <1>4, <1>5 DEF none

----------------------------------------------------------------------------
(* Joins over the whole tables and over what is left of them               *)

(* A condition has the same truth over the whole tables and over what is   *)
(* left of them, where only rows that are left are looked at.              *)
Agrees(j, contents, e) ==
  \A env : Good(j, contents, env) =>
    Meaning(Full(contents))[<<e, env>>] = Meaning(Fetched(j, contents))[<<e, Img(j, env)>>]

(* The tables with predicates have a row that is left, or one at all. *)
PassW(j, contents, s, n, env) ==
  \A i \in 1 .. n : Agreed(j.query, s.tables[i].table) # <<>> => env[s.tables[i].alias] \in Once(Left(j, contents)[s.tables[i].table])
PassF(j, s, n, env) ==
  \A i \in 1 .. n : Agreed(j.query, s.tables[i].table) # <<>> => env[s.tables[i].alias] # NoRow

Forth(j, contents, s, n, outer) ==
  \A env \in Meaning(Full(contents))[<<Join(s, n), outer>>] :
    PassW(j, contents, s, n, env) => Img(j, env) \in Meaning(Fetched(j, contents))[<<Join(s, n), Img(j, outer)>>]
Back(j, contents, s, n, outer) ==
  \A y \in Meaning(Fetched(j, contents))[<<Join(s, n), Img(j, outer)>>] :
    PassF(j, s, n, y) =>
      \E env \in Meaning(Full(contents))[<<Join(s, n), outer>>] : PassW(j, contents, s, n, env) /\ y = Img(j, env)

(* The rows that are left of a table, and all if it has no predicates      *)
LEMMA LeftRows ==
  ASSUME NEW j, NEW contents, Enough(j, contents), NEW x \in Entries(j.query)
  PROVE  /\ Once(Left(j, contents)[x.table]) \subseteq Full(contents)[x.table].rows
         /\ Agreed(j.query, x.table) = <<>> => Once(Left(j, contents)[x.table]) = Full(contents)[x.table].rows
         /\ \A y \in Fetched(j, contents)[x.table].rows : \E r \in Once(Left(j, contents)[x.table]) : y = ImgRow(j, x.table, r)
         /\ \A r \in Once(Left(j, contents)[x.table]) : ImgRow(j, x.table, r) \in Fetched(j, contents)[x.table].rows
<1> DEFINE t == x.table
           K == Left(j, contents)[t]
           C == contents[t]
<1>1. t \in Tables /\ t \in TablesOf(j.query)
  BY EntriesOf DEF Enough
<1>2. K \subseteq C /\ \A r \in C : JdbcReads(Agreed(j.query, t), r) => r \in K
  BY <1>1 DEF Enough
<1>3. /\ Full(contents)[t].rows = Once(C)
      /\ Fetched(j, contents)[t].rows = Once({Image(r, LeftCols(j)[t]) : r \in K})
  BY <1>1 DEF Full, Fetched, LeftCols, Left
<1>4. Agreed(j.query, t) = <<>> => K = C
  <2>1. \A r : JdbcReads(<<>>, r)
    BY DEF JdbcReads
  <2> HIDE DEF K, C
  <2> QED BY <1>2, <2>1
<1>5. Once(K) \subseteq Once(C)
  <2> HIDE DEF K, C
  <2> QED BY <1>2 DEF Once
<1>6. ASSUME NEW y \in Fetched(j, contents)[t].rows
      PROVE  \E r \in Once(K) : y = ImgRow(j, t, r)
  <2>1. PICK r \in K : y = [row |-> Image(r, LeftCols(j)[t]), copy |-> 1]
    BY <1>3 DEF Once
  <2> DEFINE z == [row |-> r, copy |-> 1]
  <2>2. z \in Once(K) /\ z.row = r
    BY DEF Once
  <2>3. y = ImgRow(j, t, z)
    BY <2>1, <2>2 DEF ImgRow
  <2> QED BY <2>2, <2>3
<1>7. \A r \in Once(K) : ImgRow(j, t, r) \in Fetched(j, contents)[t].rows
  BY <1>1, ImgRowFacts
<1> HIDE DEF K, C
<1> QED BY <1>3, <1>4, <1>5, <1>6, <1>7 DEF K, C

(* A row that is left matches in one just if its image does in the other.  *)
LEMMA MatchesImg ==
  ASSUME NEW j, NEW contents, Enough(j, contents), NEW s \in AllSelects(j.query), NEW n \in DOMAIN s.tables,
         Agrees(j, contents, s.tables[n].on),
         NEW env, Good(j, contents, env), NEW r \in Once(Left(j, contents)[s.tables[n].table])
  PROVE  Matches(Meaning(Full(contents)), s, n, env, r, Full(contents))
           <=> Matches(Meaning(Fetched(j, contents)), s, n, Img(j, env), ImgRow(j, s.tables[n].table, r), Fetched(j, contents))
<1> DEFINE x == s.tables[n]
           MW == Meaning(Full(contents))
           MF == Meaning(Fetched(j, contents))
           y == ImgRow(j, x.table, r)
<1>0. IsQuery(j.query)
  BY DEF Enough
<1>1. x \in Entries(j.query) /\ s \in Selections
  BY <1>0, EntriesOf, SelectsTyped
<1>2. CASE x.side = "NATURAL"
  <2>1. s.star
    BY <1>2 DEF Enough
  <2>2. ASSUME NEW i \in 1 .. n - 1
        PROVE  /\ s.tables[i] \in Entries(j.query)
               /\ LeftCols(j)[s.tables[i].table] = Columns[s.tables[i].table]
               /\ s.tables[i].table \in Tables
    <3>1. i \in DOMAIN s.tables
      BY <1>1, EntryFacts, PartsOfSelect
    <3>2. s.tables[i] \in Entries(j.query)
      BY <1>0, <3>1, EntriesOf
    <3> QED BY <1>0, <2>1, <3>1, <3>2, LeftColsFacts, EntriesOf
  <2>3. LeftCols(j)[x.table] = Columns[x.table] /\ x.table \in Tables
    BY <1>0, <1>1, <2>1, LeftColsFacts, EntriesOf
  <2> DEFINE C(i) == Columns[s.tables[i].table] \cap Columns[x.table]
  <2>4. \A i \in 1 .. n - 1 :
          /\ Full(contents)[s.tables[i].table].columns \cap Full(contents)[x.table].columns = C(i)
          /\ Fetched(j, contents)[s.tables[i].table].columns \cap Fetched(j, contents)[x.table].columns = C(i)
    <3>1. \A t \in Tables : Full(contents)[t].columns = Columns[t] /\ Fetched(j, contents)[t].columns = LeftCols(j)[t]
      BY DEF Full, Fetched, LeftCols
    <3> QED BY <2>2, <2>3, <3>1
  <2>5. Matches(MW, s, n, env, r, Full(contents)) <=>
          \A i \in 1 .. n - 1 : \A c \in C(i) :
            Cell(env, [alias |-> s.tables[i].alias, col |-> c]) # Null /\ Cell(env, [alias |-> s.tables[i].alias, col |-> c]) = r.row[c]
    BY <1>2, <2>4 DEF Matches
  <2>6. Matches(MF, s, n, Img(j, env), y, Fetched(j, contents)) <=>
          \A i \in 1 .. n - 1 : \A c \in C(i) :
            /\ Cell(Img(j, env), [alias |-> s.tables[i].alias, col |-> c]) # Null
            /\ Cell(Img(j, env), [alias |-> s.tables[i].alias, col |-> c]) = y.row[c]
    <3> HIDE DEF y
    <3> QED BY <1>2, <2>4 DEF Matches
  <2>7. ASSUME NEW i \in 1 .. n - 1, NEW c \in C(i)
        PROVE  /\ Cell(Img(j, env), [alias |-> s.tables[i].alias, col |-> c]) = Cell(env, [alias |-> s.tables[i].alias, col |-> c])
               /\ y.row[c] = r.row[c]
    <3>1. c \in LeftCols(j)[s.tables[i].table] /\ c \in LeftCols(j)[x.table]
      BY <2>2, <2>3, <2>7
    <3>2. Cell(Img(j, env), [alias |-> s.tables[i].alias, col |-> c]) = Cell(env, [alias |-> s.tables[i].alias, col |-> c])
      BY <2>2, <3>1, CellAt
    <3>3. y.row[c] = r.row[c]
      BY <2>3, <3>1, ImgRowFacts
    <3> QED BY <3>2, <3>3
  <2> HIDE DEF y, C
  <2> QED BY <2>5, <2>6, <2>7 DEF y
<1>3. CASE x.side # "NATURAL"
  <2>1. /\ Good(j, contents, [env EXCEPT ![x.alias] = r])
        /\ Img(j, [env EXCEPT ![x.alias] = r]) = [Img(j, env) EXCEPT ![x.alias] = y]
    BY <1>1, GoodWith
  <2>2. MW[<<x.on, [env EXCEPT ![x.alias] = r]>>] = MF[<<x.on, [Img(j, env) EXCEPT ![x.alias] = y]>>]
    BY <2>1 DEF Agrees
  <2>3. Matches(MW, s, n, env, r, Full(contents)) <=> MW[<<x.on, [env EXCEPT ![x.alias] = r]>>] = 1
    BY <1>3 DEF Matches
  <2>4. Matches(MF, s, n, Img(j, env), y, Fetched(j, contents)) <=> MF[<<x.on, [Img(j, env) EXCEPT ![x.alias] = y]>>] = 1
    BY <1>3 DEF Matches
  <2> HIDE DEF y, x, MW, MF
  <2> QED BY <2>2, <2>3, <2>4 DEF y, x, MW, MF
<1> QED BY <1>2, <1>3

(* An environment of rows that are left, where predicates were given *)
LEMMA PassGood ==
  ASSUME NEW j, NEW contents, Enough(j, contents), NEW s \in AllSelects(j.query), NEW n \in 0 .. Len(s.tables),
         NEW outer, Good(j, contents, outer),
         NEW env \in Meaning(Full(contents))[<<Join(s, n), outer>>], PassW(j, contents, s, n, env)
  PROVE  Good(j, contents, env) /\ PassF(j, s, n, Img(j, env))
<1>0. IsQuery(j.query) /\ outer \in Environments(Full(contents))
  BY DEF Enough, Good
<1>1. s \in Selections /\ DOMAIN s.tables = 1 .. Len(s.tables) /\ Len(s.tables) \in Nat /\ n \in Nat
  <2>1. s \in Selections
    BY <1>0, SelectsTyped
  <2> QED BY <2>1, PartsOfSelect
<1>2. Shaped(s, n, outer, Full(contents), env) /\ env \in Environments(Full(contents))
  <2>1. Meaning(Full(contents))[<<Join(s, n), outer>>] \subseteq Environments(Full(contents))
    BY <1>0, <1>1, MeaningFacts
  <2>2. \A e \in Meaning(Full(contents))[<<Join(s, n), outer>>] : Shaped(s, n, outer, Full(contents), e)
    BY <1>0, <1>1, AllShaped
  <2> QED BY <2>1, <2>2
<1>3. ASSUME NEW i \in 1 .. n
      PROVE  /\ s.tables[i] \in Entries(j.query) /\ s.tables[i].alias \in Aliases
             /\ \/ env[s.tables[i].alias] = NoRow
                \/ env[s.tables[i].alias] \in Once(Left(j, contents)[s.tables[i].table])
  <2>1. i \in DOMAIN s.tables
    BY <1>1
  <2>2. s.tables[i] \in Entries(j.query) /\ s.tables[i].alias \in Aliases
    BY <1>0, <2>1, EntriesOf
  <2>3. CASE Agreed(j.query, s.tables[i].table) # <<>>
    BY <2>2, <2>3 DEF PassW
  <2>4. CASE Agreed(j.query, s.tables[i].table) = <<>>
    <3>1. Once(Left(j, contents)[s.tables[i].table]) = Full(contents)[s.tables[i].table].rows
      BY <2>2, <2>4, LeftRows
    <3> QED BY <1>2, <2>2, <3>1 DEF Shaped
  <2> QED BY <2>3, <2>4
<1>4. Good(j, contents, env)
  <2> SUFFICES ASSUME NEW y \in Aliases
               PROVE  \/ env[y] = NoRow
                      \/ \E z \in Entries(j.query) : z.alias = y /\ env[y] \in Once(Left(j, contents)[z.table])
    BY <1>2 DEF Good
  <2>1. CASE \E i \in 1 .. n : y = s.tables[i].alias
    BY <2>1, <1>3
  <2>2. CASE \A i \in 1 .. n : y # s.tables[i].alias
    <3>1. env[y] = outer[y]
      BY <1>2, <2>2 DEF Shaped
    <3> QED BY <3>1 DEF Good
  <2> QED BY <2>1, <2>2
<1>5. PassF(j, s, n, Img(j, env))
  <2> SUFFICES ASSUME NEW i \in 1 .. n, Agreed(j.query, s.tables[i].table) # <<>>
               PROVE  Img(j, env)[s.tables[i].alias] # NoRow
    BY DEF PassF
  <2>1. env[s.tables[i].alias] \in Once(Left(j, contents)[s.tables[i].table])
    BY DEF PassW
  <2>2. env[s.tables[i].alias] # NoRow
    BY <2>1, OnceFacts
  <2> QED BY <1>3, <1>4, <2>2, ImgFacts
<1> QED BY <1>4, <1>5

(* A table more: its row must pass as well.                                *)
LEMMA PassStep ==
  ASSUME NEW j, NEW contents, NEW s \in Selections, NEW n \in DOMAIN s.tables, NEW tables, NEW env \in Environments(tables), NEW v
  PROVE  /\ PassW(j, contents, s, n, [env EXCEPT ![s.tables[n].alias] = v]) <=>
              /\ PassW(j, contents, s, n - 1, env)
              /\ Agreed(j.query, s.tables[n].table) # <<>> => v \in Once(Left(j, contents)[s.tables[n].table])
         /\ PassF(j, s, n, [env EXCEPT ![s.tables[n].alias] = v]) <=>
              /\ PassF(j, s, n - 1, env)
              /\ Agreed(j.query, s.tables[n].table) # <<>> => v # NoRow
<1> DEFINE a == s.tables[n].alias
           new == [env EXCEPT ![a] = v]
<1>1. n \in Nat /\ n >= 1 /\ n <= Len(s.tables) /\ a \in Aliases /\ DOMAIN s.tables = 1 .. Len(s.tables) /\ Len(s.tables) \in Nat
  BY EntryFacts, PartsOfSelect
<1>2. new[a] = v /\ \A y \in Aliases : y # a => new[y] = env[y]
  BY <1>1 DEF Environments
<1>3. \A i \in 1 .. n - 1 : new[s.tables[i].alias] = env[s.tables[i].alias] /\ i \in 1 .. n
  <2> TAKE i \in 1 .. n - 1
  <2>1. i \in DOMAIN s.tables /\ i # n /\ i \in 1 .. n
    BY <1>1
  <2>2. s.tables[i].alias # a /\ s.tables[i].alias \in Aliases
    BY <2>1, PartsOfSelect, EntryFacts
  <2> QED BY <2>1, <2>2, <1>2
<1>4. \A i \in 1 .. n : i = n \/ i \in 1 .. n - 1
  BY <1>1
<1>5. n \in 1 .. n
  BY <1>1
<1> HIDE DEF new
<1>6. new[s.tables[n].alias] = v
  BY <1>2
<1>7. PassW(j, contents, s, n, new) <=>
        /\ PassW(j, contents, s, n - 1, env)
        /\ Agreed(j.query, s.tables[n].table) # <<>> => v \in Once(Left(j, contents)[s.tables[n].table])
  <2> HIDE DEF a
  <2> QED BY <1>3, <1>4, <1>5, <1>6 DEF PassW
<1>8. PassF(j, s, n, new) <=>
        /\ PassF(j, s, n - 1, env)
        /\ Agreed(j.query, s.tables[n].table) # <<>> => v # NoRow
  <2> HIDE DEF a
  <2> QED BY <1>3, <1>4, <1>5, <1>6 DEF PassF
<1> QED BY <1>7, <1>8 DEF new

(* A row of the right side alone passes only where no table before has     *)
(* predicates.                                                             *)
LEMMA NonePass ==
  ASSUME NEW j, NEW contents, NEW s \in Selections, NEW n \in DOMAIN s.tables, NEW outer,
         PassW(j, contents, s, n - 1, NoneOf(s, n, outer)) \/ PassF(j, s, n - 1, NoneOf(s, n, outer)), NEW env
  PROVE  PassW(j, contents, s, n - 1, env) /\ PassF(j, s, n - 1, env)
<1>1. n \in Nat /\ n <= Len(s.tables) /\ DOMAIN s.tables = 1 .. Len(s.tables) /\ Len(s.tables) \in Nat
  BY EntryFacts, PartsOfSelect
<1>2. ASSUME NEW i \in 1 .. n - 1
      PROVE  Agreed(j.query, s.tables[i].table) = <<>>
  <2>1. s.tables[i].alias \in Aliases
    BY <1>1, EntryFacts
  <2>2. NoneOf(s, n, outer)[s.tables[i].alias] = NoRow
    BY <2>1 DEF NoneOf
  <2>3. \A S : NoRow \notin Once(S)
    BY OnceFacts
  <2> DEFINE none == NoneOf(s, n, outer)
  <2> HIDE DEF none
  <2>4. PassW(j, contents, s, n - 1, none) \/ PassF(j, s, n - 1, none)
    BY DEF none
  <2>5. none[s.tables[i].alias] = NoRow
    BY <2>2 DEF none
  <2> QED BY <2>3, <2>4, <2>5 DEF PassW, PassF
<1> QED BY <1>2 DEF PassW, PassF

Inner(j, contents, s, n, outer) ==
  /\ Enough(j, contents) /\ Good(j, contents, outer) /\ IsQuery(j.query)
  /\ s \in AllSelects(j.query) /\ s \in Selections /\ n \in DOMAIN s.tables
  /\ Agrees(j, contents, s.tables[n].on)
  /\ Forth(j, contents, s, n - 1, outer) /\ Back(j, contents, s, n - 1, outer)

(* The types of what is joined                                             *)
LEMMA InnerFacts ==
  ASSUME NEW j, NEW contents, NEW s, NEW n, NEW outer, Inner(j, contents, s, n, outer)
  PROVE  /\ outer \in Environments(Full(contents)) /\ Img(j, outer) \in Environments(Fetched(j, contents))
         /\ n \in Nat /\ n - 1 \in Nat /\ n - 1 \in 0 .. Len(s.tables) /\ s.tables[n] \in Entries(j.query)
         /\ s.tables[n].alias \in Aliases /\ s.tables[n].table \in Tables
         /\ Meaning(Full(contents))[<<Join(s, n - 1), outer>>] \subseteq Environments(Full(contents))
         /\ Meaning(Fetched(j, contents))[<<Join(s, n - 1), Img(j, outer)>>] \subseteq Environments(Fetched(j, contents))
<1>0. /\ Enough(j, contents) /\ Good(j, contents, outer) /\ IsQuery(j.query)
      /\ s \in AllSelects(j.query) /\ s \in Selections /\ n \in DOMAIN s.tables
  BY DEF Inner
<1>1. outer \in Environments(Full(contents)) /\ Img(j, outer) \in Environments(Fetched(j, contents))
  BY <1>0, ImgFacts DEF Good
<1>2. n \in Nat /\ n - 1 \in Nat /\ n - 1 \in 0 .. Len(s.tables)
  BY <1>0, EntryFacts
<1>3. s.tables[n] \in Entries(j.query) /\ s.tables[n].alias \in Aliases /\ s.tables[n].table \in Tables
  BY <1>0, EntriesOf
<1>4. Meaning(Full(contents))[<<Join(s, n - 1), outer>>] \subseteq Environments(Full(contents))
  BY <1>0, <1>1, <1>2, MeaningFacts
<1>5. Meaning(Fetched(j, contents))[<<Join(s, n - 1), Img(j, outer)>>] \subseteq Environments(Fetched(j, contents))
  BY <1>0, <1>1, <1>2, MeaningFacts
<1> QED BY <1>1, <1>2, <1>3, <1>4, <1>5

(* Over the whole tables and over what is left: which of the rows match    *)
LEMMA InnerMatches ==
  ASSUME NEW j, NEW contents, NEW s, NEW n, NEW outer, Inner(j, contents, s, n, outer),
         NEW env \in Meaning(Full(contents))[<<Join(s, n - 1), outer>>], PassW(j, contents, s, n - 1, env),
         NEW r \in Once(Left(j, contents)[s.tables[n].table])
  PROVE  /\ Good(j, contents, env)
         /\ Matches(Meaning(Full(contents)), s, n, env, r, Full(contents)) <=>
              Matches(Meaning(Fetched(j, contents)), s, n, Img(j, env), ImgRow(j, s.tables[n].table, r), Fetched(j, contents))
<1>0. /\ Enough(j, contents) /\ Good(j, contents, outer) /\ s \in AllSelects(j.query) /\ n \in DOMAIN s.tables
      /\ Agrees(j, contents, s.tables[n].on)
  BY DEF Inner
<1>1. n - 1 \in 0 .. Len(s.tables)
  BY InnerFacts
<1>2. Good(j, contents, env)
  BY <1>0, <1>1, PassGood
<1> QED BY <1>0, <1>2, MatchesImg

(* A table more: what passes over the whole is joined over what is left,   *)
LEMMA ForthStep ==
  ASSUME NEW j, NEW contents, NEW s, NEW n, NEW outer, Inner(j, contents, s, n, outer)
  PROVE  Forth(j, contents, s, n, outer)
<1> DEFINE t == s.tables[n].table
           a == s.tables[n].alias
           W == Full(contents)
           F == Fetched(j, contents)
           MW == Meaning(W)
           MF == Meaning(F)
           left == MW[<<Join(s, n - 1), outer>>]
           leftF == MF[<<Join(s, n - 1), Img(j, outer)>>]
           K == Once(Left(j, contents)[t])
<1>0. /\ Enough(j, contents) /\ Good(j, contents, outer) /\ s \in AllSelects(j.query) /\ s \in Selections /\ n \in DOMAIN s.tables
      /\ Forth(j, contents, s, n - 1, outer) /\ Back(j, contents, s, n - 1, outer)
  BY DEF Inner
<1>1. /\ outer \in Environments(W) /\ Img(j, outer) \in Environments(F) /\ n \in Nat /\ a \in Aliases
      /\ s.tables[n] \in Entries(j.query) /\ left \subseteq Environments(W) /\ leftF \subseteq Environments(F)
  BY InnerFacts
<1>2. /\ K \subseteq W[t].rows /\ (Agreed(j.query, t) = <<>> => K = W[t].rows)
      /\ \A y \in F[t].rows : \E r \in K : y = ImgRow(j, t, r)
      /\ \A r \in K : ImgRow(j, t, r) \in F[t].rows
  <2> DEFINE e == s.tables[n]
  <2>1. e \in Entries(j.query)
    BY <1>1
  <2> HIDE DEF e
  <2>2. /\ Once(Left(j, contents)[e.table]) \subseteq Full(contents)[e.table].rows
        /\ Agreed(j.query, e.table) = <<>> => Once(Left(j, contents)[e.table]) = Full(contents)[e.table].rows
        /\ \A y \in Fetched(j, contents)[e.table].rows : \E r \in Once(Left(j, contents)[e.table]) : y = ImgRow(j, e.table, r)
        /\ \A r \in Once(Left(j, contents)[e.table]) : ImgRow(j, e.table, r) \in Fetched(j, contents)[e.table].rows
    BY <1>0, <2>1, LeftRows
  <2> QED BY <2>2 DEF e
<1> SUFFICES ASSUME NEW x \in MW[<<Join(s, n), outer>>], PassW(j, contents, s, n, x)
             PROVE  Img(j, x) \in MF[<<Join(s, n), Img(j, outer)>>]
  BY DEF Forth
<1>3. Both(MW, s, n, left, W, x) \/ Lone(MW, s, n, left, W, x) \/ Spare(MW, s, n, left, outer, W, x)
  <2>1. x \in Joined(MW, s, n, outer, W)
    BY <1>0, <1>1, MeaningFacts
  <2> QED BY <1>0, <2>1, JoinedIff
<1> SUFFICES \/ Both(MF, s, n, leftF, F, Img(j, x)) \/ Lone(MF, s, n, leftF, F, Img(j, x))
             \/ Spare(MF, s, n, leftF, Img(j, outer), F, Img(j, x))
  <2>1. Img(j, x) \in Joined(MF, s, n, Img(j, outer), F)
    BY <1>0, JoinedIff
  <2> QED BY <1>0, <1>1, <2>1, MeaningFacts
<1>4. ASSUME NEW env \in left, PassW(j, contents, s, n - 1, env)
      PROVE  /\ Good(j, contents, env) /\ Img(j, env) \in leftF
             /\ \A r \in K : Matches(MW, s, n, env, r, W) <=> Matches(MF, s, n, Img(j, env), ImgRow(j, t, r), F)
  <2>1. Img(j, env) \in leftF
    BY <1>0, <1>4 DEF Forth
  <2>2. \A r \in K : Matches(MW, s, n, env, r, W) <=> Matches(MF, s, n, Img(j, env), ImgRow(j, t, r), F)
    BY <1>4, InnerMatches
  <2>3. n - 1 \in 0 .. Len(s.tables)
    BY InnerFacts
  <2>4. Good(j, contents, env)
    BY <1>0, <1>4, <2>3, PassGood
  <2> QED BY <2>1, <2>2, <2>4
<1> HIDE DEF W, F, MW, MF, left, leftF, K
<1>5. ASSUME NEW env \in left, NEW r \in W[t].rows, Matches(MW, s, n, env, r, W), x = [env EXCEPT ![a] = r]
      PROVE  Both(MF, s, n, leftF, F, Img(j, x))
  <2>1. PassW(j, contents, s, n - 1, env) /\ (Agreed(j.query, t) # <<>> => r \in K)
    BY <1>0, <1>1, <1>5, PassStep DEF K
  <2>2. r \in K
    BY <1>2, <1>5, <2>1
  <2>3. Good(j, contents, env) /\ Img(j, env) \in leftF /\ Matches(MF, s, n, Img(j, env), ImgRow(j, t, r), F)
    BY <1>4, <1>5, <2>1, <2>2
  <2>4. Img(j, x) = [Img(j, env) EXCEPT ![a] = ImgRow(j, t, r)]
    <3> DEFINE e == s.tables[n]
    <3>1. e \in Entries(j.query) /\ r \in Once(Left(j, contents)[e.table])
      BY <1>1, <2>2 DEF K
    <3> HIDE DEF e
    <3>2. Img(j, [env EXCEPT ![e.alias] = r]) = [Img(j, env) EXCEPT ![e.alias] = ImgRow(j, e.table, r)]
      BY <1>0, <2>3, <3>1, GoodWith
    <3> QED BY <1>5, <3>2 DEF e
  <2>5. ImgRow(j, t, r) \in F[t].rows
    BY <1>2, <2>2
  <2> QED BY <2>3, <2>4, <2>5 DEF Both
<1>6. ASSUME s.tables[n].side = "LEFT", NEW env \in left, \A r \in W[t].rows : ~ Matches(MW, s, n, env, r, W),
             x = [env EXCEPT ![a] = NoRow]
      PROVE  Lone(MF, s, n, leftF, F, Img(j, x))
  <2>1. PassW(j, contents, s, n - 1, env)
    BY <1>0, <1>1, <1>6, PassStep
  <2>2. Good(j, contents, env) /\ Img(j, env) \in leftF
        /\ \A r \in K : Matches(MW, s, n, env, r, W) <=> Matches(MF, s, n, Img(j, env), ImgRow(j, t, r), F)
    BY <1>4, <1>6, <2>1
  <2>3. ASSUME NEW y \in F[t].rows
        PROVE  ~ Matches(MF, s, n, Img(j, env), y, F)
    <3>1. PICK r \in K : y = ImgRow(j, t, r)
      BY <1>2
    <3> QED BY <1>2, <1>6, <2>2, <3>1
  <2>4. Img(j, x) = [Img(j, env) EXCEPT ![a] = NoRow]
    BY <1>0, <1>1, <1>6, <2>2, GoodWithout
  <2> QED BY <1>6, <2>2, <2>3, <2>4 DEF Lone
<1>7. ASSUME s.tables[n].side = "RIGHT", NEW r \in W[t].rows, \A env \in left : ~ Matches(MW, s, n, env, r, W),
             x = [NoneOf(s, n, outer) EXCEPT ![a] = r]
      PROVE  Spare(MF, s, n, leftF, Img(j, outer), F, Img(j, x))
  <2>0. NoneOf(s, n, outer) \in Environments(W)
    BY <1>1, NoneOfTyped
  <2>1. PassW(j, contents, s, n - 1, NoneOf(s, n, outer)) /\ (Agreed(j.query, t) # <<>> => r \in K)
    BY <1>0, <1>7, <2>0, PassStep DEF K
  <2>2. r \in K
    BY <1>2, <1>7, <2>1
  <2>3. ASSUME NEW y \in leftF
        PROVE  ~ Matches(MF, s, n, y, ImgRow(j, t, r), F)
    <3>1. PassF(j, s, n - 1, y)
      BY <1>0, <2>1, NonePass
    <3>2. PICK env \in left : PassW(j, contents, s, n - 1, env) /\ y = Img(j, env)
      BY <1>0, <3>1 DEF Back, left, leftF, MW, MF, W, F
    <3>3. Matches(MW, s, n, env, r, W) <=> Matches(MF, s, n, Img(j, env), ImgRow(j, t, r), F)
      BY <1>4, <2>2, <3>2
    <3> QED BY <1>7, <3>2, <3>3
  <2>4. Good(j, contents, NoneOf(s, n, outer)) /\ Img(j, NoneOf(s, n, outer)) = NoneOf(s, n, Img(j, outer))
    BY <1>0, GoodNone
  <2>5. Img(j, x) = [NoneOf(s, n, Img(j, outer)) EXCEPT ![a] = ImgRow(j, t, r)]
    <3> DEFINE e == s.tables[n]
               none == NoneOf(s, n, outer)
    <3>1. e \in Entries(j.query) /\ r \in Once(Left(j, contents)[e.table])
      BY <1>1, <2>2 DEF K
    <3> HIDE DEF e, none
    <3>2. Good(j, contents, none)
      BY <2>4 DEF none
    <3>3. Img(j, [none EXCEPT ![e.alias] = r]) = [Img(j, none) EXCEPT ![e.alias] = ImgRow(j, e.table, r)]
      BY <1>0, <3>1, <3>2, GoodWith
    <3> QED BY <1>7, <2>4, <3>3 DEF e, none
  <2>6. ImgRow(j, t, r) \in F[t].rows
    BY <1>2, <2>2
  <2> QED BY <1>7, <2>3, <2>5, <2>6 DEF Spare
<1> QED BY <1>3, <1>5, <1>6, <1>7 DEF Both, Lone, Spare

(* and what passes over what is left comes from the whole.                 *)
LEMMA BackStep ==
  ASSUME NEW j, NEW contents, NEW s, NEW n, NEW outer, Inner(j, contents, s, n, outer)
  PROVE  Back(j, contents, s, n, outer)
<1> DEFINE t == s.tables[n].table
           a == s.tables[n].alias
           W == Full(contents)
           F == Fetched(j, contents)
           MW == Meaning(W)
           MF == Meaning(F)
           left == MW[<<Join(s, n - 1), outer>>]
           leftF == MF[<<Join(s, n - 1), Img(j, outer)>>]
           K == Once(Left(j, contents)[t])
<1>0. /\ Enough(j, contents) /\ Good(j, contents, outer) /\ s \in AllSelects(j.query) /\ s \in Selections /\ n \in DOMAIN s.tables
      /\ Forth(j, contents, s, n - 1, outer) /\ Back(j, contents, s, n - 1, outer)
  BY DEF Inner
<1>1. /\ outer \in Environments(W) /\ Img(j, outer) \in Environments(F) /\ n \in Nat /\ a \in Aliases
      /\ s.tables[n] \in Entries(j.query) /\ left \subseteq Environments(W) /\ leftF \subseteq Environments(F)
  BY InnerFacts
<1>2. /\ K \subseteq W[t].rows /\ (Agreed(j.query, t) = <<>> => K = W[t].rows)
      /\ \A y \in F[t].rows : \E r \in K : y = ImgRow(j, t, r)
      /\ \A r \in K : ImgRow(j, t, r) \in F[t].rows
  <2> DEFINE e == s.tables[n]
  <2>1. e \in Entries(j.query)
    BY <1>1
  <2> HIDE DEF e
  <2>2. /\ Once(Left(j, contents)[e.table]) \subseteq Full(contents)[e.table].rows
        /\ Agreed(j.query, e.table) = <<>> => Once(Left(j, contents)[e.table]) = Full(contents)[e.table].rows
        /\ \A y \in Fetched(j, contents)[e.table].rows : \E r \in Once(Left(j, contents)[e.table]) : y = ImgRow(j, e.table, r)
        /\ \A r \in Once(Left(j, contents)[e.table]) : ImgRow(j, e.table, r) \in Fetched(j, contents)[e.table].rows
    BY <1>0, <2>1, LeftRows
  <2> QED BY <2>2 DEF e
<1> SUFFICES ASSUME NEW y \in MF[<<Join(s, n), Img(j, outer)>>], PassF(j, s, n, y)
             PROVE  \E x : /\ Both(MW, s, n, left, W, x) \/ Lone(MW, s, n, left, W, x) \/ Spare(MW, s, n, left, outer, W, x)
                           /\ PassW(j, contents, s, n, x) /\ y = Img(j, x)
  <2>1. \A x : Both(MW, s, n, left, W, x) \/ Lone(MW, s, n, left, W, x) \/ Spare(MW, s, n, left, outer, W, x)
                => x \in MW[<<Join(s, n), outer>>]
    <3> TAKE x
    <3>1. x \in Joined(MW, s, n, outer, W) <=>
            Both(MW, s, n, left, W, x) \/ Lone(MW, s, n, left, W, x) \/ Spare(MW, s, n, left, outer, W, x)
      BY <1>0, JoinedIff
    <3>2. MW[<<Join(s, n), outer>>] = Joined(MW, s, n, outer, W)
      BY <1>0, <1>1, MeaningFacts
    <3> QED BY <3>1, <3>2
  <2> HIDE DEF left, leftF
  <2> QED BY <2>1 DEF Back, MW, MF, W, F
<1>3. Both(MF, s, n, leftF, F, y) \/ Lone(MF, s, n, leftF, F, y) \/ Spare(MF, s, n, leftF, Img(j, outer), F, y)
  <2>1. y \in Joined(MF, s, n, Img(j, outer), F)
    BY <1>0, <1>1, MeaningFacts
  <2> QED BY <1>0, <2>1, JoinedIff
<1>4. ASSUME NEW env \in left, PassW(j, contents, s, n - 1, env)
      PROVE  /\ Good(j, contents, env) /\ Img(j, env) \in leftF
             /\ \A r \in K : Matches(MW, s, n, env, r, W) <=> Matches(MF, s, n, Img(j, env), ImgRow(j, t, r), F)
  <2>1. Img(j, env) \in leftF
    BY <1>0, <1>4 DEF Forth
  <2>2. \A r \in K : Matches(MW, s, n, env, r, W) <=> Matches(MF, s, n, Img(j, env), ImgRow(j, t, r), F)
    BY <1>4, InnerMatches
  <2>3. n - 1 \in 0 .. Len(s.tables)
    BY InnerFacts
  <2>4. Good(j, contents, env)
    BY <1>0, <1>4, <2>3, PassGood
  <2> QED BY <2>1, <2>2, <2>4
<1>8. ASSUME NEW z \in leftF, PassF(j, s, n - 1, z)
      PROVE  \E env \in left : PassW(j, contents, s, n - 1, env) /\ z = Img(j, env)
  BY <1>0, <1>8 DEF Back
<1>9. ASSUME NEW env, Good(j, contents, env), NEW r \in K
      PROVE  Img(j, [env EXCEPT ![a] = r]) = [Img(j, env) EXCEPT ![a] = ImgRow(j, t, r)]
  <2> DEFINE e == s.tables[n]
  <2>1. e \in Entries(j.query) /\ r \in Once(Left(j, contents)[e.table])
    BY <1>1
  <2> HIDE DEF e
  <2>2. Img(j, [env EXCEPT ![e.alias] = r]) = [Img(j, env) EXCEPT ![e.alias] = ImgRow(j, e.table, r)]
    BY <1>0, <1>9, <2>1, GoodWith
  <2> QED BY <2>2 DEF e
<1> HIDE DEF W, F, MW, MF, left, leftF, K
<1>5. ASSUME NEW z \in leftF, NEW w \in F[t].rows, Matches(MF, s, n, z, w, F), y = [z EXCEPT ![a] = w]
      PROVE  \E x : Both(MW, s, n, left, W, x) /\ PassW(j, contents, s, n, x) /\ y = Img(j, x)
  <2>1. PassF(j, s, n - 1, z)
    BY <1>0, <1>1, <1>5, PassStep
  <2>2. PICK env \in left : PassW(j, contents, s, n - 1, env) /\ z = Img(j, env)
    BY <1>8, <2>1
  <2>3. PICK r \in K : w = ImgRow(j, t, r)
    BY <1>2
  <2>4. Good(j, contents, env) /\ Matches(MW, s, n, env, r, W)
    BY <1>4, <1>5, <2>2, <2>3
  <2> DEFINE x == [env EXCEPT ![a] = r]
  <2>5. y = Img(j, x)
    BY <1>5, <1>9, <2>2, <2>3, <2>4
  <2>6. PassW(j, contents, s, n, x)
    BY <1>0, <1>1, <2>2, <2>3, PassStep DEF K
  <2>7. Both(MW, s, n, left, W, x)
    BY <1>2, <2>2, <2>3, <2>4 DEF Both
  <2> QED BY <2>5, <2>6, <2>7
<1>6. ASSUME s.tables[n].side = "LEFT", NEW z \in leftF, \A w \in F[t].rows : ~ Matches(MF, s, n, z, w, F),
             y = [z EXCEPT ![a] = NoRow]
      PROVE  \E x : Lone(MW, s, n, left, W, x) /\ PassW(j, contents, s, n, x) /\ y = Img(j, x)
  <2>1. PassF(j, s, n - 1, z) /\ Agreed(j.query, t) = <<>>
    BY <1>0, <1>1, <1>6, PassStep
  <2>2. PICK env \in left : PassW(j, contents, s, n - 1, env) /\ z = Img(j, env)
    BY <1>8, <2>1
  <2>3. \A r \in W[t].rows : ~ Matches(MW, s, n, env, r, W)
    BY <1>2, <1>4, <1>6, <2>1, <2>2
  <2>4. Good(j, contents, env)
    BY <1>4, <2>2
  <2> DEFINE x == [env EXCEPT ![a] = NoRow]
  <2>8. Img(j, x) = [Img(j, env) EXCEPT ![a] = NoRow]
    BY ONLY <1>0, <1>1, <2>4, GoodWithout
  <2>5. y = Img(j, x)
    BY ONLY <1>6, <2>2, <2>8
  <2>6. PassW(j, contents, s, n, x)
    BY <1>0, <1>1, <2>1, <2>2, PassStep
  <2>7. Lone(MW, s, n, left, W, x)
    BY <1>6, <2>2, <2>3 DEF Lone
  <2> QED BY <2>5, <2>6, <2>7
<1>7. ASSUME s.tables[n].side = "RIGHT", NEW w \in F[t].rows, \A z \in leftF : ~ Matches(MF, s, n, z, w, F),
             y = [NoneOf(s, n, Img(j, outer)) EXCEPT ![a] = w]
      PROVE  \E x : Spare(MW, s, n, left, outer, W, x) /\ PassW(j, contents, s, n, x) /\ y = Img(j, x)
  <2> DEFINE none == NoneOf(s, n, outer)
  <2>0. none \in Environments(W) /\ NoneOf(s, n, Img(j, outer)) \in Environments(F)
    BY <1>1, NoneOfTyped
  <2>1. PassF(j, s, n - 1, NoneOf(s, n, Img(j, outer)))
    BY <1>0, <1>7, <2>0, PassStep
  <2>2. \A env : PassW(j, contents, s, n - 1, env)
    BY <1>0, <2>1, NonePass
  <2>3. PICK r \in K : w = ImgRow(j, t, r)
    BY <1>2
  <2>4. \A env \in left : ~ Matches(MW, s, n, env, r, W)
    BY <1>4, <1>7, <2>2, <2>3
  <2>5. Good(j, contents, none) /\ Img(j, none) = NoneOf(s, n, Img(j, outer))
    BY <1>0, GoodNone
  <2> DEFINE x == [none EXCEPT ![a] = r]
  <2>6. y = Img(j, x)
    <3> HIDE DEF none
    <3> QED BY <1>7, <1>9, <2>3, <2>5
  <2>7. PassW(j, contents, s, n, x)
    <3> HIDE DEF none
    <3> QED BY <1>0, <2>0, <2>2, <2>3, PassStep DEF K
  <2>8. Spare(MW, s, n, left, outer, W, x)
    BY <1>2, <1>7, <2>3, <2>4 DEF Spare
  <2> HIDE DEF x
  <2> QED BY <2>6, <2>7, <2>8
<1> QED BY <1>3, <1>5, <1>6, <1>7 DEF Both, Lone, Spare

(* The joins of a select, those of its conditions that are looked at over  *)
(* rows that are left being the same                                       *)
LEMMA JoinsAgree ==
  ASSUME NEW j, NEW contents, Enough(j, contents), NEW outer, Good(j, contents, outer),
         NEW s \in AllSelects(j.query), \A i \in DOMAIN s.tables : Agrees(j, contents, s.tables[i].on)
  PROVE  \A n \in 0 .. Len(s.tables) : Forth(j, contents, s, n, outer) /\ Back(j, contents, s, n, outer)
<1> DEFINE P(n) == Forth(j, contents, s, n, outer) /\ Back(j, contents, s, n, outer)
           B == {n \in 0 .. Len(s.tables) : ~ P(n)}
<1> SUFFICES ASSUME B # {} PROVE FALSE
  OBVIOUS
<1>0. IsQuery(j.query) /\ outer \in Environments(Full(contents)) /\ Img(j, outer) \in Environments(Fetched(j, contents))
  BY ImgFacts DEF Enough, Good
<1>1. s \in Selections /\ Len(s.tables) \in Nat /\ DOMAIN s.tables = 1 .. Len(s.tables)
  <2>1. s \in Selections
    BY <1>0, SelectsTyped
  <2> QED BY <2>1, PartsOfSelect
<1>2. PICK n \in B : \A k \in B : n <= k
  <2>1. B \subseteq Nat
    BY <1>1
  <2> HIDE DEF B
  <2> QED BY <2>1, LeastNatural
<1>3. n \in Nat /\ n \in 0 .. Len(s.tables) /\ ~ P(n)
  BY <1>1, <1>2
<1>4. CASE n = 0
  <2>1. n \notin DOMAIN s.tables
    BY <1>4, <1>1
  <2>2. Meaning(Full(contents))[<<Join(s, n), outer>>] = {outer}
    <3>1. Meaning(Full(contents))[<<Join(s, n), outer>>] = Joined(Meaning(Full(contents)), s, n, outer, Full(contents))
      BY <1>0, <1>1, <1>3, MeaningFacts
    <3> QED BY <2>1, <3>1, JoinedNone
  <2>3. Meaning(Fetched(j, contents))[<<Join(s, n), Img(j, outer)>>] = {Img(j, outer)}
    <3>1. Meaning(Fetched(j, contents))[<<Join(s, n), Img(j, outer)>>]
            = Joined(Meaning(Fetched(j, contents)), s, n, Img(j, outer), Fetched(j, contents))
      BY <1>0, <1>1, <1>3, MeaningFacts
    <3> QED BY <2>1, <3>1, JoinedNone
  <2>4. PassW(j, contents, s, n, outer)
    BY <1>4 DEF PassW
  <2> QED BY <2>2, <2>3, <2>4, <1>3 DEF Forth, Back
<1>5. CASE n # 0
  <2>1. n \in DOMAIN s.tables /\ n - 1 \in 0 .. Len(s.tables) /\ ~(n <= n - 1)
    BY <1>1, <1>3, <1>5
  <2>2. P(n - 1)
    <3>1. n - 1 \notin B
      <4> HIDE DEF B
      <4> QED BY <1>2, <2>1
    <3> QED BY <2>1, <3>1
  <2>3. Inner(j, contents, s, n, outer)
    BY <1>0, <1>1, <2>1, <2>2 DEF Inner
  <2>4. P(n)
    BY <2>3, ForthStep, BackStep
  <2> QED BY <2>4, <1>3
<1> QED BY <1>4, <1>5

----------------------------------------------------------------------------
(* Selects, conditions and answers                                         *)

(* The rows of a select over what is left are those over the whole tables, *)
(* all of which are left.                                                  *)
RowsMatch(j, contents, s, outer) ==
  /\ \A env \in RowsOf(Meaning(Full(contents)), s, outer) :
       Good(j, contents, env) /\ Img(j, env) \in RowsOf(Meaning(Fetched(j, contents)), s, Img(j, outer))
  /\ \A y \in RowsOf(Meaning(Fetched(j, contents)), s, Img(j, outer)) :
       \E env \in RowsOf(Meaning(Full(contents)), s, outer) : y = Img(j, env)

(* The WHERE agreeing, a select has the same rows in both.                 *)
LEMMA RowsAgree ==
  ASSUME NEW j, NEW contents, Enough(j, contents), NEW outer, Good(j, contents, outer),
         NEW s \in AllSelects(j.query), \A i \in DOMAIN s.tables : Agrees(j, contents, s.tables[i].on),
         Agrees(j, contents, s.where)
  PROVE  RowsMatch(j, contents, s, outer)
<1> DEFINE W == Full(contents)
           F == Fetched(j, contents)
           MW == Meaning(W)
           MF == Meaning(F)
           N == Len(s.tables)
<1>0. IsQuery(j.query) /\ outer \in Environments(W) /\ Img(j, outer) \in Environments(F)
  BY ImgFacts DEF Enough, Good
<1>1. s \in Selections /\ N \in Nat /\ DOMAIN s.tables = 1 .. N /\ N \in 0 .. N
  <2>1. s \in Selections
    BY <1>0, SelectsTyped
  <2> QED BY <2>1, PartsOfSelect
<1>2. Forth(j, contents, s, N, outer) /\ Back(j, contents, s, N, outer)
  BY <1>1, JoinsAgree
<1>3. \A t \in Tables : NoRow \notin W[t].rows /\ NoRow \notin F[t].rows /\ W[t].rows = Once(contents[t])
  BY WorldFacts
<1>4. \A i \in 1 .. N : s.tables[i].table \in Tables /\ s.tables[i].table \in TablesOf(j.query)
  BY <1>0, <1>1, EntriesOf
<1>5. ASSUME NEW env \in MW[<<Join(s, N), outer>>], PassW(j, contents, s, N, env)
      PROVE  /\ Good(j, contents, env) /\ Img(j, env) \in MF[<<Join(s, N), Img(j, outer)>>]
             /\ MW[<<s.where, env>>] = MF[<<s.where, Img(j, env)>>]
  <2>1. Good(j, contents, env)
    BY <1>1, <1>5, PassGood
  <2>2. Img(j, env) \in MF[<<Join(s, N), Img(j, outer)>>]
    BY <1>2, <1>5 DEF Forth
  <2>3. MW[<<s.where, env>>] = MF[<<s.where, Img(j, env)>>]
    BY <2>1 DEF Agrees
  <2> QED BY <2>1, <2>2, <2>3
<1>6. ASSUME NEW env \in RowsOf(MW, s, outer)
      PROVE  Good(j, contents, env) /\ Img(j, env) \in RowsOf(MF, s, Img(j, outer))
  <2>1. env \in MW[<<Join(s, N), outer>>] /\ MW[<<s.where, env>>] = 1
    BY DEF RowsOf
  <2>2. ASSUME NEW i \in 1 .. N, Agreed(j.query, s.tables[i].table) # <<>>
        PROVE  env[s.tables[i].alias] \in Once(Left(j, contents)[s.tables[i].table])
    <3> DEFINE t == s.tables[i].table
               r == env[s.tables[i].alias]
    <3>1. r \in W[t].rows /\ JdbcReads(Agreed(j.query, t), r.row)
      <4>1. i \in DOMAIN s.tables
        BY <1>1
      <4> QED BY <1>0, <1>1, <1>3, <2>2, <4>1, RowsSatisfy
    <3>2. t \in Tables /\ t \in TablesOf(j.query)
      BY <1>4
    <3> HIDE DEF t, r
    <3>3. r \in Once(contents[t])
      BY <1>3, <3>1, <3>2
    <3>4. r.row \in contents[t] /\ r = [row |-> r.row, copy |-> 1]
      BY <3>3, OnceFacts
    <3>5. r.row \in Left(j, contents)[t]
      BY <3>1, <3>2, <3>4 DEF Enough
    <3>6. r \in Once(Left(j, contents)[t])
      BY <3>4, <3>5 DEF Once
    <3> QED BY <3>6 DEF t, r
  <2>3. PassW(j, contents, s, N, env)
    BY <2>2 DEF PassW
  <2> QED BY <1>5, <2>1, <2>3 DEF RowsOf
<1>7. ASSUME NEW y \in RowsOf(MF, s, Img(j, outer))
      PROVE  \E env \in RowsOf(MW, s, outer) : y = Img(j, env)
  <2>1. y \in MF[<<Join(s, N), Img(j, outer)>>] /\ MF[<<s.where, y>>] = 1
    BY DEF RowsOf
  <2>2. ASSUME NEW i \in 1 .. N, Agreed(j.query, s.tables[i].table) # <<>>
        PROVE  y[s.tables[i].alias] # NoRow
    <3>1. y[s.tables[i].alias] \in F[s.tables[i].table].rows
      <4>1. i \in DOMAIN s.tables
        BY <1>1
      <4> QED BY <1>0, <1>1, <1>3, <2>2, <4>1, RowsSatisfy
    <3> QED BY <1>3, <1>4, <3>1
  <2>3. PassF(j, s, N, y)
    BY <2>2 DEF PassF
  <2>4. PICK env \in MW[<<Join(s, N), outer>>] : PassW(j, contents, s, N, env) /\ y = Img(j, env)
    BY <1>2, <2>1, <2>3 DEF Back
  <2>5. MW[<<s.where, env>>] = 1
    BY <1>5, <2>1, <2>4
  <2> QED BY <2>4, <2>5 DEF RowsOf
<1> QED BY <1>6, <1>7 DEF RowsMatch

(* Every condition of the query agrees, its smaller parts first. *)
LEMMA CondAgree ==
  ASSUME NEW j, NEW contents, Enough(j, contents)
  PROVE  \A e : Occurs(j.query, e) => Agrees(j, contents, e)
<1> DEFINE W == Full(contents)
           F == Fetched(j, contents)
           MW == Meaning(W)
           MF == Meaning(F)
           D == Conditions \cup Selections
           B == {e \in Conditions : Occurs(j.query, e) /\ ~ Agrees(j, contents, e)}
<1> SUFFICES ASSUME B # {} PROVE FALSE
  BY DEF Occurs
<1>0. IsQuery(j.query)
  BY DEF Enough
<1>1. Size \in [D -> Nat]
  BY FetchPlanAssumption
<1>2. PICK e \in B : \A d \in D : Size[d] < Size[e] => d \notin B
  <2> HIDE DEF D
  <2>1. B \subseteq D
    BY DEF D
  <2> HIDE DEF B
  <2> QED BY <1>1, <2>1, LeastRanked
<1>3. e \in Conditions /\ Occurs(j.query, e) /\ ~ Agrees(j, contents, e)
  BY <1>2
<1>4. ASSUME NEW d \in Conditions, Size[d] < Size[e], Occurs(j.query, d)
      PROVE  Agrees(j, contents, d)
  BY <1>2, <1>4
<1> HIDE DEF B, D
<1>5. ASSUME NEW u \in Queries(e)
      PROVE  /\ u \in AllSelects(j.query) /\ u \in Selections
             /\ Agrees(j, contents, u.where)
             /\ \A i \in DOMAIN u.tables : Agrees(j, contents, u.tables[i].on)
  <2>1. u \in AllSelects(j.query) /\ u \in Selections /\ Size[u] < Size[e]
    BY <1>0, <1>3, OccurringParts, PartsOfCondition
  <2>2. Occurs(j.query, u.where) /\ \A i \in DOMAIN u.tables : Occurs(j.query, u.tables[i].on)
    BY <1>0, <2>1, OccurringSelect
  <2>3. Size[e] \in Nat /\ Size[u] \in Nat
    BY <1>3, <2>1, PartsOfCondition, PartsOfSelect
  <2>4. ASSUME NEW d \in Conditions, Size[d] < Size[u], Occurs(j.query, d)
        PROVE  Agrees(j, contents, d)
    <3>1. Size[d] \in Nat
      BY PartsOfCondition
    <3>2. Size[d] < Size[e]
      BY ONLY <3>1, <2>3, <2>1, <2>4
    <3> QED BY <1>4, <2>4, <3>2
  <2>5. u.where \in Conditions /\ Size[u.where] < Size[u]
    BY <2>1, PartsOfSelect
  <2>6. \A i \in DOMAIN u.tables : u.tables[i].on \in Conditions /\ Size[u.tables[i].on] < Size[u]
    BY <2>1, PartsOfSelect
  <2> QED BY <2>1, <2>2, <2>4, <2>5, <2>6
<1>6. ASSUME NEW env, Good(j, contents, env)
      PROVE  MW[<<e, env>>] = MF[<<e, Img(j, env)>>]
  <2> DEFINE other == Img(j, env)
  <2>0. env \in Environments(W) /\ other \in Environments(F)
    BY <1>6, ImgFacts DEF Good
  <2>1. MW[<<e, env>>] = TruthOf(MW, e, env) /\ MF[<<e, other>>] = TruthOf(MF, e, other)
    BY <1>3, <2>0, MeaningFacts
  <2>2. \A ref \in References(e) : Cell(env, ref) = Cell(other, ref)
    <3>1. References(e) \subseteq NamesIn(j.query)
      BY <1>0, <1>3, OccurringParts
    <3>2. References(e) \subseteq Reference
      BY <1>3, PartsOfCondition DEF IsCondition
    <3> QED BY <1>6, <3>1, <3>2, CellImg
  <2>3. \A d \in Operands(e) : MW[<<d, env>>] = MF[<<d, other>>]
    <3>1. ASSUME NEW d \in Operands(e)
          PROVE  Agrees(j, contents, d)
      <4>1. Occurs(j.query, d)
        BY <1>0, <1>3, OccurringParts
      <4>2. d \in Conditions /\ Size[d] < Size[e]
        BY <1>3, PartsOfCondition
      <4> QED BY <1>4, <4>1, <4>2
    <3> QED BY <1>6, <3>1 DEF Agrees
  <2>4. \A u \in Queries(e) : RowsMatch(j, contents, u, env)
    BY <1>5, <1>6, RowsAgree
  <2>5. \A u \in Queries(e) : (RowsOf(MW, u, env) = {}) <=> (RowsOf(MF, u, other) = {})
    BY <2>4 DEF RowsMatch
  <2>6. ASSUME e.op = "IN QUERY"
        PROVE  Firsts(RowsOf(MW, e.query, env), e.query) = Firsts(RowsOf(MF, e.query, other), e.query)
    <3> DEFINE u == e.query
               ref == u.out[1]
    <3>1. u \in Queries(e)
      BY <2>6 DEF Queries
    <3>2. u \in AllSelects(j.query) /\ u \in Selections /\ u.out # <<>>
      <4>1. u.out # <<>>
        BY <1>3, <2>6, PartsOfCondition DEF IsCondition
      <4> QED BY <1>5, <3>1, <4>1
    <3>3. ref \in NamesIn(j.query) /\ ref \in Reference
      <4>1. u.out \in Seq(Reference)
        BY <3>2, PartsOfSelect
      <4>2. 1 \in DOMAIN u.out
        BY <3>2, <4>1
      <4> QED BY <1>0, <3>2, <4>1, <4>2, OccurringSelect
    <3>4. RowsMatch(j, contents, u, env)
      BY <2>4, <3>1
    <3> HIDE DEF ref
    <3>5. \A x \in RowsOf(MW, u, env) : Cell(x, ref) = Cell(Img(j, x), ref)
      BY <3>3, <3>4, CellImg DEF RowsMatch
    <3>6. {Cell(x, ref) : x \in RowsOf(MW, u, env)} = {Cell(x, ref) : x \in RowsOf(MF, u, other)}
      BY <3>4, <3>5 DEF RowsMatch
    <3> QED BY <3>6 DEF Firsts, ref
  <2>7. SameParts(e, MW, env, MF, other)
    BY <2>2, <2>3, <2>5, <2>6 DEF SameParts
  <2> HIDE DEF MW, MF, other
  <2>8. TruthOf(MW, e, env) = TruthOf(MF, e, other)
    BY <1>3, <2>7, TruthAgrees
  <2> QED BY <2>1, <2>8 DEF other
<1> QED BY <1>3, <1>6 DEF Agrees

(* The values of a function on a finite set are finitely many,             *)
LEMMA ImageFinite ==
  ASSUME NEW S, IsFiniteSet(S), NEW f
  PROVE  IsFiniteSet({f[x] : x \in S})
<1> DEFINE T == {f[x] : x \in S}
           g == [x \in S |-> f[x]]
<1>1. g \in Surjection(S, T)
  BY DEF Surjection
<1> HIDE DEF g, T
<1> QED BY <1>1, FS_Surjection DEF T

(* and so are the functions between finite sets                            *)
LEMMA FunctionsFinite ==
  ASSUME NEW S, IsFiniteSet(S), NEW T, IsFiniteSet(T)
  PROVE  IsFiniteSet([S -> T])
<1> DEFINE P == SUBSET (S \X T)
           graph == [g \in [S -> T] |-> {<<x, g[x]>> : x \in S}]
<1>1. IsFiniteSet(P)
  <2>1. IsFiniteSet(S \X T)
    BY FS_Product
  <2> QED BY <2>1, FS_SUBSET
<1>2. \A g \in [S -> T] : graph[g] = {<<x, g[x]>> : x \in S}
  OBVIOUS
<1>3. ASSUME NEW g \in [S -> T], NEW h \in [S -> T], graph[g] = graph[h]
      PROVE  g = h
  <2>1. ASSUME NEW x \in S
        PROVE  g[x] = h[x]
    <3>1. <<x, g[x]>> \in {<<y, h[y]>> : y \in S}
      BY <1>2, <1>3
    <3> QED BY <3>1
  <2> QED BY <2>1
<1>4. graph \in [[S -> T] -> P]
  OBVIOUS
<1> HIDE DEF graph, P
<1>5. graph \in Injection([S -> T], P)
  BY <1>3, <1>4 DEF Injection, IsInjective
<1> QED BY <1>1, <1>5, FS_Injection

(* and the environments over tables of finitely many rows.                 *)
LEMMA EnvironmentsFinite ==
  ASSUME NEW contents, \A t \in Tables : IsFiniteSet(contents[t])
  PROVE  IsFiniteSet(Environments(Full(contents)))
<1> DEFINE rows == [t \in Tables |-> Full(contents)[t].rows]
           all == {rows[t] : t \in Tables}
<1>1. ASSUME NEW t \in Tables
      PROVE  IsFiniteSet(rows[t])
  <2> DEFINE C == contents[t]
             f == [r \in C |-> [row |-> r, copy |-> 1]]
  <2>1. rows[t] = {f[r] : r \in C}
    BY DEF Full, Once
  <2> HIDE DEF f, rows
  <2> QED BY <2>1, ImageFinite
<1>2. IsFiniteSet(all)
  <2> HIDE DEF rows
  <2>1. IsFiniteSet(Tables)
    BY FetchPlanAssumption
  <2> QED BY <2>1, ImageFinite
<1>3. IsFiniteSet(UNION all)
  <2>1. \A T \in all : IsFiniteSet(T)
    BY <1>1
  <2> HIDE DEF all
  <2> QED BY <1>2, <2>1, FS_UNION
<1>4. all = {Full(contents)[t].rows : t \in Tables}
  OBVIOUS
<1> HIDE DEF all
<1>5. IsFiniteSet({NoRow} \cup UNION all)
  BY <1>3, FS_Singleton, FS_Union
<1>6. IsFiniteSet([Aliases -> {NoRow} \cup UNION all])
  BY <1>5, FunctionsFinite, FetchPlanAssumption
<1> QED BY <1>4, <1>6 DEF Environments

----------------------------------------------------------------------------
(* Outside of everything there is no row.                                  *)
LEMMA NoRowsGood ==
  ASSUME NEW j, NEW contents
  PROVE  Good(j, contents, NoRows) /\ Img(j, NoRows) = NoRows
<1>1. \A a \in Aliases : NoRows[a] = NoRow
  BY DEF NoRows
<1>2. NoRows \in Environments(Full(contents))
  BY DEF NoRows, Environments
<1>3. Img(j, NoRows) = [a \in Aliases |-> NoRow]
  BY <1>1 DEF Img
<1> QED BY <1>1, <1>2, <1>3 DEF Good, NoRows

(* No two environments are one in what is left: their rows have their keys.*)
LEMMA ImgInjective ==
  ASSUME NEW j, NEW contents, Enough(j, contents),
         \A t \in Tables : \A r, s \in contents[t] : Key(t, r) = Key(t, s) => r = s,
         NEW env, Good(j, contents, env), NEW other, Good(j, contents, other), Img(j, env) = Img(j, other)
  PROVE  env = other
<1>1. ASSUME NEW a \in Aliases
      PROVE  env[a] = other[a]
  <2>1. env[a] = NoRow <=> other[a] = NoRow
    BY ImgFacts
  <2>2. CASE env[a] = NoRow
    BY <2>1, <2>2
  <2>3. CASE env[a] # NoRow
    <3>1. PICK x \in Entries(j.query) : x.alias = a /\ env[a] \in Once(Left(j, contents)[x.table])
      BY <2>3 DEF Good
    <3> DEFINE t == x.table
    <3>2. other[a] \in Once(Left(j, contents)[t])
      BY <2>1, <2>3, <3>1, GoodAt
    <3>3. t \in Tables /\ KeyColumn[t] \in LeftCols(j)[t] /\ Left(j, contents)[t] \subseteq contents[t]
      <4>1. t \in Tables
        BY EntriesOf DEF Enough
      <4> QED BY <4>1, LeftColsFacts DEF Enough
    <3>4. ImgRow(j, t, env[a]) = ImgRow(j, t, other[a])
      BY <2>1, <2>3, <3>1, ImgFacts
    <3> DEFINE r == env[a]
               s == other[a]
    <3> HIDE DEF t, r, s
    <3>5. r \in Once(Left(j, contents)[t]) /\ s \in Once(Left(j, contents)[t]) /\ ImgRow(j, t, r) = ImgRow(j, t, s)
      BY <3>1, <3>2, <3>4 DEF r, s, t
    <3>6. r.row \in contents[t] /\ s.row \in contents[t] /\ r = [row |-> r.row, copy |-> 1] /\ s = [row |-> s.row, copy |-> 1]
      BY <3>3, <3>5, OnceFacts
    <3>7. r.row[KeyColumn[t]] = s.row[KeyColumn[t]]
      BY <3>3, <3>5, ImgRowFacts
    <3>8. r.row = s.row
      BY <3>3, <3>6, <3>7 DEF Key
    <3> QED BY <3>6, <3>8 DEF r, s
  <2> QED BY <2>2, <2>3
<1>2. env \in [Aliases -> {NoRow} \cup UNION {Full(contents)[t].rows : t \in Tables}]
      /\ other \in [Aliases -> {NoRow} \cup UNION {Full(contents)[t].rows : t \in Tables}]
  BY DEF Good, Environments
<1> QED BY <1>1, <1>2

----------------------------------------------------------------------------
(* What a query finds, and the cells of what it found                      *)
FoundIn(q, tables) == UNION {{<<i, env>> : env \in RowsOf(Meaning(tables), q[i], NoRows)} : i \in DOMAIN q}
CellsOf(q, x) == [k \in DOMAIN q[x[1]].out |-> Cell(x[2], q[x[1]].out[k])]

(* An answer counts what is found by its cells.                            *)
LEMMA AnswerOf ==
  ASSUME NEW q, NEW tables
  PROVE  Answer(q, tables) = [row \in {CellsOf(q, x) : x \in FoundIn(q, tables)} |->
                                Cardinality({x \in FoundIn(q, tables) : CellsOf(q, x) = row})]
BY DEF Answer, FoundIn, CellsOf

(* What is found is a select and one of its rows.                          *)
LEMMA FoundFacts ==
  ASSUME NEW q, NEW tables
  PROVE  /\ \A x \in FoundIn(q, tables) : /\ x[1] \in DOMAIN q /\ x[2] \in RowsOf(Meaning(tables), q[x[1]], NoRows)
                                          /\ x = <<x[1], x[2]>>
         /\ \A i \in DOMAIN q : \A env \in RowsOf(Meaning(tables), q[i], NoRows) : <<i, env>> \in FoundIn(q, tables)
BY DEF FoundIn

(* Two sets that go over into each other one by one have as many members.  *)
LEMMA CountsAgree ==
  ASSUME NEW S, IsFiniteSet(S), NEW T, NEW f, \A x \in S : f[x] \in T, \A y \in T : \E x \in S : y = f[x],
         \A x, y \in S : f[x] = f[y] => x = y
  PROVE  Cardinality(S) = Cardinality(T)
<1> DEFINE g == [x \in S |-> f[x]]
<1>1. g \in [S -> T] /\ \A x \in S : g[x] = f[x]
  OBVIOUS
<1> HIDE DEF g
<1>2. g \in Bijection(S, T)
  BY <1>1 DEF Bijection, Injection, Surjection, IsInjective
<1> QED BY <1>2, FS_Bijection DEF ExistsBijection

(* It is finite.                                                           *)
LEMMA FoundFinite ==
  ASSUME NEW j, NEW contents, Enough(j, contents), \A t \in Tables : IsFiniteSet(contents[t])
  PROVE  IsFiniteSet(FoundIn(j.query, Full(contents)))
<1> DEFINE q == j.query
           E == Environments(Full(contents))
<1>1. q \in Seq(Selections) /\ DOMAIN q = 1 .. Len(q) /\ Len(q) \in Nat
  BY DEF Enough, IsQuery
<1>2. IsFiniteSet(E) /\ IsFiniteSet(1 .. Len(q))
  BY <1>1, EnvironmentsFinite, FS_Interval
<1>3. ASSUME NEW x \in FoundIn(q, Full(contents))
      PROVE  x \in (1 .. Len(q)) \X E
  <2>1. x[1] \in 1 .. Len(q) /\ x[2] \in RowsOf(Meaning(Full(contents)), q[x[1]], NoRows) /\ x = <<x[1], x[2]>>
    BY <1>1, FoundFacts
  <2>2. q[x[1]] \in Selections
    BY <1>1, <2>1
  <2>3. Len(q[x[1]].tables) \in Nat
    BY <2>2, PartsOfSelect
  <2>4. NoRows \in E
    BY NoRowsGood DEF Good
  <2>5. x[2] \in E
    BY <2>1, <2>2, <2>3, <2>4, MeaningFacts DEF RowsOf
  <2> QED BY <2>1, <2>5
<1>4. IsFiniteSet((1 .. Len(q)) \X E)
  BY <1>2, FS_Product
<1>5. FoundIn(q, Full(contents)) \in SUBSET ((1 .. Len(q)) \X E)
  BY <1>3
<1> QED BY <1>4, <1>5, FS_Subset

(* A statement returns over what is left what it returns over all. *)
LEMMA AnswersAgree ==
  ASSUME NEW j, NEW contents, Enough(j, contents), \A t \in Tables : IsFiniteSet(contents[t]),
         \A t \in Tables : \A r, s \in contents[t] : Key(t, r) = Key(t, s) => r = s
  PROVE  Answer(j.query, Fetched(j, contents)) = Answer(j.query, Full(contents))
<1> DEFINE q == j.query
           W == Full(contents)
           F == Fetched(j, contents)
           FW == FoundIn(q, W)
           FF == FoundIn(q, F)
           over == [x \in FW |-> <<x[1], Img(j, x[2])>>]
<1>0. IsQuery(q) /\ q \in Seq(Selections)
  BY DEF Enough, IsQuery
<1>1. ASSUME NEW i \in DOMAIN q
      PROVE  q[i] \in AllSelects(q) /\ RowsMatch(j, contents, q[i], NoRows)
  <2>1. q[i] \in Selections
    BY <1>0
  <2>2. q[i] \in SelectsIn[q[i]]
    BY <2>1, SelectsInParts
  <2>3. q[i] \in AllSelects(q)
    BY <2>2 DEF AllSelects
  <2>4. Occurs(q, q[i].where) /\ \A n \in DOMAIN q[i].tables : Occurs(q, q[i].tables[n].on)
    BY <1>0, <2>3, OccurringSelect
  <2>5. Agrees(j, contents, q[i].where) /\ \A n \in DOMAIN q[i].tables : Agrees(j, contents, q[i].tables[n].on)
    BY <2>4, CondAgree
  <2> QED BY <2>3, <2>5, NoRowsGood, RowsAgree
<1>2. ASSUME NEW x \in FW
      PROVE  /\ x[1] \in DOMAIN q /\ Good(j, contents, x[2]) /\ x = <<x[1], x[2]>>
             /\ over[x] = <<x[1], Img(j, x[2])>> /\ over[x] \in FF
             /\ CellsOf(q, over[x]) = CellsOf(q, x)
  <2>1. x[1] \in DOMAIN q /\ x[2] \in RowsOf(Meaning(W), q[x[1]], NoRows) /\ x = <<x[1], x[2]>>
    BY FoundFacts
  <2>2. Good(j, contents, x[2]) /\ Img(j, x[2]) \in RowsOf(Meaning(F), q[x[1]], NoRows)
    BY <1>1, <2>1, NoRowsGood DEF RowsMatch
  <2>3. over[x] = <<x[1], Img(j, x[2])>> /\ over[x] \in FF
    BY <2>1, <2>2, FoundFacts
  <2> DEFINE out == q[x[1]].out
  <2>4. \A k \in DOMAIN out : out[k] \in NamesIn(q) /\ out[k] \in Reference
    <3>1. q[x[1]] \in AllSelects(q) /\ q[x[1]] \in Selections
      BY <1>0, <1>1, <2>1
    <3>2. out \in Seq(Reference)
      BY <3>1, PartsOfSelect
    <3> QED BY <1>0, <3>1, <3>2, OccurringSelect
  <2>5. \A k \in DOMAIN out : Cell(Img(j, x[2]), out[k]) = Cell(x[2], out[k])
    BY <2>2, <2>4, CellImg
  <2>6. CellsOf(q, over[x]) = [k \in DOMAIN out |-> Cell(Img(j, x[2]), out[k])]
    BY <2>3 DEF CellsOf
  <2>7. CellsOf(q, x) = [k \in DOMAIN out |-> Cell(x[2], out[k])]
    BY DEF CellsOf
  <2> HIDE DEF out
  <2> QED BY <2>1, <2>2, <2>3, <2>5, <2>6, <2>7
<1>3. ASSUME NEW y \in FF
      PROVE  \E x \in FW : y = over[x]
  <2>1. y[1] \in DOMAIN q /\ y[2] \in RowsOf(Meaning(F), q[y[1]], NoRows) /\ y = <<y[1], y[2]>>
    BY FoundFacts
  <2>2. PICK env \in RowsOf(Meaning(W), q[y[1]], NoRows) : y[2] = Img(j, env)
    BY <1>1, <2>1, NoRowsGood DEF RowsMatch
  <2>3. <<y[1], env>> \in FW
    BY <2>1, FoundFacts
  <2> HIDE DEF FW
  <2> QED BY <2>1, <2>2, <2>3
<1>4. ASSUME NEW x \in FW, NEW y \in FW, over[x] = over[y]
      PROVE  x = y
  <2>1. x[1] = y[1] /\ Img(j, x[2]) = Img(j, y[2])
    BY <1>2, <1>4
  <2>2. x[2] = y[2]
    BY <1>2, <2>1, ImgInjective
  <2> QED BY <1>2, <2>1, <2>2
<1>5. IsFiniteSet(FW)
  BY FoundFinite
<1> HIDE DEF over, FW, FF
<1>6. {CellsOf(q, x) : x \in FF} = {CellsOf(q, x) : x \in FW}
  BY <1>2, <1>3
<1>7. ASSUME NEW row
      PROVE  Cardinality({x \in FW : CellsOf(q, x) = row}) = Cardinality({x \in FF : CellsOf(q, x) = row})
  <2> DEFINE S == {x \in FW : CellsOf(q, x) = row}
             T == {x \in FF : CellsOf(q, x) = row}
  <2>1. IsFiniteSet(S)
    BY <1>5, FS_Subset
  <2>2. /\ \A x \in S : over[x] \in T
        /\ \A y \in T : \E x \in S : y = over[x]
        /\ \A x, y \in S : over[x] = over[y] => x = y
    BY <1>2, <1>3, <1>4
  <2> HIDE DEF S, T
  <2>3. Cardinality(S) = Cardinality(T)
    BY <2>1, <2>2, CountsAgree
  <2> QED BY <2>3 DEF S, T
<1>8. Answer(q, W) = [row \in {CellsOf(q, x) : x \in FW} |-> Cardinality({x \in FW : CellsOf(q, x) = row})]
  BY AnswerOf DEF FW
<1>9. Answer(q, F) = [row \in {CellsOf(q, x) : x \in FF} |-> Cardinality({x \in FF : CellsOf(q, x) = row})]
  BY AnswerOf DEF FF
<1> QED BY <1>6, <1>7, <1>8, <1>9

----------------------------------------------------------------------------
(* The fetches read what the predicates leave (_access_path,               *)
(* _split_key_or)                                                          *)

(* Predicates as a conjunction of disjunctions *)
Grouped(groups) == \E P : groups \in Seq(Seq(P))

(* The predicates of an alias are a sequence of sequences,                 *)
LEMMA PushedGrouped ==
  ASSUME NEW s \in Selections, NEW a
  PROVE  Grouped(Pushed(s, a))
<1> DEFINE groups == Pushed(s, a)
           P == UNION {{groups[i][k] : k \in DOMAIN groups[i]} : i \in DOMAIN groups}
<1>1. PICK n \in Nat : groups = [i \in 1 .. n |-> groups[i]]
  BY PushedFacts
<1>2. ASSUME NEW i \in 1 .. n
      PROVE  groups[i] \in Seq(P)
  <2>1. i \in DOMAIN groups
    BY <1>1
  <2>from. PICK c \in Seq(Leaves) : GroupFrom(s, a, groups[i], c)
    BY <2>1, PushedFacts
  <2>2. groups[i] = [k \in DOMAIN c |-> Predicate(c[k])]
    <3> HIDE DEF groups
    <3> QED BY <2>from DEF GroupFrom
  <2>3. DOMAIN c = 1 .. Len(c) /\ Len(c) \in Nat
    BY <2>2
  <2>4. \A k \in 1 .. Len(c) : groups[i][k] \in P
    BY <2>1, <2>2, <2>3
  <2>5. groups[i] = [k \in 1 .. Len(c) |-> groups[i][k]]
    BY <2>2, <2>3
  <2> HIDE DEF P, groups
  <2> QED BY <2>3, <2>4, <2>5
<1> HIDE DEF P, groups
<1>3. groups \in Seq(Seq(P))
  BY <1>1, <1>2
<1> QED BY <1>3 DEF groups, Grouped

(* and so are those of a table.                                            *)
LEMMA AgreedGrouped ==
  ASSUME NEW q, IsQuery(q), NEW t
  PROVE  Grouped(Agreed(q, t))
<1>1. Grouped(<<>>)
  BY DEF Grouped
<1>2. \A p \in PushedOnto(q, t) : Grouped(p)
  <2> SUFFICES ASSUME NEW p \in PushedOnto(q, t) PROVE Grouped(p)
    OBVIOUS
  <2>1. PICK s \in AllSelects(q) : \E i \in {n \in DOMAIN s.tables : s.tables[n].table = t} : p = Pushed(s, s.tables[i].alias)
    BY DEF PushedOnto
  <2>2. s \in Selections
    BY SelectsTyped
  <2> QED BY <2>1, <2>2, PushedGrouped
<1> DEFINE all == PushedOnto(q, t)
<1>3. Agreed(q, t) = IF \E p \in all : all = {p} THEN CHOOSE p \in all : TRUE ELSE <<>>
  BY DEF Agreed
<1> HIDE DEF all
<1>4. CASE \E p \in all : all = {p}
  <2>1. Agreed(q, t) = CHOOSE p \in all : TRUE
    BY <1>3, <1>4
  <2>2. Agreed(q, t) \in all
    BY <1>4, <2>1
  <2> QED BY <1>2, <2>2 DEF all
<1>5. CASE ~ \E p \in all : all = {p}
  BY <1>1, <1>3, <1>5
<1> QED BY <1>4, <1>5

(* The Core API reads whatever satisfies the predicates. *)
LEMMA CoreReadsMore ==
  ASSUME NEW t, NEW groups, Grouped(groups), NEW row, JdbcReads(groups, row)
  PROVE  CoreReads(t, groups, row)
<1> DEFINE ands == {i \in DOMAIN groups : Len(groups[i]) = 1}
           equal(c) == {i \in ands : groups[i][1].col = c /\ groups[i][1].op = "=" /\ Bound(groups[i][1].val) # Null}
           some == {x \in Indexed[t] : equal(x) # {}}
           keyed == IF equal(KeyColumn[t]) # {} THEN {KeyColumn[t]} ELSE IF some = {} THEN {} ELSE {CHOOSE x \in some : TRUE}
<1>1. PICK P : groups \in Seq(Seq(P))
  BY DEF Grouped
<1>2. ASSUME NEW i \in ands
      PROVE  Compares(groups[i][1], row[groups[i][1].col])
  <2>1. groups[i] \in Seq(P) /\ Len(groups[i]) = 1
    BY <1>1
  <2>2. DOMAIN groups[i] = {1}
    BY <2>1
  <2> QED BY <2>2 DEF JdbcReads
<1>3. ASSUME NEW c \in keyed
      PROVE  equal(c) # {}
  <2>1. CASE equal(KeyColumn[t]) # {}
    BY <1>3, <2>1
  <2>2. CASE equal(KeyColumn[t]) = {}
    <3>1. some # {} /\ c = CHOOSE x \in some : TRUE
      BY <1>3, <2>2
    <3>2. c \in some
      <4> HIDE DEF some
      <4> QED BY <3>1
    <3> QED BY <3>2
  <2> QED BY <2>1, <2>2
<1>4. ASSUME NEW c \in keyed
      PROVE  Compares(groups[Min(equal(c))][1], row[c])
  <2>1. equal(c) \subseteq Nat /\ equal(c) # {}
    <3>1. DOMAIN groups \subseteq Nat
      BY <1>1
    <3>2. equal(c) \subseteq DOMAIN groups
      OBVIOUS
    <3> HIDE DEF equal, keyed
    <3> QED BY <1>3, <3>1, <3>2
  <2>2. Min(equal(c)) \in equal(c)
    <3> DEFINE S == equal(c)
    <3> HIDE DEF S
    <3> SUFFICES Min(S) \in S
      BY DEF S
    <3>1. \E x \in S : \A y \in S : x <= y
      BY <2>1, LeastNatural DEF S
    <3> QED BY <3>1 DEF Min
  <2>3. Min(equal(c)) \in ands /\ groups[Min(equal(c))][1].col = c
    BY <2>2
  <2> QED BY <1>2, <2>3
<1>5. CoreReads(t, groups, row) <=>
        /\ \A c \in keyed : Compares(groups[Min(equal(c))][1], row[c])
        /\ \A i \in ands : \/ groups[i][1].col \in keyed /\ (groups[i][1].col = KeyColumn[t] \/ groups[i][1].op = "=")
                           \/ Compares(groups[i][1], row[groups[i][1].col])
  BY DEF CoreReads
<1> HIDE DEF ands, equal, keyed
<1> QED BY <1>2, <1>4, <1>5

(* A sequence without one member has only its members.                     *)
LEMMA RestOf ==
  ASSUME NEW P, NEW groups \in Seq(P), NEW n \in DOMAIN groups
  PROVE  /\ RemoveAt(groups, n) \in Seq(P)
         /\ \A i \in DOMAIN RemoveAt(groups, n) : \E k \in DOMAIN groups : RemoveAt(groups, n)[i] = groups[k]
<1> DEFINE front == SubSeq(groups, 1, n - 1)
           back == SubSeq(groups, n + 1, Len(groups))
<1>1. n \in Nat /\ n >= 1 /\ n <= Len(groups) /\ Len(groups) \in Nat
  OBVIOUS
<1>2. front \in Seq(P) /\ Len(front) = n - 1 /\ \A i \in 1 .. n - 1 : front[i] = groups[i]
  BY <1>1
<1>3. back \in Seq(P) /\ Len(back) = Len(groups) - n /\ \A i \in 1 .. Len(groups) - n : back[i] = groups[n + i]
  BY <1>1
<1>4. RemoveAt(groups, n) = front \o back
  BY DEF RemoveAt
<1> HIDE DEF front, back
<1>5. front \o back \in Seq(P) /\ Len(front \o back) = Len(front) + Len(back)
  <2>1. front \in Seq(P) /\ back \in Seq(P)
    BY <1>2, <1>3
  <2> QED BY ONLY <2>1
<1>6. ASSUME NEW i \in DOMAIN (front \o back)
      PROVE  \E k \in DOMAIN groups : (front \o back)[i] = groups[k]
  <2>1. i \in 1 .. Len(groups) - 1
    BY <1>1, <1>2, <1>3, <1>5
  <2>2. CASE i <= n - 1
    <3>1. (front \o back)[i] = front[i] /\ i \in 1 .. n - 1 /\ i \in DOMAIN groups
      BY <1>1, <1>2, <1>3, <2>1, <2>2
    <3> QED BY <1>2, <3>1
  <2>3. CASE ~ (i <= n - 1)
    <3> DEFINE f == Len(front)
               b == Len(back)
    <3>6. f = n - 1 /\ b = Len(groups) - n /\ Len(groups) \in Nat /\ n \in 1 .. Len(groups)
      BY ONLY n \in DOMAIN groups, <1>1, <1>2, <1>3
    <3>3. /\ f \in Nat /\ b \in Nat /\ i \in f + 1 .. f + b /\ f = n - 1
          /\ i - (n - 1) \in 1 .. Len(groups) - n
      <4> HIDE DEF f, b
      <4> QED BY ONLY <2>1, <2>3, <3>6
    <3>4. front \in Seq(P) /\ back \in Seq(P)
      BY <1>2, <1>3
    <3>5. (front \o back)[i] = back[i - f]
      BY ONLY <3>3, <3>4
    <3>1. (front \o back)[i] = back[i - (n - 1)] /\ i - (n - 1) \in 1 .. Len(groups) - n
      BY ONLY <3>3, <3>5
    <3>2. n + (i - (n - 1)) \in DOMAIN groups
      BY <1>1, <2>1, <2>3
    <3> QED BY <1>3, <3>1, <3>2
  <2> QED BY <1>1, <2>1, <2>2, <2>3
<1> QED BY <1>4, <1>5, <1>6

(* Every row that satisfies the predicates is read by one of the fetches. *)
LEMMA PartsCover ==
  ASSUME NEW t, NEW groups, Grouped(groups), NEW storage
  PROVE  /\ \A g \in Parts(t, groups, storage) : Grouped(g)
         /\ Parts(t, groups, storage) # {} /\ IsFiniteSet(Parts(t, groups, storage))
         /\ \A row : JdbcReads(groups, row) => \E g \in Parts(t, groups, storage) : JdbcReads(g, row)
<1> DEFINE able == {i \in DOMAIN groups : Splits(t, groups[i])}
           n == Min(able)
           rest == RemoveAt(groups, n)
           whole == storage = "jdbc" \/ ~CrossPartition(t, groups) \/ able = {}
           part(p) == <<<<p>>>> \o rest
<1>1. Parts(t, groups, storage) = IF whole THEN {groups} ELSE {part(p) : p \in ToSet(groups[n])}
  BY DEF Parts
<1>2. CASE whole
  <2>1. Parts(t, groups, storage) = {groups}
    BY <1>1, <1>2
  <2> QED BY <2>1, FS_Singleton
<1>3. CASE ~ whole
  <2>0. Parts(t, groups, storage) = {part(p) : p \in ToSet(groups[n])}
    BY <1>1, <1>3
  <2>1. PICK P : groups \in Seq(Seq(P))
    BY DEF Grouped
  <2>2. n \in able
    <3>1. able \subseteq Nat /\ able # {}
      <4>1. DOMAIN groups \subseteq Nat
        BY <2>1
      <4> QED BY <1>3, <4>1
    <3> HIDE DEF able
    <3>2. \E x \in able : \A y \in able : x <= y
      BY <3>1, LeastNatural
    <3> QED BY <3>2 DEF Min
  <2>3. n \in DOMAIN groups /\ groups[n] \in Seq(P) /\ Splits(t, groups[n])
    BY <2>1, <2>2
  <2> HIDE DEF n, whole, able
  <2>4. rest \in Seq(Seq(P)) /\ \A i \in DOMAIN rest : \E k \in DOMAIN groups : rest[i] = groups[k]
    <3> DEFINE S == Seq(P)
    <3> HIDE DEF S
    <3>1. groups \in Seq(S)
      BY <2>1 DEF S
    <3> QED BY <2>3, <3>1, RestOf DEF S
  <2> HIDE DEF rest
  <2>5. \A p \in ToSet(groups[n]) : p \in P /\ \E i \in DOMAIN groups[n] : p = groups[n][i]
    BY <2>3, ToSetOf
  <2>6. \A i \in DOMAIN groups[n] : groups[n][i] \in ToSet(groups[n])
    BY <2>3, ToSetOf
  <2>7. ASSUME NEW p \in ToSet(groups[n])
        PROVE  /\ part(p) \in Seq(Seq(P))
               /\ \A i \in DOMAIN part(p) : part(p)[i] = <<p>> \/ \E k \in DOMAIN groups : part(p)[i] = groups[k]
    <3> DEFINE one == <<<<p>>>>
               all == one \o rest
    <3>1. one \in Seq(Seq(P)) /\ Len(one) = 1 /\ one[1] = <<p>>
      BY <2>5
    <3> HIDE DEF one
    <3> DEFINE S == Seq(P)
    <3>a. one \in Seq(S) /\ rest \in Seq(S)
      BY <2>4, <3>1
    <3>2. all \in Seq(Seq(P)) /\ Len(all) = 1 + Len(rest)
      <4> HIDE DEF S
      <4>1. one \o rest \in Seq(S) /\ Len(one \o rest) = Len(one) + Len(rest)
        BY <3>a
      <4> QED BY <3>1, <4>1 DEF S
    <3>3. ASSUME NEW i \in DOMAIN all
          PROVE  all[i] = <<p>> \/ \E k \in DOMAIN groups : all[i] = groups[k]
      <4>1. i \in 1 .. 1 + Len(rest) /\ Len(rest) \in Nat
        BY <2>4, <3>2
      <4>2. CASE i = 1
        BY <2>4, <3>1, <4>1, <4>2
      <4>3. CASE i # 1
        <5>1. i - 1 \in 1 .. Len(rest) /\ i \in 2 .. 1 + Len(rest) /\ DOMAIN rest = 1 .. Len(rest)
          BY <2>4, <4>1, <4>3
        <5>2. (one \o rest)[i] = rest[i - 1]
          <6> HIDE DEF S
          <6>1. Len(one) = 1 /\ Len(rest) \in Nat
            BY <3>1, <4>1
          <6>2. i > Len(one) /\ i <= Len(one) + Len(rest) /\ i - Len(one) = i - 1 /\ i \in Nat
            BY <5>1, <6>1
          <6>3. i \in 1 .. Len(one) + Len(rest)
            BY <6>1, <6>2
          <6>4. (one \o rest)[i] = rest[i - Len(one)]
            BY ONLY <3>a, <6>2, <6>3
          <6> QED BY <6>2, <6>4
        <5> HIDE DEF all
        <5>3. all[i] = rest[i - 1] /\ i - 1 \in DOMAIN rest
          BY <5>1, <5>2 DEF all
        <5> QED BY <2>4, <5>3
      <4> QED BY <4>2, <4>3
    <3> QED BY <3>2, <3>3 DEF one
  <2>8. \A g \in Parts(t, groups, storage) : Grouped(g)
    BY <2>0, <2>7 DEF Grouped
  <2>9. ToSet(groups[n]) # {}
    <3> SUFFICES ASSUME DOMAIN groups[n] = {} PROVE FALSE
      BY <2>6
    <3>1. Cardinality({groups[n][i].val : i \in DOMAIN groups[n]}) > 1
      BY <2>3 DEF Splits
    <3>2. {groups[n][i].val : i \in DOMAIN groups[n]} = {}
      OBVIOUS
    <3>3. Cardinality({}) = 0
      BY FS_EmptySet
    <3> QED BY <3>1, <3>2, <3>3
  <2>10. IsFiniteSet(Parts(t, groups, storage))
    <3> DEFINE f == [p \in ToSet(groups[n]) |-> part(p)]
               g == groups[n]
    <3>1. IsFiniteSet(ToSet(g))
      <4>1. ToSet(g) = {g[i] : i \in 1 .. Len(g)} /\ Len(g) \in Nat
        BY <2>3 DEF ToSet
      <4>2. IsFiniteSet(1 .. Len(g))
        BY <4>1, FS_Interval
      <4> HIDE DEF g
      <4> QED BY <4>1, <4>2, ImageFinite
    <3>2. Parts(t, groups, storage) = {f[p] : p \in ToSet(g)}
      BY <2>0
    <3> HIDE DEF f, g
    <3> QED BY <3>1, <3>2, ImageFinite
  <2>11. ASSUME NEW row, JdbcReads(groups, row)
         PROVE  \E g \in Parts(t, groups, storage) : JdbcReads(g, row)
    <3>1. PICK i \in DOMAIN groups[n] : Compares(groups[n][i], row[groups[n][i].col])
      BY <2>3, <2>11 DEF JdbcReads
    <3> DEFINE p == groups[n][i]
    <3>2. p \in ToSet(groups[n]) /\ Compares(p, row[p.col])
      BY <2>6, <3>1
    <3>3. part(p) \in Parts(t, groups, storage)
      BY <2>0, <3>2
    <3> HIDE DEF p, part
    <3>4. ASSUME NEW k \in DOMAIN part(p)
          PROVE  \E m \in DOMAIN part(p)[k] : Compares(part(p)[k][m], row[part(p)[k][m].col])
      <4>1. CASE part(p)[k] = <<p>>
        <5>1. 1 \in DOMAIN <<p>> /\ <<p>>[1] = p
          OBVIOUS
        <5> QED BY <3>2, <4>1, <5>1
      <4>2. CASE \E h \in DOMAIN groups : part(p)[k] = groups[h]
        BY <2>11, <4>2 DEF JdbcReads
      <4> QED BY <2>7, <3>2, <4>1, <4>2 DEF part
    <3>5. JdbcReads(part(p), row)
      BY <3>4 DEF JdbcReads
    <3> QED BY <3>3, <3>5
  <2>12. Parts(t, groups, storage) # {}
    BY <2>0, <2>9
  <2> QED BY <2>8, <2>10, <2>11, <2>12
<1> QED BY <1>2, <1>3

(* A finite set, put in an order, has its members.                         *)
LEMMA SequenceOf ==
  ASSUME NEW S, IsFiniteSet(S)
  PROVE  /\ SetToSeq(S) \in Seq(S)
         /\ \A x \in S : \E i \in DOMAIN SetToSeq(S) : SetToSeq(S)[i] = x
<1> DEFINE n == Cardinality(S)
           F == {f \in [1 .. n -> S] : IsInjective(f)}
           g == SetToSeq(S)
<1>1. n \in Nat /\ ExistsBijection(1 .. n, S)
  BY FS_CardinalityType
<1>2. F # {}
  <2>1. \E f \in Bijection(1 .. n, S) : TRUE
    BY <1>1 DEF ExistsBijection
  <2> HIDE DEF n
  <2> QED BY <2>1 DEF Bijection, Injection
<1>3. g \in F
  <2>1. g = CHOOSE f \in [1 .. n -> S] : IsInjective(f)
    BY DEF SetToSeq
  <2> HIDE DEF g, n
  <2> QED BY <1>2, <2>1
<1> HIDE DEF g
<1>4. g \in [1 .. n -> S] /\ g \in Injection(1 .. n, S)
  BY <1>3 DEF Injection
<1>5. IsFiniteSet(1 .. n) /\ Cardinality(1 .. n) = n
  <2> HIDE DEF n
  <2> QED BY <1>1, FS_Interval
<1>6. g \in Surjection(1 .. n, S)
  BY <1>4, <1>5, FS_Injection
<1> HIDE DEF n, F
<1>7. g \in Seq(S)
  BY <1>1, <1>4
<1>8. \A x \in S : \E i \in DOMAIN g : g[i] = x
  BY <1>4, <1>6 DEF Surjection
<1> QED BY <1>7, <1>8 DEF g

(* The columns needed of a table are its own, and its key is one.          *)
LEMMA NeededFacts ==
  ASSUME NEW q, IsQuery(q), NEW t \in TablesOf(q)
  PROVE  t \in Tables /\ Needed(q, t) \subseteq Columns[t] /\ KeyColumn[t] \in Needed(q, t)
<1>1. PICK x \in Entries(q) : t = x.table
  BY DEF TablesOf
<1>2. t \in Tables /\ KeyColumn[t] \in Columns[t]
  BY <1>1, EntriesOf, FetchPlanAssumption
<1>3. {ref.col : ref \in {r \in NamesIn(q) : Names(q, r, t)}} \subseteq Columns[t]
  <2> SUFFICES ASSUME NEW ref \in NamesIn(q), Names(q, ref, t) PROVE ref.col \in Columns[t]
    OBVIOUS
  <2>1. PICK y \in Entries(q) : y.alias = ref.alias /\ y.table = t
    BY DEF Names
  <2> QED BY <2>1 DEF IsQuery
<1> DEFINE named == {ref.col : ref \in {r \in NamesIn(q) : Names(q, r, t)}}
<1>4. Needed(q, t) = Columns[t] \/ Needed(q, t) = named \cup {KeyColumn[t]}
  BY DEF Needed
<1> HIDE DEF named
<1> QED BY <1>2, <1>3, <1>4 DEF named

(* What the fetches of a query are: of its tables, with the columns that   *)
(* are needed, and one for each part.                                      *)
FetchesFit(q, storage, fetcher, fs) ==
  /\ fs \in Seq(Fetch)
  /\ \A i \in DOMAIN fs : fs[i].table \in TablesOf(q) /\ fs[i].columns = Needed(q, fs[i].table)
  /\ \A t \in TablesOf(q) : \A g \in Parts(t, Agreed(q, t), storage) :
       \E i \in DOMAIN fs : fs[i].table = t /\ fs[i].keeps = {r \in Rows[t] : Reads(t, g, r, fetcher)}

(* The fetches of a query: of each of its tables, one for each part *)
LEMMA FetchesFacts ==
  ASSUME NEW q, IsQuery(q), NEW storage, NEW fetcher
  PROVE  FetchesFit(q, storage, fetcher, FetchesOf(q, storage, fetcher))
<1> DEFINE of(t) == {[table |-> t, groups |-> g] : g \in Parts(t, Agreed(q, t), storage)}
           S == UNION {of(t) : t \in TablesOf(q)}
           parts == SetToSeq(S)
           fs == FetchesOf(q, storage, fetcher)
           fetch(p) == [table |-> p.table, columns |-> Needed(q, p.table),
                        keeps |-> {r \in Rows[p.table] : Reads(p.table, p.groups, r, fetcher)}]
<1>1. TablesOf(q) \subseteq Tables
  BY NeededFacts
<1>2. ASSUME NEW t \in TablesOf(q)
      PROVE  IsFiniteSet(of(t))
  <2> DEFINE P == Parts(t, Agreed(q, t), storage)
             f == [g \in P |-> [table |-> t, groups |-> g]]
  <2>1. IsFiniteSet(P)
    BY AgreedGrouped, PartsCover
  <2>2. of(t) = {f[g] : g \in P}
    OBVIOUS
  <2> HIDE DEF f, P
  <2> QED BY <2>1, <2>2, ImageFinite
<1>3. IsFiniteSet(S)
  <2> DEFINE f == [t \in TablesOf(q) |-> of(t)]
             all == {f[t] : t \in TablesOf(q)}
  <2>1. IsFiniteSet(TablesOf(q))
    BY <1>1, FS_Subset, FetchPlanAssumption
  <2>2. IsFiniteSet(all)
    <3> HIDE DEF f
    <3> QED BY <2>1, ImageFinite
  <2>3. \A T \in all : IsFiniteSet(T)
    <3> HIDE DEF of
    <3> QED BY <1>2
  <2>4. S = UNION all
    OBVIOUS
  <2> HIDE DEF all, S
  <2> QED BY <2>2, <2>3, <2>4, FS_UNION
<1>4. parts \in Seq(S) /\ \A p \in S : \E i \in DOMAIN parts : parts[i] = p
  <2> HIDE DEF S
  <2> QED BY <1>3, SequenceOf
<1>5. fs = [i \in DOMAIN parts |-> fetch(parts[i])]
  BY DEF FetchesOf
<1>6. \A p \in S : p.table \in TablesOf(q) /\ \E g : p = [table |-> p.table, groups |-> g]
  OBVIOUS
<1>7. \A t \in TablesOf(q) : \A g \in Parts(t, Agreed(q, t), storage) : [table |-> t, groups |-> g] \in S
  OBVIOUS
<1> HIDE DEF parts, S, fs
<1>8. DOMAIN parts = 1 .. Len(parts) /\ Len(parts) \in Nat /\ \A i \in DOMAIN parts : parts[i] \in S
  BY <1>4
<1>9. ASSUME NEW p \in S
      PROVE  fetch(p) \in Fetch /\ fetch(p).table \in TablesOf(q) /\ fetch(p).columns = Needed(q, fetch(p).table)
  <2>1. p.table \in Tables /\ Needed(q, p.table) \subseteq Columns[p.table] /\ p.table \in TablesOf(q)
    BY <1>6, NeededFacts
  <2>2. fetch(p).keeps \subseteq Rows[p.table]
    OBVIOUS
  <2> QED BY <2>1, <2>2 DEF Fetch
<1>10. fs \in Seq(Fetch)
  <2> HIDE DEF fetch
  <2> QED BY <1>5, <1>8, <1>9
<1>11. \A i \in DOMAIN fs : fs[i].table \in TablesOf(q) /\ fs[i].columns = Needed(q, fs[i].table)
  <2> HIDE DEF fetch
  <2> QED BY <1>5, <1>8, <1>9
<1>12. ASSUME NEW t \in TablesOf(q), NEW g \in Parts(t, Agreed(q, t), storage)
       PROVE  \E i \in DOMAIN fs : fs[i].table = t /\ fs[i].keeps = {r \in Rows[t] : Reads(t, g, r, fetcher)}
  <2> DEFINE p == [table |-> t, groups |-> g]
  <2>1. PICK i \in DOMAIN parts : parts[i] = p
    BY <1>4, <1>7
  <2>2. fs[i] = fetch(p) /\ i \in DOMAIN fs
    BY <1>5, <2>1
  <2>3. fetch(p).table = t /\ fetch(p).keeps = {r \in Rows[t] : Reads(t, g, r, fetcher)}
    OBVIOUS
  <2> HIDE DEF p, fetch
  <2> QED BY <2>2, <2>3
<1> QED BY <1>10, <1>11, <1>12 DEF fs, FetchesFit

(* What is run *)
Plans == {Planned(j) : j \in Jobs}

(* What is known of a plan: its fetches are of its tables, each with the   *)
(* columns that the statement needs, and every row that satisfies the      *)
(* predicates is read by one of them.                                      *)
LEMMA JobFacts ==
  ASSUME NEW j \in Plans
  PROVE  /\ IsQuery(j.query)
         /\ j.fetches \in Seq(Fetch) /\ j.limit \in Nat /\ j.owned \in BOOLEAN
         /\ \A i \in DOMAIN j.fetches :
              /\ j.fetches[i].table \in Tables
              /\ KeyColumn[j.fetches[i].table] \in j.fetches[i].columns
              /\ FetchedColumns(j, j.fetches[i].table) = j.fetches[i].columns
         /\ \A t \in TablesOf(j.query) :
              /\ FetchedColumns(j, t) = Needed(j.query, t)
              /\ \A r \in Rows[t] : JdbcReads(Agreed(j.query, t), r) =>
                   \E i \in DOMAIN j.fetches : j.fetches[i].table = t /\ r \in j.fetches[i].keeps
<1>1. PICK k \in Jobs : j = Planned(k)
  BY DEF Plans
<1>2. JobAssumption(k)
  BY PlanRunAssumption
<1> DEFINE q == k.query
           fs == FetchesOf(q, k.storage, k.fetcher)
<1>3. j.query = q /\ j.fetches = fs /\ j.limit = k.limit /\ j.owned = k.owned
  BY <1>1 DEF Planned
<1>4. IsQuery(q) /\ k.limit \in Nat /\ k.owned \in BOOLEAN
  BY <1>2 DEF JobAssumption
<1>fit. FetchesFit(q, k.storage, k.fetcher, fs)
  BY <1>4, FetchesFacts
<1> HIDE DEF q, fs
<1>5. /\ fs \in Seq(Fetch)
      /\ \A i \in DOMAIN fs : fs[i].table \in TablesOf(q) /\ fs[i].columns = Needed(q, fs[i].table)
      /\ \A t \in TablesOf(q) : \A g \in Parts(t, Agreed(q, t), k.storage) :
           \E i \in DOMAIN fs : fs[i].table = t /\ fs[i].keeps = {r \in Rows[t] : Reads(t, g, r, k.fetcher)}
  BY <1>fit DEF FetchesFit
<1>6. ASSUME NEW t
      PROVE  FetchedColumns(j, t) = UNION {f.columns : f \in {fs[i] : i \in {n \in DOMAIN fs : fs[n].table = t}}}
  BY <1>3 DEF FetchedColumns
<1>7. ASSUME NEW t, NEW i \in DOMAIN fs, fs[i].table = t
      PROVE  FetchedColumns(j, t) = Needed(q, t)
  <2> DEFINE same == {fs[n] : n \in {m \in DOMAIN fs : fs[m].table = t}}
  <2>1. \A f \in same : f.columns = Needed(q, t)
    BY <1>5
  <2>2. fs[i] \in same
    BY <1>7
  <2>3. FetchedColumns(j, t) = UNION {f.columns : f \in same}
    BY <1>6
  <2> HIDE DEF same
  <2> QED BY <2>1, <2>2, <2>3
<1>8. ASSUME NEW i \in DOMAIN fs
      PROVE  /\ fs[i].table \in Tables
             /\ KeyColumn[fs[i].table] \in fs[i].columns
             /\ FetchedColumns(j, fs[i].table) = fs[i].columns
  BY <1>4, <1>5, <1>7, NeededFacts
<1>9. ASSUME NEW t \in TablesOf(q)
      PROVE  /\ FetchedColumns(j, t) = Needed(q, t)
             /\ \A r \in Rows[t] : JdbcReads(Agreed(q, t), r) => \E i \in DOMAIN fs : fs[i].table = t /\ r \in fs[i].keeps
  <2> DEFINE groups == Agreed(q, t)
             P == Parts(t, groups, k.storage)
  <2>1. /\ \A g \in P : Grouped(g)
        /\ P # {}
        /\ \A row : JdbcReads(groups, row) => \E g \in P : JdbcReads(g, row)
    BY <1>4, AgreedGrouped, PartsCover
  <2>2. FetchedColumns(j, t) = Needed(q, t)
    <3>1. PICK g \in P : TRUE
      BY <2>1
    <3>2. PICK i \in DOMAIN fs : fs[i].table = t
      BY <1>5, <3>1
    <3> QED BY <1>7, <3>2
  <2>3. ASSUME NEW r \in Rows[t], JdbcReads(groups, r)
        PROVE  \E i \in DOMAIN fs : fs[i].table = t /\ r \in fs[i].keeps
    <3>1. PICK g \in P : JdbcReads(g, r)
      BY <2>1, <2>3
    <3>2. Reads(t, g, r, k.fetcher)
      BY <2>1, <3>1, CoreReadsMore DEF Reads
    <3>3. PICK i \in DOMAIN fs : fs[i].table = t /\ fs[i].keeps = {x \in Rows[t] : Reads(t, g, x, k.fetcher)}
      BY <1>5
    <3> QED BY <3>2, <3>3
  <2> QED BY <2>2, <2>3
<1> QED BY <1>3, <1>4, <1>5, <1>8, <1>9

(* Over what the fetches of a plan leave, its statement returns what it    *)
(* returns over the whole tables.                                          *)
LEMMA PlansSuffice ==
  ASSUME NEW j \in Plans, StarOverNatural(j.query)
  PROVE  FetchesSuffice(j)
<1> SUFFICES ASSUME NEW contents \in Contents
             PROVE  Answer(j.query, Fetched(j, contents)) = Answer(j.query, Full(contents))
  BY DEF FetchesSuffice
<1>1. \A t \in Tables : /\ IsFiniteSet(contents[t]) /\ contents[t] \subseteq Rows[t]
                        /\ \A r, s \in contents[t] : Key(t, r) = Key(t, s) => r = s
  BY PlanRunAssumption DEF Keyed
<1>2. \A t \in Tables : Left(j, contents)[t] = FetchedRows(j, t, contents) /\ LeftCols(j)[t] = FetchedColumns(j, t)
  BY DEF Left, LeftCols
<1>3. ASSUME NEW t \in TablesOf(j.query)
      PROVE  /\ t \in Tables /\ LeftCols(j)[t] = Needed(j.query, t)
             /\ \A r \in contents[t] : JdbcReads(Agreed(j.query, t), r) => r \in Left(j, contents)[t]
  <2>1. t \in Tables
    BY JobFacts, NeededFacts
  <2>2. ASSUME NEW r \in contents[t], JdbcReads(Agreed(j.query, t), r)
        PROVE  r \in Left(j, contents)[t]
    <3>1. PICK i \in DOMAIN j.fetches : j.fetches[i].table = t /\ r \in j.fetches[i].keeps
      BY <1>1, <2>1, <2>2, JobFacts
    <3> QED BY <1>2, <2>1, <3>1 DEF FetchedRows
  <2> QED BY <1>2, <2>1, <2>2, JobFacts
<1>4. \A t \in Tables : Left(j, contents)[t] \subseteq contents[t]
  BY <1>2 DEF FetchedRows
<1>5. Enough(j, contents)
  BY <1>1, <1>3, <1>4, JobFacts DEF Enough, StarOverNatural
<1> QED BY <1>1, <1>5, AnswersAgree

----------------------------------------------------------------------------
(* The inductive invariant                                                 *)

Typed ==
  /\ job \in Plans /\ db \in Contents /\ own \in Writes \cup {Nothing}
  /\ job.owned => own = Nothing
  /\ tx \in {"none", "active", "committed", "aborted"}
  /\ pc \in {"start", "fetching", "querying", "done"}
  /\ scans \in Seq(SUBSET UNION {Rows[t] : t \in Tables}) /\ Len(scans) <= Len(job.fetches)
  /\ outcome \in {"running", "answered", "too many", "after write", "failed"}
  /\ view = None \/ view \in Contents
  /\ changes \in 0 .. MaxChanges

(* Each scan read the whole of what some committed state had for it, and   *)
(* nothing that the transaction has written.                               *)
Scanned ==
  \A i \in DOMAIN scans :
    /\ \E contents \in Contents : scans[i] = Scan(job.fetches[i], contents)
    /\ Cardinality(scans[i]) <= job.limit
    /\ \A r \in scans[i] : Key(job.fetches[i].table, r) \notin own[job.fetches[i].table].keys
    /\ own[job.fetches[i].table].rows \cap job.fetches[i].keeps = {}

ScannedRows(t) == UNION {scans[i] : i \in {n \in DOMAIN scans : job.fetches[n].table = t}}

(* H2 has each row of the scans once. *)
Loaded ==
  loaded = [t \in Tables |-> Once({Image(r, FetchedColumns(job, t)) : r \in ScannedRows(t)})]

InOrder ==
  /\ pc = "start" => scans = <<>>
  /\ pc = "querying" \/ outcome = "answered" => Len(scans) = Len(job.fetches)
  /\ outcome # "running" <=> pc = "done"

Ended ==
  /\ job.owned =>
       /\ pc = "start" => tx = "none"
       /\ pc = "fetching" => tx = "active"
       /\ pc \in {"querying", "done"} => tx # "active"
  /\ ~job.owned =>
       /\ pc # "done" => tx = "active"
  /\ tx = "committed" => pc \in {"querying", "done"}

Viewed ==
  tx = "committed" =>
    /\ view \in Contents
    /\ \A i \in DOMAIN scans : scans[i] = Scan(job.fetches[i], view)

Seen == [t \in Tables |-> [columns |-> FetchedColumns(job, t), rows |-> loaded[t]]]
Answered == outcome = "answered" => answer = Answer(job.query, Seen)

Steady == changes = 0 /\ (job.owned \/ tx # "committed")
Still  == Steady => \A i \in DOMAIN scans : scans[i] = Scan(job.fetches[i], db)
Over   == \E i \in DOMAIN job.fetches : Cardinality(Scan(job.fetches[i], db)) > job.limit
Refused == Steady /\ outcome = "too many" => Over

IInv == Typed /\ Scanned /\ Loaded /\ InOrder /\ Ended /\ Viewed /\ Answered /\ Still /\ Refused

----------------------------------------------------------------------------
(* Of the operators                                                        *)

LEMMA ContentsFacts ==
  ASSUME NEW contents \in Contents
  PROVE  /\ contents \in [Tables -> SUBSET UNION {Rows[t] : t \in Tables}]
         /\ \A t \in Tables :
              /\ IsFiniteSet(contents[t]) /\ contents[t] \subseteq Rows[t]
              /\ \A r, s \in contents[t] : Key(t, r) = Key(t, s) => r = s
BY PlanRunAssumption DEF Keyed

(* A transaction that has written nothing changes nothing. *)
LEMMA NothingApplied ==
  ASSUME NEW contents \in Contents
  PROVE  Applied(Nothing, contents) = contents
BY ContentsFacts DEF Applied, Nothing

LEMMA AppliedIsContents ==
  ASSUME NEW contents \in Contents, NEW w \in Writes \cup {Nothing}
  PROVE  Applied(w, contents) \in Contents
BY NothingApplied, PlanRunAssumption

(* What is within the limit is the whole of the scan. *)
LEMMA SeenIsAll ==
  ASSUME job.limit \in Nat, NEW scan, NEW rows \in SeenOf(scan), Cardinality(rows) <= job.limit
  PROVE  rows = scan
BY DEF SeenOf

(* A scan, plain inserted, puts each of its rows in the table once: the    *)
(* primary key is among the columns.                                       *)
LEMMA InsertedOnce ==
  ASSUME NEW f, NEW t, f.table = t, KeyColumn[t] \in f.columns, NEW rows,
         \A r, s \in rows : Key(t, r) = Key(t, s) => r = s
  PROVE  Inserted(f, rows) = Once({Image(r, f.columns) : r \in rows})
<1> DEFINE images == {Image(r, f.columns) : r \in rows}
<1>1. ASSUME NEW m \in images
      PROVE  {[row |-> m, copy |-> n] : n \in 1 .. Cardinality({r \in rows : Image(r, f.columns) = m})} = {[row |-> m, copy |-> 1]}
  <2>1. PICK r \in rows : m = Image(r, f.columns)
    OBVIOUS
  <2>2. \A s \in rows : Image(s, f.columns) = m => s = r
    <3> SUFFICES ASSUME NEW s \in rows, Image(s, f.columns) = m
                 PROVE  s = r
      OBVIOUS
    <3>1. Image(s, f.columns)[KeyColumn[t]] = Image(r, f.columns)[KeyColumn[t]]
      BY <2>1
    <3>2. s[KeyColumn[t]] = r[KeyColumn[t]]
      BY <3>1 DEF Image
    <3> QED
      BY <3>2 DEF Key
  <2>3. {s \in rows : Image(s, f.columns) = m} = {r}
    BY <2>1, <2>2
  <2>4. Cardinality({r}) = 1
    BY FS_Singleton
  <2>5. 1 .. 1 = {1}
    OBVIOUS
  <2> QED
    BY <2>3, <2>4, <2>5
<1>2. Inserted(f, rows) = UNION {{[row |-> m, copy |-> 1]} : m \in images}
  BY <1>1 DEF Inserted
<1> QED
  BY <1>2 DEF Once

LEMMA RowsOfOnce ==
  ASSUME NEW images
  PROVE  {e.row : e \in Once(images)} = images
<1>1. \A m \in images : \E e \in Once(images) : e.row = m
  <2> TAKE m \in images
  <2>1. [row |-> m, copy |-> 1] \in Once(images)
    BY DEF Once
  <2>2. [row |-> m, copy |-> 1].row = m
    OBVIOUS
  <2> QED
    BY <2>1, <2>2
<1>2. \A e \in Once(images) : e.row \in images
  BY DEF Once
<1> QED
  BY <1>1, <1>2

LEMMA OnceMore ==
  ASSUME NEW images, NEW more
  PROVE  Once(images) \cup Once(more \ images) = Once(images \cup more)
BY DEF Once

----------------------------------------------------------------------------
LEMMA InitIInv == Init => IInv
<1> SUFFICES ASSUME Init PROVE IInv
  OBVIOUS
<1>1. scans = <<>> /\ DOMAIN scans = {} /\ Len(scans) = 0
  BY DEF Init
<1>2. job.fetches \in Seq(Fetch) /\ job.owned \in BOOLEAN
  BY JobFacts DEF Init, Plans
<1>3. Typed
  <2>1. job \in Plans
    BY DEF Init, Plans
  <2> QED
    BY <2>1, <1>1, <1>2, PlanRunAssumption DEF Init, Typed
<1>4. Loaded
  <2>1. \A t \in Tables : ScannedRows(t) = {}
    BY <1>1 DEF ScannedRows
  <2>2. \A t \in Tables : Once({Image(r, FetchedColumns(job, t)) : r \in ScannedRows(t)}) = {}
    BY <2>1 DEF Once
  <2> QED
    BY <2>2 DEF Init, Loaded
<1> QED
  BY <1>1, <1>2, <1>3, <1>4 DEF Init, IInv, Scanned, InOrder, Ended, Viewed, Answered, Still, Refused, Typed

----------------------------------------------------------------------------
(* A step that reads nothing leaves what has been read as it is. *)
LEMMA NothingRead ==
  ASSUME IInv, UNCHANGED <<job, own, scans, loaded>>
  PROVE  Scanned' /\ Loaded'
BY DEF IInv, Scanned, Loaded, ScannedRows, FetchedColumns, Scan, Once, Image, Key

(* A scan within the limit *)
LEMMA FetchStep ==
  ASSUME IInv, FetchRows
  PROVE  IInv'
<1> DEFINE n == Len(scans) + 1
           f == job.fetches[n]
           t == f.table
<1> USE DEF NextFetch
<1>1. PICK rows \in SeenOf(Scan(f, db)) :
        /\ Cardinality(rows) <= job.limit
        /\ scans' = Append(scans, rows)
        /\ Load(f, rows)
  BY DEF FetchRows
<1>2. /\ pc = "fetching" /\ Len(scans) < Len(job.fetches) /\ ~Overlaps(f)
      /\ UNCHANGED <<job, db, own, tx, pc, outcome, answer, view, changes>>
  BY DEF FetchRows, Fetching
<1>3. /\ job \in Plans /\ db \in Contents
      /\ scans \in Seq(SUBSET UNION {Rows[u] : u \in Tables})
  BY DEF IInv, Typed
<1>4. /\ job.fetches \in Seq(Fetch) /\ job.limit \in Nat
      /\ n \in DOMAIN job.fetches /\ n \in Nat
      /\ DOMAIN scans = 1 .. Len(scans) /\ Len(scans) \in Nat
  BY <1>2, <1>3, JobFacts
<1>5. t \in Tables /\ KeyColumn[t] \in f.columns /\ FetchedColumns(job, t) = f.columns
  BY <1>3, <1>4, JobFacts
<1>6. rows = Scan(f, db)
  BY <1>1, <1>4, SeenIsAll
<1>7. /\ rows \subseteq db[t] /\ rows \subseteq f.keeps
      /\ \A r, s \in rows : Key(t, r) = Key(t, s) => r = s
  BY <1>3, <1>5, <1>6, ContentsFacts DEF Scan
<1>8. /\ DOMAIN scans' = DOMAIN scans \cup {n} /\ n \notin DOMAIN scans
      /\ scans'[n] = rows /\ Len(scans') = n
      /\ \A i \in DOMAIN scans : scans'[i] = scans[i]
  BY <1>1, <1>3, <1>4
<1>9. scans' \in Seq(SUBSET UNION {Rows[u] : u \in Tables})
  <2>1. rows \in SUBSET UNION {Rows[u] : u \in Tables}
    BY <1>3, <1>5, <1>7, ContentsFacts
  <2> QED
    BY <2>1, <1>1, <1>3
<1>10. Typed'
  <2>1. n <= Len(job.fetches)
    BY <1>4
  <2>2. Len(scans') <= Len(job'.fetches)
    BY <2>1, <1>2, <1>8
  <2> QED
    BY <2>2, <1>2, <1>9 DEF IInv, Typed
<1>11. Scanned'
  <2>1. ASSUME NEW i \in DOMAIN scans'
        PROVE  /\ \E contents \in Contents : scans'[i] = Scan(job.fetches[i], contents)
               /\ Cardinality(scans'[i]) <= job.limit
               /\ \A r \in scans'[i] : Key(job.fetches[i].table, r) \notin own[job.fetches[i].table].keys
               /\ own[job.fetches[i].table].rows \cap job.fetches[i].keeps = {}
    <3>1. CASE i \in DOMAIN scans
      BY <3>1, <1>8 DEF IInv, Scanned
    <3>2. CASE i = n
      BY <3>2, <1>1, <1>2, <1>3, <1>6, <1>8 DEF Overlaps
    <3> QED
      BY <3>1, <3>2, <1>8
  <2> QED
    BY <2>1, <1>2 DEF Scanned, Scan, Key
<1>12. Loaded'
  <2> DEFINE sr(u) == UNION {scans'[i] : i \in {m \in DOMAIN scans' : job.fetches[m].table = u}}
             images(R) == {Image(r, f.columns) : r \in R}
  <2>1. sr(t) = ScannedRows(t) \cup rows /\ \A u \in Tables \ {t} : sr(u) = ScannedRows(u)
    BY <1>8 DEF ScannedRows
  <2>2. loaded = [u \in Tables |-> Once({Image(r, FetchedColumns(job, u)) : r \in ScannedRows(u)})]
    BY DEF IInv, Loaded
  <2>3. loaded[t] = Once(images(ScannedRows(t)))
    BY <2>2, <1>5
  <2>4. (IF First(t) THEN Inserted(f, rows) ELSE loaded[t] \cup Missing(f, rows)) = Once(images(sr(t)))
    <3>1. CASE First(t)
      <4>1. ScannedRows(t) = {}
        BY <3>1 DEF First, ScannedRows
      <4>2. sr(t) = rows
        BY <4>1, <2>1
      <4>3. Inserted(f, rows) = Once(images(rows))
        BY <1>5, <1>7, InsertedOnce
      <4> QED
        BY <3>1, <4>2, <4>3
    <3>2. CASE ~First(t)
      <4>1. {e.row : e \in loaded[t]} = images(ScannedRows(t))
        BY <2>3, RowsOfOnce
      <4>2. images(sr(t)) = images(ScannedRows(t)) \cup images(rows)
        BY <2>1
      <4>3. Missing(f, rows) = Once(images(rows) \ images(ScannedRows(t)))
        BY <4>1 DEF Missing
      <4>4. loaded[t] \cup Missing(f, rows) = Once(images(ScannedRows(t)) \cup images(rows))
        BY <2>3, <4>3, OnceMore
      <4> QED
        BY <3>2, <4>2, <4>4
    <3> QED
      BY <3>1, <3>2
  <2>5. loaded' = [loaded EXCEPT ![t] = Once(images(sr(t)))]
    BY <1>1, <2>4 DEF Load
  <2>6. loaded' = [u \in Tables |-> Once({Image(r, FetchedColumns(job, u)) : r \in sr(u)})]
    <3> DEFINE G == [u \in Tables |-> Once({Image(r, FetchedColumns(job, u)) : r \in sr(u)})]
    <3>1. ASSUME NEW u \in Tables PROVE loaded'[u] = G[u]
      <4>1. CASE u = t
        BY <4>1, <2>2, <2>5, <1>5
      <4>2. CASE u # t
        BY <4>2, <2>1, <2>2, <2>5
      <4> QED
        BY <4>1, <4>2
    <3>2. DOMAIN loaded' = Tables /\ loaded' = [u \in Tables |-> loaded'[u]]
      BY <2>2, <2>5
    <3> QED
      BY <3>1, <3>2
  <2> QED
    BY <2>6, <1>2 DEF Loaded, ScannedRows, FetchedColumns, Once, Image
<1>13. InOrder' /\ Ended'
  BY <1>2 DEF IInv, InOrder, Ended
<1>14. Viewed' /\ Answered' /\ Refused'
  BY <1>2 DEF IInv, Viewed, Answered, Refused, InOrder, Ended
<1>15. Still'
  BY <1>2, <1>6, <1>8 DEF IInv, Still, Steady, Scan
<1> QED
  BY <1>10, <1>11, <1>12, <1>13, <1>14, <1>15 DEF IInv

Quiet == UNCHANGED <<job, db, own, scans, loaded, view, changes>>

(* A step that reads and writes nothing keeps all that does not speak of   *)
(* how far the run has come.                                               *)
LEMMA QuietStep ==
  ASSUME IInv, Quiet
  PROVE  /\ Scanned' /\ Loaded'
         /\ tx' \in {"none", "active", "committed", "aborted"} /\ pc' \in {"start", "fetching", "querying", "done"}
              /\ outcome' \in {"running", "answered", "too many", "after write", "failed"} => Typed'
         /\ (tx' = "committed" <=> tx = "committed") => Viewed' /\ Still'
         /\ outcome' # "answered" \/ UNCHANGED <<outcome, answer>> => Answered'
         /\ outcome' # "too many" => Refused'
<1>1. Scanned' /\ Loaded'
  BY NothingRead DEF Quiet
<1>2. tx' \in {"none", "active", "committed", "aborted"} /\ pc' \in {"start", "fetching", "querying", "done"}
        /\ outcome' \in {"running", "answered", "too many", "after write", "failed"} => Typed'
  BY DEF IInv, Quiet, Typed
<1>3. (tx' = "committed" <=> tx = "committed") => Viewed'
  BY DEF IInv, Quiet, Viewed, Scan
<1>4. (tx' = "committed" <=> tx = "committed") => Still'
  BY DEF IInv, Quiet, Still, Steady, Scan
<1>5. outcome' # "answered" \/ UNCHANGED <<outcome, answer>> => Answered'
  BY DEF IInv, Quiet, Answered, Seen, FetchedColumns
<1>6. outcome' # "too many" => Refused'
  BY DEF Refused
<1> QED
  BY <1>1, <1>2, <1>3, <1>4, <1>5, <1>6

Exits == BeginFails \/ FetchTooMany \/ FetchAfterWrite \/ FetchFails \/ CommitFails \/ QueryFails

(* An exception, wherever it is raised *)
LEMMA ExitStep ==
  ASSUME IInv, Exits
  PROVE  IInv'
<1>1. Quiet
  BY DEF Exits, BeginFails, FetchTooMany, FetchAfterWrite, FetchFails, CommitFails, QueryFails, Fail, Quiet
<1>2. /\ outcome' \in {"too many", "after write", "failed"} /\ pc' = "done"
      /\ pc # "done" /\ UNCHANGED answer
      /\ tx' \in {tx, "aborted"}
      /\ ~job.owned => tx' = tx
      /\ job.owned => tx' = "aborted" \/ pc \in {"start", "querying"}
  BY DEF Exits, BeginFails, FetchTooMany, FetchAfterWrite, FetchFails, CommitFails, QueryFails, Fail, Raise,
         Fetching, AllFetched
<1>3. outcome = "running" /\ pc \in {"start", "fetching", "querying"}
  BY <1>2 DEF IInv, Typed, InOrder
<1>4. tx' = "committed" <=> tx = "committed"
  <2>1. CASE tx = "committed"
    <3>1. pc = "querying"
      BY <2>1, <1>2 DEF IInv, Ended
    <3>2. QueryFails
      BY <3>1 DEF Exits, BeginFails, FetchTooMany, FetchAfterWrite, FetchFails, CommitFails, Fetching, AllFetched
    <3> QED
      BY <3>2 DEF QueryFails
  <2> QED
    BY <2>1, <1>2
<1>5. Typed'
  BY <1>1, <1>2, QuietStep DEF IInv, Typed
<1>6. Scanned' /\ Loaded' /\ Viewed' /\ Still' /\ Answered'
  BY <1>1, <1>2, <1>4, QuietStep
<1>7. InOrder'
  BY <1>1, <1>2 DEF InOrder, Quiet
<1>8. Ended'
  BY <1>1, <1>2, <1>3 DEF IInv, Ended, Quiet, Typed
<1>9. Refused'
  <2>1. CASE FetchTooMany
    <3> DEFINE n == Len(scans) + 1
               scan == Scan(NextFetch, db)
    <3>1. PICK rows \in SeenOf(scan) : Cardinality(rows) > job.limit
      BY <2>1 DEF FetchTooMany
    <3>2. job \in Plans /\ db \in Contents /\ scans \in Seq(SUBSET UNION {Rows[t] : t \in Tables})
      BY DEF IInv, Typed
    <3>3. n \in DOMAIN job.fetches /\ NextFetch = job.fetches[n] /\ NextFetch.table \in Tables
      <4>1. Len(scans) < Len(job.fetches) /\ Len(scans) \in Nat /\ job.fetches \in Seq(Fetch)
        <5>1. Len(scans) < Len(job.fetches)
          BY <2>1 DEF FetchTooMany, Fetching
        <5>2. Len(scans) \in Nat
          BY <3>2
        <5>3. job.fetches \in Seq(Fetch)
          BY <3>2, JobFacts
        <5> QED
          BY <5>1, <5>2, <5>3
      <4>2. n \in DOMAIN job.fetches /\ NextFetch = job.fetches[n]
        BY <4>1 DEF NextFetch
      <4> QED
        BY <4>2, <3>2, JobFacts
    <3>4. IsFiniteSet(scan)
      <4>1. IsFiniteSet(db[NextFetch.table])
        BY <3>2, <3>3, ContentsFacts
      <4>2. scan \in SUBSET db[NextFetch.table]
        BY DEF Scan
      <4> QED
        BY <4>1, <4>2, FS_Subset
    <3>5. rows \in SUBSET scan /\ Cardinality(rows) <= Cardinality(scan)
      <4>1. rows \in SUBSET scan
        BY <3>1 DEF SeenOf
      <4> QED
        BY <4>1, <3>4, FS_Subset
    <3>6. Cardinality(rows) \in Nat /\ Cardinality(scan) \in Nat /\ job.limit \in Nat
      BY <3>2, <3>4, <3>5, JobFacts, FS_Subset, FS_CardinalityType
    <3>7. Cardinality(Scan(job.fetches[n], db)) > job.limit
      BY <3>1, <3>3, <3>5, <3>6
    <3>8. Over'
      BY <3>3, <3>7, <1>1 DEF Over, Quiet, Scan
    <3> QED
      BY <3>8 DEF Refused
  <2>2. CASE ~FetchTooMany
    <3>1. outcome' # "too many"
      BY <2>2 DEF Exits, BeginFails, FetchAfterWrite, FetchFails, CommitFails, QueryFails, Fail, Raise
    <3> QED
      BY <3>1, <1>1, QuietStep
  <2> QED
    BY <2>1, <2>2
<1> QED
  BY <1>5, <1>6, <1>7, <1>8, <1>9 DEF IInv

Turns == Begin \/ LeaveOpen \/ Query \/ CallerRollsBack

LEMMA TurnStep ==
  ASSUME IInv, Turns
  PROVE  IInv'
<1>1. Quiet
  BY DEF Turns, Begin, LeaveOpen, Query, CallerRollsBack, Quiet
<1>2. job \in Plans /\ job.owned \in BOOLEAN /\ job.fetches \in Seq(Fetch)
      /\ scans \in Seq(SUBSET UNION {Rows[t] : t \in Tables})
  BY JobFacts DEF IInv, Typed
<1>3. CASE Begin
  <2>1. tx' = "committed" <=> tx = "committed"
    BY <1>3 DEF Begin, IInv, Ended
  <2>2. Typed' /\ Scanned' /\ Loaded' /\ Viewed' /\ Still' /\ Answered'
    BY <1>1, <1>3, <2>1, QuietStep DEF Begin, IInv, Typed
  <2>3. Refused'
    BY <1>1, <1>3, QuietStep DEF Begin, IInv, InOrder
  <2>4. InOrder'
    BY <1>2, <1>3 DEF Begin, IInv, InOrder
  <2>5. Ended'
    BY <1>2, <1>3 DEF Begin, IInv, Ended
  <2> QED
    BY <2>2, <2>3, <2>4, <2>5 DEF IInv
<1>4. CASE LeaveOpen
  <2>1. Typed' /\ Scanned' /\ Loaded' /\ Viewed' /\ Still' /\ Answered'
    BY <1>1, <1>4, QuietStep DEF LeaveOpen, IInv, Typed
  <2>2. Refused'
    BY <1>1, <1>4, QuietStep DEF LeaveOpen, AllFetched, IInv, InOrder
  <2>3. InOrder'
    BY <1>4 DEF LeaveOpen, AllFetched, IInv, InOrder
  <2>4. Ended'
    BY <1>4 DEF LeaveOpen, AllFetched, IInv, Ended
  <2> QED
    BY <2>1, <2>2, <2>3, <2>4 DEF IInv
<1>5. CASE Query
  <2>1. Typed' /\ Scanned' /\ Loaded' /\ Viewed' /\ Still'
    BY <1>1, <1>5, QuietStep DEF Query, IInv, Typed
  <2>2. Refused'
    BY <1>1, <1>5, QuietStep DEF Query
  <2>3. Answered'
    BY <1>5 DEF Query, Answered, Seen, FetchedColumns
  <2>4. InOrder'
    BY <1>5 DEF Query, IInv, InOrder
  <2>5. Ended'
    BY <1>5 DEF Query, IInv, Ended
  <2> QED
    BY <2>1, <2>2, <2>3, <2>4, <2>5 DEF IInv
<1>6. CASE CallerRollsBack
  <2>1. Typed' /\ Scanned' /\ Loaded' /\ Viewed' /\ Still' /\ Answered'
    BY <1>1, <1>6, QuietStep DEF CallerRollsBack, IInv, Typed
  <2>2. Refused'
    BY <1>6 DEF CallerRollsBack, IInv, Refused, Steady, Over, Scan
  <2>3. InOrder'
    BY <1>6 DEF CallerRollsBack, IInv, InOrder
  <2>4. Ended'
    BY <1>6 DEF CallerRollsBack, IInv, Ended
  <2> QED
    BY <2>1, <2>2, <2>3, <2>4 DEF IInv
<1> QED
  BY <1>3, <1>4, <1>5, <1>6 DEF Turns

(* At a commit every scan is what it was. *)
LEMMA ReadAgain ==
  ASSUME IInv, Unchanged, NEW i \in DOMAIN scans
  PROVE  scans[i] = Scan(job.fetches[i], db)
<1>1. scans[i] \in SeenOf(Scan(job.fetches[i], db))
  BY DEF Unchanged
<1>2. Cardinality(scans[i]) <= job.limit /\ job.limit \in Nat
  BY JobFacts DEF IInv, Scanned, Typed
<1> QED
  BY <1>1, <1>2, SeenIsAll

LEMMA CommitStep ==
  ASSUME IInv, Commit
  PROVE  IInv'
<1>1. /\ pc = "fetching" /\ Len(scans) = Len(job.fetches) /\ job.owned /\ Unchanged
      /\ tx' = "committed" /\ view' = db /\ pc' = "querying"
      /\ UNCHANGED <<job, db, own, scans, loaded, outcome, answer, changes>>
  BY DEF Commit, AllFetched
<1>2. \A i \in DOMAIN scans : scans[i] = Scan(job.fetches[i], db)
  BY <1>1, ReadAgain
<1>3. Typed'
  BY <1>1 DEF IInv, Typed
<1>4. Scanned' /\ Loaded'
  BY <1>1, NothingRead
<1>5. Viewed' /\ Still'
  BY <1>1, <1>2 DEF IInv, Typed, Viewed, Still, Scan
<1>6. InOrder' /\ Ended'
  BY <1>1 DEF IInv, InOrder, Ended
<1>7. Answered' /\ Refused'
  BY <1>1 DEF IInv, InOrder, Answered, Refused
<1> QED
  BY <1>3, <1>4, <1>5, <1>6, <1>7 DEF IInv

(* The caller's writes change nothing that was read. *)
LEMMA CallerStep ==
  ASSUME IInv, CallerCommits
  PROVE  IInv'
<1>1. /\ pc = "done" /\ ~job.owned /\ Unchanged
      /\ tx' = "committed" /\ db' = Applied(own, db) /\ view' = db'
      /\ UNCHANGED <<job, own, pc, scans, loaded, outcome, answer, changes>>
  BY DEF CallerCommits
<1>2. /\ job \in Plans /\ db \in Contents /\ own \in Writes \cup {Nothing}
      /\ scans \in Seq(SUBSET UNION {Rows[t] : t \in Tables}) /\ Len(scans) <= Len(job.fetches)
  BY DEF IInv, Typed
<1>3. db' \in Contents
  BY <1>1, <1>2, AppliedIsContents
<1>4. ASSUME NEW i \in DOMAIN scans
      PROVE  scans[i] = Scan(job.fetches[i], Applied(own, db))
  <2> DEFINE f == job.fetches[i]
  <2>1. scans[i] = db[f.table] \cap f.keeps
    BY <1>1, <1>4, ReadAgain DEF Scan
  <2>2. /\ \A r \in scans[i] : Key(f.table, r) \notin own[f.table].keys
        /\ own[f.table].rows \cap f.keeps = {}
    BY <1>4 DEF IInv, Scanned
  <2>3. f.table \in Tables
    <3>1. job.fetches \in Seq(Fetch)
      BY <1>2, JobFacts
    <3>2. i \in DOMAIN job.fetches
      BY <3>1, <1>2, <1>4
    <3> QED
      BY <3>2, <1>2, JobFacts
  <2>4. Applied(own, db)[f.table] = {r \in db[f.table] : Key(f.table, r) \notin own[f.table].keys} \cup own[f.table].rows
    BY <2>3 DEF Applied
  <2> QED
    BY <2>1, <2>2, <2>4 DEF Scan
<1>5. Typed'
  BY <1>1, <1>3 DEF IInv, Typed
<1>6. Scanned' /\ Loaded'
  BY <1>1, NothingRead
<1>7. Viewed'
  BY <1>1, <1>3, <1>4 DEF Viewed, Scan
<1>8. InOrder' /\ Ended' /\ Answered'
  BY <1>1 DEF IInv, InOrder, Ended, Answered, Seen, FetchedColumns
<1>9. Still' /\ Refused'
  BY <1>1 DEF Still, Refused, Steady
<1> QED
  BY <1>5, <1>6, <1>7, <1>8, <1>9 DEF IInv

LEMMA OthersStep ==
  ASSUME IInv, Others
  PROVE  IInv'
<1>1. PICK w \in Writes : db' = Applied(w, db)
  BY DEF Others
<1>2. /\ changes' = changes + 1 /\ changes < MaxChanges
      /\ UNCHANGED <<job, own, tx, pc, scans, loaded, outcome, answer, view>>
  BY DEF Others
<1>3. db' \in Contents
  BY <1>1, AppliedIsContents DEF IInv, Typed
<1>4. changes' \in 0 .. MaxChanges /\ changes' # 0
  <2>1. changes \in 0 .. MaxChanges
    BY DEF IInv, Typed
  <2>2. MaxChanges \in Nat
    BY PlanRunAssumption
  <2> QED
    BY <2>1, <2>2, <1>2
<1>5. Typed'
  BY <1>2, <1>3, <1>4 DEF IInv, Typed
<1>6. Scanned' /\ Loaded'
  BY <1>2, NothingRead
<1>7. InOrder' /\ Ended' /\ Answered'
  BY <1>2, <1>4 DEF IInv, InOrder, Ended, Answered, Seen, FetchedColumns
<1>8. Viewed'
  BY <1>2 DEF IInv, Viewed, Scan
<1>9. Still' /\ Refused'
  BY <1>4 DEF Still, Refused, Steady
<1> QED
  BY <1>5, <1>6, <1>7, <1>8, <1>9 DEF IInv

LEMMA StutterStep ==
  ASSUME IInv, UNCHANGED vars
  PROVE  IInv'
<1>1. Scanned' /\ Loaded'
  BY NothingRead DEF vars
<1>2. Typed' /\ InOrder' /\ Ended' /\ Viewed'
  BY DEF IInv, vars, Typed, InOrder, Ended, Viewed, Scan
<1>3. Answered' /\ Still'
  BY QuietStep DEF vars, Quiet
<1>4. Refused'
  BY DEF IInv, vars, Refused, Steady, Over, Scan
<1> QED
  BY <1>1, <1>2, <1>3, <1>4 DEF IInv

LEMMA StepKeeps == IInv /\ [Next]_vars => IInv'
<1> SUFFICES ASSUME IInv, [Next]_vars PROVE IInv'
  OBVIOUS
<1>1. CASE FetchRows
  BY <1>1, FetchStep
<1>2. CASE Exits
  BY <1>2, ExitStep
<1>3. CASE Turns
  BY <1>3, TurnStep
<1>4. CASE Commit
  BY <1>4, CommitStep
<1>5. CASE CallerCommits
  BY <1>5, CallerStep
<1>6. CASE Others
  BY <1>6, OthersStep
<1>7. CASE UNCHANGED vars
  BY <1>7, StutterStep
<1> QED
  BY <1>1, <1>2, <1>3, <1>4, <1>5, <1>6, <1>7 DEF Next, Execute, Exits, Turns

LEMMA Invariance == Spec => []IInv
BY InitIInv, StepKeeps, PTL DEF Spec

----------------------------------------------------------------------------
(* What follows from it                                                    *)

LEMMA TypesFollow == IInv => TypeOK
<1> SUFFICES ASSUME IInv PROVE TypeOK
  OBVIOUS
<1>1. job.fetches \in Seq(Fetch) /\ Keyed(db)
  BY JobFacts, PlanRunAssumption DEF IInv, Typed
<1>2. view # None => Keyed(view)
  BY PlanRunAssumption DEF IInv, Typed
<1>3. loaded = [t \in Tables |-> Once({Image(r, FetchedColumns(job, t)) : r \in ScannedRows(t)})]
  BY DEF IInv, Loaded
<1>4. ASSUME NEW t \in Tables, NEW e \in loaded[t]
      PROVE  e.copy = 1 /\ DOMAIN e.row = FetchedColumns(job, t)
  <2>1. PICK r \in ScannedRows(t) : e = [row |-> Image(r, FetchedColumns(job, t)), copy |-> 1]
    BY <1>3, <1>4 DEF Once
  <2> QED
    BY <2>1 DEF Image
<1> QED
  BY <1>1, <1>2, <1>3, <1>4 DEF IInv, Typed, TypeOK

LEMMA EndFollows == IInv => EndedByItsOwner
BY DEF IInv, Ended, EndedByItsOwner

LEMMA LimitFollows == IInv => LimitExact
<1> SUFFICES ASSUME IInv, Steady
             PROVE  /\ outcome = "too many" => Over
                    /\ outcome = "answered" => ~Over
  BY DEF LimitExact, Steady, Over
<1>1. outcome = "too many" => Over
  BY DEF IInv, Refused
<1>2. ASSUME outcome = "answered", NEW i \in DOMAIN job.fetches
      PROVE  ~(Cardinality(Scan(job.fetches[i], db)) > job.limit)
  <2>1. /\ job \in Plans /\ db \in Contents
        /\ scans \in Seq(SUBSET UNION {Rows[t] : t \in Tables}) /\ Len(scans) = Len(job.fetches)
    BY <1>2 DEF IInv, Typed, InOrder
  <2>2. job.fetches \in Seq(Fetch) /\ job.limit \in Nat /\ job.fetches[i].table \in Tables
    BY <1>2, <2>1, JobFacts
  <2>3. i \in DOMAIN scans
    BY <1>2, <2>1, <2>2
  <2>4. scans[i] = Scan(job.fetches[i], db) /\ Cardinality(scans[i]) <= job.limit
    BY <2>3 DEF IInv, Still, Scanned
  <2>5. IsFiniteSet(Scan(job.fetches[i], db))
    <3>1. IsFiniteSet(db[job.fetches[i].table])
      BY <2>1, <2>2, ContentsFacts
    <3>2. Scan(job.fetches[i], db) \in SUBSET db[job.fetches[i].table]
      BY DEF Scan
    <3> QED
      BY <3>1, <3>2, FS_Subset
  <2>6. Cardinality(Scan(job.fetches[i], db)) \in Nat
    BY <2>5, FS_CardinalityType
  <2> QED
    BY <2>2, <2>4, <2>6
<1> QED
  BY <1>1, <1>2 DEF Over

(* What the theorems assume of the statements that are run *)
NaturalUnderStar == \A j \in Jobs : StarOverNatural(j.query)

LEMMA PlanFollows ==
  ASSUME NaturalUnderStar, IInv
  PROVE  FetchesSuffice(job)
<1>1. job \in Plans
  BY DEF IInv, Typed
<1>2. PICK j \in Jobs : job = Planned(j)
  BY <1>1 DEF Plans
<1>3. StarOverNatural(job.query)
  BY <1>2 DEF NaturalUnderStar, Planned
<1> QED
  BY <1>1, <1>3, PlansSuffice

LEMMA SufficesFollows ==
  ASSUME NaturalUnderStar, IInv
  PROVE  Suffices
BY PlanFollows DEF Suffices

(* An answer over tables of which the fetches leave enough *)
LEMMA AnswerFollows ==
  ASSUME NaturalUnderStar, IInv
  PROVE  SameAnswer
<1> SUFFICES ASSUME outcome = "answered", tx = "committed"
             PROVE  answer = Answer(job.query, Full(view))
  BY DEF SameAnswer
<1>1. /\ job \in Plans /\ view \in Contents
      /\ scans \in Seq(SUBSET UNION {Rows[t] : t \in Tables}) /\ Len(scans) = Len(job.fetches)
      /\ \A i \in DOMAIN scans : scans[i] = Scan(job.fetches[i], view)
  BY DEF IInv, Typed, InOrder, Viewed
<1>2. job.fetches \in Seq(Fetch)
  BY <1>1, JobFacts
<1>3. DOMAIN scans = DOMAIN job.fetches
  BY <1>1, <1>2
<1>4. ASSUME NEW t \in Tables
      PROVE  ScannedRows(t) = FetchedRows(job, t, view)
  BY <1>1, <1>3 DEF ScannedRows, FetchedRows, Scan
<1>5. loaded = [t \in Tables |-> Once({Image(r, FetchedColumns(job, t)) : r \in ScannedRows(t)})]
  BY DEF IInv, Loaded
<1>6. Seen = Fetched(job, view)
  BY <1>4, <1>5 DEF Seen, Fetched
<1>7. answer = Answer(job.query, Fetched(job, view))
  BY <1>6 DEF IInv, Answered
<1> QED
  BY <1>1, <1>7, PlanFollows DEF FetchesSuffice

----------------------------------------------------------------------------
(* The variables keep their types; H2 never has a row twice, and each of   *)
(* its rows has the columns of the table's fetches (Residual.load).        *)
THEOREM RunTypes == Spec => []TypeOK
BY Invariance, TypesFollow, PTL

(* Whatever fails and whenever, the runner ends the transaction it began   *)
(* and no other (PlanRunner.execute).                                      *)
THEOREM OwnerEnds == Spec => []EndedByItsOwner
BY Invariance, EndFollows, PTL

(* The row limit refuses what is over it, and only that (JdbcFetcher.fetch,*)
(* CoreFetcher.fetch).                                                     *)
THEOREM LimitIsExact == Spec => []LimitExact
BY Invariance, LimitFollows, PTL

(* Over what the fetches of a plan leave of the tables its statement       *)
(* returns what it returns over all of them: for every schema, every tree  *)
(* of conditions, joins of every side, subqueries that refer outwards and  *)
(* UNION ALL, whatever the tables hold (decomposer.py, Decomposer).  The   *)
(* natural joins are to be under a star: the common columns of others are  *)
(* not among those fetched, and PlanNatural shows what comes of that.      *)
THEOREM FetchesAreEnough ==
  ASSUME NaturalUnderStar
  PROVE  Spec => []Suffices
<1>1. IInv => Suffices
  BY SufficesFollows
<1> QED
  BY <1>1, Invariance, PTL

(* So every answer of a transaction that is committed is the one over the  *)
(* whole tables as of the commit, whatever others write between the        *)
(* fetches and in how many fetches each table is read.                     *)
THEOREM AnsweredAsOfCommit ==
  ASSUME NaturalUnderStar
  PROVE  Spec => []SameAnswer
<1>1. IInv => SameAnswer
  BY AnswerFollows
<1> QED
  BY <1>1, Invariance, PTL
=============================================================================
