----------------------------- MODULE ScanProofs -----------------------------
(***************************************************************************)
(* What the analyses of ScanAnalysis compute, for every program: the facts *)
(* about walks, reachable routines and visits that WriteThenScanProofs     *)
(* rests on.                                                               *)
(***************************************************************************)
EXTENDS ScanAnalysis, WellFoundedInduction, FiniteSetTheorems, TLAPS

----------------------------------------------------------------------------
(* Recursion and induction over a measure: a pair of naturals, the first   *)
(* component deciding, the second where the first is equal.                *)

Earlier(M, y, x) ==
  \/ M[y][1] < M[x][1]
  \/ M[y][1] = M[x][1] /\ M[y][2] < M[x][2]

Less == {ss \in Nat \X Nat : ss[1] < ss[2]}

(* Every set of naturals that is not empty has a least member. *)
LEMMA LeastNatural ==
  ASSUME NEW T, T \subseteq Nat, T # {}
  PROVE  \E n \in T : \A m \in T : n <= m
<1>1. IsWellFoundedOn(Less, Nat)
  BY NatLessThanWellFounded DEF OpToRel, Less
<1>2. PICK n \in T : \A m \in T : ~ (<<m, n>> \in Less)
  BY <1>1, WFMin
<1>3. \A m \in T : ~ (m < n)
  BY <1>2 DEF Less
<1> QED BY <1>3

(* Every set that is not empty has an earliest member. *)
LEMMA Earliest ==
  ASSUME NEW D, NEW M \in [D -> Nat \X Nat], NEW T \in SUBSET D, T # {}
  PROVE  \E x \in T : \A y \in T : ~ Earlier(M, y, x)
<1> DEFINE Firsts == {M[x][1] : x \in T}
<1>1. Firsts \subseteq Nat /\ Firsts # {}
  OBVIOUS
<1>2. PICK n \in Firsts : \A m \in Firsts : n <= m
  BY <1>1, LeastNatural
<1> DEFINE Seconds == {M[x][2] : x \in {u \in T : M[u][1] = n}}
<1>3. Seconds \subseteq Nat /\ Seconds # {}
  BY <1>2
<1>4. PICK k \in Seconds : \A m \in Seconds : k <= m
  BY <1>3, LeastNatural
<1>5. PICK x \in T : M[x][1] = n /\ M[x][2] = k
  BY <1>4
<1>6. ASSUME NEW y \in T PROVE ~ Earlier(M, y, x)
  <2>1. n <= M[y][1] /\ M[y] \in Nat \X Nat /\ M[x] \in Nat \X Nat
    BY <1>2
  <2>2. M[y][1] = n => k <= M[y][2]
    BY <1>4
  <2> QED BY <1>5, <2>1, <2>2 DEF Earlier
<1> QED BY <1>5, <1>6

(* Each x of D is in S when all that is earlier is *)
Hereditary(D, M, S) ==
  /\ M \in [D -> Nat \X Nat]
  /\ \A x \in D : (\A y \in D : Earlier(M, y, x) => y \in S) => x \in S

(* G gives the value at x from a function on D, of which it uses what is   *)
(* earlier than x only.                                                    *)
Recursive(D, M, R, G) ==
  /\ M \in [D -> Nat \X Nat]
  /\ R # {}
  /\ G \in [[D -> R] \X D -> R]
  /\ \A f, g \in [D -> R] : \A x \in D :
       (\A y \in D : Earlier(M, y, x) => f[y] = g[y]) => G[<<f, x>>] = G[<<g, x>>]

(* Induction: what holds of x whenever it holds of all that is earlier     *)
(* holds of all.                                                           *)
LEMMA Inductive ==
  ASSUME NEW D, NEW M, NEW S, Hereditary(D, M, S)
  PROVE  D \subseteq S
<1> USE DEF Hereditary
<1> SUFFICES ASSUME D \ S # {} PROVE FALSE
  OBVIOUS
<1>1. PICK x \in D \ S : \A y \in D \ S : ~ Earlier(M, y, x)
  BY Earliest
<1> QED BY <1>1

LEMMA EarlierOrder ==
  ASSUME NEW D, NEW M \in [D -> Nat \X Nat], NEW x \in D, NEW y \in D, NEW z \in D
  PROVE  /\ ~ Earlier(M, x, x)
         /\ Earlier(M, z, y) /\ Earlier(M, y, x) => Earlier(M, z, x)
<1>1. M[x] \in Nat \X Nat /\ M[y] \in Nat \X Nat /\ M[z] \in Nat \X Nat
  OBVIOUS
<1> QED BY <1>1 DEF Earlier

(* A function whose value at x depends on its earlier values only exists.  *)
LEMMA Recursion ==
  ASSUME NEW D, NEW M, NEW R, NEW G, Recursive(D, M, R, G)
  PROVE  \E f \in [D -> R] : \A x \in D : f[x] = G[<<f, x>>]
<1> USE DEF Recursive
<1> DEFINE UpTo(x)    == {y \in D : y = x \/ Earlier(M, y, x)}
           Fits(h, x) == \A y \in UpTo(x) : h[y] = G[<<h, y>>]
           Same       == {x \in D : \A f, g \in [D -> R] : Fits(f, x) /\ Fits(g, x) => f[x] = g[x]}
           Some       == {x \in D : \E h \in [D -> R] : Fits(h, x)}
           H(x)       == CHOOSE h \in [D -> R] : Fits(h, x)
<1>1. ASSUME NEW x \in D, NEW y \in D, Earlier(M, y, x), NEW h, Fits(h, x) PROVE Fits(h, y)
  <2>1. UpTo(y) \subseteq UpTo(x)
    BY <1>1, EarlierOrder
  <2> QED BY <1>1, <2>1
<1>2. D \subseteq Same
  <2>1. ASSUME NEW x \in D, \A y \in D : Earlier(M, y, x) => y \in Same PROVE x \in Same
    <3> HIDE DEF Fits
    <3> SUFFICES ASSUME NEW f \in [D -> R], NEW g \in [D -> R], Fits(f, x), Fits(g, x) PROVE f[x] = g[x]
      OBVIOUS
    <3> USE DEF Fits
    <3>1. \A y \in D : Earlier(M, y, x) => f[y] = g[y]
      <4> SUFFICES ASSUME NEW y \in D, Earlier(M, y, x) PROVE f[y] = g[y]
        OBVIOUS
      <4> HIDE DEF Fits
      <4>1. y \in Same /\ Fits(f, y) /\ Fits(g, y)
        BY <1>1, <2>1
      <4> QED BY <4>1
    <3>2. G[<<f, x>>] = G[<<g, x>>]
      BY <3>1
    <3> QED BY <3>2
  <2> HIDE DEF Same
  <2> QED BY <2>1, Inductive DEF Hereditary
<1>3. D \subseteq Some
  <2>1. ASSUME NEW x \in D, \A y \in D : Earlier(M, y, x) => y \in Some PROVE x \in Some
    <3> DEFINE r  == CHOOSE v : v \in R
               h0 == [y \in D |-> IF Earlier(M, y, x) THEN H(y)[y] ELSE r]
               h  == [y \in D |-> IF y = x THEN G[<<h0, x>>] ELSE h0[y]]
    <3>1. \A y \in D : Earlier(M, y, x) => H(y) \in [D -> R] /\ Fits(H(y), y)
      BY <2>1
    <3> HIDE DEF H
    <3>2. r \in R
      OBVIOUS
    <3> HIDE DEF r
    <3>3. h0 \in [D -> R]
      BY <3>1, <3>2
    <3>4. h \in [D -> R]
      BY <3>3
    <3>5. \A y \in D : Earlier(M, y, x) => h[y] = H(y)[y] /\ h0[y] = H(y)[y]
      BY EarlierOrder
    <3>6. h[x] = G[<<h0, x>>]
      OBVIOUS
    <3> HIDE DEF h, h0
    <3>7. ASSUME NEW y \in D, Earlier(M, y, x) PROVE h[y] = G[<<h, y>>]
      <4>1. H(y)[y] = G[<<H(y), y>>]
        BY <3>1, <3>7
      <4>2. ASSUME NEW z \in D, Earlier(M, z, y) PROVE H(y)[z] = h[z]
        <5>1. Earlier(M, z, x)
          BY <3>7, <4>2, EarlierOrder
        <5>2. Fits(H(y), z) /\ Fits(H(z), z) /\ H(y) \in [D -> R] /\ H(z) \in [D -> R]
          <6>1. Fits(H(y), y) /\ H(y) \in [D -> R] /\ Fits(H(z), z) /\ H(z) \in [D -> R]
            BY <3>1, <3>7, <5>1
          <6> HIDE DEF Fits
          <6> QED BY <1>1, <4>2, <6>1
        <5> QED BY <1>2, <3>5, <5>1, <5>2
      <4>3. G[<<H(y), y>>] = G[<<h, y>>]
        BY <3>1, <3>4, <3>7, <4>2
      <4> QED BY <3>5, <3>7, <4>1, <4>3
    <3>8. h[x] = G[<<h, x>>]
      BY <3>3, <3>4, <3>5, <3>6
    <3> QED BY <3>4, <3>7, <3>8
  <2> HIDE DEF Some
  <2> QED BY <2>1, Inductive DEF Hereditary
<1>4. \A x \in D : H(x) \in [D -> R] /\ Fits(H(x), x)
  BY <1>3
<1> DEFINE f == [x \in D |-> H(x)[x]]
<1> HIDE DEF H
<1>5. f \in [D -> R]
  BY <1>4
<1>6. ASSUME NEW x \in D PROVE f[x] = G[<<f, x>>]
  <2>1. \A y \in D : Earlier(M, y, x) => H(x)[y] = f[y]
    <3> SUFFICES ASSUME NEW y \in D, Earlier(M, y, x) PROVE H(x)[y] = H(y)[y]
      OBVIOUS
    <3>1. H(x) \in [D -> R] /\ H(y) \in [D -> R] /\ Fits(H(x), y) /\ Fits(H(y), y)
      <4> HIDE DEF Fits
      <4> QED BY <1>1, <1>4
    <3> QED BY <1>2, <3>1
  <2>2. G[<<H(x), x>>] = G[<<f, x>>]
    BY <1>4, <1>5, <2>1
  <2> QED BY <1>4, <2>2
<1> QED BY <1>5, <1>6

----------------------------------------------------------------------------
(* Sequences                                                               *)

LEMMA SeqParts ==
  ASSUME NEW S, NEW s \in Seq(S), s # <<>>
  PROVE  /\ Head(s) \in S /\ Tail(s) \in Seq(S) /\ Len(Tail(s)) < Len(s) /\ Len(Tail(s)) \in Nat
         /\ Head(s) \in ToSet(s)
         /\ ToSet(s) = {Head(s)} \cup ToSet(Tail(s))
         /\ s = <<Head(s)>> \o Tail(s)
<1>1. Head(s) = s[1] /\ Len(s) \in Nat \ {0} /\ s[1] \in S /\ \A i \in 1..Len(s) : s[i] \in S
  OBVIOUS
<1>2. Tail(s) \in Seq(S) /\ Len(Tail(s)) = Len(s) - 1 /\ \A i \in 1..(Len(s) - 1) : Tail(s)[i] = s[i + 1]
  OBVIOUS
<1>3. ToSet(s) = {s[i] : i \in 1..Len(s)} /\ ToSet(Tail(s)) = {Tail(s)[i] : i \in 1..(Len(s) - 1)}
  BY <1>2 DEF ToSet
<1>4. ASSUME NEW x \in ToSet(s) PROVE x \in {Head(s)} \cup ToSet(Tail(s))
  <2>1. PICK i \in 1..Len(s) : x = s[i]
    BY <1>3
  <2>2. CASE i = 1
    BY <1>1, <2>1, <2>2
  <2>3. CASE i # 1
    <3>1. i - 1 \in 1..(Len(s) - 1) /\ x = Tail(s)[i - 1]
      BY <1>1, <1>2, <2>1, <2>3
    <3> QED BY <1>3, <3>1
  <2> QED BY <2>2, <2>3
<1>5. {Head(s)} \cup ToSet(Tail(s)) \subseteq ToSet(s)
  BY <1>1, <1>2, <1>3
<1> QED BY <1>1, <1>2, <1>4, <1>5

LEMMA SeqJoin ==
  ASSUME NEW S, NEW s \in Seq(S), NEW u \in Seq(S)
  PROVE  s \o u \in Seq(S) /\ ToSet(s \o u) = ToSet(s) \cup ToSet(u)
<1>1. s \o u \in Seq(S) /\ Len(s \o u) = Len(s) + Len(u) /\ Len(s) \in Nat /\ Len(u) \in Nat
  OBVIOUS
<1>2. \A i \in 1..(Len(s) + Len(u)) : (s \o u)[i] = IF i <= Len(s) THEN s[i] ELSE u[i - Len(s)]
  OBVIOUS
<1>3. /\ ToSet(s) = {s[i] : i \in 1..Len(s)} /\ ToSet(u) = {u[i] : i \in 1..Len(u)}
      /\ ToSet(s \o u) = {(s \o u)[i] : i \in 1..(Len(s) + Len(u))}
  BY <1>1 DEF ToSet
<1>4. ASSUME NEW i \in 1..Len(u) PROVE u[i] \in ToSet(s \o u)
  <2>1. i + Len(s) \in 1..(Len(s) + Len(u)) /\ (s \o u)[i + Len(s)] = u[i]
    BY <1>1, <1>2
  <2> QED BY <1>3, <2>1
<1>5. \A i \in 1..Len(s) : i \in 1..(Len(s) + Len(u)) /\ (s \o u)[i] = s[i]
  BY <1>1, <1>2
<1>6. ToSet(s \o u) \subseteq ToSet(s) \cup ToSet(u)
  BY <1>1, <1>2, <1>3
<1> QED BY <1>1, <1>3, <1>4, <1>5, <1>6

LEMMA EmptySet == ToSet(<<>>) = {} /\ \A x : ToSet(<<x>>) = {x}
BY DEF ToSet

LEMMA SeqMembers ==
  ASSUME NEW S, NEW s \in Seq(S)
  PROVE  /\ ToSet(s) \subseteq S
         /\ ToSet(<<>>) = {}
         /\ \A x : ToSet(<<x>>) = {x}
         /\ ToSet(s) = {} <=> s = <<>>
         /\ \A i \in DOMAIN s : s[i] \in ToSet(s)
         /\ \A x \in ToSet(s) : \E i \in DOMAIN s : s[i] = x
<1>1. ToSet(s) = {s[i] : i \in 1..Len(s)}
  BY DEF ToSet
<1> QED BY <1>1 DEF ToSet

(* F maps the members of A to sequences of members of B *)
Maps(F, A, B) == F \in [A -> Seq(B)]

(* FlatMap concatenates what F maps the members to. *)
LEMMA FlatMapDef ==
  ASSUME NEW A, NEW B, NEW F, Maps(F, A, B)
  PROVE  /\ FlatMap(F) \in [Seq(A) -> Seq(B)]
         /\ FlatMap(F)[<<>>] = <<>>
         /\ \A s \in Seq(A) \ {<<>>} : FlatMap(F)[s] = F[Head(s)] \o FlatMap(F)[Tail(s)]
<1>0. F \in [A -> Seq(B)]
  BY DEF Maps
<1> USE <1>0
<1> DEFINE D == Seq(A)
           R == Seq(B)
           M == [s \in D |-> <<0, Len(s)>>]
           G == [a \in [D -> R] \X D |-> IF a[2] = <<>> THEN <<>> ELSE F[Head(a[2])] \o a[1][Tail(a[2])]]
<1>1. M \in [D -> Nat \X Nat] /\ R # {}
  <2>1. \A s \in D : Len(s) \in Nat
    OBVIOUS
  <2>2. <<>> \in R
    OBVIOUS
  <2> QED BY <2>1, <2>2
<1>2. G \in [[D -> R] \X D -> R]
  <2>1. ASSUME NEW f \in [D -> R], NEW s \in D, s # <<>> PROVE F[Head(s)] \o f[Tail(s)] \in R
    <3>1. F[Head(s)] \in R /\ f[Tail(s)] \in R
      BY <2>1, SeqParts
    <3> QED BY <3>1
  <2>2. <<>> \in R
    OBVIOUS
  <2>3. ASSUME NEW a \in [D -> R] \X D
        PROVE  (IF a[2] = <<>> THEN <<>> ELSE F[Head(a[2])] \o a[1][Tail(a[2])]) \in R
    <3>1. a[1] \in [D -> R] /\ a[2] \in D
      OBVIOUS
    <3> HIDE DEF R, D
    <3> QED BY <2>1, <2>2, <3>1
  <2> HIDE DEF R, D
  <2> QED BY <2>3
<1>3. ASSUME NEW f \in [D -> R], NEW g \in [D -> R], NEW s \in D, \A u \in D : Earlier(M, u, s) => f[u] = g[u]
      PROVE  G[<<f, s>>] = G[<<g, s>>]
  <2>1. CASE s = <<>>
    BY <2>1
  <2>2. CASE s # <<>>
    <3>1. Tail(s) \in D /\ Earlier(M, Tail(s), s)
      BY <2>2, SeqParts DEF Earlier
    <3> QED BY <1>3, <2>2, <3>1
  <2> QED BY <2>1, <2>2
<1>4. PICK f \in [D -> R] : \A s \in D : f[s] = G[<<f, s>>]
  <2> HIDE DEF M, G, D, R
  <2>1. \A f, g \in [D -> R] : \A s \in D :
          (\A u \in D : Earlier(M, u, s) => f[u] = g[u]) => G[<<f, s>>] = G[<<g, s>>]
    BY <1>3
  <2>2. Recursive(D, M, R, G)
    BY <1>1, <1>2, <2>1 DEF Recursive
  <2> QED BY <2>2, Recursion
<1>5. f = [s \in D |-> IF s = <<>> THEN <<>> ELSE F[Head(s)] \o f[Tail(s)]]
  <2>1. \A s \in D : G[<<f, s>>] = IF s = <<>> THEN <<>> ELSE F[Head(s)] \o f[Tail(s)]
    OBVIOUS
  <2>2. f = [s \in D |-> f[s]]
    OBVIOUS
  <2> HIDE DEF D, R, G
  <2> QED BY <1>4, <2>1, <2>2
<1>6. FlatMap(F) = [s \in D |-> IF s = <<>> THEN <<>> ELSE F[Head(s)] \o FlatMap(F)[Tail(s)]]
  <2>1. DOMAIN F = A
    OBVIOUS
  <2> QED BY <1>5, <2>1 DEF FlatMap
<1> DEFINE Typed == {s \in D : FlatMap(F)[s] \in R}
<1>7. D \subseteq Typed
  <2>1. ASSUME NEW s \in D, \A u \in D : Earlier(M, u, s) => u \in Typed PROVE s \in Typed
    <3>1. CASE s = <<>>
      <4>1. FlatMap(F)[s] = <<>> /\ <<>> \in R
        BY <1>6, <3>1
      <4> HIDE DEF R, D
      <4> QED BY <4>1
    <3>2. CASE s # <<>>
      <4>1. FlatMap(F)[s] = F[Head(s)] \o FlatMap(F)[Tail(s)]
        BY <1>6, <3>2
      <4>2. Tail(s) \in Typed /\ Head(s) \in A
        BY <2>1, <3>2, SeqParts DEF Earlier
      <4>3. F[Head(s)] \o FlatMap(F)[Tail(s)] \in R
        BY <4>2
      <4> HIDE DEF R, D
      <4> QED BY <4>1, <4>3
    <3> QED BY <3>1, <3>2
  <2> HIDE DEF Typed, M, D
  <2> QED BY <1>1, <2>1, Inductive DEF Hereditary
<1>8. DOMAIN FlatMap(F) = D
  BY <1>6
<1>9. FlatMap(F) \in [D -> R]
  BY <1>6, <1>7
<1>10. FlatMap(F)[<<>>] = <<>>
  <2>1. <<>> \in D
    OBVIOUS
  <2> HIDE DEF D
  <2> QED BY <1>6, <2>1
<1>11. \A s \in D \ {<<>>} : FlatMap(F)[s] = F[Head(s)] \o FlatMap(F)[Tail(s)]
  BY <1>6
<1> QED BY <1>9, <1>10, <1>11

(* Its members are theirs. *)
LEMMA FlatMapMembers ==
  ASSUME NEW A, NEW B, NEW F, Maps(F, A, B)
  PROVE  \A s \in Seq(A) : ToSet(FlatMap(F)[s]) = UNION {ToSet(F[a]) : a \in ToSet(s)}
<1> DEFINE D == Seq(A)
           M == [s \in D |-> <<0, Len(s)>>]
           Flat == {s \in D : ToSet(FlatMap(F)[s]) = UNION {ToSet(F[a]) : a \in ToSet(s)}}
<1>0. /\ FlatMap(F) \in [Seq(A) -> Seq(B)]
      /\ FlatMap(F)[<<>>] = <<>>
      /\ \A s \in Seq(A) \ {<<>>} : FlatMap(F)[s] = F[Head(s)] \o FlatMap(F)[Tail(s)]
  <2> HIDE DEF D, M, Flat
  <2> QED BY FlatMapDef
<1>1. ASSUME NEW s \in D, \A u \in D : Earlier(M, u, s) => u \in Flat PROVE s \in Flat
  <2>1. CASE s = <<>>
    <3>1. FlatMap(F)[s] = <<>>
      BY <1>0, <2>1
    <3>2. ToSet(<<>>) = {}
      BY SeqMembers
    <3> QED BY <2>1, <3>1, <3>2
  <2>2. CASE s # <<>>
    <3>1. FlatMap(F)[s] = F[Head(s)] \o FlatMap(F)[Tail(s)]
      BY <1>0, <2>2
    <3>2. Tail(s) \in D /\ Head(s) \in A /\ ToSet(s) = {Head(s)} \cup ToSet(Tail(s))
      BY <2>2, SeqParts
    <3>3. Tail(s) \in Flat
      BY <1>1, <2>2, SeqParts DEF Earlier
    <3>4. F[Head(s)] \in Seq(B) /\ FlatMap(F)[Tail(s)] \in Seq(B)
      BY <1>0, <3>2 DEF Maps
    <3>5. ToSet(FlatMap(F)[s]) = ToSet(F[Head(s)]) \cup ToSet(FlatMap(F)[Tail(s)])
      BY <3>1, <3>4, SeqJoin
    <3> QED BY <3>2, <3>3, <3>5
  <2> QED BY <2>1, <2>2
<1>2. M \in [D -> Nat \X Nat]
  <2>1. \A s \in D : Len(s) \in Nat
    OBVIOUS
  <2> QED BY <2>1
<1>3. D \subseteq Flat
  <2> HIDE DEF Flat, M, D
  <2> QED BY <1>1, <1>2, Inductive DEF Hereditary
<1> QED BY <1>3

----------------------------------------------------------------------------
(* Statements and sequences of them                                        *)

LEMMA CodeParts ==
  ASSUME NEW s \in Code, s # <<>>
  PROVE  /\ Head(s) \in Statements /\ Tail(s) \in Code
         /\ Head(s) \in ToSet(s) /\ ToSet(s) = {Head(s)} \cup ToSet(Tail(s))
BY SeqParts DEF Code

LEMMA CodeMembers ==
  ASSUME NEW s \in Code
  PROVE  ToSet(s) \subseteq Statements /\ (ToSet(s) = {} <=> s = <<>>)
BY SeqMembers DEF Code

LEMMA CodeJoin ==
  ASSUME NEW s \in Code, NEW u \in Code
  PROVE  s \o u \in Code /\ ToSet(s \o u) = ToSet(s) \cup ToSet(u)
BY SeqJoin DEF Code

(* The parts of a statement are sequences of statements less deep. *)
Part(s, part) == part \in Code /\ \A below \in ToSet(part) : Depth[below] < Depth[s]

LEMMA StatementParts ==
  ASSUME NEW s \in Statements
  PROVE  /\ IsStatement(s)
         /\ Part(s, s.query) /\ Part(s, s.orElse) /\ Part(s, s.body) /\ Part(s, Inside(s))
         /\ \A b \in ToSet(s.branches) \cup ToSet(s.handlers) : Part(s, b)
         /\ ToSet(Inside(s)) = UNION {ToSet(b) : b \in ToSet(s.branches) \cup {s.orElse, s.body} \cup ToSet(s.handlers)}
<1>1. IsStatement(s)
  BY StatementsAssumption
<1>2. /\ s.query \in Code /\ s.orElse \in Code /\ s.body \in Code
      /\ s.branches \in Seq(Code) /\ s.handlers \in Seq(Code)
  BY <1>1 DEF IsStatement
<1> DEFINE Id == [ss \in Code |-> ss]
<1>3. Maps(Id, Code, Statements)
  BY DEF Code, Maps
<1>4. Joined = FlatMap(Id)
  BY DEF Joined
<1>5. ASSUME NEW bs \in Seq(Code) PROVE Joined[bs] \in Code /\ ToSet(Joined[bs]) = UNION {ToSet(b) : b \in ToSet(bs)}
  <2> HIDE DEF Id
  <2>1. FlatMap(Id) \in [Seq(Code) -> Seq(Statements)]
    BY <1>3, FlatMapDef
  <2>2. ToSet(FlatMap(Id)[bs]) = UNION {ToSet(Id[b]) : b \in ToSet(bs)}
    BY <1>3, FlatMapMembers
  <2> USE DEF Id
  <2>3. ToSet(bs) \subseteq Code
    BY SeqMembers
  <2>4. UNION {ToSet(Id[b]) : b \in ToSet(bs)} = UNION {ToSet(b) : b \in ToSet(bs)}
    BY <2>3
  <2> QED BY <1>4, <2>1, <2>2, <2>4 DEF Code
<1>6. /\ Inside(s) \in Code
      /\ ToSet(Inside(s)) = ToSet(Joined[s.branches]) \cup ToSet(s.orElse) \cup ToSet(s.body) \cup ToSet(Joined[s.handlers])
  <2>1. Joined[s.branches] \in Code /\ Joined[s.handlers] \in Code
    BY <1>2, <1>5
  <2>2. /\ Joined[s.branches] \o s.orElse \in Code
        /\ ToSet(Joined[s.branches] \o s.orElse) = ToSet(Joined[s.branches]) \cup ToSet(s.orElse)
    BY <1>2, <2>1, CodeJoin
  <2>3. /\ Joined[s.branches] \o s.orElse \o s.body \in Code
        /\ ToSet(Joined[s.branches] \o s.orElse \o s.body)
             = ToSet(Joined[s.branches]) \cup ToSet(s.orElse) \cup ToSet(s.body)
    BY <1>2, <2>2, CodeJoin
  <2> QED BY <2>1, <2>3, CodeJoin DEF Inside
<1>7. ToSet(Inside(s)) = UNION {ToSet(b) : b \in ToSet(s.branches) \cup {s.orElse, s.body} \cup ToSet(s.handlers)}
  BY <1>2, <1>5, <1>6
<1>8. \A below \in ToSet(s.query) \cup ToSet(Inside(s)) : Depth[below] < Depth[s]
  BY StatementsAssumption
<1>9. \A b \in ToSet(s.branches) \cup ToSet(s.handlers) : b \in Code
  BY <1>2, SeqMembers
<1> QED BY <1>1, <1>2, <1>6, <1>7, <1>8, <1>9 DEF Part

----------------------------------------------------------------------------
(* The size of a sequence: how many levels it has, then how long it is     *)

Bounds(n, ss) == \A s \in ToSet(ss) : Depth[s] < n
Height(ss)    == CHOOSE n \in Nat : Bounds(n, ss) /\ \A m \in Nat : Bounds(m, ss) => n <= m
Size          == [ss \in Code |-> <<Height(ss), Len(ss)>>]

LEMMA HeightDef ==
  ASSUME NEW ss \in Code
  PROVE  Height(ss) \in Nat /\ Bounds(Height(ss), ss) /\ \A m \in Nat : Bounds(m, ss) => Height(ss) <= m
<1> DEFINE M == [u \in Code |-> <<0, Len(u)>>]
           Bounded == {u \in Code : \E n \in Nat : Bounds(n, u)}
<1>1. ASSUME NEW u \in Code, \A v \in Code : Earlier(M, v, u) => v \in Bounded PROVE u \in Bounded
  <2>1. CASE u = <<>>
    <3>1. ToSet(u) = {}
      BY <2>1, EmptySet
    <3> QED BY <3>1 DEF Bounds
  <2>2. CASE u # <<>>
    <3>1. Tail(u) \in Code /\ Head(u) \in Statements /\ ToSet(u) = {Head(u)} \cup ToSet(Tail(u))
      BY <2>2, SeqParts DEF Code
    <3>2. Tail(u) \in Bounded
      BY <1>1, <2>2, SeqParts DEF Earlier, Code
    <3>3. PICK n \in Nat : Bounds(n, Tail(u))
      BY <3>2
    <3>4. Depth[Head(u)] \in Nat /\ \A s \in ToSet(Tail(u)) : s \in Statements /\ Depth[s] \in Nat
      BY <3>1, StatementsAssumption, SeqMembers DEF Code
    <3> DEFINE d == Depth[Head(u)]
    <3>5. n + d + 1 \in Nat /\ Bounds(n + d + 1, u)
      BY <3>1, <3>3, <3>4 DEF Bounds
    <3> QED BY <3>5
  <2> QED BY <2>1, <2>2
<1>2. M \in [Code -> Nat \X Nat]
  <2>1. \A u \in Code : Len(u) \in Nat
    BY DEF Code
  <2> QED BY <2>1
<1>3. Code \subseteq Bounded
  <2> HIDE DEF Bounded, M
  <2> QED BY <1>1, <1>2, Inductive DEF Hereditary
<1> DEFINE T == {n \in Nat : Bounds(n, ss)}
<1>4. PICK n \in T : \A m \in T : n <= m
  <2>1. T # {} /\ T \subseteq Nat
    BY <1>3
  <2> HIDE DEF T
  <2> QED BY <2>1, LeastNatural
<1>5. \E k \in Nat : Bounds(k, ss) /\ \A m \in Nat : Bounds(m, ss) => k <= m
  BY <1>4
<1> QED BY <1>5 DEF Height

LEMMA SizeType == Size \in [Code -> Nat \X Nat]
<1>1. \A ss \in Code : Height(ss) \in Nat /\ Len(ss) \in Nat
  BY HeightDef DEF Code
<1> QED BY <1>1 DEF Size

(* What is left of a sequence is smaller; so is a part of a statement. *)
LEMMA TailSmaller ==
  ASSUME NEW ss \in Code, ss # <<>>
  PROVE  Tail(ss) \in Code /\ Earlier(Size, Tail(ss), ss)
<1>1. Tail(ss) \in Code /\ Len(Tail(ss)) < Len(ss) /\ ToSet(Tail(ss)) \subseteq ToSet(ss)
  BY SeqParts DEF Code
<1>2. Height(Tail(ss)) \in Nat /\ Height(ss) \in Nat
  BY <1>1, HeightDef
<1>3. Bounds(Height(ss), Tail(ss))
  BY <1>1, HeightDef DEF Bounds
<1>4. Height(Tail(ss)) <= Height(ss)
  BY <1>1, <1>2, <1>3, HeightDef
<1> QED BY <1>1, <1>2, <1>4 DEF Earlier, Size

LEMMA PartSmaller ==
  ASSUME NEW ss \in Code, NEW s \in ToSet(ss), NEW part, Part(s, part)
  PROVE  part \in Code /\ Earlier(Size, part, ss)
<1>1. part \in Code /\ s \in Statements
  BY SeqMembers DEF Part, Code
<1>2. Depth[s] \in Nat /\ Height(part) \in Nat /\ Height(ss) \in Nat
  BY <1>1, HeightDef, StatementsAssumption
<1>3. Depth[s] < Height(ss)
  BY HeightDef DEF Bounds
<1>4. Height(part) <= Depth[s]
  BY <1>1, <1>2, HeightDef DEF Bounds, Part
<1>5. Height(part) < Height(ss)
  BY <1>2, <1>3, <1>4
<1> QED BY <1>1, <1>5 DEF Earlier, Size

(* To show something of all sequences, show it of one when it holds of all smaller ones. *)
LEMMA CodeInduction ==
  ASSUME NEW S, \A ss \in Code : (\A u \in Code : Earlier(Size, u, ss) => u \in S) => ss \in S
  PROVE  Code \subseteq S
<1>1. Hereditary(Code, Size, S)
  BY SizeType DEF Hereditary
<1> QED BY <1>1, Inductive

----------------------------------------------------------------------------
(* Walk                                                                    *)

LEMMA WalkDef ==
  /\ Walk \in [Code -> Code]
  /\ Walk[<<>>] = <<>>
  /\ \A ss \in Code \ {<<>>} :
       Walk[ss] = <<Head(ss)>> \o Head(ss).query \o Walk[Inside(Head(ss))] \o Walk[Tail(ss)]
<1> DEFINE D == Code
           R == Code
           Step(f, ss) == IF ss = <<>> THEN <<>>
                          ELSE <<Head(ss)>> \o Head(ss).query \o f[Inside(Head(ss))] \o f[Tail(ss)]
           G == [a \in [D -> R] \X D |-> Step(a[1], a[2])]
<1>1. <<>> \in Code
  BY DEF Code
<1>2. ASSUME NEW ss \in Code, ss # <<>>
      PROVE  /\ Head(ss) \in Statements /\ <<Head(ss)>> \in Code /\ Head(ss).query \in Code
             /\ Inside(Head(ss)) \in Code /\ Earlier(Size, Inside(Head(ss)), ss)
             /\ Tail(ss) \in Code /\ Earlier(Size, Tail(ss), ss)
  <2>1. Head(ss) \in Statements /\ Head(ss) \in ToSet(ss)
    BY <1>2, CodeParts
  <2>2. Part(Head(ss), Inside(Head(ss))) /\ Head(ss).query \in Code
    BY <2>1, StatementParts DEF Part
  <2>3. <<Head(ss)>> \in Code
    BY <2>1 DEF Code
  <2> QED BY <1>2, <2>1, <2>2, <2>3, PartSmaller, TailSmaller
<1>3. ASSUME NEW f, NEW ss \in Code, ss # <<>> => f[Inside(Head(ss))] \in Code /\ f[Tail(ss)] \in Code
      PROVE  Step(f, ss) \in Code
  <2>1. CASE ss = <<>>
    BY <1>1, <2>1
  <2>2. CASE ss # <<>>
    <3>1. <<Head(ss)>> \o Head(ss).query \in Code
      BY <1>2, <2>2, CodeJoin
    <3>2. <<Head(ss)>> \o Head(ss).query \o f[Inside(Head(ss))] \in Code
      BY <1>2, <1>3, <2>2, <3>1, CodeJoin
    <3>3. <<Head(ss)>> \o Head(ss).query \o f[Inside(Head(ss))] \o f[Tail(ss)] \in Code
      BY <1>2, <1>3, <2>2, <3>2, CodeJoin
    <3> QED BY <2>2, <3>3
  <2> QED BY <2>1, <2>2
<1>4. G \in [[D -> R] \X D -> R]
  <2>1. ASSUME NEW f \in [D -> R], NEW ss \in D PROVE Step(f, ss) \in R
    <3>1. ss # <<>> => f[Inside(Head(ss))] \in Code /\ f[Tail(ss)] \in Code
      BY <1>2
    <3> HIDE DEF Step
    <3> QED BY <1>3, <3>1
  <2> HIDE DEF D, R, Step
  <2> QED BY <2>1
<1>5. ASSUME NEW f \in [D -> R], NEW g \in [D -> R], NEW ss \in D, \A u \in D : Earlier(Size, u, ss) => f[u] = g[u]
      PROVE  Step(f, ss) = Step(g, ss)
  BY <1>2, <1>5
<1>6. \A f \in [D -> R], ss \in D : G[<<f, ss>>] = Step(f, ss)
  <2> HIDE DEF D, R, Step
  <2> QED OBVIOUS
<1>7. Recursive(D, Size, R, G)
  <2> HIDE DEF Step, G
  <2>1. \A f, g \in [D -> R] : \A ss \in D :
          (\A u \in D : Earlier(Size, u, ss) => f[u] = g[u]) => G[<<f, ss>>] = G[<<g, ss>>]
    BY <1>5, <1>6
  <2> QED BY <1>1, <1>4, <2>1, SizeType DEF Recursive
<1>8. PICK f \in [D -> R] : \A ss \in D : f[ss] = Step(f, ss)
  <2> HIDE DEF D, R, G, Step
  <2>1. \E f \in [D -> R] : \A ss \in D : f[ss] = G[<<f, ss>>]
    BY <1>7, Recursion
  <2> QED BY <1>6, <2>1
<1>9. f = [ss \in Code |-> Step(f, ss)]
  <2> HIDE DEF Step
  <2> QED BY <1>8
<1>10. Walk = [ss \in Code |-> Step(Walk, ss)]
  BY <1>9 DEF Walk
<1>11. \A ss \in Code : Walk[ss] = Step(Walk, ss)
  <2> HIDE DEF Step
  <2> QED BY <1>10
<1> DEFINE Typed == {ss \in Code : Walk[ss] \in Code}
<1>12. Code \subseteq Typed
  <2>1. ASSUME NEW ss \in Code, \A u \in Code : Earlier(Size, u, ss) => u \in Typed PROVE ss \in Typed
    <3>1. ss # <<>> => Walk[Inside(Head(ss))] \in Code /\ Walk[Tail(ss)] \in Code
      BY <1>2, <2>1
    <3> HIDE DEF Step
    <3> QED BY <1>3, <1>11, <3>1
  <2> HIDE DEF Typed
  <2> QED BY <2>1, CodeInduction
<1>13. Walk \in [Code -> Code]
  <2> HIDE DEF Step
  <2> QED BY <1>10, <1>12
<1> QED BY <1>1, <1>11, <1>13

(* What a walk yields of one statement *)
Walked(s) == {s} \cup ToSet(s.query) \cup ToSet(Walk[Inside(s)])

LEMMA WalkMembers ==
  ASSUME NEW ss \in Code
  PROVE  ToSet(Walk[ss]) = UNION {Walked(s) : s \in ToSet(ss)}
<1> DEFINE Good == {u \in Code : ToSet(Walk[u]) = UNION {Walked(s) : s \in ToSet(u)}}
<1>1. ASSUME NEW u \in Code, \A v \in Code : Earlier(Size, v, u) => v \in Good PROVE u \in Good
  <2>1. CASE u = <<>>
    BY <2>1, WalkDef, EmptySet
  <2>2. CASE u # <<>>
    <3> DEFINE h == Head(u)
    <3>1. Walk[u] = <<h>> \o h.query \o Walk[Inside(h)] \o Walk[Tail(u)]
      BY <2>2, WalkDef
    <3>2. h \in Statements /\ Tail(u) \in Code /\ ToSet(u) = {h} \cup ToSet(Tail(u))
      BY <2>2, CodeParts
    <3>3. <<h>> \in Code /\ h.query \in Code /\ Walk[Inside(h)] \in Code /\ Walk[Tail(u)] \in Code /\ ToSet(<<h>>) = {h}
      <4>1. <<h>> \in Code /\ ToSet(<<h>>) = {h}
        BY <3>2, EmptySet DEF Code
      <4>2. h.query \in Code /\ Inside(h) \in Code
        BY <3>2, StatementParts DEF Part
      <4> QED BY <3>2, <4>1, <4>2, WalkDef
    <3>4. <<h>> \o h.query \in Code /\ ToSet(<<h>> \o h.query) = {h} \cup ToSet(h.query)
      BY <3>3, CodeJoin
    <3>5. /\ <<h>> \o h.query \o Walk[Inside(h)] \in Code
          /\ ToSet(<<h>> \o h.query \o Walk[Inside(h)]) = Walked(h)
      BY <3>3, <3>4, CodeJoin DEF Walked
    <3>6. ToSet(Walk[u]) = Walked(h) \cup ToSet(Walk[Tail(u)])
      BY <3>1, <3>3, <3>5, CodeJoin
    <3>7. ToSet(Walk[Tail(u)]) = UNION {Walked(s) : s \in ToSet(Tail(u))}
      BY <1>1, <2>2, TailSmaller
    <3> HIDE DEF h
    <3> QED BY <3>2, <3>6, <3>7
  <2> QED BY <2>1, <2>2
<1>2. Code \subseteq Good
  <2> HIDE DEF Good
  <2> QED BY <1>1, CodeInduction
<1> QED BY <1>2

(* A sequence walks what its members do, and what is in a part of one. *)
LEMMA WalkMore ==
  ASSUME NEW ss \in Code, NEW tt \in Code, ToSet(ss) \subseteq ToSet(tt)
  PROVE  ToSet(Walk[ss]) \subseteq ToSet(Walk[tt])
BY WalkMembers

LEMMA WalkIncludes ==
  ASSUME NEW ss \in Code
  PROVE  ToSet(ss) \subseteq ToSet(Walk[ss]) /\ ToSet(Walk[ss]) \subseteq Statements
<1>1. ToSet(ss) \subseteq ToSet(Walk[ss])
  BY WalkMembers DEF Walked
<1>2. ToSet(Walk[ss]) \subseteq Statements
  BY WalkDef, CodeMembers
<1> QED BY <1>1, <1>2

(* The sequences directly under a statement *)
Parts(s) == ToSet(s.branches) \cup {s.orElse, s.body} \cup ToSet(s.handlers) \cup {s.query}

LEMMA WalkPart ==
  ASSUME NEW ss \in Code, NEW s \in ToSet(ss), NEW part \in Parts(s)
  PROVE  part \in Code /\ Part(s, part) /\ ToSet(Walk[part]) \subseteq ToSet(Walk[ss])
<1>1. s \in Statements
  BY CodeMembers
<1>2. part \in Code /\ Part(s, part)
  BY <1>1, StatementParts DEF Parts, Part
<1>3. Walked(s) \subseteq ToSet(Walk[ss])
  BY WalkMembers
<1>4. CASE part # s.query
  <2>1. Inside(s) \in Code /\ ToSet(part) \subseteq ToSet(Inside(s))
    BY <1>1, <1>4, StatementParts DEF Part, Parts
  <2>2. ToSet(Walk[part]) \subseteq ToSet(Walk[Inside(s)])
    BY <1>2, <2>1, WalkMore
  <2> QED BY <1>2, <1>3, <2>2 DEF Walked
<1>5. CASE part = s.query
  <2>1. ASSUME NEW q \in ToSet(part) PROVE Walked(q) = {q}
    <3>1. q \in Statements /\ q.kind = "Sql"
      BY <1>1, <1>2, <1>5, CodeMembers, StatementsAssumption DEF IsStatement
    <3>2. q.query = <<>> /\ q.branches = <<>> /\ q.orElse = <<>> /\ q.body = <<>> /\ q.handlers = <<>>
      BY <3>1, StatementsAssumption DEF IsStatement, Simple
    <3>3. ToSet(Inside(q)) = {} /\ Inside(q) \in Code
      BY <3>1, <3>2, StatementParts, EmptySet DEF Part
    <3>4. Inside(q) = <<>>
      BY <3>3, CodeMembers
    <3> QED BY <3>2, <3>4, WalkDef, EmptySet DEF Walked
  <2>2. ToSet(Walk[part]) = ToSet(part)
    <3>1. ToSet(Walk[part]) = UNION {Walked(q) : q \in ToSet(part)}
      BY <1>2, WalkMembers
    <3> QED BY <2>1, <3>1
  <2> QED BY <1>2, <1>3, <1>5, <2>2 DEF Walked
<1> QED BY <1>4, <1>5

----------------------------------------------------------------------------
(* Calls                                                                   *)

Calls(statements) == UNION {ToSet(s.calls) : s \in statements}

LEMMA CalleesDef ==
  ASSUME NEW s \in Statements
  PROVE  Callees(s) \in Seq(Routines) /\ ToSet(Callees(s)) = ToSet(s.calls) /\ ToSet(s.calls) \subseteq Routines
<1>1. s.calls \in Seq(Routines) /\ s.callee \in Seq(Routines) /\ ToSet(s.callee) \subseteq ToSet(s.calls)
  BY StatementsAssumption DEF IsStatement
<1>2. ToSet(s.calls) \subseteq Routines
  BY <1>1, SeqMembers
<1> DEFINE others == ToSet(s.calls) \ ToSet(s.callee)
<1>3. Sorted[others] \in Seq(Routines) /\ ToSet(Sorted[others]) = others
  BY <1>2, SortedAssumption
<1>4. Callees(s) = s.callee \o Sorted[others]
  BY DEF Callees
<1> HIDE DEF others
<1>5. Callees(s) \in Seq(Routines) /\ ToSet(Callees(s)) = ToSet(s.callee) \cup others
  BY <1>1, <1>3, <1>4, SeqJoin
<1> QED BY <1>1, <1>2, <1>5 DEF others

LEMMA CallsInDef ==
  ASSUME NEW all \in Code
  PROVE  CallsIn[all] \in Seq(Routines) /\ ToSet(CallsIn[all]) = Calls(ToSet(all))
<1> DEFINE F == [s \in Statements |-> Callees(s)]
<1>1. Maps(F, Statements, Routines)
  BY CalleesDef DEF Maps
<1>2. CallsIn = FlatMap(F)
  BY DEF CallsIn
<1>3. \A s \in ToSet(all) : ToSet(F[s]) = ToSet(s.calls)
  BY CodeMembers, CalleesDef
<1>4. /\ FlatMap(F) \in [Seq(Statements) -> Seq(Routines)]
      /\ \A ss \in Seq(Statements) : ToSet(FlatMap(F)[ss]) = UNION {ToSet(F[a]) : a \in ToSet(ss)}
  <2> HIDE DEF F
  <2>1. FlatMap(F) \in [Seq(Statements) -> Seq(Routines)]
    BY <1>1, FlatMapDef
  <2>2. \A ss \in Seq(Statements) : ToSet(FlatMap(F)[ss]) = UNION {ToSet(F[a]) : a \in ToSet(ss)}
    BY <1>1, FlatMapMembers
  <2> QED BY <2>1, <2>2
<1>5. ToSet(CallsIn[all]) = UNION {ToSet(F[s]) : s \in ToSet(all)}
  <2> HIDE DEF F
  <2> QED BY <1>2, <1>4 DEF Code
<1>6. CallsIn[all] \in Seq(Routines)
  <2> HIDE DEF F
  <2> QED BY <1>2, <1>4 DEF Code
<1>7. UNION {ToSet(F[s]) : s \in ToSet(all)} = UNION {ToSet(s.calls) : s \in ToSet(all)}
  BY <1>3
<1> QED BY <1>5, <1>6, <1>7 DEF Calls

(* A routine as a statement: its walk is itself and everything in it. *)
LEMMA WholeDef ==
  ASSUME NEW p, IsProgram(p), NEW r \in Routines
  PROVE  /\ Whole(p[r]) \in Statements /\ <<Whole(p[r])>> \in Code
         /\ Everything(p[r]) \in Code
         /\ ToSet(Walk[<<Whole(p[r])>>]) = {Whole(p[r])} \cup ToSet(Everything(p[r]))
<1> DEFINE w == Whole(p[r])
<1>1. w \in Statements
  BY DEF IsProgram
<1>2. w.query = <<>>
  BY DEF Whole, Plain
<1>3. Everything(p[r]) = Walk[Inside(w)]
  BY DEF Everything
<1> HIDE DEF w
<1>4. <<w>> \in Code /\ ToSet(<<w>>) = {w}
  BY <1>1, EmptySet DEF Code
<1>5. Everything(p[r]) \in Code
  BY <1>1, <1>3, StatementParts, WalkDef DEF Part
<1>6. ToSet(Walk[<<w>>]) = Walked(w)
  <2>1. ToSet(Walk[<<w>>]) = UNION {Walked(s) : s \in {w}}
    BY <1>4, WalkMembers
  <2> QED BY <2>1
<1>7. Walked(w) = {w} \cup ToSet(Everything(p[r]))
  BY <1>2, <1>3, EmptySet DEF Walked
<1> QED BY <1>1, <1>4, <1>5, <1>6, <1>7 DEF w

LEMMA CallsOfDef ==
  ASSUME NEW p, IsProgram(p), NEW r \in Routines
  PROVE  CallsOf(p[r]) \in Seq(Routines) /\ ToSet(CallsOf(p[r])) = Calls(ToSet(Walk[<<Whole(p[r])>>]))
<1>1. /\ Callees(Whole(p[r])) \in Seq(Routines)
      /\ ToSet(Callees(Whole(p[r]))) = ToSet(Whole(p[r]).calls)
  BY WholeDef, CalleesDef
<1>2. /\ CallsIn[Everything(p[r])] \in Seq(Routines)
      /\ ToSet(CallsIn[Everything(p[r])]) = Calls(ToSet(Everything(p[r])))
  BY WholeDef, CallsInDef
<1>3. CallsOf(p[r]) \in Seq(Routines) /\ ToSet(CallsOf(p[r])) = ToSet(Whole(p[r]).calls) \cup Calls(ToSet(Everything(p[r])))
  BY <1>1, <1>2, SeqJoin DEF CallsOf
<1>4. Calls({Whole(p[r])} \cup ToSet(Everything(p[r]))) = ToSet(Whole(p[r]).calls) \cup Calls(ToSet(Everything(p[r])))
  BY DEF Calls
<1> QED BY <1>3, <1>4, WholeDef

(* What a list of routines reaches: them, and what these call. *)
Closed(p, K) == \A r \in K : ToSet(CallsOf(p[r])) \subseteq K

(* The walk of the call graph ends: another routine is seen, or the list   *)
(* is shorter.                                                             *)
Lists  == Seq(Routines) \X Seq(Routines)
Unseen == [at \in Lists |-> <<Cardinality(Routines \ ToSet(at[1])), Len(at[2])>>]

LEMMA UnseenType ==
  /\ Unseen \in [Lists -> Nat \X Nat]
  /\ \A S : IsFiniteSet(Routines \ S) /\ Cardinality(Routines \ S) \in Nat
<1>1. \A S : IsFiniteSet(Routines \ S) /\ Cardinality(Routines \ S) \in Nat
  BY StatementsAssumption, FS_Subset, FS_CardinalityType
<1>2. ASSUME NEW u \in Lists PROVE Cardinality(Routines \ ToSet(u[1])) \in Nat /\ Len(u[2]) \in Nat
  <2>1. Len(u[2]) \in Nat
    BY DEF Lists
  <2> QED BY <1>1, <2>1
<1>3. Unseen \in [Lists -> Nat \X Nat]
  BY <1>2 DEF Unseen
<1> QED BY <1>1, <1>3

LEMMA ListAppend ==
  ASSUME NEW seen \in Seq(Routines), NEW r \in Routines
  PROVE  Append(seen, r) \in Seq(Routines) /\ ToSet(Append(seen, r)) = ToSet(seen) \cup {r}
<1> DEFINE single == <<r>>
<1>1. Append(seen, r) = seen \o single /\ single \in Seq(Routines) /\ ToSet(single) = {r}
  BY EmptySet
<1> HIDE DEF single
<1> QED BY <1>1, SeqJoin

LEMMA UnseenSmaller ==
  ASSUME NEW at \in Lists, at[2] # <<>>
  PROVE  /\ Unseen \in [Lists -> Nat \X Nat]
         /\ <<at[1], Tail(at[2])>> \in Lists /\ Earlier(Unseen, <<at[1], Tail(at[2])>>, at)
         /\ \A more \in Seq(Routines) : ~ Contains(at[1], Head(at[2])) =>
              <<Append(at[1], Head(at[2])), more>> \in Lists /\ Earlier(Unseen, <<Append(at[1], Head(at[2])), more>>, at)
<1> DEFINE h == Head(at[2])
<1>1. at[1] \in Seq(Routines) /\ h \in Routines /\ Tail(at[2]) \in Seq(Routines) /\ Len(Tail(at[2])) < Len(at[2])
  BY SeqParts DEF Lists
<1>2. \A S : IsFiniteSet(Routines \ S) /\ Cardinality(Routines \ S) \in Nat
  BY UnseenType
<1>3. Unseen \in [Lists -> Nat \X Nat]
  BY UnseenType
<1>4. <<at[1], Tail(at[2])>> \in Lists /\ Earlier(Unseen, <<at[1], Tail(at[2])>>, at)
  <2>1. <<at[1], Tail(at[2])>> \in Lists
    BY <1>1 DEF Lists
  <2> QED BY <1>1, <2>1 DEF Earlier, Unseen
<1>5. ASSUME NEW more \in Seq(Routines), ~ Contains(at[1], h)
      PROVE  <<Append(at[1], h), more>> \in Lists /\ Earlier(Unseen, <<Append(at[1], h), more>>, at)
  <2>1. h \notin ToSet(at[1])
    <3>1. DOMAIN at[1] = 1 .. Len(at[1])
      BY <1>1
    <3> QED BY <1>5, <3>1 DEF Contains, ToSet
  <2>2. Append(at[1], h) \in Seq(Routines) /\ ToSet(Append(at[1], h)) = ToSet(at[1]) \cup {h}
    BY <1>1, ListAppend
  <2> HIDE DEF h
  <2>3. <<Append(at[1], h), more>> \in Lists
    BY <2>2 DEF Lists
  <2> DEFINE U == Routines \ ToSet(at[1])
  <2>4. Routines \ ToSet(Append(at[1], h)) = U \ {h} /\ h \in U
    BY <1>1, <2>1, <2>2
  <2>5. Cardinality(U \ {h}) = Cardinality(U) - 1 /\ Cardinality(U) \in Nat /\ Cardinality(U \ {h}) \in Nat
    <3>1. IsFiniteSet(U)
      BY <1>2
    <3> HIDE DEF U
    <3> QED BY <2>4, <3>1, FS_RemoveElement, FS_CardinalityType
  <2>6. Unseen[<<Append(at[1], h), more>>][1] < Unseen[at][1]
    <3>1. Unseen[<<Append(at[1], h), more>>][1] = Cardinality(U \ {h})
      BY <2>3, <2>4 DEF Unseen
    <3>2. Unseen[at][1] = Cardinality(U)
      BY DEF Unseen
    <3> HIDE DEF U
    <3> QED BY <2>5, <3>1, <3>2
  <2> QED BY <2>3, <2>6 DEF Earlier
<1> QED BY <1>3, <1>4, <1>5

LEMMA ReachableDef ==
  ASSUME NEW p, IsProgram(p)
  PROVE  /\ Reachable(p) \in [Lists -> Seq(Routines)]
         /\ \A at \in Lists : Reachable(p)[at] =
              IF at[2] = <<>> THEN at[1]
              ELSE IF Contains(at[1], Head(at[2])) THEN Reachable(p)[<<at[1], Tail(at[2])>>]
              ELSE Reachable(p)[<<Append(at[1], Head(at[2])), CallsOf(p[Head(at[2])]) \o Tail(at[2])>>]
<1> DEFINE D == Lists
           R == Seq(Routines)
           Step(f, at) == IF at[2] = <<>> THEN at[1]
                          ELSE IF Contains(at[1], Head(at[2])) THEN f[<<at[1], Tail(at[2])>>]
                          ELSE f[<<Append(at[1], Head(at[2])), CallsOf(p[Head(at[2])]) \o Tail(at[2])>>]
           G == [a \in [D -> R] \X D |-> Step(a[1], a[2])]
           One(at) == <<at[1], Tail(at[2])>>
           Two(at) == <<Append(at[1], Head(at[2])), CallsOf(p[Head(at[2])]) \o Tail(at[2])>>
<1>1. \A at \in Lists : at[1] \in Seq(Routines) /\ at[2] \in Seq(Routines)
  BY DEF Lists
<1>2. ASSUME NEW at \in Lists, at[2] # <<>>
      PROVE  /\ One(at) \in Lists /\ Earlier(Unseen, One(at), at)
             /\ ~ Contains(at[1], Head(at[2])) => Two(at) \in Lists /\ Earlier(Unseen, Two(at), at)
  <2>1. Head(at[2]) \in Routines /\ Tail(at[2]) \in Seq(Routines)
    BY <1>1, <1>2, SeqParts
  <2>2. CallsOf(p[Head(at[2])]) \o Tail(at[2]) \in Seq(Routines)
    BY <2>1, CallsOfDef, SeqJoin
  <2> QED BY <1>2, <2>2, UnseenSmaller
<1>3. Unseen \in [Lists -> Nat \X Nat]
  BY UnseenType
<1>4. ASSUME NEW f, NEW at \in Lists, at[2] # <<>> => f[One(at)] \in R /\ (~ Contains(at[1], Head(at[2])) => f[Two(at)] \in R)
      PROVE  Step(f, at) \in R
  BY <1>1, <1>4
<1>5. G \in [[D -> R] \X D -> R]
  <2>1. ASSUME NEW f \in [D -> R], NEW at \in D PROVE Step(f, at) \in R
    <3>1. at[2] # <<>> => f[One(at)] \in R /\ (~ Contains(at[1], Head(at[2])) => f[Two(at)] \in R)
      BY <1>2
    <3> HIDE DEF Step, R, One, Two
    <3> QED BY <1>4, <3>1
  <2> HIDE DEF D, R, Step
  <2> QED BY <2>1
<1>6. ASSUME NEW f \in [D -> R], NEW g \in [D -> R], NEW at \in D, \A u \in D : Earlier(Unseen, u, at) => f[u] = g[u]
      PROVE  Step(f, at) = Step(g, at)
  BY <1>2, <1>6
<1>7. \A f \in [D -> R], at \in D : G[<<f, at>>] = Step(f, at)
  <2> HIDE DEF D, R, Step
  <2> QED OBVIOUS
<1>8. Recursive(D, Unseen, R, G)
  <2> HIDE DEF Step, G
  <2>1. \A f, g \in [D -> R] : \A at \in D :
          (\A u \in D : Earlier(Unseen, u, at) => f[u] = g[u]) => G[<<f, at>>] = G[<<g, at>>]
    <3> SUFFICES ASSUME NEW f \in [D -> R], NEW g \in [D -> R], NEW at \in D,
                        \A u \in D : Earlier(Unseen, u, at) => f[u] = g[u]
                 PROVE  G[<<f, at>>] = G[<<g, at>>]
      OBVIOUS
    <3> HIDE DEF D, R
    <3> QED BY <1>6, <1>7
  <2>2. R # {}
    <3>1. <<>> \in R
      OBVIOUS
    <3> QED BY <3>1
  <2> HIDE DEF R
  <2> QED BY <1>3, <1>5, <2>1, <2>2 DEF Recursive
<1>9. PICK f \in [D -> R] : \A at \in D : f[at] = Step(f, at)
  <2> HIDE DEF D, R, G, Step
  <2>1. \E f \in [D -> R] : \A at \in D : f[at] = G[<<f, at>>]
    BY <1>8, Recursion
  <2> QED BY <1>7, <2>1
<1>10. f = [at \in Lists |-> Step(f, at)]
  <2> HIDE DEF Step
  <2> QED BY <1>9
<1>11. Reachable(p) = [at \in Lists |-> Step(Reachable(p), at)]
  BY <1>10 DEF Reachable, Lists
<1>12. \A at \in Lists : Reachable(p)[at] = Step(Reachable(p), at)
  <2> HIDE DEF Step
  <2> QED BY <1>11
<1> DEFINE Typed == {at \in Lists : Reachable(p)[at] \in R}
<1>13. Lists \subseteq Typed
  <2>1. ASSUME NEW at \in Lists, \A u \in Lists : Earlier(Unseen, u, at) => u \in Typed PROVE at \in Typed
    <3> DEFINE f0 == Reachable(p)
    <3> HIDE DEF f0, Step, One, Two
    <3>1. at[2] # <<>> => f0[One(at)] \in R /\ (~ Contains(at[1], Head(at[2])) => f0[Two(at)] \in R)
      BY <1>2, <2>1 DEF f0
    <3>2. Step(f0, at) \in R
      <4> HIDE DEF R
      <4> QED BY <1>4, <3>1
    <3> QED BY <1>12, <3>2 DEF f0
  <2> HIDE DEF Typed
  <2>2. Hereditary(Lists, Unseen, Typed)
    BY <1>3, <2>1 DEF Hereditary
  <2> QED BY <2>2, Inductive
<1>14. Reachable(p) \in [Lists -> R]
  <2> HIDE DEF Step
  <2> QED BY <1>11, <1>13
<1> QED BY <1>12, <1>14

(* It yields the routines seen, those of the list and what they call, and  *)
(* no others.                                                              *)
LEMMA ReachableMembers ==
  ASSUME NEW p, IsProgram(p), NEW at \in Lists
  PROVE  LET result == ToSet(Reachable(p)[at])
         IN /\ ToSet(at[1]) \cup ToSet(at[2]) \subseteq result
            /\ \A r \in result \ ToSet(at[1]) : ToSet(CallsOf(p[r])) \subseteq result
            /\ \A K \in SUBSET Routines : ToSet(at[2]) \subseteq K /\ Closed(p, K) => result \subseteq ToSet(at[1]) \cup K
<1> DEFINE Result(u) == ToSet(Reachable(p)[u])
           Ends(u) == /\ ToSet(u[1]) \cup ToSet(u[2]) \subseteq Result(u)
                      /\ \A r \in Result(u) \ ToSet(u[1]) : ToSet(CallsOf(p[r])) \subseteq Result(u)
                      /\ \A K \in SUBSET Routines :
                           ToSet(u[2]) \subseteq K /\ Closed(p, K) => Result(u) \subseteq ToSet(u[1]) \cup K
           Good == {u \in Lists : Ends(u)}
<1>1. ASSUME NEW u \in Lists, \A v \in Lists : Earlier(Unseen, v, u) => v \in Good PROVE Ends(u)
  <2> DEFINE seen == u[1]
             next == u[2]
             h    == Head(next)
             rest == Tail(next)
  <2>0. seen \in Seq(Routines) /\ next \in Seq(Routines)
    BY DEF Lists
  <2>1. CASE next = <<>>
    <3>1. Reachable(p)[u] = seen /\ ToSet(next) = {}
      BY <2>1, ReachableDef, EmptySet
    <3> QED BY <3>1
  <2>2. ASSUME next # <<>>
        PROVE  h \in Routines /\ rest \in Seq(Routines) /\ ToSet(next) = {h} \cup ToSet(rest)
    BY <2>0, <2>2, SeqParts
  <2>3. CASE next # <<>> /\ Contains(seen, h)
    <3> DEFINE v == <<seen, rest>>
    <3>1. Reachable(p)[u] = Reachable(p)[v]
      BY <2>3, ReachableDef
    <3>2. v \in Lists /\ Earlier(Unseen, v, u)
      BY <2>3, UnseenSmaller
    <3>3. Ends(v)
      BY <1>1, <3>2
    <3>4. h \in ToSet(seen)
      <4>1. DOMAIN seen = 1 .. Len(seen)
        BY <2>0
      <4> QED BY <2>3, <4>1 DEF Contains, ToSet
    <3>5. Result(u) = Result(v) /\ v[1] = seen /\ v[2] = rest
      BY <3>1
    <3> HIDE DEF seen, next, h, rest, v, Result
    <3> QED BY <2>2, <2>3, <3>3, <3>4, <3>5 DEF seen, next
  <2>4. CASE next # <<>> /\ ~ Contains(seen, h)
    <3> DEFINE more == CallsOf(p[h]) \o rest
               v == <<Append(seen, h), more>>
    <3>1. Reachable(p)[u] = Reachable(p)[v]
      BY <2>4, ReachableDef
    <3>2. more \in Seq(Routines) /\ ToSet(more) = ToSet(CallsOf(p[h])) \cup ToSet(rest)
      <4> HIDE DEF rest, h
      <4>1. CallsOf(p[h]) \in Seq(Routines) /\ rest \in Seq(Routines)
        BY <2>2, <2>4, CallsOfDef
      <4> QED BY <4>1, SeqJoin
    <3>3. v \in Lists /\ Earlier(Unseen, v, u)
      <4> HIDE DEF more
      <4> QED BY <2>4, <3>2, UnseenSmaller
    <3>4. Ends(v)
      BY <1>1, <3>3
    <3>5. ToSet(v[1]) = ToSet(seen) \cup {h} /\ v[2] = more /\ Result(u) = Result(v)
      BY <2>0, <2>2, <2>4, <3>1, ListAppend
    <3> HIDE DEF seen, next, h, rest, v, more, Result
    <3>6. ToSet(u[1]) \cup ToSet(u[2]) \subseteq Result(u)
      BY <2>2, <2>4, <3>2, <3>4, <3>5 DEF seen, next
    <3>7. ASSUME NEW r \in Result(u) \ ToSet(u[1]) PROVE ToSet(CallsOf(p[r])) \subseteq Result(u)
      BY <3>2, <3>4, <3>5, <3>7 DEF seen
    <3>8. ASSUME NEW K \in SUBSET Routines, ToSet(u[2]) \subseteq K, Closed(p, K) PROVE Result(u) \subseteq ToSet(u[1]) \cup K
      <4>1. h \in K /\ ToSet(rest) \subseteq K
        BY <2>2, <2>4, <3>8 DEF next
      <4>2. ToSet(v[2]) \subseteq K
        BY <3>2, <3>5, <3>8, <4>1 DEF Closed
      <4> QED BY <3>4, <3>5, <3>8, <4>1, <4>2 DEF seen
    <3> QED BY <3>6, <3>7, <3>8
  <2> QED BY <2>1, <2>3, <2>4
<1>2. Unseen \in [Lists -> Nat \X Nat]
  BY UnseenType
<1>3. Lists \subseteq Good
  <2> HIDE DEF Ends
  <2>1. Hereditary(Lists, Unseen, Good)
    BY <1>1, <1>2 DEF Hereditary
  <2> HIDE DEF Good
  <2> QED BY <2>1, Inductive
<1>4. Ends(at)
  <2> HIDE DEF Ends
  <2> QED BY <1>3
<1> QED BY <1>4

(* reachable (capability.py 217-225) visits each routine once and lists the *)
(* least set of routines that has the first and is closed under calls.     *)
THEOREM ReachedDef ==
  ASSUME NEW p, IsProgram(p), NEW c \in Routines
  PROVE  /\ Reached(p, c) \in Seq(Routines) /\ ToSet(Reached(p, c)) \subseteq Routines
         /\ c \in ToSet(Reached(p, c)) /\ Closed(p, ToSet(Reached(p, c)))
         /\ \A K \in SUBSET Routines : c \in K /\ Closed(p, K) => ToSet(Reached(p, c)) \subseteq K
<1> DEFINE at == <<<<>>, <<c>>>>
<1>1. at \in Lists /\ at[1] = <<>> /\ at[2] = <<c>>
  <2>1. <<>> \in Seq(Routines) /\ <<c>> \in Seq(Routines)
    OBVIOUS
  <2> DEFINE first == <<>>
             second == <<c>>
  <2> HIDE DEF first, second
  <2>2. <<first, second>> \in Lists
    BY <2>1 DEF Lists, first, second
  <2> QED BY <2>2 DEF first, second
<1>2. ToSet(at[1]) = {} /\ ToSet(at[2]) = {c}
  BY <1>1, EmptySet
<1>3. Reached(p, c) = Reachable(p)[at]
  BY DEF Reached
<1> HIDE DEF at
<1>4. Reached(p, c) \in Seq(Routines)
  <2>1. Reachable(p) \in [Lists -> Seq(Routines)]
    BY ReachableDef
  <2> QED BY <1>1, <1>3, <2>1
<1>5. /\ ToSet(at[1]) \cup ToSet(at[2]) \subseteq ToSet(Reached(p, c))
      /\ \A r \in ToSet(Reached(p, c)) \ ToSet(at[1]) : ToSet(CallsOf(p[r])) \subseteq ToSet(Reached(p, c))
      /\ \A K \in SUBSET Routines :
           ToSet(at[2]) \subseteq K /\ Closed(p, K) => ToSet(Reached(p, c)) \subseteq ToSet(at[1]) \cup K
  BY <1>1, <1>3, ReachableMembers
<1> QED BY <1>2, <1>4, <1>5, SeqMembers DEF Closed

----------------------------------------------------------------------------
(* What calls run                                                          *)

(* The statements a call of c may run *)
RanBy(p, c) == UNION {ToSet(Everything(p[r])) : r \in ToSet(Reached(p, c))}

LEMMA RanDef ==
  ASSUME NEW p, IsProgram(p), NEW cs \in Seq(Routines)
  PROVE  Ran(p, cs) \in Code /\ ToSet(Ran(p, cs)) = UNION {RanBy(p, c) : c \in ToSet(cs)}
<1> DEFINE E == [r \in Routines |-> Everything(p[r])]
           F == [r \in Routines |-> StatementsOf(p)[Reached(p, r)]]
<1>1. Maps(E, Routines, Statements)
  BY WholeDef DEF Maps, Code
<1>2. StatementsOf(p) = FlatMap(E)
  BY DEF StatementsOf
<1>3. ASSUME NEW c \in Routines
      PROVE  StatementsOf(p)[Reached(p, c)] \in Code /\ ToSet(StatementsOf(p)[Reached(p, c)]) = RanBy(p, c)
  <2>1. Reached(p, c) \in Seq(Routines) /\ ToSet(Reached(p, c)) \subseteq Routines
    BY ReachedDef
  <2>2. FlatMap(E) \in [Seq(Routines) -> Seq(Statements)]
    <3> HIDE DEF E
    <3> QED BY <1>1, FlatMapDef
  <2>3. \A rs \in Seq(Routines) : ToSet(FlatMap(E)[rs]) = UNION {ToSet(E[r]) : r \in ToSet(rs)}
    <3> HIDE DEF E
    <3> QED BY <1>1, FlatMapMembers
  <2>4. UNION {ToSet(E[r]) : r \in ToSet(Reached(p, c))} = RanBy(p, c)
    BY <2>1 DEF RanBy
  <2> HIDE DEF E
  <2> QED BY <1>2, <2>1, <2>2, <2>3, <2>4 DEF Code
<1>4. Maps(F, Routines, Statements)
  <2>1. \A r \in Routines : F[r] \in Seq(Statements)
    BY <1>3 DEF Code
  <2> QED BY <1>3 DEF Maps, Code
<1>5. Ran(p, cs) = FlatMap(F)[cs]
  BY DEF Ran
<1>6. FlatMap(F) \in [Seq(Routines) -> Seq(Statements)]
  <2> HIDE DEF F
  <2> QED BY <1>4, FlatMapDef
<1>7. \A rs \in Seq(Routines) : ToSet(FlatMap(F)[rs]) = UNION {ToSet(F[r]) : r \in ToSet(rs)}
  <2> HIDE DEF F
  <2> QED BY <1>4, FlatMapMembers
<1>8. UNION {ToSet(F[r]) : r \in ToSet(cs)} = UNION {RanBy(p, c) : c \in ToSet(cs)}
  <2>1. \A r \in ToSet(cs) : ToSet(F[r]) = RanBy(p, r)
    BY <1>3, SeqMembers
  <2> HIDE DEF F
  <2> QED BY <2>1
<1> HIDE DEF F
<1>9. Ran(p, cs) \in Code
  BY <1>5, <1>6 DEF Code
<1> QED BY <1>5, <1>7, <1>8, <1>9

(* The statements a sequence may run: its own, and those of what they call *)
All(p, ss) == ToSet(Walk[ss]) \cup ToSet(Ran(p, CallsIn[Walk[ss]]))

LEMMA AllDef ==
  ASSUME NEW p, IsProgram(p), NEW ss \in Code
  PROVE  /\ All(p, ss) \subseteq Statements
         /\ All(p, ss) = ToSet(Walk[ss]) \cup UNION {RanBy(p, c) : c \in Calls(ToSet(Walk[ss]))}
         /\ WritesIn(p, ss) = UNION {x.writes : x \in All(p, ss)}
<1>1. Walk[ss] \in Code
  BY WalkDef
<1>2. CallsIn[Walk[ss]] \in Seq(Routines) /\ ToSet(CallsIn[Walk[ss]]) = Calls(ToSet(Walk[ss]))
  BY <1>1, CallsInDef
<1>3. Ran(p, CallsIn[Walk[ss]]) \in Code
  BY <1>2, RanDef
<1>4. ToSet(Ran(p, CallsIn[Walk[ss]])) = UNION {RanBy(p, c) : c \in Calls(ToSet(Walk[ss]))}
  BY <1>2, RanDef
<1>5. WritesIn(p, ss) = Written(Walk[ss]) \cup Written(Ran(p, CallsIn[Walk[ss]]))
  BY DEF WritesIn, WritesOf
<1>6. WritesIn(p, ss) = UNION {x.writes : x \in All(p, ss)}
  BY <1>5 DEF Written, All
<1> QED BY <1>1, <1>3, <1>4, <1>6, CodeMembers DEF All

LEMMA AllMore ==
  ASSUME NEW p, IsProgram(p), NEW ss \in Code, NEW tt \in Code, ToSet(Walk[ss]) \subseteq ToSet(Walk[tt])
  PROVE  All(p, ss) \subseteq All(p, tt)
<1>1. Calls(ToSet(Walk[ss])) \subseteq Calls(ToSet(Walk[tt]))
  BY DEF Calls
<1> QED BY <1>1, AllDef

(* A call runs the routine and what it calls, and no more. *)
LEMMA AllCalled ==
  ASSUME NEW p, IsProgram(p), NEW s \in Statements, NEW r \in ToSet(s.calls)
  PROVE  /\ r \in Routines
         /\ All(p, <<Whole(p[r])>>) \subseteq {Whole(p[r])} \cup ToSet(Ran(p, Callees(s)))
<1>1. r \in Routines /\ Callees(s) \in Seq(Routines) /\ ToSet(Callees(s)) = ToSet(s.calls)
  BY CalleesDef
<1>2. RanBy(p, r) \subseteq ToSet(Ran(p, Callees(s)))
  BY <1>1, RanDef
<1> DEFINE w == Whole(p[r])
<1>3. <<w>> \in Code /\ ToSet(Walk[<<w>>]) = {w} \cup ToSet(Everything(p[r])) /\ ToSet(CallsOf(p[r])) = Calls(ToSet(Walk[<<w>>]))
  BY <1>1, WholeDef, CallsOfDef
<1>4. ToSet(Everything(p[r])) \subseteq RanBy(p, r)
  BY <1>1, ReachedDef DEF RanBy
<1>5. ASSUME NEW c \in Calls(ToSet(Walk[<<w>>])) PROVE RanBy(p, c) \subseteq RanBy(p, r)
  <2>1. c \in ToSet(Reached(p, r)) /\ c \in Routines
    BY <1>1, <1>3, <1>5, ReachedDef DEF Closed
  <2>2. ToSet(Reached(p, c)) \subseteq ToSet(Reached(p, r))
    BY <1>1, <2>1, ReachedDef
  <2> QED BY <2>2 DEF RanBy
<1> HIDE DEF w
<1>6. All(p, <<w>>) = ToSet(Walk[<<w>>]) \cup UNION {RanBy(p, c) : c \in Calls(ToSet(Walk[<<w>>]))}
  BY <1>3, AllDef
<1>7. All(p, <<w>>) \subseteq {w} \cup RanBy(p, r)
  BY <1>3, <1>4, <1>5, <1>6
<1> QED BY <1>1, <1>2, <1>7 DEF w

LEMMA RanInAll ==
  ASSUME NEW p, IsProgram(p), NEW ss \in Code, NEW s \in ToSet(Walk[ss])
  PROVE  s \in Statements /\ Callees(s) \in Seq(Routines) /\ ToSet(Ran(p, Callees(s))) \subseteq All(p, ss)
<1>1. s \in Statements
  BY WalkIncludes
<1>2. Callees(s) \in Seq(Routines) /\ ToSet(Callees(s)) = ToSet(s.calls)
  BY <1>1, CalleesDef
<1>3. ToSet(s.calls) \subseteq Calls(ToSet(Walk[ss]))
  BY DEF Calls
<1>4. ToSet(Ran(p, Callees(s))) = UNION {RanBy(p, c) : c \in ToSet(s.calls)}
  BY <1>2, RanDef
<1> QED BY <1>1, <1>2, <1>3, <1>4, AllDef

----------------------------------------------------------------------------
(* What is written and scanned                                             *)

(* The tables a statement sequence, and what it calls, scans *)
Scannable(p, ss) == UNION {Scans(x, Tables) : x \in All(p, ss)}

LEMMA ScansDef ==
  ASSUME NEW x \in Statements, NEW T \in SUBSET Tables
  PROVE  /\ Scans(x, T) = Scans(x, Tables) \cap T
         /\ x.writes \subseteq Tables
         /\ x.kind # "Sql" => x.writes = {} /\ Scans(x, T) = {}
<1>1. IsStatement(x)
  BY StatementsAssumption
<1>2. x.reads \subseteq Tables /\ x.writes \subseteq Tables
  BY <1>1 DEF IsStatement
<1> QED BY <1>1, <1>2 DEF IsStatement, Scans

LEMMA WritesMore ==
  ASSUME NEW p, IsProgram(p), NEW ss \in Code, NEW tt \in Code, ToSet(Walk[ss]) \subseteq ToSet(Walk[tt])
  PROVE  WritesIn(p, ss) \subseteq WritesIn(p, tt) /\ Scannable(p, ss) \subseteq Scannable(p, tt)
<1>1. All(p, ss) \subseteq All(p, tt)
  BY AllMore
<1>2. /\ WritesIn(p, ss) = UNION {x.writes : x \in All(p, ss)}
      /\ WritesIn(p, tt) = UNION {x.writes : x \in All(p, tt)}
  BY AllDef
<1> QED BY <1>1, <1>2 DEF Scannable

LEMMA WritesType ==
  ASSUME NEW p, IsProgram(p), NEW ss \in Code
  PROVE  WritesIn(p, ss) \subseteq Tables
<1>1. All(p, ss) \subseteq Statements /\ WritesIn(p, ss) = UNION {x.writes : x \in All(p, ss)}
  BY AllDef
<1>2. \A x \in All(p, ss) : x.writes \subseteq Tables
  BY <1>1, ScansDef
<1> QED BY <1>1, <1>2

(* A call writes and scans what its routine does. *)
LEMMA WritesCalled ==
  ASSUME NEW p, IsProgram(p), NEW s \in Statements, NEW r \in ToSet(s.calls)
  PROVE  /\ r \in Routines /\ <<Whole(p[r])>> \in Code
         /\ WritesIn(p, <<Whole(p[r])>>) \subseteq Written(Ran(p, Callees(s)))
         /\ \A t \in Scannable(p, <<Whole(p[r])>>) : \E x \in ToSet(Ran(p, Callees(s))) : t \in Scans(x, Tables)
<1> DEFINE w == Whole(p[r])
           called == Ran(p, Callees(s))
<1>1. r \in Routines /\ All(p, <<w>>) \subseteq {w} \cup ToSet(called)
  BY AllCalled
<1>2. <<w>> \in Code /\ w \in Statements
  BY <1>1, WholeDef
<1>3. w.kind = "Block"
  BY DEF Whole, Plain
<1> HIDE DEF w, called
<1>4. w.writes = {} /\ Scans(w, Tables) = {}
  BY <1>2, <1>3, ScansDef
<1>5. WritesIn(p, <<w>>) = UNION {x.writes : x \in All(p, <<w>>)}
  BY <1>2, AllDef
<1>6. WritesIn(p, <<w>>) \subseteq Written(called)
  BY <1>1, <1>4, <1>5 DEF Written
<1>7. \A t \in Scannable(p, <<w>>) : \E x \in ToSet(called) : t \in Scans(x, Tables)
  BY <1>1, <1>4 DEF Scannable
<1> QED BY <1>1, <1>2, <1>6, <1>7 DEF w, called

(* What is written by one statement, with all that is below it *)
WritesOfOne(p, s) == s.writes \cup Written(Ran(p, Callees(s))) \cup UNION {WritesIn(p, part) : part \in Parts(s)}

LEMMA WritesParts ==
  ASSUME NEW p, IsProgram(p), NEW ss \in Code
  PROVE  WritesIn(p, ss) = UNION {WritesOfOne(p, s) : s \in ToSet(ss)}
<1>1. WritesIn(p, ss) = UNION {x.writes : x \in All(p, ss)}
  BY AllDef
<1>2. ASSUME NEW s \in ToSet(ss) PROVE WritesOfOne(p, s) \subseteq WritesIn(p, ss)
  <2>1. s \in ToSet(Walk[ss])
    BY WalkIncludes
  <2>2. s.writes \subseteq WritesIn(p, ss)
    BY <1>1, <2>1 DEF All
  <2>3. Written(Ran(p, Callees(s))) \subseteq WritesIn(p, ss)
    BY <1>1, <2>1, RanInAll DEF Written
  <2>4. \A part \in Parts(s) : WritesIn(p, part) \subseteq WritesIn(p, ss)
    BY WalkPart, WritesMore
  <2> QED BY <2>2, <2>3, <2>4 DEF WritesOfOne
<1>3. ASSUME NEW x \in All(p, ss) PROVE \E s \in ToSet(ss) : x.writes \subseteq WritesOfOne(p, s)
  <2>1. ASSUME NEW y \in ToSet(Walk[ss])
        PROVE  \E s \in ToSet(ss) : y = s \/ \E part \in Parts(s) : y \in ToSet(Walk[part])
    <3>1. PICK s \in ToSet(ss) : y \in Walked(s)
      BY WalkMembers
    <3>2. s \in Statements
      BY CodeMembers
    <3>3. CASE y \in ToSet(s.query)
      <4>1. s.query \in Parts(s) /\ s.query \in Code
        BY <3>2, StatementParts DEF Parts, Part
      <4> QED BY <3>3, <4>1, WalkIncludes
    <3>4. CASE y \in ToSet(Walk[Inside(s)])
      <4>1. Inside(s) \in Code
        BY <3>2, StatementParts DEF Part
      <4>2. PICK z \in ToSet(Inside(s)) : y \in Walked(z)
        BY <3>4, <4>1, WalkMembers
      <4>3. PICK part \in Parts(s) : z \in ToSet(part)
        BY <3>2, StatementParts DEF Parts
      <4>4. y \in ToSet(Walk[part])
        BY <4>2, <4>3, WalkPart, WalkMembers
      <4> QED BY <4>4
    <3> QED BY <3>1, <3>3, <3>4 DEF Walked
  <2>2. ASSUME NEW y \in ToSet(Walk[ss]), x = y \/ x \in ToSet(Ran(p, Callees(y)))
        PROVE  \E s \in ToSet(ss) : x.writes \subseteq WritesOfOne(p, s)
    <3>1. PICK s \in ToSet(ss) : y = s \/ \E part \in Parts(s) : y \in ToSet(Walk[part])
      BY <2>1
    <3>2. CASE y = s
      BY <2>2, <3>2 DEF WritesOfOne, Written
    <3>3. CASE \E part \in Parts(s) : y \in ToSet(Walk[part])
      <4>1. PICK part \in Parts(s) : y \in ToSet(Walk[part])
        BY <3>3
      <4>2. part \in Code
        BY WalkPart
      <4>3. x \in All(p, part)
        BY <2>2, <4>1, <4>2, RanInAll DEF All
      <4>4. x.writes \subseteq WritesIn(p, part)
        BY <4>2, <4>3, AllDef
      <4> QED BY <4>4 DEF WritesOfOne
    <3> QED BY <3>1, <3>2, <3>3
  <2>3. CASE x \in ToSet(Walk[ss])
    BY <2>2, <2>3
  <2>4. CASE x \notin ToSet(Walk[ss])
    <3>1. PICK c \in Calls(ToSet(Walk[ss])) : x \in RanBy(p, c)
      BY <2>4, AllDef
    <3>2. PICK y \in ToSet(Walk[ss]) : c \in ToSet(y.calls)
      BY DEF Calls
    <3>3. y \in Statements
      BY WalkIncludes
    <3>4. x \in ToSet(Ran(p, Callees(y)))
      BY <3>1, <3>2, <3>3, CalleesDef, RanDef
    <3> QED BY <2>2, <3>4
  <2> QED BY <2>3, <2>4
<1> QED BY <1>1, <1>2, <1>3

----------------------------------------------------------------------------
(* The steps of a visit                                                    *)

(* One walk has written and found no more than another. *)
Within(a, b) == a.written \subseteq b.written /\ a.found \subseteq b.found

LEMMA WrittenType ==
  ASSUME NEW all \in Code
  PROVE  /\ Written(all) \subseteq Tables
         /\ \A i \in DOMAIN all, T \in SUBSET Tables : Before(all, i, T) \subseteq Tables /\ T \subseteq Before(all, i, T)
<1>1. \A x \in ToSet(all) : x.writes \subseteq Tables
  BY CodeMembers, ScansDef
<1>2. Written(all) \subseteq Tables
  BY <1>1 DEF Written
<1>3. ASSUME NEW i \in DOMAIN all, NEW T \in SUBSET Tables
      PROVE  Before(all, i, T) \subseteq Tables /\ T \subseteq Before(all, i, T)
  <2> DEFINE part == SubSeq(all, 1, i - 1)
  <2>1. ToSet(part) \subseteq ToSet(all)
    <3>1. all \in Seq(Statements) /\ i \in 1 .. Len(all) /\ DOMAIN all = 1 .. Len(all) /\ Len(all) \in Nat
      BY DEF Code
    <3>2. Len(part) = i - 1 /\ DOMAIN part = 1 .. (i - 1) /\ \A k \in 1 .. (i - 1) : part[k] = all[k]
      BY <3>1
    <3>3. \A k \in 1 .. (i - 1) : k \in DOMAIN all
      BY <3>1
    <3> HIDE DEF part
    <3> QED BY <3>2, <3>3 DEF ToSet
  <2>2. Written(part) \subseteq Tables
    BY <1>1, <2>1 DEF Written
  <2> QED BY <2>2 DEF Before
<1> QED BY <1>2, <1>3

(* The callees' statements: each is checked against what was written       *)
(* before the call at least.                                               *)
LEMMA FollowDef ==
  ASSUME NEW all \in Code, NEW acc \in Accs
  PROVE  /\ Follow(all, acc) \in Accs
         /\ Follow(all, acc).written = acc.written \cup Written(all)
         /\ acc.found \subseteq Follow(all, acc).found
         /\ \A x \in ToSet(all) : Scans(x, acc.written) \subseteq Follow(all, acc).found
         /\ \A less \in Accs : Within(less, acc) => Follow(all, less).found \subseteq Follow(all, acc).found
<1>1. acc.written \subseteq Tables /\ acc.found \subseteq Tables
  BY DEF Accs
<1>2. \A i \in DOMAIN all : all[i] \in Statements /\ all[i] \in ToSet(all)
  BY CodeMembers DEF ToSet
<1>3. \A i \in DOMAIN all, T \in SUBSET Tables :
        Scans(all[i], Before(all, i, T)) = Scans(all[i], Tables) \cap Before(all, i, T)
  BY <1>2, WrittenType, ScansDef
<1>4. /\ Follow(all, acc).written = acc.written \cup Written(all)
      /\ Follow(all, acc).found = acc.found \cup UNION {Scans(all[i], Before(all, i, acc.written)) : i \in DOMAIN all}
  BY DEF Follow
<1>5. Follow(all, acc) \in Accs
  <2>1. \A i \in DOMAIN all : Scans(all[i], Before(all, i, acc.written)) \subseteq Tables
    BY <1>1, <1>3, WrittenType
  <2>2. Follow(all, acc).found \subseteq Tables /\ Follow(all, acc).written \subseteq Tables
    BY <1>1, <1>4, <2>1, WrittenType
  <2>3. Follow(all, acc) = [written |-> Follow(all, acc).written, found |-> Follow(all, acc).found]
    BY DEF Follow
  <2> QED BY <2>2, <2>3 DEF Accs
<1>6. ASSUME NEW x \in ToSet(all) PROVE Scans(x, acc.written) \subseteq Follow(all, acc).found
  <2>1. PICK i \in DOMAIN all : x = all[i]
    BY DEF ToSet
  <2>2. Scans(x, acc.written) = Scans(x, Tables) \cap acc.written
    BY <1>1, <1>2, <2>1, ScansDef
  <2>3. acc.written \subseteq Before(all, i, acc.written)
    BY <1>1, WrittenType
  <2>4. Scans(x, acc.written) \subseteq Scans(all[i], Before(all, i, acc.written))
    BY <1>1, <1>3, <2>1, <2>2, <2>3
  <2> QED BY <1>4, <2>4
<1>7. ASSUME NEW less \in Accs, Within(less, acc)
      PROVE  Follow(all, less).found \subseteq Follow(all, acc).found
  <2>1. less.written \subseteq Tables /\ less.written \subseteq acc.written /\ less.found \subseteq acc.found
    BY <1>7 DEF Accs, Within
  <2>2. \A i \in DOMAIN all : Before(all, i, less.written) \subseteq Before(all, i, acc.written)
    BY <2>1 DEF Before
  <2>3. \A i \in DOMAIN all : Scans(all[i], Before(all, i, less.written)) \subseteq Scans(all[i], Before(all, i, acc.written))
    BY <1>1, <1>3, <2>1, <2>2
  <2>4. Follow(all, less).found = less.found \cup UNION {Scans(all[i], Before(all, i, less.written)) : i \in DOMAIN all}
    BY DEF Follow
  <2> QED BY <1>4, <2>1, <2>3, <2>4
<1> QED BY <1>4, <1>5, <1>6, <1>7

(* What a loop may have written when its body starts again *)
Repeats(p, s) == IF s.kind = "Loop" THEN WritesIn(p, s.body) ELSE {}

(* A statement reaches what is below it with all it has called written,    *)
(* and all scans of the query, of itself and of the callees made, with     *)
(* what was written before, or by the callees, in mind.                    *)
LEMMA ReachesDef ==
  ASSUME NEW p, IsProgram(p), NEW s \in Statements, NEW acc \in Accs
  PROVE  LET D == Reaches(p, s, acc)
             B == acc.written \cup Repeats(p, s)
         IN /\ D \in Accs
            /\ D.written = B \cup Written(Ran(p, Callees(s))) \cup s.writes
            /\ acc.found \subseteq D.found
            /\ \A q \in ToSet(s.query) : Scans(q, acc.written) \subseteq D.found
            /\ Scans(s, B) \subseteq D.found
            /\ \A x \in ToSet(Ran(p, Callees(s))) : Scans(x, B) \subseteq D.found
            /\ Follow(Ran(p, Callees(s)), Nothing).found \subseteq D.found
<1> DEFINE all == Ran(p, Callees(s))
           O == Opened(s, acc)
           R == Repeated(p, s, O)
           N == Scanned(R, Scans(s, R.written))
           F == Follow(all, N)
           B == acc.written \cup Repeats(p, s)
<1>1. all \in Code
  BY CalleesDef, RanDef
<1>2. acc.written \subseteq Tables /\ acc.found \subseteq Tables /\ acc = [written |-> acc.written, found |-> acc.found]
  BY DEF Accs
<1>3. ASSUME NEW q \in ToSet(s.query) PROVE Scans(q, acc.written) \subseteq Tables
  <2>1. q \in Statements
    BY StatementParts, CodeMembers DEF Part
  <2> QED BY <1>2, <2>1, ScansDef
<1>4. O \in Accs /\ O.written = acc.written /\ O.found = acc.found \cup UNION {Scans(q, acc.written) : q \in ToSet(s.query)}
  BY <1>2, <1>3 DEF Opened, Scanned, Accs
<1>5. Repeats(p, s) \subseteq Tables
  BY WritesType, StatementParts DEF Repeats, Part
<1>6. R \in Accs /\ R.written = B /\ R.found = O.found
  <2> HIDE DEF O
  <2> QED BY <1>4, <1>5 DEF Repeated, Repeats, Accs
<1>7. Scans(s, B) \subseteq Tables
  BY <1>2, <1>5, ScansDef
<1>8. N \in Accs /\ N.written = B /\ N.found = O.found \cup Scans(s, B)
  <2> HIDE DEF O, R
  <2> QED BY <1>6, <1>7 DEF Scanned, Accs
<1> HIDE DEF all, O, R, N
<1>9. /\ F \in Accs /\ F.written = B \cup Written(all)
      /\ N.found \subseteq F.found
      /\ \A x \in ToSet(all) : Scans(x, B) \subseteq F.found
      /\ \A less \in Accs : Within(less, N) => Follow(all, less).found \subseteq F.found
  BY <1>1, <1>8, FollowDef
<1>10. Nothing \in Accs /\ Within(Nothing, N)
  BY <1>8 DEF Nothing, Within, Accs
<1>11. Reaches(p, s, acc) = [F EXCEPT !.written = @ \cup s.writes]
  BY DEF Reaches, Done, Run, F, all, O, R, N
<1>12. s.writes \subseteq Tables
  BY ScansDef
<1> HIDE DEF F
<1>13. /\ Reaches(p, s, acc) \in Accs /\ Reaches(p, s, acc).written = F.written \cup s.writes
       /\ Reaches(p, s, acc).found = F.found
  BY <1>9, <1>11, <1>12 DEF Accs
<1>14. \A q \in ToSet(s.query) : Scans(q, acc.written) \subseteq O.found
  BY <1>4
<1> HIDE DEF B
<1> USE <1>4, <1>8, <1>9, <1>10, <1>13, <1>14
<1>15. /\ acc.found \subseteq Reaches(p, s, acc).found
       /\ \A q \in ToSet(s.query) : Scans(q, acc.written) \subseteq Reaches(p, s, acc).found
  OBVIOUS
<1>16. Scans(s, B) \subseteq Reaches(p, s, acc).found
  OBVIOUS
<1>17. Follow(all, Nothing).found \subseteq Reaches(p, s, acc).found
  OBVIOUS
<1> QED BY <1>15, <1>16, <1>17 DEF all, B

LEMMA UnionDef ==
  /\ \A accs \in SUBSET Accs : /\ Union(accs) \in Accs
                               /\ \A a \in accs : Within(a, Union(accs))
  /\ \A a \in Accs : Union({a}) = a
<1>1. ASSUME NEW accs \in SUBSET Accs PROVE Union(accs) \in Accs /\ \A a \in accs : Within(a, Union(accs))
  <2>1. \A a \in accs : a.written \subseteq Tables /\ a.found \subseteq Tables
    BY DEF Accs
  <2>2. UNION {a.written : a \in accs} \subseteq Tables /\ UNION {a.found : a \in accs} \subseteq Tables
    BY <2>1
  <2>3. Union(accs) \in Accs
    BY <2>2 DEF Union, Accs
  <2>4. \A a \in accs : Within(a, Union(accs))
    BY DEF Union, Within
  <2> QED BY <2>3, <2>4
<1>2. ASSUME NEW a \in Accs PROVE Union({a}) = a
  <2>1. a = [written |-> a.written, found |-> a.found]
    BY DEF Accs
  <2>2. Union({a}) = [written |-> a.written, found |-> a.found]
    BY DEF Union
  <2> QED BY <2>1, <2>2
<1> QED BY <1>1, <1>2

(* A visit of the parts of a statement gives one of the statement, *)
LEMMA BelowType ==
  ASSUME NEW p, IsProgram(p), NEW s \in Statements, NEW B \in Accs, NEW visit,
         \A part \in Parts(s) : visit[part] \in [Accs -> Accs]
  PROVE  Below(p, visit, s, B) \in Accs
<1> DEFINE E == Entered(visit, s, B)
           I == Interrupted(p, s, B, E)
<1>1. E \in Accs
  <2>1. visit[s.body][B] \in Accs
    BY DEF Parts
  <2>2. {visit[s.body][B]} \cup (IF s.kind = "Loop" THEN {B} ELSE {}) \in SUBSET Accs
    BY <2>1
  <2> QED BY <2>2, UnionDef DEF Entered
<1> HIDE DEF E
<1>2. I \in Accs
  <2>1. WritesIn(p, s.body) \subseteq Tables
    BY WritesType, StatementParts DEF Part
  <2> QED BY <1>1, <2>1 DEF Interrupted, Accs
<1> HIDE DEF I
<1>3. Handled(p, visit, s, B, E) \in Accs
  <2>1. \A h \in ToSet(s.handlers) : visit[h][I] \in Accs
    BY <1>2 DEF Parts
  <2>2. {E} \cup {visit[h][I] : h \in ToSet(s.handlers)} \in SUBSET Accs
    BY <1>1, <2>1
  <2> QED BY <2>2, UnionDef DEF Handled, I
<1> QED BY <1>3 DEF Below, E

LEMMA VisitOneType ==
  ASSUME NEW p, IsProgram(p), NEW s \in Statements, NEW acc \in Accs, NEW visit,
         \A part \in Parts(s) : visit[part] \in [Accs -> Accs]
  PROVE  VisitOne(p, visit, s, acc) \in Accs
<1> DEFINE D == Reaches(p, s, acc)
           B == Branched(visit, s, D)
<1>1. D \in Accs
  BY ReachesDef
<1>2. B \in Accs
  <2>1. \A b \in ToSet(s.branches) \cup {s.orElse} : visit[b][D] \in Accs
    BY <1>1 DEF Parts
  <2>2. {visit[b][D] : b \in ToSet(s.branches) \cup {s.orElse}} \in SUBSET Accs
    BY <2>1
  <2> HIDE DEF D
  <2> QED BY <1>1, <2>2, UnionDef DEF Branched
<1>3. [acc EXCEPT !.written = {}] \in Accs
  BY DEF Accs
<1>4. VisitOne(p, visit, s, acc) = IF EndsTransaction(s) THEN [acc EXCEPT !.written = {}] ELSE Below(p, visit, s, B)
  BY DEF VisitOne
<1> HIDE DEF B
<1>5. Below(p, visit, s, B) \in Accs
  BY <1>2, BelowType
<1> QED BY <1>3, <1>4, <1>5

(* and depends on nothing else. *)
LEMMA VisitOneLocal ==
  ASSUME NEW p, NEW s, NEW acc, NEW visit, NEW other, \A part \in Parts(s) : visit[part] = other[part]
  PROVE  VisitOne(p, visit, s, acc) = VisitOne(p, other, s, acc)
<1>1. ASSUME NEW a PROVE Branched(visit, s, a) = Branched(other, s, a)
  <2>1. \A b \in ToSet(s.branches) \cup {s.orElse} : visit[b][a] = other[b][a]
    BY DEF Parts
  <2>2. {visit[b][a] : b \in ToSet(s.branches) \cup {s.orElse}} = {other[b][a] : b \in ToSet(s.branches) \cup {s.orElse}}
    BY <2>1
  <2> QED BY <2>2 DEF Branched
<1>2. ASSUME NEW a PROVE Entered(visit, s, a) = Entered(other, s, a)
  BY DEF Parts, Entered
<1>3. ASSUME NEW a, NEW e PROVE Handled(p, visit, s, a, e) = Handled(p, other, s, a, e)
  <2> DEFINE i == Interrupted(p, s, a, e)
  <2>1. \A h \in ToSet(s.handlers) : visit[h][i] = other[h][i]
    BY DEF Parts
  <2> HIDE DEF i
  <2>2. {visit[h][i] : h \in ToSet(s.handlers)} = {other[h][i] : h \in ToSet(s.handlers)}
    BY <2>1
  <2> QED BY <2>2 DEF Handled, i
<1>4. ASSUME NEW a PROVE Below(p, visit, s, a) = Below(p, other, s, a)
  BY <1>2, <1>3 DEF Below
<1>5. Below(p, visit, s, Branched(visit, s, Reaches(p, s, acc))) = Below(p, other, s, Branched(other, s, Reaches(p, s, acc)))
  <2> DEFINE x == Branched(visit, s, Reaches(p, s, acc))
  <2>1. x = Branched(other, s, Reaches(p, s, acc))
    BY <1>1
  <2> HIDE DEF x
  <2>2. Below(p, visit, s, x) = Below(p, other, s, x)
    BY <1>4
  <2> QED BY <2>1, <2>2 DEF x
<1> QED BY <1>5 DEF VisitOne

LEMMA VisitDef ==
  ASSUME NEW p, IsProgram(p)
  PROVE  /\ Visit(p) \in [Code -> [Accs -> Accs]]
         /\ \A acc \in Accs : Visit(p)[<<>>][acc] = acc
         /\ \A ss \in Code \ {<<>>}, acc \in Accs :
              /\ VisitOne(p, Visit(p), Head(ss), acc) \in Accs
              /\ Visit(p)[ss][acc] = Visit(p)[Tail(ss)][VisitOne(p, Visit(p), Head(ss), acc)]
<1> DEFINE D == Code
           R == [Accs -> Accs]
           Value(f, ss, acc) == IF ss = <<>> THEN acc ELSE f[Tail(ss)][VisitOne(p, f, Head(ss), acc)]
           Step(f, ss) == [acc \in Accs |-> Value(f, ss, acc)]
           G == [a \in [D -> R] \X D |-> Step(a[1], a[2])]
<1>1. ASSUME NEW ss \in Code, ss # <<>>
      PROVE  /\ Head(ss) \in Statements /\ Tail(ss) \in Code /\ Earlier(Size, Tail(ss), ss)
             /\ \A part \in Parts(Head(ss)) : part \in Code /\ Earlier(Size, part, ss)
  <2>1. Head(ss) \in Statements /\ Head(ss) \in ToSet(ss)
    BY <1>1, CodeParts
  <2>2. \A part \in Parts(Head(ss)) : Part(Head(ss), part)
    BY <2>1, WalkPart
  <2>3. \A part \in Parts(Head(ss)) : part \in Code /\ Earlier(Size, part, ss)
    BY <2>1, <2>2, PartSmaller
  <2> QED BY <1>1, <2>1, <2>3, TailSmaller
<1>2. ASSUME NEW f, NEW ss \in Code, \A u \in Code : Earlier(Size, u, ss) => f[u] \in R
      PROVE  /\ Step(f, ss) \in R
             /\ ss # <<>> => \A acc \in Accs : VisitOne(p, f, Head(ss), acc) \in Accs
  <2>1. ASSUME NEW acc \in Accs, ss # <<>> PROVE VisitOne(p, f, Head(ss), acc) \in Accs
    BY <1>1, <1>2, <2>1, VisitOneType
  <2>2. ASSUME NEW acc \in Accs PROVE Value(f, ss, acc) \in Accs
    <3>1. CASE ss = <<>>
      BY <3>1
    <3>2. CASE ss # <<>>
      <4>1. f[Tail(ss)] \in R
        BY <1>1, <1>2, <3>2
      <4> QED BY <2>1, <3>2, <4>1
    <3> QED BY <3>1, <3>2
  <2> HIDE DEF Value
  <2> QED BY <2>1, <2>2
<1>3. ASSUME NEW f \in [D -> R], NEW ss \in D PROVE Step(f, ss) \in R
  <2> HIDE DEF Step, R
  <2> QED BY <1>2
<1>4. G \in [[D -> R] \X D -> R]
  <2> HIDE DEF D, R, Step
  <2> QED BY <1>3
<1>5. ASSUME NEW f \in [D -> R], NEW g \in [D -> R], NEW ss \in D, \A u \in D : Earlier(Size, u, ss) => f[u] = g[u]
      PROVE  Step(f, ss) = Step(g, ss)
  <2>1. ASSUME NEW acc \in Accs PROVE Value(f, ss, acc) = Value(g, ss, acc)
    <3>1. CASE ss = <<>>
      BY <3>1
    <3>2. CASE ss # <<>>
      <4>1. f[Tail(ss)] = g[Tail(ss)] /\ \A part \in Parts(Head(ss)) : f[part] = g[part]
        BY <1>1, <1>5, <3>2
      <4>2. VisitOne(p, f, Head(ss), acc) = VisitOne(p, g, Head(ss), acc)
        BY <4>1, VisitOneLocal
      <4> QED BY <3>2, <4>1, <4>2
    <3> QED BY <3>1, <3>2
  <2> HIDE DEF Value
  <2> QED BY <2>1
<1>6. \A f \in [D -> R], ss \in D : G[<<f, ss>>] = Step(f, ss)
  <2> HIDE DEF D, R, Step
  <2> QED OBVIOUS
<1>7. Recursive(D, Size, R, G)
  <2>1. \A f, g \in [D -> R] : \A ss \in D :
          (\A u \in D : Earlier(Size, u, ss) => f[u] = g[u]) => G[<<f, ss>>] = G[<<g, ss>>]
    <3> HIDE DEF D, R, Step, G
    <3> SUFFICES ASSUME NEW f \in [D -> R], NEW g \in [D -> R], NEW ss \in D,
                        \A u \in D : Earlier(Size, u, ss) => f[u] = g[u]
                 PROVE  G[<<f, ss>>] = G[<<g, ss>>]
      OBVIOUS
    <3> QED BY <1>5, <1>6
  <2>2. R # {}
    <3>1. [acc \in Accs |-> acc] \in R
      OBVIOUS
    <3> HIDE DEF R
    <3> QED BY <3>1
  <2> HIDE DEF R, G
  <2> QED BY <1>4, <2>1, <2>2, SizeType DEF Recursive
<1>8. PICK f \in [D -> R] : \A ss \in D : f[ss] = Step(f, ss)
  <2> HIDE DEF D, R, G, Step
  <2>1. \E f \in [D -> R] : \A ss \in D : f[ss] = G[<<f, ss>>]
    BY <1>7, Recursion
  <2> QED BY <1>6, <2>1
<1>9. f = [ss \in Code |-> Step(f, ss)]
  <2> HIDE DEF Step
  <2> QED BY <1>8
<1>10. Visit(p) = [ss \in Code |-> Step(Visit(p), ss)]
  BY <1>9 DEF Visit
<1>11. \A ss \in Code : Visit(p)[ss] = Step(Visit(p), ss)
  <2> HIDE DEF Step
  <2> QED BY <1>10
<1> DEFINE Typed == {ss \in Code : Visit(p)[ss] \in R}
<1>12. Code \subseteq Typed
  <2>1. ASSUME NEW ss \in Code, \A u \in Code : Earlier(Size, u, ss) => u \in Typed PROVE ss \in Typed
    <3> HIDE DEF Step, R
    <3>1. Step(Visit(p), ss) \in R
      BY <1>2, <2>1
    <3> QED BY <1>11, <3>1
  <2> HIDE DEF Typed
  <2> QED BY <2>1, CodeInduction
<1>13. Visit(p) \in [Code -> R]
  <2> HIDE DEF Step, R
  <2> QED BY <1>10, <1>12
<1>14. ASSUME NEW ss \in Code, NEW acc \in Accs PROVE Visit(p)[ss][acc] = Value(Visit(p), ss, acc)
  <2> HIDE DEF Value
  <2> QED BY <1>11
<1>15. ASSUME NEW ss \in Code, ss # <<>>, NEW acc \in Accs PROVE VisitOne(p, Visit(p), Head(ss), acc) \in Accs
  <2>1. \A u \in Code : Visit(p)[u] \in R
    <3> HIDE DEF R
    <3> QED BY <1>13
  <2> HIDE DEF Step, R
  <2> QED BY <1>2, <1>15, <2>1
<1>16. <<>> \in Code
  BY DEF Code
<1> QED BY <1>13, <1>14, <1>15, <1>16

(* What a visit makes of a statement, by its kind: D is what reaches below it *)
Kinds(p, s, acc) ==
  LET V == Visit(p)
      D == Reaches(p, s, acc)
      X == VisitOne(p, V, s, acc)
      E == V[s.body][D]
  IN /\ D \in Accs /\ E \in Accs /\ Interrupted(p, s, D, E) \in Accs
     /\ s.kind = "Commit" => X = [acc EXCEPT !.written = {}]
     /\ s.kind \in Simple \ {"Commit"} => X = D
     /\ s.kind = "If" => X = Union({V[b][D] : b \in ToSet(s.branches) \cup {s.orElse}})
     /\ s.kind = "Loop" => X = Union({E, D})
     /\ s.kind = "Block" => X = Union({E} \cup {V[h][Interrupted(p, s, D, E)] : h \in ToSet(s.handlers)})

LEMMA VisitOneKinds ==
  ASSUME NEW p, IsProgram(p), NEW s \in Statements, NEW acc \in Accs
  PROVE  Kinds(p, s, acc)
<1> DEFINE V == Visit(p)
           D == Reaches(p, s, acc)
           X == VisitOne(p, V, s, acc)
           E == V[s.body][D]
<1>1. IsStatement(s)
  BY StatementsAssumption
<1>2. V \in [Code -> [Accs -> Accs]] /\ \A a \in Accs : V[<<>>][a] = a
  BY VisitDef
<1>3. D \in Accs
  BY ReachesDef
<1>4. s.body \in Code /\ \A b \in ToSet(s.branches) \cup {s.orElse} \cup ToSet(s.handlers) : b \in Code
  BY StatementParts DEF Part
<1>5. E \in Accs
  <2> HIDE DEF V, D
  <2> QED BY <1>2, <1>3, <1>4
<1>6. Interrupted(p, s, D, E) \in Accs
  <2>1. WritesIn(p, s.body) \subseteq Tables
    BY <1>4, WritesType
  <2> HIDE DEF D, E
  <2> QED BY <1>3, <1>5, <2>1 DEF Interrupted, Accs
<1>7. X = IF s.kind = "Commit" THEN [acc EXCEPT !.written = {}] ELSE Below(p, V, s, Branched(V, s, D))
  BY DEF VisitOne, EndsTransaction
<1> HIDE DEF V, D, X
<1>8. s.handlers = <<>> => \A a, e \in Accs : Handled(p, V, s, a, e) = e
  <2>1. SUFFICES ASSUME s.handlers = <<>>, NEW a \in Accs, NEW e \in Accs PROVE Handled(p, V, s, a, e) = e
    OBVIOUS
  <2> DEFINE i == Interrupted(p, s, a, e)
  <2> HIDE DEF i
  <2>2. {e} \cup {V[h][i] : h \in ToSet(s.handlers)} = {e}
    BY <2>1, EmptySet
  <2> QED BY <2>2, UnionDef DEF Handled, i
<1>9. s.kind # "If" => Branched(V, s, D) = D
  BY <1>1 DEF IsStatement, Branched
<1>10. s.kind # "Loop" => \A a \in Accs : Entered(V, s, a) = V[s.body][a]
  <2>1. SUFFICES ASSUME s.kind # "Loop", NEW a \in Accs PROVE Entered(V, s, a) = V[s.body][a]
    OBVIOUS
  <2>2. V[s.body][a] \in Accs /\ {V[s.body][a]} \cup {} = {V[s.body][a]}
    BY <1>2, <1>4
  <2> QED BY <2>1, <2>2, UnionDef DEF Entered
<1>11. CASE s.kind = "Commit"
  BY <1>3, <1>5, <1>6, <1>7, <1>11 DEF Kinds, Simple, V, D, X
<1>12. CASE s.kind \in Simple \ {"Commit"}
  <2>1. s.handlers = <<>> /\ s.body = <<>> /\ s.kind # "If" /\ s.kind # "Loop" /\ s.kind # "Commit" /\ s.kind # "Block"
    BY <1>1, <1>12 DEF IsStatement, Simple
  <2>2. Entered(V, s, D) = D
    BY <1>2, <1>3, <1>10, <2>1
  <2>3. X = D
    BY <1>3, <1>7, <1>8, <1>9, <2>1, <2>2 DEF Below
  <2> QED BY <1>3, <1>5, <1>6, <2>1, <2>3 DEF Kinds, Simple, V, D, X
<1>13. CASE s.kind = "If"
  <2>1. s.handlers = <<>> /\ s.body = <<>> /\ s.branches # <<>>
    BY <1>1, <1>13 DEF IsStatement
  <2> DEFINE B == Union({V[b][D] : b \in ToSet(s.branches) \cup {s.orElse}})
  <2>2. B \in Accs
    <3>1. \A b \in ToSet(s.branches) \cup {s.orElse} : V[b][D] \in Accs
      BY <1>2, <1>3, <1>4
    <3>2. {V[b][D] : b \in ToSet(s.branches) \cup {s.orElse}} \in SUBSET Accs
      BY <3>1
    <3> QED BY <3>2, UnionDef
  <2>3. Branched(V, s, D) = B
    BY <2>1 DEF Branched
  <2> HIDE DEF B
  <2>4. Entered(V, s, B) = B
    BY <1>2, <1>10, <1>13, <2>1, <2>2
  <2>5. Handled(p, V, s, B, B) = B
    BY <1>8, <2>1, <2>2
  <2>6. X = B
    BY <1>7, <1>13, <2>3, <2>4, <2>5 DEF Below
  <2> QED BY <1>3, <1>5, <1>6, <1>13, <2>6 DEF Kinds, Simple, V, D, X, B
<1>14. CASE s.kind = "Loop"
  <2>1. s.handlers = <<>>
    BY <1>1, <1>14 DEF IsStatement
  <2>2. Entered(V, s, D) = Union({E, D})
    <3>1. {V[s.body][D]} \cup {D} = {E, D}
      OBVIOUS
    <3> QED BY <1>14, <3>1 DEF Entered
  <2>3. Union({E, D}) \in Accs
    <3>1. {E, D} \in SUBSET Accs
      BY <1>3, <1>5
    <3> HIDE DEF E
    <3> QED BY <3>1, UnionDef
  <2> HIDE DEF E
  <2>4. X = Union({E, D})
    BY <1>3, <1>7, <1>8, <1>9, <1>14, <2>1, <2>2, <2>3 DEF Below
  <2> QED BY <1>3, <1>5, <1>6, <1>14, <2>4 DEF Kinds, Simple, V, D, X, E
<1>15. CASE s.kind = "Block"
  <2>1. Entered(V, s, D) = E
    BY <1>3, <1>10, <1>15
  <2>2. Branched(V, s, D) = D
    BY <1>9, <1>15
  <2> HIDE DEF E
  <2>3. X = Handled(p, V, s, D, E)
    BY <1>7, <1>15, <2>1, <2>2 DEF Below
  <2>4. X = Union({E} \cup {V[h][Interrupted(p, s, D, E)] : h \in ToSet(s.handlers)})
    BY <2>3 DEF Handled
  <2> QED BY <1>3, <1>5, <1>6, <1>15, <2>4 DEF Kinds, Simple, V, D, X, E
<1> QED BY <1>1, <1>11, <1>12, <1>13, <1>14, <1>15 DEF IsStatement

LEMMA VisitOneBounds ==
  ASSUME NEW p, IsProgram(p), NEW s \in Statements, NEW acc \in Accs,
         \A part \in Parts(s), a \in Accs :
           /\ a.found \subseteq Visit(p)[part][a].found
           /\ Visit(p)[part][a].written \subseteq a.written \cup WritesIn(p, part)
  PROVE  /\ acc.found \subseteq VisitOne(p, Visit(p), s, acc).found
         /\ VisitOne(p, Visit(p), s, acc).written \subseteq acc.written \cup WritesOfOne(p, s)
<1> DEFINE V == Visit(p)
           D == Reaches(p, s, acc)
           X == VisitOne(p, V, s, acc)
           E == V[s.body][D]
           I == Interrupted(p, s, D, E)
           W == WritesOfOne(p, s)
<1>1. D \in Accs /\ acc.found \subseteq D.found /\ D.written \subseteq acc.written \cup W
  <2>1. /\ D \in Accs /\ acc.found \subseteq D.found
        /\ D.written = (acc.written \cup Repeats(p, s)) \cup Written(Ran(p, Callees(s))) \cup s.writes
    BY ReachesDef
  <2>2. Repeats(p, s) \subseteq W
    BY DEF Repeats, WritesOfOne, Parts
  <2> HIDE DEF D
  <2> QED BY <2>1, <2>2 DEF WritesOfOne
<1>2. \A part \in Parts(s) : WritesIn(p, part) \subseteq W
  BY DEF WritesOfOne
<1>3. /\ E \in Accs /\ I \in Accs
      /\ s.kind = "Commit" => X = [acc EXCEPT !.written = {}]
      /\ s.kind \in Simple \ {"Commit"} => X = D
      /\ s.kind = "If" => X = Union({V[b][D] : b \in ToSet(s.branches) \cup {s.orElse}})
      /\ s.kind = "Loop" => X = Union({E, D})
      /\ s.kind = "Block" => X = Union({E} \cup {V[h][I] : h \in ToSet(s.handlers)})
  <2>1. Kinds(p, s, acc)
    BY VisitOneKinds
  <2> QED BY <2>1 DEF Kinds
<1>4. /\ s.body \in Parts(s) /\ s.orElse \in Parts(s)
      /\ \A b \in ToSet(s.branches) \cup ToSet(s.handlers) : b \in Parts(s)
  BY DEF Parts
<1> HIDE DEF D, X, I, W
<1>5. E.found \subseteq E.found /\ acc.found \subseteq E.found /\ E.written \subseteq acc.written \cup W
  BY <1>1, <1>2, <1>4
<1>6. I.found = E.found /\ I.written \subseteq acc.written \cup W
  <2> HIDE DEF E
  <2>1. I = [E EXCEPT !.written = @ \cup D.written \cup WritesIn(p, s.body)]
    BY DEF I, Interrupted
  <2> QED BY <1>1, <1>2, <1>3, <1>4, <1>5, <2>1 DEF Accs
<1>7. CASE s.kind = "Commit"
  BY <1>3, <1>7 DEF X, W, Accs
<1>8. CASE s.kind \in Simple \ {"Commit"}
  BY <1>1, <1>3, <1>8 DEF X, W
<1>9. CASE s.kind = "If"
  <2>1. \A b \in ToSet(s.branches) \cup {s.orElse} : /\ acc.found \subseteq V[b][D].found
                                                    /\ V[b][D].written \subseteq acc.written \cup W
    BY <1>1, <1>2, <1>4
  <2> HIDE DEF V
  <2>2. acc.found \subseteq X.found /\ X.written \subseteq acc.written \cup W
    BY <1>3, <1>9, <2>1 DEF Union
  <2> QED BY <2>2 DEF X, W, V
<1>10. CASE s.kind = "Loop"
  <2> HIDE DEF E
  <2>1. acc.found \subseteq X.found /\ X.written \subseteq acc.written \cup W
    BY <1>1, <1>3, <1>5, <1>10 DEF Union
  <2> QED BY <2>1 DEF X, W
<1>11. CASE s.kind = "Block"
  <2>1. \A h \in ToSet(s.handlers) : V[h][I].written \subseteq acc.written \cup W
    BY <1>2, <1>3, <1>4, <1>6
  <2> HIDE DEF E, V
  <2>2. acc.found \subseteq X.found /\ X.written \subseteq acc.written \cup W
    BY <1>3, <1>5, <1>11, <2>1 DEF Union
  <2> QED BY <2>2 DEF X, W, V
<1>12. s.kind \in Simple \cup {"If", "Loop", "Block"}
  BY StatementsAssumption DEF IsStatement
<1> QED BY <1>7, <1>8, <1>9, <1>10, <1>11, <1>12

(* A visit forgets nothing it found, and has written what was written      *)
(* before or is written by the statements.                                 *)
THEOREM VisitBounds ==
  ASSUME NEW p, IsProgram(p), NEW ss \in Code, NEW acc \in Accs
  PROVE  /\ acc.found \subseteq Visit(p)[ss][acc].found
         /\ Visit(p)[ss][acc].written \subseteq acc.written \cup WritesIn(p, ss)
<1> DEFINE Bounded(u, a) == /\ a.found \subseteq Visit(p)[u][a].found
                            /\ Visit(p)[u][a].written \subseteq a.written \cup WritesIn(p, u)
           Good == {u \in Code : \A a \in Accs : Bounded(u, a)}
<1>1. ASSUME NEW u \in Code, \A v \in Code : Earlier(Size, v, u) => v \in Good, NEW a \in Accs PROVE Bounded(u, a)
  <2>1. CASE u = <<>>
    BY <2>1, VisitDef
  <2>2. CASE u # <<>>
    <3> DEFINE h == Head(u)
               x == VisitOne(p, Visit(p), h, a)
    <3>1. h \in Statements /\ h \in ToSet(u) /\ Tail(u) \in Code /\ ToSet(u) = {h} \cup ToSet(Tail(u))
      BY <2>2, CodeParts
    <3>2. x \in Accs /\ Visit(p)[u][a] = Visit(p)[Tail(u)][x]
      BY <2>2, VisitDef
    <3>3. Tail(u) \in Good
      BY <1>1, <2>2, TailSmaller
    <3>4. \A part \in Parts(h) : part \in Good
      BY <1>1, <3>1, WalkPart, PartSmaller
    <3>5. a.found \subseteq x.found /\ x.written \subseteq a.written \cup WritesOfOne(p, h)
      BY <3>1, <3>4, VisitOneBounds
    <3>6. /\ WritesOfOne(p, h) \subseteq WritesIn(p, u)
          /\ WritesIn(p, Tail(u)) \subseteq WritesIn(p, u)
      BY <3>1, WritesParts
    <3> HIDE DEF x, h
    <3>7. Bounded(Tail(u), x)
      BY <3>2, <3>3
    <3> QED BY <3>2, <3>5, <3>6, <3>7
  <2> QED BY <2>1, <2>2
<1>2. \A u \in Code : (\A v \in Code : Earlier(Size, v, u) => v \in Good) => u \in Good
  <2> HIDE DEF Bounded
  <2> QED BY <1>1
<1>3. Code \subseteq Good
  <2> HIDE DEF Good
  <2> QED BY <1>2, CodeInduction
<1> QED BY <1>3

(* Nothing is written by no statement, or by a query. *)
LEMMA WritesNothing ==
  ASSUME NEW p, IsProgram(p)
  PROVE  /\ WritesIn(p, <<>>) = {}
         /\ \A s \in Statements : WritesIn(p, s.query) = {}
<1>1. <<>> \in Code
  BY DEF Code
<1>2. WritesIn(p, <<>>) = {}
  BY <1>1, EmptySet, WritesParts
<1>3. ASSUME NEW s \in Statements PROVE WritesIn(p, s.query) = {}
  <2>1. s.query \in Code
    BY StatementParts DEF Part
  <2>2. ASSUME NEW q \in ToSet(s.query) PROVE WritesOfOne(p, q) = {}
    <3>1. q \in Statements /\ q.kind = "Sql" /\ q.writes = {}
      BY <2>1, CodeMembers, StatementsAssumption DEF IsStatement
    <3>2. /\ q.query = <<>> /\ q.branches = <<>> /\ q.orElse = <<>> /\ q.body = <<>> /\ q.handlers = <<>>
          /\ q.calls = <<>>
      BY <3>1, StatementsAssumption DEF IsStatement, Simple
    <3>3. Parts(q) = {<<>>}
      BY <3>2, EmptySet DEF Parts
    <3>4. ToSet(Callees(q)) = {} /\ Callees(q) \in Seq(Routines)
      BY <3>1, <3>2, EmptySet, CalleesDef
    <3>5. ToSet(Ran(p, Callees(q))) = {}
      BY <3>4, RanDef
    <3> QED BY <1>2, <3>1, <3>3, <3>5 DEF WritesOfOne, Written
  <2> QED BY <2>1, <2>2, WritesParts
<1> QED BY <1>2, <1>3

LEMMA VisitOneKeeps ==
  ASSUME NEW p, IsProgram(p), NEW s \in Statements, NEW acc \in Accs, ~ EndsTransaction(s),
         \A part \in Parts(s), a \in Accs : a.written \cup WritesIn(p, part) \subseteq Visit(p)[part][a].written
  PROVE  acc.written \cup WritesOfOne(p, s) \subseteq VisitOne(p, Visit(p), s, acc).written
<1> DEFINE V == Visit(p)
           D == Reaches(p, s, acc)
           X == VisitOne(p, V, s, acc)
           E == V[s.body][D]
           I == Interrupted(p, s, D, E)
<1>1. IsStatement(s) /\ s.kind # "Commit"
  BY StatementsAssumption DEF EndsTransaction
<1>2. D \in Accs /\ D.written = (acc.written \cup Repeats(p, s)) \cup Written(Ran(p, Callees(s))) \cup s.writes
  BY ReachesDef
<1>3. /\ E \in Accs /\ I \in Accs
      /\ s.kind \in Simple \ {"Commit"} => X = D
      /\ s.kind = "If" => X = Union({V[b][D] : b \in ToSet(s.branches) \cup {s.orElse}})
      /\ s.kind = "Loop" => X = Union({E, D})
      /\ s.kind = "Block" => X = Union({E} \cup {V[h][I] : h \in ToSet(s.handlers)})
  <2>1. Kinds(p, s, acc)
    BY VisitOneKinds
  <2> QED BY <2>1 DEF Kinds
<1>4. WritesIn(p, <<>>) = {} /\ WritesIn(p, s.query) = {}
  BY WritesNothing
<1>5. s.body \in Parts(s) /\ s.orElse \in Parts(s) /\ \A b \in ToSet(s.branches) \cup ToSet(s.handlers) : b \in Parts(s)
  BY DEF Parts
<1> HIDE DEF D, X, I
<1>6. D.written \subseteq E.written /\ WritesIn(p, s.body) \subseteq E.written
  BY <1>2, <1>5
<1> SUFFICES ASSUME NEW part \in Parts(s) PROVE D.written \subseteq X.written /\ WritesIn(p, part) \subseteq X.written
  <2>1. s.body \in Parts(s)
    BY <1>5
  <2> QED BY <1>2, <2>1 DEF WritesOfOne, X
<1>7. CASE s.kind \in Simple \ {"Commit"}
  <2>1. part = <<>>
    BY <1>1, <1>7, EmptySet DEF Parts, IsStatement, Simple
  <2> QED BY <1>3, <1>4, <1>7, <2>1
<1>8. CASE s.kind = "If"
  <2>1. part = <<>> \/ part \in ToSet(s.branches) \cup {s.orElse}
    BY <1>1, <1>8, EmptySet DEF Parts, IsStatement
  <2>2. \A b \in ToSet(s.branches) \cup {s.orElse} : D.written \subseteq V[b][D].written /\ WritesIn(p, b) \subseteq V[b][D].written
    BY <1>2, <1>5
  <2> HIDE DEF V
  <2>3. D.written \subseteq X.written
    BY <1>3, <1>8, <2>2 DEF Union
  <2>4. \A b \in ToSet(s.branches) \cup {s.orElse} : WritesIn(p, b) \subseteq X.written
    BY <1>3, <1>8, <2>2 DEF Union
  <2> QED BY <1>4, <2>1, <2>3, <2>4
<1>9. CASE s.kind = "Loop"
  <2>1. part = <<>> \/ part = s.body \/ part = s.query
    BY <1>1, <1>9, EmptySet DEF Parts, IsStatement
  <2> HIDE DEF E
  <2>2. D.written \subseteq X.written /\ E.written \subseteq X.written
    BY <1>3, <1>9 DEF Union
  <2> QED BY <1>4, <1>6, <2>1, <2>2
<1>10. CASE s.kind = "Block"
  <2>1. part = <<>> \/ part = s.body \/ part \in ToSet(s.handlers)
    BY <1>1, <1>10, EmptySet DEF Parts, IsStatement
  <2>2. \A h \in ToSet(s.handlers) : WritesIn(p, h) \subseteq V[h][I].written
    BY <1>3, <1>5
  <2> HIDE DEF E, V
  <2>3. E.written \subseteq X.written
    BY <1>3, <1>10 DEF Union
  <2>4. \A h \in ToSet(s.handlers) : WritesIn(p, h) \subseteq X.written
    BY <1>3, <1>10, <2>2 DEF Union
  <2> QED BY <1>4, <1>6, <2>1, <2>3, <2>4
<1> QED BY <1>1, <1>7, <1>8, <1>9, <1>10 DEF IsStatement

(* Without a COMMIT it keeps all that was written. *)
LEMMA VisitKeeps ==
  ASSUME NEW p, IsProgram(p), NEW ss \in Code, NEW acc \in Accs, \A x \in ToSet(Walk[ss]) : ~ EndsTransaction(x)
  PROVE  acc.written \cup WritesIn(p, ss) \subseteq Visit(p)[ss][acc].written
<1> DEFINE Keeps(u) == (\A x \in ToSet(Walk[u]) : ~ EndsTransaction(x)) =>
                         \A a \in Accs : a.written \cup WritesIn(p, u) \subseteq Visit(p)[u][a].written
           Good == {u \in Code : Keeps(u)}
<1>1. ASSUME NEW u \in Code, \A v \in Code : Earlier(Size, v, u) => v \in Good PROVE Keeps(u)
  <2> SUFFICES ASSUME \A x \in ToSet(Walk[u]) : ~ EndsTransaction(x), NEW a \in Accs
               PROVE  a.written \cup WritesIn(p, u) \subseteq Visit(p)[u][a].written
    OBVIOUS
  <2>1. CASE u = <<>>
    BY <2>1, VisitDef, WritesNothing
  <2>2. CASE u # <<>>
    <3> DEFINE h == Head(u)
               x == VisitOne(p, Visit(p), h, a)
    <3>1. h \in Statements /\ h \in ToSet(u) /\ Tail(u) \in Code /\ ToSet(u) = {h} \cup ToSet(Tail(u))
      BY <2>2, CodeParts
    <3>2. x \in Accs /\ Visit(p)[u][a] = Visit(p)[Tail(u)][x]
      BY <2>2, VisitDef
    <3>3. Tail(u) \in Good /\ ToSet(Walk[Tail(u)]) \subseteq ToSet(Walk[u])
      BY <1>1, <2>2, <3>1, TailSmaller, WalkMore
    <3>4. \A part \in Parts(h) : part \in Good /\ ToSet(Walk[part]) \subseteq ToSet(Walk[u])
      BY <1>1, <3>1, WalkPart, PartSmaller
    <3>5. ~ EndsTransaction(h)
      BY <3>1, WalkIncludes
    <3>6. \A part \in Parts(h), b \in Accs : b.written \cup WritesIn(p, part) \subseteq Visit(p)[part][b].written
      BY <3>4
    <3>7. a.written \cup WritesOfOne(p, h) \subseteq x.written
      BY <3>1, <3>5, <3>6, VisitOneKeeps
    <3>8. WritesIn(p, u) = WritesOfOne(p, h) \cup WritesIn(p, Tail(u))
      <4>1. WritesIn(p, u) = UNION {WritesOfOne(p, s) : s \in ToSet(u)}
        BY WritesParts
      <4>2. WritesIn(p, Tail(u)) = UNION {WritesOfOne(p, s) : s \in ToSet(Tail(u))}
        BY <3>1, WritesParts
      <4> HIDE DEF h
      <4> QED BY <3>1, <4>1, <4>2
    <3>9. x.written \cup WritesIn(p, Tail(u)) \subseteq Visit(p)[Tail(u)][x].written
      <4> HIDE DEF x
      <4> QED BY <3>2, <3>3
    <3> HIDE DEF x, h
    <3> QED BY <3>2, <3>7, <3>8, <3>9
  <2> QED BY <2>1, <2>2
<1>2. \A u \in Code : (\A v \in Code : Earlier(Size, v, u) => v \in Good) => u \in Good
  <2> HIDE DEF Keeps
  <2> QED BY <1>1
<1>3. Code \subseteq Good
  <2> HIDE DEF Good
  <2> QED BY <1>2, CodeInduction
<1> QED BY <1>3

(* What a routine is reported for is what a visit of it, as the statement  *)
(* it is, finds: unless its body is empty and its declarations call.       *)
LEMMA ScansOfDef ==
  ASSUME NEW p, IsProgram(p), NEW r \in Routines
  PROVE  /\ ScansOf(p, r) \subseteq Tables
         /\ (p[r].body = <<>> => p[r].initialisers = <<>>) =>
              ScansOf(p, r) = Visit(p)[<<Whole(p[r])>>][Nothing].found
<1> DEFINE s == Whole(p[r])
           V == Visit(p)
           A == Run(p, Callees(s), Nothing)
           B == IF p[r].body = <<>> THEN Nothing ELSE A
<1>1. s \in Statements /\ <<s>> \in Code
  BY WholeDef
<1>2. Nothing \in Accs
  BY DEF Nothing, Accs
<1>3. Callees(s) \in Seq(Routines) /\ ToSet(Callees(s)) = ToSet(s.calls)
  BY <1>1, CalleesDef
<1>4. /\ s.kind = "Block" /\ s.query = <<>> /\ s.branches = <<>> /\ s.writes = {} /\ s.reads = {}
      /\ s.calls = p[r].initialisers /\ s.body = p[r].body
  BY DEF Whole, Plain
<1> HIDE DEF s
<1>5. A \in Accs
  <2>1. Ran(p, Callees(s)) \in Code
    BY <1>3, RanDef
  <2> QED BY <1>2, <2>1, FollowDef DEF Run
<1>6. B \in Accs
  BY <1>2, <1>5
<1> HIDE DEF B
<1>7. Below(p, V, s, B) \in Accs
  <2>1. \A part \in Parts(s) : V[part] \in [Accs -> Accs]
    <3>1. \A part \in Parts(s) : part \in Code
      BY <1>1, EmptySet, WalkPart
    <3> QED BY <3>1, VisitDef
  <2> HIDE DEF V
  <2> QED BY <1>1, <1>6, <2>1, BelowType
<1>8. ScansOf(p, r) = Below(p, V, s, B).found
  BY DEF ScansOf, B, s
<1>9. ASSUME p[r].body = <<>> => p[r].initialisers = <<>> PROVE B = A
  <2>1. CASE p[r].body = <<>>
    <3>1. ToSet(Callees(s)) = {}
      BY <1>3, <1>4, <1>9, <2>1, EmptySet
    <3>2. ToSet(Ran(p, Callees(s))) = {} /\ Ran(p, Callees(s)) \in Code
      BY <1>3, <3>1, RanDef
    <3>3. Ran(p, Callees(s)) = <<>>
      BY <3>2, SeqMembers DEF Code
    <3>4. Follow(<<>>, Nothing) = Nothing
      <4>1. Written(<<>>) = {}
        BY EmptySet DEF Written
      <4>2. UNION {Scans(<<>>[i], Before(<<>>, i, {})) : i \in DOMAIN <<>>} = {}
        <5>1. DOMAIN <<>> = {}
          OBVIOUS
        <5> QED BY <5>1
      <4>3. Nothing.written = {} /\ Nothing.found = {} /\ Nothing = [written |-> {}, found |-> {}]
        BY DEF Nothing
      <4> QED BY <4>1, <4>2, <4>3 DEF Follow
    <3> QED BY <2>1, <3>3, <3>4 DEF B, Run
  <2> QED BY <2>1 DEF B
<1>10. Reaches(p, s, Nothing) = A
  <2>1. Opened(s, Nothing) = Nothing
    BY <1>4, EmptySet DEF Opened, Scanned, Nothing
  <2>2. Repeated(p, s, Nothing) = Nothing
    BY <1>4 DEF Repeated
  <2>3. Scanned(Nothing, Scans(s, {})) = Nothing
    BY <1>4 DEF Scanned, Scans, Nothing
  <2>4. [A EXCEPT !.written = @ \cup s.writes] = A
    <3> HIDE DEF A
    <3> QED BY <1>4, <1>5 DEF Accs
  <2>5. Nothing.written = {}
    BY DEF Nothing
  <2> QED BY <2>1, <2>2, <2>3, <2>4, <2>5 DEF Reaches, Done
<1>11. ASSUME p[r].body = <<>> => p[r].initialisers = <<>> PROVE V[<<s>>][Nothing] = Below(p, V, s, B)
  <2>1. VisitOne(p, V, s, Nothing) = Below(p, V, s, A)
    BY <1>4, <1>10 DEF VisitOne, EndsTransaction, Branched
  <2> DEFINE u == <<s>>
  <2>2. u \in Code \ {<<>>} /\ Head(u) = s /\ Tail(u) = <<>>
    BY <1>1
  <2> HIDE DEF u
  <2>3. V[u][Nothing] = V[<<>>][VisitOne(p, V, s, Nothing)] /\ VisitOne(p, V, s, Nothing) \in Accs
    <3>1. V[u][Nothing] = V[Tail(u)][VisitOne(p, V, Head(u), Nothing)] /\ VisitOne(p, V, Head(u), Nothing) \in Accs
      BY <1>2, <2>2, VisitDef
    <3> QED BY <2>2, <3>1
  <2>4. V[<<s>>][Nothing] = VisitOne(p, V, s, Nothing)
    BY <2>3, VisitDef DEF u
  <2> QED BY <1>9, <1>11, <2>1, <2>4
<1>12. Below(p, V, s, B).found \subseteq Tables
  <2> DEFINE x == Below(p, V, s, B)
  <2> HIDE DEF x
  <2> QED BY <1>7 DEF x, Accs
<1> QED BY <1>8, <1>11, <1>12 DEF s

(* A visit of a statement finds, and has written, what those of its parts  *)
(* do.                                                                     *)
Finds(p, s, acc) ==
  LET V == Visit(p)
      D == Reaches(p, s, acc)
      X == VisitOne(p, V, s, acc)
      E == V[s.body][D]
  IN /\ X \in Accs
     /\ ~ EndsTransaction(s) => D.found \subseteq X.found
     /\ s.kind = "If" => \A b \in ToSet(s.branches) \cup {s.orElse} : Within(V[b][D], X)
     /\ s.kind = "Loop" => Within(E, X) /\ Within(D, X)
     /\ s.kind = "Block" => Within(E, X) /\ \A h \in ToSet(s.handlers) : Within(V[h][Interrupted(p, s, D, E)], X)

LEMMA VisitOneFinds ==
  ASSUME NEW p, IsProgram(p), NEW s \in Statements, NEW acc \in Accs
  PROVE  Finds(p, s, acc)
<1> DEFINE V == Visit(p)
           D == Reaches(p, s, acc)
           X == VisitOne(p, V, s, acc)
           E == V[s.body][D]
           I == Interrupted(p, s, D, E)
<1>1. IsStatement(s)
  BY StatementsAssumption
<1>2. /\ D \in Accs /\ E \in Accs /\ I \in Accs
      /\ s.kind \in Simple \ {"Commit"} => X = D
      /\ s.kind = "If" => X = Union({V[b][D] : b \in ToSet(s.branches) \cup {s.orElse}})
      /\ s.kind = "Loop" => X = Union({E, D})
      /\ s.kind = "Block" => X = Union({E} \cup {V[h][I] : h \in ToSet(s.handlers)})
  <2>1. Kinds(p, s, acc)
    BY VisitOneKinds
  <2> QED BY <2>1 DEF Kinds
<1>3. /\ \A part \in Parts(s) : part \in Code
      /\ s.body \in Parts(s) /\ s.orElse \in Parts(s) /\ \A b \in ToSet(s.branches) \cup ToSet(s.handlers) : b \in Parts(s)
  BY StatementParts DEF Part, Parts
<1>4. V \in [Code -> [Accs -> Accs]]
  BY VisitDef
<1> HIDE DEF V, D, I
<1>5. X \in Accs
  <2>1. \A part \in Parts(s) : V[part] \in [Accs -> Accs]
    BY <1>3, <1>4
  <2> QED BY <2>1, VisitOneType
<1> HIDE DEF X
<1>6. E.found \subseteq E.found /\ D.found \subseteq E.found
  BY <1>2, <1>3, VisitBounds DEF V
<1> HIDE DEF E
<1>7. s.kind = "If" => \A b \in ToSet(s.branches) \cup {s.orElse} : Within(V[b][D], X) /\ D.found \subseteq V[b][D].found
  <2> SUFFICES ASSUME s.kind = "If", NEW b \in ToSet(s.branches) \cup {s.orElse}
               PROVE  Within(V[b][D], X) /\ D.found \subseteq V[b][D].found
    OBVIOUS
  <2>1. \A u \in ToSet(s.branches) \cup {s.orElse} : V[u][D] \in Accs
    BY <1>2, <1>3, <1>4
  <2>2. {V[u][D] : u \in ToSet(s.branches) \cup {s.orElse}} \in SUBSET Accs
    BY <2>1
  <2>3. V[b][D] \in {V[u][D] : u \in ToSet(s.branches) \cup {s.orElse}}
    OBVIOUS
  <2>4. Within(V[b][D], X)
    BY <1>2, <2>2, <2>3, UnionDef
  <2>5. D.found \subseteq V[b][D].found
    BY <1>2, <1>3, VisitBounds DEF V
  <2> QED BY <2>4, <2>5
<1>8. s.kind = "Loop" => Within(E, X) /\ Within(D, X)
  <2>1. {E, D} \in SUBSET Accs
    BY <1>2
  <2> QED BY <1>2, <2>1, UnionDef
<1>9. s.kind = "Block" => Within(E, X) /\ \A h \in ToSet(s.handlers) : Within(V[h][I], X)
  <2>1. \A h \in ToSet(s.handlers) : V[h][I] \in Accs
    BY <1>2, <1>3, <1>4
  <2>2. {E} \cup {V[h][I] : h \in ToSet(s.handlers)} \in SUBSET Accs
    BY <1>2, <2>1
  <2>3. /\ E \in {E} \cup {V[h][I] : h \in ToSet(s.handlers)}
        /\ \A h \in ToSet(s.handlers) : V[h][I] \in {E} \cup {V[u][I] : u \in ToSet(s.handlers)}
    OBVIOUS
  <2> QED BY <1>2, <2>2, <2>3, UnionDef
<1>10. ~ EndsTransaction(s) => D.found \subseteq X.found
  <2> SUFFICES ASSUME ~ EndsTransaction(s) PROVE D.found \subseteq X.found
    OBVIOUS
  <2>1. CASE s.kind = "If"
    BY <1>7, <2>1 DEF Within
  <2>2. CASE s.kind = "Loop"
    BY <1>8, <2>2 DEF Within
  <2>3. CASE s.kind = "Block"
    BY <1>6, <1>9, <2>3 DEF Within
  <2>4. CASE s.kind \in Simple \ {"Commit"}
    BY <1>2, <2>4
  <2> QED BY <1>1, <2>1, <2>2, <2>3, <2>4 DEF IsStatement, EndsTransaction
<1> QED BY <1>5, <1>7, <1>8, <1>9, <1>10 DEF Finds, V, D, X, E, I

(* What is written once a statement has called *)
LEMMA RunWrites ==
  ASSUME NEW p, IsProgram(p), NEW s \in Statements, NEW acc \in Accs
  PROVE  LET N == Run(p, Callees(s), Repeated(p, s, acc)).written
         IN /\ N = (acc.written \cup Repeats(p, s)) \cup Written(Ran(p, Callees(s)))
            /\ N \subseteq Tables /\ N \subseteq Reaches(p, s, acc).written
            /\ Reaches(p, s, acc).written = N \cup s.writes
            /\ Repeats(p, s) \subseteq WritesOfOne(p, s)
<1> DEFINE R == Repeated(p, s, acc)
           all == Ran(p, Callees(s))
<1>1. Repeats(p, s) \subseteq Tables
  BY WritesType, StatementParts DEF Part, Repeats
<1>2. R \in Accs /\ R.written = acc.written \cup Repeats(p, s)
  <2>1. CASE s.kind = "Loop"
    BY <1>1, <2>1 DEF Repeated, Repeats, Accs
  <2>2. CASE s.kind # "Loop"
    BY <2>2 DEF Repeated, Repeats, Accs
  <2> QED BY <2>1, <2>2
<1> HIDE DEF R
<1>3. all \in Code
  BY CalleesDef, RanDef
<1> HIDE DEF all
<1>4. Follow(all, R) \in Accs /\ Follow(all, R).written = R.written \cup Written(all)
  BY <1>2, <1>3, FollowDef
<1>5. Reaches(p, s, acc).written = (acc.written \cup Repeats(p, s)) \cup Written(all) \cup s.writes
  BY ReachesDef DEF all
<1>6. Repeats(p, s) \subseteq WritesOfOne(p, s)
  BY DEF Repeats, WritesOfOne, Parts
<1>7. Run(p, Callees(s), R).written = (acc.written \cup Repeats(p, s)) \cup Written(all) /\ Follow(all, R).written \subseteq Tables
  BY <1>2, <1>4 DEF Run, all, Accs
<1> QED BY <1>4, <1>5, <1>6, <1>7 DEF Run, R, all

(* What a called routine scans of what is written before the calls, or in  *)
(* any order by them, is found at the call.                                *)
LEMMA CalledScans ==
  ASSUME NEW p, IsProgram(p), NEW s \in Statements, NEW acc \in Accs, NEW r \in ToSet(s.calls)
  PROVE  LET B == acc.written \cup Repeats(p, s)
             D == Reaches(p, s, acc)
             all == Ran(p, Callees(s))
             scanned == Scannable(p, <<Whole(p[r])>>)
         IN /\ r \in Routines /\ <<Whole(p[r])>> \in Code
            /\ WritesIn(p, <<Whole(p[r])>>) \subseteq Written(all)
            /\ scanned \subseteq Scannable(p, <<s>>)
            /\ B \cap scanned \subseteq D.found
            /\ (\A x \in ToSet(all) : Scans(x, Written(all)) \subseteq Follow(all, Nothing).found) =>
                 Written(all) \cap scanned \subseteq D.found
<1> DEFINE B == acc.written \cup Repeats(p, s)
           D == Reaches(p, s, acc)
           all == Ran(p, Callees(s))
           scanned == Scannable(p, <<Whole(p[r])>>)
<1>1. /\ r \in Routines /\ <<Whole(p[r])>> \in Code /\ WritesIn(p, <<Whole(p[r])>>) \subseteq Written(all)
      /\ \A t \in scanned : \E x \in ToSet(all) : t \in Scans(x, Tables)
  BY WritesCalled
<1>2. all \in Code
  BY CalleesDef, RanDef
<1>3. ToSet(all) \subseteq Statements /\ Written(all) \subseteq Tables
  BY <1>2, CodeMembers, WrittenType
<1>4. /\ \A x \in ToSet(all) : Scans(x, B) \subseteq D.found
      /\ Follow(all, Nothing).found \subseteq D.found
  BY ReachesDef
<1>5. B \subseteq Tables
  BY RunWrites
<1> HIDE DEF all, scanned, B, D
<1>6. scanned \subseteq Scannable(p, <<s>>)
  <2>1. <<s>> \in Code /\ s \in ToSet(<<s>>)
    BY EmptySet DEF Code
  <2>2. s \in ToSet(Walk[<<s>>])
    BY <2>1, WalkIncludes
  <2>3. ToSet(all) \subseteq All(p, <<s>>)
    BY <2>1, <2>2, RanInAll DEF all
  <2> QED BY <1>1, <2>3 DEF Scannable
<1>7. B \cap scanned \subseteq D.found
  <2>1. ASSUME NEW t \in B, t \in scanned PROVE t \in D.found
    <3>1. PICK x \in ToSet(all) : t \in Scans(x, Tables)
      BY <1>1, <2>1
    <3>2. t \in Scans(x, B)
      BY <1>3, <1>5, <3>1, ScansDef
    <3> QED BY <1>4, <3>2
  <2> QED BY <2>1
<1>8. ASSUME \A x \in ToSet(all) : Scans(x, Written(all)) \subseteq Follow(all, Nothing).found,
             NEW t \in Written(all), t \in scanned PROVE t \in D.found
  <2>1. PICK x \in ToSet(all) : t \in Scans(x, Tables)
    BY <1>1, <1>8
  <2>2. t \in Scans(x, Written(all))
    BY <1>3, <2>1, ScansDef
  <2> QED BY <1>4, <1>8, <2>2
<1> QED BY <1>1, <1>6, <1>7, <1>8 DEF all, scanned, B, D

(* A visit of a cursor FOR loop's query finds what the loop does. *)
LEMMA QueryFound ==
  ASSUME NEW p, IsProgram(p), NEW s \in Statements, NEW acc \in Accs, s.query # <<>>
  PROVE  Visit(p)[s.query][acc].found \subseteq Reaches(p, s, acc).found
<1> DEFINE D == Reaches(p, s, acc)
<1>1. IsStatement(s) /\ s.query \in Code
  BY StatementParts DEF Part
<1>2. Len(s.query) = 1 /\ \A q \in ToSet(s.query) : q.kind = "Sql" /\ q.writes = {}
  BY <1>1 DEF IsStatement
<1>3. PICK q \in Statements : s.query = <<q>> /\ q \in ToSet(s.query)
  <2>1. s.query[1] \in Statements /\ s.query = <<s.query[1]>>
    BY <1>1, <1>2 DEF Code
  <2>2. ToSet(<<s.query[1]>>) = {s.query[1]}
    BY EmptySet
  <2> QED BY <2>1, <2>2
<1>4. q.kind = "Sql" /\ q.calls = <<>> /\ q.query = <<>>
  BY <1>2, <1>3, StatementsAssumption DEF IsStatement, Simple
<1>5. acc.found \subseteq D.found /\ Scans(q, acc.written) \subseteq D.found
  BY <1>3, ReachesDef
<1>6. Reaches(p, q, acc).found = acc.found \cup Scans(q, acc.written)
  <2>1. Opened(q, acc) = acc
    <3>1. UNION {Scans(x, acc.written) : x \in ToSet(q.query)} = {}
      BY <1>4, EmptySet
    <3> QED BY <3>1 DEF Opened, Scanned, Accs
  <2>2. Repeated(p, q, acc) = acc
    BY <1>4 DEF Repeated
  <2>3. Ran(p, Callees(q)) = <<>>
    <3>1. Callees(q) \in Seq(Routines) /\ ToSet(Callees(q)) = {}
      BY <1>4, CalleesDef, EmptySet
    <3>2. ToSet(Ran(p, Callees(q))) = {} /\ Ran(p, Callees(q)) \in Code
      BY <3>1, RanDef
    <3> QED BY <3>2, SeqMembers DEF Code
  <2> DEFINE a == Scanned(acc, Scans(q, acc.written))
  <2>4. a.found = acc.found \cup Scans(q, acc.written)
    BY DEF Scanned, Accs
  <2> HIDE DEF a
  <2>5. Follow(<<>>, a).found = a.found
    <3>1. DOMAIN <<>> = {}
      OBVIOUS
    <3>2. UNION {Scans(<<>>[i], Before(<<>>, i, a.written)) : i \in DOMAIN <<>>} = {}
      BY <3>1
    <3> QED BY <3>2 DEF Follow
  <2>6. Reaches(p, q, acc).found = Run(p, Callees(q), a).found
    <3>1. Run(p, Callees(q), a) = Follow(<<>>, a)
      BY <2>3 DEF Run
    <3>2. [Follow(<<>>, a) EXCEPT !.written = @ \cup q.writes].found = Follow(<<>>, a).found
      BY DEF Follow
    <3> QED BY <2>1, <2>2, <3>1, <3>2 DEF Reaches, Done, a
  <2> QED BY <2>3, <2>4, <2>5, <2>6 DEF Run
<1>7. Kinds(p, q, acc)
  BY VisitOneKinds
<1>8. VisitOne(p, Visit(p), q, acc) = Reaches(p, q, acc) /\ Reaches(p, q, acc) \in Accs
  BY <1>4, <1>7 DEF Kinds, Simple
<1> DEFINE u == <<q>>
<1>9. u \in Code \ {<<>>} /\ Head(u) = q /\ Tail(u) = <<>>
  BY DEF Code
<1> HIDE DEF u
<1>10. Visit(p)[u][acc] = Visit(p)[<<>>][Reaches(p, q, acc)]
  <2>1. Visit(p)[u][acc] = Visit(p)[Tail(u)][VisitOne(p, Visit(p), Head(u), acc)]
    BY <1>9, VisitDef
  <2> QED BY <1>8, <1>9, <2>1
<1>11. Visit(p)[u][acc] = Reaches(p, q, acc)
  BY <1>8, <1>10, VisitDef
<1> QED BY <1>3, <1>5, <1>6, <1>11 DEF u

----------------------------------------------------------------------------
(* The coarse answer                                                       *)

LEMMA EnteredType ==
  ASSUME NEW s, NEW a \in Accs, NEW visit, \A part \in Parts(s) : visit[part] \in [Accs -> Accs]
  PROVE  Branched(visit, s, a) \in Accs /\ Entered(visit, s, a) \in Accs
<1>1. visit[s.body][a] \in Accs /\ \A b \in ToSet(s.branches) \cup {s.orElse} : visit[b][a] \in Accs
  BY DEF Parts
<1>2. {visit[s.body][a]} \cup (IF s.kind = "Loop" THEN {a} ELSE {}) \in SUBSET Accs
  BY <1>1
<1>3. {visit[b][a] : b \in ToSet(s.branches) \cup {s.orElse}} \in SUBSET Accs
  BY <1>1
<1> QED BY <1>2, <1>3, UnionDef DEF Branched, Entered

(* The coarse analysis of the parts of a statement gives one of it, *)
LEMMA AfterOneType ==
  ASSUME NEW s \in Statements, NEW acc \in Accs, NEW after, \A part \in Parts(s) : after[part] \in [Accs -> Accs]
  PROVE  AfterOne(after, s, acc) \in Accs
<1> DEFINE B == Branched(after, s, Read(s, acc))
           E == Entered(after, s, B)
           I == [E EXCEPT !.written = BeforeHandlers(s, B.written, @)]
<1>1. acc.written \subseteq Tables /\ acc.found \subseteq Tables
  BY DEF Accs
<1>2. Read(s, acc) \in Accs
  <2>1. s.writes \subseteq Tables
    BY ScansDef
  <2> QED BY <1>1, <2>1 DEF Read, Accs
<1>3. B \in Accs /\ E \in Accs
  BY <1>2, EnteredType
<1>4. AfterOne(after, s, acc) = IF EndsTransaction(s) THEN [acc EXCEPT !.written = {}] ELSE AfterHandlers(after, s, B, E)
  BY DEF AfterOne, AfterBelow
<1>5. AfterHandlers(after, s, B, E) = Union({E} \cup {after[h][I] : h \in ToSet(s.handlers)})
  BY DEF AfterHandlers
<1> HIDE DEF B, E
<1>6. I \in Accs
  <2>1. Written(Walk[s.body]) \subseteq Tables
    BY StatementParts, WalkDef, WrittenType DEF Part
  <2> QED BY <1>3, <2>1 DEF BeforeHandlers, Accs
<1> HIDE DEF I
<1>7. AfterHandlers(after, s, B, E) \in Accs
  <2>1. \A h \in ToSet(s.handlers) : after[h][I] \in Accs
    BY <1>6 DEF Parts
  <2>2. {E} \cup {after[h][I] : h \in ToSet(s.handlers)} \in SUBSET Accs
    BY <1>3, <2>1
  <2> QED BY <1>5, <2>2, UnionDef
<1>8. [acc EXCEPT !.written = {}] \in Accs
  BY <1>1 DEF Accs
<1> QED BY <1>4, <1>7, <1>8

(* and depends on nothing else. *)
LEMMA AfterOneLocal ==
  ASSUME NEW s, NEW acc, NEW after, NEW other, \A part \in Parts(s) : after[part] = other[part]
  PROVE  AfterOne(after, s, acc) = AfterOne(other, s, acc)
<1>1. ASSUME NEW a PROVE Branched(after, s, a) = Branched(other, s, a)
  <2>1. \A b \in ToSet(s.branches) \cup {s.orElse} : after[b][a] = other[b][a]
    BY DEF Parts
  <2>2. {after[b][a] : b \in ToSet(s.branches) \cup {s.orElse}} = {other[b][a] : b \in ToSet(s.branches) \cup {s.orElse}}
    BY <2>1
  <2> QED BY <2>2 DEF Branched
<1>2. ASSUME NEW a PROVE Entered(after, s, a) = Entered(other, s, a)
  BY DEF Parts, Entered
<1>3. ASSUME NEW a, NEW e PROVE AfterHandlers(after, s, a, e) = AfterHandlers(other, s, a, e)
  <2> DEFINE i == [e EXCEPT !.written = BeforeHandlers(s, a.written, @)]
  <2>1. /\ AfterHandlers(after, s, a, e) = Union({e} \cup {after[h][i] : h \in ToSet(s.handlers)})
        /\ AfterHandlers(other, s, a, e) = Union({e} \cup {other[h][i] : h \in ToSet(s.handlers)})
    BY DEF AfterHandlers
  <2>2. \A h \in ToSet(s.handlers) : after[h] = other[h]
    BY DEF Parts
  <2> HIDE DEF i
  <2>3. {after[h][i] : h \in ToSet(s.handlers)} = {other[h][i] : h \in ToSet(s.handlers)}
    BY <2>2
  <2> QED BY <2>1, <2>3
<1>4. ASSUME NEW a PROVE AfterBelow(after, s, a) = AfterBelow(other, s, a)
  BY <1>2, <1>3 DEF AfterBelow
<1>5. AfterBelow(after, s, Branched(after, s, Read(s, acc))) = AfterBelow(other, s, Branched(other, s, Read(s, acc)))
  <2> DEFINE x == Branched(after, s, Read(s, acc))
  <2>1. x = Branched(other, s, Read(s, acc))
    BY <1>1
  <2> HIDE DEF x
  <2>2. AfterBelow(after, s, x) = AfterBelow(other, s, x)
    BY <1>4
  <2> QED BY <2>1, <2>2 DEF x
<1> QED BY <1>5 DEF AfterOne

LEMMA AfterDef ==
  /\ After \in [Code -> [Accs -> Accs]]
  /\ \A acc \in Accs : After[<<>>][acc] = acc
  /\ \A ss \in Code \ {<<>>}, acc \in Accs :
       /\ AfterOne(After, Head(ss), acc) \in Accs
       /\ After[ss][acc] = After[Tail(ss)][AfterOne(After, Head(ss), acc)]
<1> DEFINE D == Code
           R == [Accs -> Accs]
           Value(f, ss, acc) == IF ss = <<>> THEN acc ELSE f[Tail(ss)][AfterOne(f, Head(ss), acc)]
           Step(f, ss) == [acc \in Accs |-> Value(f, ss, acc)]
           G == [a \in [D -> R] \X D |-> Step(a[1], a[2])]
<1>1. ASSUME NEW ss \in Code, ss # <<>>
      PROVE  /\ Head(ss) \in Statements /\ Tail(ss) \in Code /\ Earlier(Size, Tail(ss), ss)
             /\ \A part \in Parts(Head(ss)) : part \in Code /\ Earlier(Size, part, ss)
  <2>1. Head(ss) \in Statements /\ Head(ss) \in ToSet(ss)
    BY <1>1, CodeParts
  <2>2. \A part \in Parts(Head(ss)) : Part(Head(ss), part)
    BY <2>1, WalkPart
  <2>3. \A part \in Parts(Head(ss)) : part \in Code /\ Earlier(Size, part, ss)
    BY <2>1, <2>2, PartSmaller
  <2> QED BY <1>1, <2>1, <2>3, TailSmaller
<1>2. ASSUME NEW f, NEW ss \in Code, \A u \in Code : Earlier(Size, u, ss) => f[u] \in R
      PROVE  /\ Step(f, ss) \in R
             /\ ss # <<>> => \A acc \in Accs : AfterOne(f, Head(ss), acc) \in Accs
  <2>1. ASSUME NEW acc \in Accs, ss # <<>> PROVE AfterOne(f, Head(ss), acc) \in Accs
    BY <1>1, <1>2, <2>1, AfterOneType
  <2>2. ASSUME NEW acc \in Accs PROVE Value(f, ss, acc) \in Accs
    <3>1. CASE ss = <<>>
      BY <3>1
    <3>2. CASE ss # <<>>
      <4>1. f[Tail(ss)] \in R
        BY <1>1, <1>2, <3>2
      <4> QED BY <2>1, <3>2, <4>1
    <3> QED BY <3>1, <3>2
  <2> HIDE DEF Value
  <2> QED BY <2>1, <2>2
<1>3. ASSUME NEW f \in [D -> R], NEW ss \in D PROVE Step(f, ss) \in R
  <2> HIDE DEF Step, R
  <2> QED BY <1>2
<1>4. G \in [[D -> R] \X D -> R]
  <2> HIDE DEF D, R, Step
  <2> QED BY <1>3
<1>5. ASSUME NEW f \in [D -> R], NEW g \in [D -> R], NEW ss \in D, \A u \in D : Earlier(Size, u, ss) => f[u] = g[u]
      PROVE  Step(f, ss) = Step(g, ss)
  <2>1. ASSUME NEW acc \in Accs PROVE Value(f, ss, acc) = Value(g, ss, acc)
    <3>1. CASE ss = <<>>
      BY <3>1
    <3>2. CASE ss # <<>>
      <4>1. f[Tail(ss)] = g[Tail(ss)] /\ \A part \in Parts(Head(ss)) : f[part] = g[part]
        BY <1>1, <1>5, <3>2
      <4>2. AfterOne(f, Head(ss), acc) = AfterOne(g, Head(ss), acc)
        BY <4>1, AfterOneLocal
      <4> QED BY <3>2, <4>1, <4>2
    <3> QED BY <3>1, <3>2
  <2> HIDE DEF Value
  <2> QED BY <2>1
<1>6. \A f \in [D -> R], ss \in D : G[<<f, ss>>] = Step(f, ss)
  <2> HIDE DEF D, R, Step
  <2> QED OBVIOUS
<1>7. Recursive(D, Size, R, G)
  <2>1. \A f, g \in [D -> R] : \A ss \in D :
          (\A u \in D : Earlier(Size, u, ss) => f[u] = g[u]) => G[<<f, ss>>] = G[<<g, ss>>]
    <3> HIDE DEF D, R, Step, G
    <3> SUFFICES ASSUME NEW f \in [D -> R], NEW g \in [D -> R], NEW ss \in D,
                        \A u \in D : Earlier(Size, u, ss) => f[u] = g[u]
                 PROVE  G[<<f, ss>>] = G[<<g, ss>>]
      OBVIOUS
    <3> QED BY <1>5, <1>6
  <2>2. R # {}
    <3>1. [acc \in Accs |-> acc] \in R
      OBVIOUS
    <3> HIDE DEF R
    <3> QED BY <3>1
  <2> HIDE DEF R, G
  <2> QED BY <1>4, <2>1, <2>2, SizeType DEF Recursive
<1>8. PICK f \in [D -> R] : \A ss \in D : f[ss] = Step(f, ss)
  <2> HIDE DEF D, R, G, Step
  <2>1. \E f \in [D -> R] : \A ss \in D : f[ss] = G[<<f, ss>>]
    BY <1>7, Recursion
  <2> QED BY <1>6, <2>1
<1>9. f = [ss \in Code |-> Step(f, ss)]
  <2> HIDE DEF Step
  <2> QED BY <1>8
<1>10. After = [ss \in Code |-> Step(After, ss)]
  BY <1>9 DEF After
<1>11. \A ss \in Code : After[ss] = Step(After, ss)
  <2> HIDE DEF Step
  <2> QED BY <1>10
<1> DEFINE Fits == {ss \in Code : After[ss] \in R}
<1>12. Code \subseteq Fits
  <2>1. ASSUME NEW ss \in Code, \A u \in Code : Earlier(Size, u, ss) => u \in Fits PROVE ss \in Fits
    <3> HIDE DEF Step, R
    <3>1. Step(After, ss) \in R
      BY <1>2, <2>1
    <3> QED BY <1>11, <3>1
  <2> HIDE DEF Fits
  <2> QED BY <2>1, CodeInduction
<1>13. After \in [Code -> R]
  <2> HIDE DEF Step, R
  <2> QED BY <1>10, <1>12
<1>14. ASSUME NEW ss \in Code, NEW acc \in Accs PROVE After[ss][acc] = Value(After, ss, acc)
  <2> HIDE DEF Value
  <2> QED BY <1>11
<1>15. ASSUME NEW ss \in Code, ss # <<>>, NEW acc \in Accs PROVE AfterOne(After, Head(ss), acc) \in Accs
  <2>1. \A u \in Code : After[u] \in R
    <3> HIDE DEF R
    <3> QED BY <1>13
  <2> HIDE DEF Step, R
  <2> QED BY <1>2, <1>15, <2>1
<1>16. <<>> \in Code
  BY DEF Code
<1> QED BY <1>13, <1>14, <1>15, <1>16

(* Statements without loops, jumps and calls *)
LinearStatement(s) == s.kind \in {"Plain", "Sql", "Commit", "If", "Block"} /\ s.calls = <<>>
Linear(ss)         == \A s \in ToSet(Walk[ss]) : LinearStatement(s)

LEMMA LinearParts ==
  ASSUME NEW ss \in Code, Linear(ss)
  PROVE  /\ \A s \in ToSet(ss) : LinearStatement(s) /\ \A part \in Parts(s) : Linear(part)
         /\ ss # <<>> => Linear(Tail(ss))
<1>1. \A s \in ToSet(ss) : LinearStatement(s)
  BY WalkIncludes DEF Linear
<1>2. \A s \in ToSet(ss) : \A part \in Parts(s) : Linear(part)
  BY WalkPart DEF Linear
<1>3. ASSUME ss # <<>> PROVE Linear(Tail(ss))
  <2>1. Tail(ss) \in Code /\ ToSet(Tail(ss)) \subseteq ToSet(ss)
    BY <1>3, CodeParts
  <2> QED BY <2>1, WalkMore DEF Linear
<1> QED BY <1>1, <1>2, <1>3

(* Without calls a statement reaches what is below it with its own writes  *)
(* and scans; nothing else is written in what is below it.                 *)
LEMMA LinearReaches ==
  ASSUME NEW p, IsProgram(p), NEW s \in Statements, LinearStatement(s), NEW acc \in Accs
  PROVE  /\ Reaches(p, s, acc) \in Accs
         /\ Reaches(p, s, acc).written = acc.written \cup s.writes
         /\ Reaches(p, s, acc).found = acc.found \cup Scans(s, acc.written)
<1>1. s.query = <<>> /\ s.kind # "Loop" /\ s.calls = <<>>
  BY StatementsAssumption DEF IsStatement, LinearStatement
<1>2. Opened(s, acc) = acc
  <2>1. UNION {Scans(x, acc.written) : x \in ToSet(s.query)} = {}
    BY <1>1, EmptySet
  <2> QED BY <2>1 DEF Opened, Scanned, Accs
<1>3. Repeated(p, s, acc) = acc
  BY <1>1 DEF Repeated
<1>4. Ran(p, Callees(s)) = <<>>
  <2>1. Callees(s) \in Seq(Routines) /\ ToSet(Callees(s)) = {}
    BY <1>1, CalleesDef, EmptySet
  <2>2. ToSet(Ran(p, Callees(s))) = {} /\ Ran(p, Callees(s)) \in Code
    BY <2>1, RanDef
  <2> QED BY <2>2, SeqMembers DEF Code
<1> DEFINE a == Scanned(acc, Scans(s, acc.written))
<1>5. a.found = acc.found \cup Scans(s, acc.written) /\ a.written = acc.written
  BY DEF Scanned, Accs
<1> HIDE DEF a
<1>6. Follow(<<>>, a).found = a.found /\ Follow(<<>>, a).written = a.written
  <2>1. DOMAIN <<>> = {}
    OBVIOUS
  <2>2. UNION {Scans(<<>>[i], Before(<<>>, i, a.written)) : i \in DOMAIN <<>>} = {}
    BY <2>1
  <2>3. Written(<<>>) = {}
    BY EmptySet DEF Written
  <2> QED BY <2>2, <2>3 DEF Follow
<1>7. Reaches(p, s, acc) = [Follow(<<>>, a) EXCEPT !.written = @ \cup s.writes]
  BY <1>2, <1>3, <1>4 DEF Reaches, Done, Run, a
<1>8. DOMAIN Follow(<<>>, a) = {"written", "found"}
  BY DEF Follow
<1>9. Reaches(p, s, acc) \in Accs
  BY ReachesDef
<1> DEFINE f == Follow(<<>>, a)
<1> HIDE DEF f
<1>10. [f EXCEPT !.written = @ \cup s.writes].found = f.found
  BY <1>8 DEF f
<1>11. [f EXCEPT !.written = @ \cup s.writes].written = f.written \cup s.writes
  BY <1>8 DEF f
<1> QED BY <1>5, <1>6, <1>7, <1>9, <1>10, <1>11 DEF f

LEMMA LinearWrites ==
  ASSUME NEW p, IsProgram(p), NEW ss \in Code, Linear(ss)
  PROVE  WritesIn(p, ss) = Written(Walk[ss])
<1>1. WritesIn(p, ss) = UNION {x.writes : x \in All(p, ss)}
  BY AllDef
<1>2. Calls(ToSet(Walk[ss])) = {}
  BY EmptySet DEF Calls, Linear, LinearStatement
<1>3. All(p, ss) = ToSet(Walk[ss])
  BY <1>2, AllDef
<1> QED BY <1>1, <1>3 DEF Written

LEMMA UnionMore ==
  ASSUME NEW A \in SUBSET Accs, NEW B \in SUBSET Accs, \A a \in A : \E b \in B : Within(a, b)
  PROVE  Within(Union(A), Union(B))
BY DEF Within, Union

(* Statement by statement the coarse analysis has written and found at     *)
(* least as much.                                                          *)
LEMMA CoarseOne ==
  ASSUME NEW p, IsProgram(p), NEW s \in Statements, LinearStatement(s), Linear(s.body),
         NEW a \in Accs, NEW b \in Accs, Within(a, b),
         \A part \in Parts(s), x, y \in Accs : Within(x, y) => Within(Visit(p)[part][x], After[part][y])
  PROVE  Within(VisitOne(p, Visit(p), s, a), AfterOne(After, s, b))
<1> DEFINE V == Visit(p)
           D == Reaches(p, s, a)
           R == Read(s, b)
           C(x) == Branched(V, s, x)
           K(y) == Branched(After, s, y)
           Cut(x, e) == Interrupted(p, s, x, e)
           Off(y, f) == [f EXCEPT !.written = BeforeHandlers(s, y.written, @)]
<1>1. /\ \A part \in Parts(s) : part \in Code
      /\ s.body \in Parts(s) /\ s.orElse \in Parts(s) /\ \A h \in ToSet(s.branches) \cup ToSet(s.handlers) : h \in Parts(s)
  BY StatementParts DEF Part, Parts
<1>2. \A part \in Parts(s) : V[part] \in [Accs -> Accs] /\ After[part] \in [Accs -> Accs]
  BY <1>1, VisitDef, AfterDef
<1>3. \A part \in Parts(s), x, y \in Accs : Within(x, y) => Within(V[part][x], After[part][y])
  OBVIOUS
<1> HIDE DEF V
<1>4. D \in Accs /\ R \in Accs /\ Within(D, R)
  <2>1. a.written \subseteq b.written /\ a.found \subseteq b.found /\ b.written \subseteq Tables /\ b.found \subseteq Tables
    BY DEF Within, Accs
  <2>2. Scans(s, a.written) \subseteq s.reads \cap b.written
    BY <2>1 DEF Scans
  <2>3. s.writes \subseteq Tables
    BY ScansDef
  <2>4. /\ R.written = b.written \cup s.writes
        /\ R.found = b.found \cup ((s.reads \cup UNION {q.reads : q \in ToSet(s.query)}) \cap b.written)
        /\ R = [written |-> R.written, found |-> R.found]
    BY DEF Read
  <2> HIDE DEF R
  <2>5. R \in Accs
    BY <2>1, <2>3, <2>4 DEF Accs
  <2>6. Reaches(p, s, a).written \subseteq R.written /\ Reaches(p, s, a).found \subseteq R.found
    BY <2>1, <2>2, <2>4, LinearReaches
  <2> QED BY <2>5, <2>6, LinearReaches DEF Within
<1> HIDE DEF D, R
<1>5. ASSUME NEW x \in Accs, NEW y \in Accs, Within(x, y)
      PROVE  /\ C(x) \in Accs /\ K(y) \in Accs /\ Within(C(x), K(y))
             /\ Entered(V, s, x) \in Accs /\ Entered(After, s, y) \in Accs /\ Within(Entered(V, s, x), Entered(After, s, y))
  <2>1. C(x) \in Accs /\ K(y) \in Accs /\ Entered(V, s, x) \in Accs /\ Entered(After, s, y) \in Accs
    BY <1>2, EnteredType
  <2>2. Within(C(x), K(y))
    <3> DEFINE bs == ToSet(s.branches) \cup {s.orElse}
               A  == {V[u][x] : u \in bs}
               B  == {After[u][y] : u \in bs}
    <3>1. \A u \in bs : V[u][x] \in Accs /\ After[u][y] \in Accs /\ Within(V[u][x], After[u][y])
      BY <1>1, <1>2, <1>3, <1>5
    <3>2. A \in SUBSET Accs /\ B \in SUBSET Accs /\ \A m \in A : \E n \in B : Within(m, n)
      BY <3>1
    <3> HIDE DEF A, B
    <3>3. Within(Union(A), Union(B))
      BY <3>2, UnionMore
    <3> QED BY <1>5, <3>3 DEF Branched, A, B
  <2>3. Within(Entered(V, s, x), Entered(After, s, y))
    <3> DEFINE A == {V[s.body][x]} \cup IF s.kind = "Loop" THEN {x} ELSE {}
               B == {After[s.body][y]} \cup IF s.kind = "Loop" THEN {y} ELSE {}
    <3>1. V[s.body][x] \in Accs /\ After[s.body][y] \in Accs /\ Within(V[s.body][x], After[s.body][y])
      BY <1>1, <1>2, <1>3, <1>5
    <3>2. A \in SUBSET Accs /\ B \in SUBSET Accs /\ \A m \in A : \E n \in B : Within(m, n)
      BY <1>5, <3>1
    <3> HIDE DEF A, B
    <3>3. Within(Union(A), Union(B))
      BY <3>2, UnionMore
    <3> QED BY <3>3 DEF Entered, A, B
  <2> QED BY <2>1, <2>2, <2>3
<1>6. ASSUME NEW x \in Accs, NEW y \in Accs, Within(x, y), NEW e \in Accs, NEW f \in Accs, Within(e, f)
      PROVE  Within(Handled(p, V, s, x, e), AfterHandlers(After, s, y, f))
  <2>1. Cut(x, e) \in Accs /\ Off(y, f) \in Accs /\ Within(Cut(x, e), Off(y, f))
    <3>1. WritesIn(p, s.body) = Written(Walk[s.body]) /\ WritesIn(p, s.body) \subseteq Tables
      BY <1>1, LinearWrites, WritesType
    <3>2. /\ x.written \subseteq y.written /\ e.written \subseteq f.written /\ e.found \subseteq f.found
          /\ y.written \subseteq Tables /\ f.written \subseteq Tables
      BY <1>6 DEF Within, Accs
    <3>3. /\ Cut(x, e) = [e EXCEPT !.written = (@ \cup x.written) \cup WritesIn(p, s.body)]
          /\ Off(y, f) = [f EXCEPT !.written = (y.written \cup @) \cup Written(Walk[s.body])]
      BY DEF Interrupted, BeforeHandlers
    <3> HIDE DEF Cut, Off
    <3> DEFINE W == WritesIn(p, s.body)
    <3> HIDE DEF W
    <3>4. Cut(x, e) = [e EXCEPT !.written = (@ \cup x.written) \cup W] /\ Off(y, f) = [f EXCEPT !.written = (y.written \cup @) \cup W]
      BY <3>1, <3>3 DEF W
    <3>5. W \subseteq Tables
      BY <3>1 DEF W
    <3> QED BY <1>6, <3>2, <3>4, <3>5 DEF Accs, Within
  <2> DEFINE c == Cut(x, e)
             o == Off(y, f)
             A == {e} \cup {V[h][c] : h \in ToSet(s.handlers)}
             B == {f} \cup {After[h][o] : h \in ToSet(s.handlers)}
  <2>2. Handled(p, V, s, x, e) = Union(A) /\ AfterHandlers(After, s, y, f) = Union(B)
    BY DEF Handled, AfterHandlers
  <2> HIDE DEF c, o
  <2>3. c \in Accs /\ o \in Accs /\ Within(c, o)
    BY <2>1 DEF c, o
  <2> HIDE DEF Cut, Off
  <2>4. \A h \in ToSet(s.handlers) : V[h][c] \in Accs /\ After[h][o] \in Accs /\ Within(V[h][c], After[h][o])
    BY <1>1, <1>2, <1>3, <2>3
  <2>5. A \in SUBSET Accs /\ B \in SUBSET Accs
    BY <1>6, <2>4
  <2>6. \A m \in A : \E n \in B : Within(m, n)
    BY <1>6, <2>4
  <2> HIDE DEF A, B
  <2> QED BY <2>2, <2>5, <2>6, UnionMore
<1>7. CASE EndsTransaction(s)
  <2>1. VisitOne(p, V, s, a) = [a EXCEPT !.written = {}] /\ AfterOne(After, s, b) = [b EXCEPT !.written = {}]
    BY <1>7 DEF VisitOne, AfterOne
  <2> QED BY <2>1 DEF Within, V, Accs
<1>8. CASE ~ EndsTransaction(s)
  <2> DEFINE x == C(D)
             y == K(R)
             e == Entered(V, s, x)
             f == Entered(After, s, y)
  <2>1. VisitOne(p, V, s, a) = Handled(p, V, s, x, e) /\ AfterOne(After, s, b) = AfterHandlers(After, s, y, f)
    BY <1>8 DEF VisitOne, AfterOne, Below, AfterBelow, D, R
  <2>2. x \in Accs /\ y \in Accs /\ Within(x, y)
    BY <1>4, <1>5
  <2> HIDE DEF x, y
  <2>3. e \in Accs /\ f \in Accs /\ Within(e, f)
    BY <1>5, <2>2
  <2> HIDE DEF e, f
  <2>4. Within(Handled(p, V, s, x, e), AfterHandlers(After, s, y, f))
    BY <1>6, <2>2, <2>3
  <2> QED BY <2>1, <2>4 DEF V
<1> QED BY <1>7, <1>8

LEMMA CoarseWithin ==
  ASSUME NEW p, IsProgram(p), NEW ss \in Code, Linear(ss), NEW a \in Accs, NEW b \in Accs, Within(a, b)
  PROVE  Within(Visit(p)[ss][a], After[ss][b])
<1> DEFINE Covers(u) == Linear(u) => \A x, y \in Accs : Within(x, y) => Within(Visit(p)[u][x], After[u][y])
           Fine == {u \in Code : Covers(u)}
<1>1. ASSUME NEW u \in Code, \A v \in Code : Earlier(Size, v, u) => v \in Fine PROVE Covers(u)
  <2> SUFFICES ASSUME Linear(u), NEW x \in Accs, NEW y \in Accs, Within(x, y)
               PROVE  Within(Visit(p)[u][x], After[u][y])
    OBVIOUS
  <2>1. CASE u = <<>>
    BY <2>1, VisitDef, AfterDef
  <2>2. CASE u # <<>>
    <3> DEFINE h == Head(u)
               c == VisitOne(p, Visit(p), h, x)
               d == AfterOne(After, h, y)
    <3>1. h \in Statements /\ h \in ToSet(u) /\ Tail(u) \in Code
      BY <2>2, CodeParts
    <3>2. c \in Accs /\ Visit(p)[u][x] = Visit(p)[Tail(u)][c]
      BY <2>2, VisitDef
    <3>3. d \in Accs /\ After[u][y] = After[Tail(u)][d]
      BY <2>2, AfterDef
    <3>4. Tail(u) \in Fine /\ Linear(Tail(u))
      BY <1>1, <2>2, TailSmaller, LinearParts
    <3>5. LinearStatement(h) /\ \A part \in Parts(h) : part \in Fine /\ Linear(part)
      BY <1>1, <3>1, WalkPart, PartSmaller, LinearParts
    <3>6. Linear(h.body)
      BY <3>5 DEF Parts
    <3> HIDE DEF h
    <3>7. Within(c, d)
      BY <3>1, <3>5, <3>6, CoarseOne
    <3> HIDE DEF c, d
    <3> QED BY <3>2, <3>3, <3>4, <3>7
  <2> QED BY <2>1, <2>2
<1>2. \A u \in Code : (\A v \in Code : Earlier(Size, v, u) => v \in Fine) => u \in Fine
  <2> HIDE DEF Covers
  <2> QED BY <1>1
<1>3. Code \subseteq Fine
  <2> HIDE DEF Fine
  <2> QED BY <1>2, CodeInduction
<1> QED BY <1>3
=============================================================================
