------------------------ MODULE WriteThenScanProofs ------------------------
(***************************************************************************)
(* The runs of WriteThenScan stay within its types, and none of them makes *)
(* ScalarDB refuse a scan that scan_after_write has not reported, for any  *)
(* programs the analysis covers.  Without loops and calls nothing else is  *)
(* reported.                                                               *)
(***************************************************************************)
EXTENDS WriteThenScan, ScanProofs

----------------------------------------------------------------------------
(* Types                                                                   *)

(* What can be entered: a routine, a statement, a branch or a handler *)
Body(r) == [Plain EXCEPT !.kind = "Routine", !.label = r]
Pieces  == {Body(r) : r \in Routines} \cup Statements \cup {Block(ss) : ss \in Code}
Context == [of : Pieces, left : Code, calls : Seq(Routines)]

Typed ==
  /\ prog \in Programs
  /\ reported = ScanAfterWrite(prog)
  /\ stack \in Seq(Context)
  /\ written \subseteq Tables
  /\ refused = <<>> \/ (refused[1] \subseteq Tables /\ refused[2] \subseteq Routines)

LEMMA PieceType ==
  ASSUME NEW o \in Pieces
  PROVE  /\ DOMAIN o = DOMAIN Plain
         /\ o.body \in Code /\ o.calls \in Seq(Routines)
         /\ o.handlers \in Seq(Code) /\ \A h \in ToSet(o.handlers) : h \in Code
         /\ o.kind = "Routine" => o.label \in Routines
<1>1. <<>> \in Code /\ <<>> \in Seq(Routines) /\ <<>> \in Seq(Code)
  BY DEF Code
<1>2. o.handlers \in Seq(Code) => \A h \in ToSet(o.handlers) : h \in Code
  BY SeqMembers
<1>3. CASE \E r \in Routines : o = Body(r)
  <2>1. PICK r \in Routines : o = Body(r)
    BY <1>3
  <2>2. /\ DOMAIN o = DOMAIN Plain /\ o.body = Plain.body /\ o.calls = Plain.calls /\ o.handlers = Plain.handlers
        /\ o.label = r
    BY <2>1 DEF Body, Plain
  <2>3. Plain.body = <<>> /\ Plain.calls = <<>> /\ Plain.handlers = <<>>
    BY DEF Plain
  <2> QED BY <1>1, <1>2, <2>2, <2>3
<1>4. CASE o \in Statements
  <2>1. IsStatement(o)
    BY <1>4, StatementsAssumption
  <2>2. /\ DOMAIN o = DOMAIN Plain /\ o.body \in Code /\ o.calls \in Seq(Routines) /\ o.handlers \in Seq(Code)
    BY <2>1 DEF IsStatement, Plain
  <2>3. o.kind # "Routine"
    BY <2>1 DEF IsStatement, Simple
  <2> QED BY <1>2, <2>2, <2>3
<1>5. CASE \E ss \in Code : o = Block(ss)
  BY <1>1, <1>2, <1>5 DEF Block, Plain
<1> QED BY <1>3, <1>4, <1>5 DEF Pieces

(* What is entered, and what is left of it, is a context. *)
LEMMA AtType ==
  ASSUME NEW o \in Pieces, NEW ss \in Code
  PROVE  CallsBefore(o, ss) \in Seq(Routines) /\ At(o, ss) \in Context
<1>1. ASSUME ss # <<>> PROVE Head(ss).calls \o Head(ss).declares \in Seq(Routines)
  <2>1. IsStatement(Head(ss))
    BY <1>1, CodeParts, StatementsAssumption
  <2> QED BY <2>1 DEF IsStatement
<1>2. CallsBefore(o, ss) \in Seq(Routines)
  BY <1>1, PieceType DEF CallsBefore
<1> QED BY <1>2 DEF At, Context

LEMMA SeqPush ==
  ASSUME NEW S, NEW c \in S, NEW s \in Seq(S)
  PROVE  <<c>> \o s \in Seq(S) /\ \A d \in S : <<c, d>> \o s \in Seq(S)
OBVIOUS

LEMMA SeqFrom ==
  ASSUME NEW S, NEW s \in Seq(S), NEW k \in Nat, k > 0
  PROVE  /\ SubSeq(s, k, Len(s)) \in Seq(S)
         /\ Len(SubSeq(s, k, Len(s))) = IF k <= Len(s) THEN Len(s) + 1 - k ELSE 0
         /\ \A i \in 1..(Len(s) + 1 - k) : SubSeq(s, k, Len(s))[i] = s[k + i - 1]
OBVIOUS

(* The contexts a jump, a RETURN and an exception go to *)
LEMMA Selected ==
  ASSUME Typed
  PROVE  /\ \A l : /\ Labelled(l) \in 0..Len(stack)
                   /\ Labelled(l) # 0 =>
                        /\ stack[Labelled(l)].of.kind \in {"Loop", "Block"}
                        /\ IF l = "none" THEN stack[Labelled(l)].of.kind = "Loop" ELSE stack[Labelled(l)].of.label = l
         /\ Caller \in 0..Len(stack) /\ (Caller # 0 => stack[Caller].of.kind = "Routine")
         /\ Handling \in 0..Len(stack) /\ (Handling # 0 => stack[Handling].of.handlers # <<>>)
<1>1. Len(stack) \in Nat
  BY DEF Typed
<1>2. ASSUME NEW I \in SUBSET (1..Len(stack)) PROVE IF I # {} THEN Min(I) \in I ELSE TRUE
  <2> SUFFICES ASSUME I # {} PROVE Min(I) \in I
    OBVIOUS
  <2>1. I \subseteq Nat
    BY <1>1
  <2>2. \E n \in I : \A m \in I : n <= m
    BY <2>1, LeastNatural
  <2> QED BY <2>2 DEF Min
<1>3. ASSUME NEW l
      PROVE  /\ Labelled(l) \in 0..Len(stack)
             /\ Labelled(l) # 0 =>
                  /\ stack[Labelled(l)].of.kind \in {"Loop", "Block"}
                  /\ IF l = "none" THEN stack[Labelled(l)].of.kind = "Loop" ELSE stack[Labelled(l)].of.label = l
  <2> DEFINE Is(i) == /\ stack[i].of.kind \in {"Loop", "Block"}
                      /\ IF l = "none" THEN stack[i].of.kind = "Loop" ELSE stack[i].of.label = l
             I == {i \in 1..Len(stack) : Is(i)}
             min == Min(I)
  <2>1. Labelled(l) = IF I # {} THEN min ELSE 0
    BY DEF Labelled, SelectInSeq
  <2> HIDE DEF Is, min
  <2>2. I \in SUBSET (1..Len(stack))
    OBVIOUS
  <2>3. I # {} => min \in I
    BY <1>2, <2>2 DEF min
  <2>4. I # {} => min \in 1..Len(stack) /\ min # 0 /\ Is(min)
    BY <1>1, <2>3
  <2> HIDE DEF I
  <2>5. Labelled(l) \in 0..Len(stack) /\ (Labelled(l) # 0 => Is(Labelled(l)))
    BY <1>1, <2>1, <2>4
  <2> QED BY <2>5 DEF Is
<1>4. Caller \in 0..Len(stack) /\ (Caller # 0 => stack[Caller].of.kind = "Routine")
  <2> DEFINE I == {i \in 1..Len(stack) : stack[i].of.kind = "Routine"}
  <2>1. Caller = IF I # {} THEN Min(I) ELSE 0
    BY DEF Caller, SelectInSeq
  <2>2. I \in SUBSET (1..Len(stack))
    OBVIOUS
  <2>3. I # {} => Min(I) \in I
    BY <1>2, <2>2
  <2>4. I # {} => Min(I) \in 1..Len(stack)
    BY <2>2, <2>3
  <2> QED BY <1>1, <2>1, <2>3, <2>4
<1>5. Handling \in 0..Len(stack) /\ (Handling # 0 => stack[Handling].of.handlers # <<>>)
  <2> DEFINE I == {i \in 1..Len(stack) : stack[i].of.handlers # <<>>}
  <2>1. Handling = IF I # {} THEN Min(I) ELSE 0
    BY DEF Handling, SelectInSeq
  <2>2. I \in SUBSET (1..Len(stack))
    OBVIOUS
  <2>3. I # {} => Min(I) \in I
    BY <1>2, <2>2
  <2>4. I # {} => Min(I) \in 1..Len(stack)
    BY <2>2, <2>3
  <2> QED BY <1>1, <2>1, <2>3, <2>4
<1> QED BY <1>3, <1>4, <1>5

LEMMA FrameType ==
  ASSUME Typed, NEW r \in Routines
  PROVE  Frame(r) \in Context
<1>1. IsProgram(prog)
  BY ProgramsAssumption DEF Typed
<1>2. <<Whole(prog[r])>> \in Code
  BY <1>1, WholeDef
<1>3. Body(r) \in Pieces
  BY DEF Pieces
<1> QED BY <1>2, <1>3, AtType DEF Frame, Body

(* The parts of a stack that is not empty *)
LEMMA TopType ==
  ASSUME Typed, stack # <<>>
  PROVE  /\ Top \in Context /\ Rest \in Seq(Context)
         /\ Top.left # <<>> => /\ This \in Statements /\ This \in ToSet(Top.left) /\ Tail(Top.left) \in Code
                               /\ Behind \in Context
<1>1. Top \in Context /\ Rest \in Seq(Context)
  BY SeqParts DEF Typed, Top, Rest
<1>2. ASSUME Top.left # <<>>
      PROVE  This \in Statements /\ This \in ToSet(Top.left) /\ Tail(Top.left) \in Code /\ Behind \in Context
  <2>1. Top.left \in Code /\ Top.of \in Pieces
    BY <1>1 DEF Context
  <2>2. This \in Statements /\ This \in ToSet(Top.left) /\ Tail(Top.left) \in Code
    BY <1>2, <2>1, CodeParts DEF This
  <2> QED BY <2>1, <2>2, AtType DEF Behind
<1> QED BY <1>1, <1>2

LEMMA BlockType == \A ss \in Code : At(Block(ss), ss) \in Context
BY AtType DEF Pieces

LEMMA TypedInit ==
  ASSUME Init
  PROVE  Typed
<1>1. prog \in Programs /\ reported = ScanAfterWrite(prog) /\ stack = <<Frame(Entry)>> /\ written = {} /\ refused = <<>>
  BY DEF Init
<1>2. IsProgram(prog) /\ Entry \in Routines
  BY <1>1, ProgramsAssumption
<1>3. Frame(Entry) \in Context
  <2>1. <<Whole(prog[Entry])>> \in Code /\ Body(Entry) \in Pieces
    BY <1>2, WholeDef DEF Pieces
  <2> QED BY <2>1, AtType DEF Frame, Body
<1> QED BY <1>1, <1>3 DEF Typed

LEMMA TypedStep ==
  ASSUME Typed, [Next]_vars
  PROVE  Typed'
<1> SUFFICES stack' \in Seq(Context) /\ written' \subseteq Tables
             /\ (refused' = <<>> \/ (refused'[1] \subseteq Tables /\ refused'[2] \subseteq Routines))
  <2>1. prog' = prog /\ reported' = reported
    BY DEF Next, vars, CallNext, Evaluate, Operate, Commit, Choose, OpenLoop, Iterate, EnterBlock, Leave, Jump, Return, Raise,
           Goto
  <2> QED BY <2>1 DEF Typed
<1>1. stack \in Seq(Context) /\ written \subseteq Tables
      /\ (refused = <<>> \/ (refused[1] \subseteq Tables /\ refused[2] \subseteq Routines))
  BY DEF Typed
<1>0. \A i \in 1..Len(stack) : stack[i] \in Context /\ stack[i].of \in Pieces
  <2>1. \A i \in 1..Len(stack) : stack[i] \in Context
    BY <1>1
  <2> QED BY <2>1 DEF Context
<1> DEFINE Moved == UNCHANGED <<written, refused>>
<1>2. \A next : Goto(next) => stack' = next /\ Moved
  BY DEF Goto
<1>3. ASSUME NEW c \in Context, stack # <<>> PROVE <<c>> \o Rest \in Seq(Context) /\ \A d \in Context : <<d, c>> \o Rest \in Seq(Context)
  <2>1. Rest \in Seq(Context)
    BY <1>3, TopType
  <2> QED BY <1>3, <2>1, SeqPush
<1>4. ASSUME NEW k \in Nat, k > 0 PROVE From(k) \in Seq(Context) /\ \A c \in Context : <<c>> \o From(k) \in Seq(Context)
  <2>1. From(k) \in Seq(Context)
    BY <1>1, <1>4, SeqFrom DEF From
  <2> QED BY <2>1, SeqPush
<1>5. CASE CallNext
  <2>1. stack # <<>> /\ Top.calls # <<>> /\ stack' = <<Frame(Head(Top.calls)), [Top EXCEPT !.calls = Tail(@)]>> \o Rest /\ Moved
    BY <1>5, <1>2 DEF CallNext, Running
  <2>2. Top \in Context
    BY <2>1, TopType
  <2>3. Head(Top.calls) \in Routines /\ Tail(Top.calls) \in Seq(Routines)
    BY <2>1, <2>2 DEF Context
  <2>4. [Top EXCEPT !.calls = Tail(@)] \in Context
    BY <2>2, <2>3 DEF Context
  <2>5. Frame(Head(Top.calls)) \in Context
    BY <2>3, FrameType
  <2> QED BY <1>1, <1>3, <2>1, <2>4, <2>5
<1>6. CASE Evaluate
  <2>1. stack # <<>> /\ Top.left # <<>> /\ stack' = <<Behind>> \o Rest /\ Moved
    BY <1>6, <1>2 DEF Evaluate, Ready, Running
  <2> QED BY <1>1, <1>3, <2>1, TopType
<1>7. CASE Operate
  <2>1. stack # <<>> /\ Top.left # <<>>
    BY <1>7 DEF Operate, Ready, Running
  <2>2. This \in Statements /\ Behind \in Context
    BY <2>1, TopType
  <2>3. This.writes \subseteq Tables /\ Scans(This, written) \subseteq Tables
    BY <1>1, <2>2, ScansDef
  <2>4. CASE Scans(This, written) = {}
    <3>1. written' = written \cup This.writes /\ stack' = <<Behind>> \o Rest /\ UNCHANGED refused
      BY <1>7, <2>4 DEF Operate
    <3> QED BY <1>1, <1>3, <2>1, <2>2, <2>3, <3>1
  <2>5. CASE Scans(This, written) # {}
    <3>1. refused' = <<Scans(This, written), Stack>> /\ UNCHANGED <<stack, written>>
      BY <1>7, <2>5 DEF Operate
    <3>2. Stack \subseteq Routines
      <4>1. \A i \in DOMAIN stack : stack[i].of \in Pieces
        BY <1>0, <1>1
      <4> QED BY <4>1, PieceType DEF Stack
    <3> QED BY <1>1, <2>3, <3>1, <3>2
  <2> QED BY <2>4, <2>5
<1>8. CASE Commit
  <2>1. stack # <<>> /\ Top.left # <<>> /\ stack' = <<Behind>> \o Rest /\ written' = {} /\ UNCHANGED refused
    BY <1>8 DEF Commit, Ready, Running
  <2> QED BY <1>1, <1>3, <2>1, TopType
<1>9. CASE Choose
  <2>1. stack # <<>> /\ Top.left # <<>>
    BY <1>9 DEF Choose, Ready, Running
  <2>2. PICK b \in ToSet(This.branches) \cup {This.orElse} : Goto(<<At(Block(b), b), Behind>> \o Rest)
    BY <1>9 DEF Choose
  <2>3. stack' = <<At(Block(b), b), Behind>> \o Rest /\ Moved
    BY <1>2, <2>2
  <2>4. b \in Code
    BY <2>1, TopType, StatementParts DEF Part
  <2> QED BY <1>1, <1>3, <2>1, <2>3, <2>4, TopType, BlockType
<1>10. CASE OpenLoop
  <2>1. stack # <<>> /\ Top.left # <<>> /\ stack' = <<[of |-> This, left |-> This.query, calls |-> <<>>], Behind>> \o Rest /\ Moved
    BY <1>10, <1>2 DEF OpenLoop, Ready, Running
  <2>2. This \in Pieces /\ This.query \in Code
    BY <2>1, TopType, StatementParts DEF Part, Pieces
  <2>3. [of |-> This, left |-> This.query, calls |-> <<>>] \in Context
    BY <2>2 DEF Context
  <2> QED BY <1>1, <1>3, <2>1, <2>3, TopType
<1>11. CASE Iterate
  <2>1. stack # <<>> /\ stack' = <<At(Top.of, Top.of.body)>> \o Rest /\ Moved
    BY <1>11, <1>2 DEF Iterate, AtEnd, Running
  <2>2. Top.of \in Pieces
    BY <2>1, TopType DEF Context
  <2> QED BY <1>1, <1>3, <2>1, <2>2, PieceType, AtType
<1>12. CASE EnterBlock
  <2>1. stack # <<>> /\ Top.left # <<>> /\ stack' = <<At(This, This.body), Behind>> \o Rest /\ Moved
    BY <1>12, <1>2 DEF EnterBlock, Ready, Running
  <2>2. This \in Pieces /\ This.body \in Code
    BY <2>1, TopType, StatementParts DEF Part, Pieces
  <2> QED BY <1>1, <1>3, <2>1, <2>2, TopType, AtType
<1>13. CASE Leave
  <2>1. stack # <<>> /\ stack' = Rest /\ Moved
    BY <1>13, <1>2 DEF Leave, AtEnd, Running
  <2> QED BY <1>1, <2>1, TopType
<1>14. CASE Jump
  <2>1. stack # <<>> /\ Top.left # <<>>
    BY <1>14 DEF Jump, Ready, Running
  <2>2. CASE Goto(<<Behind>> \o Rest)
    <3>1. stack' = <<Behind>> \o Rest /\ Moved
      BY <1>2, <2>2
    <3> QED BY <1>1, <1>3, <2>1, <3>1, TopType
  <2>3. CASE \E to \in 1..Len(stack) :
               Goto((IF This.kind = "Continue" THEN <<At(stack[to].of, <<>>)>> ELSE <<>>) \o From(to + 1))
    <3>1. PICK to \in 1..Len(stack) :
            Goto((IF This.kind = "Continue" THEN <<At(stack[to].of, <<>>)>> ELSE <<>>) \o From(to + 1))
      BY <2>3
    <3>2. stack[to].of \in Pieces /\ to + 1 \in Nat /\ to + 1 > 0 /\ <<>> \in Code
      BY <1>0, <1>1 DEF Code
    <3>3. At(stack[to].of, <<>>) \in Context /\ From(to + 1) \in Seq(Context)
      BY <1>4, <3>2, AtType
    <3>4. <<>> \o From(to + 1) = From(to + 1)
      BY <3>3
    <3>5. /\ stack' = (IF This.kind = "Continue" THEN <<At(stack[to].of, <<>>)>> ELSE <<>>) \o From(to + 1)
          /\ Moved
      BY <3>1 DEF Goto
    <3>6. <<At(stack[to].of, <<>>)>> \o From(to + 1) \in Seq(Context)
      BY <1>4, <3>2, <3>3
    <3> QED BY <1>1, <3>3, <3>4, <3>5, <3>6
  <2> QED BY <1>14, <2>2, <2>3, Selected DEF Jump
<1>15. CASE Return
  <2>1. stack' = From(Caller + 1) /\ Moved
    BY <1>15, <1>2 DEF Return
  <2>2. Caller + 1 \in Nat /\ Caller + 1 > 0
    BY Selected
  <2> QED BY <1>1, <1>4, <2>1, <2>2
<1>16. CASE Raise
  <2>1. CASE Handling = 0
    <3>1. Goto(<<>>)
      BY <1>16, <2>1 DEF Raise
    <3>2. stack' = <<>> /\ Moved
      BY <1>2, <3>1
    <3> QED BY <1>1, <3>2
  <2>2. CASE Handling # 0
    <3>1. PICK h \in ToSet(stack[Handling].of.handlers) : Goto(<<At(Block(h), h)>> \o From(Handling + 1))
      BY <1>16, <2>2 DEF Raise
    <3>2. Handling \in 1..Len(stack) /\ Handling + 1 \in Nat /\ Handling + 1 > 0
      BY <1>1, <2>2, Selected
    <3>3. h \in Code
      BY <1>0, <3>1, <3>2, PieceType
    <3>4. stack' = <<At(Block(h), h)>> \o From(Handling + 1) /\ Moved
      BY <1>2, <3>1
    <3> QED BY <1>1, <1>4, <3>2, <3>3, <3>4, BlockType
  <2> QED BY <2>1, <2>2
<1>17. CASE UNCHANGED vars
  BY <1>1, <1>17 DEF vars
<1> QED BY <1>5, <1>6, <1>7, <1>8, <1>9, <1>10, <1>11, <1>12, <1>13, <1>14, <1>15, <1>16, <1>17 DEF Next

(* Every variable has its type, for all programs. *)
THEOREM TypeCorrect == Spec => []TypeOK
<1>1. Typed => TypeOK
  <2> SUFFICES ASSUME Typed PROVE TypeOK
    OBVIOUS
  <2>1. IsProgram(prog)
    BY ProgramsAssumption DEF Typed
  <2>2. reported \subseteq Routines \X Tables
    <3>1. \A r \in Routines : ScansOf(prog, r) \subseteq Tables
      BY <2>1, ScansOfDef
    <3>2. reported = UNION {{r} \X ScansOf(prog, r) : r \in Routines}
      BY DEF Typed, ScanAfterWrite
    <3>3. \A r \in Routines : {r} \X ScansOf(prog, r) \subseteq Routines \X Tables
      BY <3>1
    <3> QED BY <3>2, <3>3
  <2>3. ASSUME NEW i \in DOMAIN stack PROVE IsContext(stack[i])
    <3>1. stack[i] \in Context
      BY DEF Typed
    <3> QED BY <3>1, PieceType DEF Context, IsContext
  <2> QED BY <2>1, <2>2, <2>3 DEF Typed, TypeOK
<1> QED BY <1>1, TypedInit, TypedStep, PTL DEF Spec

----------------------------------------------------------------------------
(* The invariant.  Each context on the stack has a note that relates the   *)
(* run to the analysis: `acc`, what the analysis had written and found     *)
(* where this run of it is; `start`, at least what is written whenever the *)
(* context is the innermost; `guard`, what the callers may have written,   *)
(* and `known`, the tables that the routines called are reported for.      *)

Note == [acc : Accs, start : Accs, guard : SUBSET Tables, known : SUBSET Tables]

(* What is written when the context gets on: once it called, its callees'  *)
(* writes included                                                         *)
Now(p, c, n) ==
  IF c.left = <<>> \/ c.calls = CallsBefore(c.of, c.left) THEN n.acc.written
  ELSE Run(p, Callees(Head(c.left)), Repeated(p, Head(c.left), n.acc)).written

(* The statements scan nothing of what the callers wrote but is known; and *)
(* the analysis has found only what is known.                              *)
CoveredCode(p, ss)    == \A x \in ToSet(Walk[ss]) : CoveredStatement(p, x)
Guarded(p, ss, n)     == CoveredCode(p, ss) /\ n.guard \cap Scannable(p, ss) \subseteq n.known
Bounded(p, ss, n)     == Guarded(p, ss, n) /\ WritesIn(p, ss) \subseteq n.start.written
Found(p, ss, acc, n)  == Visit(p)[ss][acc].found \subseteq n.known

(* All calls are still to make, or some of them *)
Pending(cs, all) == ToSet(cs) \subseteq ToSet(all) /\ (cs = all \/ Len(cs) < Len(all))

Shape(c) ==
  /\ c.of.kind \in {"Routine", "Loop", "Block"}
  /\ c.of.kind = "Loop" \/ c.of.handlers # <<>> => c.of \in Statements
  /\ c.of.kind # "Loop" => c.of.loop_kind = "basic"
  /\ c.of.kind # "Block" => c.of.handlers = <<>>
  /\ Pending(c.calls, CallsBefore(c.of, c.left))

(* A loop comes round to where it started. *)
LoopFit(p, c, n) ==
  /\ Bounded(p, <<c.of>>, n) /\ Found(p, c.of.body, n.start, n)
  /\ c.left = <<>> => n.acc = n.start
  /\ c.of.loop_kind = "while" =>
       \A r \in ToSet(c.of.calls) : n.start.written \cap Scannable(p, <<Whole(p[r])>>) \subseteq n.known

Fit(p, c, n) ==
  /\ Shape(c)
  /\ n.acc.written \subseteq n.start.written
  /\ Bounded(p, c.left, n) /\ Found(p, c.left, n.acc, n)
  /\ c.of.kind = "Loop" => LoopFit(p, c, n)
  /\ \A h \in ToSet(c.of.handlers) : Guarded(p, h, n) /\ Found(p, h, n.start, n)

(* What leaving c means for the context q below it *)
Link(p, c, n, q, m) ==
  /\ n.guard \subseteq m.guard \cup Now(p, q, m)
  /\ n.start.written \subseteq m.start.written
  /\ c.of.kind # "Block" \/ c.of.label # "none" => n.start.written \subseteq Now(p, q, m)
  /\ c.of.kind = "Block" =>
       /\ Visit(p)[c.left][n.acc].written \subseteq Now(p, q, m)
       /\ \A h \in ToSet(c.of.handlers) : /\ Visit(p)[h][n.start].written \subseteq Now(p, q, m)
                                          /\ WritesIn(p, h) \subseteq m.start.written
  /\ n.known \subseteq m.known \cup (IF c.of.kind = "Routine" THEN ScansOf(p, c.of.label) ELSE {})

Base(p, c, n) == c.of.kind = "Routine" /\ n.known \subseteq ScansOf(p, c.of.label)

(* c stands on a stack: on a context, or at its bottom *)
On(p, c, n, st, nt) == IF st = <<>> THEN Base(p, c, n) ELSE Link(p, c, n, Head(st), Head(nt))

Stands(p, st, nt, i) ==
  IF i = Len(st) THEN Base(p, st[i], nt[i]) ELSE Link(p, st[i], nt[i], st[i + 1], nt[i + 1])

Good(p, st, nt) ==
  /\ st \in Seq(Context) /\ nt \in Seq(Note) /\ Len(nt) = Len(st)
  /\ \A i \in 1..Len(st) : Fit(p, st[i], nt[i]) /\ Stands(p, st, nt, i)

LEMMA GoodNone == \A p : Good(p, <<>>, <<>>)
BY DEF Good

(* The contexts of a stack behind some of them are a stack. *)
LEMMA GoodFrom ==
  ASSUME NEW p, NEW st, NEW nt, Good(p, st, nt), NEW k \in 1..(Len(st) + 1)
  PROVE  Good(p, SubSeq(st, k, Len(st)), SubSeq(nt, k, Len(st)))
<1> DEFINE L == Len(st)
           s == SubSeq(st, k, L)
           t == SubSeq(nt, k, L)
           K == L + 1 - k
<1>1. st \in Seq(Context) /\ nt \in Seq(Note) /\ Len(nt) = L /\ L \in Nat /\ k \in Nat /\ k > 0 /\ k <= L + 1
  BY DEF Good
<1>2. /\ s \in Seq(Context) /\ t \in Seq(Note) /\ Len(s) = K /\ Len(t) = K
      /\ \A i \in 1..K : s[i] = st[k + i - 1] /\ t[i] = nt[k + i - 1]
  BY <1>1, SeqFrom
<1> HIDE DEF s, t, L
<1>3. ASSUME NEW i \in 1..K PROVE Fit(p, s[i], t[i]) /\ Stands(p, s, t, i)
  <2>1. k + i - 1 \in 1..L /\ s[i] = st[k + i - 1] /\ t[i] = nt[k + i - 1]
    BY <1>1, <1>2
  <2>2. Fit(p, st[k + i - 1], nt[k + i - 1]) /\ Stands(p, st, nt, k + i - 1)
    BY <2>1 DEF Good, L
  <2>3. CASE i = K
    BY <1>1, <1>2, <2>1, <2>2, <2>3 DEF Stands, L
  <2>4. CASE i # K
    <3>1. i \in Int /\ K \in Int /\ 1 <= i /\ i <= K /\ K = L + 1 - k
      BY <1>1
    <3> HIDE DEF K
    <3>2. i + 1 \in 1..K /\ k + i - 1 # L /\ k + (i + 1) - 1 = k + i - 1 + 1
      BY <1>1, <2>4, <3>1
    <3>3. s[i + 1] = st[k + i - 1 + 1] /\ t[i + 1] = nt[k + i - 1 + 1]
      BY <1>2, <3>2 DEF K
    <3>4. Len(s) = K /\ Len(st) = L
      BY <1>2 DEF K, L
    <3> QED BY <2>1, <2>2, <2>4, <3>2, <3>3, <3>4 DEF Stands
  <2> QED BY <2>2, <2>3, <2>4, <2>1
<1> QED BY <1>2, <1>3 DEF Good, s, t, L

LEMMA GoodTop ==
  ASSUME NEW p, NEW st, NEW nt, Good(p, st, nt), st # <<>>
  PROVE  /\ nt # <<>> /\ Head(st) \in Context /\ Head(nt) \in Note
         /\ Tail(st) \in Seq(Context) /\ Tail(nt) \in Seq(Note)
         /\ Fit(p, Head(st), Head(nt)) /\ On(p, Head(st), Head(nt), Tail(st), Tail(nt))
         /\ Good(p, Tail(st), Tail(nt))
<1>1. st \in Seq(Context) /\ nt \in Seq(Note) /\ Len(nt) = Len(st) /\ Len(st) \in Nat \ {0}
  BY DEF Good
<1>2. /\ Head(st) = st[1] /\ Head(nt) = nt[1] /\ Tail(st) = SubSeq(st, 2, Len(st)) /\ Tail(nt) = SubSeq(nt, 2, Len(st))
      /\ nt # <<>>
  BY <1>1
<1>3. Good(p, Tail(st), Tail(nt))
  <2>1. 2 \in 1..(Len(st) + 1)
    BY <1>1
  <2>2. Good(p, SubSeq(st, 2, Len(st)), SubSeq(nt, 2, Len(st)))
    BY <2>1, GoodFrom
  <2> QED BY <1>2, <2>2
<1>4. Fit(p, st[1], nt[1]) /\ Stands(p, st, nt, 1)
  BY <1>1 DEF Good
<1>5. Tail(st) = <<>> <=> 1 = Len(st)
  <2>1. Tail(st) \in Seq(Context) /\ Len(Tail(st)) = Len(st) - 1
    BY <1>1
  <2>2. \A s \in Seq(Context) : s = <<>> <=> Len(s) = 0
    OBVIOUS
  <2>3. Tail(st) = <<>> <=> Len(Tail(st)) = 0
    BY <2>1, <2>2
  <2> QED BY <1>1, <2>1, <2>3
<1>6. Tail(st) # <<>> => Head(Tail(st)) = st[1 + 1] /\ Head(Tail(nt)) = nt[1 + 1]
  <2> SUFFICES ASSUME Tail(st) # <<>> PROVE Head(Tail(st)) = st[1 + 1] /\ Head(Tail(nt)) = nt[1 + 1]
    OBVIOUS
  <2>1. Len(Tail(st)) = Len(st) - 1 /\ Len(Tail(nt)) = Len(st) - 1 /\ Len(st) > 1
    BY <1>1
  <2>2. Tail(st)[1] = st[2] /\ Tail(nt)[1] = nt[2]
    BY <1>1, <2>1
  <2> QED BY <1>1, <2>1, <2>2
<1>7. On(p, st[1], nt[1], Tail(st), Tail(nt))
  BY <1>4, <1>5, <1>6 DEF Stands, On
<1> QED BY <1>1, <1>2, <1>3, <1>4, <1>7

LEMMA GoodPush ==
  ASSUME NEW p, NEW st, NEW nt, Good(p, st, nt), NEW c \in Context, NEW n \in Note,
         Fit(p, c, n), On(p, c, n, st, nt)
  PROVE  Good(p, <<c>> \o st, <<n>> \o nt)
<1> DEFINE s == <<c>> \o st
           t == <<n>> \o nt
<1>1. st \in Seq(Context) /\ nt \in Seq(Note) /\ Len(nt) = Len(st) /\ Len(st) \in Nat
  BY DEF Good
<1>2. /\ s \in Seq(Context) /\ t \in Seq(Note) /\ Len(s) = Len(st) + 1 /\ Len(t) = Len(st) + 1
      /\ s[1] = c /\ t[1] = n
      /\ \A i \in 1..Len(st) : s[i + 1] = st[i] /\ t[i + 1] = nt[i]
  BY <1>1
<1> HIDE DEF s, t
<1>3. Fit(p, s[1], t[1]) /\ Stands(p, s, t, 1)
  <2>1. CASE st = <<>>
    BY <1>2, <2>1 DEF On, Stands
  <2>2. CASE st # <<>>
    <3>1. s[1 + 1] = Head(st) /\ t[1 + 1] = Head(nt) /\ Len(s) # 1
      BY <1>1, <1>2, <2>2
    <3> QED BY <1>2, <2>2, <3>1 DEF On, Stands
  <2> QED BY <2>1, <2>2
<1>4. ASSUME NEW i \in 1..Len(st) PROVE Fit(p, s[i + 1], t[i + 1]) /\ Stands(p, s, t, i + 1)
  <2>1. Fit(p, st[i], nt[i]) /\ Stands(p, st, nt, i) /\ s[i + 1] = st[i] /\ t[i + 1] = nt[i]
    BY <1>2 DEF Good
  <2>2. CASE i = Len(st)
    BY <1>2, <2>1, <2>2 DEF Stands
  <2>3. CASE i # Len(st)
    <3>1. i + 1 \in 1..Len(st) /\ i + 1 # Len(s)
      BY <1>1, <1>2, <2>3
    <3>2. s[i + 1 + 1] = st[i + 1] /\ t[i + 1 + 1] = nt[i + 1]
      BY <1>2, <3>1
    <3> QED BY <2>1, <2>3, <3>1, <3>2 DEF Stands
  <2> QED BY <2>1, <2>2, <2>3
<1>5. ASSUME NEW i \in 1..Len(s) PROVE Fit(p, s[i], t[i]) /\ Stands(p, s, t, i)
  <2>1. CASE i = 1
    BY <1>3, <2>1
  <2>2. CASE i # 1
    <3>1. i - 1 \in 1..Len(st) /\ (i - 1) + 1 = i
      BY <1>1, <1>2, <2>2
    <3> QED BY <1>4, <3>1
  <2> QED BY <2>1, <2>2
<1> QED BY <1>2, <1>5 DEF Good, s, t

----------------------------------------------------------------------------
(* What the notes say of a context holds of the statement it is at.        *)

LEMMA BoundedMore ==
  ASSUME NEW p, IsProgram(p), NEW ss \in Code, NEW tt \in Code, ToSet(Walk[ss]) \subseteq ToSet(Walk[tt]), NEW n
  PROVE  (Guarded(p, tt, n) => Guarded(p, ss, n)) /\ (Bounded(p, tt, n) => Bounded(p, ss, n))
<1>1. WritesIn(p, ss) \subseteq WritesIn(p, tt) /\ Scannable(p, ss) \subseteq Scannable(p, tt)
  BY WritesMore
<1> QED BY <1>1 DEF Guarded, Bounded, CoveredCode

LEMMA NoteType ==
  ASSUME NEW n \in Note
  PROVE  /\ n.acc \in Accs /\ n.start \in Accs /\ n.guard \subseteq Tables /\ n.known \subseteq Tables
         /\ n.acc.written \subseteq Tables /\ n.start.written \subseteq Tables
BY DEF Note, Accs

LEMMA HeadFits ==
  ASSUME NEW p, IsProgram(p), NEW c \in Context, NEW n \in Note, Fit(p, c, n), c.left # <<>>
  PROVE  LET s == Head(c.left)
             D == Reaches(p, s, n.acc)
             X == VisitOne(p, Visit(p), s, n.acc)
         IN /\ c.left \in Code /\ s \in Statements /\ CoveredStatement(p, s)
            /\ <<s>> \in Code /\ Bounded(p, <<s>>, n)
            /\ Tail(c.left) \in Code /\ Bounded(p, Tail(c.left), n)
            /\ \A part \in Parts(s) : part \in Code /\ Bounded(p, part, n)
            /\ n.acc.written \cup WritesOfOne(p, s) \subseteq n.start.written
            /\ D \in Accs /\ D.written \subseteq n.start.written
            /\ X \in Accs /\ X.written \subseteq n.start.written /\ X.found \subseteq n.known
            /\ Visit(p)[c.left][n.acc] = Visit(p)[Tail(c.left)][X]
<1> DEFINE s == Head(c.left)
           D == Reaches(p, s, n.acc)
           X == VisitOne(p, Visit(p), s, n.acc)
<1>1. c.left \in Code
  BY DEF Context
<1>2. s \in Statements /\ s \in ToSet(c.left) /\ Tail(c.left) \in Code /\ ToSet(Tail(c.left)) \subseteq ToSet(c.left)
  BY <1>1, CodeParts
<1>3. Bounded(p, c.left, n) /\ Found(p, c.left, n.acc, n) /\ n.acc.written \subseteq n.start.written
  BY DEF Fit
<1>4. n.acc \in Accs
  BY NoteType
<1>5. Tail(c.left) \in Code /\ Bounded(p, Tail(c.left), n)
  BY <1>1, <1>2, <1>3, WalkMore, BoundedMore
<1>6. <<s>> \in Code /\ Bounded(p, <<s>>, n)
  <2>1. <<s>> \in Code /\ ToSet(<<s>>) = {s}
    BY <1>2, EmptySet DEF Code
  <2> QED BY <1>1, <1>2, <1>3, <2>1, WalkMore, BoundedMore
<1>7. \A part \in Parts(s) : part \in Code /\ Bounded(p, part, n)
  BY <1>1, <1>2, <1>3, WalkPart, BoundedMore
<1>8. CoveredStatement(p, s)
  <2>1. s \in ToSet(Walk[c.left])
    BY <1>1, <1>2, WalkIncludes
  <2> QED BY <1>3, <2>1 DEF Bounded, Guarded, CoveredCode
<1>9. WritesOfOne(p, s) \subseteq n.start.written
  <2>1. WritesIn(p, c.left) = UNION {WritesOfOne(p, x) : x \in ToSet(c.left)}
    BY <1>1, WritesParts
  <2> HIDE DEF s
  <2> QED BY <1>2, <1>3, <2>1 DEF Bounded
<1>10. D \in Accs /\ D.written \subseteq n.start.written
  <2>1. D \in Accs
    BY <1>2, <1>4, ReachesDef
  <2>2. D.written = ((n.acc.written \cup Repeats(p, s)) \cup Written(Ran(p, Callees(s)))) \cup s.writes
        /\ Repeats(p, s) \subseteq WritesOfOne(p, s)
    BY <1>2, <1>4, RunWrites
  <2> QED BY <1>3, <1>9, <2>1, <2>2 DEF WritesOfOne
<1>11. X \in Accs
  <2>1. Finds(p, s, n.acc)
    BY <1>2, <1>4, VisitOneFinds
  <2> QED BY <2>1 DEF Finds
<1>12. X.written \subseteq n.start.written
  <2>1. \A part \in Parts(s), a \in Accs : /\ a.found \subseteq Visit(p)[part][a].found
                                          /\ Visit(p)[part][a].written \subseteq a.written \cup WritesIn(p, part)
    BY <1>7, VisitBounds
  <2>2. X.written \subseteq n.acc.written \cup WritesOfOne(p, s)
    BY <1>2, <1>4, <2>1, VisitOneBounds
  <2> QED BY <1>3, <1>9, <2>2
<1>13. Visit(p)[c.left][n.acc] = Visit(p)[Tail(c.left)][X]
  BY <1>1, <1>4, VisitDef
<1>14. X.found \subseteq n.known
  <2> HIDE DEF X
  <2>1. X.found \subseteq Visit(p)[Tail(c.left)][X].found
    BY <1>2, <1>11, VisitBounds
  <2> QED BY <1>3, <1>13, <2>1 DEF Found
<1> QED BY <1>1, <1>2, <1>3, <1>5, <1>6, <1>7, <1>8, <1>9, <1>10, <1>11, <1>12, <1>13, <1>14

(* What is written now is written at `start`, and includes `acc`. *)
LEMMA NowBounds ==
  ASSUME NEW p, IsProgram(p), NEW c \in Context, NEW n \in Note, Fit(p, c, n)
  PROVE  n.acc.written \subseteq Now(p, c, n) /\ Now(p, c, n) \subseteq n.start.written /\ Now(p, c, n) \subseteq Tables
<1>1. n.acc.written \subseteq n.start.written /\ n.start.written \subseteq Tables /\ n.acc \in Accs
  BY NoteType DEF Fit
<1>2. CASE c.left = <<>> \/ c.calls = CallsBefore(c.of, c.left)
  BY <1>1, <1>2 DEF Now
<1>3. CASE ~ (c.left = <<>> \/ c.calls = CallsBefore(c.of, c.left))
  <2> DEFINE s == Head(c.left)
             N == Run(p, Callees(s), Repeated(p, s, n.acc)).written
  <2>1. s \in Statements /\ n.acc.written \cup WritesOfOne(p, s) \subseteq n.start.written
    BY <1>3, HeadFits
  <2>2. N = (n.acc.written \cup Repeats(p, s)) \cup Written(Ran(p, Callees(s))) /\ Repeats(p, s) \subseteq WritesOfOne(p, s)
    BY <1>1, <2>1, RunWrites
  <2>3. N = Now(p, c, n)
    BY <1>3 DEF Now
  <2> HIDE DEF N
  <2> QED BY <1>1, <2>1, <2>2, <2>3 DEF WritesOfOne
<1> QED BY <1>2, <1>3

(* What one link says holds all the way down *)
LEMMA Chain ==
  ASSUME NEW p, IsProgram(p), NEW st, NEW nt, Good(p, st, nt), st # <<>>,
         NEW W, W \subseteq Now(p, Head(st), Head(nt)) \cup Head(nt).guard
  PROVE  \A i \in 1..Len(st) : W \subseteq nt[i].start.written \cup nt[i].guard
<1> DEFINE Holds(i) == W \subseteq nt[i].start.written \cup nt[i].guard
           Fails == {i \in 1..Len(st) : ~ Holds(i)}
<1>1. /\ st \in Seq(Context) /\ nt \in Seq(Note) /\ Len(nt) = Len(st) /\ Len(st) \in Nat /\ 1 \in 1..Len(st)
      /\ \A i \in 1..Len(st) : st[i] \in Context /\ nt[i] \in Note /\ Fit(p, st[i], nt[i]) /\ Stands(p, st, nt, i)
  BY DEF Good
<1>2. Holds(1)
  <2>1. Head(st) = st[1] /\ Head(nt) = nt[1]
    BY <1>1
  <2>2. Now(p, st[1], nt[1]) \subseteq nt[1].start.written
    BY <1>1, NowBounds
  <2> QED BY <2>1, <2>2
<1>3. ASSUME NEW i \in 1..Len(st), i # Len(st), Holds(i) PROVE Holds(i + 1)
  <2>1. i + 1 \in 1..Len(st)
    BY <1>1, <1>3
  <2>2. Link(p, st[i], nt[i], st[i + 1], nt[i + 1])
    BY <1>1, <1>3 DEF Stands
  <2>3. Now(p, st[i + 1], nt[i + 1]) \subseteq nt[i + 1].start.written
    BY <1>1, <2>1, NowBounds
  <2>4. /\ nt[i].guard \subseteq nt[i + 1].guard \cup nt[i + 1].start.written
        /\ nt[i].start.written \subseteq nt[i + 1].start.written
    BY <2>2, <2>3 DEF Link
  <2> QED BY <1>3, <2>4
<1> HIDE DEF Holds
<1>4. ASSUME Fails # {} PROVE FALSE
  <2>1. Fails \subseteq Nat
    BY <1>1
  <2>2. PICK k \in Fails : \A m \in Fails : k <= m
    BY <1>4, <2>1, LeastNatural
  <2>3. k # 1 /\ k \in 1..Len(st)
    BY <1>2, <2>2
  <2>4. k - 1 \in 1..Len(st) /\ k - 1 # Len(st) /\ (k - 1) + 1 = k /\ ~ (k <= k - 1)
    BY <1>1, <2>3
  <2>5. Holds(k - 1)
    BY <2>2, <2>4
  <2>6. Holds(k)
    BY <1>3, <2>4, <2>5
  <2> QED BY <2>2, <2>6
<1> QED BY <1>4 DEF Holds

LEMMA ChainKnown ==
  ASSUME NEW p, NEW st, NEW nt, Good(p, st, nt), st # <<>>, NEW t \in Head(nt).known
  PROVE  \E i \in 1..Len(st) : st[i].of.kind = "Routine" /\ t \in ScansOf(p, st[i].of.label)
<1> DEFINE Holds(i) == t \in nt[i].known
           Fails == {i \in 1..Len(st) : ~ Holds(i)}
<1>1. /\ st \in Seq(Context) /\ nt \in Seq(Note) /\ Len(st) \in Nat /\ 1 \in 1..Len(st) /\ Len(st) \in 1..Len(st)
      /\ \A i \in 1..Len(st) : Stands(p, st, nt, i)
  BY DEF Good
<1>2. Holds(1)
  BY <1>1
<1> SUFFICES ASSUME ~ \E i \in 1..Len(st) : st[i].of.kind = "Routine" /\ t \in ScansOf(p, st[i].of.label) PROVE FALSE
  OBVIOUS
<1>3. ASSUME NEW i \in 1..Len(st), i # Len(st), Holds(i) PROVE Holds(i + 1)
  <2>1. Link(p, st[i], nt[i], st[i + 1], nt[i + 1])
    BY <1>1, <1>3 DEF Stands
  <2> QED BY <1>3, <2>1 DEF Link
<1>4. ~ Holds(Len(st))
  BY <1>1 DEF Stands, Base
<1> HIDE DEF Holds
<1>5. PICK k \in Fails : \A m \in Fails : k <= m
  <2>1. Fails \subseteq Nat /\ Fails # {}
    BY <1>1, <1>4
  <2> QED BY <2>1, LeastNatural
<1>6. k # 1 /\ k \in 1..Len(st)
  BY <1>2, <1>5
<1>7. k - 1 \in 1..Len(st) /\ k - 1 # Len(st) /\ (k - 1) + 1 = k /\ ~ (k <= k - 1)
  BY <1>1, <1>6
<1>8. Holds(k - 1)
  BY <1>5, <1>7
<1>9. Holds(k)
  BY <1>3, <1>7, <1>8
<1> QED BY <1>5, <1>9

----------------------------------------------------------------------------
(* Each step keeps the notes: first the statement that is done ...         *)

LEMMA OnSame ==
  ASSUME NEW p, NEW c, NEW n, NEW st, NEW nt, On(p, c, n, st, nt), NEW b, NEW m,
         b.of = c.of, m.start = n.start, m.guard = n.guard, m.known = n.known,
         c.of.kind = "Block" => Visit(p)[b.left][m.acc].written = Visit(p)[c.left][n.acc].written
  PROVE  On(p, b, m, st, nt)
<1>1. CASE st = <<>>
  BY <1>1 DEF On, Base
<1>2. CASE st # <<>>
  <2>1. Link(p, c, n, Head(st), Head(nt))
    BY <1>2 DEF On
  <2>2. Link(p, b, m, Head(st), Head(nt))
    BY <2>1 DEF Link
  <2> QED BY <1>2, <2>2 DEF On
<1> QED BY <1>1, <1>2

LEMMA SameNote ==
  ASSUME NEW p, NEW n, NEW m, m.guard = n.guard, m.known = n.known
  PROVE  /\ \A ss : Guarded(p, ss, m) = Guarded(p, ss, n)
         /\ \A ss, a : Found(p, ss, a, m) = Found(p, ss, a, n)
         /\ m.start = n.start => \A ss : Bounded(p, ss, m) = Bounded(p, ss, n)
BY DEF Guarded, Found, Bounded

LEMMA PendingAll == \A cs \in Seq(Routines) : Pending(cs, cs) /\ \A all \in Seq(Routines) : Pending(<<>>, all)
<1>1. ASSUME NEW all \in Seq(Routines) PROVE Pending(<<>>, all)
  <2>1. ToSet(<<>>) \subseteq ToSet(all)
    BY EmptySet
  <2>2. <<>> = all \/ Len(<<>>) < Len(all)
    OBVIOUS
  <2> QED BY <2>1, <2>2 DEF Pending
<1> QED BY <1>1 DEF Pending

(* What was found at the start of a loop is known. *)
LEMMA LoopStart ==
  ASSUME NEW p, IsProgram(p), NEW c \in Context, NEW n \in Note, LoopFit(p, c, n)
  PROVE  n.start.found \subseteq n.known
<1>1. c.of.body \in Code /\ n.start \in Accs
  BY PieceType, NoteType DEF Context
<1>2. n.start.found \subseteq Visit(p)[c.of.body][n.start].found
  BY <1>1, VisitBounds
<1> QED BY <1>2 DEF LoopFit, Found

(* The context behind a statement, and its note *)
BehindOf(c)  == At(c.of, Tail(c.left))
NoteBehind(p, c, n) ==
  [n EXCEPT !.acc = IF c.of.kind = "Loop" /\ Tail(c.left) = <<>> THEN n.start
                    ELSE VisitOne(p, Visit(p), Head(c.left), n.acc)]

LEMMA Advance ==
  ASSUME NEW p, IsProgram(p), NEW c \in Context, NEW n \in Note, Fit(p, c, n), c.left # <<>>
  PROVE  LET b == BehindOf(c)
             m == NoteBehind(p, c, n)
         IN /\ b \in Context /\ m \in Note /\ Fit(p, b, m)
            /\ m.start = n.start /\ m.guard = n.guard /\ m.known = n.known
            /\ VisitOne(p, Visit(p), Head(c.left), n.acc).written \subseteq Now(p, b, m)
            /\ c.of.kind = "Block" => Visit(p)[b.left][m.acc] = Visit(p)[c.left][n.acc]
<1> DEFINE b == BehindOf(c)
           m == NoteBehind(p, c, n)
           X == VisitOne(p, Visit(p), Head(c.left), n.acc)
           rest == Tail(c.left)
<1>1. /\ rest \in Code /\ Bounded(p, rest, n)
      /\ X \in Accs /\ X.written \subseteq n.start.written
      /\ Visit(p)[c.left][n.acc] = Visit(p)[rest][X]
  BY HeadFits
<1>2. n.start \in Accs /\ c.of \in Pieces
  BY NoteType DEF Context
<1>3. b \in Context /\ b.of = c.of /\ b.left = rest /\ b.calls = CallsBefore(b.of, b.left) /\ b.calls \in Seq(Routines)
  BY <1>1, <1>2, AtType DEF BehindOf, At
<1> HIDE DEF X
<1>4. /\ m \in Note /\ m.start = n.start /\ m.guard = n.guard /\ m.known = n.known
      /\ m.acc = IF c.of.kind = "Loop" /\ rest = <<>> THEN n.start ELSE X
  BY <1>1, <1>2 DEF NoteBehind, Note, X
<1> HIDE DEF b, m, rest
<1>5. Now(p, b, m) = m.acc.written /\ X.written \subseteq m.acc.written /\ m.acc.written \subseteq m.start.written
  BY <1>1, <1>3, <1>4 DEF Now
<1>6. Shape(b)
  <2>1. Shape(c) /\ Pending(b.calls, CallsBefore(b.of, b.left))
    BY <1>3, PendingAll DEF Fit
  <2> QED BY <1>3, <2>1 DEF Shape
<1>7. Found(p, b.left, m.acc, m)
  <2>1. CASE c.of.kind = "Loop" /\ rest = <<>>
    <3>1. n.start.found \subseteq n.known
      BY <2>1, LoopStart DEF Fit
    <3>2. Visit(p)[<<>>][n.start] = n.start
      BY <1>2, VisitDef
    <3> QED BY <1>3, <1>4, <2>1, <3>1, <3>2 DEF Found
  <2>2. CASE ~ (c.of.kind = "Loop" /\ rest = <<>>)
    <3>1. m.acc = X
      BY <1>4, <2>2
    <3> QED BY <1>1, <1>3, <1>4, <3>1 DEF Fit, Found
  <2> QED BY <2>1, <2>2
<1>8. c.of.kind = "Loop" => LoopFit(p, b, m)
  <2>1. /\ Bounded(p, <<c.of>>, m) = Bounded(p, <<c.of>>, n)
        /\ Found(p, c.of.body, n.start, m) = Found(p, c.of.body, n.start, n)
    BY <1>4, SameNote
  <2>2. c.of.kind = "Loop" => (b.left = <<>> => m.acc = m.start)
    BY <1>3, <1>4
  <2> QED BY <1>3, <1>4, <2>1, <2>2 DEF Fit, LoopFit
<1>9. Fit(p, b, m)
  <2>1. \A h \in ToSet(b.of.handlers) : Guarded(p, h, m) /\ Found(p, h, m.start, m)
    BY <1>3, <1>4, SameNote DEF Fit
  <2>2. Bounded(p, b.left, m)
    BY <1>1, <1>3, <1>4, SameNote
  <2>3. b.of.kind = "Loop" => LoopFit(p, b, m)
    BY <1>3, <1>8
  <2> QED BY <1>5, <1>6, <1>7, <2>1, <2>2, <2>3 DEF Fit
<1>10. c.of.kind = "Block" => Visit(p)[b.left][m.acc] = Visit(p)[c.left][n.acc]
  BY <1>1, <1>3, <1>4
<1> QED BY <1>3, <1>4, <1>5, <1>9, <1>10 DEF b, m, X

(* ... then a call: the caller's writes guard the routine called, ...      *)
Called(p, c, n, r, b) ==
  /\ b \in Context /\ b.of = c.of /\ b.left = c.left /\ Fit(p, b, n)
  /\ r \in Routines
  /\ Now(p, c, n) \subseteq Now(p, b, n)
  /\ WritesIn(p, <<Whole(p[r])>>) \subseteq Now(p, b, n)
  /\ (n.guard \cup Now(p, c, n)) \cap Scannable(p, <<Whole(p[r])>>) \subseteq n.known

LEMMA CallFits ==
  ASSUME NEW p, IsProgram(p), NEW c \in Context, NEW n \in Note, Fit(p, c, n), c.calls # <<>>
  PROVE  Called(p, c, n, Head(c.calls), [c EXCEPT !.calls = Tail(@)])
<1> DEFINE r == Head(c.calls)
           b == [c EXCEPT !.calls = Tail(@)]
           all == CallsBefore(c.of, c.left)
<1>1. c.of \in Pieces /\ c.left \in Code /\ c.calls \in Seq(Routines) /\ all \in Seq(Routines)
  BY AtType DEF Context
<1>2. /\ r \in Routines /\ r \in ToSet(c.calls) /\ Tail(c.calls) \in Seq(Routines)
      /\ ToSet(Tail(c.calls)) \subseteq ToSet(c.calls)
      /\ Len(Tail(c.calls)) < Len(c.calls) /\ Len(Tail(c.calls)) \in Nat /\ Len(c.calls) \in Nat \ {0}
  <2> DEFINE cs == c.calls
  <2>1. cs \in Seq(Routines) /\ cs # <<>>
    BY <1>1
  <2> HIDE DEF cs
  <2>2. /\ Head(cs) \in Routines /\ Head(cs) \in ToSet(cs) /\ Tail(cs) \in Seq(Routines)
        /\ ToSet(cs) = {Head(cs)} \cup ToSet(Tail(cs))
        /\ Len(Tail(cs)) < Len(cs) /\ Len(Tail(cs)) \in Nat
    BY <2>1, SeqParts
  <2>3. Len(cs) \in Nat \ {0}
    BY <2>1
  <2> QED BY <2>2, <2>3 DEF cs
<1>3. b \in Context /\ b.of = c.of /\ b.left = c.left /\ b.calls = Tail(c.calls)
  BY <1>1, <1>2 DEF Context
<1>4. Pending(c.calls, all)
  BY DEF Fit, Shape
<1> HIDE DEF b, all
<1>5. Pending(b.calls, all) /\ b.calls # all /\ Len(all) \in Nat
  BY <1>1, <1>2, <1>3, <1>4 DEF Pending
<1>6. Shape(b)
  BY <1>3, <1>5 DEF Fit, Shape, all
<1>7. Fit(p, b, n)
  BY <1>3, <1>6 DEF Fit, LoopFit
<1>8. r \in ToSet(all)
  BY <1>2, <1>4 DEF Pending
<1>9. n.acc \in Accs
  BY NoteType
<1>10. CASE c.left # <<>>
  <2> DEFINE s == Head(c.left)
             D == Reaches(p, s, n.acc)
             ran == Ran(p, Callees(s))
             B == n.acc.written \cup Repeats(p, s)
             w == <<Whole(p[r])>>
  <2>1. /\ s \in Statements /\ CoveredStatement(p, s) /\ <<s>> \in Code /\ Bounded(p, <<s>>, n)
        /\ VisitOne(p, Visit(p), s, n.acc).found \subseteq n.known
    BY <1>10, HeadFits
  <2>2. all = s.calls
    <3>1. s.declares = <<>> /\ s.calls \in Seq(Routines)
      BY <2>1, StatementsAssumption DEF CoveredStatement, IsStatement
    <3>2. all = s.calls \o s.declares
      BY <1>10 DEF all, CallsBefore
    <3> HIDE DEF s
    <3> QED BY <3>1, <3>2
  <2>3. /\ WritesIn(p, w) \subseteq Written(ran) /\ Scannable(p, w) \subseteq Scannable(p, <<s>>)
        /\ B \cap Scannable(p, w) \subseteq D.found
        /\ Unordered(ran) => Written(ran) \cap Scannable(p, w) \subseteq D.found
    BY <1>8, <1>9, <2>1, <2>2, CalledScans DEF Unordered
  <2>4. D.found \subseteq n.known
    <3>1. Finds(p, s, n.acc)
      BY <1>9, <2>1, VisitOneFinds
    <3>2. ~ EndsTransaction(s)
      <4>1. s.calls # <<>>
        BY <1>8, <2>2, EmptySet
      <4> QED BY <2>1, <4>1, StatementsAssumption DEF IsStatement, EndsTransaction
    <3> QED BY <2>1, <3>1, <3>2 DEF Finds
  <2>5. Now(p, b, n) = B \cup Written(ran)
    <3>1. Run(p, Callees(s), Repeated(p, s, n.acc)).written = B \cup Written(ran)
      BY <1>9, <2>1, RunWrites
    <3>2. ~ (b.left = <<>> \/ b.calls = CallsBefore(b.of, b.left)) /\ Head(b.left) = s
      BY <1>3, <1>5, <1>10 DEF all
    <3> QED BY <3>1, <3>2 DEF Now
  <2>6. /\ Now(p, c, n) \subseteq B \cup Written(ran)
        /\ Now(p, c, n) \cap Scannable(p, w) \subseteq n.known
    <3>1. CASE c.calls = all
      <4>1. Now(p, c, n) = n.acc.written
        BY <3>1 DEF Now, all
      <4> HIDE DEF D
      <4> QED BY <2>3, <2>4, <4>1
    <3>2. CASE c.calls # all
      <4>1. Now(p, c, n) = B \cup Written(ran)
        <5>1. Run(p, Callees(s), Repeated(p, s, n.acc)).written = B \cup Written(ran)
          BY <1>9, <2>1, RunWrites
        <5> QED BY <1>10, <3>2, <5>1 DEF Now, all
      <4>2. Len(s.calls) > 1
        BY <1>2, <1>4, <1>5, <2>2, <3>2 DEF Pending
      <4>3. Unordered(ran)
        BY <2>1, <4>2 DEF CoveredStatement, InAnyOrder
      <4> HIDE DEF D, ran, B
      <4> QED BY <2>3, <2>4, <4>1, <4>3
    <3> QED BY <3>1, <3>2
  <2>7. n.guard \cap Scannable(p, w) \subseteq n.known
    BY <2>1, <2>3 DEF Bounded, Guarded
  <2> HIDE DEF B, ran
  <2> QED BY <1>2, <1>3, <1>7, <2>3, <2>5, <2>6, <2>7 DEF Called, b
<1>11. CASE c.left = <<>>
  <2> DEFINE s == c.of
             w == <<Whole(p[r])>>
  <2>1. s.loop_kind = "while" /\ all = s.calls
    <3>1. all # <<>>
      BY <1>8, EmptySet
    <3> QED BY <1>11, <3>1 DEF all, CallsBefore
  <2>2. s.kind = "Loop" /\ s \in Statements
    BY <2>1 DEF Fit, Shape
  <2>3. LoopFit(p, c, n)
    BY <2>2 DEF Fit
  <2>4. WritesIn(p, w) \subseteq Written(Ran(p, Callees(s))) /\ Scannable(p, w) \subseteq Scannable(p, <<s>>)
    BY <1>8, <1>9, <2>1, <2>2, CalledScans
  <2>5. Written(Ran(p, Callees(s))) \subseteq n.start.written
    <3>1. <<s>> \in Code /\ ToSet(<<s>>) = {s}
      BY <2>2, EmptySet DEF Code
    <3>2. WritesIn(p, <<s>>) = WritesOfOne(p, s)
      <4>1. WritesIn(p, <<s>>) = UNION {WritesOfOne(p, x) : x \in {s}}
        BY <3>1, WritesParts
      <4> HIDE DEF s
      <4> QED BY <4>1
    <3> QED BY <2>3, <3>2 DEF LoopFit, Bounded, WritesOfOne
  <2>6. Now(p, c, n) = n.start.written /\ Now(p, b, n) = n.start.written
    BY <1>3, <1>11, <2>3 DEF Now, LoopFit
  <2>7. n.guard \cap Scannable(p, w) \subseteq n.known
    BY <2>3, <2>4 DEF LoopFit, Bounded, Guarded
  <2>8. n.start.written \cap Scannable(p, w) \subseteq n.known
    BY <1>8, <2>1, <2>3 DEF LoopFit
  <2> QED BY <1>2, <1>3, <1>7, <2>4, <2>5, <2>6, <2>7, <2>8 DEF Called, b
<1> QED BY <1>10, <1>11

(* ... which starts with nothing seen.                                     *)
Started(p, r, w, guard, known) ==
  [acc |-> Nothing, start |-> [written |-> w, found |-> {}], guard |-> guard, known |-> known \cup ScansOf(p, r)]

LEMMA FrameFits ==
  ASSUME NEW p, IsProgram(p), NEW r \in Routines, Covered(p, r),
         NEW w, NEW guard, NEW known, w \subseteq Tables, guard \subseteq Tables, known \subseteq Tables,
         WritesIn(p, <<Whole(p[r])>>) \subseteq w, guard \cap Scannable(p, <<Whole(p[r])>>) \subseteq known
  PROVE  LET c == At(Body(r), <<Whole(p[r])>>)
             n == Started(p, r, w, guard, known)
         IN /\ c \in Context /\ n \in Note /\ Fit(p, c, n)
            /\ c.of.kind = "Routine" /\ c.of.label = r /\ Now(p, c, n) = {}
<1> DEFINE whole == <<Whole(p[r])>>
           c == At(Body(r), whole)
           n == Started(p, r, w, guard, known)
<1>1. whole \in Code /\ ToSet(Walk[whole]) = {Whole(p[r])} \cup ToSet(Everything(p[r]))
  BY WholeDef
<1>2. Body(r) \in Pieces
  BY DEF Pieces
<1>3. Body(r).kind = "Routine" /\ Body(r).label = r /\ Body(r).handlers = <<>> /\ Body(r).loop_kind = "basic"
  BY DEF Body, Plain
<1> HIDE DEF whole
<1>4. c \in Context /\ c.of = Body(r) /\ c.left = whole /\ c.calls = CallsBefore(c.of, c.left) /\ c.calls \in Seq(Routines)
  BY <1>1, <1>2, AtType DEF At
<1>5. ScansOf(p, r) \subseteq Tables /\ ScansOf(p, r) = Visit(p)[whole][Nothing].found
  BY ScansOfDef DEF Covered, whole
<1>6. n \in Note /\ n.acc = Nothing /\ n.start.written = w /\ n.guard = guard /\ n.known = known \cup ScansOf(p, r)
  BY <1>5 DEF Started, Note, Accs, Nothing
<1>7. Nothing.written = {}
  BY DEF Nothing
<1> HIDE DEF c, n
<1>8. Shape(c)
  <2>1. Pending(c.calls, CallsBefore(c.of, c.left))
    BY <1>4, PendingAll
  <2> QED BY <1>3, <1>4, <2>1 DEF Shape
<1>9. Bounded(p, whole, n)
  BY <1>1, <1>6 DEF Bounded, Guarded, CoveredCode, Covered, whole
<1>10. Found(p, whole, Nothing, n)
  BY <1>5, <1>6 DEF Found
<1>11. Fit(p, c, n)
  BY <1>3, <1>4, <1>6, <1>7, <1>8, <1>9, <1>10, EmptySet DEF Fit
<1>12. Now(p, c, n) = {}
  BY <1>4, <1>6, <1>7 DEF Now
<1> QED BY <1>3, <1>4, <1>6, <1>11, <1>12 DEF c, n, whole

(* What is entered at a statement stands on the context behind it.         *)
Stacked(p, c2, n2, b, m) == c2 \in Context /\ n2 \in Note /\ Fit(p, c2, n2) /\ Link(p, c2, n2, b, m)

(* The context behind, as far as the one in front is concerned *)
IsBehind(p, c, n, b, m) ==
  /\ m.start = n.start /\ m.guard = n.guard /\ m.known = n.known
  /\ VisitOne(p, Visit(p), Head(c.left), n.acc).written \subseteq Now(p, b, m)

LEMMA NowReaches ==
  ASSUME NEW p, IsProgram(p), NEW c \in Context, NEW n \in Note, Fit(p, c, n), c.left # <<>>
  PROVE  /\ Now(p, c, n) \subseteq Reaches(p, Head(c.left), n.acc).written
         /\ Head(c.left).calls = <<>> => Now(p, c, n) = n.acc.written
<1> DEFINE s == Head(c.left)
           N == Run(p, Callees(s), Repeated(p, s, n.acc)).written
           D == Reaches(p, s, n.acc)
<1>1. s \in Statements /\ CoveredStatement(p, s)
  BY HeadFits
<1>2. N \subseteq D.written /\ n.acc.written \subseteq D.written
  BY <1>1, NoteType, RunWrites
<1>3. Now(p, c, n) = n.acc.written \/ Now(p, c, n) = N
  BY DEF Now
<1>4. s.calls = <<>> => CallsBefore(c.of, c.left) = <<>>
  <2>1. s.declares = <<>>
    BY <1>1 DEF CoveredStatement
  <2> QED BY <2>1 DEF CallsBefore
<1>5. CallsBefore(c.of, c.left) = <<>> => c.calls = <<>>
  <2> SUFFICES ASSUME CallsBefore(c.of, c.left) = <<>> PROVE c.calls = <<>>
    OBVIOUS
  <2>1. ToSet(c.calls) \subseteq ToSet(<<>>)
    BY DEF Fit, Shape, Pending
  <2>2. ToSet(c.calls) = {} /\ c.calls \in Seq(Routines)
    BY <2>1, EmptySet DEF Context
  <2> QED BY <2>2, SeqMembers
<1>6. s.calls = <<>> => Now(p, c, n) = n.acc.written
  BY <1>4, <1>5 DEF Now
<1> HIDE DEF N, D
<1> QED BY <1>2, <1>3, <1>6 DEF D

LEMMA ChooseFits ==
  ASSUME NEW p, IsProgram(p), NEW c \in Context, NEW n \in Note, Fit(p, c, n), c.left # <<>>,
         NEW b, NEW m, IsBehind(p, c, n, b, m),
         Head(c.left).kind = "If", NEW branch \in ToSet(Head(c.left).branches) \cup {Head(c.left).orElse}
  PROVE  \E n2 : Stacked(p, At(Block(branch), branch), n2, b, m) /\ n2.guard = n.guard /\ Now(p, c, n) \subseteq Now(p, At(Block(branch), branch), n2)
<1> DEFINE s == Head(c.left)
           D == Reaches(p, s, n.acc)
           X == VisitOne(p, Visit(p), s, n.acc)
           c2 == At(Block(branch), branch)
           n2 == [n EXCEPT !.acc = D, !.start = [written |-> D.written \cup WritesIn(p, branch), found |-> {}]]
<1>1. /\ s \in Statements /\ \A part \in Parts(s) : part \in Code /\ Bounded(p, part, n)
      /\ D \in Accs /\ D.written \subseteq n.start.written
      /\ X.found \subseteq n.known
  BY HeadFits
<1>2. branch \in Parts(s)
  BY DEF Parts
<1>3. branch \in Code /\ Bounded(p, branch, n)
  BY <1>1, <1>2
<1>4. Within(Visit(p)[branch][D], X)
  <2>1. Finds(p, s, n.acc)
    BY <1>1, NoteType, VisitOneFinds
  <2> QED BY <2>1 DEF Finds
<1>5. X.written \subseteq Now(p, b, m)
  BY DEF IsBehind
<1>6. Block(branch).kind = "Block" /\ Block(branch).label = "none" /\ Block(branch).handlers = <<>>
      /\ Block(branch).loop_kind = "basic" /\ Block(branch) \in Pieces
  BY <1>3 DEF Block, Plain, Pieces
<1>7. c2 \in Context /\ c2.of = Block(branch) /\ c2.left = branch
      /\ c2.calls = CallsBefore(c2.of, c2.left) /\ c2.calls \in Seq(Routines)
  BY <1>3, <1>6, AtType DEF At
<1>8. Now(p, c, n) \subseteq D.written
  BY NowReaches
<1> HIDE DEF s, X
<1>9. WritesIn(p, branch) \subseteq n.start.written /\ n.start.written \subseteq Tables
  BY <1>3, NoteType DEF Bounded
<1> HIDE DEF D
<1>10. /\ n2 \in Note /\ n2.acc = D /\ n2.start.written = D.written \cup WritesIn(p, branch)
       /\ n2.guard = n.guard /\ n2.known = n.known
  BY <1>1, <1>9 DEF Note, Accs
<1> HIDE DEF n2, c2
<1>11. Shape(c2)
  BY <1>6, <1>7, PendingAll DEF Shape
<1>12. Bounded(p, branch, n2)
  <2>1. Guarded(p, branch, n2) = Guarded(p, branch, n)
    BY <1>10, SameNote
  <2> QED BY <1>3, <1>10, <2>1 DEF Bounded
<1>13. Found(p, branch, D, n2)
  BY <1>1, <1>4, <1>10 DEF Found, Within
<1>14. Fit(p, c2, n2)
  BY <1>6, <1>7, <1>10, <1>11, <1>12, <1>13, EmptySet DEF Fit
<1>15. Link(p, c2, n2, b, m)
  <2>1. n2.start.written \subseteq m.start.written
    BY <1>1, <1>9, <1>10 DEF IsBehind
  <2>2. Visit(p)[c2.left][n2.acc].written \subseteq Now(p, b, m)
    BY <1>4, <1>5, <1>7, <1>10 DEF Within
  <2> QED BY <1>6, <1>7, <1>10, <2>1, <2>2, EmptySet DEF Link, IsBehind
<1>16. Now(p, c2, n2) = D.written
  BY <1>7, <1>10 DEF Now
<1> QED BY <1>7, <1>8, <1>10, <1>14, <1>15, <1>16 DEF Stacked, c2

LEMMA OpenFits ==
  ASSUME NEW p, IsProgram(p), NEW c \in Context, NEW n \in Note, Fit(p, c, n), c.left # <<>>,
         NEW b, NEW m, IsBehind(p, c, n, b, m), Head(c.left).kind = "Loop"
  PROVE  LET c2 == [of |-> Head(c.left), left |-> Head(c.left).query, calls |-> <<>>]
         IN \E n2 : Stacked(p, c2, n2, b, m) /\ n2.guard = n.guard /\ Now(p, c, n) \subseteq Now(p, c2, n2)
<1> DEFINE s == Head(c.left)
           D == Reaches(p, s, n.acc)
           X == VisitOne(p, Visit(p), s, n.acc)
           c2 == [of |-> s, left |-> s.query, calls |-> <<>>]
           n2 == [n EXCEPT !.start = D, !.acc = IF s.query = <<>> THEN D ELSE n.acc]
<1>1. /\ s \in Statements /\ \A part \in Parts(s) : part \in Code /\ Bounded(p, part, n)
      /\ D \in Accs /\ D.written \subseteq n.start.written
      /\ X.found \subseteq n.known
      /\ CoveredStatement(p, s) /\ <<s>> \in Code /\ Bounded(p, <<s>>, n)
  BY HeadFits
<1>2. s.query \in Parts(s) /\ s.body \in Parts(s)
  BY DEF Parts
<1>3. s.query \in Code /\ Bounded(p, s.query, n)
  BY <1>1, <1>2
<1>4. n.acc \in Accs
  BY NoteType
<1>5. Within(Visit(p)[s.body][D], X) /\ Within(D, X)
  <2>1. Finds(p, s, n.acc)
    BY <1>1, <1>4, VisitOneFinds
  <2> QED BY <2>1 DEF Finds
<1>6. X.written \subseteq Now(p, b, m)
  BY DEF IsBehind
<1>7. /\ s.kind = "Loop" /\ s.handlers = <<>> /\ s.writes = {} /\ s.branches = <<>> /\ s.orElse = <<>>
      /\ s.loop_kind # "while" \/ s.query = <<>> \/ s.calls = <<>>
  BY <1>1, StatementsAssumption DEF IsStatement
<1>8. /\ n.acc.written \subseteq D.written
      /\ D.written = ((n.acc.written \cup Repeats(p, s)) \cup Written(Ran(p, Callees(s)))) \cup s.writes
  BY <1>1, <1>4, RunWrites
<1>9. WritesIn(p, s.query) = {} /\ WritesIn(p, <<>>) = {}
  BY <1>1, WritesNothing
<1>10. WritesIn(p, <<s>>) \subseteq D.written
  <2>1. ToSet(<<s>>) = {s}
    BY EmptySet
  <2>2. WritesIn(p, <<s>>) = UNION {WritesOfOne(p, x) : x \in ToSet(<<s>>)}
    BY <1>1, WritesParts
  <2>3. Parts(s) \subseteq {<<>>, s.body, s.query}
    BY <1>7, EmptySet DEF Parts
  <2>4. UNION {WritesIn(p, part) : part \in Parts(s)} \subseteq Repeats(p, s)
    BY <1>7, <1>9, <2>3 DEF Repeats
  <2> HIDE DEF s, D
  <2> QED BY <1>7, <1>8, <2>1, <2>2, <2>4 DEF WritesOfOne
<1>11. s.query # <<>> => Visit(p)[s.query][n.acc].found \subseteq D.found
  BY <1>1, <1>4, QueryFound
<1>12. s.loop_kind = "while" => \A r \in ToSet(s.calls) : D.written \cap Scannable(p, <<Whole(p[r])>>) \subseteq D.found
  <2> SUFFICES ASSUME s.loop_kind = "while", NEW r \in ToSet(s.calls)
               PROVE  D.written \cap Scannable(p, <<Whole(p[r])>>) \subseteq D.found
    OBVIOUS
  <2> DEFINE ran == Ran(p, Callees(s))
             B == n.acc.written \cup Repeats(p, s)
             scanned == Scannable(p, <<Whole(p[r])>>)
  <2>1. s.calls # <<>>
    BY EmptySet
  <2>2. Unordered(ran)
    BY <1>1, <2>1 DEF CoveredStatement, InAnyOrder
  <2>3. B \cap scanned \subseteq D.found /\ (Unordered(ran) => Written(ran) \cap scanned \subseteq D.found)
    BY <1>1, <1>4, CalledScans DEF Unordered
  <2> HIDE DEF B, ran, scanned
  <2>4. D.written = (B \cup Written(ran)) \cup {}
    BY <1>7, <1>8 DEF B, ran
  <2>5. D.written \cap scanned \subseteq D.found
    <3> HIDE DEF D
    <3> QED BY <2>2, <2>3, <2>4
  <2> QED BY <2>5 DEF scanned
<1>13. s \in Pieces
  BY <1>1 DEF Pieces
<1>25. /\ Now(p, c, n) \subseteq D.written /\ (s.calls = <<>> => Now(p, c, n) = n.acc.written)
       /\ s.query # <<>> => s.calls = <<>>
  BY <1>1, NowReaches, StatementsAssumption DEF IsStatement
<1>26. s.query # <<>> => CallsBefore(s, s.query) = <<>>
  <2> SUFFICES ASSUME s.query # <<>> PROVE CallsBefore(s, s.query) = <<>>
    OBVIOUS
  <2>1. Head(s.query) \in Statements /\ Head(s.query) \in ToSet(s.query)
    BY <1>3, CodeParts
  <2>2. Head(s.query).kind = "Sql"
    BY <1>1, <2>1, StatementsAssumption DEF IsStatement
  <2>3. Head(s.query).calls = <<>> /\ Head(s.query).declares = <<>>
    BY <2>1, <2>2, StatementsAssumption DEF IsStatement
  <2> QED BY <2>3 DEF CallsBefore
<1> HIDE DEF X, D, s
<1>14. D.found \subseteq n.known /\ Visit(p)[s.body][D].found \subseteq n.known
  BY <1>1, <1>5 DEF Within
<1>15. c2 \in Context /\ c2.of = s /\ c2.left = s.query /\ c2.calls = <<>>
  BY <1>3, <1>13 DEF Context
<1>16. /\ n2 \in Note /\ n2.start = D /\ n2.acc = (IF s.query = <<>> THEN D ELSE n.acc)
       /\ n2.guard = n.guard /\ n2.known = n.known
  BY <1>1, <1>4 DEF Note
<1> HIDE DEF n2, c2
<1>17. Shape(c2)
  <2>1. CallsBefore(c2.of, c2.left) \in Seq(Routines)
    BY <1>3, <1>13, <1>15, AtType
  <2>2. Pending(c2.calls, CallsBefore(c2.of, c2.left))
    BY <1>15, <2>1, PendingAll
  <2> QED BY <1>1, <1>7, <1>15, <2>2 DEF Shape
<1>18. \A ss : Guarded(p, ss, n2) = Guarded(p, ss, n)
  BY <1>16, SameNote
<1>19. Bounded(p, s.query, n2)
  BY <1>3, <1>9, <1>18 DEF Bounded
<1>20. Found(p, s.query, n2.acc, n2)
  <2>1. CASE s.query = <<>>
    <3>1. Visit(p)[<<>>][D] = D
      BY <1>1, VisitDef
    <3> QED BY <1>14, <1>16, <2>1, <3>1 DEF Found
  <2>2. CASE s.query # <<>>
    BY <1>11, <1>14, <1>16, <2>2 DEF Found
  <2> QED BY <2>1, <2>2
<1>21. LoopFit(p, c2, n2)
  <2>1. Bounded(p, <<s>>, n2)
    BY <1>1, <1>10, <1>16, <1>18 DEF Bounded
  <2>2. Found(p, s.body, n2.start, n2)
    BY <1>14, <1>16 DEF Found
  <2>3. c2.left = <<>> => n2.acc = n2.start
    BY <1>15, <1>16
  <2>4. s.loop_kind = "while" => \A r \in ToSet(s.calls) : n2.start.written \cap Scannable(p, <<Whole(p[r])>>) \subseteq n2.known
    BY <1>12, <1>14, <1>16
  <2> QED BY <1>15, <2>1, <2>2, <2>3, <2>4 DEF LoopFit
<1>22. n2.acc.written \subseteq n2.start.written /\ n.acc.written \subseteq n2.acc.written
  BY <1>8, <1>16
<1>23. Fit(p, c2, n2)
  BY <1>7, <1>15, <1>17, <1>19, <1>20, <1>21, <1>22, EmptySet DEF Fit
<1>24. Link(p, c2, n2, b, m)
  <2>1. D.written \subseteq Now(p, b, m) /\ D.written \subseteq m.start.written
    BY <1>1, <1>5, <1>6 DEF Within, IsBehind
  <2> QED BY <1>7, <1>15, <1>16, <2>1 DEF Link, IsBehind
<1>27. Now(p, c, n) \subseteq Now(p, c2, n2)
  <2>1. Now(p, c2, n2) = n2.acc.written
    BY <1>15, <1>26 DEF Now
  <2> QED BY <1>16, <1>25, <2>1
<1> QED BY <1>15, <1>16, <1>23, <1>24, <1>27 DEF Stacked, c2, s

LEMMA EnterFits ==
  ASSUME NEW p, IsProgram(p), NEW c \in Context, NEW n \in Note, Fit(p, c, n), c.left # <<>>,
         NEW b, NEW m, IsBehind(p, c, n, b, m), Head(c.left).kind = "Block"
  PROVE  LET c2 == At(Head(c.left), Head(c.left).body)
         IN \E n2 : Stacked(p, c2, n2, b, m) /\ n2.guard = n.guard /\ Now(p, c, n) \subseteq Now(p, c2, n2)
<1> DEFINE s == Head(c.left)
           V == Visit(p)
           D == Reaches(p, s, n.acc)
           X == VisitOne(p, V, s, n.acc)
           E == V[s.body][D]
           I == Interrupted(p, s, D, E)
           c2 == At(s, s.body)
           n2 == [n EXCEPT !.acc = D, !.start = I]
<1>1. /\ s \in Statements /\ CoveredStatement(p, s) /\ \A part \in Parts(s) : part \in Code /\ Bounded(p, part, n)
      /\ D \in Accs /\ D.written \subseteq n.start.written
      /\ X \in Accs /\ X.written \subseteq n.start.written /\ X.found \subseteq n.known
  BY HeadFits
<1>2. s.body \in Parts(s) /\ \A h \in ToSet(s.handlers) : h \in Parts(s)
  BY DEF Parts
<1>3. n.acc \in Accs
  BY NoteType
<1>4. Within(E, X) /\ \A h \in ToSet(s.handlers) : Within(V[h][I], X)
  <2>1. Finds(p, s, n.acc)
    BY <1>1, <1>3, VisitOneFinds
  <2> QED BY <2>1 DEF Finds
<1>5. E \in Accs /\ I \in Accs
  <2>1. Kinds(p, s, n.acc)
    BY <1>1, <1>3, VisitOneKinds
  <2>2. V[s.body][D] \in Accs /\ Interrupted(p, s, D, V[s.body][D]) \in Accs
    <3> HIDE DEF s
    <3> QED BY <2>1 DEF Kinds
  <2> HIDE DEF s, D, V
  <2> QED BY <2>2
<1>6. I.written = E.written \cup D.written \cup WritesIn(p, s.body)
  <2> HIDE DEF E, D
  <2> QED BY <1>5 DEF Interrupted, I, Accs
<1>7. X.written \subseteq Now(p, b, m)
  BY DEF IsBehind
<1>8. s.label # "none" => D.written \cup WritesIn(p, s.body) \subseteq E.written
  <2> SUFFICES ASSUME s.label # "none" PROVE D.written \cup WritesIn(p, s.body) \subseteq E.written
    OBVIOUS
  <2>1. \A x \in ToSet(Walk[s.body]) : ~ EndsTransaction(x)
    BY <1>1 DEF CoveredStatement
  <2> QED BY <1>1, <1>2, <2>1, VisitKeeps
<1>9. s.loop_kind = "basic" /\ s \in Pieces
  BY <1>1, StatementsAssumption DEF IsStatement, Pieces
<1>10. Now(p, c, n) \subseteq D.written
  BY NowReaches
<1> HIDE DEF V, D, X, E, I, s
<1>11. s.kind = "Block"
  BY DEF s
<1>12. c2 \in Context /\ c2.of = s /\ c2.left = s.body /\ c2.calls = CallsBefore(c2.of, c2.left) /\ c2.calls \in Seq(Routines)
  BY <1>1, <1>2, <1>9, AtType DEF At
<1>13. n2 \in Note /\ n2.acc = D /\ n2.start = I /\ n2.guard = n.guard /\ n2.known = n.known
  BY <1>1, <1>5 DEF Note
<1> HIDE DEF n2, c2
<1>14. Shape(c2)
  BY <1>1, <1>9, <1>11, <1>12, PendingAll DEF Shape
<1>15. \A ss : Guarded(p, ss, n2) = Guarded(p, ss, n)
  BY <1>13, SameNote
<1>16. Bounded(p, s.body, n2)
  BY <1>1, <1>2, <1>6, <1>13, <1>15 DEF Bounded
<1>17. Found(p, s.body, D, n2)
  BY <1>1, <1>4, <1>13 DEF Found, Within, E, V
<1>18. \A h \in ToSet(s.handlers) : Guarded(p, h, n2) /\ Found(p, h, I, n2)
  BY <1>1, <1>2, <1>4, <1>13, <1>15 DEF Bounded, Found, Within, V
<1>19. Fit(p, c2, n2)
  BY <1>6, <1>11, <1>12, <1>13, <1>14, <1>16, <1>17, <1>18 DEF Fit
<1>20. \A h \in ToSet(s.handlers) : WritesIn(p, h) \subseteq n.start.written
  BY <1>1, <1>2 DEF Bounded
<1>21. I.written \subseteq n.start.written /\ (s.label # "none" => I.written \subseteq X.written)
  <2>1. WritesIn(p, s.body) \subseteq n.start.written
    BY <1>1, <1>2 DEF Bounded
  <2> QED BY <1>1, <1>4, <1>6, <1>8, <2>1 DEF Within
<1>22. Link(p, c2, n2, b, m)
  <2>1. V[s.body][D].written \subseteq Now(p, b, m)
    BY <1>4, <1>7 DEF Within, E
  <2>2. \A h \in ToSet(s.handlers) : V[h][I].written \subseteq Now(p, b, m)
    BY <1>4, <1>7 DEF Within
  <2> QED BY <1>7, <1>11, <1>12, <1>13, <1>20, <1>21, <2>1, <2>2 DEF Link, IsBehind, V
<1>23. Now(p, c2, n2) = D.written
  BY <1>12, <1>13 DEF Now
<1> QED BY <1>10, <1>12, <1>13, <1>19, <1>22, <1>23 DEF Stacked, c2, s

(* A loop comes round; *)
LEMMA IterateFits ==
  ASSUME NEW p, IsProgram(p), NEW c \in Context, NEW n \in Note, Fit(p, c, n), c.of.kind = "Loop", c.left = <<>>
  PROVE  LET b == At(c.of, c.of.body)
         IN b \in Context /\ b.of = c.of /\ Fit(p, b, n) /\ Now(p, b, n) = Now(p, c, n)
<1> DEFINE b == At(c.of, c.of.body)
<1>1. LoopFit(p, c, n) /\ c.of \in Statements /\ c.of.handlers = <<>> /\ n.acc = n.start
  BY DEF Fit, Shape, LoopFit
<1>2. c.of \in Pieces /\ c.of.body \in Code
  BY PieceType DEF Context
<1>3. b \in Context /\ b.of = c.of /\ b.left = c.of.body /\ b.calls = CallsBefore(b.of, b.left) /\ b.calls \in Seq(Routines)
  BY <1>2, AtType DEF At
<1> HIDE DEF b
<1>4. Shape(b)
  <2>1. Pending(b.calls, CallsBefore(b.of, b.left)) /\ Shape(c)
    BY <1>3, PendingAll DEF Fit
  <2> QED BY <1>3, <2>1 DEF Shape
<1>5. Bounded(p, c.of.body, n)
  <2> DEFINE u == <<c.of>>
  <2>1. u \in Code /\ c.of \in ToSet(u)
    BY <1>1, EmptySet DEF Code
  <2>2. c.of.body \in Parts(c.of)
    BY DEF Parts
  <2> HIDE DEF u
  <2>3. ToSet(Walk[c.of.body]) \subseteq ToSet(Walk[u])
    BY <2>1, <2>2, WalkPart
  <2> USE DEF u
  <2> QED BY <1>1, <1>2, <2>1, <2>3, BoundedMore DEF LoopFit
<1>6. LoopFit(p, b, n)
  BY <1>1, <1>3 DEF LoopFit
<1>7. Fit(p, b, n)
  BY <1>1, <1>3, <1>4, <1>5, <1>6, EmptySet DEF Fit, LoopFit
<1>8. Now(p, b, n) = Now(p, c, n)
  BY <1>3 DEF Now
<1> QED BY <1>3, <1>7, <1>8 DEF b

LEMMA NothingLeft ==
  ASSUME NEW p, IsProgram(p), NEW n \in Note
  PROVE  <<>> \in Code /\ Bounded(p, <<>>, n)
<1>1. <<>> \in Code /\ WritesIn(p, <<>>) = {}
  BY WritesNothing DEF Code
<1>2. ToSet(Walk[<<>>]) = {}
  BY WalkDef, EmptySet
<1>3. Scannable(p, <<>>) = {}
  <2>1. All(p, <<>>) = ToSet(Walk[<<>>]) \cup UNION {RanBy(p, c) : c \in Calls(ToSet(Walk[<<>>]))}
    BY <1>1, AllDef
  <2>2. Calls({}) = {}
    BY DEF Calls
  <2>3. All(p, <<>>) = {}
    BY <1>2, <2>1, <2>2
  <2> QED BY <2>3 DEF Scannable
<1> QED BY <1>1, <1>2, <1>3 DEF Bounded, Guarded, CoveredCode

(* CONTINUE goes to its end, having written no more than from its start; *)
LEMMA ContinueFits ==
  ASSUME NEW p, IsProgram(p), NEW c \in Context, NEW n \in Note, Fit(p, c, n), NEW st, NEW nt, On(p, c, n, st, nt),
         c.of.kind = "Loop" \/ (c.of.kind = "Block" /\ c.of.label # "none")
  PROVE  LET b == At(c.of, <<>>)
         IN /\ b \in Context
            /\ \E m \in Note : Fit(p, b, m) /\ On(p, b, m, st, nt) /\ m.guard = n.guard /\ n.start.written \subseteq Now(p, b, m)
<1> DEFINE b == At(c.of, <<>>)
           a == [written |-> n.start.written, found |-> {}]
           m == [n EXCEPT !.acc = IF c.of.kind = "Loop" THEN n.start ELSE a]
<1>1. <<>> \in Code /\ Bounded(p, <<>>, n)
  BY NothingLeft
<1>2. c.of \in Pieces
  BY DEF Context
<1>3. b \in Context /\ b.of = c.of /\ b.left = <<>> /\ b.calls = CallsBefore(b.of, b.left) /\ b.calls \in Seq(Routines)
  BY <1>1, <1>2, AtType DEF At
<1>4. a \in Accs /\ a.written = n.start.written /\ a.found = {} /\ n.start \in Accs
  BY NoteType DEF Accs
<1> HIDE DEF a, b
<1>5. /\ m \in Note /\ m.start = n.start /\ m.guard = n.guard /\ m.known = n.known
      /\ m.acc = IF c.of.kind = "Loop" THEN n.start ELSE a
  BY <1>4 DEF Note
<1> HIDE DEF m
<1>6. m.acc.written = n.start.written /\ m.acc \in Accs
  BY <1>4, <1>5
<1>7. Shape(b)
  <2>1. Pending(b.calls, CallsBefore(b.of, b.left)) /\ Shape(c)
    BY <1>3, PendingAll DEF Fit
  <2> QED BY <1>3, <2>1 DEF Shape
<1>8. Visit(p)[<<>>][m.acc] = m.acc
  BY <1>6, VisitDef
<1>9. m.acc.found \subseteq n.known
  <2>1. CASE c.of.kind = "Loop"
    BY <1>5, <2>1, LoopStart DEF Fit
  <2>2. CASE c.of.kind # "Loop"
    BY <1>4, <1>5, <2>2
  <2> QED BY <2>1, <2>2
<1>10. Found(p, <<>>, m.acc, m) /\ Bounded(p, <<>>, m)
  <2>1. Found(p, <<>>, m.acc, m)
    BY <1>5, <1>8, <1>9 DEF Found
  <2>2. Bounded(p, <<>>, m) = Bounded(p, <<>>, n)
    BY <1>5, SameNote
  <2> QED BY <1>1, <2>1, <2>2
<1>11. c.of.kind = "Loop" => LoopFit(p, b, m)
  <2>1. Bounded(p, <<c.of>>, m) = Bounded(p, <<c.of>>, n) /\ Found(p, c.of.body, n.start, m) = Found(p, c.of.body, n.start, n)
    BY <1>5, SameNote
  <2> QED BY <1>3, <1>5, <2>1 DEF Fit, LoopFit
<1>12. \A h \in ToSet(c.of.handlers) : Guarded(p, h, m) /\ Found(p, h, m.start, m)
  BY <1>5, SameNote DEF Fit
<1>13. Fit(p, b, m)
  BY <1>3, <1>5, <1>6, <1>7, <1>10, <1>11, <1>12 DEF Fit
<1>14. On(p, b, m, st, nt)
  <2>1. st # <<>>
    BY DEF On, Base
  <2>2. Link(p, c, n, Head(st), Head(nt))
    BY <2>1 DEF On
  <2>3. Link(p, b, m, Head(st), Head(nt))
    BY <1>3, <1>5, <1>6, <1>8, <2>2 DEF Link
  <2> QED BY <2>1, <2>3 DEF On
<1>15. Now(p, b, m) = n.start.written
  BY <1>3, <1>6 DEF Now
<1> QED BY <1>3, <1>5, <1>13, <1>14, <1>15 DEF b

(* and a handler takes over behind any part of the body. *)
LEMMA RaiseFits ==
  ASSUME NEW p, IsProgram(p), NEW c \in Context, NEW n \in Note, Fit(p, c, n), NEW st, NEW nt, On(p, c, n, st, nt),
         NEW h \in ToSet(c.of.handlers)
  PROVE  LET b == At(Block(h), h)
         IN /\ b \in Context
            /\ \E m \in Note : Fit(p, b, m) /\ On(p, b, m, st, nt) /\ m.guard = n.guard /\ n.start.written \subseteq Now(p, b, m)
<1> DEFINE b == At(Block(h), h)
           a == [written |-> n.start.written \cup WritesIn(p, h), found |-> {}]
           m == [n EXCEPT !.acc = n.start, !.start = a]
<1>1. h \in Code
  BY PieceType DEF Context
<1>2. c.of.kind = "Block"
  BY EmptySet DEF Fit, Shape
<1>3. Block(h).kind = "Block" /\ Block(h).label = "none" /\ Block(h).handlers = <<>>
      /\ Block(h).loop_kind = "basic" /\ Block(h) \in Pieces
  BY <1>1 DEF Block, Plain, Pieces
<1>4. b \in Context /\ b.of = Block(h) /\ b.left = h /\ b.calls = CallsBefore(b.of, b.left) /\ b.calls \in Seq(Routines)
  BY <1>1, <1>3, AtType DEF At
<1>5. a \in Accs /\ a.written = n.start.written \cup WritesIn(p, h) /\ n.start \in Accs
  BY <1>1, NoteType, WritesType DEF Accs
<1> HIDE DEF a, b
<1>6. m \in Note /\ m.acc = n.start /\ m.start = a /\ m.guard = n.guard /\ m.known = n.known
  BY <1>5 DEF Note
<1> HIDE DEF m
<1>7. Shape(b)
  BY <1>3, <1>4, PendingAll DEF Shape
<1>8. Guarded(p, h, n) /\ Found(p, h, n.start, n)
  BY DEF Fit
<1>9. Bounded(p, h, m) /\ Found(p, h, m.acc, m)
  BY <1>5, <1>6, <1>8, SameNote DEF Bounded
<1>10. Fit(p, b, m)
  BY <1>3, <1>4, <1>5, <1>6, <1>7, <1>9, EmptySet DEF Fit
<1>11. On(p, b, m, st, nt)
  <2>1. st # <<>>
    BY <1>2 DEF On, Base
  <2>2. Link(p, c, n, Head(st), Head(nt))
    BY <2>1 DEF On
  <2>3. Link(p, b, m, Head(st), Head(nt))
    BY <1>2, <1>3, <1>4, <1>5, <1>6, <2>2, EmptySet DEF Link
  <2> QED BY <2>1, <2>3 DEF On
<1>12. Now(p, b, m) = n.start.written
  BY <1>4, <1>6 DEF Now
<1> QED BY <1>4, <1>6, <1>10, <1>11, <1>12 DEF b

----------------------------------------------------------------------------
(* The notes of a stack, with what is written within them                  *)
Holds(p, st, nt, W) ==
  Good(p, st, nt) /\ (st # <<>> => W \subseteq Now(p, Head(st), Head(nt)) \cup Head(nt).guard)

Holding(p, st, W) == \E nt : Holds(p, st, nt, W)

(* W is within what may be written somewhere in the innermost context. *)
Anywhere(p, st, nt, W) == Good(p, st, nt) /\ st # <<>> /\ W \subseteq Head(nt).start.written \cup Head(nt).guard

LEMMA PushHolds ==
  ASSUME NEW p, NEW st, NEW nt, Good(p, st, nt), NEW c \in Context, NEW n \in Note, Fit(p, c, n), On(p, c, n, st, nt),
         NEW W, W \subseteq Now(p, c, n) \cup n.guard
  PROVE  Holding(p, <<c>> \o st, W)
<1>1. Good(p, <<c>> \o st, <<n>> \o nt)
  BY GoodPush
<1>2. st \in Seq(Context) /\ nt \in Seq(Note)
  BY DEF Good
<1>3. Head(<<c>> \o st) = c /\ Head(<<n>> \o nt) = n
  BY <1>2
<1> QED BY <1>1, <1>3 DEF Holding, Holds

(* A jump may go to any context of the stack. *)
LEMMA Down ==
  ASSUME NEW p, IsProgram(p), NEW st, NEW nt, NEW W, Holds(p, st, nt, W), st # <<>>, NEW i \in 1..Len(st)
  PROVE  LET s == SubSeq(st, i, Len(st))
             t == SubSeq(nt, i, Len(st))
         IN Anywhere(p, s, t, W) /\ Head(s) = st[i] /\ Tail(s) = SubSeq(st, i + 1, Len(st))
<1> DEFINE s == SubSeq(st, i, Len(st))
           t == SubSeq(nt, i, Len(st))
<1>1. Good(p, st, nt) /\ W \subseteq Now(p, Head(st), Head(nt)) \cup Head(nt).guard
  BY DEF Holds
<1>2. st \in Seq(Context) /\ nt \in Seq(Note) /\ Len(nt) = Len(st) /\ Len(st) \in Nat /\ i \in Nat /\ i > 0 /\ i <= Len(st)
  BY <1>1 DEF Good
<1>3. Good(p, s, t)
  <2>1. i \in 1..(Len(st) + 1)
    BY <1>2
  <2> QED BY <1>1, <2>1, GoodFrom
<1>4. s # <<>> /\ Head(s) = st[i] /\ Head(t) = nt[i]
  <2>1. Len(s) = Len(st) + 1 - i /\ Len(t) = Len(st) + 1 - i /\ 1 \in 1..(Len(st) + 1 - i)
    BY <1>2, SeqFrom
  <2>2. s[1] = st[i + 1 - 1] /\ t[1] = nt[i + 1 - 1] /\ s \in Seq(Context) /\ t \in Seq(Note)
    BY <1>2, <2>1, SeqFrom
  <2> HIDE DEF s, t
  <2> QED BY <1>2, <2>1, <2>2
<1>5. Tail(s) = SubSeq(st, i + 1, Len(st))
  <2>1. s \in Seq(Context) /\ Len(s) = Len(st) + 1 - i /\ \A k \in 1..(Len(st) + 1 - i) : s[k] = st[i + k - 1]
    BY <1>2, SeqFrom
  <2>2. /\ Len(SubSeq(st, i + 1, Len(st))) = Len(st) - i
        /\ \A k \in 1..(Len(st) - i) : SubSeq(st, i + 1, Len(st))[k] = st[i + k]
        /\ SubSeq(st, i + 1, Len(st)) \in Seq(Context)
    BY <1>2, SeqFrom
  <2>3. Tail(s) \in Seq(Context) /\ Len(Tail(s)) = Len(st) - i /\ \A k \in 1..(Len(st) - i) : Tail(s)[k] = s[k + 1]
    <3> HIDE DEF s
    <3> QED BY <1>2, <2>1
  <2>4. \A k \in 1..(Len(st) - i) : s[k + 1] = st[i + k]
    <3> HIDE DEF s
    <3>1. ASSUME NEW k \in 1..(Len(st) - i) PROVE k + 1 \in 1..(Len(st) + 1 - i) /\ i + (k + 1) - 1 = i + k
      BY <1>2
    <3> QED BY <2>1, <3>1
  <2> DEFINE u == SubSeq(st, i + 1, Len(st))
             v == Tail(s)
  <2>5. u \in Seq(Context) /\ v \in Seq(Context) /\ Len(u) = Len(v) /\ Len(v) = Len(st) - i
        /\ \A k \in 1..(Len(st) - i) : u[k] = v[k]
    <3>1. u \in Seq(Context) /\ Len(u) = Len(st) - i /\ \A k \in 1..(Len(st) - i) : u[k] = st[i + k]
      BY <2>2
    <3>2. v \in Seq(Context) /\ Len(v) = Len(st) - i /\ \A k \in 1..(Len(st) - i) : v[k] = s[k + 1]
      BY <2>3
    <3> HIDE DEF u, v, s
    <3> QED BY <3>1, <3>2, <2>4
  <2> HIDE DEF u, v
  <2>6. u = v
    BY <2>5
  <2> QED BY <2>6 DEF u, v
<1>6. W \subseteq nt[i].start.written \cup nt[i].guard
  BY <1>1, Chain
<1> QED BY <1>3, <1>4, <1>5, <1>6 DEF Anywhere

(* What is left behind goes on with all that was written. *)
LEMMA PopHolds ==
  ASSUME NEW p, IsProgram(p), NEW st, NEW nt, NEW W, Anywhere(p, st, nt, W),
         Head(st).of.kind # "Block" \/ Head(st).of.label # "none"
  PROVE  Holding(p, Tail(st), W)
<1>1. /\ Good(p, Tail(st), Tail(nt))
      /\ On(p, Head(st), Head(nt), Tail(st), Tail(nt))
  BY GoodTop DEF Anywhere
<1>2. W \subseteq Head(nt).start.written \cup Head(nt).guard
  BY DEF Anywhere
<1>3. Tail(st) # <<>> => W \subseteq Now(p, Head(Tail(st)), Head(Tail(nt))) \cup Head(Tail(nt)).guard
  <2> SUFFICES ASSUME Tail(st) # <<>>
               PROVE  W \subseteq Now(p, Head(Tail(st)), Head(Tail(nt))) \cup Head(Tail(nt)).guard
    OBVIOUS
  <2>1. Link(p, Head(st), Head(nt), Head(Tail(st)), Head(Tail(nt)))
    BY <1>1 DEF On
  <2>2. /\ Head(nt).guard \subseteq Head(Tail(nt)).guard \cup Now(p, Head(Tail(st)), Head(Tail(nt)))
        /\ Head(nt).start.written \subseteq Now(p, Head(Tail(st)), Head(Tail(nt)))
    BY <2>1 DEF Link
  <2> QED BY <1>2, <2>2
<1> QED BY <1>1, <1>3 DEF Holding, Holds

LEMMA HoldsAnywhere ==
  ASSUME NEW p, IsProgram(p), NEW st, NEW nt, NEW W, Holds(p, st, nt, W), st # <<>>
  PROVE  Anywhere(p, st, nt, W)
<1>1. Head(st) \in Context /\ Head(nt) \in Note /\ Fit(p, Head(st), Head(nt))
  BY GoodTop DEF Holds
<1>2. Now(p, Head(st), Head(nt)) \subseteq Head(nt).start.written
  BY <1>1, NowBounds
<1> QED BY <1>2 DEF Holds, Anywhere

(* A context is left at its end: *)
LEMMA LeaveHolds ==
  ASSUME NEW p, IsProgram(p), NEW st, NEW nt, NEW W, Holds(p, st, nt, W), st # <<>>, Head(st).left = <<>>
  PROVE  Holding(p, Tail(st), W)
<1>1. CASE Head(st).of.kind # "Block"
  BY <1>1, HoldsAnywhere, PopHolds
<1>2. CASE Head(st).of.kind = "Block"
  <2> DEFINE c == Head(st)
             n == Head(nt)
             q == Head(Tail(st))
             m == Head(Tail(nt))
  <2>1. /\ n \in Note /\ On(p, c, n, Tail(st), Tail(nt))
        /\ Good(p, Tail(st), Tail(nt))
    BY GoodTop DEF Holds
  <2>2. W \subseteq n.acc.written \cup n.guard
    BY DEF Holds, Now
  <2>3. Visit(p)[c.left][n.acc] = n.acc
    BY <2>1, NoteType, VisitDef
  <2>4. Tail(st) # <<>> => W \subseteq Now(p, q, m) \cup m.guard
    <3> SUFFICES ASSUME Tail(st) # <<>> PROVE W \subseteq Now(p, q, m) \cup m.guard
      OBVIOUS
    <3>1. Link(p, c, n, q, m)
      BY <2>1 DEF On
    <3>2. n.guard \subseteq m.guard \cup Now(p, q, m) /\ n.acc.written \subseteq Now(p, q, m)
      BY <1>2, <2>3, <3>1 DEF Link
    <3> QED BY <2>2, <3>2
  <2> QED BY <2>1, <2>4 DEF Holding, Holds
<1> QED BY <1>1, <1>2

LEMMA TwoFirst == ASSUME NEW S, NEW s \in Seq(S), NEW c, NEW d PROVE <<c>> \o (<<d>> \o s) = <<c, d>> \o s
<1> DEFINE u == <<c>> \o (<<d>> \o s)
           v == <<c, d>> \o s
<1>1. Len(u) = Len(s) + 2 /\ Len(v) = Len(s) + 2 /\ Len(s) \in Nat
  OBVIOUS
<1>2. ASSUME NEW i \in 1..(Len(s) + 2) PROVE u[i] = v[i]
  OBVIOUS
<1>3. u \in Seq(S \cup {c, d}) /\ v \in Seq(S \cup {c, d})
  OBVIOUS
<1> HIDE DEF u, v
<1>4. u = v
  BY <1>1, <1>2, <1>3
<1> QED BY <1>4 DEF u, v

(* The statement the innermost context is at runs; *)
LEMMA GoodBehind ==
  ASSUME NEW p, IsProgram(p), NEW st, NEW nt, NEW W, Holds(p, st, nt, W), st # <<>>, Head(st).left # <<>>
  PROVE  LET c == Head(st)
             n == Head(nt)
             b == BehindOf(c)
             m == NoteBehind(p, c, n)
         IN /\ c \in Context /\ n \in Note /\ Fit(p, c, n) /\ b \in Context /\ m \in Note /\ Fit(p, b, m)
            /\ IsBehind(p, c, n, b, m) /\ On(p, b, m, Tail(st), Tail(nt)) /\ Good(p, Tail(st), Tail(nt))
            /\ Tail(st) \in Seq(Context)
<1> DEFINE c == Head(st)
           n == Head(nt)
           b == BehindOf(c)
           m == NoteBehind(p, c, n)
<1>1. /\ c \in Context /\ n \in Note /\ Fit(p, c, n) /\ On(p, c, n, Tail(st), Tail(nt))
      /\ Good(p, Tail(st), Tail(nt)) /\ Tail(st) \in Seq(Context)
  BY GoodTop DEF Holds
<1>2. /\ b \in Context /\ m \in Note /\ Fit(p, b, m)
      /\ m.start = n.start /\ m.guard = n.guard /\ m.known = n.known
      /\ VisitOne(p, Visit(p), Head(c.left), n.acc).written \subseteq Now(p, b, m)
      /\ c.of.kind = "Block" => Visit(p)[b.left][m.acc] = Visit(p)[c.left][n.acc]
  BY <1>1, Advance
<1>3. b.of = c.of
  BY DEF BehindOf, At
<1>4. IsBehind(p, c, n, b, m)
  BY <1>2 DEF IsBehind
<1> HIDE DEF c, n, b, m
<1>5. On(p, b, m, Tail(st), Tail(nt))
  BY <1>1, <1>2, <1>3, OnSame
<1> QED BY <1>1, <1>2, <1>4, <1>5 DEF c, n, b, m

LEMMA DoneHolds ==
  ASSUME NEW p, IsProgram(p), NEW st, NEW nt, NEW W, Holds(p, st, nt, W), st # <<>>, Head(st).left # <<>>,
         NEW U, U \subseteq VisitOne(p, Visit(p), Head(Head(st).left), Head(nt).acc).written \cup Head(nt).guard
  PROVE  Holding(p, <<BehindOf(Head(st))>> \o Tail(st), U)
<1> DEFINE c == Head(st)
           n == Head(nt)
           b == BehindOf(c)
           m == NoteBehind(p, c, n)
<1>1. /\ c \in Context /\ n \in Note /\ b \in Context /\ m \in Note /\ Fit(p, b, m)
      /\ IsBehind(p, c, n, b, m) /\ On(p, b, m, Tail(st), Tail(nt)) /\ Good(p, Tail(st), Tail(nt))
  BY GoodBehind
<1>2. U \subseteq Now(p, b, m) \cup m.guard
  BY <1>1 DEF IsBehind
<1> HIDE DEF c, n, b, m
<1>3. Holding(p, <<b>> \o Tail(st), U)
  BY <1>1, <1>2, PushHolds
<1> QED BY <1>3 DEF b, c

(* an assignment, an EXIT WHEN not taken and a statement of SQL write what *)
(* the analysis says they write, a COMMIT nothing that remains; *)
LEMMA SimpleHolds ==
  ASSUME NEW p, IsProgram(p), NEW st, NEW nt, NEW W, Holds(p, st, nt, W), st # <<>>, Head(st).left # <<>>,
         Head(Head(st).left).kind \in Simple \ {"Commit"}
  PROVE  Holding(p, <<BehindOf(Head(st))>> \o Tail(st), W \cup Head(Head(st).left).writes)
<1> DEFINE c == Head(st)
           n == Head(nt)
           s == Head(c.left)
           D == Reaches(p, s, n.acc)
           X == VisitOne(p, Visit(p), s, n.acc)
<1>1. c \in Context /\ n \in Note /\ Fit(p, c, n)
  BY GoodTop DEF Holds
<1>2. s \in Statements /\ n.acc \in Accs
  <2>1. s \in Statements
    BY <1>1, HeadFits
  <2>2. n.acc \in Accs
    BY <1>1, NoteType
  <2> QED BY <2>1, <2>2
<1>3. X = D
  <2>1. Kinds(p, s, n.acc)
    BY <1>2, VisitOneKinds
  <2>2. s.kind \in Simple \ {"Commit"}
    OBVIOUS
  <2> HIDE DEF s
  <2> QED BY <2>1, <2>2 DEF Kinds
<1>4. Now(p, c, n) \subseteq D.written
  BY <1>1, NowReaches
<1>5. s.writes \subseteq D.written
  <2>1. D.written = Run(p, Callees(s), Repeated(p, s, n.acc)).written \cup s.writes
    BY <1>2, RunWrites
  <2> HIDE DEF D
  <2> QED BY <2>1
<1>6. W \subseteq Now(p, c, n) \cup n.guard
  BY DEF Holds
<1> HIDE DEF D
<1>7. W \cup s.writes \subseteq X.written \cup n.guard
  BY <1>3, <1>4, <1>5, <1>6
<1> HIDE DEF X
<1> QED BY <1>7, DoneHolds DEF X

LEMMA CommitHolds ==
  ASSUME NEW p, IsProgram(p), NEW st, NEW nt, NEW W, Holds(p, st, nt, W), st # <<>>, Head(st).left # <<>>
  PROVE  Holding(p, <<BehindOf(Head(st))>> \o Tail(st), {})
BY DoneHolds

(* a branch, a loop or a block is entered. *)
LEMMA EnterHolds ==
  ASSUME NEW p, IsProgram(p), NEW st, NEW nt, NEW W, Holds(p, st, nt, W), st # <<>>, Head(st).left # <<>>,
         NEW c2,
         \E n2 : /\ Stacked(p, c2, n2, BehindOf(Head(st)), NoteBehind(p, Head(st), Head(nt)))
                 /\ n2.guard = Head(nt).guard /\ Now(p, Head(st), Head(nt)) \subseteq Now(p, c2, n2)
  PROVE  Holding(p, <<c2, BehindOf(Head(st))>> \o Tail(st), W)
<1> DEFINE c == Head(st)
           n == Head(nt)
           b == BehindOf(c)
           m == NoteBehind(p, c, n)
<1>1. /\ c \in Context /\ n \in Note /\ b \in Context /\ m \in Note /\ Fit(p, b, m)
      /\ IsBehind(p, c, n, b, m) /\ On(p, b, m, Tail(st), Tail(nt)) /\ Good(p, Tail(st), Tail(nt))
      /\ Tail(st) \in Seq(Context)
  BY GoodBehind
<1>2. W \subseteq Now(p, c, n) \cup n.guard
  BY DEF Holds
<1>3. PICK n2 : Stacked(p, c2, n2, b, m) /\ n2.guard = n.guard /\ Now(p, c, n) \subseteq Now(p, c2, n2)
  OBVIOUS
<1> HIDE DEF c, n, b, m
<1> DEFINE s == <<b>> \o Tail(st)
           t == <<m>> \o Tail(nt)
<1>4. Good(p, s, t)
  BY <1>1, GoodPush
<1>5. s # <<>> /\ Head(s) = b /\ Head(t) = m
  <2>1. Tail(nt) \in Seq(Note)
    BY <1>1 DEF Good
  <2> QED BY <1>1, <2>1
<1> HIDE DEF s, t
<1>6. On(p, c2, n2, s, t)
  BY <1>3, <1>5 DEF On, Stacked
<1>7. Holding(p, <<c2>> \o s, W)
  BY <1>2, <1>3, <1>4, <1>6, PushHolds DEF Stacked
<1>8. <<c2>> \o s = <<c2, b>> \o Tail(st)
  BY <1>1, TwoFirst DEF s
<1> QED BY <1>7, <1>8 DEF b, c

(* An expression calls: what is written now guards the routine called. *)
LEMMA CallHolds ==
  ASSUME NEW p, IsProgram(p), NEW st, NEW nt, NEW W, Holds(p, st, nt, W), st # <<>>, Head(st).calls # <<>>,
         \A r \in Routines : Covered(p, r)
  PROVE  LET r == Head(Head(st).calls)
         IN Holding(p, <<At(Body(r), <<Whole(p[r])>>), [Head(st) EXCEPT !.calls = Tail(@)]>> \o Tail(st), W)
<1> DEFINE c == Head(st)
           n == Head(nt)
           r == Head(c.calls)
           b == [c EXCEPT !.calls = Tail(@)]
           w == Now(p, b, n)
           guard == n.guard \cup Now(p, c, n)
           whole == <<Whole(p[r])>>
           c2 == At(Body(r), whole)
           n2 == Started(p, r, w, guard, n.known)
<1>1. /\ c \in Context /\ n \in Note /\ Fit(p, c, n) /\ On(p, c, n, Tail(st), Tail(nt))
      /\ Good(p, Tail(st), Tail(nt)) /\ Tail(st) \in Seq(Context)
  BY GoodTop DEF Holds
<1>2. W \subseteq guard
  BY DEF Holds
<1>3. Called(p, c, n, r, b)
  BY <1>1, CallFits
<1>4. b.calls = Tail(c.calls) /\ Head(st).calls = c.calls
  BY <1>1 DEF Context
<1> HIDE DEF c, n, r, b
<1>5. /\ b \in Context /\ b.of = c.of /\ b.left = c.left /\ Fit(p, b, n)
      /\ r \in Routines
      /\ Now(p, c, n) \subseteq Now(p, b, n)
      /\ WritesIn(p, whole) \subseteq w
      /\ guard \cap Scannable(p, whole) \subseteq n.known
  BY <1>3 DEF Called
<1>6. w \subseteq Tables /\ w \subseteq n.start.written /\ guard \subseteq Tables /\ n.known \subseteq Tables
  BY <1>1, <1>5, NowBounds, NoteType
<1>7. On(p, b, n, Tail(st), Tail(nt))
  BY <1>1, <1>5, OnSame
<1> HIDE DEF w, guard
<1>8. c2 \in Context /\ n2 \in Note /\ Fit(p, c2, n2) /\ c2.of.kind = "Routine" /\ c2.of.label = r
  BY <1>5, <1>6, FrameFits
<1>9. n2.start.written = w /\ n2.guard = guard /\ n2.known = n.known \cup ScansOf(p, r)
  BY DEF Started
<1> HIDE DEF c2, n2
<1>10. Link(p, c2, n2, b, n)
  BY <1>5, <1>6, <1>8, <1>9 DEF Link, w, guard
<1> DEFINE s == <<b>> \o Tail(st)
           t == <<n>> \o Tail(nt)
<1>11. Good(p, s, t)
  BY <1>1, <1>5, <1>7, GoodPush
<1>12. s # <<>> /\ Head(s) = b /\ Head(t) = n
  <2>1. Tail(nt) \in Seq(Note)
    BY <1>1 DEF Good
  <2> QED BY <1>1, <2>1
<1> HIDE DEF s, t
<1>13. On(p, c2, n2, s, t)
  BY <1>10, <1>12 DEF On
<1>14. Holding(p, <<c2>> \o s, W)
  BY <1>2, <1>8, <1>9, <1>11, <1>13, PushHolds
<1>15. <<c2>> \o s = <<c2, b>> \o Tail(st)
  BY <1>1, TwoFirst DEF s
<1> QED BY <1>14, <1>15 DEF b, c, c2, r

LEMMA IterateHolds ==
  ASSUME NEW p, IsProgram(p), NEW st, NEW nt, NEW W, Holds(p, st, nt, W), st # <<>>,
         Head(st).of.kind = "Loop", Head(st).left = <<>>
  PROVE  Holding(p, <<At(Head(st).of, Head(st).of.body)>> \o Tail(st), W)
<1> DEFINE c == Head(st)
           n == Head(nt)
           b == At(c.of, c.of.body)
<1>1. /\ c \in Context /\ n \in Note /\ Fit(p, c, n) /\ On(p, c, n, Tail(st), Tail(nt))
      /\ Good(p, Tail(st), Tail(nt))
  BY GoodTop DEF Holds
<1>2. b \in Context /\ b.of = c.of /\ Fit(p, b, n) /\ Now(p, b, n) = Now(p, c, n)
  BY <1>1, IterateFits
<1>3. W \subseteq Now(p, b, n) \cup n.guard /\ c.of.kind = "Loop"
  BY <1>2 DEF Holds
<1> HIDE DEF c, n, b
<1>4. On(p, b, n, Tail(st), Tail(nt))
  BY <1>1, <1>2, <1>3, OnSame
<1>5. Holding(p, <<b>> \o Tail(st), W)
  BY <1>1, <1>2, <1>3, <1>4, PushHolds
<1> QED BY <1>5 DEF b, c

LEMMA ContinueHolds ==
  ASSUME NEW p, IsProgram(p), NEW st, NEW nt, NEW W, Anywhere(p, st, nt, W),
         Head(st).of.kind = "Loop" \/ (Head(st).of.kind = "Block" /\ Head(st).of.label # "none")
  PROVE  Holding(p, <<At(Head(st).of, <<>>)>> \o Tail(st), W)
<1> DEFINE c == Head(st)
           n == Head(nt)
           b == At(c.of, <<>>)
<1>1. /\ c \in Context /\ n \in Note /\ Fit(p, c, n) /\ On(p, c, n, Tail(st), Tail(nt))
      /\ Good(p, Tail(st), Tail(nt))
  BY GoodTop DEF Anywhere
<1>2. W \subseteq n.start.written \cup n.guard
  BY DEF Anywhere
<1>3. /\ b \in Context
      /\ \E m \in Note : Fit(p, b, m) /\ On(p, b, m, Tail(st), Tail(nt)) /\ m.guard = n.guard /\ n.start.written \subseteq Now(p, b, m)
  BY <1>1, ContinueFits
<1> HIDE DEF c, n, b
<1>4. PICK m \in Note : Fit(p, b, m) /\ On(p, b, m, Tail(st), Tail(nt)) /\ m.guard = n.guard /\ n.start.written \subseteq Now(p, b, m)
  BY <1>3
<1>5. Holding(p, <<b>> \o Tail(st), W)
  BY <1>1, <1>2, <1>3, <1>4, PushHolds
<1> QED BY <1>5 DEF b, c

LEMMA RaiseHolds ==
  ASSUME NEW p, IsProgram(p), NEW st, NEW nt, NEW W, Anywhere(p, st, nt, W), NEW h \in ToSet(Head(st).of.handlers)
  PROVE  Holding(p, <<At(Block(h), h)>> \o Tail(st), W)
<1> DEFINE c == Head(st)
           n == Head(nt)
           b == At(Block(h), h)
<1>1. /\ c \in Context /\ n \in Note /\ Fit(p, c, n) /\ On(p, c, n, Tail(st), Tail(nt))
      /\ Good(p, Tail(st), Tail(nt))
  BY GoodTop DEF Anywhere
<1>2. W \subseteq n.start.written \cup n.guard
  BY DEF Anywhere
<1>3. /\ b \in Context
      /\ \E m \in Note : Fit(p, b, m) /\ On(p, b, m, Tail(st), Tail(nt)) /\ m.guard = n.guard /\ n.start.written \subseteq Now(p, b, m)
  BY <1>1, RaiseFits
<1> HIDE DEF c, n, b
<1>4. PICK m \in Note : Fit(p, b, m) /\ On(p, b, m, Tail(st), Tail(nt)) /\ m.guard = n.guard /\ n.start.written \subseteq Now(p, b, m)
  BY <1>3
<1>5. Holding(p, <<b>> \o Tail(st), W)
  BY <1>1, <1>2, <1>3, <1>4, PushHolds
<1> QED BY <1>5 DEF b

(* A scan of what was written, by this routine before or by its callers,   *)
(* is one that some routine called is reported for.                        *)
LEMMA RefusedKnown ==
  ASSUME NEW p, IsProgram(p), NEW st, NEW nt, NEW W, Holds(p, st, nt, W), st # <<>>, Head(st).left # <<>>,
         Head(Head(st).left).kind = "Sql", NEW x \in Scans(Head(Head(st).left), W)
  PROVE  \E i \in 1..Len(st) : st[i].of.kind = "Routine" /\ x \in ScansOf(p, st[i].of.label)
<1> DEFINE c == Head(st)
           n == Head(nt)
           s == Head(c.left)
           D == Reaches(p, s, n.acc)
<1>1. c \in Context /\ n \in Note /\ Fit(p, c, n) /\ Good(p, st, nt)
  BY GoodTop DEF Holds
<1>2. /\ s \in Statements /\ <<s>> \in Code /\ Bounded(p, <<s>>, n)
      /\ VisitOne(p, Visit(p), s, n.acc).found \subseteq n.known
  BY <1>1, HeadFits
<1>3. n.acc \in Accs /\ n.acc.written \subseteq Tables /\ n.guard \subseteq Tables
  BY <1>1, NoteType
<1>4. s.kind = "Sql" /\ s.calls = <<>>
  BY <1>2, StatementsAssumption DEF IsStatement
<1>5. Now(p, c, n) = n.acc.written
  BY <1>1, <1>4, NowReaches
<1>6. W \subseteq n.acc.written \cup n.guard
  BY <1>5 DEF Holds
<1>7. x \in W /\ x \in s.reads /\ ~ s.keyed
  BY DEF Scans
<1>8. x \in n.known
  <2>1. CASE x \in n.acc.written
    <3>1. Scans(s, n.acc.written \cup Repeats(p, s)) \subseteq D.found
      BY <1>2, <1>3, ReachesDef
    <3>2. D.found \subseteq VisitOne(p, Visit(p), s, n.acc).found
      <4>1. Finds(p, s, n.acc)
        BY <1>2, <1>3, VisitOneFinds
      <4>2. ~ EndsTransaction(s)
        BY <1>4 DEF EndsTransaction
      <4> HIDE DEF s
      <4> QED BY <4>1, <4>2 DEF Finds
    <3>3. x \in Scans(s, n.acc.written \cup Repeats(p, s))
      BY <1>7, <2>1 DEF Scans
    <3> HIDE DEF D, s
    <3> QED BY <1>2, <3>1, <3>2, <3>3
  <2>2. CASE x \in n.guard
    <3>1. s \in All(p, <<s>>)
      <4> DEFINE u == <<s>>
      <4>1. u \in Code /\ s \in ToSet(u)
        BY <1>2, EmptySet
      <4> HIDE DEF u
      <4>2. s \in All(p, u)
        BY <4>1, WalkIncludes DEF All
      <4> QED BY <4>2 DEF u
    <3>2. x \in Scans(s, Tables)
      BY <1>3, <1>7, <2>2 DEF Scans
    <3>3. x \in Scannable(p, <<s>>)
      BY <3>1, <3>2 DEF Scannable
    <3>4. n.guard \cap Scannable(p, <<s>>) \subseteq n.known
      BY <1>2 DEF Bounded, Guarded
    <3> QED BY <2>2, <3>3, <3>4
  <2> QED BY <1>6, <1>7, <2>1, <2>2
<1> QED BY <1>1, <1>8, ChainKnown

----------------------------------------------------------------------------
(* The runs                                                                *)

AllCovered == \A p \in Programs, r \in Routines : Covered(p, r)

Noted == Typed /\ Holding(prog, stack, written) /\ RefusedWasReported

LEMMA NotedInit ==
  ASSUME AllCovered, Init
  PROVE  Noted
<1> DEFINE whole == <<Whole(prog[Entry])>>
           c == At(Body(Entry), whole)
           n == Started(prog, Entry, WritesIn(prog, whole), {}, {})
<1>1. /\ prog \in Programs /\ reported = ScanAfterWrite(prog) /\ stack = <<Frame(Entry)>>
      /\ written = {} /\ refused = <<>>
  BY DEF Init
<1>2. IsProgram(prog) /\ Entry \in Routines /\ Covered(prog, Entry)
  BY <1>1, ProgramsAssumption DEF AllCovered
<1>3. WritesIn(prog, whole) \subseteq Tables
  BY <1>2, WholeDef, WritesType
<1>4. c \in Context /\ n \in Note /\ Fit(prog, c, n) /\ c.of.kind = "Routine" /\ c.of.label = Entry
  BY <1>2, <1>3, FrameFits
<1>5. n.known = ScansOf(prog, Entry)
  BY DEF Started
<1>6. Frame(Entry) = c
  BY DEF Frame, Body
<1> HIDE DEF c, n
<1>7. On(prog, c, n, <<>>, <<>>)
  BY <1>4, <1>5 DEF On, Base
<1>8. Holding(prog, <<c>> \o <<>>, written)
  BY <1>1, <1>4, <1>7, GoodNone, PushHolds
<1>9. <<c>> \o <<>> = stack
  BY <1>1, <1>6
<1>10. Typed
  BY <1>1, <1>4, <1>6 DEF Typed
<1> QED BY <1>1, <1>8, <1>9, <1>10 DEF Noted, RefusedWasReported

(* Every step keeps the notes of the stack. *)
LEMMA HoldingStep ==
  ASSUME AllCovered, Typed, Holding(prog, stack, written), Next
  PROVE  Holding(prog, stack', written')
<1>1. prog \in Programs /\ IsProgram(prog) /\ stack \in Seq(Context) /\ Len(stack) \in Nat
  BY ProgramsAssumption DEF Typed
<1>2. PICK nt : Holds(prog, stack, nt, written)
  BY DEF Holding
<1>3. \A i \in 1..Len(stack) : stack[i] \in Context /\ stack[i].of \in Pieces
  <2>1. \A i \in 1..Len(stack) : stack[i] \in Context
    BY <1>1
  <2> QED BY <2>1 DEF Context
<1> DEFINE Moves(next) == stack' = next /\ written' = written
<1>4. \A next : Goto(next) => Moves(next)
  BY DEF Goto
<1>5. stack # <<>>
  BY DEF Next, CallNext, Evaluate, Operate, Commit, Choose, OpenLoop, Iterate, EnterBlock, Leave, Jump, Return, Raise,
         Ready, AtEnd, Running
<1>6. Top = Head(stack) /\ Rest = Tail(stack) /\ This = Head(Head(stack).left) /\ Behind = BehindOf(Head(stack))
  BY DEF Top, Rest, This, Behind, BehindOf
<1>7. CASE CallNext
  <2> DEFINE r == Head(Head(stack).calls)
             next == <<Frame(r), [Head(stack) EXCEPT !.calls = Tail(@)]>> \o Tail(stack)
  <2>1. Head(stack).calls # <<>> /\ Goto(next)
    BY <1>6, <1>7 DEF CallNext
  <2>2. Moves(next)
    BY <1>4, <2>1
  <2>3. \A q \in Routines : Covered(prog, q)
    BY <1>1 DEF AllCovered
  <2>4. Frame(r) = At(Body(r), <<Whole(prog[r])>>)
    BY DEF Frame, Body
  <2>5. Holding(prog, next, written)
    BY <1>1, <1>2, <1>5, <2>1, <2>3, <2>4, CallHolds
  <2> QED BY <2>2, <2>5
<1>8. CASE Evaluate
  <2>1. Goto(<<Behind>> \o Rest) /\ Head(stack).left # <<>> /\ This.kind = "Plain"
    BY <1>6, <1>8 DEF Evaluate, Ready
  <2>2. Moves(<<Behind>> \o Rest)
    BY <1>4, <2>1
  <2>3. Holding(prog, <<Behind>> \o Rest, written \cup This.writes)
    BY <1>1, <1>2, <1>5, <1>6, <2>1, SimpleHolds DEF Simple
  <2>4. This.writes = {}
    BY <1>5, <1>6, <2>1, TopType, ScansDef
  <2> QED BY <2>2, <2>3, <2>4
<1>9. CASE Operate
  <2>1. Head(stack).left # <<>> /\ This.kind = "Sql"
    BY <1>6, <1>9 DEF Operate, Ready
  <2>2. CASE Scans(This, written) = {}
    <3>1. written' = written \cup This.writes /\ stack' = <<Behind>> \o Rest
      BY <1>9, <2>2 DEF Operate
    <3>2. Holding(prog, <<Behind>> \o Rest, written \cup This.writes)
      BY <1>1, <1>2, <1>5, <1>6, <2>1, SimpleHolds DEF Simple
    <3> QED BY <3>1, <3>2
  <2>3. CASE Scans(This, written) # {}
    <3>1. UNCHANGED <<stack, written>>
      BY <1>9, <2>3 DEF Operate
    <3> QED BY <3>1
  <2> QED BY <2>2, <2>3
<1>10. CASE Commit
  <2>1. Head(stack).left # <<>> /\ written' = {} /\ stack' = <<Behind>> \o Rest
    BY <1>6, <1>10 DEF Commit, Ready
  <2>2. Holding(prog, <<Behind>> \o Rest, {})
    BY <1>1, <1>2, <1>5, <1>6, <2>1, CommitHolds
  <2> QED BY <2>1, <2>2
<1> DEFINE c == Head(stack)
           n == Head(nt)
           b == BehindOf(c)
           m == NoteBehind(prog, c, n)
<1>11. ASSUME c.left # <<>>
       PROVE  /\ c \in Context /\ n \in Note /\ Fit(prog, c, n) /\ IsBehind(prog, c, n, b, m)
  BY <1>1, <1>2, <1>5, <1>11, GoodBehind
<1>12. CASE Choose
  <2>1. c.left # <<>> /\ Head(c.left).kind = "If"
    BY <1>6, <1>12 DEF Choose, Ready
  <2>2. PICK br \in ToSet(Head(c.left).branches) \cup {Head(c.left).orElse} : Goto(<<At(Block(br), br), Behind>> \o Rest)
    BY <1>6, <1>12 DEF Choose
  <2>3. Moves(<<At(Block(br), br), b>> \o Tail(stack))
    BY <1>4, <1>6, <2>2
  <2>4. \E n2 : /\ Stacked(prog, At(Block(br), br), n2, b, m) /\ n2.guard = n.guard
                /\ Now(prog, c, n) \subseteq Now(prog, At(Block(br), br), n2)
    BY <1>1, <1>11, <2>1, ChooseFits
  <2>5. Holding(prog, <<At(Block(br), br), b>> \o Tail(stack), written)
    BY <1>1, <1>2, <1>5, <2>1, <2>4, EnterHolds
  <2> QED BY <2>3, <2>5
<1>13. CASE OpenLoop
  <2> DEFINE c2 == [of |-> Head(c.left), left |-> Head(c.left).query, calls |-> <<>>]
  <2>1. c.left # <<>> /\ Head(c.left).kind = "Loop" /\ Goto(<<c2, b>> \o Tail(stack))
    BY <1>6, <1>13 DEF OpenLoop, Ready
  <2>2. Moves(<<c2, b>> \o Tail(stack))
    BY <1>4, <2>1
  <2>3. \E n2 : /\ Stacked(prog, c2, n2, b, m) /\ n2.guard = n.guard /\ Now(prog, c, n) \subseteq Now(prog, c2, n2)
    BY <1>1, <1>11, <2>1, OpenFits
  <2>4. Holding(prog, <<c2, b>> \o Tail(stack), written)
    BY <1>1, <1>2, <1>5, <2>1, <2>3, EnterHolds
  <2> QED BY <2>2, <2>4
<1>14. CASE EnterBlock
  <2> DEFINE c2 == At(Head(c.left), Head(c.left).body)
  <2>1. c.left # <<>> /\ Head(c.left).kind = "Block" /\ Goto(<<c2, b>> \o Tail(stack))
    BY <1>6, <1>14 DEF EnterBlock, Ready
  <2>2. Moves(<<c2, b>> \o Tail(stack))
    BY <1>4, <2>1
  <2>3. \E n2 : /\ Stacked(prog, c2, n2, b, m) /\ n2.guard = n.guard /\ Now(prog, c, n) \subseteq Now(prog, c2, n2)
    BY <1>1, <1>11, <2>1, EnterFits
  <2>4. Holding(prog, <<c2, b>> \o Tail(stack), written)
    BY <1>1, <1>2, <1>5, <2>1, <2>3, EnterHolds
  <2> QED BY <2>2, <2>4
<1>15. CASE Iterate
  <2>1. c.left = <<>> /\ c.of.kind = "Loop" /\ Goto(<<At(c.of, c.of.body)>> \o Tail(stack))
    BY <1>6, <1>15 DEF Iterate, AtEnd
  <2>2. Moves(<<At(c.of, c.of.body)>> \o Tail(stack))
    BY <1>4, <2>1
  <2>3. Holding(prog, <<At(c.of, c.of.body)>> \o Tail(stack), written)
    BY <1>1, <1>2, <1>5, <2>1, IterateHolds
  <2> QED BY <2>2, <2>3
<1>16. CASE Leave
  <2>1. c.left = <<>> /\ Goto(Tail(stack))
    BY <1>6, <1>16 DEF Leave, AtEnd
  <2>2. Moves(Tail(stack))
    BY <1>4, <2>1
  <2>3. Holding(prog, Tail(stack), written)
    BY <1>1, <1>2, <1>5, <2>1, LeaveHolds
  <2> QED BY <2>2, <2>3
(* What is behind the i-th context of the stack *)
<1>17. ASSUME NEW i \in 1..Len(stack)
       PROVE  \E s, t : Anywhere(prog, s, t, written) /\ Head(s) = stack[i] /\ Tail(s) = From(i + 1)
  BY <1>1, <1>2, <1>5, Down DEF From
<1>18. CASE Jump
  <2>1. CASE Goto(<<Behind>> \o Rest)
    <3>1. Moves(<<Behind>> \o Rest)
      BY <1>4, <2>1
    <3>2. Head(stack).left # <<>> /\ This.kind \in {"Exit", "Continue"}
      BY <1>6, <1>18 DEF Jump, Ready
    <3>3. Holding(prog, <<Behind>> \o Rest, written \cup This.writes)
      BY <1>1, <1>2, <1>5, <1>6, <3>2, SimpleHolds DEF Simple
    <3>4. This.writes = {}
      BY <1>5, <1>6, <3>2, TopType, ScansDef
    <3> QED BY <3>1, <3>3, <3>4
  <2>2. CASE ~ Goto(<<Behind>> \o Rest)
    <3> DEFINE to == Labelled(This.label)
               next == (IF This.kind = "Continue" THEN <<At(stack[to].of, <<>>)>> ELSE <<>>) \o From(to + 1)
    <3>1. to # 0 /\ Goto(next)
      BY <1>18, <2>2 DEF Jump
    <3>2. Moves(next)
      BY <3>1 DEF Goto
    <3>3. /\ to \in 1..Len(stack)
          /\ stack[to].of.kind = "Loop" \/ (stack[to].of.kind = "Block" /\ This.label # "none" /\ stack[to].of.label = This.label)
      BY <1>1, <3>1, Selected
    <3> HIDE DEF to
    <3>4. PICK s, t : Anywhere(prog, s, t, written) /\ Head(s) = stack[to] /\ Tail(s) = From(to + 1)
      BY <1>17, <3>3
    <3>5. Holding(prog, <<At(stack[to].of, <<>>)>> \o From(to + 1), written)
      BY <1>1, <3>3, <3>4, ContinueHolds
    <3>6. Holding(prog, From(to + 1), written)
      BY <1>1, <3>3, <3>4, PopHolds
    <3>7. <<>> \o From(to + 1) = From(to + 1)
      BY <1>1, <3>3, SeqFrom DEF From
    <3> QED BY <3>2, <3>5, <3>6, <3>7
  <2> QED BY <2>1, <2>2
<1>19. CASE Return
  <2>1. Goto(From(Caller + 1))
    BY <1>19 DEF Return
  <2>2. Moves(From(Caller + 1))
    BY <1>4, <2>1
  <2>3. CASE Caller # 0
    <3>1. Caller \in 1..Len(stack) /\ stack[Caller].of.kind = "Routine"
      BY <1>1, <2>3, Selected
    <3>2. PICK s, t : Anywhere(prog, s, t, written) /\ Head(s) = stack[Caller] /\ Tail(s) = From(Caller + 1)
      BY <1>17, <3>1
    <3>3. Holding(prog, From(Caller + 1), written)
      BY <1>1, <3>1, <3>2, PopHolds
    <3> QED BY <2>2, <3>3
  <2>4. CASE Caller = 0
    <3>1. From(0 + 1) = stack
      BY <1>1 DEF From
    <3>2. stack' = stack /\ written' = written
      BY <2>2, <2>4, <3>1
    <3> QED BY <3>2
  <2> QED BY <2>3, <2>4
<1>20. CASE Raise
  <2>1. CASE Handling = 0
    <3>1. Goto(<<>>)
      BY <1>20, <2>1 DEF Raise
    <3>2. stack' = <<>>
      BY <3>1 DEF Goto
    <3> QED BY <3>2, GoodNone DEF Holding, Holds
  <2>2. CASE Handling # 0
    <3>1. PICK h \in ToSet(stack[Handling].of.handlers) : Goto(<<At(Block(h), h)>> \o From(Handling + 1))
      BY <1>20, <2>2 DEF Raise
    <3>2. Moves(<<At(Block(h), h)>> \o From(Handling + 1))
      BY <1>4, <3>1
    <3>3. Handling \in 1..Len(stack)
      BY <1>1, <2>2, Selected
    <3>4. PICK s, t : Anywhere(prog, s, t, written) /\ Head(s) = stack[Handling] /\ Tail(s) = From(Handling + 1)
      BY <1>17, <3>3
    <3>5. Holding(prog, <<At(Block(h), h)>> \o From(Handling + 1), written)
      BY <1>1, <3>1, <3>4, RaiseHolds
    <3> QED BY <3>2, <3>5
  <2> QED BY <2>1, <2>2
<1> QED BY <1>7, <1>8, <1>9, <1>10, <1>12, <1>13, <1>14, <1>15, <1>16, <1>18, <1>19, <1>20 DEF Next

(* A scan is refused only of tables some routine called is reported for. *)
LEMMA RefusedStep ==
  ASSUME Typed, Holding(prog, stack, written), RefusedWasReported, [Next]_vars
  PROVE  RefusedWasReported'
<1>1. prog' = prog /\ reported' = reported
  BY DEF Next, vars, CallNext, Evaluate, Operate, Commit, Choose, OpenLoop, Iterate, EnterBlock, Leave, Jump, Return, Raise,
         Goto
<1>2. CASE refused' = refused
  BY <1>1, <1>2 DEF RefusedWasReported
<1>3. CASE refused' # refused
  <2>1. Operate
    BY <1>3 DEF Next, vars, CallNext, Evaluate, Commit, Choose, OpenLoop, Iterate, EnterBlock, Leave, Jump, Return, Raise, Goto
  <2>2. /\ stack # <<>> /\ Head(stack).left # <<>> /\ Head(Head(stack).left).kind = "Sql"
        /\ This = Head(Head(stack).left)
    BY <2>1 DEF Operate, Ready, Running, Top, This
  <2>3. refused' = <<Scans(This, written), Stack>>
    BY <1>3, <2>1 DEF Operate
  <2>4. prog \in Programs /\ IsProgram(prog) /\ reported = ScanAfterWrite(prog) /\ stack \in Seq(Context)
        /\ \A i \in 1..Len(stack) : stack[i].of \in Pieces
    <3>1. stack \in Seq(Context)
      BY DEF Typed
    <3>2. \A i \in 1..Len(stack) : stack[i] \in Context
      BY <3>1
    <3> QED BY <3>1, <3>2, ProgramsAssumption DEF Typed, Context
  <2>5. PICK nt : Holds(prog, stack, nt, written)
    BY DEF Holding
  <2>6. ASSUME NEW x \in Scans(This, written) PROVE \E r \in Stack : <<r, x>> \in reported
    <3>1. PICK i \in 1..Len(stack) : stack[i].of.kind = "Routine" /\ x \in ScansOf(prog, stack[i].of.label)
      BY <2>2, <2>4, <2>5, <2>6, RefusedKnown
    <3>2. stack[i].of.label \in Routines /\ stack[i].of.label \in Stack
      BY <2>4, <3>1, PieceType DEF Stack
    <3>3. <<stack[i].of.label, x>> \in reported
      BY <2>4, <3>1, <3>2 DEF ScanAfterWrite
    <3> QED BY <3>2, <3>3
  <2> QED BY <1>1, <2>3, <2>6 DEF RefusedWasReported
<1> QED BY <1>2, <1>3

(* No program the analysis covers makes ScalarDB refuse a scan that is not *)
(* reported, for that table, of a routine on the call stack, whatever the  *)
(* program branches to, raises and calls, recursion included.              *)
THEOREM RefusedCorrect == ASSUME AllCovered PROVE Spec => []RefusedWasReported
<1>1. Init => Noted
  BY NotedInit
<1>2. Noted /\ [Next]_vars => Noted'
  <2> SUFFICES ASSUME Noted, [Next]_vars PROVE Noted'
    OBVIOUS
  <2>1. Typed'
    BY TypedStep DEF Noted
  <2>2. RefusedWasReported'
    BY RefusedStep DEF Noted
  <2>3. prog' = prog
    BY DEF Next, vars, CallNext, Evaluate, Operate, Commit, Choose, OpenLoop, Iterate, EnterBlock, Leave, Jump, Return, Raise,
           Goto
  <2>4. Holding(prog, stack', written')
    <3>1. CASE Next
      BY <3>1, HoldingStep DEF Noted
    <3>2. CASE UNCHANGED vars
      BY <3>2 DEF Noted, vars
    <3> QED BY <3>1, <3>2
  <2> QED BY <2>1, <2>2, <2>3, <2>4 DEF Noted
<1>3. Noted => RefusedWasReported
  BY DEF Noted
<1> QED BY <1>1, <1>2, <1>3, PTL DEF Spec

----------------------------------------------------------------------------
(* Routines without loops, jumps and calls                                 *)

(* A routine without loops, jumps and calls is linear, and reported for    *)
(* what a visit of it finds.                                               *)
LEMMA LinearRoutine ==
  ASSUME NEW p, IsProgram(p), NEW r \in Routines, WithoutLoopsAndCalls(p[r])
  PROVE  /\ <<Whole(p[r])>> \in Code /\ Linear(<<Whole(p[r])>>)
         /\ ScansOf(p, r) = Visit(p)[<<Whole(p[r])>>][Nothing].found
         /\ p[r].body \in Code /\ Linear(p[r].body)
<1> DEFINE w == Whole(p[r])
<1>1. w \in Statements /\ <<w>> \in Code /\ ToSet(Walk[<<w>>]) = {w} \cup ToSet(Everything(p[r]))
  BY WholeDef
<1>2. w.kind = "Block" /\ w.calls = p[r].initialisers /\ w.body = p[r].body
  BY DEF Whole, Plain
<1>3. p[r].initialisers = <<>> /\ \A s \in ToSet(Everything(p[r])) : LinearStatement(s)
  BY DEF WithoutLoopsAndCalls, LinearStatement
<1>4. ScansOf(p, r) = Visit(p)[<<w>>][Nothing].found
  BY <1>3, ScansOfDef
<1> HIDE DEF w
<1>5. Linear(<<w>>)
  BY <1>1, <1>2, <1>3 DEF Linear, LinearStatement
<1>6. w \in ToSet(<<w>>) /\ w.body \in Parts(w)
  BY EmptySet DEF Parts
<1>7. w.body \in Code /\ Linear(w.body)
  BY <1>1, <1>5, <1>6, WalkPart, LinearParts
<1> QED BY <1>1, <1>2, <1>4, <1>5, <1>7 DEF w

(* write_then_scan finds whatever scan_after_write reports of a routine    *)
(* without loops, calls and handlers of its own.                           *)
THEOREM CoarseCorrect == Spec => []CoarseCovers
<1>1. Typed => CoarseCovers
  <2> SUFFICES ASSUME Typed, WithoutLoopsAndCalls(prog[Entry]), prog[Entry].handlers = <<>>,
                      NEW x \in reported, x[1] = Entry
               PROVE  x \in WriteThenScan(prog)
    BY DEF CoarseCovers
  <2> DEFINE w == Whole(prog[Entry])
             V == Visit(prog)
             D == Reaches(prog, w, Nothing)
             X == VisitOne(prog, V, w, Nothing)
  <2>1. IsProgram(prog) /\ Entry \in Routines
    BY ProgramsAssumption DEF Typed
  <2>2. PICK r \in Routines : x \in {r} \X ScansOf(prog, r)
    BY DEF Typed, ScanAfterWrite
  <2>3. r = Entry /\ x = <<Entry, x[2]>> /\ x[2] \in ScansOf(prog, Entry)
    BY <2>2
  <2>4. /\ <<w>> \in Code /\ Linear(<<w>>) /\ ScansOf(prog, Entry) = V[<<w>>][Nothing].found
        /\ prog[Entry].body \in Code /\ Linear(prog[Entry].body)
    BY <2>1, LinearRoutine
  <2>5. w \in Statements
    BY <2>1, WholeDef
  <2>6. Nothing \in Accs
    BY DEF Nothing, Accs
  <2>7. /\ w.kind = "Block" /\ w.calls = prog[Entry].initialisers /\ w.body = prog[Entry].body
        /\ w.handlers = <<>> /\ w.writes = {} /\ w.reads = {}
    BY DEF Whole, Plain
  <2> HIDE DEF w
  <2>8. D = Nothing
    <3>1. LinearStatement(w)
      BY <2>7 DEF LinearStatement, WithoutLoopsAndCalls
    <3>2. D \in Accs /\ D.written = Nothing.written \cup w.writes /\ D.found = Nothing.found \cup Scans(w, Nothing.written)
      BY <2>1, <2>5, <2>6, <3>1, LinearReaches
    <3> HIDE DEF D
    <3>3. D.written = {} /\ D.found = {}
      BY <2>7, <3>2 DEF Nothing, Scans
    <3> QED BY <3>2, <3>3 DEF Nothing, Accs
  <2>9. X = V[prog[Entry].body][Nothing] /\ X \in Accs
    <3>1. Kinds(prog, w, Nothing)
      BY <2>1, <2>5, <2>6, VisitOneKinds
    <3> DEFINE E == V[w.body][D]
               I == Interrupted(prog, w, D, E)
    <3>2. E \in Accs /\ X = Union({E} \cup {V[h][I] : h \in ToSet(w.handlers)})
      BY <2>7, <3>1 DEF Kinds
    <3> HIDE DEF E, I, X, V
    <3>3. {E} \cup {V[h][I] : h \in ToSet(w.handlers)} = {E}
      BY <2>7, EmptySet
    <3>4. X = E
      BY <3>2, <3>3, UnionDef
    <3> QED BY <2>7, <2>8, <3>2, <3>4 DEF E
  <2>10. V[<<w>>][Nothing] = X
    <3> DEFINE u == <<w>>
    <3>1. u \in Code \ {<<>>} /\ Head(u) = w /\ Tail(u) = <<>>
      BY <2>4
    <3> HIDE DEF u
    <3>2. V[u][Nothing] = V[Tail(u)][VisitOne(prog, V, Head(u), Nothing)]
      BY <2>1, <2>6, <3>1, VisitDef
    <3> QED BY <2>1, <2>9, <3>1, <3>2, VisitDef DEF u
  <2>11. Within(V[prog[Entry].body][Nothing], After[prog[Entry].body][Nothing])
    BY <2>1, <2>4, <2>6, CoarseWithin DEF Within
  <2>12. x[2] \in After[prog[Entry].body][Nothing].found
    <3> HIDE DEF V, X
    <3> QED BY <2>3, <2>4, <2>9, <2>10, <2>11 DEF Within
  <2> QED BY <2>1, <2>3, <2>12 DEF WriteThenScan
<1> QED BY <1>1, TypedInit, TypedStep, PTL DEF Spec

----------------------------------------------------------------------------
(* The runs of a statement sequence                                        *)

Single(s) == [met |-> <<s>>, raised |-> FALSE]
Stopped  == [met |-> <<>>, raised |-> TRUE]
Finished == [met |-> <<>>, raised |-> FALSE]
AllRuns  == [met : Code, raised : BOOLEAN]

(* The runs of a sequence, in terms of runs f of the sequences below it and behind its first statement *)
Joining(r, runs)  == {[l EXCEPT !.met = r.met \o @] : l \in runs}
Caught(f, r, hs)  == IF r.raised /\ hs # <<>> THEN Joining(r, UNION {f[h] : h \in ToSet(hs)}) ELSE {r}
RunsOne(f, s)     == CASE s.kind = "If"    -> UNION {f[b] : b \in ToSet(s.branches) \cup {s.orElse}}
                       [] s.kind = "Block" -> UNION {Caught(f, r, s.handlers) : r \in f[s.body]}
                       [] OTHER            -> {Single(s)}
Onward(f, r, ss)  == IF r.raised THEN {r} ELSE Joining(r, f[Tail(ss)])
RunsStep(f, ss)   == {Stopped} \cup IF ss = <<>> THEN {Finished} ELSE UNION {Onward(f, r, ss) : r \in RunsOne(f, Head(ss))}

LEMMA JoiningType ==
  ASSUME NEW r \in AllRuns, NEW l \in AllRuns
  PROVE  /\ [l EXCEPT !.met = r.met \o @] = [met |-> r.met \o l.met, raised |-> l.raised]
         /\ [met |-> r.met \o l.met, raised |-> l.raised] \in AllRuns
<1>1. r.met \in Code /\ l.met \in Code /\ l.raised \in BOOLEAN
  BY DEF AllRuns
<1>2. r.met \o l.met \in Code
  BY <1>1, CodeJoin
<1>3. PICK m \in Code, b \in BOOLEAN : l = [met |-> m, raised |-> b]
  BY DEF AllRuns
<1>4. \A n : [l EXCEPT !.met = n] = [met |-> n, raised |-> b]
  BY <1>3
<1> QED BY <1>1, <1>2, <1>3, <1>4 DEF AllRuns

LEMMA JoiningDef ==
  ASSUME NEW r \in AllRuns, NEW runs \in SUBSET AllRuns
  PROVE  Joining(r, runs) \in SUBSET AllRuns /\ Joining(r, runs) = {[met |-> r.met \o l.met, raised |-> l.raised] : l \in runs}
<1>1. \A l \in runs : /\ [l EXCEPT !.met = r.met \o @] = [met |-> r.met \o l.met, raised |-> l.raised]
                     /\ [met |-> r.met \o l.met, raised |-> l.raised] \in AllRuns
  BY JoiningType
<1> DEFINE J(l) == [l EXCEPT !.met = r.met \o @]
           K(l) == [met |-> r.met \o l.met, raised |-> l.raised]
<1>2. \A l \in runs : J(l) = K(l) /\ K(l) \in AllRuns
  BY <1>1
<1>3. Joining(r, runs) = {J(l) : l \in runs}
  BY DEF Joining
<1> HIDE DEF J, K
<1>4. Joining(r, runs) = {K(l) : l \in runs} /\ Joining(r, runs) \in SUBSET AllRuns
  BY <1>2, <1>3
<1> QED BY <1>4 DEF K

LEMMA RunsOneType ==
  ASSUME NEW s \in Statements, NEW f, \A part \in Parts(s) : f[part] \in SUBSET AllRuns
  PROVE  RunsOne(f, s) \in SUBSET AllRuns
<1>1. /\ \A b \in ToSet(s.branches) \cup {s.orElse} : f[b] \in SUBSET AllRuns
      /\ f[s.body] \in SUBSET AllRuns
      /\ \A h \in ToSet(s.handlers) : f[h] \in SUBSET AllRuns
  BY DEF Parts
<1>2. Single(s) \in AllRuns
  BY DEF Single, AllRuns, Code
<1>3. ASSUME NEW r \in f[s.body] PROVE Caught(f, r, s.handlers) \in SUBSET AllRuns
  <2>1. r \in AllRuns /\ UNION {f[h] : h \in ToSet(s.handlers)} \in SUBSET AllRuns
    BY <1>1
  <2>2. Joining(r, UNION {f[h] : h \in ToSet(s.handlers)}) \in SUBSET AllRuns
    BY <2>1, JoiningDef
  <2> QED BY <2>1, <2>2 DEF Caught
<1> QED BY <1>1, <1>2, <1>3 DEF RunsOne

LEMMA RunsOneLocal ==
  ASSUME NEW s, NEW f, NEW g, \A part \in Parts(s) : f[part] = g[part]
  PROVE  RunsOne(f, s) = RunsOne(g, s)
<1>1. \A b \in ToSet(s.branches) \cup {s.orElse} : f[b] = g[b]
  BY DEF Parts
<1>2. f[s.body] = g[s.body] /\ \A h \in ToSet(s.handlers) : f[h] = g[h]
  BY DEF Parts
<1>3. UNION {f[b] : b \in ToSet(s.branches) \cup {s.orElse}} = UNION {g[b] : b \in ToSet(s.branches) \cup {s.orElse}}
  BY <1>1
<1>4. \A r : Caught(f, r, s.handlers) = Caught(g, r, s.handlers)
  <2>1. {f[h] : h \in ToSet(s.handlers)} = {g[h] : h \in ToSet(s.handlers)}
    BY <1>2
  <2> QED BY <2>1 DEF Caught
<1>5. UNION {Caught(f, r, s.handlers) : r \in f[s.body]} = UNION {Caught(g, r, s.handlers) : r \in g[s.body]}
  BY <1>2, <1>4
<1> QED BY <1>3, <1>5 DEF RunsOne

LEMMA RunsDef ==
  /\ Runs \in [Code -> SUBSET AllRuns]
  /\ \A ss \in Code : Runs[ss] = RunsStep(Runs, ss)
<1> DEFINE D == Code
           R == SUBSET AllRuns
           G == [a \in [D -> R] \X D |-> RunsStep(a[1], a[2])]
<1>1. ASSUME NEW ss \in Code, ss # <<>>
      PROVE  /\ Head(ss) \in Statements /\ Tail(ss) \in Code /\ Earlier(Size, Tail(ss), ss)
             /\ \A part \in Parts(Head(ss)) : part \in Code /\ Earlier(Size, part, ss)
  <2>1. Head(ss) \in Statements /\ Head(ss) \in ToSet(ss)
    BY <1>1, CodeParts
  <2>2. \A part \in Parts(Head(ss)) : Part(Head(ss), part)
    BY <2>1, WalkPart
  <2>3. \A part \in Parts(Head(ss)) : part \in Code /\ Earlier(Size, part, ss)
    BY <2>1, <2>2, PartSmaller
  <2> QED BY <1>1, <2>1, <2>3, TailSmaller
<1>2. ASSUME NEW f, NEW ss \in Code, \A u \in Code : Earlier(Size, u, ss) => f[u] \in R
      PROVE  RunsStep(f, ss) \in R
  <2>1. <<>> \in Code
    BY DEF Code
  <2>2. Stopped \in AllRuns /\ Finished \in AllRuns
    BY <2>1 DEF Stopped, Finished, AllRuns
  <2>3. ASSUME ss # <<>>, NEW r \in RunsOne(f, Head(ss)) PROVE Onward(f, r, ss) \in SUBSET AllRuns
    <3>1. r \in AllRuns
      BY <1>1, <1>2, <2>3, RunsOneType
    <3>2. f[Tail(ss)] \in SUBSET AllRuns
      BY <1>1, <1>2, <2>3
    <3> QED BY <3>1, <3>2, JoiningDef DEF Onward
  <2> QED BY <2>2, <2>3 DEF RunsStep
<1>3. ASSUME NEW f \in [D -> R], NEW ss \in D PROVE RunsStep(f, ss) \in R
  <2> HIDE DEF R
  <2> QED BY <1>2
<1>4. G \in [[D -> R] \X D -> R]
  <2> HIDE DEF D, R
  <2> QED BY <1>3
<1>5. ASSUME NEW f \in [D -> R], NEW g \in [D -> R], NEW ss \in D, \A u \in D : Earlier(Size, u, ss) => f[u] = g[u]
      PROVE  RunsStep(f, ss) = RunsStep(g, ss)
  <2>1. CASE ss = <<>>
    BY <2>1 DEF RunsStep
  <2>2. CASE ss # <<>>
    <3>1. f[Tail(ss)] = g[Tail(ss)] /\ \A part \in Parts(Head(ss)) : f[part] = g[part]
      BY <1>1, <1>5, <2>2
    <3>2. RunsOne(f, Head(ss)) = RunsOne(g, Head(ss)) /\ \A r : Onward(f, r, ss) = Onward(g, r, ss)
      BY <3>1, RunsOneLocal DEF Onward
    <3> QED BY <3>2 DEF RunsStep
  <2> QED BY <2>1, <2>2
<1>6. \A f \in [D -> R], ss \in D : G[<<f, ss>>] = RunsStep(f, ss)
  <2> HIDE DEF D, R
  <2> QED OBVIOUS
<1>7. Recursive(D, Size, R, G)
  <2>1. \A f, g \in [D -> R] : \A ss \in D :
          (\A u \in D : Earlier(Size, u, ss) => f[u] = g[u]) => G[<<f, ss>>] = G[<<g, ss>>]
    <3> HIDE DEF D, R, G
    <3> SUFFICES ASSUME NEW f \in [D -> R], NEW g \in [D -> R], NEW ss \in D,
                        \A u \in D : Earlier(Size, u, ss) => f[u] = g[u]
                 PROVE  G[<<f, ss>>] = G[<<g, ss>>]
      OBVIOUS
    <3> QED BY <1>5, <1>6
  <2>2. R # {}
    OBVIOUS
  <2> HIDE DEF R, G
  <2> QED BY <1>4, <2>1, <2>2, SizeType DEF Recursive
<1>8. PICK f \in [D -> R] : \A ss \in D : f[ss] = RunsStep(f, ss)
  <2> HIDE DEF D, R, G
  <2>1. \E f \in [D -> R] : \A ss \in D : f[ss] = G[<<f, ss>>]
    BY <1>7, Recursion
  <2> QED BY <1>6, <2>1
<1>9. f = [ss \in Code |-> RunsStep(f, ss)]
  BY <1>8
<1> DEFINE Text(g, ss) ==
             LET cut == [met |-> <<>>, raised |-> TRUE]
                 catch(r, hs) == IF r.raised /\ hs # <<>>
                                 THEN {[h EXCEPT !.met = r.met \o @] : h \in UNION {g[h] : h \in ToSet(hs)}}
                                 ELSE {r}
                 one(s) == CASE s.kind = "If"    -> UNION {g[b] : b \in ToSet(s.branches) \cup {s.orElse}}
                             [] s.kind = "Block" -> UNION {catch(r, s.handlers) : r \in g[s.body]}
                             [] OTHER            -> {[met |-> <<s>>, raised |-> FALSE]}
                 next(r) == IF r.raised THEN {r} ELSE {[l EXCEPT !.met = r.met \o @] : l \in g[Tail(ss)]}
             IN {cut} \cup IF ss = <<>> THEN {[met |-> <<>>, raised |-> FALSE]}
                            ELSE UNION {next(r) : r \in one(Head(ss))}
<1>10. Runs = [ss \in Code |-> RunsStep(Runs, ss)]
  <2>1. \A g, ss : Text(g, ss) = RunsStep(g, ss)
    BY DEF RunsStep, RunsOne, Onward, Caught, Joining, Single, Stopped, Finished
  <2>2. Runs = CHOOSE g : g = [ss \in Code |-> Text(g, ss)]
    BY DEF Runs
  <2> HIDE DEF Text
  <2>3. f = [ss \in Code |-> Text(f, ss)]
    BY <1>9, <2>1
  <2> QED BY <2>1, <2>2, <2>3
<1>11. \A ss \in Code : Runs[ss] = RunsStep(Runs, ss)
  BY <1>10
<1> DEFINE Fits == {ss \in Code : Runs[ss] \in R}
<1>12. Code \subseteq Fits
  <2>1. ASSUME NEW ss \in Code, \A u \in Code : Earlier(Size, u, ss) => u \in Fits PROVE ss \in Fits
    <3> HIDE DEF R
    <3>1. RunsStep(Runs, ss) \in R
      BY <1>2, <2>1
    <3> QED BY <1>11, <3>1
  <2> HIDE DEF Fits
  <2> QED BY <2>1, CodeInduction
<1>13. Runs \in [Code -> R]
  <2> HIDE DEF R
  <2> QED BY <1>10, <1>12
<1> QED BY <1>11, <1>13

(* What a run meets: without a COMMIT; a write of t with no COMMIT behind; *)
(* a scan of t with no COMMIT before.                                      *)
NoCommit(m)     == \A k \in DOMAIN m : m[k].kind # "Commit"
StaysOpen(m, t) == \E i \in DOMAIN m : t \in m[i].writes /\ \A k \in i..Len(m) : m[k].kind # "Commit"
ScansFirst(m, t) ==
  \E j \in DOMAIN m : t \in m[j].reads /\ ~m[j].keyed /\ \A k \in 1..j : m[k].kind # "Commit"

(* One run followed by another *)
LEMMA MetJoined ==
  ASSUME NEW m \in Code, NEW n \in Code, NEW t
  PROVE  LET b == m \o n
         IN /\ NoCommit(m) /\ NoCommit(n) => NoCommit(b)
            /\ StaysOpen(n, t) => StaysOpen(b, t)
            /\ StaysOpen(m, t) /\ NoCommit(n) => StaysOpen(b, t)
            /\ ScansFirst(m, t) => ScansFirst(b, t)
            /\ NoCommit(m) /\ ScansFirst(n, t) => ScansFirst(b, t)
            /\ ScansWritten(m, t) => ScansWritten(b, t)
            /\ ScansWritten(n, t) => ScansWritten(b, t)
            /\ StaysOpen(m, t) /\ ScansFirst(n, t) => ScansWritten(b, t)
<1> DEFINE b == m \o n
           M == Len(m)
           N == Len(n)
<1>1. /\ M \in Nat /\ N \in Nat /\ DOMAIN m = 1..M /\ DOMAIN n = 1..N /\ DOMAIN b = 1..(M + N) /\ Len(b) = M + N
      /\ \A k \in 1..M : b[k] = m[k]
      /\ \A k \in 1..N : b[M + k] = n[k]
  BY DEF Code
<1>2. \A k \in 1..(M + N) : k > M => k - M \in 1..N /\ b[k] = n[k - M]
  <2> SUFFICES ASSUME NEW k \in 1..(M + N), k > M PROVE k - M \in 1..N /\ b[k] = n[k - M]
    OBVIOUS
  <2>1. k - M \in 1..N /\ M + (k - M) = k
    BY <1>1
  <2> HIDE DEF b, M, N
  <2> QED BY <1>1, <2>1
<1> HIDE DEF b, M, N
<1>3. NoCommit(m) /\ NoCommit(n) => NoCommit(b)
  BY <1>1, <1>2 DEF NoCommit
<1>4. ASSUME StaysOpen(n, t) PROVE StaysOpen(b, t)
  <2>1. PICK i \in 1..N : t \in n[i].writes /\ \A k \in i..N : n[k].kind # "Commit"
    BY <1>1, <1>4 DEF StaysOpen, N
  <2>2. M + i \in DOMAIN b /\ t \in b[M + i].writes
    BY <1>1, <2>1
  <2>3. \A k \in (M + i)..(M + N) : k > M /\ k \in 1..(M + N) /\ k - M \in i..N
    BY <1>1, <2>1
  <2>4. \A k \in (M + i)..Len(b) : b[k].kind # "Commit"
    BY <1>1, <1>2, <2>1, <2>3
  <2> QED BY <2>2, <2>4 DEF StaysOpen
<1>5. ASSUME StaysOpen(m, t) PROVE \E i \in 1..M : t \in b[i].writes /\ \A k \in i..M : b[k].kind # "Commit"
  <2>1. PICK i \in 1..M : t \in m[i].writes /\ \A k \in i..M : m[k].kind # "Commit"
    BY <1>1, <1>5 DEF StaysOpen, M
  <2>2. \A k \in i..M : k \in 1..M
    BY <1>1, <2>1
  <2> QED BY <1>1, <2>1, <2>2
<1>6. ASSUME StaysOpen(m, t), NoCommit(n) PROVE StaysOpen(b, t)
  <2>1. PICK i \in 1..M : t \in b[i].writes /\ \A k \in i..M : b[k].kind # "Commit"
    BY <1>5, <1>6
  <2>2. ASSUME NEW k \in i..(M + N) PROVE b[k].kind # "Commit"
    <3>1. CASE k <= M
      BY <1>1, <2>1, <3>1
    <3>2. CASE k > M
      BY <1>1, <1>2, <1>6, <2>1, <3>2 DEF NoCommit
    <3> QED BY <1>1, <2>1, <3>1, <3>2
  <2>3. i \in DOMAIN b /\ t \in b[i].writes
    BY <1>1, <2>1
  <2>4. \A k \in i..Len(b) : b[k].kind # "Commit"
    BY <1>1, <2>2
  <2> QED BY <2>3, <2>4 DEF StaysOpen
<1>7. ASSUME ScansFirst(m, t) PROVE ScansFirst(b, t)
  <2>1. PICK j \in 1..M : t \in m[j].reads /\ ~m[j].keyed /\ \A k \in 1..j : m[k].kind # "Commit"
    BY <1>1, <1>7 DEF ScansFirst
  <2>2. \A k \in 1..j : k \in 1..M
    BY <1>1, <2>1
  <2>3. j \in DOMAIN b /\ t \in b[j].reads /\ ~b[j].keyed /\ \A k \in 1..j : b[k].kind # "Commit"
    BY <1>1, <2>1, <2>2
  <2> QED BY <2>3 DEF ScansFirst
<1>8. ASSUME ScansFirst(n, t)
      PROVE  \E j \in 1..N : /\ M + j \in DOMAIN b /\ t \in b[M + j].reads /\ ~b[M + j].keyed
                             /\ \A k \in (M + 1)..(M + j) : b[k].kind # "Commit"
  <2>1. PICK j \in 1..N : t \in n[j].reads /\ ~n[j].keyed /\ \A k \in 1..j : n[k].kind # "Commit"
    BY <1>1, <1>8 DEF ScansFirst
  <2>2. \A k \in (M + 1)..(M + j) : k > M /\ k \in 1..(M + N) /\ k - M \in 1..j
    BY <1>1, <2>1
  <2>3. \A k \in (M + 1)..(M + j) : b[k].kind # "Commit"
    BY <1>2, <2>1, <2>2
  <2>4. M + j \in DOMAIN b /\ t \in b[M + j].reads /\ ~b[M + j].keyed
    BY <1>1, <2>1
  <2> QED BY <2>3, <2>4
<1>9. ASSUME NoCommit(m), ScansFirst(n, t) PROVE ScansFirst(b, t)
  <2>1. PICK j \in 1..N : /\ M + j \in DOMAIN b /\ t \in b[M + j].reads /\ ~b[M + j].keyed
                          /\ \A k \in (M + 1)..(M + j) : b[k].kind # "Commit"
    BY <1>8, <1>9
  <2>2. ASSUME NEW k \in 1..(M + j) PROVE b[k].kind # "Commit"
    <3>1. CASE k <= M
      BY <1>1, <1>9, <3>1 DEF NoCommit
    <3>2. CASE k > M
      BY <1>1, <2>1, <3>2
    <3> QED BY <1>1, <2>1, <3>1, <3>2
  <2> QED BY <2>1, <2>2 DEF ScansFirst
<1>10. ASSUME ScansWritten(m, t) PROVE ScansWritten(b, t)
  <2>1. PICK j \in 1..M : \E i \in 1..(j - 1) : /\ t \in m[i].writes
                                               /\ t \in m[j].reads /\ ~m[j].keyed
                                               /\ \A k \in i..j : m[k].kind # "Commit"
    BY <1>1, <1>10 DEF ScansWritten
  <2>2. PICK i \in 1..(j - 1) : /\ t \in m[i].writes
                                /\ t \in m[j].reads /\ ~m[j].keyed
                                /\ \A k \in i..j : m[k].kind # "Commit"
    BY <2>1
  <2>3. i \in 1..M /\ j \in DOMAIN b /\ \A k \in i..j : k \in 1..M
    BY <1>1, <2>1, <2>2
  <2>4. t \in b[i].writes /\ t \in b[j].reads /\ ~b[j].keyed /\ \A k \in i..j : b[k].kind # "Commit"
    BY <1>1, <2>2, <2>3
  <2> QED BY <2>2, <2>3, <2>4 DEF ScansWritten
<1>11. ASSUME ScansWritten(n, t) PROVE ScansWritten(b, t)
  <2>1. PICK j \in 1..N : \E i \in 1..(j - 1) : /\ t \in n[i].writes
                                               /\ t \in n[j].reads /\ ~n[j].keyed
                                               /\ \A k \in i..j : n[k].kind # "Commit"
    BY <1>1, <1>11 DEF ScansWritten
  <2>2. PICK i \in 1..(j - 1) : /\ t \in n[i].writes
                                /\ t \in n[j].reads /\ ~n[j].keyed
                                /\ \A k \in i..j : n[k].kind # "Commit"
    BY <2>1
  <2>3. /\ i \in 1..N /\ M + j \in DOMAIN b /\ M + i \in 1..((M + j) - 1)
        /\ \A k \in (M + i)..(M + j) : k > M /\ k \in 1..(M + N) /\ k - M \in i..j
    BY <1>1, <2>1, <2>2
  <2>4. t \in b[M + i].writes /\ t \in b[M + j].reads /\ ~b[M + j].keyed
    BY <1>1, <2>2, <2>3
  <2>5. \A k \in (M + i)..(M + j) : b[k].kind # "Commit"
    BY <1>2, <2>2, <2>3
  <2> QED BY <2>3, <2>4, <2>5 DEF ScansWritten
<1>12. ASSUME StaysOpen(m, t), ScansFirst(n, t) PROVE ScansWritten(b, t)
  <2>1. PICK i \in 1..M : t \in b[i].writes /\ \A k \in i..M : b[k].kind # "Commit"
    BY <1>5, <1>12
  <2>2. PICK j \in 1..N : /\ M + j \in DOMAIN b /\ t \in b[M + j].reads /\ ~b[M + j].keyed
                          /\ \A k \in (M + 1)..(M + j) : b[k].kind # "Commit"
    BY <1>8, <1>12
  <2>3. ASSUME NEW k \in i..(M + j) PROVE b[k].kind # "Commit"
    <3>1. CASE k <= M
      BY <1>1, <2>1, <3>1
    <3>2. CASE k > M
      BY <1>1, <2>1, <2>2, <3>2
    <3> QED BY <1>1, <2>1, <2>2, <3>1, <3>2
  <2>4. i \in 1..((M + j) - 1)
    BY <1>1, <2>1, <2>2
  <2> QED BY <2>1, <2>2, <2>3, <2>4 DEF ScansWritten
<1> QED BY <1>3, <1>4, <1>6, <1>7, <1>9, <1>10, <1>11, <1>12 DEF b

(* The runs of a sequence: cut short at once, or one of its first          *)
(* statement and then, unless an exception was raised, one of the rest.    *)
LEMMA RunsParts ==
  ASSUME NEW ss \in Code
  PROVE  /\ Runs[ss] \in SUBSET AllRuns /\ Stopped \in Runs[ss] /\ Stopped \in AllRuns
         /\ ss = <<>> => Finished \in Runs[ss]
         /\ ss # <<>> => \A r \in RunsOne(Runs, Head(ss)) :
              /\ r \in AllRuns
              /\ r.raised => r \in Runs[ss]
              /\ ~r.raised => \A l \in Runs[Tail(ss)] : [met |-> r.met \o l.met, raised |-> l.raised] \in Runs[ss]
<1>1. Runs[ss] \in SUBSET AllRuns /\ Runs[ss] = RunsStep(Runs, ss)
  BY RunsDef
<1>2. Stopped \in Runs[ss]
  BY <1>1 DEF RunsStep
<1>3. ss = <<>> => Finished \in Runs[ss]
  BY <1>1 DEF RunsStep
<1>4. ASSUME ss # <<>>, NEW r \in RunsOne(Runs, Head(ss))
      PROVE  /\ r \in AllRuns
             /\ r.raised => r \in Runs[ss]
             /\ ~r.raised => \A l \in Runs[Tail(ss)] : [met |-> r.met \o l.met, raised |-> l.raised] \in Runs[ss]
  <2>1. Head(ss) \in Statements /\ Tail(ss) \in Code /\ Head(ss) \in ToSet(ss)
    BY <1>4, CodeParts
  <2>2. \A part \in Parts(Head(ss)) : Runs[part] \in SUBSET AllRuns
    <3>1. \A part \in Parts(Head(ss)) : part \in Code
      BY <2>1, WalkPart
    <3> QED BY <3>1, RunsDef
  <2>3. r \in AllRuns
    BY <1>4, <2>1, <2>2, RunsOneType
  <2>4. Onward(Runs, r, ss) \subseteq Runs[ss]
    BY <1>1, <1>4 DEF RunsStep
  <2>5. Runs[Tail(ss)] \in SUBSET AllRuns
    BY <2>1, RunsDef
  <2>6. r.raised => r \in Runs[ss]
    BY <2>4 DEF Onward
  <2>7. ~r.raised => Joining(r, Runs[Tail(ss)]) \subseteq Runs[ss]
    BY <2>4 DEF Onward
  <2>8. Joining(r, Runs[Tail(ss)]) = {[met |-> r.met \o l.met, raised |-> l.raised] : l \in Runs[Tail(ss)]}
    BY <2>3, <2>5, JoiningDef
  <2>9. ~r.raised => \A l \in Runs[Tail(ss)] : [met |-> r.met \o l.met, raised |-> l.raised] \in Runs[ss]
    BY <2>7, <2>8
  <2> QED BY <2>3, <2>6, <2>9
<1> QED BY <1>1, <1>2, <1>3, <1>4

(* The runs of one statement: of a branch; of a block's body, or of a      *)
(* handler behind what of the body ran; the statement alone.               *)
LEMMA RunsOneDef ==
  ASSUME NEW s \in Statements
  PROVE  /\ RunsOne(Runs, s) \in SUBSET AllRuns
         /\ s.kind = "If" => \A b \in ToSet(s.branches) \cup {s.orElse} : Runs[b] \subseteq RunsOne(Runs, s)
         /\ s.kind = "Block" => \A r \in Runs[s.body] :
              /\ ~r.raised \/ s.handlers = <<>> => r \in RunsOne(Runs, s)
              /\ r.raised => \A h \in ToSet(s.handlers) : \A l \in Runs[h] :
                   [met |-> r.met \o l.met, raised |-> l.raised] \in RunsOne(Runs, s)
         /\ s.kind \notin {"If", "Block"} => Single(s) \in RunsOne(Runs, s)
<1>1. \A part \in Parts(s) : part \in Code /\ Runs[part] \in SUBSET AllRuns
  <2>1. \A part \in Parts(s) : part \in Code
    BY StatementParts DEF Part, Parts
  <2> QED BY <2>1, RunsDef
<1>2. RunsOne(Runs, s) \in SUBSET AllRuns
  BY <1>1, RunsOneType
<1>3. s.kind = "If" => \A b \in ToSet(s.branches) \cup {s.orElse} : Runs[b] \subseteq RunsOne(Runs, s)
  BY DEF RunsOne
<1>4. s.kind \notin {"If", "Block"} => Single(s) \in RunsOne(Runs, s)
  BY DEF RunsOne
<1>5. ASSUME s.kind = "Block", NEW r \in Runs[s.body]
      PROVE  /\ ~r.raised \/ s.handlers = <<>> => r \in RunsOne(Runs, s)
             /\ r.raised => \A h \in ToSet(s.handlers) : \A l \in Runs[h] :
                  [met |-> r.met \o l.met, raised |-> l.raised] \in RunsOne(Runs, s)
  <2>1. Caught(Runs, r, s.handlers) \subseteq RunsOne(Runs, s)
    BY <1>5 DEF RunsOne
  <2>2. ~r.raised \/ s.handlers = <<>> => r \in RunsOne(Runs, s)
    BY <2>1 DEF Caught
  <2> DEFINE H == UNION {Runs[h] : h \in ToSet(s.handlers)}
  <2>3. ASSUME r.raised, NEW h \in ToSet(s.handlers), NEW l \in Runs[h]
        PROVE  [met |-> r.met \o l.met, raised |-> l.raised] \in RunsOne(Runs, s)
    <3>1. s.handlers # <<>>
      BY <2>3, EmptySet
    <3>2. Joining(r, H) \subseteq RunsOne(Runs, s)
      BY <2>1, <2>3, <3>1 DEF Caught
    <3>3. r \in AllRuns /\ H \in SUBSET AllRuns
      BY <1>1 DEF Parts
    <3>4. l \in H
      OBVIOUS
    <3> HIDE DEF H
    <3>5. Joining(r, H) = {[met |-> r.met \o k.met, raised |-> k.raised] : k \in H}
      BY <3>3, JoiningDef
    <3> QED BY <3>2, <3>4, <3>5
  <2> QED BY <2>2, <2>3
<1> QED BY <1>2, <1>3, <1>4, <1>5

LEMMA JoinNothing == \A m \in Code : m \o <<>> = m /\ <<>> \o m = m
BY DEF Code

(* Whether a run that starts where `acc` has been written and found        *)
(* leaves t written, and whether it has scanned t after writing it         *)
LeavesWritten(m, acc, t) == StaysOpen(m, t) \/ (t \in acc.written /\ NoCommit(m))
HasScanned(m, acc, t)    == t \in acc.found \/ ScansWritten(m, t) \/ (t \in acc.written /\ ScansFirst(m, t))

(* What the analysis says is written or found is so in one of the runs *)
Shown(runs, acc, end) ==
  /\ \A t \in end.written : \E r \in runs : ~r.raised /\ LeavesWritten(r.met, acc, t)
  /\ \A t \in end.found : \E r \in runs : HasScanned(r.met, acc, t)
  /\ \E r \in runs : ~r.raised

Exact(p, ss) ==
  /\ \A acc \in Accs : Shown(Runs[ss], acc, Visit(p)[ss][acc])
  /\ \A t \in WritesIn(p, ss) : \E r \in Runs[ss] : r.raised /\ StaysOpen(r.met, t)

LEMMA ShownJoined ==
  ASSUME NEW r \in AllRuns, NEW l \in AllRuns, NEW acc, NEW mid, NEW t
  PROVE  LET m == r.met \o l.met
         IN /\ StaysOpen(l.met, t) => StaysOpen(m, t)
            /\ LeavesWritten(r.met, acc, t) /\ NoCommit(l.met) => LeavesWritten(m, acc, t)
            /\ StaysOpen(l.met, t) => LeavesWritten(m, acc, t)
            /\ HasScanned(r.met, acc, t) => HasScanned(m, acc, t)
            /\ ScansWritten(l.met, t) => HasScanned(m, acc, t)
            /\ LeavesWritten(r.met, acc, t) /\ ScansFirst(l.met, t) => HasScanned(m, acc, t)
<1>1. r.met \in Code /\ l.met \in Code
  BY DEF AllRuns
<1> QED BY <1>1, MetJoined DEF LeavesWritten, HasScanned

LEMMA ShownSingle ==
  ASSUME NEW s \in Statements, s.kind # "Commit", NEW acc \in Accs, NEW t
  PROVE  /\ t \in s.writes => StaysOpen(<<s>>, t)
         /\ t \in acc.written \cup s.writes => LeavesWritten(<<s>>, acc, t)
         /\ t \in acc.found \cup Scans(s, acc.written) => HasScanned(<<s>>, acc, t)
<1> DEFINE m == <<s>>
<1>1. DOMAIN m = {1} /\ m[1] = s /\ Len(m) = 1
  OBVIOUS
<1> HIDE DEF m
<1>2. NoCommit(m)
  BY <1>1 DEF NoCommit
<1>3. t \in s.writes => StaysOpen(m, t)
  <2>1. \A k \in 1..Len(m) : k = 1
    BY <1>1
  <2> QED BY <1>1, <2>1 DEF StaysOpen
<1>4. t \in Scans(s, acc.written) => t \in acc.written /\ ScansFirst(m, t)
  <2>1. \A k \in 1..1 : k = 1
    OBVIOUS
  <2>2. t \in Scans(s, acc.written) => t \in acc.written /\ t \in s.reads /\ ~s.keyed
    BY DEF Scans
  <2> QED BY <1>1, <2>1, <2>2 DEF ScansFirst
<1> QED BY <1>2, <1>3, <1>4 DEF m, LeavesWritten, HasScanned

(* The parts of a statement without calls, by its kind *)
LEMMA LinearWritesOfOne ==
  ASSUME NEW p, IsProgram(p), NEW s \in Statements, LinearStatement(s)
  PROVE  /\ s.kind \in {"Plain", "Sql", "Commit"} => WritesOfOne(p, s) \subseteq s.writes
         /\ s.kind = "If" => WritesOfOne(p, s) \subseteq UNION {WritesIn(p, b) : b \in ToSet(s.branches) \cup {s.orElse}}
         /\ s.kind = "Block" => WritesOfOne(p, s) \subseteq UNION {WritesIn(p, b) : b \in {s.body} \cup ToSet(s.handlers)}
         /\ s.kind # "Sql" => s.writes = {} /\ Scans(s, Tables) = {}
<1>1. IsStatement(s) /\ s.calls = <<>>
  BY StatementsAssumption DEF LinearStatement
<1>2. Written(Ran(p, Callees(s))) = {}
  <2>1. Callees(s) \in Seq(Routines) /\ ToSet(Callees(s)) = {}
    BY <1>1, CalleesDef, EmptySet
  <2>2. ToSet(Ran(p, Callees(s))) = {}
    BY <2>1, RanDef
  <2> QED BY <2>2 DEF Written
<1>3. s.kind # "Sql" => s.writes = {} /\ Scans(s, Tables) = {}
  BY ScansDef
<1>4. WritesIn(p, <<>>) = {}
  BY WritesNothing
<1>5. WritesOfOne(p, s) = s.writes \cup UNION {WritesIn(p, part) : part \in Parts(s)}
  BY <1>2 DEF WritesOfOne
<1>6. ASSUME s.kind \in {"Plain", "Sql", "Commit"} PROVE WritesOfOne(p, s) \subseteq s.writes
  <2>1. Parts(s) = {<<>>}
    BY <1>1, <1>6, EmptySet DEF Parts, IsStatement, Simple
  <2> QED BY <1>4, <1>5, <2>1
<1>7. ASSUME s.kind = "If"
      PROVE  WritesOfOne(p, s) \subseteq UNION {WritesIn(p, b) : b \in ToSet(s.branches) \cup {s.orElse}}
  <2>1. Parts(s) = ToSet(s.branches) \cup {s.orElse, <<>>}
    BY <1>1, <1>7, EmptySet DEF Parts, IsStatement
  <2> QED BY <1>3, <1>4, <1>5, <1>7, <2>1
<1>8. ASSUME s.kind = "Block"
      PROVE  WritesOfOne(p, s) \subseteq UNION {WritesIn(p, b) : b \in {s.body} \cup ToSet(s.handlers)}
  <2>1. Parts(s) = {s.body, <<>>} \cup ToSet(s.handlers)
    BY <1>1, <1>8, EmptySet DEF Parts, IsStatement
  <2> QED BY <1>3, <1>4, <1>5, <1>8, <2>1
<1> QED BY <1>3, <1>6, <1>7, <1>8

(* A block: what its body leaves and finds, or a handler after what the    *)
(* body had written when the exception came.                               *)
LEMMA ShownBlock ==
  ASSUME NEW p, IsProgram(p), NEW s \in Statements, LinearStatement(s), s.kind = "Block", NEW acc \in Accs,
         Exact(p, s.body), \A h \in ToSet(s.handlers) : Exact(p, h)
  PROVE  /\ Shown(RunsOne(Runs, s), acc, VisitOne(p, Visit(p), s, acc))
         /\ \A t \in WritesOfOne(p, s) : \E r \in RunsOne(Runs, s) : StaysOpen(r.met, t)
<1> DEFINE V == Visit(p)
           D == Reaches(p, s, acc)
           X == VisitOne(p, V, s, acc)
           E == V[s.body][acc]
           I == Interrupted(p, s, acc, E)
           O == RunsOne(Runs, s)
           B == Runs[s.body]
           W == WritesIn(p, s.body)
<1>1. s.body \in Code /\ \A h \in ToSet(s.handlers) : h \in Code
  BY StatementParts DEF Part
<1>2. D = acc
  <2>1. s.writes = {} /\ Scans(s, acc.written) = {}
    BY ScansDef DEF Accs
  <2>2. D \in Accs /\ D.written = acc.written \cup s.writes /\ D.found = acc.found \cup Scans(s, acc.written)
    BY LinearReaches
  <2> HIDE DEF D
  <2>3. D.written = acc.written /\ D.found = acc.found
    BY <2>1, <2>2
  <2> QED BY <2>2, <2>3 DEF Accs
<1>3. /\ E \in Accs /\ I \in Accs
      /\ X = Union({E} \cup {V[h][I] : h \in ToSet(s.handlers)})
  <2>1. Kinds(p, s, acc)
    BY VisitOneKinds
  <2> QED BY <1>2, <2>1 DEF Kinds
<1>4. /\ B \in SUBSET AllRuns /\ Stopped \in B /\ Stopped \in AllRuns
      /\ \A h \in ToSet(s.handlers) : Runs[h] \in SUBSET AllRuns /\ Stopped \in Runs[h]
  BY <1>1, RunsParts
<1>5. Stopped.raised /\ Stopped.met = <<>>
  BY DEF Stopped
<1>6. /\ O \in SUBSET AllRuns
      /\ \A r \in B : ~r.raised \/ s.handlers = <<>> => r \in O
      /\ \A r \in B : r.raised => \A h \in ToSet(s.handlers) : \A l \in Runs[h] :
           [met |-> r.met \o l.met, raised |-> l.raised] \in O
  BY RunsOneDef
<1>7. /\ Shown(B, acc, E)
      /\ \A t \in W : \E r \in B : r.raised /\ StaysOpen(r.met, t)
      /\ \A h \in ToSet(s.handlers) : Shown(Runs[h], I, V[h][I])
  BY <1>3 DEF Exact
<1>8. I.found = E.found /\ I.written \subseteq acc.written \cup W
  <2>1. E.written \subseteq acc.written \cup W
    BY <1>1, VisitBounds
  <2> HIDE DEF E, W
  <2>2. I = [E EXCEPT !.written = (@ \cup acc.written) \cup W]
    BY DEF I, Interrupted, W
  <2> QED BY <1>3, <2>1, <2>2 DEF Accs
<1>9. X.written = E.written \cup UNION {V[h][I].written : h \in ToSet(s.handlers)}
      /\ X.found = E.found \cup UNION {V[h][I].found : h \in ToSet(s.handlers)}
  <2> HIDE DEF E, I, V, X
  <2> QED BY <1>3 DEF Union
<1>10. \A m \in AllRuns : /\ m.met \in Code
                          /\ [met |-> <<>> \o m.met, raised |-> m.raised] = m
                          /\ [met |-> m.met \o <<>>, raised |-> TRUE].met = m.met
  BY JoinNothing DEF AllRuns
<1> HIDE DEF V, D, X, E, I, O, B, W
(* A run of the body, up to its end or to where a handler begins *)
<1>11. ASSUME NEW r \in B PROVE \E q \in O : q.met = r.met /\ (~r.raised => ~q.raised)
  <2>1. CASE ~r.raised \/ s.handlers = <<>>
    BY <1>6, <2>1
  <2>2. CASE r.raised /\ s.handlers # <<>>
    <3>1. PICK h \in ToSet(s.handlers) : TRUE
      <4>1. s.handlers \in Seq(Code)
        BY StatementsAssumption DEF IsStatement
      <4> QED BY <2>2, <4>1, SeqMembers
    <3>2. [met |-> r.met \o Stopped.met, raised |-> Stopped.raised] \in O
      BY <1>4, <1>6, <2>2
    <3>3. r.met \o Stopped.met = r.met
      BY <1>4, <1>5, JoinNothing DEF AllRuns
    <3> QED BY <2>2, <3>2, <3>3
  <2> QED BY <1>4, <2>1, <2>2 DEF AllRuns
(* A run of a handler, after an exception before anything ran *)
<1>12. ASSUME NEW h \in ToSet(s.handlers) PROVE Runs[h] \subseteq O
  <2>1. ASSUME NEW l \in Runs[h] PROVE l \in O
    <3>1. [met |-> Stopped.met \o l.met, raised |-> l.raised] \in O
      BY <1>4, <1>5, <1>6
    <3>2. l \in AllRuns
      BY <1>4
    <3> QED BY <1>5, <1>10, <3>1, <3>2
  <2> QED BY <2>1
(* A run of a handler, after one of the body that left t written *)
<1>13. ASSUME NEW t \in W, NEW h \in ToSet(s.handlers), NEW l \in Runs[h]
       PROVE  \E r \in B : /\ r \in AllRuns /\ l \in AllRuns /\ StaysOpen(r.met, t)
                           /\ [met |-> r.met \o l.met, raised |-> l.raised] \in O
  BY <1>4, <1>6, <1>7
<1>14. ASSUME NEW t \in X.written PROVE \E r \in O : ~r.raised /\ LeavesWritten(r.met, acc, t)
  <2>1. CASE t \in E.written
    <3>1. PICK r \in B : ~r.raised /\ LeavesWritten(r.met, acc, t)
      BY <1>7, <2>1 DEF Shown
    <3> QED BY <1>6, <3>1
  <2>2. ASSUME NEW h \in ToSet(s.handlers), t \in V[h][I].written
        PROVE  \E r \in O : ~r.raised /\ LeavesWritten(r.met, acc, t)
    <3>1. PICK l \in Runs[h] : ~l.raised /\ LeavesWritten(l.met, I, t)
      BY <1>7, <2>2 DEF Shown
    <3>2. CASE LeavesWritten(l.met, acc, t)
      BY <1>12, <3>1, <3>2
    <3>3. CASE ~LeavesWritten(l.met, acc, t)
      <4>1. t \in W /\ NoCommit(l.met)
        BY <1>8, <3>1, <3>3 DEF LeavesWritten
      <4>2. PICK r \in B : /\ r \in AllRuns /\ l \in AllRuns /\ StaysOpen(r.met, t)
                           /\ [met |-> r.met \o l.met, raised |-> l.raised] \in O
        BY <1>13, <4>1
      <4>3. LeavesWritten(r.met \o l.met, acc, t)
        BY <4>1, <4>2, ShownJoined DEF LeavesWritten
      <4> QED BY <3>1, <4>2, <4>3
    <3> QED BY <3>2, <3>3
  <2> QED BY <1>9, <2>1, <2>2
<1>15. ASSUME NEW t \in X.found PROVE \E r \in O : HasScanned(r.met, acc, t)
  <2>1. ASSUME t \in E.found PROVE \E r \in O : HasScanned(r.met, acc, t)
    <3>1. PICK r \in B : HasScanned(r.met, acc, t)
      BY <1>7, <2>1 DEF Shown
    <3> QED BY <1>11, <3>1
  <2>2. ASSUME NEW h \in ToSet(s.handlers), t \in V[h][I].found
        PROVE  \E r \in O : HasScanned(r.met, acc, t)
    <3>1. PICK l \in Runs[h] : HasScanned(l.met, I, t)
      BY <1>7, <2>2 DEF Shown
    <3>2. CASE t \in E.found
      BY <2>1, <3>2
    <3>3. CASE HasScanned(l.met, acc, t)
      BY <1>12, <3>1, <3>3
    <3>4. CASE t \notin E.found /\ ~HasScanned(l.met, acc, t)
      <4>1. t \in W /\ ScansFirst(l.met, t)
        BY <1>8, <3>1, <3>4 DEF HasScanned
      <4>2. PICK r \in B : /\ r \in AllRuns /\ l \in AllRuns /\ StaysOpen(r.met, t)
                           /\ [met |-> r.met \o l.met, raised |-> l.raised] \in O
        BY <1>13, <4>1
      <4>3. HasScanned(r.met \o l.met, acc, t)
        BY <4>1, <4>2, ShownJoined DEF LeavesWritten
      <4> QED BY <4>2, <4>3
    <3> QED BY <3>2, <3>3, <3>4
  <2> QED BY <1>9, <2>1, <2>2
<1>16. \E r \in O : ~r.raised
  BY <1>6, <1>7 DEF Shown
<1>17. ASSUME NEW t \in WritesOfOne(p, s) PROVE \E r \in O : StaysOpen(r.met, t)
  <2>1. t \in UNION {WritesIn(p, b) : b \in {s.body} \cup ToSet(s.handlers)}
    BY LinearWritesOfOne
  <2>2. CASE t \in W
    BY <1>7, <1>11, <2>2
  <2>3. ASSUME NEW h \in ToSet(s.handlers), t \in WritesIn(p, h) PROVE \E r \in O : StaysOpen(r.met, t)
    BY <1>12, <2>3 DEF Exact
  <2> QED BY <2>1, <2>2, <2>3 DEF W
<1> QED BY <1>14, <1>15, <1>16, <1>17 DEF Shown, O, X, V

LEMMA ShownOne ==
  ASSUME NEW p, IsProgram(p), NEW s \in Statements, LinearStatement(s), NEW acc \in Accs,
         \A part \in Parts(s) : Exact(p, part)
  PROVE  /\ Shown(RunsOne(Runs, s), acc, VisitOne(p, Visit(p), s, acc))
         /\ \A t \in WritesOfOne(p, s) : \E r \in RunsOne(Runs, s) : StaysOpen(r.met, t)
<1> DEFINE V == Visit(p)
           D == Reaches(p, s, acc)
           X == VisitOne(p, V, s, acc)
           O == RunsOne(Runs, s)
<1>1. /\ D \in Accs /\ D.written = acc.written \cup s.writes /\ D.found = acc.found \cup Scans(s, acc.written)
  BY LinearReaches
<1>2. /\ s.kind = "Commit" => X = [acc EXCEPT !.written = {}]
      /\ s.kind \in {"Plain", "Sql"} => X = D
      /\ s.kind = "If" => X = Union({V[b][D] : b \in ToSet(s.branches) \cup {s.orElse}})
  <2>1. Kinds(p, s, acc)
    BY VisitOneKinds
  <2> QED BY <2>1 DEF Kinds, Simple
<1>3. Scans(s, acc.written) \subseteq Scans(s, Tables)
  BY ScansDef DEF Accs
<1> HIDE DEF D, X, V, O
<1>4. Single(s).met = <<s>> /\ ~Single(s).raised
  BY DEF Single
<1>5. CASE s.kind \in {"Plain", "Sql"}
  <2>1. Single(s) \in O
    BY <1>5, RunsOneDef DEF O
  <2>2. \A t : /\ t \in X.written => LeavesWritten(<<s>>, acc, t)
               /\ t \in X.found => HasScanned(<<s>>, acc, t)
               /\ t \in s.writes => StaysOpen(<<s>>, t)
    BY <1>1, <1>2, <1>5, ShownSingle
  <2>3. WritesOfOne(p, s) \subseteq s.writes
    BY <1>5, LinearWritesOfOne
  <2> QED BY <1>4, <2>1, <2>2, <2>3 DEF Shown, O, X, V
<1>6. CASE s.kind = "Commit"
  <2>1. Single(s) \in O
    BY <1>6, RunsOneDef DEF O
  <2>2. X.written = {} /\ X.found = acc.found
    BY <1>2, <1>6 DEF Accs
  <2>3. WritesOfOne(p, s) = {}
    BY <1>6, LinearWritesOfOne
  <2> QED BY <1>4, <2>1, <2>2, <2>3 DEF Shown, HasScanned, O, X, V
<1>7. CASE s.kind = "If"
  <2> DEFINE bs == ToSet(s.branches) \cup {s.orElse}
  <2>1. s.writes = {} /\ Scans(s, acc.written) = {}
    BY <1>3, <1>7, LinearWritesOfOne
  <2>2. D = acc
    <3>1. D.written = acc.written /\ D.found = acc.found
      BY <1>1, <2>1
    <3> QED BY <1>1, <3>1 DEF Accs
  <2>3. X.written = UNION {V[b][acc].written : b \in bs} /\ X.found = UNION {V[b][acc].found : b \in bs}
    BY <1>2, <1>7, <2>2 DEF Union
  <2>4. \A b \in bs : Runs[b] \subseteq O
    BY <1>7, RunsOneDef DEF O
  <2>5. \A b \in bs : Shown(Runs[b], acc, V[b][acc]) /\ \A t \in WritesIn(p, b) : \E r \in Runs[b] : r.raised /\ StaysOpen(r.met, t)
    BY DEF Parts, Exact, V
  <2>6. \A t \in WritesOfOne(p, s) : \E b \in bs : t \in WritesIn(p, b)
    BY <1>7, LinearWritesOfOne
  <2>7. s.orElse \in bs
    OBVIOUS
  <2> HIDE DEF bs
  <2>8. Shown(O, acc, X)
    BY <2>3, <2>4, <2>5, <2>7 DEF Shown
  <2>9. \A t \in WritesOfOne(p, s) : \E r \in O : StaysOpen(r.met, t)
    BY <2>4, <2>5, <2>6
  <2> QED BY <2>8, <2>9 DEF O, X, V
<1>8. CASE s.kind = "Block"
  BY <1>8, ShownBlock DEF Parts
<1> QED BY <1>5, <1>6, <1>7, <1>8 DEF LinearStatement

(* What a visit says is written or found in a sequence without loops,      *)
(* jumps and calls is so in one of its runs.                               *)
LEMMA ExactHolds ==
  ASSUME NEW p, IsProgram(p), NEW ss \in Code, Linear(ss)
  PROVE  Exact(p, ss)
<1> DEFINE Fits(u) == Linear(u) => Exact(p, u)
           Fine == {u \in Code : Fits(u)}
<1>1. ASSUME NEW u \in Code, \A v \in Code : Earlier(Size, v, u) => v \in Fine, Linear(u) PROVE Exact(p, u)
  <2>1. CASE u = <<>>
    <3>1. NoCommit(<<>>)
      BY DEF NoCommit
    <3>2. Finished \in Runs[u] /\ ~Finished.raised /\ Finished.met = <<>>
      BY <2>1, RunsParts DEF Finished
    <3>3. WritesIn(p, u) = {} /\ \A acc \in Accs : Visit(p)[u][acc] = acc
      BY <2>1, WritesNothing, VisitDef
    <3>4. ASSUME NEW acc \in Accs PROVE Shown(Runs[u], acc, acc)
      BY <3>1, <3>2 DEF Shown, LeavesWritten, HasScanned
    <3> QED BY <3>3, <3>4 DEF Exact
  <2>2. CASE u # <<>>
    <3> DEFINE h == Head(u)
               v == Tail(u)
               O == RunsOne(Runs, h)
    <3>1. h \in Statements /\ h \in ToSet(u) /\ v \in Code /\ ToSet(u) = {h} \cup ToSet(v)
      BY <2>2, CodeParts
    <3>2. v \in Fine /\ Linear(v)
      BY <1>1, <2>2, TailSmaller, LinearParts
    <3>3. LinearStatement(h) /\ \A part \in Parts(h) : part \in Fine /\ Linear(part)
      BY <1>1, <3>1, WalkPart, PartSmaller, LinearParts
    <3>4. Exact(p, v) /\ \A part \in Parts(h) : Exact(p, part)
      BY <3>2, <3>3
    <3>5. /\ Stopped \in Runs[v] /\ Stopped \in AllRuns /\ Runs[v] \in SUBSET AllRuns
          /\ \A r \in O : /\ r \in AllRuns
                          /\ r.raised => r \in Runs[u]
                          /\ ~r.raised => \A l \in Runs[v] : [met |-> r.met \o l.met, raised |-> l.raised] \in Runs[u]
      BY <2>2, <3>1, RunsParts
    <3>6. \A acc \in Accs : /\ VisitOne(p, Visit(p), h, acc) \in Accs
                            /\ Visit(p)[u][acc] = Visit(p)[v][VisitOne(p, Visit(p), h, acc)]
      BY <2>2, VisitDef
    <3>7. \A acc \in Accs : Shown(O, acc, VisitOne(p, Visit(p), h, acc))
      BY <3>1, <3>3, <3>4, ShownOne
    <3>8. \A t \in WritesOfOne(p, h) : \E r \in O : StaysOpen(r.met, t)
      <4>1. Nothing \in Accs
        BY DEF Nothing, Accs
      <4> QED BY <3>1, <3>3, <3>4, <4>1, ShownOne
    <3>9. WritesIn(p, u) = WritesOfOne(p, h) \cup WritesIn(p, v)
      <4>1. WritesIn(p, u) = UNION {WritesOfOne(p, s) : s \in ToSet(u)}
        BY WritesParts
      <4>2. WritesIn(p, v) = UNION {WritesOfOne(p, s) : s \in ToSet(v)}
        BY <3>1, WritesParts
      <4> HIDE DEF h, v
      <4> QED BY <3>1, <4>1, <4>2
    <3> HIDE DEF h, v, O, Fine
    (* A run of the first statement, and nothing after it *)
    <3>10. ASSUME NEW r \in O PROVE \E q \in Runs[u] : q.raised /\ q.met = r.met
      <4>1. CASE r.raised
        BY <3>5, <4>1
      <4>2. CASE ~r.raised
        <5>1. [met |-> r.met \o Stopped.met, raised |-> Stopped.raised] \in Runs[u]
          BY <3>5, <4>2
        <5>2. Stopped.raised /\ r.met \o Stopped.met = r.met
          BY <3>5, JoinNothing DEF Stopped, AllRuns
        <5> QED BY <5>1, <5>2
      <4> QED BY <4>1, <4>2
    (* A run of the first statement to its end, and one of the others *)
    <3>11. \A r \in O, l \in Runs[v] :
             r \in AllRuns /\ l \in AllRuns /\ (~r.raised => [met |-> r.met \o l.met, raised |-> l.raised] \in Runs[u])
      BY <3>5
    <3>12. ASSUME NEW acc \in Accs PROVE Shown(Runs[u], acc, Visit(p)[u][acc])
      <4> DEFINE x == VisitOne(p, Visit(p), h, acc)
                 e == Visit(p)[v][x]
      <4>1. Shown(O, acc, x) /\ Shown(Runs[v], x, e) /\ Visit(p)[u][acc] = e
        BY <3>4, <3>6, <3>7 DEF Exact
      <4> HIDE DEF x, e
      <4>2. PICK r0 \in O : ~r0.raised
        BY <4>1 DEF Shown
      <4>3. ASSUME NEW t \in e.written PROVE \E q \in Runs[u] : ~q.raised /\ LeavesWritten(q.met, acc, t)
        <5>1. PICK l \in Runs[v] : ~l.raised /\ LeavesWritten(l.met, x, t)
          BY <4>1, <4>3 DEF Shown
        <5>2. CASE StaysOpen(l.met, t)
          <6>1. LeavesWritten(r0.met \o l.met, acc, t)
            BY <3>11, <4>2, <5>2, ShownJoined
          <6> QED BY <3>11, <4>2, <5>1, <6>1
        <5>3. CASE t \in x.written /\ NoCommit(l.met)
          <6>1. PICK r \in O : ~r.raised /\ LeavesWritten(r.met, acc, t)
            BY <4>1, <5>3 DEF Shown
          <6>2. LeavesWritten(r.met \o l.met, acc, t)
            BY <3>11, <5>3, <6>1, ShownJoined
          <6> QED BY <3>11, <5>1, <6>1, <6>2
        <5> QED BY <5>1, <5>2, <5>3 DEF LeavesWritten
      <4>4. ASSUME NEW t \in e.found PROVE \E q \in Runs[u] : HasScanned(q.met, acc, t)
        <5>1. PICK l \in Runs[v] : HasScanned(l.met, x, t)
          BY <4>1, <4>4 DEF Shown
        <5>2. CASE t \in x.found
          <6>1. PICK r \in O : HasScanned(r.met, acc, t)
            BY <4>1, <5>2 DEF Shown
          <6> QED BY <3>10, <6>1
        <5>3. CASE ScansWritten(l.met, t)
          <6>1. HasScanned(r0.met \o l.met, acc, t)
            BY <3>11, <4>2, <5>3, ShownJoined
          <6> QED BY <3>11, <4>2, <6>1
        <5>4. CASE t \in x.written /\ ScansFirst(l.met, t)
          <6>1. PICK r \in O : ~r.raised /\ LeavesWritten(r.met, acc, t)
            BY <4>1, <5>4 DEF Shown
          <6>2. HasScanned(r.met \o l.met, acc, t)
            BY <3>11, <5>4, <6>1, ShownJoined
          <6> QED BY <3>11, <6>1, <6>2
        <5> QED BY <5>1, <5>2, <5>3, <5>4 DEF HasScanned
      <4>5. \E q \in Runs[u] : ~q.raised
        <5>1. PICK l \in Runs[v] : ~l.raised
          BY <4>1 DEF Shown
        <5> QED BY <3>11, <4>2, <5>1
      <4> QED BY <4>1, <4>3, <4>4, <4>5 DEF Shown
    <3>13. ASSUME NEW t \in WritesIn(p, u) PROVE \E q \in Runs[u] : q.raised /\ StaysOpen(q.met, t)
      <4>1. CASE t \in WritesOfOne(p, h)
        BY <3>8, <3>10, <4>1
      <4>2. CASE t \in WritesIn(p, v)
        <5>1. PICK l \in Runs[v] : l.raised /\ StaysOpen(l.met, t)
          BY <3>4, <4>2 DEF Exact
        <5>2. PICK r \in O : ~r.raised
          <6>1. Nothing \in Accs
            BY DEF Nothing, Accs
          <6> QED BY <3>7, <6>1 DEF Shown
        <5>3. StaysOpen(r.met \o l.met, t)
          BY <3>11, <5>1, ShownJoined
        <5> QED BY <3>11, <5>1, <5>2, <5>3
      <4> QED BY <3>9, <3>13, <4>1, <4>2
    <3> QED BY <3>12, <3>13 DEF Exact
  <2> QED BY <2>1, <2>2
<1>2. \A u \in Code : (\A v \in Code : Earlier(Size, v, u) => v \in Fine) => u \in Fine
  BY <1>1
<1>3. Code \subseteq Fine
  <2> HIDE DEF Fine
  <2> QED BY <1>2, CodeInduction
<1> QED BY <1>3

(* A routine without loops, jumps and calls is reported for a table only   *)
(* when some run of it scans the table after writing it, with no COMMIT    *)
(* between.                                                                *)
THEOREM NoFalseAlarmCorrect == Spec => []NoFalseAlarm
<1>1. Typed => NoFalseAlarm
  <2> SUFFICES ASSUME Typed, WithoutLoopsAndCalls(prog[Entry]), NEW t \in Tables, <<Entry, t>> \in reported
               PROVE  \E r \in Runs[<<Whole(prog[Entry])>>] : ScansWritten(r.met, t)
    BY DEF NoFalseAlarm
  <2> DEFINE u == <<Whole(prog[Entry])>>
  <2>1. IsProgram(prog) /\ Entry \in Routines
    BY ProgramsAssumption DEF Typed
  <2>2. PICK q \in Routines : <<Entry, t>> \in {q} \X ScansOf(prog, q)
    BY DEF Typed, ScanAfterWrite
  <2>3. t \in ScansOf(prog, Entry)
    BY <2>2
  <2>4. u \in Code /\ Linear(u) /\ ScansOf(prog, Entry) = Visit(prog)[u][Nothing].found
    BY <2>1, LinearRoutine
  <2>5. Nothing \in Accs /\ Nothing.written = {} /\ Nothing.found = {}
    BY DEF Nothing, Accs
  <2> HIDE DEF u
  <2>6. Shown(Runs[u], Nothing, Visit(prog)[u][Nothing])
    BY <2>1, <2>4, <2>5, ExactHolds DEF Exact
  <2>7. PICK r \in Runs[u] : HasScanned(r.met, Nothing, t)
    BY <2>3, <2>4, <2>6 DEF Shown
  <2> QED BY <2>5, <2>7 DEF HasScanned, u
<1> QED BY <1>1, TypedInit, TypedStep, PTL DEF Spec
=============================================================================
