---------------------------- MODULE VerdictProofs ----------------------------
(***************************************************************************)
(* For any program, edits, comparisons and order of the routines: an AUTO  *)
(* rests on a comparison of what is there, that ran the routine, and the   *)
(* verdict of the rules is the worst of what the routine reaches.          *)
(***************************************************************************)
EXTENDS Verdict, Integers, TLAPS

---------------------------------------------------------------------------
(* The call graph.                                                         *)

LEMMA ReachSelf ==
  ASSUME NEW r \in Routine
  PROVE  r \in Reach(r)
  BY DEF Reach

LEMMA ReachTransitive ==
  ASSUME NEW r \in Routine, NEW q \in Reach(r), NEW p \in Reach(q)
  PROVE  p \in Reach(r)
  BY DEF Reach

LEMMA ReachCall ==
  ASSUME program \in Program,
         NEW s \in Routine, NEW c \in Reach(s), NEW r \in Routine, r \in program.calls[c]
  PROVE  r \in Reach(s)
  BY DEF Reach, Closed

LEMMA ReachSame ==
  ASSUME program' = program, NEW r \in Routine
  PROVE  Reach(r)' = Reach(r)
  BY DEF Reach, Closed

(* What a routine depends on: itself and what it reaches, and what those   *)
(* depend on. *)
LEMMA DependsReach ==
  ASSUME NEW r \in Routine
  PROVE  Reach(r) \subseteq Depends(r)
  BY DEF Depends, Reach, Unit

LEMMA DependsTransitive ==
  ASSUME NEW r \in Routine, NEW q \in Reach(r)
  PROVE  Depends(q) \subseteq Depends(r)
<1>1. Reach(q) \subseteq Reach(r)
  BY ReachTransitive
<1> QED
  BY <1>1 DEF Depends

LEMMA DependsSame ==
  ASSUME program' = program, NEW r \in Routine
  PROVE  Depends(r)' = Depends(r)
<1>1. Reach(r)' = Reach(r)
  BY ReachSame
<1> QED
  BY <1>1 DEF Depends, NamesWithin

---------------------------------------------------------------------------
(* Ranks. *)

LEMMA WorstOf ==
  ASSUME NEW S, S \subseteq Rank, S # {}
  PROVE  /\ Worst(S) \in S
         /\ \A j \in S : j <= Worst(S)
<1>0. \A j \in S : j = 0 \/ j = 1 \/ j = 2
  BY DEF Rank
<1>1. \E k \in S : \A j \in S : j <= k
  <2>1. CASE 2 \in S
    BY <1>0, <2>1
  <2>2. CASE 2 \notin S /\ 1 \in S
    BY <1>0, <2>2
  <2>3. CASE 2 \notin S /\ 1 \notin S
    BY <1>0, <2>3
  <2> QED
    BY <2>1, <2>2, <2>3
<1> QED
  BY <1>1 DEF Worst

LEMMA ProgramType ==
  ASSUME FilesType
  PROVE  /\ program.public \subseteq Routine
         /\ program.calls \in [Routine -> SUBSET Routine]
         /\ program.always \in [Routine -> SUBSET Routine]
         /\ program.names \in [Unit -> SUBSET Package]
         /\ program.floor \in [Routine -> [Text -> Rank]]
         /\ program.others \in [Routine -> [Text -> Factors]]
         /\ \A r \in Routine : program.always[r] \subseteq program.calls[r]
<1>1. program \in Program
  BY DEF FilesType
<1> QED
  BY <1>1, VerdictAssumption

---------------------------------------------------------------------------
(* Type correctness. *)

LEMMA MeasuredType == ASSUME NEW r PROVE Measured(r) \in {"none", "match", "differ"}
  BY DEF Measured

LEMMA WorstBelow ==
  ASSUME FilesType, CliType, NEW r \in Routine
  PROVE  LET S == {ruleVerdict[q] : q \in Below(r)} IN
         Worst(S) \in S /\ Worst(S) \in Rank /\ \A q \in Below(r) : ruleVerdict[q] <= Worst(S)
<1> DEFINE S == {ruleVerdict[q] : q \in Below(r)}
<1>1. r \in Below(r) /\ Below(r) \subseteq Routine
  BY ReachSelf DEF Below, Reach
<1>2. S \subseteq Rank /\ S # {}
  BY <1>1 DEF CliType
<1>3. Worst(S) \in S /\ \A j \in S : j <= Worst(S)
  <2> HIDE DEF S
  <2> QED
    BY <1>2, WorstOf
<1> QED
  BY <1>2, <1>3

LEMMA WorstPair ==
  ASSUME NEW x \in Rank, NEW y \in Rank
  PROVE  /\ Worst({x, y}) \in Rank
         /\ x <= Worst({x, y}) /\ y <= Worst({x, y})
<1>1. {x, y} \subseteq Rank /\ {x, y} # {}
  OBVIOUS
<1> QED
  BY <1>1, WorstOf

LEMMA ResultType ==
  ASSUME FilesType, NEW r \in program.public, NEW x \in Result(r)
  PROVE  x \in [outcome : Outcome \cup {"none"}, ran : SUBSET Routine, cut : BOOLEAN]
<1>1. Reach(r) \subseteq Routine
  BY DEF Reach
<1>2. CASE x \in {[NotRun EXCEPT !.outcome = o] : o \in Outcome \ {"match"}}
  BY <1>2 DEF NotRun
<1>3. CASE x \in Agreed(r) /\ "match" \in Outcome
  BY <1>1, <1>3, VerdictAssumption DEF Agreed
<1> QED
  BY <1>2, <1>3 DEF Result

LEMMA TypeInit == Init => TypeOK
<1> SUFFICES ASSUME Init PROVE TypeOK
  OBVIOUS
<1>1. files \in Files /\ FilesType
  BY VerdictAssumption DEF Init, FilesType, Files, Text
<1>2. ReportType
  BY VerdictAssumption DEF Init, ReportType
<1>3. CliType
  BY <1>1 DEF Init, CliType, Files, Rank
<1> QED
  BY <1>1, <1>2, <1>3 DEF TypeOK

LEMMA EditType ==
  ASSUME TypeOK, Edit PROVE TypeOK'
<1>1. files' \in Files
  BY DEF TypeOK, FilesType, Edit, Files, Text
<1>2. FilesType'
  BY <1>1, VerdictAssumption DEF TypeOK, FilesType, Edit
<1>3. ReportType' /\ CliType'
  BY DEF TypeOK, ReportType, CliType, Edit, cli
<1> QED
  BY <1>2, <1>3 DEF TypeOK

LEMMA CaptureType ==
  ASSUME TypeOK, BeginCapture \/ RunCapture \/ EndCapture PROVE TypeOK'
<1>1. FilesType' /\ CliType'
  BY DEF TypeOK, FilesType, CliType, BeginCapture, RunCapture, EndCapture, cli
<1>2. ReportType'
  <2>1. CASE BeginCapture
    <3>1. [r \in Routine |-> NotRun] \in Results
      BY DEF Results, NotRun
    <3> QED
      BY <2>1, <3>1, VerdictAssumption DEF TypeOK, FilesType, ReportType, BeginCapture, Capture
  <2>2. CASE RunCapture
    <3>1. PICK result \in [program.public -> UNION {Result(r) : r \in program.public}] :
            /\ \A r \in program.public : result[r] \in Result(r)
            /\ capture' = [capture EXCEPT
                 !.on = files,
                 !.result = [r \in Routine |-> IF r \in program.public THEN result[r] ELSE NotRun]]
      BY <2>2 DEF RunCapture
    <3> DEFINE all == [r \in Routine |-> IF r \in program.public THEN result[r] ELSE NotRun]
               R == [outcome : Outcome \cup {"none"}, ran : SUBSET Routine, cut : BOOLEAN]
    <3>2. NotRun \in R
      BY DEF NotRun
    <3>3. \A r \in program.public : result[r] \in R
      BY <3>1, ResultType DEF TypeOK
    <3>4. all \in Results
      BY <3>2, <3>3 DEF Results
    <3>5. capture \in Capture /\ files \in Files
      BY <2>2 DEF TypeOK, ReportType, FilesType, RunCapture
    <3>6. capture' \in Capture
      <4> HIDE DEF all
      <4>1. capture' = [capture EXCEPT !.on = files, !.result = all]
        BY <3>1 DEF all
      <4> QED
        BY <3>4, <3>5, <4>1 DEF Capture
    <3> QED
      BY <2>2, <3>6 DEF TypeOK, ReportType, RunCapture
  <2>3. CASE EndCapture
    <3>1. capture \in Capture /\ capture.on \in Files
      BY <2>3 DEF TypeOK, ReportType, EndCapture, Capture
    <3>2. [files |-> capture.before, on |-> capture.on, result |-> capture.result] \in Report
      BY <3>1 DEF Capture, Report
    <3> QED
      BY <2>3, <3>2 DEF TypeOK, ReportType, EndCapture
  <2> QED
    BY <2>1, <2>2, <2>3
<1> QED
  BY <1>1, <1>2 DEF TypeOK

LEMMA CliStepType ==
  ASSUME TypeOK, Parse \/ Measure \/ Decide \/ Done \/ \E r \in Routine : Credit(r) \/ Propagate(r)
  PROVE  TypeOK'
<1>1. FilesType' /\ ReportType'
  BY DEF TypeOK, FilesType, ReportType, Parse, Measure, Decide, Done, Credit, Propagate
<1>2. files \in Files /\ files.text \in [Unit -> Text]
  BY DEF TypeOK, FilesType, Files
<1>3. CliType'
  <2>1. CASE Parse
    BY <1>2, <2>1 DEF TypeOK, CliType, Parse
  <2>2. CASE Measure
    <3>1. \A r \in Routine : Measured(r) \in {"none", "match", "differ"}
      BY MeasuredType
    <3> QED
      BY <1>2, <2>2, <3>1 DEF TypeOK, CliType, Measure, Private
  <2>3. CASE Decide
    <3>1. \A r \in Routine : Floor(r) \in Rank
      BY ProgramType DEF TypeOK, CliType, Floor, Unit
    <3> QED
      BY <2>3, <3>1 DEF TypeOK, CliType, Decide, Rank
  <2>4. CASE Done
    BY <1>2, <2>4 DEF TypeOK, CliType, Done, Rank
  <2>5. ASSUME NEW r \in Routine, Credit(r) PROVE CliType'
    BY <2>5 DEF TypeOK, CliType, Credit
  <2>6. ASSUME NEW r \in Routine, Propagate(r) PROVE CliType'
    <3> DEFINE worst == Worst({ruleVerdict[q] : q \in Below(r)})
    <3>1. worst \in Rank
      BY WorstBelow DEF TypeOK
    <3>2. Worst({verdict[r], worst}) \in Rank
      BY <3>1, WorstPair DEF TypeOK, CliType
    <3>3. /\ ruleVerdict' = [ruleVerdict EXCEPT ![r] = worst]
          /\ verdict' = [verdict EXCEPT ![r] =
               IF worst > ruleVerdict[r] THEN Worst({@, worst}) ELSE @]
      BY <2>6 DEF Propagate
    <3> HIDE DEF worst
    <3> QED
      BY <2>6, <3>1, <3>2, <3>3 DEF TypeOK, CliType, Propagate
  <2> QED
    BY <2>1, <2>2, <2>3, <2>4, <2>5, <2>6
<1> QED
  BY <1>1, <1>3 DEF TypeOK

LEMMA TypeStep == TypeOK /\ [Next]_vars => TypeOK'
<1> SUFFICES ASSUME TypeOK, [Next]_vars PROVE TypeOK'
  OBVIOUS
<1>1. CASE UNCHANGED vars
  BY <1>1 DEF TypeOK, FilesType, ReportType, CliType, vars, cli
<1>2. CASE Next
  BY <1>2, EditType, CaptureType, CliStepType DEF Next
<1> QED
  BY <1>1, <1>2

(* Every state is well typed, and only private routines are credited       *)
(* (credit_private_callees: public routines are untouched). *)
THEOREM TypeCorrect == Spec => []TypeOK
<1> QED
  BY TypeInit, TypeStep, PTL DEF Spec

---------------------------------------------------------------------------
(* The invariant behind the verdicts.                                      *)

(* Scenarios that agreed ran their routine, and what it always calls.      *)
Sound(result) ==
  \A s \in program.public : result[s].outcome = "match" =>
    s \in result[s].ran /\ (result[s].cut \/ Whole(result[s].ran))

(* A comparison that was not disturbed ran the files it is filed under.    *)
CaptureInv ==
  capture # None /\ capture.on # None =>
    (capture.on = capture.before \/ files # capture.before) /\ Sound(capture.result)

ReportInv ==
  \A v \in Variant : report[v] # None =>
    report[v].on = report[v].files /\ Sound(report[v].result)

Judging == phase \in {"credit", "propagate"}

(* Public s agreed under v, and its scenario may vouch for r.              *)
Vouches(s, v, r) ==
  /\ r \in Reach(s) /\ (r \in program.public => s = r)
  /\ AgreedOn(s, v)
  /\ r \in report[v].result[s].ran \/ report[v].result[s].cut

Tested(r) ==
  wanted # {} /\ \A v \in wanted : \E s \in program.public : Vouches(s, v, r)

(* What is counted was tested; what a public routine has is counted. *)
EvidenceInv ==
  Judging => \A r \in Routine :
    /\ captures[r] = "match" => Tested(r)
    /\ r \in program.public /\ wanted # {} /\ (\A v \in wanted : AgreedOn(r, v)) /\ ~Unfounded(r)
         => captures[r] = "match"

(* Each verdict of the rules is one of those below it, at least its own    *)
(* and, once visited, the worst. *)
FloorInv ==
  phase = "propagate" => \A r \in Routine :
    /\ \E q \in Reach(r) : ruleVerdict[r] = Floor(q)
    /\ Floor(r) <= ruleVerdict[r] /\ ruleVerdict[r] <= verdict[r]
    /\ r \notin left => \A q \in Reach(r) : Floor(q) <= ruleVerdict[r]

VerdictInv ==
  phase = "propagate" => \A r \in Routine :
    /\ verdict[r] = 0 => captures[r] = "match"
    /\ captures[r] = "match" /\ (\A q \in Reach(r) : Floor(q) = 0) /\ Others(r) = "enough"
         => verdict[r] = 0

IInv == TypeOK /\ CaptureInv /\ ReportInv /\ EvidenceInv /\ FloorInv /\ VerdictInv

LEMMA InvInit == Init => IInv
<1> SUFFICES ASSUME Init PROVE IInv
  OBVIOUS
<1>1. TypeOK
  BY TypeInit
<1>2. CaptureInv /\ ReportInv
  BY DEF Init, CaptureInv, ReportInv
<1>3. EvidenceInv /\ FloorInv /\ VerdictInv
  BY DEF Init, EvidenceInv, Judging, FloorInv, VerdictInv
<1> QED
  BY <1>1, <1>2, <1>3 DEF IInv

LEMMA SoundSame ==
  ASSUME program' = program, NEW result, Sound(result)
  PROVE  \A s \in program'.public : result[s].outcome = "match" =>
           s \in result[s].ran /\ (result[s].cut \/ Whole(result[s].ran)')
  BY DEF Sound, Whole

(* While the report and the judging stand still, so does what was tested.  *)
LEMMA AgreedSame ==
  ASSUME UNCHANGED <<program, report, found>>, NEW s \in Routine, NEW v
  PROVE  AgreedOn(s, v)' <=> AgreedOn(s, v)
<1>1. Depends(s)' = Depends(s)
  BY DependsSame
<1> QED
  BY <1>1 DEF AgreedOn, Came

LEMMA UnfoundedSame ==
  ASSUME program' = program, NEW r \in Routine
  PROVE  Unfounded(r)' <=> Unfounded(r)
<1>1. Depends(r)' = Depends(r)
  BY DependsSame
<1> QED
  BY <1>1 DEF Unfounded

LEMMA TestedSame ==
  ASSUME UNCHANGED <<program, report, found, wanted>>, FilesType, NEW r \in Routine
  PROVE  Tested(r)' <=> Tested(r)
<1>1. ASSUME NEW s \in program.public, NEW v
      PROVE  Vouches(s, v, r)' <=> Vouches(s, v, r)
  <2>1. s \in Routine
    BY ProgramType
  <2>2. Reach(s)' = Reach(s)
    BY <2>1, ReachSame
  <2>3. AgreedOn(s, v)' <=> AgreedOn(s, v)
    BY <2>1, AgreedSame
  <2> QED
    BY <2>2, <2>3 DEF Vouches
<1> QED
  BY <1>1 DEF Tested

(* The comparisons. *)
LEMMA CaptureInvStep ==
  ASSUME TypeOK, CaptureInv, [Next]_vars
  PROVE  CaptureInv'
<1>1. CASE UNCHANGED <<program, capture, files>>
  BY <1>1 DEF CaptureInv, Sound, Whole
<1>2. CASE Edit
  <2>1. program' = program /\ capture' = capture
    BY <1>2 DEF Edit
  <2>2. capture # None => files' # capture.before
    BY <1>2 DEF Edit
  <2> QED
    BY <2>1, <2>2 DEF CaptureInv, Sound, Whole
<1>3. CASE BeginCapture
  BY <1>3 DEF CaptureInv, BeginCapture
<1>4. CASE EndCapture
  BY <1>4 DEF CaptureInv, EndCapture
<1>5. CASE RunCapture
  <2>1. PICK result \in [program.public -> UNION {Result(r) : r \in program.public}] :
          /\ \A r \in program.public : result[r] \in Result(r)
          /\ capture' = [capture EXCEPT
               !.on = files,
               !.result = [r \in Routine |-> IF r \in program.public THEN result[r] ELSE NotRun]]
    BY <1>5 DEF RunCapture
  <2> DEFINE all == [r \in Routine |-> IF r \in program.public THEN result[r] ELSE NotRun]
  <2>2. Sound(all)
    <3> SUFFICES ASSUME NEW s \in program.public, all[s].outcome = "match"
                 PROVE  s \in all[s].ran /\ (all[s].cut \/ Whole(all[s].ran))
      BY DEF Sound
    <3>1. all[s] = result[s] /\ result[s] \in Result(s)
      BY <2>1, ProgramType DEF TypeOK
    <3>2. result[s] \in Agreed(s)
      <4> DEFINE x == result[s]
      <4>1. x \in Result(s) /\ x.outcome = "match"
        BY <3>1
      <4>2. x \notin {[NotRun EXCEPT !.outcome = o] : o \in Outcome \ {"match"}}
        BY <4>1 DEF NotRun
      <4> QED
        BY <4>1, <4>2 DEF Result
    <3> QED
      BY <3>1, <3>2 DEF Agreed
  <2>3. capture \in Capture /\ UNCHANGED <<program, files>>
    BY <1>5 DEF TypeOK, ReportType, RunCapture
  <2>4. capture'.on = files /\ capture'.result = all /\ capture'.before = capture.before
    <3> HIDE DEF all
    <3>1. capture' = [capture EXCEPT !.on = files, !.result = all]
      BY <2>1 DEF all
    <3> QED
      BY <2>3, <3>1 DEF Capture
  <2>5. Sound(capture'.result)
    BY <2>2, <2>4
  <2> HIDE DEF all
  <2> QED
    BY <2>3, <2>4, <2>5 DEF CaptureInv, Sound, Whole
<1>6. CASE Parse \/ Measure \/ Decide \/ Done \/ \E r \in Routine : Credit(r) \/ Propagate(r)
  <2>1. UNCHANGED <<program, capture, files>>
    BY <1>6 DEF Parse, Measure, Decide, Done, Credit, Propagate
  <2> QED
    BY <1>1, <2>1
<1>7. CASE UNCHANGED vars
  BY <1>1, <1>7 DEF vars
<1> QED
  BY <1>2, <1>3, <1>4, <1>5, <1>6, <1>7 DEF Next

LEMMA ReportInvStep ==
  ASSUME TypeOK, CaptureInv, ReportInv, [Next]_vars
  PROVE  ReportInv'
<1>1. CASE UNCHANGED <<program, report>>
  BY <1>1 DEF ReportInv, Sound, Whole
<1>2. CASE EndCapture
  <2>1. CASE files = capture.before
    <3>1. capture.on = capture.before /\ Sound(capture.result)
      BY <1>2, <2>1 DEF CaptureInv, EndCapture
    <3>2. ASSUME NEW v \in Variant, report'[v] # None
          PROVE  report'[v].on = report'[v].files /\ Sound(report'[v].result)
      <4>1. CASE v = capture.variant
        BY <1>2, <2>1, <3>1, <4>1 DEF EndCapture, TypeOK, ReportType
      <4>2. CASE v # capture.variant
        BY <1>2, <2>1, <3>2, <4>2 DEF EndCapture, TypeOK, ReportType, ReportInv
      <4> QED
        BY <4>1, <4>2
    <3>3. program' = program
      BY <1>2 DEF EndCapture
    <3> QED
      BY <3>2, <3>3 DEF ReportInv, Sound, Whole
  <2>2. CASE files # capture.before
    BY <1>1, <1>2, <2>2 DEF EndCapture
  <2> QED
    BY <2>1, <2>2
<1>3. CASE Edit \/ BeginCapture \/ RunCapture \/ Parse \/ Measure \/ Decide \/ Done
           \/ \E r \in Routine : Credit(r) \/ Propagate(r)
  <2>1. UNCHANGED <<program, report>>
    BY <1>3 DEF Edit, BeginCapture, RunCapture, Parse, Measure, Decide, Done, Credit, Propagate
  <2> QED
    BY <1>1, <2>1
<1>4. CASE UNCHANGED vars
  BY <1>1, <1>4 DEF vars
<1> QED
  BY <1>2, <1>3, <1>4 DEF Next

---------------------------------------------------------------------------
(* Evidence.                                                               *)

(* Outside the two loops there is nothing to show; a step of a loop leaves *)
(* the report and the judging as they are. *)
LEMMA OtherSteps ==
  ASSUME Next, ~Measure, ~Decide, ~(\E r \in Routine : Credit(r) \/ Propagate(r))
  PROVE  ~Judging'
<1>1. Edit \/ BeginCapture \/ RunCapture \/ EndCapture \/ Parse \/ Done
  BY DEF Next
<1>2. CASE Edit
  BY <1>2 DEF Edit, cli, Judging
<1>3. CASE BeginCapture \/ RunCapture \/ EndCapture
  BY <1>3 DEF BeginCapture, RunCapture, EndCapture, cli, Judging
<1>4. CASE Parse \/ Done
  BY <1>4 DEF Parse, Done, Judging
<1> QED
  BY <1>1, <1>2, <1>3, <1>4

(* fingerprint.of and _stale: what is counted for a public routine is      *)
(* about the files there are, and every such result is counted. *)
LEMMA MeasuredIsTested ==
  ASSUME TypeOK, ReportInv, Measure, NEW r \in program.public
  PROVE  /\ Measured(r) = "match" => Tested(r)'
         /\ wanted # {} /\ (\A v \in wanted : AgreedOn(r, v)') /\ ~Unfounded(r)
              => Measured(r) = "match"
<1>1. r \in Routine /\ Reach(r) \subseteq Routine /\ r \in Reach(r)
  BY ProgramType, ReachSelf DEF TypeOK, Reach
<1>2. UNCHANGED <<program, report, wanted>> /\ found' = files
  BY DEF Measure
<1>3. Reach(r)' = Reach(r) /\ Depends(r)' = Depends(r)
  BY <1>1, <1>2, ReachSame, DependsSame
<1>4. wanted \subseteq Variant
  BY DEF TypeOK, CliType
<1>5. ASSUME NEW v \in wanted, report[v] # None
      PROVE  Fingerprint(r, report[v].files) = Fingerprint(r, files)
               <=> /\ report[v].on.common = files.common
                   /\ \A q \in Depends(r) : report[v].on.text[q] = files.text[q]
  <2>1. report[v].on = report[v].files
    BY <1>4, <1>5 DEF ReportInv
  <2> DEFINE f == report[v].files
             F == [q \in Depends(r) |-> f.text[q]]
             G == [q \in Depends(r) |-> files.text[q]]
  <2>2. F = G <=> \A q \in Depends(r) : f.text[q] = files.text[q]
    <3>1. ASSUME F = G, NEW q \in Depends(r) PROVE f.text[q] = files.text[q]
      <4>1. F[q] = G[q]
        BY <3>1
      <4> QED
        BY <4>1
    <3> QED
      BY <3>1
  <2>3. Fingerprint(r, f) = <<f.common, F>> /\ Fingerprint(r, files) = <<files.common, G>>
    BY DEF Fingerprint
  <2> HIDE DEF F, G
  <2> QED
    BY <2>1, <2>2, <2>3
<1>6. ASSUME Measured(r) = "match" PROVE Tested(r)'
  <2>1. /\ Seen(r) = wanted /\ wanted # {}
        /\ \A v \in Seen(r) : ~Stale(r, v) /\ Came(r, v) = "match"
    BY <1>6 DEF Measured
  <2>2. ASSUME NEW v \in wanted PROVE Vouches(r, v, r)'
    <3>1. report[v] # None /\ ~Stale(r, v) /\ Came(r, v) = "match"
      BY <2>1 DEF Seen
    <3>2. AgreedOn(r, v)'
      BY <1>2, <1>3, <1>5, <3>1 DEF AgreedOn, Stale, Came
    <3>3. r \in report[v].result[r].ran
      BY <1>4, <3>1 DEF ReportInv, Sound, Came
    <3> QED
      BY <1>1, <1>2, <1>3, <3>2, <3>3 DEF Vouches
  <2> QED
    BY <1>2, <2>1, <2>2 DEF Tested
<1>7. ASSUME wanted # {}, \A v \in wanted : AgreedOn(r, v)', ~Unfounded(r) PROVE Measured(r) = "match"
  <2>1. ASSUME NEW v \in wanted
        PROVE  report[v] # None /\ Came(r, v) = "match" /\ ~Stale(r, v)
    <3>1. AgreedOn(r, v)'
      BY <1>7, <2>1
    <3>2. /\ report[v] # None /\ Came(r, v) = "match"
          /\ report[v].on.common = files.common
          /\ \A q \in Depends(r) : report[v].on.text[q] = files.text[q]
      BY <1>2, <1>3, <3>1 DEF AgreedOn, Came
    <3> QED
      BY <1>5, <1>7, <3>2 DEF Stale
  <2>2. Seen(r) = wanted
    BY <2>1 DEF Seen
  <2> QED
    BY <1>7, <2>1, <2>2 DEF Measured
<1> QED
  BY <1>6, <1>7

(* credit_private_callees: the scenario that vouches for a caller that is  *)
(* sure to run the routine vouches for the routine. *)
LEMMA CreditIsTested ==
  ASSUME TypeOK, ReportInv, EvidenceInv, Judging, NEW r \in Private, Creditable(r)
  PROVE  Tested(r)
<1>1. PICK c \in Callers(r) : r \in program.always[c]
  BY DEF Creditable
<1>2. c \in Routine /\ r \in program.calls[c] /\ r \in Routine /\ r \notin program.public
  BY DEF Callers, Private
<1>3. Tested(c)
  BY <1>1, <1>2 DEF Creditable, AllAgreed, EvidenceInv
<1>4. ASSUME NEW v \in wanted PROVE \E s \in program.public : Vouches(s, v, r)
  <2>1. PICK s \in program.public : Vouches(s, v, c)
    BY <1>3, <1>4 DEF Tested
  <2>2. s \in Routine /\ v \in Variant
    BY ProgramType DEF TypeOK, CliType
  <2>3. r \in Reach(s)
    BY <1>2, <2>1, <2>2, ReachCall DEF TypeOK, FilesType, Vouches
  <2>4. r \in report[v].result[s].ran \/ report[v].result[s].cut
    BY <1>1, <2>1, <2>2 DEF Vouches, AgreedOn, Came, ReportInv, Sound, Whole
  <2> QED
    BY <1>2, <2>1, <2>3, <2>4 DEF Vouches
<1> QED
  BY <1>3, <1>4 DEF Tested

LEMMA EvidenceInvStep ==
  ASSUME TypeOK, ReportInv, EvidenceInv, [Next]_vars
  PROVE  EvidenceInv'
<1>1. CASE UNCHANGED <<program, report, found, wanted, captures>> /\ (Judging' => Judging)
  <2> SUFFICES ASSUME Judging', NEW r \in Routine
               PROVE  /\ captures'[r] = "match" => Tested(r)'
                      /\ r \in program'.public /\ wanted' # {} /\ (\A v \in wanted' : AgreedOn(r, v)') /\ ~Unfounded(r)'
                           => captures'[r] = "match"
    BY DEF EvidenceInv
  <2>1. Tested(r)' <=> Tested(r)
    BY <1>1, TestedSame DEF TypeOK
  <2>2. \A v \in wanted : AgreedOn(r, v)' <=> AgreedOn(r, v)
    BY <1>1, AgreedSame
  <2>3. Unfounded(r)' <=> Unfounded(r)
    BY <1>1, UnfoundedSame
  <2> QED
    BY <1>1, <2>1, <2>2, <2>3 DEF EvidenceInv
<1>2. CASE Measure
  <2> SUFFICES ASSUME NEW r \in Routine
               PROVE  /\ captures'[r] = "match" => Tested(r)'
                      /\ r \in program'.public /\ wanted' # {} /\ (\A v \in wanted' : AgreedOn(r, v)') /\ ~Unfounded(r)'
                           => captures'[r] = "match"
    BY DEF EvidenceInv
  <2>1. captures'[r] = IF r \in program.public THEN Measured(r) ELSE "none"
    BY <1>2 DEF Measure
  <2>2. program' = program /\ wanted' = wanted
    BY <1>2 DEF Measure
  <2> QED
    BY <1>2, <2>1, <2>2, MeasuredIsTested, UnfoundedSame
<1>3. ASSUME NEW r \in Routine, Credit(r) PROVE EvidenceInv'
  <2>1. /\ Judging /\ r \in Private
        /\ UNCHANGED <<program, report, found, wanted>>
        /\ captures' = [captures EXCEPT ![r] = IF Creditable(r) THEN "match" ELSE @]
    BY <1>3 DEF Credit, Judging, TypeOK, CliType, Private
  <2> SUFFICES ASSUME NEW q \in Routine
               PROVE  /\ captures'[q] = "match" => Tested(q)'
                      /\ q \in program'.public /\ wanted' # {} /\ (\A v \in wanted' : AgreedOn(q, v)') /\ ~Unfounded(q)'
                           => captures'[q] = "match"
    BY DEF EvidenceInv
  <2>2. Tested(q)' <=> Tested(q)
    BY <2>1, TestedSame DEF TypeOK
  <2>3. \A v \in wanted : AgreedOn(q, v)' <=> AgreedOn(q, v)
    BY <2>1, AgreedSame
  <2>4. q = r => q \notin program.public
    BY <2>1 DEF Private
  <2>5. captures'[q] = IF q = r /\ Creditable(r) THEN "match" ELSE captures[q]
    BY <2>1 DEF TypeOK, CliType
  <2>6. q = r /\ Creditable(r) => Tested(q)
    BY <2>1, CreditIsTested
  <2> QED
    BY <2>1, <2>2, <2>3, <2>4, <2>5, <2>6, UnfoundedSame DEF EvidenceInv
<1>4. CASE Decide \/ \E r \in Routine : Propagate(r)
  <2>1. UNCHANGED <<program, report, found, wanted, captures>> /\ (Judging' => Judging)
    BY <1>4 DEF Decide, Propagate, Judging
  <2> QED
    BY <1>1, <2>1
<1>5. CASE Next /\ ~Measure /\ ~Decide /\ ~(\E r \in Routine : Credit(r) \/ Propagate(r))
  BY <1>5, OtherSteps DEF EvidenceInv
<1>6. CASE UNCHANGED vars
  <2>1. UNCHANGED <<program, report, found, wanted, captures>> /\ (Judging' => Judging)
    BY <1>6 DEF vars, cli, Judging
  <2> QED
    BY <1>1, <2>1
<1> QED
  BY <1>2, <1>3, <1>4, <1>5, <1>6

---------------------------------------------------------------------------
(* The rules and the call graph.                                           *)

LEMMA FloorRank ==
  ASSUME TypeOK, NEW r \in Routine
  PROVE  Floor(r) \in Rank
  BY ProgramType DEF TypeOK, CliType, Floor, Unit

LEMMA FloorSame ==
  ASSUME UNCHANGED <<program, parsed>>, NEW r \in Routine
  PROVE  Floor(r)' = Floor(r) /\ Others(r)' = Others(r) /\ Reach(r)' = Reach(r)
  BY ReachSame DEF Floor, Others

LEMMA FloorInvStep ==
  ASSUME TypeOK, FloorInv, [Next]_vars
  PROVE  FloorInv'
<1>1. CASE UNCHANGED <<program, parsed, ruleVerdict, verdict, left, phase>>
  <2>1. \A r \in Routine : Floor(r)' = Floor(r) /\ Reach(r)' = Reach(r)
    BY <1>1, FloorSame
  <2>2. \A r \in Routine : Reach(r) \subseteq Routine
    BY DEF Reach
  <2> QED
    BY <1>1, <2>1, <2>2 DEF FloorInv
<1>2. CASE Decide
  <2> SUFFICES ASSUME NEW r \in Routine
               PROVE  /\ \E q \in Reach(r)' : ruleVerdict'[r] = Floor(q)'
                      /\ Floor(r)' <= ruleVerdict'[r] /\ ruleVerdict'[r] <= verdict'[r]
                      /\ r \notin left' => \A q \in Reach(r)' : Floor(q)' <= ruleVerdict'[r]
    BY DEF FloorInv
  <2>1. Floor(r)' = Floor(r) /\ Reach(r)' = Reach(r)
    BY <1>2, FloorSame DEF Decide
  <2>2. Floor(r) \in Rank /\ r \in Reach(r)
    BY FloorRank, ReachSelf
  <2>3. /\ ruleVerdict'[r] = Floor(r)
        /\ verdict'[r] = IF Floor(r) # 0 THEN Floor(r) ELSE IF ForReview(r) THEN 1 ELSE 0
        /\ r \in left'
    BY <1>2 DEF Decide
  <2>4. ruleVerdict'[r] <= verdict'[r] /\ Floor(r) <= ruleVerdict'[r]
    BY <2>2, <2>3 DEF Rank
  <2> QED
    BY <2>1, <2>2, <2>3, <2>4
<1>3. ASSUME NEW p \in Routine, Propagate(p) PROVE FloorInv'
  <2> DEFINE worst == Worst({ruleVerdict[q] : q \in Below(p)})
  <2>1. /\ UNCHANGED <<program, parsed, phase>> /\ phase = "propagate" /\ left' = left \ {p}
        /\ ruleVerdict' = [ruleVerdict EXCEPT ![p] = worst]
        /\ verdict' = [verdict EXCEPT ![p] =
             IF worst > ruleVerdict[p] THEN Worst({@, worst}) ELSE @]
    BY <1>3 DEF Propagate
  <2>2. /\ worst \in Rank
        /\ \E q \in Reach(p) : worst = ruleVerdict[q]
        /\ \A q \in Reach(p) : ruleVerdict[q] <= worst
    BY WorstBelow DEF TypeOK, Below
  <2>3. Worst({verdict[p], worst}) \in Rank /\ worst <= Worst({verdict[p], worst})
    BY <2>2, WorstPair DEF TypeOK, CliType
  <2> HIDE DEF worst
  <2> SUFFICES ASSUME NEW r \in Routine
               PROVE  /\ \E q \in Reach(r)' : ruleVerdict'[r] = Floor(q)'
                      /\ Floor(r)' <= ruleVerdict'[r] /\ ruleVerdict'[r] <= verdict'[r]
                      /\ r \notin left' => \A q \in Reach(r)' : Floor(q)' <= ruleVerdict'[r]
    BY DEF FloorInv
  <2>4. /\ Reach(r)' = Reach(r) /\ Floor(r)' = Floor(r)
        /\ \A q \in Reach(r) : q \in Routine /\ Floor(q)' = Floor(q) /\ Floor(q) \in Rank
    BY <2>1, FloorSame, FloorRank DEF Reach
  <2>5. CASE r # p
    <3>1. ruleVerdict'[r] = ruleVerdict[r] /\ verdict'[r] = verdict[r] /\ (r \in left <=> r \in left')
      BY <2>1, <2>5 DEF TypeOK, CliType
    <3> QED
      BY <2>1, <2>4, <3>1 DEF FloorInv
  <2>6. CASE r = p
    <3>1. ruleVerdict'[p] = worst
      BY <2>1 DEF TypeOK, CliType
    <3>2. \E q \in Reach(p) : worst = Floor(q)
      <4>1. PICK q \in Reach(p) : worst = ruleVerdict[q]
        BY <2>2
      <4>2. PICK x \in Reach(q) : ruleVerdict[q] = Floor(x)
        BY <2>1, <2>4, <2>6, <4>1 DEF FloorInv
      <4>3. x \in Reach(p)
        BY <4>1, <4>2, ReachTransitive, ReachCall, <2>4, <2>6
      <4> QED
        BY <4>1, <4>2, <4>3
    <3>3. \A q \in Reach(p) : Floor(q) <= worst
      <4> SUFFICES ASSUME NEW q \in Reach(p) PROVE Floor(q) <= worst
        OBVIOUS
      <4>1. q \in Routine
        BY DEF Reach
      <4>2. Floor(q) <= ruleVerdict[q] /\ ruleVerdict[q] <= worst
        BY <2>1, <2>2, <4>1 DEF FloorInv
      <4>3. Floor(q) \in Int /\ ruleVerdict[q] \in Int /\ worst \in Int
        BY <2>2, <4>1, FloorRank DEF TypeOK, CliType, Rank
      <4> QED
        BY <4>2, <4>3
    <3>4. Floor(p) <= worst
      BY <3>3, ReachSelf
    <3>5. worst <= verdict'[p]
      <4>1. CASE worst > ruleVerdict[p]
        <5>1. verdict'[p] = Worst({verdict[p], worst})
          BY <2>1, <4>1 DEF TypeOK, CliType
        <5> QED
          BY <2>3, <5>1
      <4>2. CASE ~(worst > ruleVerdict[p])
        <5>1. verdict'[p] = verdict[p] /\ ruleVerdict[p] <= verdict[p]
          BY <2>1, <4>2 DEF TypeOK, CliType, FloorInv
        <5>2. ruleVerdict[p] \in Int /\ verdict[p] \in Int /\ worst \in Int
          BY <2>2 DEF TypeOK, CliType, Rank
        <5> QED
          BY <4>2, <5>1, <5>2
      <4> QED
        BY <4>1, <4>2
    <3> QED
      BY <2>4, <2>6, <3>1, <3>2, <3>3, <3>4, <3>5
  <2> QED
    BY <2>5, <2>6
<1>4. CASE Measure \/ \E r \in Routine : Credit(r)
  BY <1>4 DEF Measure, Credit, FloorInv
<1>5. CASE Next /\ ~Measure /\ ~Decide /\ ~(\E r \in Routine : Credit(r) \/ Propagate(r))
  BY <1>5, OtherSteps DEF FloorInv, Judging
<1>6. CASE UNCHANGED vars
  BY <1>1, <1>6 DEF vars, cli
<1> QED
  BY <1>2, <1>3, <1>4, <1>5, <1>6

LEMMA VerdictInvStep ==
  ASSUME TypeOK, FloorInv, VerdictInv, [Next]_vars
  PROVE  VerdictInv'
<1>1. CASE UNCHANGED <<program, parsed, captures, verdict, phase>>
  <2>1. \A r \in Routine : Floor(r)' = Floor(r) /\ Others(r)' = Others(r) /\ Reach(r)' = Reach(r)
    BY <1>1, FloorSame
  <2>2. \A r \in Routine : Reach(r) \subseteq Routine
    BY DEF Reach
  <2> QED
    BY <1>1, <2>1, <2>2 DEF VerdictInv
<1>2. CASE Decide
  <2> SUFFICES ASSUME NEW r \in Routine
               PROVE  /\ verdict'[r] = 0 => captures'[r] = "match"
                      /\ captures'[r] = "match" /\ (\A q \in Reach(r)' : Floor(q)' = 0) /\ Others(r)' = "enough"
                           => verdict'[r] = 0
    BY DEF VerdictInv
  <2>1. Floor(r)' = Floor(r) /\ Others(r)' = Others(r) /\ Reach(r)' = Reach(r) /\ r \in Reach(r)
    BY <1>2, FloorSame, ReachSelf DEF Decide
  <2>2. /\ verdict'[r] = IF Floor(r) # 0 THEN Floor(r) ELSE IF ForReview(r) THEN 1 ELSE 0
        /\ captures'[r] = captures[r]
    BY <1>2 DEF Decide
  <2>3. captures[r] \in {"none", "match", "differ"}
    BY DEF TypeOK, CliType
  <2>4. ForReview(r) <=> Others(r) = "zero" \/ Others(r) = "low" \/ captures[r] # "match"
    BY <2>3 DEF ForReview, ZeroFactor, Differs, TooLow
  <2> QED
    BY <2>1, <2>2, <2>4
<1>3. ASSUME NEW p \in Routine, Propagate(p) PROVE VerdictInv'
  <2> DEFINE worst == Worst({ruleVerdict[q] : q \in Below(p)})
  <2>1. /\ UNCHANGED <<program, parsed, phase, captures>> /\ phase = "propagate"
        /\ verdict' = [verdict EXCEPT ![p] =
             IF worst > ruleVerdict[p] THEN Worst({@, worst}) ELSE @]
    BY <1>3 DEF Propagate
  <2>2. worst \in Rank /\ \E q \in Reach(p) : worst = ruleVerdict[q]
    BY WorstBelow DEF TypeOK, Below
  <2>3. Worst({verdict[p], worst}) \in Rank /\ worst <= Worst({verdict[p], worst})
    BY <2>2, WorstPair DEF TypeOK, CliType
  <2> HIDE DEF worst
  <2> SUFFICES ASSUME NEW r \in Routine
               PROVE  /\ verdict'[r] = 0 => captures'[r] = "match"
                      /\ captures'[r] = "match" /\ (\A q \in Reach(r)' : Floor(q)' = 0) /\ Others(r)' = "enough"
                           => verdict'[r] = 0
    BY DEF VerdictInv
  <2>4. /\ Reach(r)' = Reach(r) /\ Others(r)' = Others(r)
        /\ \A q \in Reach(r) : q \in Routine /\ Floor(q)' = Floor(q)
    BY <2>1, FloorSame DEF Reach
  <2>5. CASE verdict'[r] = verdict[r]
    BY <2>1, <2>4, <2>5 DEF VerdictInv
  <2>6. CASE verdict'[r] # verdict[r]
    <3>1. r = p /\ worst > ruleVerdict[p] /\ verdict'[p] = Worst({verdict[p], worst})
      BY <2>1, <2>6 DEF TypeOK, CliType
    <3>2. ruleVerdict[p] \in Rank
      BY DEF TypeOK, CliType
    <3>3. worst > 0 /\ verdict'[p] # 0
      BY <2>2, <2>3, <3>1, <3>2 DEF Rank
    <3>4. PICK q \in Reach(p) : worst = ruleVerdict[q]
      BY <2>2
    <3>5. q \in Routine
      BY DEF Reach
    <3>6. PICK x \in Reach(q) : ruleVerdict[q] = Floor(x)
      BY <2>1, <3>5 DEF FloorInv
    <3>7. x \in Reach(p)
      BY <3>4, <3>6, ReachTransitive
    <3> QED
      BY <2>4, <3>1, <3>3, <3>4, <3>6, <3>7
  <2> QED
    BY <2>5, <2>6
<1>4. CASE Measure \/ \E r \in Routine : Credit(r)
  BY <1>4 DEF Measure, Credit, VerdictInv
<1>5. CASE Next /\ ~Measure /\ ~Decide /\ ~(\E r \in Routine : Credit(r) \/ Propagate(r))
  BY <1>5, OtherSteps DEF VerdictInv, Judging
<1>6. CASE UNCHANGED vars
  BY <1>1, <1>6 DEF vars, cli
<1> QED
  BY <1>2, <1>3, <1>4, <1>5, <1>6

---------------------------------------------------------------------------
LEMMA InvStep == IInv /\ [Next]_vars => IInv'
<1> SUFFICES ASSUME IInv, [Next]_vars PROVE IInv'
  OBVIOUS
<1>1. TypeOK'
  BY TypeStep DEF IInv
<1>2. CaptureInv' /\ ReportInv'
  BY CaptureInvStep, ReportInvStep DEF IInv
<1>3. EvidenceInv'
  BY EvidenceInvStep DEF IInv
<1>4. FloorInv' /\ VerdictInv'
  BY FloorInvStep, VerdictInvStep DEF IInv
<1> QED
  BY <1>1, <1>2, <1>3, <1>4 DEF IInv

(* The invariant from which the rest follows. *)
THEOREM Inductive == Spec => []IInv
<1> QED
  BY InvInit, InvStep, PTL DEF Spec

(* AUTO rests, under every variant asked for, on a comparison of the files *)
(* there are, all the way down the calls (evidence_from_diff,              *)
(* fingerprint.py, credit_private_callees). *)
THEOREM AutoIsTestedHolds == Spec => []AutoIsTested
<1>1. IInv => AutoIsTested
  BY DEF IInv, AutoIsTested, IsAuto, Decided, VerdictInv, EvidenceInv, Judging, Tested, Vouches
<1> QED
  BY <1>1, Inductive, PTL

(* ... and that comparison ran the routine, unless an exception ended it   *)
(* early (unconditional_callees). *)
THEOREM AutoWasRunHolds == Spec => []AutoWasRun
<1>1. IInv => AutoWasRun
  BY DEF IInv, AutoWasRun, IsAuto, Decided, VerdictInv, EvidenceInv, Judging, Tested, Vouches
<1> QED
  BY <1>1, Inductive, PTL

(* _propagate ends with the worst verdict each routine reaches, for every  *)
(* call graph and every order of the routines. *)
THEOREM WorstReachableHolds == Spec => []WorstReachable
<1>1. ASSUME IInv, Decided, NEW r \in Routine
      PROVE  /\ ruleVerdict[r] = Worst({Floor(q) : q \in Reach(r)})
             /\ verdict[r] >= ruleVerdict[r]
  <2> DEFINE S == {Floor(q) : q \in Reach(r)}
  <2>1. /\ ruleVerdict[r] \in S
        /\ \A q \in Reach(r) : Floor(q) <= ruleVerdict[r]
        /\ ruleVerdict[r] <= verdict[r]
    BY <1>1 DEF IInv, FloorInv, Decided
  <2>2. S \subseteq Rank
    BY <1>1, FloorRank DEF IInv, Reach
  <2>3. \A j \in S : j <= ruleVerdict[r]
    BY <2>1
  <2>4. ruleVerdict[r] \in Rank /\ verdict[r] \in Rank
    BY <1>1 DEF IInv, TypeOK, CliType
  <2> HIDE DEF S
  <2>5. Worst(S) \in S /\ \A j \in S : j <= Worst(S)
    BY <2>1, <2>2, WorstOf
  <2>6. Worst(S) <= ruleVerdict[r] /\ ruleVerdict[r] <= Worst(S) /\ Worst(S) \in Rank
    BY <2>1, <2>2, <2>3, <2>5
  <2>7. ruleVerdict[r] = Worst(S) /\ verdict[r] >= ruleVerdict[r]
    BY <2>1, <2>4, <2>6 DEF Rank
  <2> QED
    BY <2>7 DEF S
<1>2. IInv => WorstReachable
  BY <1>1 DEF WorstReachable
<1> QED
  BY <1>2, Inductive, PTL

(* Nothing that a routine does not depend on takes its AUTO away: with its *)
(* sources found, no rule objecting below it and its own other factors     *)
(* high enough, a routine that agreed under all variants is AUTO.          *)
THEOREM TestedIsAutoHolds == Spec => []TestedIsAuto
<1>1. ASSUME IInv, Decided, NEW r \in program.public,
             wanted # {}, \A v \in wanted : AgreedOn(r, v),
             ~Unfounded(r), \A q \in Reach(r) : Floor(q) = 0, Others(r) = "enough"
      PROVE  IsAuto(r)
  <2>1. r \in Routine
    BY <1>1, ProgramType DEF IInv, TypeOK
  <2>2. captures[r] = "match"
    BY <1>1, <2>1 DEF IInv, EvidenceInv, Judging, Decided
  <2> QED
    BY <1>1, <2>1, <2>2 DEF IInv, VerdictInv, IsAuto, Decided
<1>2. IInv => TestedIsAuto
  BY <1>1 DEF TestedIsAuto
<1> QED
  BY <1>2, Inductive, PTL
===============================================================================
