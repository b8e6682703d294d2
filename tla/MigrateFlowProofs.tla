------------------------- MODULE MigrateFlowProofs -------------------------
(***************************************************************************)
(* For any number of commands at once, any contents of the files and any   *)
(* number of edits and crashes: the state of flow.py is well formed, a     *)
(* test result never speaks of other approvals than those on file, and an  *)
(* approval over an open question has its reason.  For one command at a    *)
(* time: an open gate with a test on file means that what was tested is    *)
(* still what is there, and no command drops what another one recorded.    *)
(***************************************************************************)
EXTENDS MigrateFlow, TLAPS

---------------------------------------------------------------------------
(* Type correctness.                                                       *)

LEMMA ContentsType ==
  ASSUME FilesType, NEW s \in Stage
  PROVE  Contents(s) \in Content
<1>1. CASE s = "spec"
  BY <1>1 DEF FilesType, Contents, Content
<1>2. CASE s = "decisions"
  BY <1>2 DEF FilesType, Contents, Content
<1>3. CASE s = "converted"
  BY <1>3 DEF FilesType, Contents, Content
<1> QED
  BY <1>1, <1>2, <1>3 DEF Stage

LEMMA FreshType == Fresh \in FlowState /\ Nothing \in ByStage
  BY DEF Fresh, Nothing, FlowState, ByStage, Maybe

LEMMA FactsType ==
  ASSUME FilesType, NEW f \in FlowState, generated # None
  PROVE  FactsNow(f) \in Facts
  BY DEF FilesType, FactsNow, Facts, FlowState, Maybe

LEMMA RankValue ==
  /\ Rank("spec") = 1 /\ Rank("decisions") = 2 /\ Rank("converted") = 3
  /\ \A k \in 1 .. 3 : Order[k] \in Stage
<1>1. Order[1] = "spec" /\ Order[2] = "decisions" /\ Order[3] = "converted"
  BY DEF Order
<1>2. \A k \in 1 .. 3 : k = 1 \/ k = 2 \/ k = 3
  OBVIOUS
<1>3. 1 \in 1 .. 3 /\ 2 \in 1 .. 3 /\ 3 \in 1 .. 3
  OBVIOUS
<1>4. \A k \in 1 .. 3 : Order[k] = "spec" => k = 1
  BY <1>1, <1>2
<1>5. \A k \in 1 .. 3 : Order[k] = "decisions" => k = 2
  BY <1>1, <1>2
<1>6. \A k \in 1 .. 3 : Order[k] = "converted" => k = 3
  BY <1>1, <1>2
<1> QED
  BY <1>1, <1>2, <1>3, <1>4, <1>5, <1>6 DEF Rank, Stage

LEMMA EndType ==
  ASSUME CommandType, NEW p \in Process, End(p)
  PROVE  CommandType'
  BY FreshType DEF CommandType, End, Stage

LEMMA TestAfterType ==
  ASSUME FilesType, NEW f \in FlowState, NEW s \in Stage
  PROVE  TestAfter(f, s) \in Maybe(ByStage)
<1>1. Target("converted") \in Content /\ "converted" \in Stage
  BY ContentsType DEF Target, Stage
<1> QED
  BY <1>1 DEF TestAfter, FlowState, ByStage, Maybe

(* The states that the commands save. *)
LEMMA ApprovalType ==
  ASSUME FilesType, NEW f \in FlowState, NEW s \in Stage, NEW r \in BOOLEAN
  PROVE  [f EXCEPT !.approvals[s] = Target(s), !.reason = r, !.test = TestAfter(f, s)]
           \in FlowState
<1>1. Target(s) \in Maybe(Content)
  BY ContentsType DEF Target, Maybe
<1>2. TestAfter(f, s) \in Maybe(ByStage)
  BY TestAfterType
<1> QED
  BY <1>1, <1>2 DEF FlowState, ByStage

LEMMA FilesStep ==
  ASSUME TypeOK, Files
  PROVE  TypeOK'
<1>1. UNCHANGED <<flow, command, tried>> /\ CommandType' /\ (flow \in FlowState \cup {None, Torn})'
  BY DEF TypeOK, CommandType, command, Files, EditSource, EditLimits, Reopen, Analyse, WriteSpec,
         Generate, Scan, Decide, WriteRecord, WriteDocs, Compare
<1>2. FilesType'
  <2>1. CASE EditSource \/ EditLimits \/ Analyse \/ WriteSpec \/ Compare
    BY <2>1 DEF TypeOK, FilesType, EditSource, EditLimits, Analyse, WriteSpec, Compare, Maybe
  <2>2. CASE Generate
    BY <2>2 DEF TypeOK, FilesType, Generate, Generation, Maybe
  <2>3. CASE Reopen \/ Scan \/ Decide
    BY <2>3 DEF TypeOK, FilesType, Reopen, Scan, Decide, WriteRecord
  <2>4. CASE WriteDocs
    <3>1. flow \in FlowState
      BY <2>4 DEF TypeOK, WriteDocs, Readable
    <3> QED
      BY <2>4, <3>1, FactsType DEF TypeOK, FilesType, WriteDocs, Maybe
  <2> QED
    BY <2>1, <2>2, <2>3, <2>4 DEF Files
<1>3. raced' \in BOOLEAN /\ edits' \in 0 .. MaxEdits /\ crashes' \in 0 .. MaxCrashes
  <2>1. /\ raced \in BOOLEAN
        /\ edits \in 0 .. MaxEdits /\ crashes \in 0 .. MaxCrashes /\ MaxEdits \in Nat
    BY FlowAssumption DEF TypeOK
  <2>2. Edit => edits' \in 0 .. MaxEdits
    BY <2>1 DEF Edit
  <2>3. CASE EditSource \/ EditLimits
    BY <2>1, <2>2, <2>3 DEF EditSource, EditLimits
  <2>4. CASE Analyse \/ WriteSpec \/ Generate \/ WriteDocs \/ Compare
    BY <2>1, <2>4 DEF Analyse, WriteSpec, Generate, WriteDocs, Compare, bounds
  <2>5. \A entry : WriteRecord(entry) => raced' \in BOOLEAN /\ crashes' = crashes
    BY Zenon DEF WriteRecord
  <2>6. CASE Reopen \/ Scan \/ Decide
    BY <2>1, <2>2, <2>5, <2>6 DEF Reopen, Scan, Decide
  <2> QED
    BY <2>3, <2>4, <2>6 DEF Files
<1> QED
  BY <1>1, <1>2, <1>3 DEF TypeOK

LEMMA StartStep ==
  ASSUME TypeOK, NEW p \in Process, Start(p)
  PROVE  TypeOK'
<1>1. PICK c \in {"init", "approve", "tested", "adopt"}, s \in Stage \cup Folder, o \in BOOLEAN :
        /\ Begin(p, c, s, o)
        /\ c = "approve" => s \in Stage
        /\ c = "adopt" => s \in Folder
        /\ \E f \in FlowState : seen' = [seen EXCEPT ![p] = f]
  <2>1. CASE \E evidence \in BOOLEAN : BeginInit(p, evidence)
    BY <2>1, FreshType DEF BeginInit, TypeOK, Readable, Stage
  <2>2. CASE \E s \in Stage, withOpen \in BOOLEAN : BeginApprove(p, s, withOpen)
    BY <2>2 DEF BeginApprove, Load, TypeOK, Readable
  <2>3. CASE \E report \in BOOLEAN : BeginTested(p, report)
    BY <2>3 DEF BeginTested, Load, TypeOK, Readable, Stage
  <2>4. CASE \E folder \in Folder, replace \in BOOLEAN : BeginAdopt(p, folder, replace)
    BY <2>4 DEF BeginAdopt, Load, TypeOK, Readable
  <2> QED
    BY <2>1, <2>2, <2>3, <2>4 DEF Start, Command, Adoption
<1>2. edits' \in 0 .. MaxEdits /\ crashes' \in 0 .. MaxCrashes
  <2>1. CASE UNCHANGED bounds
    BY <2>1 DEF TypeOK, bounds
  <2>2. CASE Adoption(p)
    BY <2>2, FlowAssumption DEF TypeOK, Adoption, BeginAdopt, Edit
  <2> QED
    BY <2>1, <2>2 DEF Start
<1>3. CommandType'
  BY <1>1 DEF TypeOK, CommandType, Begin
<1> QED
  BY <1>1, <1>2, <1>3 DEF TypeOK, FilesType, Begin, files

(* What the steps of a command have in common: a step that only advances,  *)
(* a command that ends and leaves a state, adopt's copy.                   *)
LEMMA SaveType ==
  ASSUME TypeOK, NEW p \in Process, NEW f \in FlowState, Save(p, f), tried' \in ByStage
  PROVE  TypeOK'
<1>1. CommandType'
  BY EndType DEF Save, TypeOK
<1> QED
  BY <1>1 DEF Save, TypeOK, FilesType, files, bounds

LEMMA RefuseType ==
  ASSUME TypeOK, NEW p \in Process, Refuse(p)
  PROVE  TypeOK'
<1>1. CommandType'
  BY EndType DEF Refuse, TypeOK
<1> QED
  BY <1>1 DEF Refuse, TypeOK, FilesType, files, bounds

LEMMA PutType ==
  ASSUME FilesType, NEW folder \in Folder, NEW f \in FlowState,
         NEW x \in Elsewhere(folder, f) \cup {None}, Put(folder, x)
  PROVE  FilesType'
<1>1. CASE folder \in {"pages", "analysis"}
  BY <1>1 DEF Put, Elsewhere, FilesType, Maybe
<1>2. CASE folder = "generated"
  BY <1>2 DEF Put, Elsewhere, FilesType, Generation, Maybe
<1>3. CASE folder = "docs"
  <2>1. x \in Maybe(Facts)
    BY <1>3, FactsType DEF Elsewhere, Maybe
  <2> QED
    BY <1>3, <2>1 DEF Put, FilesType
<1> QED
  BY <1>1, <1>2, <1>3 DEF Folder

LEMMA InitStep ==
  ASSUME TypeOK, NEW p \in Process, SaveInit(p)
  PROVE  TypeOK'
<1>1. PICK f : f = [Kept(seen[p]) EXCEPT !.evidence = @ \/ option[p]]
  OBVIOUS
<1>2. seen[p] \in FlowState /\ option[p] \in BOOLEAN
  BY DEF TypeOK, CommandType
<1>3. f \in FlowState
  BY <1>1, <1>2 DEF Kept, FlowState
<1>4. Save(p, f) /\ UNCHANGED tried
  BY <1>1 DEF SaveInit
<1>5. tried' \in ByStage
  BY <1>4 DEF TypeOK
<1> QED
  BY <1>3, <1>4, <1>5, SaveType

LEMMA ApproveStep ==
  ASSUME TypeOK, NEW p \in Process, CheckEarlier(p) \/ CheckStage(p) \/ SaveApproval(p)
  PROVE  TypeOK'
<1>1. /\ seen[p] \in FlowState /\ option[p] \in BOOLEAN /\ at[p] \in 0 .. 5
      /\ cmd[p] = "approve" => stage[p] \in Stage
  BY DEF TypeOK, CommandType
<1>2. \A s \in Stage : Rank(s) \in 1 .. 3
  BY RankValue DEF Stage
<1>3. CASE CheckEarlier(p) /\ ~Refuse(p)
  <2>1. Advance(p) /\ UNCHANGED <<files, flow, cmd, stage, option, seen, gate, checked, tried, raced, bounds>>
    BY <1>3 DEF CheckEarlier
  <2>2. at[p] + 1 \in 0 .. 5
    BY <1>1, <1>2, <1>3 DEF CheckEarlier
  <2>3. CommandType'
    BY <2>1, <2>2 DEF TypeOK, CommandType, Advance
  <2> QED
    BY <2>1, <2>3 DEF TypeOK, FilesType, files, bounds
<1>4. CASE CheckStage(p) /\ ~Refuse(p)
  <2>1. /\ Advance(p)
        /\ option' = [option EXCEPT ![p] = stage[p] = "decisions" /\ OpenItem]
        /\ UNCHANGED <<files, flow, cmd, stage, seen, gate, checked, tried, raced, bounds>>
    BY <1>4 DEF CheckStage
  <2>2. at[p] + 1 \in 0 .. 5
    BY <1>1, <1>2, <1>4 DEF CheckStage
  <2>3. CommandType'
    BY <2>1, <2>2 DEF TypeOK, CommandType, Advance
  <2> QED
    BY <2>1, <2>3 DEF TypeOK, FilesType, files, bounds
<1>5. CASE SaveApproval(p)
  <2>1. PICK r \in BOOLEAN : r = IF stage[p] = "decisions" THEN option[p] ELSE seen[p].reason
    BY <1>1 DEF FlowState
  <2>2. PICK f : f = [seen[p] EXCEPT !.approvals[stage[p]] = Target(stage[p]), !.reason = r,
                                     !.test = TestAfter(seen[p], stage[p])]
    OBVIOUS
  <2>3. f \in FlowState
    BY <1>1, <1>5, <2>1, <2>2, ApprovalType DEF SaveApproval, TypeOK
  <2>4. Save(p, f) /\ UNCHANGED tried
    BY <1>5, <2>1, <2>2 DEF SaveApproval
  <2>5. tried' \in ByStage
    BY <2>4 DEF TypeOK
  <2> QED
    BY <2>3, <2>4, <2>5, SaveType
<1> QED
  BY <1>3, <1>4, <1>5, RefuseType

LEMMA TestedStep ==
  ASSUME TypeOK, NEW p \in Process, ReadAgain(p) \/ GateStage(p) \/ SaveTest(p)
  PROVE  TypeOK'
<1>1. seen[p] \in FlowState /\ option[p] \in BOOLEAN /\ at[p] \in 0 .. 5 /\ checked[p] \in ByStage
  BY DEF TypeOK, CommandType
<1>2. CASE ReadAgain(p) /\ ~Refuse(p)
  <2>1. /\ Readable(flow) /\ Advance(p) /\ gate' = [gate EXCEPT ![p] = flow] /\ at[p] = 1
        /\ UNCHANGED <<files, flow, cmd, stage, option, seen, checked, tried, raced, bounds>>
    BY <1>2 DEF ReadAgain
  <2>2. CommandType'
    BY <2>1 DEF TypeOK, CommandType, Advance, Readable
  <2> QED
    BY <2>1, <2>2 DEF TypeOK, FilesType, files, bounds
<1>3. CASE GateStage(p) /\ ~Refuse(p)
  <2>1. PICK s \in Stage : s = Order[at[p] - 1]
    BY <1>1, <1>3, RankValue DEF GateStage
  <2>2. /\ checked' = [checked EXCEPT ![p][s] = Contents(s)] /\ Advance(p) /\ at[p] \in 2 .. 4
        /\ UNCHANGED <<files, flow, cmd, stage, option, seen, gate, tried, raced, bounds>>
    BY <1>3, <2>1 DEF GateStage
  <2>3. Contents(s) \in Maybe(Content)
    BY ContentsType DEF TypeOK, Maybe
  <2>4. checked' \in [Process -> ByStage]
    BY <2>2, <2>3 DEF TypeOK, CommandType, ByStage
  <2>5. CommandType'
    BY <2>2, <2>4 DEF TypeOK, CommandType, Advance
  <2> QED
    BY <2>2, <2>5 DEF TypeOK, FilesType, files, bounds
<1>4. CASE SaveTest(p) /\ ~Refuse(p)
  <2>1. PICK f : f = [seen[p] EXCEPT !.test = seen[p].approvals, !.evidence = @ \/ option[p]]
    OBVIOUS
  <2>2. f \in FlowState
    BY <1>1, <2>1 DEF FlowState, Maybe
  <2>3. Save(p, f) /\ tried' = checked[p]
    BY <1>4, <2>1 DEF SaveTest, NotedApprovals
  <2> QED
    BY <1>1, <2>2, <2>3, SaveType
<1> QED
  BY <1>2, <1>3, <1>4, RefuseType

LEMMA AdoptStep ==
  ASSUME TypeOK, NEW p \in Process,
         CheckAdopted(p) \/ RemoveOld(p) \/ CopyNew(p) \/ SaveAdopted(p)
  PROVE  TypeOK'
<1>1. seen[p] \in FlowState /\ (cmd[p] = "adopt" => stage[p] \in Folder)
  BY DEF TypeOK, CommandType
<1>2. ASSUME Advance(p), FilesType', at[p] \in 1 .. 3,
             UNCHANGED <<flow, cmd, stage, option, seen, gate, checked, tried, raced, bounds>>
      PROVE  TypeOK'
  <2>1. at[p] + 1 \in 0 .. 5
    BY <1>2
  <2>2. CommandType'
    BY <1>2, <2>1 DEF TypeOK, CommandType, Advance
  <2> QED
    BY <1>2, <2>2 DEF TypeOK, bounds
<1>3. CASE CheckAdopted(p) /\ ~Refuse(p)
  <2>1. FilesType'
    BY <1>3 DEF CheckAdopted, files, FilesType, TypeOK
  <2> QED
    BY <1>2, <1>3, <2>1 DEF CheckAdopted
<1>4. CASE RemoveOld(p)
  <2>1. FilesType'
    BY <1>1, <1>4, PutType DEF RemoveOld, TypeOK
  <2> QED
    BY <1>2, <1>4, <2>1 DEF RemoveOld
<1>5. CASE CopyNew(p) /\ ~Refuse(p)
  <2>1. FilesType'
    BY <1>1, <1>5, PutType DEF CopyNew, TypeOK
  <2> QED
    BY <1>2, <1>5, <2>1 DEF CopyNew
<1>6. CASE SaveAdopted(p)
  <2>1. Save(p, seen[p]) /\ tried' \in ByStage
    BY <1>6 DEF SaveAdopted, TypeOK
  <2> QED
    BY <1>1, <2>1, SaveType
<1> QED
  BY <1>3, <1>4, <1>5, <1>6, RefuseType

LEMMA CrashStep ==
  ASSUME TypeOK, NEW p \in Process, Crash(p)
  PROVE  TypeOK'
<1>1. CommandType'
  BY EndType DEF Crash, TypeOK
<1>2. FilesType'
  BY DEF Crash, TypeOK, FilesType, files
<1>3. flow' \in FlowState \cup {None, Torn}
  BY DEF Crash, TypeOK
<1>4. crashes' \in 0 .. MaxCrashes
  BY FlowAssumption DEF Crash, TypeOK
<1> QED
  BY <1>1, <1>2, <1>3, <1>4 DEF Crash, TypeOK

LEMMA TypeStep ==
  ASSUME TypeOK, [Next]_vars
  PROVE  TypeOK'
<1>1. CASE Files
  BY <1>1, FilesStep
<1>2. ASSUME NEW p \in Process, Start(p) \/ Step(p) \/ Crash(p)
      PROVE  TypeOK'
  BY <1>2, StartStep, CrashStep, InitStep, ApproveStep, TestedStep, AdoptStep DEF Step
<1>3. CASE UNCHANGED vars
  BY <1>3 DEF vars, files, command, bounds, TypeOK, FilesType, CommandType
<1> QED
  BY <1>1, <1>2, <1>3 DEF Next

(* The files, flow.yaml and the commands always have their types: no       *)
(* command saves a state that another cannot load.                         *)
THEOREM TypeCorrect == Spec => []TypeOK
<1>1. Init => TypeOK
  <2>1. Init => FilesType
    BY FlowAssumption DEF Init, FilesType, Maybe
  <2>2. Init => CommandType
    BY FreshType DEF Init, CommandType, Stage
  <2>3. 0 \in 0 .. MaxEdits /\ 0 \in 0 .. MaxCrashes
    BY FlowAssumption
  <2> QED
    BY <2>1, <2>2, <2>3, FreshType DEF Init, TypeOK
<1> QED
  BY <1>1, TypeStep, PTL DEF Spec

---------------------------------------------------------------------------
(* The test on file is of the approvals on file.  This is inductive only   *)
(* together with the same fact of the states that commands have in memory: *)
(* any of them may become the file.                                        *)
MatchInv ==
  /\ TestMatchesApprovals
  /\ \A p \in Process : Consistent(seen[p])

LEMMA ApprovedConsistent ==
  ASSUME NEW f \in FlowState, Consistent(f), NEW s \in Stage, NEW r, NEW x, x = Target(s)
  PROVE  Consistent([f EXCEPT !.approvals[s] = x, !.reason = r, !.test = TestAfter(f, s)])
<1>1. PICK g : g = [f EXCEPT !.approvals[s] = x, !.reason = r, !.test = TestAfter(f, s)]
  OBVIOUS
<1>2. g.test = TestAfter(f, s) /\ g.approvals = [f.approvals EXCEPT ![s] = x]
  BY <1>1 DEF FlowState
<1>3. CASE TestAfter(f, s) = None
  BY <1>1, <1>2, <1>3 DEF Consistent
<1>4. CASE TestAfter(f, s) # None
  <2>1. f.test # None /\ s = "converted"
    BY <1>4 DEF TestAfter
  <2>2. TestAfter(f, s) = [f.test EXCEPT !["converted"] = Target("converted")]
    BY <1>4 DEF TestAfter
  <2>3. f.test = f.approvals
    BY <2>1 DEF Consistent
  <2> QED
    BY <1>1, <1>2, <2>1, <2>2, <2>3 DEF Consistent
<1> QED
  BY <1>3, <1>4

LEMMA SaveMatches ==
  ASSUME TypeOK, MatchInv, NEW p \in Process, NEW f, Save(p, f), Consistent(f)
  PROVE  MatchInv'
<1>1. seen' = [seen EXCEPT ![p] = Fresh] /\ flow' = f
  BY DEF Save, End
<1>2. Consistent(Fresh)
  BY DEF Consistent, Fresh
<1>3. \A q \in Process : Consistent(seen[q])'
  BY <1>1, <1>2 DEF MatchInv, TypeOK, CommandType, Consistent
<1> QED
  BY <1>1, <1>3 DEF MatchInv, TestMatchesApprovals, Consistent

LEMMA MatchStep ==
  ASSUME TypeOK, MatchInv, [Next]_vars
  PROVE  MatchInv'
<1> USE DEF MatchInv
<1>1. CASE UNCHANGED <<flow, seen>>
  BY <1>1 DEF TestMatchesApprovals, Consistent
<1>2. CASE Files
  BY <1>1, <1>2 DEF Files, EditSource, EditLimits, Reopen, Analyse, WriteSpec, Generate, Scan,
         Decide, WriteRecord, WriteDocs, Compare, command
<1>3. ASSUME NEW p \in Process, Refuse(p) \/ Crash(p)
      PROVE  MatchInv'
  <2>1. seen' = [seen EXCEPT ![p] = Fresh] /\ (flow' = flow \/ flow' = Torn)
    BY <1>3 DEF Refuse, Crash, End
  <2>2. \A q \in Process : Consistent(seen[q])'
    BY <2>1 DEF TypeOK, CommandType, Consistent, Fresh
  <2> QED
    BY <2>1, <2>2 DEF TestMatchesApprovals, Consistent, Readable
<1>4. ASSUME NEW p \in Process, Start(p)
      PROVE  MatchInv'
  <2>1. /\ flow' = flow
        /\ \E f : seen' = [seen EXCEPT ![p] = f] /\ (f = Fresh \/ (Readable(flow) /\ f = flow))
    <3>1. CASE \E evidence \in BOOLEAN : BeginInit(p, evidence)
      BY <3>1 DEF BeginInit, Begin
    <3>2. CASE \/ \E s \in Stage, withOpen \in BOOLEAN : BeginApprove(p, s, withOpen)
               \/ \E report \in BOOLEAN : BeginTested(p, report)
               \/ \E folder \in Folder, replace \in BOOLEAN : BeginAdopt(p, folder, replace)
      BY <3>2 DEF BeginApprove, BeginTested, BeginAdopt, Begin, Load
    <3> QED
      BY <1>4, <3>1, <3>2 DEF Start, Command, Adoption
  <2>2. \A q \in Process : Consistent(seen[q])'
    BY <2>1 DEF TypeOK, CommandType, Consistent, Fresh, TestMatchesApprovals
  <2> QED
    BY <2>1, <2>2 DEF TestMatchesApprovals, Consistent
<1>5. ASSUME NEW p \in Process, Step(p)
      PROVE  MatchInv'
  <2>1. seen[p] \in FlowState /\ Consistent(seen[p])
    BY DEF TypeOK, CommandType
  <2>2. CASE SaveInit(p)
    <3>1. PICK f : f = [Kept(seen[p]) EXCEPT !.evidence = @ \/ option[p]]
      OBVIOUS
    <3>2. Consistent(f)
      BY <2>1, <3>1 DEF Consistent, Kept, FlowState
    <3> QED
      BY <2>2, <3>1, <3>2, SaveMatches DEF SaveInit
  <2>3. CASE SaveApproval(p)
    <3>1. PICK s \in Stage : s = stage[p]
      BY <2>3 DEF SaveApproval, TypeOK, CommandType
    <3>2. PICK r : r = IF s = "decisions" THEN option[p] ELSE seen[p].reason
      OBVIOUS
    <3>3. PICK x : x = Target(s)
      OBVIOUS
    <3>4. PICK f : f = [seen[p] EXCEPT !.approvals[s] = x, !.reason = r, !.test = TestAfter(seen[p], s)]
      OBVIOUS
    <3>5. Consistent(f)
      BY <2>1, <3>3, <3>4, ApprovedConsistent
    <3>6. Save(p, f)
      BY <2>3, <3>1, <3>2, <3>3, <3>4 DEF SaveApproval
    <3> QED
      BY <3>5, <3>6, SaveMatches
  <2>4. CASE SaveTest(p) /\ ~Refuse(p)
    <3>1. PICK f : f = [seen[p] EXCEPT !.test = seen[p].approvals, !.evidence = @ \/ option[p]]
      OBVIOUS
    <3>2. Consistent(f)
      BY <2>1, <3>1 DEF Consistent, FlowState
    <3>3. Save(p, f)
      BY <2>4, <3>1 DEF SaveTest, NotedApprovals
    <3> QED
      BY <3>2, <3>3, SaveMatches
  <2>5. CASE SaveAdopted(p)
    BY <2>1, <2>5, SaveMatches DEF SaveAdopted
  <2>6. CASE /\ \/ CheckEarlier(p) \/ CheckStage(p) \/ ReadAgain(p) \/ GateStage(p)
                \/ CheckAdopted(p) \/ RemoveOld(p) \/ CopyNew(p)
             /\ ~Refuse(p)
    BY <1>1, <2>6 DEF CheckEarlier, CheckStage, ReadAgain, GateStage, CheckAdopted, RemoveOld,
           CopyNew
  <2> QED
    BY <1>3, <1>5, <2>2, <2>3, <2>4, <2>5, <2>6 DEF Step
<1>6. CASE UNCHANGED vars
  BY <1>1, <1>6 DEF vars, command
<1> QED
  BY <1>2, <1>3, <1>4, <1>5, <1>6 DEF Next

(* A test result never speaks of other approvals than those on file, how   *)
(* ever many commands run at once and wherever they are killed.            *)
THEOREM TestMatches == Spec => []TestMatchesApprovals
<1>1. Init => MatchInv
  BY DEF Init, MatchInv, TestMatchesApprovals, Readable, Consistent, Fresh
<1>2. MatchInv => TestMatchesApprovals
  BY DEF MatchInv
<1> QED
  BY <1>1, <1>2, MatchStep, TypeCorrect, PTL DEF Spec

---------------------------------------------------------------------------
(* One command at a time.  A running command has the state that is on      *)
(* file, cmd_gate looks at that same state, and what it finds of a stage   *)
(* is what the stage was approved for; so the test that is recorded with   *)
(* the approvals is a test of what they were given for.                    *)
Alone == \A p, q \in Process : p = q

InMemory(p) ==
  /\ cmd[p] = "init" => seen[p] = IF Readable(flow) THEN flow ELSE Fresh
  /\ cmd[p] \in {"approve", "tested", "adopt"} => Readable(flow) /\ seen[p] = flow

Gated(p) ==
  cmd[p] = "tested" =>
    /\ at[p] \geq 2 => gate[p] = flow
    /\ \A k \in 1 .. 3 : k < at[p] - 1 => checked[p][Order[k]] = flow.approvals[Order[k]]

TriedIsTested ==
  Readable(flow) /\ flow.test # None =>
    \A s \in {"spec", "decisions"} : tried[s] = flow.test[s]

CoverInv == TriedIsTested /\ \A p \in Process : InMemory(p) /\ Gated(p)

LEMMA ApprovedTarget ==
  ASSUME NEW f, NEW s, Approved(f, s)
  PROVE  f.approvals[s] = Contents(s)
BY DEF Approved, StageState, Target

(* A command that is over has nothing in memory. *)
LEMMA EndCovers ==
  ASSUME TypeOK, Alone, NEW p \in Process, End(p)
  PROVE  (\A q \in Process : InMemory(q) /\ Gated(q))'
<1>1. cmd'[p] = "none"
  BY DEF End, TypeOK, CommandType
<1>2. \A q \in Process : cmd'[q] = "none"
  BY <1>1 DEF Alone
<1> QED
  BY <1>2 DEF InMemory, Gated

LEMMA FilesCover ==
  ASSUME CoverInv, UNCHANGED <<flow, cmd, at, seen, gate, checked, tried>>
  PROVE  CoverInv'
BY DEF CoverInv, InMemory, Gated, TriedIsTested

LEMMA StartCovers ==
  ASSUME TypeOK, Alone, CoverInv, NEW p \in Process, Start(p)
  PROVE  CoverInv'
<1>1. /\ cmd \in [Process -> {"none", "init", "approve", "tested", "adopt"}]
      /\ seen \in [Process -> FlowState] /\ at \in [Process -> 0 .. 5]
  BY DEF TypeOK, CommandType
<1>2. CASE \E evidence \in BOOLEAN : BeginInit(p, evidence)
  <2>1. /\ cmd'[p] = "init" /\ flow' = flow /\ tried' = tried
        /\ seen'[p] = IF Readable(flow) THEN flow ELSE Fresh
    BY <1>1, <1>2 DEF BeginInit, Begin
  <2>2. InMemory(p)' /\ Gated(p)'
    BY <2>1 DEF InMemory, Gated, Readable
  <2> QED
    BY <2>1, <2>2 DEF CoverInv, Alone, TriedIsTested
<1>3. CASE \/ \E s \in Stage, withOpen \in BOOLEAN : BeginApprove(p, s, withOpen)
           \/ \E report \in BOOLEAN : BeginTested(p, report)
           \/ \E folder \in Folder, replace \in BOOLEAN : BeginAdopt(p, folder, replace)
  <2>1. /\ cmd'[p] \in {"approve", "tested", "adopt"} /\ at'[p] = 1
        /\ Readable(flow) /\ flow' = flow /\ tried' = tried /\ seen'[p] = flow
    BY <1>1, <1>3 DEF BeginApprove, BeginTested, BeginAdopt, Begin, Load
  <2>2. InMemory(p)' /\ Gated(p)'
    BY <2>1 DEF InMemory, Gated, Readable
  <2> QED
    BY <2>1, <2>2 DEF CoverInv, Alone, TriedIsTested
<1> QED
  BY <1>2, <1>3 DEF Start, Command, Adoption

LEMMA SaveCovers ==
  ASSUME TypeOK, Alone, CoverInv, NEW p \in Process,
         SaveInit(p) \/ SaveApproval(p) \/ (SaveTest(p) /\ ~Refuse(p)) \/ SaveAdopted(p)
  PROVE  CoverInv'
<1>1. End(p)
  BY DEF SaveInit, SaveApproval, SaveTest, SaveAdopted, Save
<1>2. seen[p] \in FlowState /\ InMemory(p) /\ Gated(p) /\ TriedIsTested
  BY DEF TypeOK, CommandType, CoverInv
<1>3. CASE SaveInit(p)
  <2>1. /\ cmd[p] = "init" /\ tried' = tried
        /\ flow' = [seen[p] EXCEPT !.evidence = @ \/ option[p]]
    BY <1>3 DEF SaveInit, Save, Kept
  <2>2. flow'.test = seen[p].test
    BY <1>2, <2>1 DEF FlowState
  <2>3. seen[p].test # None => Readable(flow) /\ seen[p] = flow
    BY <1>2, <2>1 DEF InMemory, Fresh
  <2>4. TriedIsTested'
    BY <1>2, <2>1, <2>2, <2>3 DEF TriedIsTested
  <2> QED
    BY <1>1, <2>4, EndCovers DEF CoverInv
<1>4. CASE SaveApproval(p)
  <2>1. PICK s : s = stage[p]
    OBVIOUS
  <2>2. PICK r : r = IF s = "decisions" THEN option[p] ELSE flow.reason
    OBVIOUS
  <2>3. seen[p] = flow /\ Readable(flow) /\ flow \in FlowState
    BY <1>2, <1>4 DEF InMemory, SaveApproval
  <2>4. /\ tried' = tried
        /\ flow' = [flow EXCEPT !.approvals[s] = Target(s), !.reason = r, !.test = TestAfter(flow, s)]
    BY <1>4, <2>1, <2>2, <2>3 DEF SaveApproval, Save
  <2>5. flow'.test = TestAfter(flow, s)
    BY <2>3, <2>4 DEF FlowState
  <2>6. TestAfter(flow, s) # None =>
          /\ flow.test # None
          /\ TestAfter(flow, s) = [flow.test EXCEPT !["converted"] = Target("converted")]
    BY DEF TestAfter
  <2>7. flow.test # None => flow.test \in ByStage
    BY <2>3 DEF FlowState, Maybe
  <2>8. flow'.test # None =>
          \A e \in {"spec", "decisions"} : flow'.test[e] = flow.test[e]
    BY <2>5, <2>6, <2>7 DEF ByStage, Stage
  <2>9. TriedIsTested'
    BY <1>2, <2>3, <2>4, <2>5, <2>6, <2>8 DEF TriedIsTested
  <2> QED
    BY <1>1, <2>9, EndCovers DEF CoverInv
<1>5. CASE SaveTest(p) /\ ~Refuse(p)
  <2>1. seen[p] = flow /\ flow \in FlowState /\ at[p] = 5 /\ cmd[p] = "tested"
    BY <1>2, <1>5 DEF InMemory, SaveTest
  <2>2. /\ tried' = checked[p]
        /\ flow' = [flow EXCEPT !.test = flow.approvals, !.evidence = @ \/ option[p]]
    BY <1>5, <2>1 DEF SaveTest, NotedApprovals, Save
  <2>3. flow'.test = flow.approvals
    BY <2>1, <2>2 DEF FlowState
  <2>4. \A k \in 1 .. 3 : checked[p][Order[k]] = flow.approvals[Order[k]]
    BY <1>2, <2>1 DEF Gated
  <2>5. Order[1] = "spec" /\ Order[2] = "decisions"
    BY DEF Order
  <2>6. TriedIsTested'
    BY <2>2, <2>3, <2>4, <2>5 DEF TriedIsTested
  <2> QED
    BY <1>1, <2>6, EndCovers DEF CoverInv
<1>6. CASE SaveAdopted(p)
  <2>1. seen[p] = flow /\ flow' = flow /\ tried' = tried
    BY <1>2, <1>6 DEF InMemory, SaveAdopted, Save
  <2> QED
    BY <1>1, <1>2, <2>1, EndCovers DEF CoverInv, TriedIsTested
<1> QED
  BY <1>3, <1>4, <1>5, <1>6

(* cmd_gate finds a stage as it was approved, or refuses. *)
LEMMA GateCovers ==
  ASSUME TypeOK, Alone, CoverInv, NEW p \in Process, ReadAgain(p) \/ GateStage(p), ~Refuse(p)
  PROVE  CoverInv'
<1>1. /\ InMemory(p) /\ Gated(p) /\ TriedIsTested /\ cmd[p] = "tested"
      /\ at \in [Process -> 0 .. 5] /\ gate \in [Process -> FlowState]
      /\ checked \in [Process -> ByStage]
  BY DEF TypeOK, CommandType, CoverInv, ReadAgain, GateStage
<1>2. UNCHANGED <<flow, cmd, seen, tried>> /\ Advance(p)
  BY DEF ReadAgain, GateStage
<1>3. at[p] \in 0 .. 5 /\ at'[p] = at[p] + 1
  BY <1>1, <1>2 DEF Advance
<1>4. CASE ReadAgain(p)
  <2>1. at[p] = 1 /\ gate'[p] = flow
    BY <1>1, <1>4 DEF ReadAgain
  <2>2. Gated(p)'
    BY <1>2, <1>3, <2>1 DEF Gated
  <2> QED
    BY <1>1, <1>2, <2>2 DEF CoverInv, Alone, InMemory, TriedIsTested
<1>5. CASE GateStage(p)
  <2>1. PICK n \in 1 .. 3 : n = at[p] - 1
    BY <1>3, <1>5 DEF GateStage
  <2>2. PICK s \in Stage : s = Order[n]
    BY RankValue
  <2>3. Approved(gate[p], s) /\ checked' = [checked EXCEPT ![p][s] = Contents(s)] /\ gate' = gate
    BY <1>5, <2>1, <2>2 DEF GateStage
  <2>4. gate[p] = flow
    BY <1>1, <1>3, <2>1 DEF Gated
  <2>5. checked'[p][s] = flow.approvals[s]
    <3>1. flow.approvals[s] = Contents(s)
      BY <2>3, <2>4, ApprovedTarget
    <3> QED
      BY <1>1, <2>3, <3>1 DEF ByStage
  <2>6. \A e \in Stage : e # s => checked'[p][e] = checked[p][e]
    BY <1>1, <2>3 DEF ByStage
  <2>7. ASSUME NEW k \in 1 .. 3, k < at[p]
        PROVE  checked'[p][Order[k]] = flow.approvals[Order[k]]
    <3>1. CASE k = n
      BY <2>2, <2>5, <3>1
    <3>2. CASE k # n
      <4>1. k < at[p] - 1
        BY <1>3, <2>1, <2>7, <3>2
      <4>2. PICK e \in Stage : e = Order[k]
        BY RankValue
      <4>3. checked[p][e] = flow.approvals[e]
        BY <1>1, <4>1, <4>2 DEF Gated
      <4> QED
        BY <2>5, <2>6, <4>2, <4>3
    <3> QED
      BY <3>1, <3>2
  <2>8. Gated(p)'
    BY <1>2, <1>3, <2>3, <2>4, <2>7 DEF Gated
  <2> QED
    BY <1>1, <1>2, <2>8 DEF CoverInv, Alone, InMemory, TriedIsTested
<1> QED
  BY <1>4, <1>5

(* approve and adopt on their way. *)
LEMMA AdvanceCovers ==
  ASSUME TypeOK, Alone, CoverInv, NEW p \in Process,
         \/ CheckEarlier(p) \/ CheckStage(p)
         \/ CheckAdopted(p) \/ RemoveOld(p) \/ CopyNew(p),
         ~Refuse(p)
  PROVE  CoverInv'
<1>1. cmd[p] \in {"approve", "adopt"} /\ UNCHANGED <<flow, cmd, seen, tried>>
  BY DEF CheckEarlier, CheckStage, CheckAdopted, RemoveOld, CopyNew
<1>2. InMemory(p)' /\ Gated(p)'
  BY <1>1 DEF CoverInv, InMemory, Gated
<1> QED
  BY <1>1, <1>2 DEF CoverInv, Alone, TriedIsTested

LEMMA CoverStep ==
  ASSUME TypeOK, Alone, CoverInv, [Next]_vars
  PROVE  CoverInv'
<1>1. CASE Files
  BY <1>1, FilesCover DEF Files, EditSource, EditLimits, Reopen, Analyse, WriteSpec, Generate, Scan,
         Decide, WriteRecord, WriteDocs, Compare, command
<1>2. ASSUME NEW p \in Process, Refuse(p) \/ Crash(p)
      PROVE  CoverInv'
  <2>1. End(p) /\ (flow' = flow \/ flow' = Torn) /\ tried' = tried
    BY <1>2 DEF Refuse, Crash
  <2>2. TriedIsTested'
    BY <2>1 DEF CoverInv, TriedIsTested, Readable
  <2> QED
    BY <2>1, <2>2, EndCovers DEF CoverInv
<1>3. ASSUME NEW p \in Process, Start(p) \/ Step(p)
      PROVE  CoverInv'
  BY <1>2, <1>3, StartCovers, SaveCovers, GateCovers, AdvanceCovers DEF Step
<1>4. CASE UNCHANGED vars
  BY <1>4, FilesCover DEF vars, command
<1> QED
  BY <1>1, <1>2, <1>3, <1>4 DEF Next

(* One command at a time: with the gate open and a test on file, the       *)
(* specification and the generated code are what they were when the test   *)
(* was recorded, whatever was written, adopted or killed in between.       *)
THEOREM TestCovers == Alone => (Spec => []TestCoversContents)
<1> SUFFICES ASSUME Alone
             PROVE  Spec => []TestCoversContents
  OBVIOUS
<1>1. Init => CoverInv
  BY DEF Init, CoverInv, TriedIsTested, InMemory, Gated, Readable
<1>2. MatchInv /\ CoverInv => TestCoversContents
  <2> SUFFICES ASSUME MatchInv, CoverInv, GateOpen, flow.test # None,
                      NEW s \in {"spec", "decisions"}
               PROVE  Contents(s) = tried[s]
    BY DEF TestCoversContents
  <2>1. Readable(flow) /\ Approved(flow, s)
    BY DEF GateOpen, Stage
  <2>2. flow.test = flow.approvals
    BY <2>1 DEF MatchInv, TestMatchesApprovals, Consistent
  <2>3. tried[s] = flow.test[s]
    BY <2>1 DEF CoverInv, TriedIsTested
  <2> QED
    BY <2>1, <2>2, <2>3, ApprovedTarget
<1>3. Init => MatchInv
  BY DEF Init, MatchInv, TestMatchesApprovals, Readable, Consistent, Fresh
<1> QED
  BY <1>1, <1>2, <1>3, MatchStep, CoverStep, TypeCorrect, PTL DEF Spec

---------------------------------------------------------------------------
(* An approval of decisions over an open question carries its reason, in   *)
(* the file and in the states that commands have in memory.  What the      *)
(* command found in the record is there when it saves, unless somebody     *)
(* wrote the record meanwhile.                                             *)
HasReason(f) ==
  f.approvals["decisions"] # None /\ f.approvals["decisions"].record = "open" => f.reason

Noted(p) ==
  cmd[p] = "approve" /\ stage[p] = "decisions" /\ at[p] > Rank("decisions") => option[p] = OpenItem

ReasonInv ==
  ~raced =>
    /\ Readable(flow) => HasReason(flow)
    /\ \A p \in Process : HasReason(seen[p]) /\ Noted(p)

(* A command ends with what is saved having its reason. *)
LEMMA EndReason ==
  ASSUME TypeOK, ReasonInv, NEW p \in Process, End(p), UNCHANGED <<record, raced>>,
         ~raced /\ Readable(flow') => HasReason(flow')
  PROVE  ReasonInv'
<1>1. HasReason(Fresh)
  BY DEF HasReason, Fresh, Nothing, Stage
<1>2. ASSUME NEW q \in Process, ~raced
      PROVE  HasReason(seen'[q]) /\ Noted(q)'
  <2>1. CASE q = p
    BY <1>1, <2>1 DEF End, TypeOK, CommandType, Noted
  <2>2. CASE q # p
    BY <1>2, <2>2 DEF End, TypeOK, CommandType, ReasonInv, Noted, OpenItem
  <2> QED
    BY <2>1, <2>2
<1> QED
  BY <1>2 DEF ReasonInv, HasReason

LEMMA ReasonStep ==
  ASSUME TypeOK, ReasonInv, [Next]_vars
  PROVE  ReasonInv'
<1>1. CASE UNCHANGED <<flow, command, record, raced>>
  BY <1>1 DEF ReasonInv, HasReason, Noted, OpenItem, command
<1>2. CASE Files
  <2>1. CASE \E entry : WriteRecord(entry)
    <3>1. UNCHANGED <<flow, command>> /\ (~raced' => ~raced /\ \A p \in Process : cmd[p] = "none")
      BY <2>1 DEF WriteRecord
    <3> QED
      BY <3>1 DEF ReasonInv, HasReason, Noted, command
  <2> QED
    BY <1>1, <1>2, <2>1 DEF Files, EditSource, EditLimits, Reopen, Analyse, WriteSpec, Generate,
           Scan, Decide, WriteDocs, Compare
<1>3. ASSUME NEW p \in Process, Refuse(p) \/ Crash(p)
      PROVE  ReasonInv'
  <2>1. End(p) /\ (flow' = flow \/ flow' = Torn) /\ UNCHANGED <<record, raced>>
    BY <1>3 DEF Refuse, Crash, files
  <2> QED
    BY <2>1, EndReason DEF ReasonInv, Readable
<1>4. ASSUME NEW p \in Process, Start(p)
      PROVE  ReasonInv'
  <2>1. /\ UNCHANGED <<flow, record, raced>>
        /\ \E c, s, o : /\ cmd' = [cmd EXCEPT ![p] = c] /\ stage' = [stage EXCEPT ![p] = s]
                        /\ option' = [option EXCEPT ![p] = o] /\ at' = [at EXCEPT ![p] = 1]
        /\ \E f : seen' = [seen EXCEPT ![p] = f] /\ (f = Fresh \/ (Readable(flow) /\ f = flow))
    <3>1. CASE \E evidence \in BOOLEAN : BeginInit(p, evidence)
      BY <3>1 DEF BeginInit, Begin, files
    <3>2. CASE \/ \E s \in Stage, withOpen \in BOOLEAN : BeginApprove(p, s, withOpen)
               \/ \E report \in BOOLEAN : BeginTested(p, report)
               \/ \E folder \in Folder, replace \in BOOLEAN : BeginAdopt(p, folder, replace)
      BY <3>2 DEF BeginApprove, BeginTested, BeginAdopt, Begin, Load, files
    <3> QED
      BY <1>4, <3>1, <3>2 DEF Start, Command, Adoption
  <2>2. HasReason(Fresh)
    BY DEF HasReason, Fresh, Nothing, Stage
  <2>3. ASSUME NEW q \in Process, ~raced
        PROVE  HasReason(seen'[q]) /\ Noted(q)'
    <3>1. CASE q = p
      <4>1. at'[q] = 1 /\ Rank("decisions") = 2
        BY <2>1, <3>1, RankValue DEF TypeOK, CommandType
      <4>2. HasReason(seen'[q])
        BY <2>1, <2>2, <2>3, <3>1 DEF ReasonInv, TypeOK, CommandType
      <4> QED
        BY <4>1, <4>2 DEF Noted
    <3>2. CASE q # p
      BY <2>1, <2>3, <3>2 DEF ReasonInv, TypeOK, CommandType, Noted, OpenItem
    <3> QED
      BY <3>1, <3>2
  <2> QED
    BY <2>1, <2>3 DEF ReasonInv, HasReason
<1>5. ASSUME NEW p \in Process, Step(p)
      PROVE  ReasonInv'
  <2>1. seen[p] \in FlowState /\ at[p] \in Nat /\ option[p] \in BOOLEAN
    BY DEF TypeOK, CommandType
  <2>2. CASE SaveInit(p)
    <3>1. flow'.approvals = seen[p].approvals /\ flow'.reason = seen[p].reason
      BY <2>1, <2>2 DEF SaveInit, Save, Kept, FlowState
    <3>2. ~raced => HasReason(flow')
      BY <3>1 DEF ReasonInv, HasReason
    <3> QED
      BY <2>2, <3>2, EndReason DEF SaveInit, Save, files
  <2>3. CASE SaveApproval(p)
    <3>1. PICK s \in Stage : s = stage[p]
      BY <2>3 DEF SaveApproval, TypeOK, CommandType
    <3>2. /\ flow'.approvals = [seen[p].approvals EXCEPT ![s] = Target(s)]
          /\ flow'.reason = IF s = "decisions" THEN option[p] ELSE seen[p].reason
      BY <2>1, <2>3, <3>1 DEF SaveApproval, Save, FlowState
    <3>3. ASSUME ~raced PROVE HasReason(flow')
      <4>1. CASE s = "decisions"
        <5>1. flow'.approvals["decisions"] = Target("decisions")
          BY <2>1, <3>2, <4>1 DEF FlowState, ByStage, Stage
        <5>2. Target("decisions").record = record
          BY DEF Target, Contents
        <5>3. flow'.reason = OpenItem
          BY <2>3, <3>1, <3>2, <3>3, <4>1 DEF SaveApproval, ReasonInv, Noted
        <5> QED
          BY <5>1, <5>2, <5>3 DEF HasReason, OpenItem
      <4>2. CASE s # "decisions"
        <5>1. flow'.approvals["decisions"] = seen[p].approvals["decisions"]
          BY <2>1, <3>2, <4>2 DEF FlowState, ByStage, Stage
        <5> QED
          BY <3>2, <3>3, <4>2, <5>1 DEF HasReason, ReasonInv
      <4> QED
        BY <4>1, <4>2
    <3> QED
      BY <2>3, <3>3, EndReason DEF SaveApproval, Save, files
  <2>4. CASE SaveTest(p) /\ ~Refuse(p)
    <3>1. flow'.approvals = seen[p].approvals /\ flow'.reason = seen[p].reason
      BY <2>1, <2>4 DEF SaveTest, Save, FlowState
    <3>2. ~raced => HasReason(flow')
      BY <3>1 DEF ReasonInv, HasReason
    <3> QED
      BY <2>4, <3>2, EndReason DEF SaveTest, Save, files
  <2>5. CASE SaveAdopted(p)
    <3>1. ~raced => HasReason(flow')
      BY <2>5 DEF SaveAdopted, Save, ReasonInv
    <3> QED
      BY <2>5, <3>1, EndReason DEF SaveAdopted, Save, files
  <2>6. CASE CheckStage(p) /\ ~Refuse(p)
    <3>1. /\ option' = [option EXCEPT ![p] = stage[p] = "decisions" /\ OpenItem]
          /\ UNCHANGED <<flow, cmd, stage, seen, raced, record>> /\ Advance(p)
      BY <2>6 DEF CheckStage, files
    <3>2. \A q \in Process : ~raced => Noted(q)'
      BY <3>1 DEF ReasonInv, Noted, Advance, TypeOK, CommandType, OpenItem
    <3> QED
      BY <3>1, <3>2 DEF ReasonInv, HasReason
  <2>7. CASE CheckEarlier(p) /\ ~Refuse(p)
    <3>1. /\ UNCHANGED <<flow, cmd, stage, option, seen, raced, record>> /\ Advance(p)
          /\ at[p] < Rank(stage[p])
      BY <2>7 DEF CheckEarlier, files
    <3>2. ASSUME NEW q \in Process, ~raced PROVE Noted(q)'
      <4>1. CASE q = p
        <5>1. stage[p] = "decisions" => at'[p] <= Rank("decisions")
          BY <2>1, <3>1, RankValue DEF Advance, TypeOK, CommandType
        <5>2. at'[p] \in Nat
          BY <2>1, <3>1 DEF Advance, TypeOK, CommandType
        <5> QED
          BY <3>1, <4>1, <5>1, <5>2, RankValue DEF Noted
      <4>2. CASE q # p
        BY <3>1, <3>2, <4>2 DEF ReasonInv, Noted, Advance, TypeOK, CommandType, OpenItem
      <4> QED
        BY <4>1, <4>2
    <3> QED
      BY <3>1, <3>2 DEF ReasonInv, HasReason
  <2>8. CASE /\ \/ ReadAgain(p) \/ GateStage(p)
                \/ CheckAdopted(p) \/ RemoveOld(p) \/ CopyNew(p)
             /\ ~Refuse(p)
    <3>1. /\ UNCHANGED <<flow, cmd, stage, option, seen, raced, record>> /\ Advance(p)
          /\ cmd[p] # "approve"
      BY <2>8 DEF ReadAgain, GateStage, CheckAdopted, RemoveOld, CopyNew, Put, files
    <3>2. \A q \in Process : ~raced => Noted(q)'
      BY <3>1 DEF ReasonInv, Noted, Advance, TypeOK, CommandType, OpenItem
    <3> QED
      BY <3>1, <3>2 DEF ReasonInv, HasReason
  <2> QED
    BY <1>3, <1>5, <2>2, <2>3, <2>4, <2>5, <2>6, <2>7, <2>8 DEF Step
<1>6. CASE UNCHANGED vars
  BY <1>1, <1>6 DEF vars, files
<1> QED
  BY <1>2, <1>3, <1>4, <1>5, <1>6 DEF Next

(* The gate is open over a question nobody has answered only if the        *)
(* approval says why, however many commands run at once, as long as nobody *)
(* wrote the record while one ran.                                         *)
THEOREM QuestionsNoted == Spec => []NoSilentQuestion
<1>1. Init => ReasonInv
  BY DEF Init, ReasonInv, HasReason, Noted, Readable, Fresh, Nothing, Stage
<1>2. ReasonInv => NoSilentQuestion
  <2> SUFFICES ASSUME ReasonInv, GateOpen, OpenItem, ~raced
               PROVE  flow.reason
    BY DEF NoSilentQuestion
  <2>1. Readable(flow) /\ Approved(flow, "decisions")
    BY DEF GateOpen, Stage
  <2>2. flow.approvals["decisions"] # None /\ flow.approvals["decisions"].record = record
    BY <2>1 DEF Approved, StageState, Target, Contents
  <2> QED
    BY <2>1, <2>2 DEF ReasonInv, HasReason, OpenItem
<1> QED
  BY <1>1, <1>2, ReasonStep, TypeCorrect, PTL DEF Spec

---------------------------------------------------------------------------
(* What a step may drop from the file.                                     *)
Keeps ==
  Readable(flow) /\ Readable(flow') =>
    /\ flow.evidence => flow'.evidence
    /\ \A s \in Stage : flow'.approvals[s] = flow.approvals[s] \/ flow'.approvals[s] = Target(s)
    /\ flow'.test = None => \/ flow.test = None
                           \/ \E p \in Process : cmd[p] = "approve" /\ stage[p] # "converted"

LEMMA SaveKeeps ==
  ASSUME TypeOK, MatchInv, CoverInv, NEW p \in Process, Readable(flow),
         SaveInit(p) \/ SaveApproval(p) \/ (SaveTest(p) /\ ~Refuse(p)) \/ SaveAdopted(p)
  PROVE  Keeps
<1>1. seen[p] = flow
  BY DEF CoverInv, InMemory, SaveInit, SaveApproval, SaveTest, SaveAdopted
<1>2. flow \in FlowState /\ option[p] \in BOOLEAN /\ Consistent(flow)
  BY DEF TypeOK, CommandType, Readable, MatchInv, TestMatchesApprovals
<1>3. CASE SaveInit(p) \/ SaveAdopted(p)
  <2>1. flow' = [flow EXCEPT !.evidence = @ \/ option[p]] \/ flow' = flow
    BY <1>1, <1>3 DEF SaveInit, SaveAdopted, Save, Kept
  <2> QED
    BY <1>2, <2>1 DEF Keeps, FlowState
<1>4. CASE SaveTest(p) /\ ~Refuse(p)
  <2>1. flow' = [flow EXCEPT !.test = flow.approvals, !.evidence = @ \/ option[p]]
    BY <1>1, <1>4 DEF SaveTest, NotedApprovals, Save
  <2>2. flow.approvals # None
    BY <1>2, NoneAssumption DEF FlowState
  <2> QED
    BY <1>2, <2>1, <2>2 DEF Keeps, FlowState
<1>5. CASE SaveApproval(p)
  <2>1. PICK s \in Stage : s = stage[p] /\ cmd[p] = "approve"
    BY <1>5 DEF SaveApproval, TypeOK, CommandType
  <2>2. /\ flow'.approvals = [flow.approvals EXCEPT ![s] = Target(s)]
        /\ flow'.test = TestAfter(flow, s)
        /\ flow'.evidence = flow.evidence
    BY <1>1, <1>2, <1>5, <2>1 DEF SaveApproval, Save, FlowState
  <2>3. \A e \in Stage : flow'.approvals[e] = flow.approvals[e] \/ flow'.approvals[e] = Target(e)
    BY <1>2, <2>2 DEF FlowState, ByStage
  <2>4. CASE s # "converted"
    BY <2>1, <2>2, <2>3, <2>4 DEF Keeps
  <2>5. CASE s = "converted" /\ flow.test # None
    <3>1. flow.test = flow.approvals /\ flow.test \in ByStage
      BY <1>2, <2>5 DEF Consistent, FlowState
    <3>2. TestAfter(flow, s) = [flow.test EXCEPT !["converted"] = Target("converted")]
      BY <2>5, <3>1 DEF TestAfter
    <3>3. TestAfter(flow, s) \in ByStage
      <4>1. Target("converted") \in Maybe(Content)
        BY ContentsType DEF TypeOK, Target, Maybe, Stage
      <4> QED
        BY <3>1, <3>2, <4>1 DEF ByStage
    <3> QED
      BY <2>2, <2>3, <3>3, NoneAssumption DEF Keeps
  <2>6. CASE flow.test = None
    BY <2>2, <2>3, <2>6 DEF Keeps
  <2> QED
    BY <2>4, <2>5, <2>6
<1> QED
  BY <1>3, <1>4, <1>5

LEMMA KeepStep ==
  ASSUME TypeOK, MatchInv, CoverInv, Next
  PROVE  Keeps
<1>1. CASE flow' = flow \/ flow' = Torn \/ ~Readable(flow)
  BY <1>1 DEF Keeps, Readable
<1>2. CASE Files
  BY <1>1, <1>2 DEF Files, EditSource, EditLimits, Reopen, Analyse, WriteSpec, Generate, Scan,
         Decide, WriteRecord, WriteDocs, Compare
<1>3. ASSUME NEW p \in Process, Refuse(p) \/ Crash(p) \/ Start(p)
      PROVE  Keeps
  BY <1>1, <1>3 DEF Refuse, Crash, Start, Command, Adoption, BeginInit, BeginApprove,
         BeginTested, BeginAdopt, Begin
<1>4. ASSUME NEW p \in Process, Step(p)
      PROVE  Keeps
  <2>1. CASE /\ \/ CheckEarlier(p) \/ CheckStage(p) \/ ReadAgain(p) \/ GateStage(p)
                \/ CheckAdopted(p) \/ RemoveOld(p) \/ CopyNew(p)
             /\ ~Refuse(p)
    BY <1>1, <2>1 DEF CheckEarlier, CheckStage, ReadAgain, GateStage, CheckAdopted, RemoveOld,
           CopyNew
  <2> QED
    BY <1>1, <1>3, <1>4, <2>1, SaveKeeps DEF Step
<1> QED
  BY <1>2, <1>3, <1>4 DEF Next

(* One command at a time: nothing but approving spec or decisions again    *)
(* drops the test, and nothing drops an approval or the evidence.          *)
THEOREM NothingIsForgotten == Alone => (Spec => NothingForgotten)
<1> SUFFICES ASSUME Alone
             PROVE  Spec => NothingForgotten
  OBVIOUS
<1>1. Init => CoverInv
  BY DEF Init, CoverInv, TriedIsTested, InMemory, Gated, Readable
<1>2. Init => MatchInv
  BY DEF Init, MatchInv, TestMatchesApprovals, Readable, Consistent, Fresh
<1>3. TypeOK /\ MatchInv /\ CoverInv /\ [Next]_vars => [Keeps]_vars
  BY KeepStep
<1>4. [][Keeps]_vars => NothingForgotten
  BY PTL DEF NothingForgotten, Keeps
<1> QED
  BY <1>1, <1>2, <1>3, <1>4, MatchStep, CoverStep, TypeCorrect, PTL DEF Spec
=============================================================================
