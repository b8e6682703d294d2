---------------------------- MODULE MigrateFlow ----------------------------
(***************************************************************************)
(* skills/migrate-flow/scripts/flow.py, for kind: plsql.  A migration goes *)
(* through three approvals: what the program does today (spec), what       *)
(* people decided and the code generated from it (decisions), and the      *)
(* documents of what will be different (converted); then it may be tested. *)
(* flow.yaml keeps the approvals, each with a fingerprint of the files it  *)
(* was given for, and the result of the test.  The files belong to other   *)
(* tools and to people, who write them at any time, also while a command   *)
(* of flow.py runs; several commands may run at once.                      *)
(*                                                                         *)
(* A file is modelled by what it was made from, a fingerprint by the       *)
(* contents it is the digest of (it is read at the moment it is taken).    *)
(***************************************************************************)
EXTENDS Naturals

CONSTANTS
  Process,      \* the commands of flow.py that may run at the same time
  Person,       \* whose commands are those that status advises
  Source,       \* the contents the source may have
  AtFirst,      \* those it may begin with
  Limits,       \* the contents limits.yaml may have
  Asks,         \* the limits whose generated code raises a question for people
  MaxEdits,     \* bound: edits of the source, the limits, the record; adoptions;
                \* beside the advice, commands of others
  MaxCrashes,   \* bound: commands killed half-way
  None,         \* absent
  Torn          \* a flow.yaml that was emptied and not written

ASSUME FlowAssumption ==
  /\ Asks \subseteq Limits
  /\ AtFirst \subseteq Source
  /\ MaxEdits \in Nat
  /\ MaxCrashes \in Nat

VARIABLES
  src,          \* the PL/SQL source
  limits,       \* limits.yaml
  record,       \* the question's entry in the record: "absent", "open" or "decided"
  analysis,     \* spec-analysis/: the version of the source it was made of
  pages,        \* spec/*.md: the version of the source its facts state
  generated,    \* generated/: the source and the limits it was generated from
  docs,         \* docs/*.md: the facts it states
  comparison,   \* the report of the last comparison: the generated code compared
  flow,         \* flow.yaml: a state, None (no file), or Torn (an empty file)
  cmd,          \* cmd[p]: the command p runs, "none" when it is over
  stage,        \* cmd[p] = "approve": the stage;  "adopt": the folder
  option,       \* --with-open of approve, --report of tested, --replace of adopt
  at,           \* at[p]: how far it is
  seen,         \* seen[p]: the state it loaded
  gate,         \* gate[p]: the state that tested's call of cmd_gate loaded
  checked,      \* checked[p]: the contents that call found of each stage
  tried,        \* history: `checked` of the test that was recorded last
  raced,        \* history: the record was written while a command ran
  edits, crashes

files   == <<src, limits, record, analysis, pages, generated, docs, comparison>>
command == <<cmd, stage, option, at, seen, gate, checked>>
bounds  == <<edits, crashes>>
vars    == <<files, flow, command, tried, raced, bounds>>

Stage  == {"spec", "decisions", "converted"}
Order  == <<"spec", "decisions", "converted">>
Folder == {"pages", "analysis", "generated", "docs"}

(* The position of a stage in STAGES. *)
RankAfter(s) == IF s = "spec" THEN 2 ELSE IF s = "decisions" THEN 3 ELSE 4
Rank(s) == CHOOSE k \in 1 .. 3 : Order[k] = s

Nothing == [s \in Stage |-> None]
Fresh   == [evidence |-> FALSE, approvals |-> Nothing, reason |-> FALSE, test |-> None]

Readable(f) == f \notin {None, Torn}

---------------------------------------------------------------------------
(* The stages.                                                             *)

(* The files of a stage. *)
Contents(s) ==
  CASE s = "spec"      -> [pages |-> pages, src |-> src]
    [] s = "decisions" -> [limits |-> limits, record |-> record, generated |-> generated]
    [] s = "converted" -> [docs |-> docs]

(* What an approval is for: the fingerprint of _targets, all of them. *)
WithoutGenerated(s) ==
  IF s = "decisions" THEN [Contents(s) EXCEPT !.generated = None] ELSE Contents(s)
WithoutRecord(s) ==
  IF s = "decisions" THEN [Contents(s) EXCEPT !.record = "absent"] ELSE Contents(s)
Target(s) == Contents(s)

(* The generated code raises a question; it is not in the record (or there *)
(* as out of scope, which is the same).                                    *)
Asked    == generated # None /\ generated.limits \in Asks
Unpicked == Asked /\ record = "absent"

(* The facts migration_doc.py puts into the documents, for the inputs of f. *)
FactsNow(f) ==
  [generated |-> generated, limits |-> limits, record |-> record,
   evidence |-> IF f.evidence THEN comparison ELSE None]

(* There is a reason not to submit s to approval (problems_of). *)
HasProblem(f, s) ==
  \/ s = "spec" /\ (pages = None \/ analysis = None \/ pages # analysis)
  \/ s = "decisions" /\ (generated = None \/ Unpicked)
  \/ s = "converted" /\ (docs = None \/ generated = None \/ docs # FactsNow(f))

(* A judgement that nobody has made yet. *)
OpenItem == record = "open"

StageState(f, s) ==
  IF f.approvals[s] = None
    THEN IF HasProblem(f, s) THEN "working" ELSE "waiting"
    ELSE IF f.approvals[s] # Target(s) THEN "stale"
         ELSE IF HasProblem(f, s) THEN "failing" ELSE "approved"

Approved(f, s) == StageState(f, s) = "approved"

GateOpen == Readable(flow) /\ \A s \in Stage : Approved(flow, s)

(* What is left of the test result when s is approved again (_test_after). *)
ForgetsConverted(f, s) ==
  IF f.test = None \/ s # "converted" THEN None ELSE [e \in {"spec", "decisions"} |-> f.test[e]]
TestAfter(f, s) ==
  IF \/ f.test = None
     \/ s # "converted"
     \/ \E e \in {"spec", "decisions"} : f.test[e] # f.approvals[e]
    THEN None
    ELSE [f.test EXCEPT !["converted"] = Target("converted")]

---------------------------------------------------------------------------
Init ==
  /\ src \in AtFirst /\ limits \in Limits
  /\ record = "absent"
  /\ analysis = None /\ pages = None /\ generated = None /\ docs = None
  /\ comparison = None
  /\ flow = None
  /\ cmd = [p \in Process |-> "none"]
  /\ stage = [p \in Process |-> "spec"]
  /\ option = [p \in Process |-> FALSE]
  /\ at = [p \in Process |-> 0]
  /\ seen = [p \in Process |-> Fresh]
  /\ gate = [p \in Process |-> Fresh]
  /\ checked = [p \in Process |-> Nothing]
  /\ tried = Nothing
  /\ raced = FALSE
  /\ edits = 0 /\ crashes = 0

(* People and the other tools write files.                                 *)
Edit == edits < MaxEdits /\ edits' = edits + 1

EditSource ==
  /\ Edit
  /\ src' \in Source \ {src}
  /\ UNCHANGED <<limits, record, analysis, pages, generated, docs, comparison,
                 flow, command, tried, raced, crashes>>

EditLimits ==
  /\ Edit
  /\ limits' \in Limits \ {limits}
  /\ UNCHANGED <<src, record, analysis, pages, generated, docs, comparison,
                 flow, command, tried, raced, crashes>>

(* plsql.cli and spec_facts.py *)
Analyse ==
  /\ analysis' = src
  /\ UNCHANGED <<src, limits, record, pages, generated, docs, comparison,
                 flow, command, tried, raced, bounds>>

WriteSpec ==
  /\ analysis # None
  /\ pages' = analysis
  /\ UNCHANGED <<src, limits, record, analysis, generated, docs, comparison,
                 flow, command, tried, raced, bounds>>

(* plsql.generate *)
Generate ==
  /\ generated' = [src |-> src, limits |-> limits]
  /\ UNCHANGED <<src, limits, record, analysis, pages, docs, comparison,
                 flow, command, tried, raced, bounds>>

(* decision_items.py scan --write (a question that is no longer raised is  *)
(* out of scope, unless it was decided), and the people who answer or      *)
(* reopen it.                                                              *)
WriteRecord(entry) ==
  /\ record' = entry
  /\ raced' = (raced \/ \E p \in Process : cmd[p] # "none")
  /\ UNCHANGED <<src, limits, analysis, pages, generated, docs, comparison,
                 flow, command, tried, crashes>>

Scan ==
  /\ generated # None
  /\ \/ Unpicked /\ WriteRecord("open")
     \/ ~Asked /\ record = "open" /\ WriteRecord("absent")
  /\ UNCHANGED edits

Decide == record = "open" /\ WriteRecord("decided") /\ UNCHANGED edits
Reopen == record = "decided" /\ Edit /\ WriteRecord("open")

(* migration_doc.py, with the evidence that flow.yaml names *)
WriteDocs ==
  /\ Readable(flow) /\ generated # None
  /\ docs' = FactsNow(flow)
  /\ UNCHANGED <<src, limits, record, analysis, pages, generated, comparison,
                 flow, command, tried, raced, bounds>>

(* The test itself: the generated code is compared with Oracle. *)
Compare ==
  /\ generated # None
  /\ comparison' = generated
  /\ UNCHANGED <<src, limits, record, analysis, pages, generated, docs,
                 flow, command, tried, raced, bounds>>

---------------------------------------------------------------------------
(* The commands of flow.py.                                                *)

Begin(p, c, s, o) ==
  /\ cmd[p] = "none"
  /\ cmd' = [cmd EXCEPT ![p] = c]
  /\ stage' = [stage EXCEPT ![p] = s]
  /\ option' = [option EXCEPT ![p] = o]
  /\ at' = [at EXCEPT ![p] = 1]
  /\ UNCHANGED <<files, flow, gate, checked, tried, raced>>

(* load(): every command but init refuses a file that is not there or is   *)
(* empty; init starts from nothing then.                                   *)
Load(p) == seen' = [seen EXCEPT ![p] = flow]

BeginInit(p, evidence) ==
  /\ evidence => comparison # None
  /\ Begin(p, "init", "spec", evidence)
  /\ seen' = [seen EXCEPT ![p] = IF Readable(flow) THEN flow ELSE Fresh]

BeginApprove(p, s, withOpen) ==
  /\ Readable(flow)
  /\ withOpen => s = "decisions"   \* the other stages do not look at it
  /\ Begin(p, "approve", s, withOpen) /\ Load(p)

BeginTested(p, report) ==
  /\ Readable(flow)
  /\ report => comparison # None
  /\ Begin(p, "tested", "spec", report) /\ Load(p)

BeginAdopt(p, folder, replace) ==
  /\ Readable(flow)
  /\ Edit
  /\ Begin(p, "adopt", folder, replace) /\ Load(p)
  /\ UNCHANGED crashes

(* The command ends; what it had in memory is gone. *)
End(p) ==
  /\ cmd' = [cmd EXCEPT ![p] = "none"]
  /\ stage' = [stage EXCEPT ![p] = "spec"]
  /\ option' = [option EXCEPT ![p] = FALSE]
  /\ at' = [at EXCEPT ![p] = 0]
  /\ seen' = [seen EXCEPT ![p] = Fresh]
  /\ gate' = [gate EXCEPT ![p] = Fresh]
  /\ checked' = [checked EXCEPT ![p] = Nothing]

Refuse(p) == End(p) /\ UNCHANGED <<files, flow, tried, raced, bounds>>

Advance(p) == at' = [at EXCEPT ![p] = @ + 1]

(* save(): the file is written again, whole, from what the command loaded. *)
Save(p, f) ==
  /\ flow' = f
  /\ End(p)
  /\ UNCHANGED <<files, raced, bounds>>

(* init makes the inputs anew and keeps the rest, and the evidence that    *)
(* tested noted unless it is given another.                                *)
NoEvidence(f) == [f EXCEPT !.evidence = FALSE]
Kept(f)       == f

SaveInit(p) ==
  /\ cmd[p] = "init"
  /\ Save(p, [Kept(seen[p]) EXCEPT !.evidence = @ \/ option[p]])
  /\ UNCHANGED tried

(* approve: the earlier stages one by one ... *)
CheckEarlier(p) ==
  /\ cmd[p] = "approve" /\ at[p] < Rank(stage[p])
  /\ \/ /\ Approved(seen[p], Order[at[p]])
        /\ Advance(p)
        /\ UNCHANGED <<files, flow, cmd, stage, option, seen, gate, checked, tried, raced, bounds>>
     \/ ~Approved(seen[p], Order[at[p]]) /\ Refuse(p)

(* ... then the stage itself, ... *)
MayApprove(p) ==
  /\ ~HasProblem(seen[p], stage[p])
  /\ stage[p] = "decisions" /\ OpenItem => option[p]

CheckStage(p) ==
  /\ cmd[p] = "approve" /\ at[p] = Rank(stage[p])
  /\ \/ /\ MayApprove(p)
        /\ Advance(p)
        (* `remaining` is what open_items() says now *)
        /\ option' = [option EXCEPT ![p] = stage[p] = "decisions" /\ OpenItem]
        /\ UNCHANGED <<files, flow, cmd, stage, seen, gate, checked, tried, raced, bounds>>
     \/ ~MayApprove(p) /\ Refuse(p)

(* ... and the approval, with the fingerprint the files have now. *)
SaveApproval(p) ==
  LET s == stage[p] f == seen[p] IN
  /\ cmd[p] = "approve" /\ at[p] > Rank(s)
  /\ Save(p, [f EXCEPT !.approvals[s] = Target(s),
                       !.reason = IF s = "decisions" THEN option[p] ELSE @,
                       !.test = TestAfter(f, s)])
  /\ UNCHANGED tried

(* tested: cmd_gate loads the file again and looks at the stages in turn.  *)
ReadAgain(p) ==
  /\ cmd[p] = "tested" /\ at[p] = 1
  /\ \/ /\ Readable(flow)
        /\ gate' = [gate EXCEPT ![p] = flow]
        /\ Advance(p)
        /\ UNCHANGED <<files, flow, cmd, stage, option, seen, checked, tried, raced, bounds>>
     \/ ~Readable(flow) /\ Refuse(p)

GateStage(p) ==
  LET s == Order[at[p] - 1] IN
  /\ cmd[p] = "tested" /\ at[p] \in 2 .. 4
  /\ \/ /\ Approved(gate[p], s)
        /\ checked' = [checked EXCEPT ![p][s] = Contents(s)]
        /\ Advance(p)
        /\ UNCHANGED <<files, flow, cmd, stage, option, seen, gate, tried, raced, bounds>>
     \/ ~Approved(gate[p], s) /\ Refuse(p)

(* The approvals noted with the result are those of the state that tested  *)
(* loaded first, which is also the one it saves.                           *)
GateApprovals(p)  == gate[p].approvals
NotedApprovals(p) == seen[p].approvals

(* The result is recorded with the fingerprints of the approvals; without  *)
(* one of them (the state it loaded first is older than the gate's) the    *)
(* command fails.                                                          *)
SaveTest(p) ==
  /\ cmd[p] = "tested" /\ at[p] = 5
  /\ \/ /\ \A s \in Stage : seen[p].approvals[s] # None
        /\ Save(p, [seen[p] EXCEPT !.test = NotedApprovals(p),
                                   !.evidence = @ \/ option[p]])
        /\ tried' = checked[p]
     \/ (\E s \in Stage : seen[p].approvals[s] = None) /\ Refuse(p)

(* adopt: first what is there is compared with what is to be adopted, then *)
(* it is removed, the copy is made, and the state is saved.                *)
Holding(folder) ==
  CASE folder = "pages"     -> pages
    [] folder = "analysis"  -> analysis
    [] folder = "generated" -> generated
    [] folder = "docs"      -> docs

Put(folder, x) ==
  /\ pages' = IF folder = "pages" THEN x ELSE pages
  /\ analysis' = IF folder = "analysis" THEN x ELSE analysis
  /\ generated' = IF folder = "generated" THEN x ELSE generated
  /\ docs' = IF folder = "docs" THEN x ELSE docs
  /\ UNCHANGED <<src, limits, record, comparison>>

(* What other runs of the skills may have left elsewhere, at any moment. *)
Elsewhere(folder, f) ==
  CASE folder \in {"pages", "analysis"} -> Source
    [] folder = "generated" -> [src : Source, limits : Limits]
    [] folder = "docs" -> IF generated = None THEN {} ELSE {FactsNow(f)}

CheckAdopted(p) ==
  /\ cmd[p] = "adopt" /\ at[p] = 1
  /\ \/ /\ \E x \in Elsewhere(stage[p], seen[p]) : Holding(stage[p]) \in {None, x} \/ option[p]
        /\ Advance(p)
        /\ UNCHANGED <<files, flow, cmd, stage, option, seen, gate, checked, tried, raced, bounds>>
     \/ Refuse(p)      \* it is something else, or not what it should be

RemoveOld(p) ==
  /\ cmd[p] = "adopt" /\ at[p] = 2
  /\ Put(stage[p], None)
  /\ Advance(p)
  /\ UNCHANGED <<flow, cmd, stage, option, seen, gate, checked, tried, raced, bounds>>

(* copytree fails if somebody has made the folder again. *)
CopyNew(p) ==
  /\ cmd[p] = "adopt" /\ at[p] = 3
  /\ \/ /\ Holding(stage[p]) = None
        /\ \E x \in Elsewhere(stage[p], seen[p]) : Put(stage[p], x)
        /\ Advance(p)
        /\ UNCHANGED <<flow, cmd, stage, option, seen, gate, checked, tried, raced, bounds>>
     \/ /\ Holding(stage[p]) # None \/ Elsewhere(stage[p], seen[p]) = {}
        /\ Refuse(p)

SaveAdopted(p) ==
  /\ cmd[p] = "adopt" /\ at[p] = 4
  /\ Save(p, seen[p])
  /\ UNCHANGED tried

(* A command is killed: between two steps, or after save() has opened (and *)
(* so emptied) the file.                                                   *)
Crash(p) ==
  /\ crashes < MaxCrashes /\ crashes' = crashes + 1
  /\ cmd[p] # "none"
  /\ End(p)
  /\ \/ flow' = flow
     \/ /\ \/ cmd[p] = "init"
           \/ cmd[p] = "approve" /\ at[p] > Rank(stage[p])
           \/ cmd[p] = "tested" /\ at[p] = 5
           \/ cmd[p] = "adopt" /\ at[p] = 4
        /\ flow' = Torn
  /\ UNCHANGED <<files, tried, raced, edits>>

---------------------------------------------------------------------------
Files ==
  \/ EditSource \/ EditLimits \/ Reopen
  \/ Analyse \/ WriteSpec \/ Generate \/ Scan \/ Decide \/ WriteDocs \/ Compare

Command(p) ==
  \/ \E evidence \in BOOLEAN : BeginInit(p, evidence)
  \/ \E s \in Stage, withOpen \in BOOLEAN : BeginApprove(p, s, withOpen)
  \/ \E report \in BOOLEAN : BeginTested(p, report)

Adoption(p) == \E folder \in Folder, replace \in BOOLEAN : BeginAdopt(p, folder, replace)

Start(p) == (Command(p) /\ UNCHANGED bounds) \/ Adoption(p)

Step(p) ==
  \/ SaveInit(p)
  \/ CheckEarlier(p) \/ CheckStage(p) \/ SaveApproval(p)
  \/ ReadAgain(p) \/ GateStage(p) \/ SaveTest(p)
  \/ CheckAdopted(p) \/ RemoveOld(p) \/ CopyNew(p) \/ SaveAdopted(p)

Next == Files \/ \E p \in Process : Start(p) \/ Step(p) \/ Crash(p)

Spec == Init /\ [][Next]_vars

---------------------------------------------------------------------------
(* What flow.py status tells a person to do next (cmd_status and           *)
(* next_command): the first stage that is not approved, or the test.       *)
FirstOpen == CHOOSE k \in 1 .. 3 :
  /\ ~Approved(flow, Order[k])
  /\ \A j \in 1 .. (k - 1) : Approved(flow, Order[j])

Advice(p) ==
  \/ ~Readable(flow) /\ BeginInit(p, FALSE) /\ UNCHANGED bounds
  \/ /\ Readable(flow) /\ ~GateOpen
     /\ LET s == Order[FirstOpen] IN
        \/ /\ ~HasProblem(flow, s)
           /\ BeginApprove(p, s, s = "decisions" /\ OpenItem) /\ UNCHANGED bounds
        \/ /\ HasProblem(flow, s) /\ cmd[p] = "none"
           /\ \/ s = "spec" /\ IF analysis = None THEN Analyse ELSE WriteSpec
              \/ s = "decisions" /\ IF Unpicked THEN Scan ELSE Generate
              \/ s = "converted" /\ WriteDocs
  \/ /\ GateOpen /\ flow.test = None /\ cmd[p] = "none"
     /\ IF comparison # generated THEN Compare ELSE BeginTested(p, TRUE) /\ UNCHANGED bounds

(* Somebody else runs a command other than adopt, whatever status says. *)
Interfere(p) == Command(p) /\ Edit /\ UNCHANGED crashes

(* A person who does what status says, while the source, the limits and    *)
(* the record are edited now and then, others run commands and commands    *)
(* are killed.                                                             *)
Guided ==
  \/ EditSource \/ EditLimits \/ Reopen
  \/ Advice(Person)
  \/ \E p \in Process \ {Person} : Interfere(p)
  \/ \E p \in Process : Step(p) \/ Crash(p)

GuidedSpec ==
  /\ Init /\ [][Guided]_vars
  /\ WF_vars(Advice(Person) \/ Step(Person))
  /\ \A p \in Process \ {Person} : WF_vars(Step(p))

---------------------------------------------------------------------------
Generation == [src : Source, limits : Limits]
Maybe(S)   == S \cup {None}
Facts      == [generated : Generation, limits : Limits,
               record : {"absent", "open", "decided"}, evidence : Maybe(Generation)]

Content ==
  [pages : Maybe(Source), src : Source]
    \cup [limits : Limits, record : {"absent", "open", "decided"}, generated : Maybe(Generation)]
    \cup [docs : Maybe(Facts)]

ByStage   == [Stage -> Maybe(Content)]
FlowState == [evidence : BOOLEAN, approvals : ByStage, reason : BOOLEAN, test : Maybe(ByStage)]

(* "No result" is not a result. *)
ASSUME NoneAssumption == None \notin ByStage

FilesType ==
  /\ src \in Source /\ limits \in Limits
  /\ record \in {"absent", "open", "decided"}
  /\ analysis \in Maybe(Source) /\ pages \in Maybe(Source)
  /\ generated \in Maybe(Generation) /\ docs \in Maybe(Facts)
  /\ comparison \in Maybe(Generation)

CommandType ==
  /\ cmd \in [Process -> {"none", "init", "approve", "tested", "adopt"}]
  /\ stage \in [Process -> Stage \cup Folder]
  /\ option \in [Process -> BOOLEAN]
  /\ at \in [Process -> 0 .. 5]
  /\ seen \in [Process -> FlowState]
  /\ gate \in [Process -> FlowState]
  /\ checked \in [Process -> ByStage]
  /\ \A p \in Process :
       /\ cmd[p] = "approve" => stage[p] \in Stage
       /\ cmd[p] = "adopt" => stage[p] \in Folder

TypeOK ==
  /\ FilesType
  /\ flow \in FlowState \cup {None, Torn}
  /\ CommandType
  /\ tried \in ByStage
  /\ raced \in BOOLEAN
  /\ edits \in 0 .. MaxEdits /\ crashes \in 0 .. MaxCrashes

(* A test result never speaks of other approvals than those on file, also  *)
(* when two people approve and test at once and commands are killed        *)
(* (flow.py, _test_after: a test whose approvals changed no longer says    *)
(* anything).                                                              *)
Consistent(f) == f.test # None => f.test = f.approvals

TestMatchesApprovals == Readable(flow) => Consistent(flow)

(* With the gate open and a test on file, the specification and the        *)
(* generated code are, to the byte, what they were when the test was       *)
(* recorded: whatever was edited, regenerated, adopted or approved in      *)
(* between (_targets: the fingerprint covers what is tested).              *)
TestCoversContents ==
  GateOpen /\ flow.test # None =>
    \A s \in {"spec", "decisions"} : Contents(s) = tried[s]

(* The gate is open over a question nobody has answered only if the        *)
(* approval says why; as long as nobody wrote the record while a command   *)
(* ran (approval.md: refused without a reason in --with-open).             *)
NoSilentQuestion == GateOpen /\ OpenItem /\ ~raced => flow.reason

(* SKILL.md, step 4: nothing but approving spec or decisions again drops   *)
(* the test; nothing drops an approval or the evidence; for one command at *)
(* a time, and except for a file that a crash left empty.                  *)
NothingForgotten ==
  [][Readable(flow) /\ Readable(flow') =>
       /\ flow.evidence => flow'.evidence
       /\ \A s \in Stage : flow'.approvals[s] = flow.approvals[s] \/ flow'.approvals[s] = Target(s)
       /\ flow'.test = None => \/ flow.test = None
                              \/ \E p \in Process : cmd[p] = "approve" /\ stage[p] # "converted"
    ]_vars

(* Doing what status says ends with every stage approved, the test on      *)
(* file and its result in the documents: no advice leads in a circle, and  *)
(* recording the test, which makes the documents out of date, does not     *)
(* make the test out of date.                                              *)
AdviceEnds == <>[](GateOpen /\ flow.test # None)
=============================================================================
