------------------------------ MODULE Verdict ------------------------------
(***************************************************************************)
(* How a routine of a PL/SQL program gets its verdict: AUTO (may be        *)
(* generated unattended), REVIEW or REDESIGN.  Comparisons with Oracle run *)
(* now and then (difftest), each on the files of its moment; plsql.cli     *)
(* reads the program, counts those comparisons that were made with the     *)
(* files of now (review.evidence_from_diff, fingerprint.py), gives private *)
(* routines the evidence of their callers (credit_private_callees), and    *)
(* lets the rules and the call graph have their say (engine.decide,        *)
(* _propagate).  The files are edited at any moment in between.            *)
(*                                                                         *)
(* The order in which the routines are visited is that of the program,     *)
(* that is to say any: every loop over them is a step per routine.         *)
(***************************************************************************)
EXTENDS Naturals

CONSTANTS
  Routine,
  Package,      \* packages that are only named: of constants and types
  Variant,      \* the money conventions the generated code may be made for
  Program,      \* the programs: who calls and names whom, who is public, what
                \* rules and the other factors of the confidence say
  Outcome,      \* what the scenarios of a public routine may come to
  MayRaise,     \* whether a scenario may be cut short by an exception
  MaxEdits,     \* bound: edits of the files
  MaxCaptures,  \* bound: comparisons
  None

Rank == 0 .. 2          \* AUTO, REVIEW, REDESIGN
Text == 0 .. 1          \* the texts a routine or a package may have
Unit == Routine \cup Package

(* ruleCoverage x symbolResolution x typeResolution x targetCapability: one *)
(* of them is 0; their product is below AUTO_THRESHOLD; it is not.          *)
Factors == {"zero", "low", "enough"}

ASSUME VerdictAssumption ==
  /\ Outcome \subseteq {"none", "match", "differ", "skipped", "refused"}
  /\ MayRaise \in BOOLEAN
  /\ MaxEdits \in Nat /\ MaxCaptures \in Nat
  /\ Program \subseteq [public : SUBSET Routine,
                        calls  : [Routine -> SUBSET Routine],
                        always : [Routine -> SUBSET Routine],
                        names  : [Unit -> SUBSET Package],
                        lost   : SUBSET Unit,
                        floor  : [Routine -> [Text -> Rank]],
                        others : [Routine -> [Text -> Factors]]]
  /\ \A p \in Program, r \in Routine : p.always[r] \subseteq p.calls[r]

VARIABLES
  program,      \* the program (its shape; edits change texts and so floors)
  files,        \* the toolchain and project inputs, and the texts
  capture,      \* the comparison that is running, or None
  report,       \* the comparison report: an entry per variant, or None
  phase,        \* where plsql.cli is
  parsed,       \* the text it read
  found,        \* the files whose fingerprint it took
  wanted,       \* the variants whose agreement it asks for
  left,         \* the routines its present loop has still to visit
  captures,     \* Evidence.captures: "none", "match", or "differ"
  ruleVerdict, verdict,
  edits, taken

cli   == <<phase, parsed, found, wanted, left, captures, ruleVerdict, verdict>>
vars  == <<program, files, capture, report, cli, edits, taken>>

EveryRoutine == Routine
Private      == Routine \ program.public

(* A routine and what it calls, directly or not. *)
Closed(S) == \A r \in S : program.calls[r] \subseteq S
Reach(r)  == {q \in Routine : \A S \in SUBSET Routine : r \in S /\ Closed(S) => q \in S}

Callers(r) == {c \in Routine : r \in program.calls[c]}

(* What a routine depends on: all it reaches, the packages they name       *)
(* (`pkg.c_rate`, `v pkg.t_qty`), and what those name in turn.             *)
NamesWithin(S) == \A u \in S : program.names[u] \subseteq S
Depends(r) ==
  LET reach == Reach(r) IN
  {u \in Unit : \A S \in SUBSET Unit : reach \subseteq S /\ NamesWithin(S) => u \in S}

---------------------------------------------------------------------------
(* Evidence.                                                               *)

(* What a routine's evidence is evidence of: its own text, that of all it  *)
(* depends on, and what every routine depends on. *)
OwnLines(r, f)    == <<f.common, f.text[r]>>
WholeSource(r, f) == <<f.common, f.text>>
Fingerprint(r, f) == <<f.common, [u \in Depends(r) |-> f.text[u]]>>

(* No fingerprint: the file of something it depends on is missing, or its  *)
(* name is that of two files. *)
Unfounded(r) == Depends(r) \cap program.lost # {}

Came(r, v) == report[v].result[r].outcome
Seen(r)    == {v \in wanted : report[v] # None /\ Came(r, v) # "none"}

(* Its scenarios under v were run on other files, or not all compared, or  *)
(* with code that the generator had not translated whole.                  *)
Stale(r, v) ==
  \/ Unfounded(r)
  \/ Fingerprint(r, report[v].files) # Fingerprint(r, files)
  \/ Came(r, v) \in {"skipped", "refused"}

(* evidence_from_diff: agreement under every variant, or none is counted. *)
Measured(r) ==
  IF Seen(r) # wanted \/ wanted = {} \/ \E v \in Seen(r) : Stale(r, v) THEN "none"
  ELSE IF \A v \in Seen(r) : Came(r, v) = "match" THEN "match" ELSE "differ"

(* credit_private_callees: all its callers agreed with Oracle, and one of  *)
(* them is sure to have run it. *)
AllAgreed(r)   == \A c \in Callers(r) : captures[c] = "match"
AnyCaller(r)   == AllAgreed(r) /\ Callers(r) # {}
Creditable(r)  == AllAgreed(r) /\ \E c \in Callers(r) : r \in program.always[c]

---------------------------------------------------------------------------
Files == [common : Text, text : [Unit -> Text]]

Init ==
  /\ program \in Program
  /\ files = [common |-> 0, text |-> [u \in Unit |-> 0]]
  /\ capture = None
  /\ report = [v \in Variant |-> None]
  /\ phase = "idle"
  /\ parsed = files.text /\ found = files /\ wanted = {} /\ left = {}
  /\ captures = [r \in Routine |-> "none"]
  /\ ruleVerdict = [r \in Routine |-> 0]
  /\ verdict = [r \in Routine |-> 1]
  /\ edits = 0 /\ taken = 0

(* Somebody edits a routine (its own lines, or the rest of its package), a  *)
(* package of constants, or what all depend on: the tool, the schema,       *)
(* limits.yaml, a trigger.  No edit is undone while a comparison runs.      *)
(* Edits, and comparisons, make no difference to plsql.cli once it has      *)
(* taken the fingerprint, and comparisons none before: they wait for it.    *)
Edit ==
  /\ edits < MaxEdits /\ edits' = edits + 1
  /\ phase \in {"idle", "parsed"}
  /\ \/ files' = [files EXCEPT !.common = 1 - @]
     \/ \E u \in Unit : files' = [files EXCEPT !.text[u] = 1 - @]
  /\ capture # None => files' # capture.before
  /\ UNCHANGED <<program, capture, report, cli, taken>>

(* A comparison under one variant: the fingerprint is taken; the code is   *)
(* generated and its scenarios run; the fingerprint is taken again, and    *)
(* the result dropped unless the two are the same (docs/design/            *)
(* plsql-kpi.md, difftest).                                                *)
NotRun == [outcome |-> "none", ran |-> {}, cut |-> FALSE]

BeginCapture ==
  /\ phase = "idle"
  /\ capture = None /\ taken < MaxCaptures /\ taken' = taken + 1
  /\ \E v \in Variant :
       capture' = [variant |-> v, before |-> files, on |-> None,
                   result |-> [r \in Routine |-> NotRun]]
  /\ UNCHANGED <<program, files, report, cli, edits>>

(* What the scenarios of r that agree may have run: r, and of what a       *)
(* routine they run calls, everything that is always called unless an      *)
(* exception ends the run. *)
Whole(ran) == \A c \in ran : program.always[c] \subseteq ran
Agreed(r) ==
  {x \in [outcome : {"match"}, ran : SUBSET Reach(r), cut : {FALSE, MayRaise}] :
     /\ r \in x.ran
     /\ \A q \in x.ran \ {r} : Callers(q) \cap x.ran # {}
     /\ x.cut = ~Whole(x.ran)}

Result(r) ==
  {[NotRun EXCEPT !.outcome = o] : o \in Outcome \ {"match"}}
    \cup IF "match" \in Outcome THEN Agreed(r) ELSE {}

RunCapture ==
  /\ phase = "idle"
  /\ capture # None /\ capture.on = None
  /\ \E result \in [program.public -> UNION {Result(r) : r \in program.public}] :
       /\ \A r \in program.public : result[r] \in Result(r)
       /\ capture' = [capture EXCEPT
            !.on = files,
            !.result = [r \in Routine |-> IF r \in program.public THEN result[r] ELSE NotRun]]
  /\ UNCHANGED <<program, files, report, cli, edits, taken>>

EndCapture ==
  /\ phase = "idle"
  /\ capture # None /\ capture.on # None
  /\ capture' = None
  /\ report' = IF files = capture.before
       THEN [report EXCEPT ![capture.variant] =
               [files |-> capture.before, on |-> capture.on, result |-> capture.result]]
       ELSE report
  /\ UNCHANGED <<program, files, cli, edits, taken>>

---------------------------------------------------------------------------
(* plsql.cli. *)

Parse ==
  /\ phase = "idle"
  /\ phase' = "parsed"
  /\ parsed' = files.text
  (* --variant asks for one of them; all that the report has otherwise *)
  /\ \/ wanted' = {v \in Variant : report[v] # None}
     \/ \E v \in Variant : wanted' = {v}
  /\ UNCHANGED <<program, files, capture, report, found, left, captures,
                 ruleVerdict, verdict, edits, taken>>

Measure ==
  /\ phase = "parsed"
  /\ phase' = "credit"
  /\ found' = files
  /\ captures' = [r \in Routine |-> IF r \in program.public THEN Measured(r) ELSE "none"]
  /\ left' = Private
  /\ UNCHANGED <<program, files, capture, report, parsed, wanted,
                 ruleVerdict, verdict, edits, taken>>

Credit(r) ==
  /\ phase = "credit" /\ r \in left
  /\ left' = left \ {r}
  /\ captures' = [captures EXCEPT ![r] = IF Creditable(r) THEN "match" ELSE @]
  /\ UNCHANGED <<program, files, capture, report, phase, parsed, found, wanted,
                 ruleVerdict, verdict, edits, taken>>

(* What the rules and the factors say of the routine itself. *)
Floor(r)  == program.floor[r][parsed[r]]
Others(r) == program.others[r][parsed[r]]

(* If no rule objects, it is for review when a factor is 0 (testEvidence   *)
(* is, with no capture), when a scenario differs, or when the product is   *)
(* below AUTO_THRESHOLD; else it is AUTO.                                  *)
ZeroFactor(r) == Others(r) = "zero" \/ captures[r] = "none"
Differs(r)    == captures[r] = "differ"
TooLow(r)     == Others(r) = "low"
ForReview(r)  == ZeroFactor(r) \/ Differs(r) \/ TooLow(r)

Decide ==
  /\ phase = "credit" /\ left = {}
  /\ phase' = "propagate"
  /\ ruleVerdict' = [r \in Routine |-> Floor(r)]
  /\ verdict' = [r \in Routine |->
       IF Floor(r) # 0 THEN Floor(r) ELSE IF ForReview(r) THEN 1 ELSE 0]
  /\ left' = Routine
  /\ UNCHANGED <<program, files, capture, report, parsed, found, wanted, captures, edits, taken>>

Worst(S) == CHOOSE k \in S : \A j \in S : j <= k

(* _propagate, for one routine: what it reaches has the verdict it has by  *)
(* now. *)
DirectOnly(r) == program.calls[r] \cup {r}
Below(r)      == Reach(r)

Propagate(r) ==
  LET worst == Worst({ruleVerdict[q] : q \in Below(r)}) IN
  /\ phase = "propagate" /\ r \in left
  /\ left' = left \ {r}
  /\ ruleVerdict' = [ruleVerdict EXCEPT ![r] = worst]
  /\ verdict' = [verdict EXCEPT ![r] =
       IF worst > ruleVerdict[r] THEN Worst({@, worst}) ELSE @]
  /\ UNCHANGED <<program, files, capture, report, phase, parsed, found, wanted,
                 captures, edits, taken>>

(* The verdicts are written, and forgotten. *)
Done ==
  /\ phase = "propagate" /\ left = {}
  /\ phase' = "idle"
  /\ parsed' = files.text /\ found' = files /\ wanted' = {}
  /\ captures' = [r \in Routine |-> "none"]
  /\ ruleVerdict' = [r \in Routine |-> 0]
  /\ verdict' = [r \in Routine |-> 1]
  /\ UNCHANGED <<program, files, capture, report, left, edits, taken>>

Next ==
  \/ Edit \/ BeginCapture \/ RunCapture \/ EndCapture
  \/ Parse \/ Measure \/ Decide \/ Done
  \/ \E r \in Routine : Credit(r) \/ Propagate(r)

Spec == Init /\ [][Next]_vars

---------------------------------------------------------------------------
Results  == [Routine -> [outcome : Outcome \cup {"none"}, ran : SUBSET Routine, cut : BOOLEAN]]
Capture  == [variant : Variant, before : Files, on : Files \cup {None}, result : Results]
Report   == [files : Files, on : Files, result : Results]

FilesType == program \in Program /\ files \in Files /\ edits \in 0 .. MaxEdits

ReportType ==
  /\ capture \in Capture \cup {None}
  /\ report \in [Variant -> Report \cup {None}]
  /\ taken \in 0 .. MaxCaptures

(* Public routines are never credited: their evidence is their own. *)
CliType ==
  /\ phase \in {"idle", "parsed", "credit", "propagate"}
  /\ parsed \in [Unit -> Text] /\ found \in Files
  /\ wanted \subseteq Variant
  /\ left \subseteq Routine
  /\ phase = "credit" => left \cap program.public = {}
  /\ captures \in [Routine -> {"none", "match", "differ"}]
  /\ ruleVerdict \in [Routine -> Rank] /\ verdict \in [Routine -> Rank]

(* Every variable keeps its type, and credit_private_callees never visits  *)
(* a public routine. *)
TypeOK == FilesType /\ ReportType /\ CliType

Decided == phase = "propagate" /\ left = {}

(* The routine was judged as AUTO. *)
IsAuto(r) == Decided /\ verdict[r] = 0

(* Under variant v, scenarios of s that agreed with Oracle ran code        *)
(* generated from the files that were judged, all the way down, packages   *)
(* that are only named included. *)
AgreedOn(s, v) ==
  /\ report[v] # None /\ Came(s, v) = "match"
  /\ report[v].on.common = found.common
  /\ \A u \in Depends(s) : report[v].on.text[u] = found.text[u]

(* plsql-kpi.md: no code goes out unreviewed that no test backs.  AUTO     *)
(* means: under every variant asked for, and at least one, the routine (or *)
(* a public one that reaches it) was compared with Oracle as it is now,    *)
(* and agreed. *)
AutoIsTested ==
  \A r \in Routine : IsAuto(r) =>
    /\ wanted # {}
    /\ \A v \in wanted : \E s \in program.public :
         r \in Reach(s) /\ (r \in program.public => s = r) /\ AgreedOn(s, v)

(* ... and one of those comparisons did run it, unless an exception ended  *)
(* the scenario early (unconditional_callees, #95). *)
AutoWasRun ==
  \A r \in Routine : IsAuto(r) =>
    \A v \in wanted : \E s \in program.public :
      AgreedOn(s, v) /\ (r \in report[v].result[s].ran \/ report[v].result[s].cut)

(* The verdict of the rules is the worst of all the routine reaches, in    *)
(* whatever order _propagate visits them and whatever cycles the calls     *)
(* make; and no evidence makes a verdict better than that. *)
WorstReachable ==
  Decided => \A r \in Routine :
    /\ ruleVerdict[r] = Worst({Floor(q) : q \in Reach(r)})
    /\ verdict[r] >= ruleVerdict[r]

(* fingerprint.py: an edit of what a routine does not depend on leaves its *)
(* evidence alone.  A public routine whose sources can all be found, whose *)
(* scenarios all agreed under the variants asked for, with no rule         *)
(* objecting to what it reaches and its own other factors high enough, is  *)
(* AUTO; the factors of what it calls do not matter.                       *)
TestedIsAuto ==
  Decided => \A r \in program.public :
    /\ wanted # {} /\ \A v \in wanted : AgreedOn(r, v)
    /\ ~Unfounded(r)
    /\ \A q \in Reach(r) : Floor(q) = 0
    /\ Others(r) = "enough"
    => IsAuto(r)
=============================================================================
