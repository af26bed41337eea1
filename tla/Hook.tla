-------------------------------- MODULE Hook --------------------------------
(***************************************************************************)
(* One run of the command line over one document (cli.py): `verify-policy` *)
(* on a named file, or `--hook` on an editor's event.  The run goes stage  *)
(* by stage - event, command, flags, settings, clock, snapshot, refusal,   *)
(* requirements, grading - and any stage may end it.  Meanwhile the file   *)
(* may be written again and the snapshot captured anew: both are read more *)
(* than once.                                                              *)
(*                                                                         *)
(* The command line fails closed on its own trouble, the hook fails open:  *)
(* it blocks the editor for a finding or for a mutating command, and for   *)
(* nothing else.                                                           *)
(***************************************************************************)
EXTENDS Naturals, Sequences, Shell

CONSTANTS
    Invocations,    \* the ways the program may be called: see InvocationType
    Commands,       \* the shell commands an event may carry
    MaxDisturbances \* writes of the file or the snapshot explored, each

(* What a document may hold: claims that hold, a claim that contradicts    *)
(* itself, a name to look up that the estate does not have, a row only the *)
(* compiled requirements forbid - one about the document alone, or one     *)
(* about the estate - terraform state, or nothing readable.                *)
DocumentContents == {"good", "bad", "ghost", "forbidden", "state", "broken"}

EventType == [tool : {"read", "edit", "unreadable"}, before : BOOLEAN,
              suffix : {".json", ".tf", ".md", "none"},
              command : Commands \cup {<<>>}]
InvocationType ==
    [hook : BOOLEAN, event : EventType, usable : BOOLEAN,
     policy : {"block", "warn", "off"}, configured : BOOLEAN,
     baseline : {"none", "narrower", "unreadable"},
     requirements : {"none", "unreadable", "document", "estate"}]

ASSUME HookAssumption ==
    /\ Invocations \subseteq InvocationType
    /\ MaxDisturbances \in Nat

VARIABLES
    run,        \* the invocation
    stage,      \* where the run stands
    file,       \* the document on disk: [content, version]
    estate,     \* the snapshot on disk: [version, stale]
    held,       \* the snapshot loaded for the run
    evidence,   \* the snapshot the report was graded against
    rules,      \* compiled requirements were loaded
    graded,     \* the content graded, or "none"
    report,     \* the verdict classes of the report
    code,       \* the exit code, or "none"
    cause       \* observer: why the run ended

runVars == <<run, stage, file, estate, held, evidence, rules, graded, report, code, cause>>

OkCode == "0"
Failed == "1"
Block == "2"

Stages == {"start", "event", "flags", "settings", "clock", "snapshot", "refusal",
           "requirements", "grade", "finish", "end"}

RunInit ==
    /\ run \in Invocations /\ stage = "start"
    /\ file \in [content : DocumentContents, version : {0}]
    /\ estate \in [version : {0}, stale : BOOLEAN]
    /\ held = estate /\ evidence = estate /\ rules = FALSE
    /\ graded = "none" /\ report = {} /\ code = "none" /\ cause = "none"

Exit(c, why) ==
    /\ code' = c /\ cause' = why /\ stage' = "end"
    /\ UNCHANGED <<run, file, estate, held, evidence, rules, graded, report>>

(* Mutant: the hook's own trouble is reported like a usage error. *)
UsageAlike(hook) == Exit(Block, "trouble")
(* The run's own trouble: in the hook nothing was checked and nothing is   *)
(* blocked, on the command line it is a usage error.                       *)
Usage(hook) == Exit(IF hook THEN OkCode ELSE Block, "trouble")

GoTo(from, to) ==
    /\ stage = from /\ stage' = to
    /\ UNCHANGED <<run, file, estate, held, evidence, rules, graded, report, code, cause>>

-----------------------------------------------------------------------------
(* Whether there is anything to judge.                                     *)

(* A command line that does not parse. *)
Unparsable == stage = "start" /\ ~run.usable /\ Usage(run.hook)
Invoke == run.usable /\ GoTo("start", IF run.hook THEN "event" ELSE "flags")

(* The event is not JSON, or no object. *)
UnreadableEvent ==
    stage = "event" /\ run.event.tool = "unreadable" /\ Exit(OkCode, "trouble")

Verdicts == [c \in Commands |-> ScanCommand(c)]
HasCommand == run.event.command # <<>>
Mutates == "mutating" \in Range(Verdicts[run.event.command])

(* An event with a command is judged by the command alone, before a        *)
(* snapshot is looked for.                                                 *)
HookCommand ==
    /\ stage = "event" /\ HasCommand
    /\ IF run.policy = "block" /\ Mutates THEN Exit(Block, "command")
       ELSE Exit(OkCode, "command")

(* A read is no change, an edit that has not landed is not on disk yet,    *)
(* and other suffixes are not policy documents.                            *)
InScope == /\ run.event.tool = "edit"
           /\ run.event.suffix \in {".json", ".tf"}
           /\ ~run.event.before
OutOfScope ==
    /\ stage = "event" /\ ~HasCommand /\ ~InScope /\ run.event.tool # "unreadable"
    /\ Exit(OkCode, "scope")
FileEvent == ~HasCommand /\ InScope /\ GoTo("event", "flags")

-----------------------------------------------------------------------------
(* What it is judged with.  Each stage may find trouble.                   *)

Trouble == stage \in {"flags", "clock", "snapshot"} /\ Usage(run.hook)
CheckFlags == GoTo("flags", "settings")
ResolveSettings == GoTo("settings", "clock")
ResolveClock == GoTo("clock", "snapshot")

LoadSnapshot ==
    /\ stage = "snapshot" /\ stage' = "refusal"
    /\ held' = estate
    /\ UNCHANGED <<run, file, estate, evidence, rules, graded, report, code, cause>>

(* Terraform state is not a proposal: the hook passes it over, the command *)
(* line reports it as a failure.  A raw terraform file is never read as    *)
(* JSON successfully, nor is a broken one.                                 *)
IsStateFile == file.content = "state" /\ run.event.suffix # ".tf"
RefuseState ==
    /\ stage = "refusal" /\ IsStateFile
    /\ Exit(IF run.hook THEN OkCode ELSE Failed, "refused")
NotRefused == ~IsStateFile /\ GoTo("refusal", "requirements")

(* Requirements that cannot be loaded are a notice, in both modes. *)
LoadRequirements ==
    /\ stage = "requirements" /\ stage' = "grade"
    /\ rules' = (run.requirements \in {"document", "estate"})
    /\ UNCHANGED <<run, file, estate, held, evidence, graded, report, code, cause>>

-----------------------------------------------------------------------------
(* Grading.                                                                *)

(* A promise about the document is broken whatever the estate is; one that *)
(* ranges over the estate is not decided over a category that is not whole.*)
Forbids(stale) == rules /\ (run.requirements = "document" \/ ~stale)

(* Mutant: the age of the snapshot is not looked at. *)
GradeAnyAge(content, snapshot) ==
    CASE content = "bad" -> {"contradicted"}
      [] content = "ghost" -> {"ungrounded"}
      [] content = "good" -> {"grounded"}
      [] content = "forbidden" -> IF Forbids(FALSE) THEN {"contradicted"} ELSE {"unverified"}
      [] OTHER -> {"unverified"}
(* The verdict classes a document earns.  An estate past the ceiling is    *)
(* reported, and none of its categories is whole: nothing is missing from  *)
(* it.  What the document says against itself stands.  A name that is      *)
(* there is still found with a state configured, which withdraws the       *)
(* coverage and leaves the rows; without one the rows are withdrawn too.   *)
GradeDocument(content, snapshot) ==
    (IF snapshot.stale THEN {"unverified"} ELSE {}) \cup
    CASE content = "bad" -> {"contradicted"}
      [] content = "ghost" -> IF snapshot.stale THEN {"unverified"} ELSE {"ungrounded"}
      [] content = "good" -> IF snapshot.stale /\ ~run.configured
                             THEN {"unverified"} ELSE {"grounded"}
      [] content = "forbidden" ->
            IF Forbids(snapshot.stale) THEN {"contradicted"} ELSE {"unverified"}
      [] OTHER -> {"unverified"}

BaselineVerdict == CASE run.baseline = "none" -> {}
                     [] run.baseline = "narrower" -> {"contradicted"}
                     [] OTHER -> {"unverified"}
Readable == file.content # "broken"

(* No state configured: the document is read again and graded against the  *)
(* snapshot in hand, which a malformed max-age refuses to do.  A raw       *)
(* terraform file is no JSON document here.                                *)
GradeSnapshotOnly ==
    /\ stage = "grade" /\ ~run.configured
    /\ graded' = IF run.event.suffix = ".tf" THEN "broken" ELSE file.content
    /\ report' = GradeDocument(graded', held)
                 \cup IF Readable /\ run.event.suffix # ".tf" THEN BaselineVerdict ELSE {}
    /\ evidence' = held /\ stage' = "finish"
    /\ UNCHANGED <<run, file, estate, held, rules, code, cause>>

(* A state is configured: its sources are read now, the snapshot among     *)
(* them for the second time, and then the document.                        *)
LoadCurrent ==
    /\ stage = "grade" /\ run.configured
    /\ evidence' = estate /\ stage' = "grade with state"
    /\ UNCHANGED <<run, file, estate, held, rules, graded, report, code, cause>>

(* A raw terraform file is only part of a program: it gives no clean pass. *)
GradeWithState ==
    /\ stage = "grade with state"
    /\ graded' = file.content
    /\ report' =
         LET given == GradeDocument(file.content, evidence)
         IN IF run.event.suffix = ".tf"
            THEN (given \ {"grounded"}) \cup {"unverified"} \cup BaselineVerdict
            ELSE given \cup IF Readable THEN BaselineVerdict ELSE {}
    /\ stage' = "finish"
    /\ UNCHANGED <<run, file, estate, held, evidence, rules, code, cause>>

(* A terraform file no reader is installed for, or that does not parse.    *)
NoReaderForFile ==
    /\ stage = "grade with state" /\ run.event.suffix = ".tf"
    /\ graded' = "broken" /\ report' = {"unverified"} /\ stage' = "finish"
    /\ UNCHANGED <<run, file, estate, held, evidence, rules, code, cause>>

(* A malformed max-age, or a current state that is a problem.              *)
GradeTrouble == stage \in {"grade", "grade with state"} /\ graded = "none" /\ Usage(run.hook)

(* An exception nothing catches - the render that refuses to show a secret, *)
(* say - ends the interpreter with code 1.                                 *)
Uncaught == stage \in {"grade", "grade with state", "finish"} /\ Exit(Failed, "uncaught")

Findings == {"ungrounded", "contradicted"}
FinishRun ==
    /\ stage = "finish"
    /\ Exit(IF report \cap Findings = {} THEN OkCode
            ELSE IF run.hook THEN Block ELSE Failed, "graded")

-----------------------------------------------------------------------------
(* The file is edited again, or the estate captured again, at any moment.  *)
EditFile ==
    /\ stage # "end" /\ file.version < MaxDisturbances
    /\ \E content \in DocumentContents : file' = [content |-> content, version |-> file.version + 1]
    /\ UNCHANGED <<run, stage, estate, held, evidence, rules, graded, report, code, cause>>
CaptureEstate ==
    /\ stage # "end" /\ estate.version < MaxDisturbances
    /\ estate' = [version |-> estate.version + 1, stale |-> FALSE]
    /\ UNCHANGED <<run, stage, file, held, evidence, rules, graded, report, code, cause>>

RunStep ==
    \/ Unparsable \/ Invoke \/ UnreadableEvent \/ HookCommand \/ OutOfScope
    \/ FileEvent \/ Trouble \/ CheckFlags \/ ResolveSettings \/ ResolveClock
    \/ LoadSnapshot \/ RefuseState \/ NotRefused \/ LoadRequirements
    \/ GradeSnapshotOnly \/ LoadCurrent \/ GradeWithState \/ NoReaderForFile
    \/ GradeTrouble \/ Uncaught \/ FinishRun
RunNext == RunStep \/ EditFile \/ CaptureEstate

RunSpec == RunInit /\ [][RunNext]_runVars

-----------------------------------------------------------------------------
(* Properties                                                              *)

(* The hook blocks for a finding in the document it graded or for a        *)
(* mutating command and never for its own trouble; the command line passes *)
(* a document only when it was graded, whatever went wrong on the way      *)
(* (cli.py:1147, 2041).                                                    *)
TroubleNeverDecides ==
    /\ run.hook /\ code = Block =>
          \/ report \cap Findings # {}
          \/ HasCommand /\ run.policy = "block" /\ Mutates
    /\ ~run.hook /\ code = OkCode => graded # "none" /\ report \cap Findings = {}

(* The report is stamped with the snapshot that was loaded first: it never *)
(* claims to be fresher than what it was graded against.  When that is     *)
(* past its ceiling the report says something is undecided, misses no      *)
(* name, and finds one only by a configured state, whose rows outlive      *)
(* their coverage (cli.py:1255, 1613, freshness.py:500).                   *)
EvidenceIsAsStamped ==
    stage \in {"finish", "end"} /\ graded # "none" =>
        /\ held.version <= evidence.version
        /\ evidence.stale =>
              /\ "unverified" \in report /\ "ungrounded" \notin report
              /\ "grounded" \in report => run.configured
=============================================================================
