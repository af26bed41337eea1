-------------------------------- MODULE Gate --------------------------------
(***************************************************************************)
(* The changed-file gate (gate.py).  One call of `check` takes a sequence  *)
(* of paths; each is routed by its suffix and its content, graded against  *)
(* the vocabulary or against the current state discovered beside it, and   *)
(* recorded.  The state is loaded once per directory and kept for the      *)
(* call; the notes of the run and of each loaded state go onto the first   *)
(* file graded with it.  A file that crashes is a note on that file.       *)
(*                                                                         *)
(* A report is the set of verdict classes it holds: "grounded", "finding"  *)
(* (ungrounded or contradicted), "loud" (unverified, of a kind that is     *)
(* always reported) and "unverified" (any other).  How a document comes by *)
(* its verdicts is the business of the modules Engine and Checks.          *)
(***************************************************************************)
EXTENDS Naturals, Sequences, FiniteSets

CONSTANTS
    Paths,      \* the changed files
    Route,      \* the route a path's suffix gives it: [Paths -> Routes]
    Dir,        \* the directory a path is in: [Paths -> Dirs]
    Dirs,
    Above,      \* a directory and those above it: [Dirs -> SUBSET Dirs]
    Setups,     \* how a gate may be constructed: its mode, the note classes left
                \* by assembling its sources, and those of the caller's own state
    Graded,     \* the reports the grading of a document may give
    Batches,    \* the sequences of paths a call may be given
    MaxCalls,   \* calls of check explored
    MaxChanges  \* changes of the estate explored

Routes == {"tfstate", "tf", "tf.json", "policy.json", "json", "other"}
(* "plain": no state configured; "given": the caller's own; "discover": found *)
(* beside each file; "missing": asked for, but discovery is not installed.  *)
Modes == {"plain", "given", "discover", "missing"}
NoteClasses == {"loud", "unverified"}
Reports == SUBSET ({"grounded", "finding"} \cup NoteClasses)

ASSUME GateAssumption ==
    /\ Route \in [Paths -> Routes] /\ Dir \in [Paths -> Dirs]
    /\ \A d \in Dirs : d \in Above[d] /\ Above[d] \subseteq Dirs
    /\ Setups \subseteq [mode : Modes, notes : SUBSET NoteClasses,
                          own : SUBSET NoteClasses]
    /\ Graded \subseteq Reports
    /\ \A b \in Batches : b \in Seq(Paths)
    /\ MaxCalls \in Nat /\ MaxChanges \in Nat

VARIABLES
    setup,      \* how this gate was constructed
    disk,       \* per directory: its configuration and the estate's version
    call,       \* calls of check begun
    running,    \* a call is in progress
    todo,       \* its paths still to be taken, the one being graded first
    results,    \* the file results so far
    cache,      \* the states loaded in this call, by directory
    pending,    \* the run's notes not yet attached to a file
    cur,        \* the grading in progress
    began       \* observer: what the call started from

vars == <<setup, disk, call, running, todo, results, cache, pending, cur, began>>

Statuses == {"ok", "unverified", "failed"}
NoView == [there |-> FALSE, version |-> 0,
           notes |-> {}, attached |-> FALSE]
GivenKey == "<given>"
Keys == Dirs \cup {GivenKey}
Idle == [stage |-> "idle", key |-> GivenKey, report |-> {}]

(* What discovery finds walking up from a directory: no configuration, one *)
(* it refuses, or one standing in some directory.                          *)
Configs == {"none", "refused"} \cup Dirs
ConfigsOf(d) == {"none", "refused"} \cup Above[d]

Mode == setup.mode
StateConfigured == Mode # "plain"
ReadsDisk == Mode = "discover"  \* in any other mode the disk is left as it is

Init ==
    /\ setup \in Setups
    /\ disk \in {f \in [Dirs -> [config : Configs, version : {0}]] :
                    \A d \in Dirs : f[d].config \in ConfigsOf(d)}
    /\ ~ReadsDisk => \A d \in Dirs : disk[d].config = "none"
    /\ call = 0 /\ running = FALSE /\ todo = <<>> /\ results = <<>>
    /\ cache = [k \in Keys |-> NoView] /\ pending = {} /\ cur = Idle
    /\ began = [version |-> [d \in Dirs |-> 0], notes |-> {}]

-----------------------------------------------------------------------------
(* The summary of a call.                                                  *)
(* Only ungrounded and contradicted verdicts fail a file, and a report     *)
(* with nothing in it counts as ok.                                        *)
FileStatus(report) ==
    IF "finding" \in report THEN "failed"
    ELSE IF report # {} /\ report \subseteq NoteClasses THEN "unverified"
    ELSE "ok"

Ok == \A i \in 1..Len(results) : results[i].status # "failed"

(* Mutant: only a file that is wholly unverified raises the risk. *)
RiskOfWholeFiles ==
    IF ~Ok THEN "high"
    ELSE IF \E i \in 1..Len(results) :
                results[i].candidate /\ results[i].status = "unverified"
         THEN "low" ELSE "none"
Risk ==
    IF ~Ok THEN "high"
    ELSE IF \E i \in 1..Len(results) :
                \/ results[i].candidate /\ results[i].status = "unverified"
                \/ "loud" \in results[i].report
         THEN "low" ELSE "none"

-----------------------------------------------------------------------------
(* One call of check: the cache and the attach-once marks are its own.     *)
(* A clock that does not resolve is a note of the run, not a failure.      *)
Begin ==
    /\ ~running /\ call < MaxCalls
    /\ call' = call + 1 /\ running' = TRUE
    /\ todo' \in Batches /\ results' = <<>>
    /\ cache' = [k \in Keys |-> NoView]
    /\ \E clock \in {{}, {"loud"}} : pending' = setup.notes \cup clock
    /\ began' = [version |-> [d \in Dirs |-> disk[d].version], notes |-> pending']
    /\ UNCHANGED <<setup, disk, cur>>

Busy == running /\ todo # <<>>
Path == Head(todo)
(* Mutant: a path named twice is graded twice. *)
SeenNever(path) == FALSE
Seen(path) == \E i \in 1..Len(results) : results[i].path = path

SkipDuplicate ==
    /\ Busy /\ cur = Idle /\ Seen(Path)
    /\ todo' = Tail(todo)
    /\ UNCHANGED <<setup, disk, call, running, results, cache, pending, cur, began>>

Finish ==
    /\ running /\ todo = <<>>
    /\ running' = FALSE
    /\ UNCHANGED <<setup, disk, call, todo, results, cache, pending, cur, began>>

(* The answer of the file in hand.  `how` says what it was graded against: *)
(* "note" nothing, "plain" the vocabulary, "state" a loaded current state. *)
Record(report, candidate, how) ==
    /\ results' = Append(results,
          [path |-> Path, status |-> FileStatus(report), candidate |-> candidate,
           report |-> report, key |-> cur.key, how |-> how,
           version |-> cache[cur.key].version])
    /\ todo' = Tail(todo) /\ cur' = Idle
    /\ UNCHANGED <<setup, disk, call, running, began>>

-----------------------------------------------------------------------------
(* The current state that governs a path.                                  *)

KeyOf(path) ==
    LET config == disk[Dir[path]].config
    IN CASE Mode = "given" -> GivenKey
         [] Mode = "discover" /\ config \in Dirs -> config
         [] OTHER -> Dir[path]

HasView == Mode \in {"given", "discover"}

(* A caller's own state brings its notes, unless the construction left     *)
(* notes with the run: they are taken to be that state's, also where they  *)
(* came of resolving another snapshot and the state's own are lost.        *)
Inherited == IF setup.notes # {} THEN {} ELSE setup.own

(* A load says nothing, something of little weight, or that a source gave  *)
(* nothing at all.                                                         *)
LoadNotes == {{}, {"unverified"}, {"loud"}}
(* Every outcome of loading a state: the caller's own is at hand; a        *)
(* discovered one brings the problems of its configuration, those of the   *)
(* sibling that was looked for when no configuration was accepted, and the *)
(* notes of the load.                                                      *)
LoadedViews(path) ==
    LET config == disk[Dir[path]].config
        version == disk[IF config \in Dirs THEN config ELSE Dir[path]].version
        accepted == config \in Dirs
    IN IF Mode = "given"
       THEN {[NoView EXCEPT !.there = TRUE,
                            !.notes = Inherited]}
       ELSE {[there |-> TRUE, version |-> version, attached |-> FALSE,
              notes |-> notes \cup IF config = "refused" \/ sibling = "remote"
                                   THEN {"loud"} ELSE {}] :
                sibling \in IF accepted THEN {"none"} ELSE {"none", "found", "remote"},
                notes \in LoadNotes}

(* Mutant: the state is loaded anew for every file. *)
TakesViewAnew(path) ==
    LET key == KeyOf(path)
    IN \E view \in LoadedViews(path) : cache' = [cache EXCEPT ![key] = view]
(* A state already loaded for the key is the answer; one that is not is    *)
(* loaded and kept.  A load that raises keeps nothing.                     *)
TakesView(path) ==
    LET key == KeyOf(path)
    IN IF cache[key].there THEN UNCHANGED cache
       ELSE \E view \in LoadedViews(path) : cache' = [cache EXCEPT ![key] = view]

-----------------------------------------------------------------------------
(* Routing: by suffix, then by what the content says the file is.          *)

Contents == {"state", "policy", "other", "unreadable"}

IsState(content) ==
    \/ Route[Path] = "tfstate"
    \/ Route[Path] \in {"json", "other"} /\ content = "state"
IsPolicy(content) ==
    \/ Route[Path] = "policy.json"
    \/ Route[Path] = "json" /\ content = "policy"
IsTerraform == Route[Path] \in {"tf", "tf.json"}

Start == Busy /\ cur = Idle /\ ~Seen(Path)

(* Terraform state is never graded.  To say whether it is already a source *)
(* of this run, the state of its directory is loaded, which may fail.      *)
StateFile ==
    /\ Start /\ \E content \in Contents : IsState(content)
    /\ IF HasView THEN TakesView(Path) \/ UNCHANGED cache ELSE UNCHANGED cache
    /\ Record({"unverified"}, TRUE, "note")
    /\ UNCHANGED pending

NotAPolicy ==
    /\ Start /\ \E content \in Contents :
                   ~IsState(content) /\ ~IsPolicy(content) /\ ~IsTerraform
    /\ Record({"unverified"}, FALSE, "note")
    /\ UNCHANGED <<cache, pending>>

(* A terraform file that gives no proposal - unreadable, or no reader for  *)
(* it is installed - is a note before any state is looked at.              *)
NoProposal ==
    /\ Start /\ IsTerraform
    /\ Record({"unverified"}, TRUE, "note")
    /\ UNCHANGED <<cache, pending>>

Grade ==
    /\ Start /\ (IsTerraform \/ \E content \in Contents :
                                   IsPolicy(content) /\ ~IsState(content))
    /\ cur' = [stage |-> "view", key |-> KeyOf(Path), report |-> {}]
    /\ UNCHANGED <<setup, disk, call, running, todo, results, cache, pending, began>>

-----------------------------------------------------------------------------
(* Grading.  An exception at any of its stages is caught around the whole  *)
(* of it: the report so far is discarded for one note.                     *)

(* A raw HCL read enumerates a subset: nothing in it is a clean pass.      *)
Stated(report) ==
    IF Route[Path] = "tf" THEN (report \ {"grounded"}) \cup {"loud"} ELSE report

Crash ==
    /\ cur.stage \in {"view", "evaluate", "post"}
    /\ Record({"unverified"}, TRUE, "crash")
    /\ UNCHANGED <<cache, pending>>

(* With no state, the document is graded against the vocabulary, and says  *)
(* so when one was asked for.                                              *)
GradePlain ==
    /\ cur.stage = "view" /\ ~HasView
    /\ \E report \in Graded :
          Record(Stated(report \cup IF StateConfigured THEN {"loud"} ELSE {}),
                 TRUE, "plain")
    /\ UNCHANGED <<cache, pending>>

FindView ==
    /\ cur.stage = "view" /\ HasView
    /\ TakesView(Path)
    /\ cur' = [cur EXCEPT !.stage = "evaluate", !.key = KeyOf(Path)]
    /\ UNCHANGED <<setup, disk, call, running, todo, results, pending, began>>

(* The notes of the run, then those of the view, each once.                *)
NotesDue == pending \cup IF cache[cur.key].attached THEN {} ELSE cache[cur.key].notes
Attach == /\ pending' = {}
          /\ cache' = [cache EXCEPT ![cur.key].attached = @ \/ cache[cur.key].notes # {}]

(* A document that does not load is a note, and carries the notes; any     *)
(* other is evaluated, and its notes attached before the post-pass.        *)
Unreadable ==
    /\ cur.stage = "evaluate" /\ ~IsTerraform
    /\ Record({"unverified"} \cup NotesDue, TRUE, "state")
    /\ Attach

Evaluate ==
    /\ cur.stage = "evaluate"
    /\ \E report \in Graded :
          cur' = [cur EXCEPT !.stage = "post", !.report = report \cup NotesDue]
    /\ Attach
    /\ UNCHANGED <<setup, disk, call, running, todo, results, began>>

(* The post-pass takes back an ungrounded the state cannot prove.          *)
PostPass ==
    /\ cur.stage = "post"
    /\ \E report \in {cur.report} \cup
                     IF "finding" \in cur.report
                     THEN {(cur.report \ {"finding"}) \cup {"unverified"}} ELSE {} :
          Record(Stated(report), TRUE, "state")
    /\ UNCHANGED <<cache, pending>>

(* Anyone may change the estate or its configuration between two files.    *)
Disturb(d) ==
    /\ ReadsDisk /\ \A e \in Dirs : disk[e].version < MaxChanges
    /\ \E config \in ConfigsOf(d) :
          disk' = [disk EXCEPT ![d] = [config |-> config, version |-> @.version + 1]]
    /\ UNCHANGED <<setup, call, running, todo, results, cache, pending, cur, began>>

Step == \/ SkipDuplicate \/ Finish \/ StateFile \/ NotAPolicy \/ NoProposal
        \/ Grade \/ GradePlain \/ FindView \/ Unreadable \/ Evaluate \/ PostPass
        \/ Crash

Next == Begin \/ Step \/ \E d \in Dirs : Disturb(d)

(* check is a loop of its own thread: once called, it runs.                *)
Spec == Init /\ [][Next]_vars /\ WF_vars(Step)

-----------------------------------------------------------------------------
(* Properties                                                              *)

(* A call that ends with no risk was not graded against a state that had   *)
(* something to say: no source of a state used for any of its files failed *)
(* or was refused, and the clock and the primary sources of the run were   *)
(* sound (gate.py:595, 1356).  The notes go to one file only, and that one *)
(* may crash or be a duplicate.  A state the caller supplied was silent    *)
(* too, unless the construction resolved a snapshot beside it and that     *)
(* left notes, which then stand in for the state's own (gate.py:1132).     *)
QuietMeansClean ==
    ~running /\ call > 0 /\ Risk = "none" =>
        \A i \in 1..Len(results) :
            results[i].how = "state" =>
                /\ "loud" \notin cache[results[i].key].notes
                /\ "loud" \notin began.notes
                /\ Mode = "given" /\ "loud" \in setup.own => setup.notes # {}

(* The files of one directory's configuration are judged by one estate,    *)
(* even when it changes between them, and by none older than the call      *)
(* (gate.py:835, 1159).                                                    *)
OneEstatePerCall ==
    \A i, j \in 1..Len(results) :
        results[i].how = "state" /\ results[i].key \in Dirs =>
            /\ results[i].version >= began.version[results[i].key]
            /\ results[j].how = "state" /\ results[j].key = results[i].key
                  => results[i].version = results[j].version

(* The gate is a batch runner: every path of a call is answered once,      *)
(* nobody's answer is changed later, a crash is only that file's, and the  *)
(* call ends with the worst of its answers.                                *)
BatchRunner == INSTANCE Batch WITH
    Items <- Paths, Answers <- Statuses, Bad <- {"failed"}, calls <- call,
    answers <- [i \in 1..Len(results) |->
                   [item |-> results[i].path, answer |-> results[i].status]],
    verdict <- CASE call = 0 -> "none" [] running -> "open"
                 [] OTHER -> IF Ok THEN "passed" ELSE "failed"
ImplementsBatch == BatchRunner!Spec
=============================================================================
