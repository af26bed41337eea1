--------------------------- MODULE Frontend_proof ---------------------------
(***************************************************************************)
(* Proofs about the two front ends: the changed-file gate (Gate), for any  *)
(* batch of files in any directories and any number of calls, and one run  *)
(* of the command line or the editor's hook (Hook), for any invocation and *)
(* any number of edits and captures beside it.                             *)
(***************************************************************************)
EXTENDS Gate, Hook, SequenceTheorems, TLAPS

-----------------------------------------------------------------------------
(* The gate: what its state always is.                                     *)

Views == [there : BOOLEAN, version : Nat, notes : SUBSET NoteClasses, attached : BOOLEAN]
Hows == {"note", "crash", "plain", "state"}
Result == [path : Paths, status : Statuses, candidate : BOOLEAN, report : Reports,
           key : Keys, how : Hows, version : Nat]

DiskTyped ==
  /\ disk \in [Dirs -> [config : Configs, version : Nat]]
  /\ \A d \in Dirs : disk[d].config \in ConfigsOf(d)

CurTyped ==
  /\ cur \in [stage : {"idle", "view", "evaluate", "post"}, key : Keys, report : Reports]
  /\ cur.stage = "idle" => cur = Idle
  /\ cur.stage # "idle" => running /\ todo # <<>>
  /\ cur.stage \in {"evaluate", "post"} => HasView

GateTypeOK ==
  /\ setup \in Setups /\ DiskTyped
  /\ call \in Nat /\ running \in BOOLEAN /\ (running => call # 0)
  /\ todo \in Seq(Paths) /\ results \in Seq(Result)
  /\ cache \in [Keys -> Views] /\ pending \in SUBSET NoteClasses
  /\ CurTyped
  /\ began \in [version : [Dirs -> Nat], notes : SUBSET NoteClasses]

\* The estate only moves on, and only where the gate looks at it; a state
\* loaded in this call is no older than the call; a file being graded holds
\* a loaded state, and one that was graded with a state has its version.
Fresh ==
  /\ \A d \in Dirs : began.version[d] <= disk[d].version
  /\ ~ReadsDisk => \A d \in Dirs : disk[d].version = 0
  /\ \A k \in Keys : cache[k].there /\ k \in Dirs => cache[k].version >= began.version[k]
  /\ cur.stage \in {"evaluate", "post"} => cache[cur.key].there
  /\ \A i \in 1..Len(results) : results[i].how = "state" =>
       /\ cache[results[i].key].there
       /\ results[i].version = cache[results[i].key].version

\* The run has something to answer for: Risk is not "none".
Raised ==
  \E i \in 1..Len(results) :
    \/ results[i].status = "failed"
    \/ results[i].candidate /\ results[i].status = "unverified"
    \/ "loud" \in results[i].report

\* A loud note is never between two places: it waits with the run, or it is
\* in the report in hand, or the run has answered for it.
InHand == cur.stage = "post" /\ "loud" \in cur.report

Delivered ==
  /\ "loud" \in began.notes => "loud" \in pending \/ InHand \/ Raised
  /\ \A k \in Keys : cache[k].attached /\ "loud" \in cache[k].notes => InHand \/ Raised
  /\ cur.stage = "post" => /\ pending = {}
                           /\ "loud" \in cache[cur.key].notes => cache[cur.key].attached
  /\ \A i \in 1..Len(results) : results[i].how = "state" =>
       /\ pending = {} /\ cache[results[i].key].there
       /\ "loud" \in cache[results[i].key].notes => cache[results[i].key].attached

\* A state the caller gave has what it inherits, in every call.
Handed == Mode = "given" => \A k \in Keys : cache[k].there => cache[k].notes = Inherited

\* A file is being graded only if it was not answered before.
Unanswered == cur.stage # "idle" => ~Seen(Path)

GateInv == GateTypeOK /\ Fresh /\ Delivered /\ Unanswered /\ Handed

-----------------------------------------------------------------------------
(* What the steps have in common.                                          *)

LEMMA KeyOfTyped ==
  ASSUME GateTypeOK, NEW p \in Paths
  PROVE  KeyOf(p) \in Keys /\ Dir[p] \in Dirs
BY GateAssumption DEF KeyOf, Keys

LEMMA ResultsTyped ==
  ASSUME GateTypeOK
  PROVE  /\ Len(results) \in Nat
         /\ \A i \in 1..Len(results) : results[i] \in Result /\ results[i].key \in Keys
<1>1. results \in Seq(Result) /\ Len(results) \in Nat
  BY LenProperties DEF GateTypeOK
<1>2. \A i \in 1..Len(results) : results[i] \in Result
  BY <1>1, ElementOfSeq
<1> QED BY <1>1, <1>2 DEF Result

LEMMA StatusTyped == \A r : FileStatus(r) \in Statuses
BY DEF FileStatus, Statuses

\* A loaded state is new, unattached, and as old as the directory that
\* governs the path.
LEMMA LoadedTyped ==
  ASSUME GateTypeOK, NEW p \in Paths, NEW view \in LoadedViews(p), HasView
  PROVE  /\ view \in Views /\ view.there /\ ~view.attached
         /\ Mode = "discover" => KeyOf(p) \in Dirs /\ view.version = disk[KeyOf(p)].version
         /\ Mode = "given" => KeyOf(p) = GivenKey /\ view.version = 0
                                               /\ view.notes = Inherited
<1>1. Dir[p] \in Dirs /\ disk \in [Dirs -> [config : Configs, version : Nat]]
  BY GateAssumption DEF GateTypeOK, DiskTyped
<1>2. CASE Mode = "given"
  <2>1. view = [NoView EXCEPT !.there = TRUE, !.notes = Inherited]
    BY <1>2 DEF LoadedViews
  <2>2. Inherited \in SUBSET NoteClasses
    BY GateAssumption DEF Inherited, GateTypeOK
  <2>3. /\ view = [there |-> TRUE, version |-> 0, notes |-> Inherited, attached |-> FALSE]
    BY <2>1 DEF NoView
  <2>4. KeyOf(p) = GivenKey /\ Mode # "discover"
    BY <1>2 DEF KeyOf
  <2> QED BY <2>2, <2>3, <2>4 DEF Views
<1>3. CASE Mode = "discover"
  <2>1. PICK notes \in LoadNotes, sibling \in {"none", "found", "remote"} :
          view = [there |-> TRUE,
                  version |-> disk[IF disk[Dir[p]].config \in Dirs
                                   THEN disk[Dir[p]].config ELSE Dir[p]].version,
                  attached |-> FALSE,
                  notes |-> notes \cup IF disk[Dir[p]].config = "refused" \/ sibling = "remote"
                                       THEN {"loud"} ELSE {}]
    BY <1>3 DEF LoadedViews
  <2>2. notes \in SUBSET NoteClasses
    BY DEF LoadNotes, NoteClasses
  <2>3. view.notes \in SUBSET NoteClasses
    BY <2>1, <2>2 DEF NoteClasses
  <2>4. view.version \in Nat /\ KeyOf(p) \in Dirs
        /\ view.version = disk[KeyOf(p)].version
    BY <1>1, <1>3, <2>1 DEF KeyOf
  <2> QED BY <1>3, <2>1, <2>3, <2>4 DEF Views
<1> QED BY <1>2, <1>3 DEF HasView

\* Recording an answer appends it to the results.
LEMMA RecordAppends ==
  ASSUME GateTypeOK, Busy, NEW r \in Reports, NEW c \in BOOLEAN, NEW h \in Hows,
         Record(r, c, h)
  PROVE  LET new == [path |-> Head(todo), status |-> FileStatus(r), candidate |-> c,
                     report |-> r, key |-> cur.key, how |-> h,
                     version |-> cache[cur.key].version]
         IN  /\ new \in Result /\ results' \in Seq(Result)
             /\ Len(results) \in Nat /\ Len(results') = Len(results) + 1
             /\ \A i \in 1..Len(results) : results'[i] = results[i]
             /\ results'[Len(results) + 1] = new
             /\ todo' \in Seq(Paths) /\ cur' = Idle
             /\ UNCHANGED <<setup, disk, call, running, began>>
<1> DEFINE new == [path |-> Head(todo), status |-> FileStatus(r), candidate |-> c,
                   report |-> r, key |-> cur.key, how |-> h,
                   version |-> cache[cur.key].version]
<1>1. Head(todo) \in Paths /\ Tail(todo) \in Seq(Paths)
  BY HeadTailProperties DEF GateTypeOK, Busy
<1>2. cur.key \in Keys /\ cache[cur.key].version \in Nat
  BY DEF GateTypeOK, CurTyped, Views
<1>3. new \in Result
  BY <1>1, <1>2, StatusTyped DEF Result
<1>4. results' = Append(results, new) /\ todo' = Tail(todo) /\ cur' = Idle
      /\ UNCHANGED <<setup, disk, call, running, began>>
  BY DEF Record, Path
<1> HIDE DEF new
<1>5. /\ results' \in Seq(Result)
      /\ Len(results) \in Nat /\ Len(results') = Len(results) + 1
      /\ \A i \in 1..Len(results) : results'[i] = results[i]
      /\ results'[Len(results) + 1] = new
  BY <1>3, <1>4, AppendProperties DEF GateTypeOK
<1> QED BY <1>1, <1>3, <1>4, <1>5 DEF new

LEMMA IdleTyped == Idle \in [stage : {"idle", "view", "evaluate", "post"}, key : Keys, report : Reports]
BY DEF Idle, Keys, Reports

\* A state that is there is kept, and one that is loaded is of the estate as
\* it stands.
CacheKept ==
  /\ cache' \in [Keys -> Views]
  /\ \A k \in Keys : cache[k].there => cache'[k] = cache[k]
  /\ \A k \in Keys : cache'[k] # cache[k] =>
       /\ ~cache'[k].attached
       /\ Mode = "discover" => k \in Dirs /\ cache'[k].version = disk[k].version
       /\ Mode = "given" => cache'[k].version = 0 /\ cache'[k].notes = Inherited

LEMMA TakesViewKeeps ==
  ASSUME GateTypeOK, HasView, NEW p \in Paths, TakesView(p)
  PROVE  CacheKept /\ cache'[KeyOf(p)].there
<1> DEFINE key == KeyOf(p)
<1>1. key \in Keys
  BY KeyOfTyped
<1>2. CASE cache[key].there
  BY <1>1, <1>2 DEF TakesView, GateTypeOK, CacheKept
<1>3. CASE ~cache[key].there
  <2>1. PICK view \in LoadedViews(p) : cache' = [cache EXCEPT ![key] = view]
    BY <1>3 DEF TakesView
  <2>2. /\ view \in Views /\ view.there /\ ~view.attached
        /\ Mode = "discover" => key \in Dirs /\ view.version = disk[key].version
        /\ Mode = "given" => view.version = 0 /\ view.notes = Inherited
    BY LoadedTyped
  <2>3. cache' \in [Keys -> Views] /\ cache'[key] = view
        /\ \A k \in Keys : k # key => cache'[k] = cache[k]
    BY <1>1, <2>1, <2>2 DEF GateTypeOK
  <2> QED BY <1>3, <2>2, <2>3 DEF CacheKept
<1> QED BY <1>2, <1>3

\* Attaching the notes marks the state in hand when it has any.
LEMMA AttachMarks ==
  ASSUME GateTypeOK, Attach
  PROVE  /\ pending' = {} /\ cache' \in [Keys -> Views]
         /\ \A k \in Keys : /\ cache'[k].there = cache[k].there
                            /\ cache'[k].version = cache[k].version
                            /\ cache'[k].notes = cache[k].notes
                            /\ k # cur.key => cache'[k] = cache[k]
         /\ cache'[cur.key].attached =
              (cache[cur.key].attached \/ cache[cur.key].notes # {})
<1> DEFINE old == cache[cur.key]
           new == [old EXCEPT !.attached = old.attached \/ old.notes # {}]
<1>1. cur.key \in Keys /\ old \in Views
  BY DEF GateTypeOK, CurTyped
<1>2. cache' = [cache EXCEPT ![cur.key] = new] /\ pending' = {}
  BY DEF Attach
<1>3. /\ new \in Views /\ new.there = old.there /\ new.version = old.version
      /\ new.notes = old.notes /\ new.attached = (old.attached \/ old.notes # {})
  BY <1>1 DEF Views
<1> HIDE DEF new
<1>4. cache' \in [Keys -> Views] /\ cache'[cur.key] = new
      /\ \A k \in Keys : k # cur.key => cache'[k] = cache[k]
  BY <1>1, <1>2, <1>3 DEF GateTypeOK
<1> QED BY <1>2, <1>3, <1>4

LEMMA NotesDueTyped == GateTypeOK => NotesDue \in SUBSET NoteClasses
BY DEF GateTypeOK, NotesDue, CurTyped, Views

LEMMA StatedTyped ==
  ASSUME NEW r \in Reports
  PROVE  Stated(r) \in Reports /\ ("loud" \in r => "loud" \in Stated(r))
BY DEF Stated, Reports, NoteClasses

\* The summary is against the call as soon as one answer is.
LEMMA RiskIsRaised == Risk = "none" <=> ~Raised
BY DEF Risk, Ok, Raised

-----------------------------------------------------------------------------
(* Every step keeps the types.                                             *)

LEMMA GateInit == Init => GateInv
<1> SUFFICES ASSUME Init PROVE GateInv
  OBVIOUS
<1>1. GivenKey \in Keys /\ {} \in Reports /\ <<>> \in Seq(Paths) /\ <<>> \in Seq(Result)
  BY DEF Keys, Reports
<1>2. DiskTyped /\ \A d \in Dirs : disk[d].version = 0
  BY DEF Init, DiskTyped
<1>3. NoView \in Views /\ ~NoView.there /\ ~NoView.attached
  BY DEF NoView, Views
<1>4. CurTyped /\ cur.stage = "idle"
  BY IdleTyped DEF Init, CurTyped, Idle
<1>5. GateTypeOK
  BY <1>1, <1>2, <1>3, <1>4 DEF Init, GateTypeOK
<1>6. Fresh
  BY <1>2, <1>3, <1>4 DEF Init, Fresh
<1>7. Delivered
  BY <1>3, <1>4 DEF Init, Delivered
<1>8. Handed
  BY <1>3 DEF Init, Handed
<1> QED BY <1>4, <1>5, <1>6, <1>7, <1>8 DEF GateInv, Unanswered

\* The seven steps that answer a file have this in common: a file answered
\* with a state has its notes, and one whose grading crashed is a candidate.
Recording(r, c, h) ==
  /\ Busy /\ Record(r, c, h) /\ (cur.stage = "idle" => ~Seen(Path))
  /\ \/ /\ h # "state" /\ pending' = pending /\ CacheKept
        /\ cur.stage = "post" => r = {"unverified"} /\ c = TRUE
     \/ /\ h = "state" /\ cur.stage = "evaluate"
        /\ Attach /\ NotesDue \subseteq r
     \/ /\ h = "state" /\ cur.stage = "post" /\ UNCHANGED <<cache, pending>>
        /\ "loud" \in cur.report => "loud" \in r

RecordingStep ==
  StateFile \/ NotAPolicy \/ NoProposal \/ GradePlain \/ Crash \/ Unreadable \/ PostPass

LEMMA CacheUntouched == GateTypeOK /\ UNCHANGED cache => CacheKept
BY DEF GateTypeOK, CacheKept

LEMMA Records ==
  ASSUME GateTypeOK, RecordingStep
  PROVE  \E r \in Reports, c \in BOOLEAN, h \in Hows : Recording(r, c, h)
<1>0. /\ {"unverified"} \in Reports /\ {"loud"} \in Reports
      /\ Graded \subseteq Reports /\ SUBSET NoteClasses \subseteq Reports
      /\ \A a, b \in Reports : a \cup b \in Reports
      /\ {"note", "crash", "plain", "state"} \subseteq Hows
  BY GateAssumption DEF Reports, NoteClasses, Hows
<1>1. cur.report \in Reports /\ cur.stage \in {"idle", "view", "evaluate", "post"}
      /\ (cur = Idle => cur.stage = "idle")
      /\ (cur.stage # "idle" => Busy)
  BY DEF GateTypeOK, CurTyped, Busy, Idle
<1>2. CASE StateFile
  <2>1. Path \in Paths
    BY <1>2, HeadTailProperties DEF StateFile, Start, Busy, Path, GateTypeOK
  <2>2. CacheKept
    BY <1>2, <2>1, TakesViewKeeps, CacheUntouched DEF StateFile
  <2>3. Recording({"unverified"}, TRUE, "note")
    BY <1>1, <1>2, <2>2 DEF StateFile, Start, Recording
  <2> QED BY <1>0, <2>3
<1>3. CASE NotAPolicy
  <2>1. Recording({"unverified"}, FALSE, "note")
    BY <1>1, <1>3, CacheUntouched DEF NotAPolicy, Start, Recording
  <2> QED BY <1>0, <2>1
<1>4. CASE NoProposal
  <2>1. Recording({"unverified"}, TRUE, "note")
    BY <1>1, <1>4, CacheUntouched DEF NoProposal, Start, Recording
  <2> QED BY <1>0, <2>1
<1>5. CASE GradePlain
  <2>1. PICK said \in Graded :
          Record(Stated(said \cup IF StateConfigured THEN {"loud"} ELSE {}), TRUE, "plain")
    BY <1>5 DEF GradePlain
  <2> DEFINE r == said \cup IF StateConfigured THEN {"loud"} ELSE {}
  <2>2. r \in Reports
    BY <1>0 DEF Reports, NoteClasses
  <2>3. Stated(r) \in Reports
    BY <2>2, StatedTyped
  <2>4. Recording(Stated(r), TRUE, "plain")
    BY <1>1, <1>5, <2>1, CacheUntouched DEF GradePlain, Recording
  <2> QED BY <1>0, <2>3, <2>4
<1>6. CASE Crash
  <2>1. Recording({"unverified"}, TRUE, "crash")
    BY <1>1, <1>6, CacheUntouched DEF Crash, Recording
  <2> QED BY <1>0, <2>1
<1>7. CASE Unreadable
  <2>1. Recording({"unverified"} \cup NotesDue, TRUE, "state")
    BY <1>1, <1>7 DEF Unreadable, Recording
  <2>2. {"unverified"} \cup NotesDue \in Reports
    BY <1>0, NotesDueTyped
  <2> QED BY <1>0, <2>1, <2>2
<1>8. CASE PostPass
  <2>1. PICK said \in {cur.report} \cup
                        IF "finding" \in cur.report
                        THEN {(cur.report \ {"finding"}) \cup {"unverified"}} ELSE {} :
          Record(Stated(said), TRUE, "state")
    BY <1>8 DEF PostPass
  <2>2. said \in Reports /\ ("loud" \in cur.report => "loud" \in said)
    BY <1>0, <1>1, <2>1 DEF Reports, NoteClasses
  <2>3. Stated(said) \in Reports /\ ("loud" \in cur.report => "loud" \in Stated(said))
    BY <2>2, StatedTyped
  <2>4. Recording(Stated(said), TRUE, "state")
    BY <1>1, <1>8, <2>1, <2>3 DEF PostPass, Recording
  <2> QED BY <1>0, <2>3, <2>4
<1> QED BY <1>2, <1>3, <1>4, <1>5, <1>6, <1>7, <1>8 DEF RecordingStep

\* What is left of Next when the seven are taken together.
LEMMA NextCases ==
  Next => \/ Begin \/ SkipDuplicate \/ Finish \/ Grade \/ FindView \/ Evaluate
          \/ RecordingStep \/ \E d \in Dirs : Disturb(d)
BY DEF Next, Step, RecordingStep

LEMMA GateTypeStep ==
  ASSUME GateTypeOK, [Next]_vars
  PROVE  GateTypeOK'
<1>0. /\ setup \in Setups /\ DiskTyped /\ CurTyped
      /\ call \in Nat /\ running \in BOOLEAN /\ todo \in Seq(Paths)
      /\ results \in Seq(Result) /\ cache \in [Keys -> Views]
      /\ pending \in SUBSET NoteClasses
      /\ began \in [version : [Dirs -> Nat], notes : SUBSET NoteClasses]
  BY DEF GateTypeOK
<1>1. CASE Begin
  <2>1. cur.stage = "idle"
    BY <1>0, <1>1 DEF Begin, CurTyped
  <2>2. CurTyped'
    BY <1>0, <1>1, <2>1 DEF Begin, CurTyped
  <2>3. DiskTyped'
    BY <1>0, <1>1 DEF Begin, DiskTyped
  <2>4. /\ call' \in Nat /\ running' = TRUE /\ call' # 0
        /\ todo' \in Seq(Paths) /\ results' \in Seq(Result)
        /\ setup' \in Setups
    BY <1>0, <1>1, GateAssumption DEF Begin
  <2>5. NoView \in Views
    BY DEF NoView, Views
  <2>6. cache' \in [Keys -> Views]
    BY <1>1, <2>5 DEF Begin
  <2>7. pending' \in SUBSET NoteClasses
    <3>1. setup.notes \in SUBSET NoteClasses
      BY <1>0, GateAssumption
    <3> QED BY <1>1, <3>1 DEF Begin, NoteClasses
  <2>8. began' \in [version : [Dirs -> Nat], notes : SUBSET NoteClasses]
    BY <1>0, <1>1, <2>7 DEF Begin, DiskTyped
  <2> QED BY <2>2, <2>3, <2>4, <2>6, <2>7, <2>8 DEF GateTypeOK
<1>2. CASE SkipDuplicate
  <2>1. Tail(todo) \in Seq(Paths) /\ cur.stage = "idle"
    BY <1>0, <1>2, HeadTailProperties DEF SkipDuplicate, Busy, Idle
  <2>2. CurTyped'
    BY <1>0, <1>2, <2>1 DEF SkipDuplicate, CurTyped
  <2> QED BY <1>2, <2>1, <2>2 DEF SkipDuplicate, GateTypeOK, DiskTyped
<1>3. CASE Finish
  <2>1. cur.stage = "idle"
    BY <1>0, <1>3 DEF Finish, CurTyped
  <2>2. CurTyped'
    BY <1>0, <1>3, <2>1 DEF Finish, CurTyped
  <2> QED BY <1>3, <2>2 DEF Finish, GateTypeOK, DiskTyped
<1>4. CASE Grade
  <2>1. Path \in Paths
    BY <1>0, <1>4, HeadTailProperties DEF Grade, Start, Busy, Path
  <2>2. KeyOf(Path) \in Keys /\ {} \in Reports
    BY <2>1, KeyOfTyped DEF Reports
  <2>3. CurTyped'
    BY <1>0, <1>4, <2>2 DEF Grade, Start, Busy, CurTyped
  <2> QED BY <1>4, <2>3 DEF Grade, GateTypeOK, DiskTyped
<1>5. CASE FindView
  <2>1. Path \in Paths
    BY <1>0, <1>5, HeadTailProperties DEF FindView, CurTyped, Path
  <2>2. KeyOf(Path) \in Keys /\ CacheKept
    BY <1>5, <2>1, KeyOfTyped, TakesViewKeeps DEF FindView
  <2>3. CurTyped'
    BY <1>0, <1>5, <2>2 DEF FindView, CurTyped, HasView, Mode
  <2> QED BY <1>5, <2>2, <2>3 DEF FindView, CacheKept, GateTypeOK, DiskTyped
<1>6. CASE Evaluate
  <2>1. PICK said \in Graded :
          cur' = [cur EXCEPT !.stage = "post", !.report = said \cup NotesDue]
    BY <1>6 DEF Evaluate
  <2>2. said \cup NotesDue \in Reports
    BY NotesDueTyped, GateAssumption DEF Reports, NoteClasses
  <2>3. CurTyped'
    BY <1>0, <1>6, <2>1, <2>2 DEF Evaluate, CurTyped, HasView, Mode
  <2>4. cache' \in [Keys -> Views] /\ pending' = {}
    BY <1>6, AttachMarks DEF Evaluate
  <2> QED BY <1>6, <2>3, <2>4 DEF Evaluate, GateTypeOK, DiskTyped
<1>7. CASE RecordingStep
  <2>1. PICK r \in Reports, c \in BOOLEAN, h \in Hows : Recording(r, c, h)
    BY <1>7, Records
  <2>2. /\ results' \in Seq(Result) /\ todo' \in Seq(Paths) /\ cur' = Idle
        /\ UNCHANGED <<setup, disk, call, running, began>>
    BY <2>1, RecordAppends DEF Recording
  <2>3. cache' \in [Keys -> Views] /\ pending' \in SUBSET NoteClasses
    BY <1>0, <2>1, AttachMarks DEF Recording, CacheKept
  <2>4. CurTyped'
    BY <2>2, IdleTyped DEF CurTyped, Idle
  <2> QED BY <2>2, <2>3, <2>4 DEF GateTypeOK, DiskTyped
<1>8. ASSUME NEW d \in Dirs, Disturb(d)
      PROVE  GateTypeOK'
  <2>1. PICK config \in ConfigsOf(d) :
          disk' = [disk EXCEPT ![d] = [config |-> config, version |-> @.version + 1]]
    BY <1>8 DEF Disturb
  <2>2. config \in Configs
    BY GateAssumption DEF ConfigsOf, Configs
  <2>3. disk[d].version + 1 \in Nat
    BY <1>0 DEF DiskTyped
  <2>4. DiskTyped'
    BY <1>0, <2>1, <2>2, <2>3 DEF DiskTyped
  <2> QED BY <1>8, <2>4 DEF Disturb, GateTypeOK, CurTyped, HasView, Mode
<1>9. CASE UNCHANGED vars
  BY <1>9 DEF vars, GateTypeOK, DiskTyped, CurTyped, HasView, Mode
<1> QED BY <1>1, <1>2, <1>3, <1>4, <1>5, <1>6, <1>7, <1>8, <1>9, NextCases

-----------------------------------------------------------------------------
(* A state that is held is no older than the call.                         *)

\* What Fresh says of the states held, apart from the results.
ViewsFresh ==
  \A k \in Keys : cache[k].there /\ k \in Dirs => cache[k].version >= began.version[k]

LEMMA KeptIsFresh ==
  ASSUME GateTypeOK, Fresh, HasView, CacheKept, UNCHANGED began
  PROVE  ViewsFresh'
<1> SUFFICES ASSUME NEW k \in Keys, cache'[k].there, k \in Dirs
             PROVE  cache'[k].version >= began.version[k]
  BY DEF ViewsFresh
<1>0. began.version[k] \in Nat /\ disk[k].version \in Nat
      /\ began.version[k] <= disk[k].version
  BY DEF GateTypeOK, DiskTyped, Fresh
<1>1. CASE cache'[k] = cache[k]
  BY <1>1 DEF Fresh
<1>2. CASE cache'[k] # cache[k] /\ Mode = "discover"
  BY <1>0, <1>2 DEF CacheKept
<1>3. CASE cache'[k] # cache[k] /\ Mode = "given"
  <2>1. cache'[k].version = 0
    BY <1>3 DEF CacheKept
  <2>2. disk[k].version = 0
    BY <1>3 DEF Fresh, ReadsDisk
  <2> QED BY <1>0, <2>1, <2>2
<1> QED BY <1>1, <1>2, <1>3 DEF HasView

LEMMA FreshStep ==
  ASSUME GateTypeOK, Fresh, [Next]_vars
  PROVE  Fresh'
<1>0. /\ disk \in [Dirs -> [config : Configs, version : Nat]]
      /\ began.version \in [Dirs -> Nat] /\ cur.key \in Keys
      /\ Len(results) \in Nat /\ \A i \in 1..Len(results) : results[i].key \in Keys
      /\ ViewsFresh
  BY ResultsTyped DEF GateTypeOK, DiskTyped, CurTyped, Fresh, ViewsFresh
<1>1. CASE Begin
  <2>1. cur.stage = "idle" /\ cur' = cur
    BY <1>1 DEF Begin, GateTypeOK, CurTyped
  <2>2. \A k \in Keys : ~cache'[k].there
    BY <1>1 DEF Begin, NoView
  <2>3. results' = <<>> /\ disk' = disk /\ setup' = setup
        /\ \A d \in Dirs : began'.version[d] = disk[d].version
    BY <1>1 DEF Begin
  <2> QED BY <1>0, <2>1, <2>2, <2>3 DEF Fresh, ReadsDisk, Mode
<1>2. CASE SkipDuplicate \/ Finish \/ UNCHANGED vars
  BY <1>2 DEF SkipDuplicate, Finish, vars, Fresh, ReadsDisk, Mode
<1>3. CASE Grade
  BY <1>3 DEF Grade, Fresh, ReadsDisk, Mode
<1>4. CASE FindView
  <2>1. Path \in Paths
    BY <1>4, HeadTailProperties DEF FindView, GateTypeOK, CurTyped, Path
  <2>2. CacheKept /\ cache'[KeyOf(Path)].there
    BY <1>4, <2>1, TakesViewKeeps DEF FindView
  <2>3. /\ cur'.key = KeyOf(Path)
        /\ UNCHANGED <<setup, disk, results, began>>
    BY <1>4 DEF FindView, GateTypeOK, CurTyped
  <2>4. ViewsFresh'
    BY <1>4, <2>2, <2>3, KeptIsFresh DEF FindView
  <2>5. \A i \in 1..Len(results) : results[i].how = "state" =>
          /\ cache'[results[i].key].there
          /\ results[i].version = cache'[results[i].key].version
    BY <1>0, <2>2 DEF Fresh, CacheKept
  <2> QED BY <2>2, <2>3, <2>4, <2>5 DEF Fresh, ViewsFresh, ReadsDisk, Mode
<1>5. CASE Evaluate
  <2>1. /\ \A k \in Keys : cache'[k].there = cache[k].there
                           /\ cache'[k].version = cache[k].version
        /\ cur'.key = cur.key /\ UNCHANGED <<setup, disk, results, began>>
    BY <1>5, AttachMarks DEF Evaluate, GateTypeOK, CurTyped
  <2>2. cur.stage = "evaluate"
    BY <1>5 DEF Evaluate
  <2> QED BY <1>0, <2>1, <2>2, ZenonT(40) DEF Fresh, ReadsDisk, Mode
<1>6. CASE RecordingStep
  <2>1. PICK r \in Reports, c \in BOOLEAN, h \in Hows : Recording(r, c, h)
    BY <1>6, Records
  <2> DEFINE new == [path |-> Head(todo), status |-> FileStatus(r), candidate |-> c,
                     report |-> r, key |-> cur.key, how |-> h,
                     version |-> cache[cur.key].version]
  <2>2. /\ Len(results') = Len(results) + 1
        /\ \A i \in 1..Len(results) : results'[i] = results[i]
        /\ results'[Len(results) + 1] = new
        /\ cur' = Idle /\ UNCHANGED <<setup, disk, call, running, began>>
    BY <2>1, RecordAppends DEF Recording
  <2>3. h = "state" => cur.stage \in {"evaluate", "post"}
    BY <2>1 DEF Recording
  <2>4. \A k \in Keys : cache[k].there =>
          cache'[k].there /\ cache'[k].version = cache[k].version
    BY <2>1, AttachMarks DEF Recording, CacheKept
  <2>5. new.how = h /\ new.key = cur.key /\ new.version = cache[cur.key].version
    OBVIOUS
  <2> HIDE DEF new
  <2>6. \A i \in 1..Len(results') : results'[i].how = "state" =>
          /\ cache'[results'[i].key].there
          /\ results'[i].version = cache'[results'[i].key].version
    <3> SUFFICES ASSUME NEW i \in 1..Len(results'), results'[i].how = "state"
                 PROVE  /\ cache'[results'[i].key].there
                        /\ results'[i].version = cache'[results'[i].key].version
      OBVIOUS
    <3>1. CASE i \in 1..Len(results)
      BY <1>0, <2>2, <2>4, <3>1 DEF Fresh
    <3>2. CASE i = Len(results) + 1
      BY <1>0, <2>2, <2>3, <2>4, <2>5, <3>2 DEF Fresh
    <3> QED BY <1>0, <2>2, <3>1, <3>2
  <2>7. ViewsFresh'
    <3>1. CASE HasView /\ CacheKept
      BY <2>2, <3>1, KeptIsFresh
    <3>2. CASE \A k \in Keys : cache'[k].there = cache[k].there
                               /\ cache'[k].version = cache[k].version
      BY <1>0, <2>2, <3>2 DEF ViewsFresh
    <3>3. ~HasView => UNCHANGED cache
      BY <1>6 DEF RecordingStep, StateFile, NotAPolicy, NoProposal, GradePlain, Crash,
                  Unreadable, PostPass, GateTypeOK, CurTyped
    <3> QED BY <2>1, <3>1, <3>2, <3>3, AttachMarks DEF Recording
  <2>8. /\ \A d \in Dirs : began'.version[d] <= disk'[d].version
        /\ ~ReadsDisk' => \A d \in Dirs : disk'[d].version = 0
    BY <2>2 DEF Fresh, ReadsDisk, Mode
  <2>9. cur'.stage \notin {"evaluate", "post"}
    BY <2>2 DEF Idle
  <2> QED BY <2>6, <2>7, <2>8, <2>9 DEF Fresh, ViewsFresh
<1>7. ASSUME NEW d \in Dirs, Disturb(d)
      PROVE  Fresh'
  <2>1. PICK config \in ConfigsOf(d) :
          disk' = [disk EXCEPT ![d] = [config |-> config, version |-> @.version + 1]]
    BY <1>7 DEF Disturb
  <2>2. \A e \in Dirs : disk'[e].version \in Nat /\ disk[e].version <= disk'[e].version
    BY <1>0, <2>1
  <2>3. ReadsDisk /\ UNCHANGED <<setup, results, cache, cur, began>>
    BY <1>7 DEF Disturb
  <2>4. \A e \in Dirs : began'.version[e] <= disk'[e].version
    <3> SUFFICES ASSUME NEW e \in Dirs PROVE began.version[e] <= disk'[e].version
      BY <2>3
    <3>1. began.version[e] \in Nat /\ disk[e].version \in Nat /\ disk'[e].version \in Nat
          /\ began.version[e] <= disk[e].version /\ disk[e].version <= disk'[e].version
      BY <1>0, <2>2 DEF Fresh
    <3> QED BY <3>1
  <2> QED BY <2>3, <2>4 DEF Fresh, ReadsDisk, Mode
<1> QED BY <1>1, <1>2, <1>3, <1>4, <1>5, <1>6, <1>7, NextCases

-----------------------------------------------------------------------------
(* A loud note is never lost.                                              *)

\* An answer stays in the results, and what it raises with it.
LEMMA RaisedStays ==
  ASSUME GateTypeOK, Busy, Raised, NEW r \in Reports, NEW c \in BOOLEAN, NEW h \in Hows,
         Record(r, c, h)
  PROVE  Raised'
<1>1. /\ Len(results) \in Nat /\ Len(results') = Len(results) + 1
      /\ \A i \in 1..Len(results) : results'[i] = results[i]
  BY RecordAppends
<1>2. PICK i \in 1..Len(results) :
        \/ results[i].status = "failed"
        \/ results[i].candidate /\ results[i].status = "unverified"
        \/ "loud" \in results[i].report
  BY DEF Raised
<1>3. i \in 1..Len(results') /\ results'[i] = results[i]
  BY <1>1, <1>2
<1> QED BY <1>2, <1>3 DEF Raised

\* A loud answer, or that of a candidate nothing was found out about, is one.
LEMMA RaisedByAnswer ==
  ASSUME GateTypeOK, Busy, NEW r \in Reports, NEW c \in BOOLEAN, NEW h \in Hows,
         Record(r, c, h), "loud" \in r \/ (r = {"unverified"} /\ c = TRUE)
  PROVE  Raised'
<1> DEFINE new == [path |-> Head(todo), status |-> FileStatus(r), candidate |-> c,
                   report |-> r, key |-> cur.key, how |-> h,
                   version |-> cache[cur.key].version]
<1>1. /\ Len(results) \in Nat /\ Len(results') = Len(results) + 1
      /\ results'[Len(results) + 1] = new
  BY RecordAppends
<1>2. new.report = r /\ new.candidate = c /\ new.status = FileStatus(r)
  OBVIOUS
<1>3. r = {"unverified"} => FileStatus(r) = "unverified"
  BY DEF FileStatus, NoteClasses
<1> HIDE DEF new
<1>4. Len(results) + 1 \in 1..Len(results')
  BY <1>1
<1> QED BY <1>1, <1>2, <1>3, <1>4 DEF Raised

LEMMA DeliveredStep ==
  ASSUME GateTypeOK, Fresh, Delivered, [Next]_vars
  PROVE  Delivered'
<1>0. /\ cur.key \in Keys /\ cur.stage \in {"idle", "view", "evaluate", "post"}
      /\ Len(results) \in Nat /\ \A i \in 1..Len(results) : results[i].key \in Keys
  BY ResultsTyped DEF GateTypeOK, CurTyped
<1>1. CASE Begin
  <2>1. cur'.stage = "idle"
    BY <1>1 DEF Begin, GateTypeOK, CurTyped
  <2>2. \A k \in Keys : ~cache'[k].attached
    BY <1>1 DEF Begin, NoView
  <2>3. results' = <<>> /\ began'.notes = pending'
    BY <1>1 DEF Begin
  <2> QED BY <2>1, <2>2, <2>3 DEF Delivered
<1>2. CASE SkipDuplicate \/ Finish \/ UNCHANGED vars
  BY <1>2 DEF SkipDuplicate, Finish, vars, Delivered, InHand, Raised
<1>3. CASE Grade
  BY <1>3 DEF Grade, Start, Idle, Delivered, InHand, Raised
<1>4. CASE FindView
  <2>1. Path \in Paths
    BY <1>4, HeadTailProperties DEF FindView, GateTypeOK, CurTyped, Path
  <2>2. CacheKept
    BY <1>4, <2>1, TakesViewKeeps DEF FindView
  <2>3. cur.stage = "view" /\ cur'.stage = "evaluate"
        /\ UNCHANGED <<results, pending, began>>
    BY <1>4 DEF FindView, GateTypeOK, CurTyped
  <2>4. \A k \in Keys : cache'[k] # cache[k] => ~cache'[k].attached
    BY <2>2 DEF CacheKept
  <2>5. \A i \in 1..Len(results) : results[i].how = "state" =>
          cache'[results[i].key] = cache[results[i].key]
    BY <1>0, <2>2 DEF CacheKept, Fresh
  <2> QED BY <2>3, <2>4, <2>5 DEF Delivered, InHand, Raised
<1>5. CASE Evaluate
  <2>1. PICK said \in Graded :
          cur' = [cur EXCEPT !.stage = "post", !.report = said \cup NotesDue]
    BY <1>5 DEF Evaluate
  <2>2. cur'.stage = "post" /\ cur'.key = cur.key /\ NotesDue \subseteq cur'.report
        /\ cur.stage = "evaluate"
    BY <1>5, <2>1 DEF Evaluate, GateTypeOK, CurTyped
  <2>3. UNCHANGED <<results, began>> /\ Attach
    BY <1>5 DEF Evaluate
  <2>4. Raised => Raised'
    BY <2>3 DEF Raised
  <2>5. "loud" \in pending => InHand'
    BY <2>2 DEF InHand, NotesDue
  <2>6. \A k \in Keys : cache'[k].attached /\ "loud" \in cache'[k].notes => InHand' \/ Raised'
    <3> SUFFICES ASSUME NEW k \in Keys, cache'[k].attached, "loud" \in cache'[k].notes
                 PROVE  InHand' \/ Raised'
      OBVIOUS
    <3>1. "loud" \in cache[k].notes
      BY <2>3, AttachMarks
    <3>2. CASE cache[k].attached
      BY <2>2, <2>4, <3>1, <3>2 DEF Delivered, InHand
    <3>3. CASE ~cache[k].attached
      <4>1. k = cur.key
        BY <2>3, <3>3, AttachMarks
      <4> QED BY <2>2, <3>1, <3>3, <4>1 DEF InHand, NotesDue
    <3> QED BY <3>2, <3>3
  <2>7. \A k \in Keys : cache[k].attached => cache'[k].attached
    BY <2>3, AttachMarks
  <2>8. pending' = {} /\ ("loud" \in cache'[cur.key].notes => cache'[cur.key].attached)
    BY <1>0, <2>3, AttachMarks
  <2>9. \A i \in 1..Len(results) : results[i].how = "state" =>
          /\ cache'[results[i].key].there
          /\ "loud" \in cache'[results[i].key].notes => cache'[results[i].key].attached
    BY <1>0, <2>3, <2>7, AttachMarks DEF Delivered
  <2>10. "loud" \in began.notes => InHand' \/ Raised'
    BY <2>2, <2>4, <2>5 DEF Delivered, InHand
  <2> QED BY <2>2, <2>3, <2>6, <2>8, <2>9, <2>10 DEF Delivered
<1>6. CASE RecordingStep
  <2>1. PICK r \in Reports, c \in BOOLEAN, h \in Hows : Recording(r, c, h)
    BY <1>6, Records
  <2> DEFINE new == [path |-> Head(todo), status |-> FileStatus(r), candidate |-> c,
                     report |-> r, key |-> cur.key, how |-> h,
                     version |-> cache[cur.key].version]
  <2>2. /\ Len(results') = Len(results) + 1
        /\ \A i \in 1..Len(results) : results'[i] = results[i]
        /\ results'[Len(results) + 1] = new
        /\ cur' = Idle /\ began' = began
    BY <2>1, RecordAppends DEF Recording
  <2>3. new.how = h /\ new.key = cur.key
    OBVIOUS
  <2> HIDE DEF new
  <2>4. Raised => Raised'
    BY <2>1, RaisedStays DEF Recording
  <2>5. "loud" \in r => Raised'
    BY <2>1, RaisedByAnswer DEF Recording
  <2>6. InHand => Raised'
    BY <2>1, <2>5, RaisedByAnswer DEF Recording, InHand
  <2>7. "loud" \in pending => "loud" \in pending' \/ Raised'
    BY <2>1, <2>5 DEF Recording, NotesDue
  <2>8. \A k \in Keys : cache'[k].attached /\ "loud" \in cache'[k].notes => Raised'
    <3> SUFFICES ASSUME NEW k \in Keys, cache'[k].attached, "loud" \in cache'[k].notes
                 PROVE  Raised'
      OBVIOUS
    <3>1. CASE cache[k].attached /\ "loud" \in cache[k].notes
      BY <2>4, <2>6, <3>1 DEF Delivered
    <3>2. CASE ~(cache[k].attached /\ "loud" \in cache[k].notes)
      <4>1. Attach /\ NotesDue \subseteq r
        BY <2>1, <3>2 DEF Recording, CacheKept
      <4>2. k = cur.key /\ "loud" \in cache[k].notes /\ ~cache[k].attached
        BY <3>2, <4>1, AttachMarks
      <4> QED BY <2>5, <4>1, <4>2 DEF NotesDue
    <3> QED BY <3>1, <3>2
  <2>9. pending = {} => pending' = {}
    BY <2>1, AttachMarks DEF Recording
  <2>10. \A k \in Keys :
           cache[k].there /\ ("loud" \in cache[k].notes => cache[k].attached)
           => cache'[k].there /\ ("loud" \in cache'[k].notes => cache'[k].attached)
    BY <2>1, AttachMarks DEF Recording, CacheKept
  <2>11. h = "state" =>
           /\ pending' = {} /\ cache'[cur.key].there
           /\ "loud" \in cache'[cur.key].notes => cache'[cur.key].attached
    <3>1. CASE cur.stage = "evaluate" /\ Attach
      BY <1>0, <3>1, AttachMarks DEF Fresh
    <3>2. CASE cur.stage = "post" /\ UNCHANGED <<cache, pending>>
      BY <3>2 DEF Fresh, Delivered
    <3> QED BY <2>1, <3>1, <3>2 DEF Recording
  <2>12. \A i \in 1..Len(results') : results'[i].how = "state" =>
           /\ pending' = {} /\ cache'[results'[i].key].there
           /\ "loud" \in cache'[results'[i].key].notes => cache'[results'[i].key].attached
    <3> SUFFICES ASSUME NEW i \in 1..Len(results'), results'[i].how = "state"
                 PROVE  /\ pending' = {} /\ cache'[results'[i].key].there
                        /\ "loud" \in cache'[results'[i].key].notes
                             => cache'[results'[i].key].attached
      OBVIOUS
    <3>1. CASE i \in 1..Len(results)
      BY <1>0, <2>2, <2>9, <2>10, <3>1 DEF Delivered
    <3>2. CASE i = Len(results) + 1
      BY <2>2, <2>3, <2>11, <3>2
    <3> QED BY <1>0, <2>2, <3>1, <3>2
  <2>13. "loud" \in began.notes => "loud" \in pending' \/ Raised'
    BY <2>4, <2>6, <2>7 DEF Delivered
  <2>14. cur'.stage # "post"
    BY <2>2 DEF Idle
  <2> QED BY <2>2, <2>8, <2>12, <2>13, <2>14 DEF Delivered
<1>7. ASSUME NEW d \in Dirs, Disturb(d)
      PROVE  Delivered'
  BY <1>7 DEF Disturb, Delivered, InHand, Raised
<1> QED BY <1>1, <1>2, <1>3, <1>4, <1>5, <1>6, <1>7, NextCases

-----------------------------------------------------------------------------
(* The gate is a batch runner.                                             *)

\* A file answered is one the batch runner answered, in the same order.
Answers == [i \in 1..Len(results) |->
              [item |-> results[i].path, answer |-> results[i].status]]

LEMMA RecordAnswers ==
  ASSUME GateTypeOK, Busy, NEW r \in Reports, NEW c \in BOOLEAN, NEW h \in Hows,
         Record(r, c, h)
  PROVE  /\ Answers' = Append(Answers, [item |-> Path, answer |-> FileStatus(r)])
         /\ \A p : Seen(p)' <=> Seen(p) \/ p = Path
<1> DEFINE new == [path |-> Head(todo), status |-> FileStatus(r), candidate |-> c,
                   report |-> r, key |-> cur.key, how |-> h,
                   version |-> cache[cur.key].version]
<1>1. /\ Len(results) \in Nat /\ Len(results') = Len(results) + 1
      /\ \A i \in 1..Len(results) : results'[i] = results[i]
      /\ results'[Len(results) + 1] = new
  BY RecordAppends
<1>2. new.path = Path /\ new.status = FileStatus(r)
  BY DEF Path
<1> HIDE DEF new
<1> DEFINE a == [item |-> Path, answer |-> FileStatus(r)]
<1>3. Answers \in Seq({Answers[i] : i \in 1..Len(results)}) /\ Len(Answers) = Len(results)
  BY <1>1 DEF Answers
<1>4. Append(Answers, a) = [i \in 1..Len(results) + 1 |->
                              IF i = Len(results) + 1 THEN a ELSE Answers[i]]
  BY <1>1, <1>3
<1>5. Answers' = Append(Answers, a)
  BY <1>1, <1>2, <1>4 DEF Answers
<1>6. ASSUME NEW p PROVE Seen(p)' <=> Seen(p) \/ p = Path
  BY <1>1, <1>2 DEF Seen
<1> QED BY <1>5, <1>6

\* No file is graded that was answered before in this call.
LEMMA UnansweredStep ==
  ASSUME GateTypeOK, Unanswered, [Next]_vars
  PROVE  Unanswered'
<1>1. CASE Begin \/ Finish \/ UNCHANGED vars \/ \E d \in Dirs : Disturb(d)
  BY <1>1 DEF Begin, Finish, vars, Disturb, Unanswered, GateTypeOK, CurTyped, Seen, Path
<1>2. CASE SkipDuplicate
  BY <1>2 DEF SkipDuplicate, Unanswered, Idle
<1>3. CASE Grade
  BY <1>3 DEF Grade, Start, Unanswered, Seen, Path
<1>4. CASE FindView \/ Evaluate
  BY <1>4 DEF FindView, Evaluate, Unanswered, Seen, Path
<1>5. CASE RecordingStep
  <2>1. cur' = Idle
    BY <1>5, Records DEF Recording, Record
  <2> QED BY <2>1 DEF Unanswered, Idle
<1> QED BY <1>1, <1>2, <1>3, <1>4, <1>5, NextCases

LEMMA AnsweredIsSeen ==
  ASSUME GateTypeOK, NEW p
  PROVE  BatchRunner!Answered(p) <=> Seen(p)
<1>1. Len(results) \in Nat
  BY ResultsTyped
<1> DEFINE a == [i \in 1..Len(results) |->
                   [item |-> results[i].path, answer |-> results[i].status]]
<1>2. Len(a) = Len(results) /\ \A i \in 1..Len(results) : a[i].item = results[i].path
  BY <1>1
<1> QED BY <1>2 DEF BatchRunner!Answered, Seen

LEMMA VerdictIsOk ==
  ASSUME GateTypeOK
  PROVE  Ok <=> ~\E i \in 1..Len(Answers) : Answers[i].answer \in {"failed"}
<1>1. Len(results) \in Nat
  BY ResultsTyped
<1>2. Len(Answers) = Len(results) /\ \A i \in 1..Len(results) : Answers[i].answer = results[i].status
  BY <1>1 DEF Answers
<1> QED BY <1>2 DEF Ok

\* The gate's state as the batch runner sees it.
Verdict == CASE call = 0 -> "none" [] running -> "open"
             [] OTHER -> IF Ok THEN "passed" ELSE "failed"

\* Nothing the batch runner sees moves.
LEMMA BatchStutters ==
  ASSUME UNCHANGED <<todo, results, call, running>>
  PROVE  UNCHANGED BatchRunner!vars
<1>1. Answers' = Answers /\ Verdict' = Verdict
  BY DEF Answers, Verdict, Ok
<1> QED BY <1>1 DEF BatchRunner!vars, Answers, Verdict

LEMMA BatchStep ==
  ASSUME GateTypeOK, Unanswered, [Next]_vars
  PROVE  [BatchRunner!Next]_(BatchRunner!vars)
<1>0. call \in Nat /\ running \in BOOLEAN /\ (running => call # 0)
  BY DEF GateTypeOK
<1>1. CASE Begin
  <2>1. Verdict # "open" /\ Verdict' = "open"
    BY <1>0, <1>1 DEF Begin, Verdict
  <2>2. Answers' = <<>>
    BY <1>1 DEF Begin, Answers
  <2>3. BatchRunner!Open
    BY <1>1, <2>1, <2>2 DEF Begin, BatchRunner!Open, Verdict, Answers
  <2> QED BY <2>3 DEF BatchRunner!Next
<1>2. CASE SkipDuplicate
  <2>1. UNCHANGED <<call, running, results>> /\ Verdict = "open"
    BY <1>0, <1>2 DEF SkipDuplicate, Busy, Verdict
  <2>2. Answers' = Answers /\ Verdict' = Verdict
    BY <2>1 DEF Answers, Verdict, Ok
  <2>3. BatchRunner!Answered(Head(todo)) /\ todo # <<>> /\ todo' = Tail(todo)
    BY <1>2, AnsweredIsSeen DEF SkipDuplicate, Busy, Path
  <2>4. BatchRunner!Skip
    BY <2>1, <2>2, <2>3 DEF BatchRunner!Skip, Answers, Verdict
  <2> QED BY <2>4 DEF BatchRunner!Next
<1>3. CASE Finish
  <2>1. UNCHANGED <<call, results, todo>> /\ Verdict = "open" /\ ~running'
        /\ todo = <<>> /\ call # 0
    BY <1>0, <1>3 DEF Finish, Verdict
  <2>2. Answers' = Answers /\ Verdict' = IF Ok THEN "passed" ELSE "failed"
    BY <2>1 DEF Answers, Verdict, Ok
  <2>3. BatchRunner!Close
    BY <2>1, <2>2, VerdictIsOk DEF BatchRunner!Close, Answers, Verdict
  <2> QED BY <2>3 DEF BatchRunner!Next
<1>4. CASE Grade \/ FindView \/ Evaluate \/ \E d \in Dirs : Disturb(d)
  BY <1>4, BatchStutters DEF Grade, FindView, Evaluate, Disturb
<1>5. CASE RecordingStep
  <2>1. PICK r \in Reports, c \in BOOLEAN, h \in Hows : Recording(r, c, h)
    BY <1>5, Records
  <2>2. Busy /\ Record(r, c, h) /\ ~Seen(Path)
    BY <2>1 DEF Recording, Unanswered
  <2>3. Answers' = Append(Answers, [item |-> Head(todo), answer |-> FileStatus(r)])
    BY <2>2, RecordAnswers DEF Path
  <2>4. UNCHANGED <<call, running>> /\ Verdict = "open" /\ Verdict' = "open"
    BY <1>0, <2>2 DEF Busy, Record, Verdict
  <2>5. /\ ~BatchRunner!Answered(Head(todo))
        /\ todo # <<>> /\ todo' = Tail(todo)
    BY <2>2, AnsweredIsSeen DEF Busy, Record, Path
  <2>6. BatchRunner!Answer
    BY <2>3, <2>4, <2>5, StatusTyped DEF BatchRunner!Answer, Answers, Verdict
  <2> QED BY <2>6 DEF BatchRunner!Next
<1>6. CASE UNCHANGED vars
  BY <1>6, BatchStutters DEF vars
<1> QED BY <1>1, <1>2, <1>3, <1>4, <1>5, <1>6, NextCases

-----------------------------------------------------------------------------
(* Theorems about the gate.                                                *)

LEMMA HandedStep ==
  ASSUME GateTypeOK, Handed, [Next]_vars
  PROVE  Handed'
<1> DEFINE Keeps == \A k \in Keys : /\ cache'[k].there = cache[k].there
                                     /\ cache'[k].notes = cache[k].notes
<1>1. UNCHANGED setup
  BY NextCases, Records, RecordAppends
  DEF Begin, SkipDuplicate, Finish, Grade, FindView, Evaluate, Disturb, vars, Recording
<1>2. UNCHANGED cache \/ Keeps \/ (\A k \in Keys : ~cache'[k].there) \/ (HasView /\ CacheKept)
  <2>1. CASE Begin
    BY <2>1 DEF Begin, NoView
  <2>2. CASE SkipDuplicate \/ Finish \/ Grade \/ UNCHANGED vars \/ \E d \in Dirs : Disturb(d)
    BY <2>2 DEF SkipDuplicate, Finish, Grade, vars, Disturb
  <2>3. CASE FindView
    <3>1. Path \in Paths
      BY <2>3, HeadTailProperties DEF FindView, GateTypeOK, CurTyped, Path
    <3> QED BY <2>3, <3>1, TakesViewKeeps DEF FindView
  <2>4. CASE Evaluate
    BY <2>4, AttachMarks DEF Evaluate
  <2>5. CASE RecordingStep
    <3>1. PICK r \in Reports, c \in BOOLEAN, h \in Hows : Recording(r, c, h)
      BY <2>5, Records
    <3>2. ~HasView => UNCHANGED cache
      BY <2>5 DEF RecordingStep, StateFile, NotAPolicy, NoProposal, GradePlain, Crash,
                  Unreadable, PostPass, GateTypeOK, CurTyped
    <3> QED BY <3>1, <3>2, AttachMarks DEF Recording
  <2> QED BY <2>1, <2>2, <2>3, <2>4, <2>5, NextCases
<1>3. Inherited' = Inherited /\ Mode' = Mode
  BY <1>1 DEF Inherited, Mode
<1> QED BY <1>2, <1>3 DEF Handed, CacheKept

LEMMA GateInductive == Spec => []GateInv
<1>1. Init => GateInv
  BY GateInit
<1>2. GateInv /\ [Next]_vars => GateInv'
  BY GateTypeStep, FreshStep, DeliveredStep, UnansweredStep, HandedStep DEF GateInv
<1> QED BY <1>1, <1>2, PTL DEF Spec

\* The files of one directory's configuration are judged by one estate, no
\* older than the call, whatever changes between two files (gate.py:835, 1159).
THEOREM OneEstate == Spec => []OneEstatePerCall
<1>1. GateInv => OneEstatePerCall
  <2> SUFFICES ASSUME GateInv, NEW i \in 1..Len(results), NEW j \in 1..Len(results),
                      results[i].how = "state", results[i].key \in Dirs
               PROVE  /\ results[i].version >= began.version[results[i].key]
                      /\ results[j].how = "state" /\ results[j].key = results[i].key
                           => results[i].version = results[j].version
    BY DEF OneEstatePerCall
  <2>1. results[i].key \in Keys
    BY DEF Keys
  <2> QED BY <2>1 DEF GateInv, Fresh
<1> QED BY <1>1, GateInductive, PTL

\* A call that ends without a risk used no state with a loud note and had no
\* loud note of its own: the notes are attached once, to whichever file is
\* first, and neither a crash nor a repeated path can lose them (gate.py:595,
\* 1356).  A state the caller supplied was silent itself, unless the
\* construction left notes of its own, which stand in for it (gate.py:1132).
THEOREM QuietIsClean == Spec => []QuietMeansClean
<1>1. GateInv => QuietMeansClean
  <2> SUFFICES ASSUME GateInv, ~running, Risk = "none", NEW i \in 1..Len(results),
                      results[i].how = "state"
               PROVE  /\ "loud" \notin cache[results[i].key].notes
                      /\ "loud" \notin began.notes
                      /\ Mode = "given" /\ "loud" \in setup.own => setup.notes # {}
    BY DEF QuietMeansClean
  <2>1. ~Raised
    BY RiskIsRaised
  <2>2. ~InHand
    BY DEF GateInv, GateTypeOK, CurTyped, InHand
  <2>3. results[i].key \in Keys
    BY ResultsTyped DEF GateInv
  <2>4. cache[results[i].key].there /\ "loud" \notin cache[results[i].key].notes
        /\ "loud" \notin began.notes
    BY <2>1, <2>2, <2>3 DEF GateInv, Delivered
  <2>5. Mode = "given" => "loud" \notin Inherited
    BY <2>3, <2>4 DEF GateInv, Handed
  <2> QED BY <2>4, <2>5 DEF Inherited
<1> QED BY <1>1, GateInductive, PTL

\* The gate implements the batch runner's safety: every distinct path is
\* answered once and for good, in order, and a call closes with the worst of
\* its answers (gate.py:810).
THEOREM GateImplementsBatch ==
  Spec => BatchRunner!Init /\ [][BatchRunner!Next]_(BatchRunner!vars)
<1>1. Init => BatchRunner!Init
  BY DEF Init, BatchRunner!Init
<1>2. GateInv /\ [Next]_vars => [BatchRunner!Next]_(BatchRunner!vars)
  BY BatchStep DEF GateInv
<1> QED BY <1>1, <1>2, GateInductive, PTL DEF Spec

-----------------------------------------------------------------------------
(* The command line and the hook: what a run's state always is.            *)

\* Both versions only move on; the snapshot graded against is at least as new
\* as the one loaded first, and both are at most as new as the one on disk.
Versions ==
  /\ estate \in [version : Nat, stale : BOOLEAN]
  /\ held \in [version : Nat, stale : BOOLEAN]
  /\ evidence \in [version : Nat, stale : BOOLEAN]
  /\ held.version <= estate.version
  /\ stage = "grade with state" \/ graded # "none" => held.version <= evidence.version

FileTyped == file.content \in DocumentContents /\ file.version \in Nat

\* A run stands where its exit code and its grading say: the hook alone reads
\* an event, no report is finished ungraded, and nothing is written after the
\* exit code.
Standing ==
  /\ stage \in Stages \cup {"grade with state"}
  /\ code # "none" <=> stage = "end"
  /\ stage = "event" => run.hook
  /\ stage = "finish" => graded # "none"
  /\ stage \notin {"finish", "end"} => graded = "none"

\* What a report may hold that was graded against a snapshot past its ceiling.
Aged(verdicts) == /\ "unverified" \in verdicts /\ "ungrounded" \notin verdicts
                  /\ "grounded" \in verdicts => run.configured
Dated == graded # "none" /\ evidence.stale => Aged(report)

HookInv == Versions /\ FileTyped /\ Standing /\ Dated /\ TroubleNeverDecides

LEMMA RunInitial == RunInit => HookInv
<1> SUFFICES ASSUME RunInit PROVE HookInv
  OBVIOUS
<1>1. Versions /\ FileTyped
  BY DEF RunInit, Versions, FileTyped
<1>2. Standing /\ Dated /\ TroubleNeverDecides
  BY DEF RunInit, Standing, Stages, Dated, TroubleNeverDecides, Block, OkCode
<1> QED BY <1>1, <1>2 DEF HookInv

\* What a command says does not change during a run.
LEMMA SameCommand == UNCHANGED run => HasCommand' = HasCommand /\ Mutates' = Mutates
BY DEF HasCommand, Mutates, Verdicts

\* Between two stages nothing is decided.
LEMMA MovesOn ==
  ASSUME HookInv, NEW from \in Stages \ {"finish", "end"},
         NEW to \in (Stages \ {"finish", "end"}),
         GoTo(from, to), to = "event" => run.hook
  PROVE  HookInv'
<1>1. stage = from /\ stage' = to
      /\ UNCHANGED <<run, file, estate, held, evidence, rules, graded, report, code, cause>>
  BY DEF GoTo
<1>2. "grade with state" \notin Stages /\ code = "none"
  BY <1>1 DEF Stages, HookInv, Standing
<1>3. Standing'
  BY <1>1, <1>2 DEF HookInv, Standing
<1>4. Versions' /\ FileTyped' /\ Dated'
  BY <1>1, <1>2 DEF HookInv, Versions, FileTyped, Dated, Aged
<1>5. TroubleNeverDecides'
  BY <1>1, <1>2 DEF TroubleNeverDecides, Block, OkCode
<1> QED BY <1>3, <1>4, <1>5 DEF HookInv

\* A run may end when its exit code is earned.
LEMMA Ends ==
  ASSUME HookInv, stage # "end", NEW c \in {"0", "1", "2"}, NEW why, Exit(c, why),
         run.hook /\ c = Block =>
           \/ report \cap Findings # {}
           \/ HasCommand /\ run.policy = "block" /\ Mutates,
         ~run.hook /\ c = OkCode => graded # "none" /\ report \cap Findings = {}
  PROVE  HookInv'
<1>1. stage' = "end" /\ code' = c /\ c # "none"
      /\ UNCHANGED <<run, file, estate, held, evidence, rules, graded, report>>
  BY DEF Exit
<1>2. Standing'
  BY <1>1 DEF HookInv, Standing, Stages
<1>3. Versions' /\ FileTyped' /\ Dated'
  BY <1>1 DEF HookInv, Versions, FileTyped, Dated, Aged
<1>4. TroubleNeverDecides'
  BY <1>1, SameCommand DEF TroubleNeverDecides
<1> QED BY <1>2, <1>3, <1>4 DEF HookInv

\* The run's own trouble is never a reason to block the editor, nor to pass a
\* document on the command line.
LEMMA UsageEnds ==
  ASSUME HookInv, stage # "end", Usage(run.hook)
  PROVE  HookInv'
<1>1. CASE run.hook
  BY <1>1, Ends DEF Usage, OkCode, Block
<1>2. CASE ~run.hook
  BY <1>2, Ends DEF Usage, OkCode, Block
<1> QED BY <1>1, <1>2

\* Against a snapshot past its ceiling no name is missed, something is left
\* undecided, and a name is found by a configured state alone.
LEMMA GradeIsDated ==
  ASSUME NEW content \in DocumentContents, NEW snapshot, snapshot.stale
  PROVE  Aged(GradeDocument(content, snapshot))
<1> DEFINE graded_as == GradeDocument(content, snapshot)
<1>1. "unverified" \in graded_as
  BY DEF GradeDocument
<1>2. "ungrounded" \notin graded_as
  BY DEF GradeDocument, DocumentContents
<1>3. "grounded" \in graded_as => run.configured
  BY DEF GradeDocument, DocumentContents
<1> QED BY <1>1, <1>2, <1>3 DEF Aged

\* Grading ends the stage with a report, and decides nothing yet.
LEMMA Grades ==
  ASSUME HookInv, stage \in {"grade", "grade with state"}, stage' = "finish",
         graded' \in DocumentContents, UNCHANGED <<run, file, estate, held, code>>,
         evidence' \in [version : Nat, stale : BOOLEAN],
         held.version <= evidence'.version,
         evidence'.stale => Aged(report')
  PROVE  HookInv'
<1>1. code = "none" /\ "none" \notin DocumentContents
  BY DEF HookInv, Standing, DocumentContents
<1>2. Standing'
  BY <1>1 DEF HookInv, Standing, Stages
<1>3. Versions' /\ FileTyped'
  BY <1>1 DEF HookInv, Versions, FileTyped
<1>5. Dated'
  BY DEF Dated, Aged
<1>4. TroubleNeverDecides'
  BY <1>1 DEF TroubleNeverDecides, Block, OkCode
<1> QED BY <1>2, <1>3, <1>4, <1>5 DEF HookInv

LEMMA RunPreserved ==
  ASSUME HookInv, [RunNext]_(runVars)
  PROVE  HookInv'
<1>0. /\ "grounded" \notin BaselineVerdict /\ "ungrounded" \notin BaselineVerdict
      /\ OkCode = "0" /\ Failed = "1" /\ Block = "2"
      /\ {"start", "event", "flags", "settings", "clock", "snapshot", "refusal",
          "requirements", "grade"} \subseteq Stages \ {"finish", "end"}
  BY DEF BaselineVerdict, OkCode, Failed, Block, Stages
<1>1. CASE Unparsable
  BY <1>1, UsageEnds DEF Unparsable
<1>2. CASE Invoke
  BY <1>0, <1>2, MovesOn DEF Invoke
<1>3. CASE UnreadableEvent
  BY <1>0, <1>3, Ends DEF UnreadableEvent, HookInv, Standing
<1>4. CASE HookCommand
  <2>1. stage = "event" /\ run.hook
    BY <1>4 DEF HookCommand, HookInv, Standing
  <2>2. CASE run.policy = "block" /\ Mutates
    BY <1>0, <1>4, <2>1, <2>2, Ends DEF HookCommand
  <2>3. CASE ~(run.policy = "block" /\ Mutates)
    BY <1>0, <1>4, <2>1, <2>3, Ends DEF HookCommand
  <2> QED BY <2>2, <2>3
<1>5. CASE OutOfScope
  BY <1>0, <1>5, Ends DEF OutOfScope, HookInv, Standing
<1>6. CASE FileEvent \/ CheckFlags \/ ResolveSettings \/ ResolveClock \/ NotRefused
  BY <1>0, <1>6, MovesOn
  DEF FileEvent, CheckFlags, ResolveSettings, ResolveClock, NotRefused
<1>7. CASE Trouble \/ GradeTrouble
  BY <1>7, UsageEnds DEF Trouble, GradeTrouble
<1>8. CASE LoadSnapshot
  <2>1. stage = "snapshot" /\ stage' = "refusal" /\ held' = estate
        /\ UNCHANGED <<run, file, estate, evidence, rules, graded, report, code, cause>>
    BY <1>8 DEF LoadSnapshot
  <2>2. graded = "none" /\ code = "none"
    BY <2>1 DEF HookInv, Standing
  <2>3. Versions'
    BY <2>1, <2>2 DEF HookInv, Versions
  <2>4. FileTyped' /\ Standing' /\ Dated'
    BY <2>1, <2>2 DEF HookInv, FileTyped, Standing, Stages, Dated, Aged
  <2>5. TroubleNeverDecides'
    BY <1>0, <2>1, <2>2 DEF TroubleNeverDecides
  <2> QED BY <2>3, <2>4, <2>5 DEF HookInv
<1>9. CASE RefuseState
  BY <1>0, <1>9, Ends DEF RefuseState
<1>10. CASE LoadRequirements
  <2>1. stage = "requirements" /\ stage' = "grade"
        /\ UNCHANGED <<run, file, estate, held, evidence, graded, report, code, cause>>
    BY <1>10 DEF LoadRequirements
  <2>2. graded = "none" /\ code = "none"
    BY <2>1 DEF HookInv, Standing
  <2>3. Versions' /\ FileTyped' /\ Standing' /\ Dated'
    BY <2>1, <2>2 DEF HookInv, Versions, FileTyped, Standing, Stages, Dated, Aged
  <2>4. TroubleNeverDecides'
    BY <1>0, <2>1, <2>2 DEF TroubleNeverDecides
  <2> QED BY <2>3, <2>4 DEF HookInv
<1>11. CASE GradeSnapshotOnly
  <2>1. graded' \in DocumentContents
    BY <1>11 DEF GradeSnapshotOnly, DocumentContents, HookInv, FileTyped
  <2>2. evidence'.stale => Aged(report')
    <3>1. /\ evidence' = held
          /\ GradeDocument(graded', held) \subseteq report'
          /\ report' \subseteq GradeDocument(graded', held) \cup BaselineVerdict
      BY <1>11 DEF GradeSnapshotOnly
    <3>2. held.stale => Aged(GradeDocument(graded', held))
      BY <2>1, GradeIsDated
    <3> QED BY <1>0, <3>1, <3>2 DEF Aged
  <2> QED BY <1>11, <2>1, <2>2, Grades DEF GradeSnapshotOnly, HookInv, Versions
<1>12. CASE LoadCurrent
  <2>1. stage = "grade" /\ stage' = "grade with state" /\ evidence' = estate
        /\ UNCHANGED <<run, file, estate, held, rules, graded, report, code, cause>>
    BY <1>12 DEF LoadCurrent
  <2>2. graded = "none" /\ code = "none"
    BY <2>1 DEF HookInv, Standing
  <2>3. Versions' /\ FileTyped' /\ Standing'
    BY <2>1, <2>2 DEF HookInv, Versions, FileTyped, Standing, Stages
  <2>4. Dated'
    BY <2>1, <2>2 DEF HookInv, Dated, Aged
  <2>5. TroubleNeverDecides'
    BY <1>0, <2>1, <2>2 DEF TroubleNeverDecides
  <2> QED BY <2>3, <2>4, <2>5 DEF HookInv
<1>13. CASE GradeWithState
  <2>1. graded' \in DocumentContents /\ stage = "grade with state"
        /\ UNCHANGED <<run, file, estate, held, evidence, code>> /\ stage' = "finish"
    BY <1>13 DEF GradeWithState, HookInv, FileTyped
  <2>2. evidence.stale => Aged(report')
    <3>1. /\ "unverified" \in report' \/ GradeDocument(file.content, evidence) \subseteq report'
          /\ report' \subseteq GradeDocument(file.content, evidence) \cup BaselineVerdict
                              \cup {"unverified"}
      BY <1>13 DEF GradeWithState
    <3>2. evidence.stale => Aged(GradeDocument(file.content, evidence))
      BY GradeIsDated DEF HookInv, FileTyped
    <3> QED BY <1>0, <3>1, <3>2 DEF Aged
  <2> QED BY <2>1, <2>2, Grades DEF HookInv, Versions
<1>14. CASE NoReaderForFile
  <2>1. graded' \in DocumentContents /\ stage = "grade with state" /\ report' = {"unverified"}
        /\ UNCHANGED <<run, file, estate, held, evidence, code>> /\ stage' = "finish"
    BY <1>14 DEF NoReaderForFile, DocumentContents
  <2>2. Aged(report')
    BY <2>1 DEF Aged
  <2> QED BY <2>1, <2>2, Grades DEF HookInv, Versions
<1>15. CASE Uncaught
  BY <1>0, <1>15, Ends DEF Uncaught
<1>16. CASE FinishRun
  <2>1. stage = "finish" /\ graded # "none"
    BY <1>16 DEF FinishRun, HookInv, Standing
  <2>2. CASE report \cap Findings = {}
    BY <1>0, <1>16, <2>1, <2>2, Ends DEF FinishRun
  <2>3. CASE report \cap Findings # {} /\ run.hook
    BY <1>0, <1>16, <2>1, <2>3, Ends DEF FinishRun
  <2>4. CASE report \cap Findings # {} /\ ~run.hook
    BY <1>0, <1>16, <2>1, <2>4, Ends DEF FinishRun
  <2> QED BY <2>2, <2>3, <2>4
<1>17. CASE EditFile
  <2>1. FileTyped'
    BY <1>17 DEF EditFile, HookInv, FileTyped
  <2>2. UNCHANGED <<run, stage, estate, held, evidence, rules, graded, report, code, cause>>
    BY <1>17 DEF EditFile
  <2>3. Versions' /\ Standing' /\ Dated'
    BY <2>2 DEF HookInv, Versions, Standing, Dated, Aged
  <2>4. TroubleNeverDecides'
    BY <2>2, SameCommand DEF HookInv, TroubleNeverDecides
  <2> QED BY <2>1, <2>3, <2>4 DEF HookInv
<1>18. CASE CaptureEstate
  <2>1. estate' = [version |-> estate.version + 1, stale |-> FALSE]
        /\ UNCHANGED <<run, stage, file, held, evidence, rules, graded, report, code, cause>>
    BY <1>18 DEF CaptureEstate
  <2>2. Versions'
    <3>1. estate.version \in Nat /\ held.version \in Nat /\ held.version <= estate.version
      BY DEF HookInv, Versions
    <3>2. estate'.version = estate.version + 1 /\ estate' \in [version : Nat, stale : BOOLEAN]
      BY <2>1, <3>1
    <3>3. held.version <= estate'.version
      BY <3>1, <3>2
    <3> QED BY <2>1, <3>2, <3>3 DEF HookInv, Versions
  <2>3. FileTyped' /\ Standing' /\ Dated'
    BY <2>1 DEF HookInv, FileTyped, Standing, Dated, Aged
  <2>4. TroubleNeverDecides'
    BY <2>1, SameCommand DEF HookInv, TroubleNeverDecides
  <2> QED BY <2>2, <2>3, <2>4 DEF HookInv
<1>19. CASE UNCHANGED runVars
  <2>1. TroubleNeverDecides'
    BY <1>19, SameCommand DEF runVars, HookInv, TroubleNeverDecides
  <2> QED BY <1>19, <2>1 DEF runVars, HookInv, Versions, FileTyped, Standing, Dated, Aged
<1> QED BY <1>1, <1>2, <1>3, <1>4, <1>5, <1>6, <1>7, <1>8, <1>9, <1>10, <1>11, <1>12,
           <1>13, <1>14, <1>15, <1>16, <1>17, <1>18, <1>19 DEF RunNext, RunStep

-----------------------------------------------------------------------------
(* Theorems about the command line.                                        *)

LEMMA RunInductive == RunSpec => []HookInv
<1>1. RunInit => HookInv
  BY RunInitial
<1>2. HookInv /\ [RunNext]_(runVars) => HookInv'
  BY RunPreserved
<1> QED BY <1>1, <1>2, PTL DEF RunSpec

\* The hook blocks the editor for a finding it graded or a mutating command
\* and never for trouble of its own, and the command line passes a document
\* only when it was graded (cli.py:1147, 2041).
THEOREM TroubleIsNoVerdict == RunSpec => []TroubleNeverDecides
<1>1. HookInv => TroubleNeverDecides
  BY DEF HookInv
<1> QED BY <1>1, RunInductive, PTL

\* A report never claims to be fresher than what it was graded against, and
\* against a snapshot past its ceiling it misses no name, says something is
\* undecided, and finds a name by a configured state alone, however often the
\* estate is captured meanwhile (cli.py:1255, 1613, freshness.py:500).
THEOREM StampIsTrue == RunSpec => []EvidenceIsAsStamped
<1>1. HookInv => EvidenceIsAsStamped
  BY DEF HookInv, Versions, Standing, Dated, Aged, EvidenceIsAsStamped
<1> QED BY <1>1, RunInductive, PTL
=============================================================================
