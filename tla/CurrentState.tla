---------------------------- MODULE CurrentState ----------------------------
(***************************************************************************)
(* sources.load_current: the configured sources are loaded one by one, a   *)
(* terraform directory through estate.capture, and two or more are merged  *)
(* by the one merge engine, built into a snapshot and a ledger, aged       *)
(* (freshness.evaluate), reported on and handed to the engine.  Any source *)
(* may fail to load and any step may raise; the caller always gets an      *)
(* answer.                                                                 *)
(*                                                                         *)
(* The merge engine is module Merge: its actions run inside the "capture"  *)
(* and the "merge" stage, on the facts this module hands it.               *)
(***************************************************************************)
EXTENDS Merge, Sequences

CONSTANTS Configurations,  \* sequences of configured sources
          CaptureEmit,     \* DEFAULT_EMIT: what a terraform capture emits
          CARRIED_CATEGORIES  \* the vocabularies no fact speaks for

\* A source that loaded is a view with the id it was configured by: its
\* snapshot (rows by category and key, the carried vocabularies it captured,
\* each named by the source whose data it is) and its ledger (the declared
\* sources, the categories, the source of each row, the disputes), whether
\* its capture time is past the ceiling, and the artifacts it notes as lost.
\* A configured source is such a view, for a snapshot file and its sidecar,
\* or a terraform directory: an id, its artifacts and the facts in them.
Nothing == [id |-> 0, rows |-> <<>>, carried |-> <<>>, categories |-> <<>>,
            sources |-> <<>>, origin |-> <<>>, disputes |-> {}, old |-> FALSE,
            notes |-> {}]
NoState == [reconciled |-> FALSE, notes |-> {}, view |-> Nothing]
SourceFailed(i) == <<"state:source", i>>
StepFailed      == <<"provenance", 0>>
IsDirectory(s) == "artifacts" \in DOMAIN s

(* What is configured: files whose rows hold no unresolved value and whose *)
(* ledger lists, with each category it covers, a kind of its sources, as   *)
(* every writer of a ledger does, and none of the test-only kind; and      *)
(* directories of artifacts.  No path is configured twice.                 *)
DeclaredOK(r) ==
  /\ r.kind \in Sources \ {"fixture"} /\ r.scope \in Scopes
  /\ {r.old, r.superseded} \subseteq BOOLEAN

FileOK(s) ==
  /\ DOMAIN s = DOMAIN Nothing
  /\ DOMAIN s.rows \subseteq Categories \X Keys
  /\ \A p \in DOMAIN s.rows : p[1] \in TableCategories => ~Incomparable(s.rows[p])
  /\ \A i \in DOMAIN s.sources : DeclaredOK(s.sources[i])
  /\ \A c \in DOMAIN s.categories :
       LET r == s.categories[c]
       IN  /\ DOMAIN r = DOMAIN UNCAPTURED /\ r.scope \in Scopes
           /\ DOMAIN s.sources # {} /\ r.scope # "uncaptured" =>
                \E i \in DOMAIN s.sources : s.sources[i].kind \in r.source_kinds

DirectoryOK(s) ==
  /\ DOMAIN s.artifacts \subseteq SourceIds
  /\ \A i \in DOMAIN s.artifacts : DeclaredOK(s.artifacts[i])
  /\ s.facts \subseteq Facts
  /\ \A f \in s.facts :
       /\ f.origin \in DOMAIN s.artifacts
       /\ f.source \in PROPOSED_SOURCES \cup UNRANKED \cup {s.artifacts[f.origin].kind}

Configured == UNION {{q[i] : i \in DOMAIN q} : q \in Configurations}

ASSUME ConfigurationAssumption ==
  /\ CARRIED_CATEGORIES \cap Categories = {}
  /\ Configurations \subseteq Seq(Configured)
  /\ \A q \in Configurations : \A i, j \in 1..Len(q) : q[i].id = q[j].id => i = j
  /\ \A s \in Configured :
       s.id \in SourceIds /\ IF IsDirectory(s) THEN DirectoryOK(s) ELSE FileOK(s)

VARIABLES configured,   \* the sources, in order
          next,         \* the position of the one to load next
          loaded,       \* the sources that loaded, in order
          notes,        \* what was reported: source ids, or a step
          lost,         \* the artifacts of this capture that were not read
          stage,
          current,      \* the snapshot and ledger under construction
          state         \* what load_current returns

pipeline == <<configured, next, loaded, notes, lost, stage, current, state>>
engine   == <<in, pc, kept, dropped, pending, alternates, disputes, verdicts,
              declared_not_applied, scopes>>

-----------------------------------------------------------------------------
(* One LoadedSource as the merge knows it.                                 *)

Kinds(s) == {s.sources[i].kind : i \in DOMAIN s.sources}

\* The weakest kind, and the weakest scope, the source's own ledger declares.
fidelity(s) ==
  IF Kinds(s) = {} THEN "unattributed"
  ELSE CHOOSE k \in Kinds(s) : \A l \in Kinds(s) : fidelity_rank[k] <= fidelity_rank[l]

declared_scope(s) ==
  LET claims == {s.sources[i].scope : i \in DOMAIN s.sources}
  IN  IF claims = {} THEN "undeclared"
      ELSE CHOOSE c \in claims : \A d \in claims : scope_rank[c] <= scope_rank[d]

\* The source record of the merge: no boundary, no serial.
record(s) ==
  [kind |-> fidelity(s), scope |-> SourceRecord(fidelity(s), declared_scope(s)).scope,
   boundary |-> "", old |-> s.old, superseded |-> FALSE]

snapshot_facts(s) ==
  {[category |-> p[1], key |-> p[2], origin |-> s.id, source |-> fidelity(s),
    address |-> 0, fragment |-> FALSE, record |-> s.rows[p], unresolved |-> {}] :
     p \in DOMAIN s.rows}

\* Mutant: the flattened claim of the whole source is used instead.
category_scopes_flattened(S) == <<>>

\* Per source, the scope of every category its ledger describes.
category_scopes(S) ==
  [x \in UNION {{s.id} \X (DOMAIN s.categories \cap Categories) : s \in S} |->
     (CHOOSE s \in S : s.id = x[1]).categories[x[2]].scope]

-----------------------------------------------------------------------------
(* estate.build over the result of the merge.                              *)

Surviving == {p \in DOMAIN pending :
                p[1] \in FlatCategories \/ ~Incomparable(pending[p].record)}

\* A category emitted with nothing left is uncaptured, never empty, and it
\* lists the kind of every declared source.
BuiltCategory(c, sources) ==
  LET rows   == {p \in Surviving : p[1] = c}
      killed == {p \in DOMAIN pending \ Surviving : p[1] = c}
      entry  == [UNCAPTURED EXCEPT
                   !.dropped = Cardinality(killed),
                   !.source_kinds = {sources[i].kind : i \in DOMAIN sources}]
  IN  CategoryScope(
        IF rows = {} THEN entry
        ELSE [entry EXCEPT !.scope = scopes[c].scope, !.boundary = scopes[c].boundary,
                           !.keys = Cardinality(rows), !.emitted = TRUE,
                           !.source_kinds = {kind(s) : s \in sources_over(c)}])

build(emit, sources) ==
  LET rows == {p \in Surviving : p[1] \in emit}
  IN  [Nothing EXCEPT
         !.rows       = [p \in rows |-> pending[p].record],
         !.categories = [c \in emit |-> BuiltCategory(c, sources)],
         !.sources    = sources,
         !.origin     = [p \in rows |-> pending[p].source_id],
         !.disputes   = disputes,
         !.old        = \E i \in DOMAIN sources : sources[i].old]

LoadedSet == {loaded[i] : i \in DOMAIN loaded}
Captured(c) == {i \in DOMAIN loaded : c \in DOMAIN loaded[i].carried}
scope_of_source(s, c) == IF c \in DOMAIN s.categories THEN s.categories[c] ELSE UNCAPTURED

\* The source the carried vocabulary is taken from: the first that has it.
Carrier(c) == loaded[CHOOSE i \in Captured(c) : \A j \in Captured(c) : i <= j]

\* It hands over the rows and its own scope for them.
carry_over(view) ==
  LET over == {c \in CARRIED_CATEGORIES : Captured(c) # {}}
  IN  [view EXCEPT
         !.carried = [c \in over |-> Carrier(c).carried[c]],
         !.categories = [c \in DOMAIN view.categories \cup over |->
            IF c \in over THEN scope_of_source(Carrier(c), c) ELSE view.categories[c]]]

-----------------------------------------------------------------------------
(* freshness.evaluate.                                                     *)

\* Past the ceiling, or a recorded state serial the disk has moved beyond.
stale_sources(view) ==
  {i \in DOMAIN view.sources :
     \/ view.sources[i].old
     \/ view.sources[i].superseded /\ view.sources[i].kind = "tfstate"}

\* By a fact's origin, or by the kind the category lists.
sourced_categories(view, i) ==
  {p[1] : p \in {q \in DOMAIN view.origin : view.origin[q] = i}}
  \cup {c \in DOMAIN view.categories :
          view.sources[i].kind \in view.categories[c].source_kinds}

demote_stale(view) ==
  LET affected == UNION {sourced_categories(view, i) : i \in stale_sources(view)}
  IN  [view EXCEPT !.categories =
         [c \in DOMAIN view.categories |->
            IF c \notin affected THEN view.categories[c]
            ELSE CategoryScope([view.categories[c] EXCEPT
                   !.scope = "uncaptured", !.boundary = "",
                   !.taint = compose_taint(@, "stale"),
                   !.existence_licensed = FALSE])]]

-----------------------------------------------------------------------------
(* The steps of load_current.                                              *)

\* A call of merge.resolve.
Resolve(facts, sources, category_scopes_) ==
  /\ in' = [facts |-> facts, sources |-> sources, policy |-> in.policy,
            category_scopes |-> category_scopes_]
  /\ pc' = "partition"
  /\ kept' = {} /\ dropped' = {} /\ pending' = <<>> /\ alternates' = {}
  /\ disputes' = {} /\ verdicts' = {} /\ declared_not_applied' = {}
  /\ scopes' = <<>>

LoadInit ==
  /\ in \in [facts : {{}}, sources : {<<>>}, category_scopes : {<<>>}, policy : Policies]
  /\ pc = "done"
  /\ kept = {} /\ dropped = {} /\ pending = <<>> /\ alternates = {}
  /\ disputes = {} /\ verdicts = {} /\ declared_not_applied = {}
  /\ scopes = <<>>
  /\ configured \in Configurations
  /\ next = 1 /\ loaded = <<>> /\ notes = {} /\ lost = {}
  /\ stage = "load"
  /\ current = Nothing
  /\ state = NoState

Source == configured[next]

Loads(s) ==
  /\ loaded' = Append(loaded, s)
  /\ next' = next + 1
  /\ stage' = "load"
  /\ UNCHANGED <<engine, configured, notes, lost, current, state>>

\* One state:source verdict, and the next source is tried.
Fails ==
  /\ next' = next + 1
  /\ stage' = "load"
  /\ notes' = notes \cup {SourceFailed(Source.id)}
  /\ UNCHANGED <<engine, configured, loaded, lost, current, state>>

LoadSnapshot ==
  /\ stage = "load" /\ next <= Len(configured) /\ ~IsDirectory(Source)
  /\ Loads(Source) \/ Fails

\* estate.capture: an artifact whose reader raises is noted and is no source;
\* one whose mapper raises is noted and contributes no fact.
StartCapture ==
  /\ stage = "load" /\ next <= Len(configured) /\ IsDirectory(Source)
  /\ \E read \in SUBSET DOMAIN Source.artifacts : \E mapped \in SUBSET read :
       /\ Resolve({f \in Source.facts : f.origin \in mapped},
                  [i \in read |-> Source.artifacts[i]], <<>>)
       /\ lost' = DOMAIN Source.artifacts \ mapped
  /\ stage' = "capture"
  /\ UNCHANGED <<configured, next, loaded, notes, current, state>>

\* Its notes become the notes of the loaded source.
FinishCapture ==
  /\ stage = "capture" /\ pc = "done"
  /\ LET view == build(CaptureEmit, in.sources)
     IN  IF DOMAIN view.rows = {} THEN Fails
         ELSE Loads([view EXCEPT !.id = Source.id, !.notes = lost])

\* Something in the capture raises.
CaptureRaises ==
  /\ stage = "capture"
  /\ Fails

\* Nothing loaded; or one source, which is the current state as it is; or a
\* merge of all of them.
Assemble ==
  /\ stage = "load" /\ next > Len(configured)
  /\ CASE loaded = <<>> ->
            /\ stage' = "ended"
            /\ state' = [NoState EXCEPT !.notes = notes]
            /\ UNCHANGED <<engine, current>>
       [] Len(loaded) = 1 ->
            /\ stage' = "age"
            /\ current' = loaded[1]
            /\ UNCHANGED <<engine, state>>
       [] OTHER ->
            /\ stage' = "merge"
            /\ Resolve(UNION {snapshot_facts(s) : s \in LoadedSet},
                       [i \in {s.id : s \in LoadedSet} |->
                          record(CHOOSE s \in LoadedSet : s.id = i)],
                       category_scopes(LoadedSet))
            /\ UNCHANGED <<current, state>>
  /\ UNCHANGED <<configured, next, loaded, notes, lost>>

\* Mutant: what a capture emits by default.
FinishMerge_default ==
  /\ stage = "merge" /\ pc = "done"
  /\ current' = carry_over(build(CaptureEmit, in.sources))
  /\ stage' = "age"
  /\ UNCHANGED <<engine, configured, next, loaded, notes, lost, state>>

\* Every category with a resolution is emitted.
FinishMerge ==
  /\ stage = "merge" /\ pc = "done"
  /\ current' = carry_over(build({p[1] : p \in DOMAIN pending}, in.sources))
  /\ stage' = "age"
  /\ UNCHANGED <<engine, configured, next, loaded, notes, lost, state>>

Age ==
  /\ stage = "age"
  /\ current' = demote_stale(current)
  /\ stage' = "report"
  /\ UNCHANGED <<engine, configured, next, loaded, notes, lost, state>>

\* drift.drift_verdicts, from_snapshot, and the notes of every step.
Reconcile ==
  /\ stage = "report"
  /\ state' = [reconciled |-> TRUE, view |-> current,
               notes |-> notes \cup {<<"staleness", i>> : i \in stale_sources(current)}]
  /\ stage' = "ended"
  /\ UNCHANGED <<engine, configured, next, loaded, notes, lost, current>>

\* A step raises: one provenance note, and the first loaded source comes back
\* as it was loaded; if even that raises, no state at all.
StepRaises ==
  /\ stage \in {"merge", "age", "report"}
  /\ \E view \in {loaded[1], Nothing} :
       state' = [reconciled |-> FALSE, notes |-> notes \cup {StepFailed}, view |-> view]
  /\ stage' = "ended"
  /\ UNCHANGED <<engine, configured, next, loaded, notes, lost, current>>

Merging ==
  /\ stage \in {"capture", "merge"}
  /\ Next
  /\ UNCHANGED pipeline

LoadNext ==
  \/ LoadSnapshot
  \/ StartCapture
  \/ FinishCapture
  \/ CaptureRaises
  \/ Assemble
  \/ Merging
  \/ FinishMerge
  \/ Age
  \/ Reconcile
  \/ StepRaises

LoadSpec == LoadInit /\ [][LoadNext]_<<pipeline, engine>>

-----------------------------------------------------------------------------
(* Properties.                                                             *)

Ended      == stage = "ended"
Reconciled == Ended /\ state.reconciled
View       == state.view
TerraformIn(s) == Kinds(s) \cap TerraformSources # {}

KeepsRows(rows) ==
  LET At(s, p) == {s.rows[q] : q \in {r \in DOMAIN s.rows :
                     r[1] = p[1] /\ Canonical(r[2]) = p[2]}}
  IN  IF Len(loaded) = 1 THEN rows = loaded[1].rows
      ELSE /\ \A s \in LoadedSet : \A p \in DOMAIN s.rows :
                \/ <<p[1], Canonical(p[2])>> \in DOMAIN rows
                \/ /\ p[1] \in FlatCategories
                   /\ fidelity_rank[fidelity(s)] < fidelity_rank["tfstate"]
           /\ \A p \in DOMAIN rows :
                LET stated == UNION {At(s, p) : s \in LoadedSet}
                IN  /\ stated # {}
                    /\ p[1] \in TableCategories =>
                         \A n \in Fields : \E r \in stated : rows[p][n] = r[n]

\* One source is the identity path.  A merged view holds every row of every
\* source, and no other: what a source knows by a key is there under its
\* canonical key, and every field of a merged row is a field some source
\* states for that key.  The one name left out is a flat one that nothing
\* stronger than configuration mentions.
RowsSurvive == Reconciled => KeepsRows(View.rows)

\* What a source claims of a category it knows: its ledger's word for it, or,
\* of rows the ledger is silent about, the weakest word of its own sources.
Claim(s, c) ==
  IF c \in DOMAIN s.categories THEN s.categories[c].scope
  ELSE IF \E p \in DOMAIN s.rows : p[1] = c THEN declared_scope(s) ELSE "uncaptured"

InventsNoAbsence(view) ==
  \A c \in DOMAIN view.categories \cap Categories :
    /\ require_complete(view.categories[c]) = "" =>
         Len(loaded) = 1 /\ require_complete(loaded[1].categories[c]) = ""
    /\ view.categories[c].scope = "complete" =>
         /\ \E s \in LoadedSet : Claim(s, c) = "complete"
         /\ Len(loaded) > 1 => \A s \in LoadedSet :
               (\E p \in DOMAIN s.rows : p[1] = c) => ~TerraformIn(s)
    /\ \A s \in LoadedSet :
         /\ s.old /\ DOMAIN s.sources # {} /\ (\A i \in DOMAIN s.sources : s.sources[i].old)
         /\ \E p \in DOMAIN s.rows : p[1] = c
         => view.categories[c].scope = "uncaptured"

\* Reconciling never creates the right to conclude an absence.  More than one
\* source licenses none of the categories facts speak for; complete needs a
\* source that claims to be complete there and, of several, no terraform
\* artifact behind one that has rows; nor do rows from a source past the
\* ceiling leave anything but uncaptured, even where fresher sources won them
\* all.
AbsenceIsNeverInvented == Reconciled => InventsNoAbsence(View)
=============================================================================
