# Verification of gcp-policy-grounding

`gcp_grounding` judges a proposed change to a Google Cloud policy (an IAM
policy, a firewall rule, a terraform plan, ...) against what is known of the
estate: a frozen snapshot, terraform artifacts, compiled security
requirements. It is an offline command line program and an edit hook. Its
answer is a list of verdicts, each *grounded* (shown right), *contradicted*
(shown wrong), *ungrounded* (names something that provably does not exist) or
*unverified* (not decided), and it blocks a change when some verdict is
contradicted or ungrounded.

The whole program turns on one distinction: **what a source does not contain is
evidence only if the source says it enumerated everything.** A terraform state
file names what terraform manages, a snapshot what its capture could see. Read
a partial enumeration as a complete one, and the tool either blocks a correct
change ("this network does not exist") or passes a wrong one ("no rule anywhere
allows this"). Sources are also old, damaged, half written and in disagreement.
The modules here follow a coverage claim from the file it is written to,
through the merge of several sources, to the verdict that rests on it.

There are no threads. What makes the program hard is order (of sources, of
declarations, of stages, of levels of a hierarchy), partial failure (every
stage isolates its exceptions and goes on), files that other processes and
people write between two reads, claims that outlive the facts they were made
about, and questions nobody offline can answer, which must stay undecided.

## The parts of the system

| part | source | state it keeps | module |
|---|---|---|---|
| coverage lattice, ledger | `provenance.py` | the ledger: declared sources, coverage per category, origin and taint per fact, losing alternates | `Provenance`, `Ledger` |
| capture store | `cli.py`, `estate.py`, `sources.py`, `fetch.py` (their writes and reads) | a snapshot file and its sidecar ledger | `Sidecar` |
| merge engine | `merge.py`, with `compare.py` | the resolutions under construction, disputes, withheld names | `Merge` |
| current state | `sources.py`, `estate.build`, `freshness.py` | loaded sources, the merged view, notes | `CurrentState` |
| engine and baseline | `engine.py`, `baseline.py`, `core/report.py` | the report, the entries compared | `Engine` |
| preflight, checks' registry, read sets, drift adjudication | `preflight.py`, `registry.py`, `reconciled.py`, `drift.py`, `evidence.py`, with `reasoner.ground_existence` and the frame of `sec_rules.py` | the evidence ledger and read set of the running check, the report | `Checks` |
| edit gate and batch runner | `gate.py`, `bash_mutation.py` | the state discovered per directory, the notes due, the results of a call | `Gate`, `Batch` (abstract), `Shell` |
| command line and hook | `cli.py` | none beyond one run's stages | `Hook` |
| requirements compiler | `sec_*.py` | the documents, the compiled artifacts | `Compile`, `Rules` |
| cloud capture | `fetch.py` | the snapshot being assembled, the provider dump kept from earlier captures | `Fetch` |
| organisation policy, hierarchy | `org_effective.py`, `org_checks.py`, `hierarchy.py`, `core/datalog.py` | none | `Hierarchy`, `OrgPolicy` |
| firewalls | `packet.py`, `fw_*.py`, `hfw_*.py` | none | `Firewall`, `HierFirewall` |
| IAM, deny policies, perimeters | `iam_*.py`, `constraints.py`, `vpcsc_*.py` | none | `IAM`, `Escalation`, `Deny`, `Perimeter` |
| comparison of two views | `compare.py` | none | `Comparison` |
| terraform readers | `tfsource/plan.py`, `state.py`, `discover.py` | none | `Terraform` |
| terraform mappers and HCL, Cloud Armor, provider schemas | `tfsource/map_*.py`, `hcl*.py`, `armor_*.py`, `provider_schema.py`, `tf_schema_checks.py` | none | not modelled |
| parsing, discovery, redaction, logging | `knowledge.py`, `facts.py`, `identity.py`, `discovery.py`, `redact.py`, `core/log.py` | none | not modelled |

How they interact: a capture program writes a snapshot and a ledger
(`Sidecar`); the ledger was assembled by a `LedgerBuilder` the readers call
(`Ledger`). A judging run loads every configured snapshot and terraform
directory (`CurrentState`), turns their rows into facts, hands them to the one
merge (`Merge`), and gets back rows, disputes and coverage; it ages that view
and gives it to `engine.evaluate` (`Engine`), which runs the proposal's checks,
finds each target's counterpart in the view, compares, asks the sources that
disagree, runs the compiled rules and reports. `Provenance` holds the orders
and predicates all of them share. Around this, the gate judges many files in
one call (`Gate`), the command line and the hook one (`Hook`); the compiler
turns requirements into the rules the engine runs (`Compile`, `Rules`), and the
capture fills the snapshot (`Fetch`). Inside it the checks are functions of a
document and an estate, each a module of its own.

For each part, what makes it correct:

- *ledger*: a licence to read an absence as non-existence is earned by
  everything that was said about the category, in whatever order, and never
  comes back once refused.
- *capture store*: a capture of two files that nothing disturbs leaves a
  matching pair, and a lost or damaged ledger lends its table no coverage. (What
  lies beside a snapshot between the two writes is open, see below.)
- *merge*: every fact ends in exactly one place; precedence chooses a value and
  hides no disagreement; nothing proposed becomes current state; terraform
  proves no absence.
- *current state*: every row survives; the merged view claims no coverage nobody
  claimed, and trusts nothing old.
- *engine*: nobody is blocked or passed on the word of a source that did not
  see everything; every target and every disagreeing source is heard; a stage
  that raises takes no finding with it.
- *checks*: an answer is judged by what the check that gave it really read and
  counted, no more and no less; no pass survives doubt, no finding is lost to
  it, and a name is called a hallucination only when its absence is proved.
- *gate, hook*: a clean answer means every file was judged by the estate as it
  is; the program's own trouble never passes and never blocks in the place of a
  finding.
- *compiler*: what is enforced was admitted, whoever edited, killed or answered
  late in between, short of a forgery that leaves nothing to disagree; compiling
  again changes nothing.
- *capture*: what a table leaves out is absent from the estate, or nameless in
  it, or the table says that it is not whole.
- *each check*: its verdict means what it says of packets, grants, requests or
  rows, and what cannot be decided is not.

## The modules

Every definition that models code names its lines in `PROJECT.json`. A
definition whose comment begins with "Mutant:" is a plausible bug in the one
that follows it; no specification uses it.

**`Provenance`** has no state. `Scopes` and `Taints` with their ranks,
`compose_scope` over a set of contributions (the strongest scope, demoted to
partial when captured contributors name different boundaries),
`CategoryScope` (the caps that the constructor applies: terraform never above
partial, a drop never above partial, nothing emitted is uncaptured, the licence
narrowed to what is left), `require_complete`.

**`Ledger`**: one action per `LedgerBuilder` method. `entry` is `_categories`,
`facts`, `alternates` and `sources` their namesakes, `ledger` the last
`SourceLedger` built. The builder survives `build()`, so calls and builds
interleave freely. A declaration that claims a category complete also emits
something of it (`ClaimsWhatItEmits`), as those of every reader do. `log` and
`built` are history for the properties only.

**`Sidecar`**: processes that capture to one path (`BeginCapture`, `OpenSnapshot`,
`WriteSnapshot`, `MakeTemp`, `ReplaceSidecar`, `PlaceSidecar`), any of whose
steps can fail (`Abort`) or be the last (`Crash`), and `load_source` as a
reader whose steps interleave with theirs. Three programs write: a terraform
capture and a reconciled one write both files, the cloud fetch the snapshot
alone. A file's content is the identity of the capture that wrote it, `Absent`
or `Broken`. Anybody may lose or damage the ledger at any moment (`LoseSidecar`,
`DamageSidecar`). `alone` and `touched` are history: the last capture met no
other, and its ledger was left as it was written.

**`Merge`**: `_Merger.run`, one action per numbered step of `merge.py`. A
record is a function from fields to sets of items, `Missing` or `Marker` (an
attribute that was never resolved). `ResolveTable` is one key's steps 4 to 7:
assemble a record per source, order the sources by the policy, backfill the
winner's unresolved fields, compare with each loser. Key canonicalisation is a
given map. Two values are in dispute only by items of one `slot` that differ;
an item that one of them alone has is none. Notes and list order are left out.

**`CurrentState`** extends `Merge`: `load_current` loads source after source,
runs the merge's own actions (`Merging`) inside a terraform capture and inside
the merge of two or more sources, builds a view (`build`, `carry_over`), ages
it (`demote_stale`) and returns; any step may raise (`Fails`, `CaptureRaises`,
`StepRaises`).

**`Engine`**: `evaluate`, one action per stage or per iteration of a stage's
loop, over an arbitrary input: rows of the current state with the documents the
sources hold of them. What a document says is the set of statuses the pair
check answers when the proposal is compared with it; checks are thereby
arbitrary. `status`, `chosen`, `entry_scope`, `soundness` are
`baseline.resolve`, `_entry_scope` and `_apply_baseline_soundness`. Any source
may have won a row: its document is then compared under the name of the one of
highest fidelity, as in the code (`TurnedRound`). A configuration names every
resource of its module, changed or not, and only what it changes is asked about
(`scoped`, the diff scope).
`StageRaises` may fire between any two steps.

**`Checks`**: `ground_policy` over one document (the proposal's checks that
`Engine` takes as given), a sequence of tasks in the order of the code's tiers:
names (`GroundExistence`), claims, the document's checks, the pair check,
compiled rules. A registered check is arbitrary code, so it is modelled as
arbitrary: from `Open` on it reads by key (`ReadKey`), sweeps a table
(`Sweep`), counts rows (`Examine`), says why emptiness decides (`Attest`), in
any order, and ends by `Return` or `Raise`. `tap` and `led` are what the code
records of that (`reconciled.reads`, `evidence.ledger`); `work` and `evidence`
are history, what the check really did. `judged` is the code's chain: drift
adjudication, then the evidence floor, then a document check's completeness
gate. `ClaimTail` is what `ground_policy` adds after a claim's checks,
`Postpass` the re-grading of the finished report. `WellFormed` states what the
callers guarantee and the properties need: a category the merge licensed to
prove an absence holds no row in question (`estate.build` licenses only
vocabularies carried over whole, or a single unmerged capture); tables are swept
only by a document's checks and by rules (the pair check for deny policies,
which also sweeps, asks `require_complete` itself and is not among the checks
modelled); a check registered for a category sweeps no other; a check whose
evidence is outside the estate reads nothing of it.

**`Gate`**: one call of the gate after another over a sequence of paths, one
action per branch of the loop: a duplicate, a state file, a file that is no
policy, one with no proposal, and the stages of grading one (find or load the
view of its directory, attach the notes due, evaluate, downgrade). `Crash` may
fire in any stage of a file, `Disturb` changes a directory's estate between any
two steps. A state the caller supplies has notes of its own (`setup.own`), which
`Inherited` loses when the construction left others. **`Batch`** says what a
batch runner promises whatever it judges; `Gate` implements it under the mapping
`BatchRunner`. **`Shell`** is the classification of a shell command: segments,
quotes, wrappers, the verb of a cloud command line, the method of an HTTP client.

**`Hook`**: one run of `verify-policy` or of the hook, one action per stage of
`cli.py`; every stage may end the run, and with which code is `Usage` (fail
open for the hook, fail closed for the command). Requirements are none,
unreadable, about the document or about the estate; over an estate past its
ceiling the last decide nothing (`Forbids`), and even a name that is there is
found there only where a state is configured. `EditFile` and `CaptureEstate`
write the document and the snapshot between any two stages, which read them
more than once.

**`Compile`**: people edit, tamper, forge and annotate (`Edit`, `Tamper`,
`Forge`, `Annotate`, `Ask`, `SaveAnnotated`: the language model answers anything, late or not at
all), a compile goes document by document (`Parse`, `CheckDocument`, `Assemble`,
`OpenTmp`, `ReplaceArtifact`, ...) and may be killed in any step. `LoadRules` is
what the loader would enforce at that moment. The solver's models are
arbitrary, and it may give up. `Tamper` edits one of the fields of a committed
promise that have to agree, `Forge` leaves nothing to disagree: another
identifier, a formula with its rendering, or the status of one that did not
compile. Whether old witnesses fit a new formula (`Fits`) is arbitrary.

**`Fetch`**: a capture reads category after category and walks the hierarchy
one call at a time (`WalkFolders`, `WalkProjects`), any call may fail (`Fail`),
an entry of a listing may lack its name and is passed over, and `Change` moves
nodes and rewrites tables in between. The provider dump is
cached from one capture to the next and the process may die in its write.

The checks keep nothing between two documents. Their modules share one variable
(**`Asking`**): a question put to a check, together with its answer. The
algorithm is a set of operators translated from the code; beside it stands a
definition of what the answer means that does not use it. **`Questions`** puts
those that theorems are proved about side by side, as `AskSpec`: any question to
any of them; `Rules`, `IAM` and `Comparison` stand beside it in `MCAlgorithms`.
A list whose order matters is a sequence or a function of the positions, and
what the code does to one in passing (sort, drop, overlay) a fold or a set of
positions, never a recursive operator; that is what lets the provers follow it.

- **`Firewall`**, **`HierFirewall`**: a formula over packets is the set of
  packets that satisfy it. Exposure, pairs, shadowing; placement of a proposed
  rule among the policies above a project and its three findings; `Unattached`
  and `Misplaced` are the proposals that cannot be placed. The meaning:
  walk the levels and the rules of each for every packet.
- **`Hierarchy`**: the ancestor walk and the Datalog fixpoint, `Round` by
  `Round`, over every table of three nodes, cyclic ones included.
- **`OrgPolicy`**: the folds of boolean and list constraints along a chain, the
  rows of a proposal, disablement and widening against the record of the policy
  before or a baseline document of it (`Prior`). The meaning: whether a boolean
  constraint is in force at a node, and which values may be used there.
- **`Terraform`**: a world (what exists, what is planned) is written as a plan
  and as a state file, spoiled or not, and read back. The things of a world, live
  objects and old generations, are written in any order (`world.order`), and an
  unknown attribute of the plan is overlaid on what is known (`Overlay`). The
  meaning: the world.
- **`Deny`**: three-valued coverage of members and permissions, masked grants,
  grants that wake. The meaning: who may do what in every world that settles
  the undecided questions.
- **`Perimeter`**: protection and widening, axis by axis; what a perimeter
  *lists* counts as protected, as in the code. The meaning: the requests a
  perimeter lets through.
- **`Rules`**: extractors to rows, of a document and of a plan, a promise ground
  over the rows, the verdict.
  The meaning: the promise about the documents' own rules and bindings.
- **`Escalation`**: who gets a role that can escalate, and whether a rule of a
  deny policy denies what it allows. The meaning: the bindings and the captured
  permissions.
- **`IAM`**: the recursive-descent reader of conditions, the subset check and
  swapped roles. The meaning: the worlds in which a member
  holds a role, and the conditions read by their outermost operator.
- **`Comparison`**: normal forms, alignment and differences of two views. The
  meaning: what a view says of the estate, read off its fields.

## What is checked

| run | instance | states |
|---|---|---|
| `ledger` | one category, one key, one source; declarations within boundaries "", A, B, of terraform kind, tainted, withheld, empty; one drop | 172,241 |
| `sidecar` | two writers, two captures, one reader, sidecar lost or damaged | 776,784 |
| `merge` | an API source, two state files, configuration; up to three facts of a pool, every precedence mode, several coverage claims | 593,088 |
| `current_state` | up to three sources out of two API captures, two vocabularies, a state capture (old or not), one that says nothing, an anonymous ledger, configuration, a terraform directory, in every order of two; a name that canonicalises and one that is ambiguous | 88,964 |
| `engine` | a row that two or three sources dispute, every answer each can give, any of them its winner; two targets resolved nine ways each; a configuration of two rows that differ, do not, or nobody knows; every tier switched off; complete, bounded, partial, holed and aged coverage | 2,839,048 |
| `checks` | one check of each tier over views in question in one way each, two names of one category, two or three tasks in a row | 227,519 |
| `gate` | four files in two directories, one named twice; no state, a missing and a discovered one, a given one with notes of its own or of the construction; two calls, one change of the estate | 547,364 |
| `hook` | every kind of event and file, six shell commands, every setting, kind of requirement and kind of trouble; one edit, one capture | 98,095 |
| `compile` | two documents that can share an identifier, a tautology, a conflict, witnesses that fit another formula; two compiles, one edit or forgery, one kill | 1,541,516 |
| `fetch` | three folders and a project in five trees, one deeper than the walk, any entry of which may be nameless; five selections of categories; two changes | 575,172 |
| `algorithms` | every question of the fourteen properties below, over small documents and estates | 591,822 |
| `plan_rules` | promises over plans; ends in a violation, see below | |

Each property of a passing run has a mutant of the code that breaks it under
the same configuration: `PROJECT.json` pairs them.

What the properties say, by the trouble they are about:

- *absence as evidence*: `LicenceEarned`, `RefusalSticks`,
  `OwnClaimOrNone`, `AbsenceIsNeverInvented`, `UngroundedIsProven`,
  `NothingDecidedOnNothing`, `HierarchyIsWhole`;
- *nobody's word is lost or borrowed*: `Accounted`, `DisagreementIsReported`,
  `RowsSurvive`, `EveryAnswerIsHeard`, `FindingsStick`, `FindingsStand`,
  `NoPhantomBlock`, `NoUnearnedPass`, `NoPassOnDisputedRow`;
- *the file, the snapshot or the estate changes meanwhile*:
  `SettledPairMatches`, `OneEstatePerCall`, `EvidenceIsAsStamped`,
  `DerivedAgree`, `EnforcedIsAdmitted`;
- *failure*: `QuietMeansClean`, `ImplementsBatch`, `TroubleNeverDecides`,
  `CommittedIsStable`;
- *the algorithms*: `PairIsTrue`, `ShadowIsTrue`,
  `HierarchyIsTrue`, `ClosureIsTheWalk`, `OrgRowsAreTrue`, `NarrowingIsTrue`,
  `SourceIsTheEstate`, `ReviewIsTheChange`, `DenyIsTrue`, `PerimeterIsTrue`,
  `RuleIsTrue`, `ChangeIsTrue`, `EscalationIsTrue`, `ComparisonIsTrue`.

*Why the bounds are enough.* Coverage composes by maximum and by "all equal",
so what three contributors with two named boundaries and the empty one can do,
more cannot add to; a category neither reads nor writes another's entry, so one
suffices in `Ledger`. In `Sidecar` a third writer can only repeat what the
second does to the first, since a capture's two files are each written once.
In `Merge` keys are resolved independently except for `KeyMismatch`, which
compares two sources' key sets of size two; the pool covers each kind of fact.
In `CurrentState` three sources are enough for a carried vocabulary to be a
different source's than the primary's. In `Engine` entries meet only in
`KeyMismatch` (two suffice) and `primary`; three sources are a winner, the one an
entry names and one that is neither. In `Checks` tasks meet only in the
report; two steps (`MaxWork`) are enough to read a clean row beside a doubtful
one, to read and count, and to count and attest. In `Gate` files meet in the
cache of a directory and in the notes due, for which two files of one directory
and one of another suffice, and calls only in what the first leaves behind.
`Hook` reads each file at most three times, so one change falls between any two
readings. In `Compile` documents meet by a shared identifier or a conflict, and
a kill leaves at most one temporary file. In `Fetch` a third change can only
repeat what the first did to a later part of the walk. In the checks two rules
of equal priority, three levels, two values of each class and one odd member of
each kind are enough for every branch of the operators to be taken; rules
compare pairwise, and levels fold one by one.

*Symmetry* is not used: sources, paths and keys are ordered by the code.

*Fairness.* `Gate` is one thread that nothing suspends while its caller waits:
under weak fairness of its own steps (never of the people and processes that
disturb it) it closes each call (`ImplementsBatch`, whose specification is
fair). The other specifications make no fairness assumption, since a process may
be killed at any point; that a hook ends is not stated, because what it could
wait for, its input and the solver, is not modelled.

*Deadlock* is checked for `Ledger` and `Sidecar`; the others end and their
configurations say so.

## What is proved

For every value of the constants (every set of categories, boundaries,
declarations; every well-formed input), by the TLA+ proof system:

- `Provenance_proof` proves the lattice lemmas: the strongest scope of a
  non-empty set exists, composing with partial yields at most partial, taints
  compose within the order.
- `Coverage_proof`, of the ledger: `TypeCorrect`, `LicenceIsEarned`, `RefusalsStick`.
  `LicenceEarned` is about the ledger last built and the calls made before, so
  it is not inductive. The invariant `IInv` adds *EntryRemembers* (each
  accumulated entry is at least as doubtful as every declaration in the log:
  its taint no weaker, its kinds a superset, its licence no wider, its scope
  complete only if someone said so) and *LedgerLags* (what was built was built
  from an entry that has only grown more doubtful since).
- `Capture_proof` is about `Sidecar` and `Fetch`.
  `PairMatches` rests on *Undisturbed*: a capture that runs alone is the only one
  at work, and the files are as far along as it is; once it is over they are a
  pair. `LossLendsNothing` rests on *NothingStale*: beside the snapshot of a
  capture that ran alone lies its own ledger, a damaged one or none, whatever is
  lost and whoever reads meanwhile; and on *CalmReader*, that such a reader holds
  the snapshot that is still on disk. `HierarchyIsCaptured`
  and `DerivedTablesAgree` rest on an invariant of the walk: what is listed is
  reached from the root through what is listed, what waits to be expanded is in
  it, and while nothing changed and nothing was nameless every expanded node's
  children are there.
  That a finished walk of an unchanged tree has found *all* of it needs the
  assumption that the tree hangs together under its root (`Rooted`).
- `CurrentState_proof`: `NothingEvaporates` and `DisagreementsSurface` of every
  call of the merge; `RowsAreKept` and `AbsenceStaysEarned` of the whole load, in
  which that merge is called twice. `Accounted` speaks of the end, so the
  invariant `EngineInv` follows each fact: *Partitioned* (a fact is waiting,
  dropped, or in one group), *Grouped*, *Resolved* and *Reported* (what each
  resolution has been given so far, and the dispute that is written with it),
  *Scoped* (a category's scope is composed of the claims of those who have it).
  `LoadInv` adds for each stage of the load what the merge was called with
  (*Staged*) and that the sources that loaded are the configured ones in order
  (*Placed*). That a merge keeps rows is used inside the load as a lemma, not
  assumed.
- `Coverage_proof`, of the engine that relies on such claims: `EngineTypeCorrect`
  and `EngineFindingsStick`, `BlocksAreEarned`, `PassesAreEarned` and
  `AnswersAreHeard` for every input and every pattern of stages that raise. The
  invariant `EarnedInv` says of
  each pair verdict already in the report that it is what `soundness` leaves of
  the answer under the scope of the source it speaks for, and that after the
  downgrade nothing is clean. `HeardInv` says what the loops have done so far:
  the targets before the index have their answer in the report, and so have the
  sources before the inner one, and a stage that raised has left a note. Where a
  policy gave a row to a source of lower fidelity than the entry names, the scope
  that grades the comparison is one source's and the document another's. The
  properties say what is left then (`Vouched`, `Borrowed`): a finding stands on
  the claim of the source named, and where the row is disputed never without the
  report saying that the winner, asked by itself, answers otherwise.
- `Checks_proof`: `ChecksTypeCorrect`, `PassesAreClean`,
  `DecisionsRestOnEvidence`, `FindingsAlwaysStand`, `HallucinationsAreProven`,
  for any number of tasks, tables, names and disputes and for checks of any
  length. The properties speak of the report, whose verdicts were given when the
  check that earned them was already forgotten, so the invariant `ChecksInv`
  ties each to its evidence. *LedgerCounts* and *TapCovers* hold inside a check:
  the ledger is what it counted, and the read set holds every key and table it
  read, except single rows of a swept table. *ReportSound* is what the
  judgements leave of that in each verdict; *Regraded* that the post-pass has
  nothing left to do once it ran. `PassIsClean` is the heart of it: for what
  was noted, adjudication sees the doubt; for a swept row only the completeness
  gate does, and it suffices because a licensed category has no such row.
- `Questions_proof`, of the answers of the checks, for every document, estate and
  order of lists (eleven theorems of `AskSpec`). Each has the same frame: a
  question is answered when it is put, so the invariant is the property itself
  and *QuestionIsRead*, that the question is one the program can be asked (the
  closure's, `ClosureInv`, says what a set of facts is between two rounds:
  nothing in it is false and every parent is there, *RoundIsSound*), and the work
  is to show that the algorithm says what the meaning says. The meanings walk,
  order and decide; the algorithms fold. What a fold over a
  sequence returns cannot be proved by induction here, so each lemma about one
  takes the *least* position at which it would be wrong, which exists by
  the well-foundedness of the naturals or of proper subsets, and finds an
  earlier one.
  - `ShadowingIsRight`, `PairsAreRight`: the rules of a network are ranked by
    priority, denials first among equals (*Ranking*, *OrderIs*); the first that
    matches decides (*FirstDecides*), and the formula folded from the lowest rank
    up is the set of packets it decides to allow (*FoldIsNetwork*).
  - `HierarchiesAreRight`: the same with levels in place of networks and a
    third action that passes a packet on (*FirstSays*, *DecideIs*, *EffectiveIs*);
    what is proposed replaces what is held (*PlaceIs*), and each of the three
    findings is read off the two sets of packets before and after.
  - `ClosureIsRight`, and the lemmas on the walk that the hierarchies, deny
    policies and organisation policies cite: a walk prepends one
    ancestor at a time until it stops or would repeat itself (*Prepended*,
    *OutwardWalks*), so it is the iteration of the parent (*Iterates*,
    *WalksAgree*), and the facts of an exhausted Datalog are its nodes.
  - `RowsAreRight`: the fold of a node's policy depends on the parent's
    state only through what is *in force* (*AlikeIsTransitive*, *FoldKeepsAlike*,
    *NextInForce*), so a document each of whose policies changes nothing on its
    own changes nothing together (*InertIsInert*); a boolean constraint is in
    force where the nearest policy that says so enforces it. `NarrowingIsRight`
    grades rule by rule, against a record or a baseline document.
  - `DeniesAreRight`: three-valued coverage is sound in both directions, for
    members, permissions and resources (*MembershipIsSound*, *CoverageIsSound*,
    *PairIsSound*), in every world that settles what is open.
  - `PerimetersAreRight`: a perimeter permits a request axis by axis
    (*AxesPermit*, *PoliciesPermit*); `EscalationsAreRight`: every binding's
    members are claimed at its own place (*RoleClaimed*, *MembersClaimed*).
  - `SourcesAreRight`, `ReviewsAreRight`: reading what was written gives back the
    object, its unknown attributes apart (*KnownObjectIs*, *PlannedObjectIs*); of
    several entries of one address the live one speaks, wherever it stands
    (*ByAddressIs*, *WrittenIs*, *ChangeSpeaks*); a spoiled file is read as one
    of these or not at all (*ArtifactsAre*).
- `Frontend_proof` is about `Gate` and `Hook`. `OneEstate`
  and `QuietIsClean` rest on `GateInv`: a view loaded in this call is no older than
  the call, and a file graded with a state has the version of the view its
  directory has (*Fresh*); a loud note is never between two places, it waits with
  the run, is in the report in hand, or the run has answered for it
  (*Delivered*). `GateImplementsBatch` says that every step of the gate is a step
  of `Batch` or leaves it alone; it needs that a file is being graded only if it
  was not answered before (*Unanswered*). `TroubleIsNoVerdict` and
  `StampIsTrue`: `HookInv` says what each stage of a run has settled by then
  (*Standing*), that the snapshot graded against is no older than the one loaded
  first (*Versions*), and that a name was found or missed only in one within its
  ceiling (*Dated*).
- `Compile_proof`: `OnlyAdmittedIsEnforced` and `CompilingIsIdempotent`.
  `EnforcedIsAdmitted` speaks of artifacts that somebody may have edited, so the
  invariant `AdmissionInv` cannot say that a committed promise was admitted; it
  says of its *origin*, its name and the formula and mode its witnesses were
  minted for, that it was admitted or forged. An edit of the formula or the mode
  leaves the origin alone; `AdmissionInv` follows a block from the document
  through the candidate to there. `CommittedIsStable` is about
  two compiles, the second of which begins with the artifact the first left;
  the heart is `Stability`: judged again with the first judgement as the
  previous artifact, whatever a conflict or the review made of its status, a
  candidate is given the same witnesses and so the same promise. Two candidates
  of one identifier would break it, and a document with two is never written.
  `StabilityInv` carries that through writes, kills, edits and the check: a
  document that is not pending in an undisturbed compile *stands*, its artifact
  being what a compile that never gave up makes of its text. The library's
  induction theorems are out of reach, so that the first pending position
  exists is drawn from the well-foundedness of the naturals.

The assumptions are `LedgerAssumption` (which includes that who claims a
category complete emits something of it), `EngineAssumption`, `MergeAssumption`,
`CompileAssumption` (the constants are of the types the code builds),
`ChecksAssumption` (the inputs are `WellFormed`), `FetchAssumption` (the trees
the estate moves through hang together under the organisation) and
`ConfigurationAssumption` (what a snapshot, a ledger and a directory of artifacts
may hold; no path is configured twice, and no source is of the test-only kind
`fixture`). The checks' questions have
`FirewallAssumption` (documents are what the reader makes of a rule, no two rules
of one network have a name in common), `HierarchyAssumption` (a table is finite; it
may be cyclic or have holes), `HierFirewallAssumption` (a VPC rule passes nothing
on), `OrgAssumption`, `DenyAssumption` and `PerimeterAssumption` (the documents are
of the forms read), `EscalationAssumption` (the bindings of a document have
places of their own) and `TerraformAssumption` (what Terraform writes: what exists
is known, a live object of every address has a place in the order, a file is
as written or spoiled in one of six ways). TLC evaluates each of them in the runs. The strengthened invariants
that can be evaluated were checked by TLC on the runs' instances before they were
proved.

Only model-checked:

- `ChangeIsTrue` (`IAM`) and `ComparisonIsTrue` (`Comparison`): a condition is an
  expression of any depth and two views are aligned list within list. Both the
  algorithm and the meaning are recursive operators, of which the prover can
  show nothing without induction over data.
- `RuleIsTrue` (`Rules`): it is true of the promises the run asks, and not of all.
  A promise over the *text* of the condition of an allow policy's grant is decided
  on a text nobody read where the condition is there and unreadable (see below),
  and a theorem would have to leave such promises out.
- the fair half of `ImplementsBatch`, whose steps are proved: liveness, which
  the prover does not reach.
- `PlanIsReadWhole` is false, and the run `plan_rules` shows it.

## Where the code and its words part

`plan_rules` ends in a violation, with the sentences of the repository it
contradicts in `PROJECT.json`: a plan whose module holds a grant or a deny
policy nobody can read, or whose policy holds a rule nobody can read beside one
that was read, is called clean by a promise over all grants, denials or rules.

Seen while modelling, and modelled as the code has it, without a run:

- *ledger*: re-declaring a category folds contributions two at a
  time, so boundaries compose by order (`provenance.py:910`); a declaration that
  emitted nothing and called the category complete would lend its claim to
  another that emitted and claimed nothing (`provenance.py:910-920`), which
  neither caller makes (`estate.py:435`, `cli.py:2678`), hence
  `ClaimsWhatItEmits`;
- *capture store*: a damaged ledger
  leaves a vocabulary-only snapshot complete (`sources.py:411`, against
  `provenance.py:629-632`); a terraform capture killed between its two writes,
  or a cloud fetch over a reconciled capture, leaves the new snapshot beside the
  previous ledger, whose "complete" is read as its own (`cli.py:2496`,
  `estate.py:666-668`, against `sources.py:82-84` and `provenance.py:784-786`),
  and so may two captures that overlap, since nothing takes a lock: no property
  covers this, `SettledPairMatches` and `OwnClaimOrNone` speak of the captures
  that were let finish;
- *capture*: an entry of a listing that lacks its name is passed over, its
  subtree with it, and the walk is not called truncated (`fetch.py:1096-1099`,
  `1116-1119`, against the docstring at `1058-1062`);
- *merge*: two sources that disagree by an element only one of them has (an
  owner more) are not in dispute (`merge.py:868`, against `merge.py:1`); a
  record carries no serial, so a superseded state file is trusted when merged
  (`sources.py:496`); a disagreement inside one source is lost when a second is
  configured; two captures complete within different projects merge into one
  that is complete within none;
- *comparison*: a member listed twice is a material difference for `compare`
  and none for `comparable`; and a `disabled` that is null or false, or a
  `layer4` that is null, is none for `compare` where the other view leaves the
  field out and makes two forms of `comparable`, which keeps it as false or as no
  ports (against `compare.py:639`, "a null field and an absent one are one
  state", and `507-509`);
- *current state and engine*: where precedence gave a row to terraform, the
  entry holds terraform's document under the API's name (`baseline.py:1380-1404`).
  Its finding is graded by the claim of the API, whose own record is compared
  neither as the entry's document nor as another source's (`engine.py:980`,
  against `merge.py:6-8`); a disputed row whose winner agrees with the proposal is
  outside the diff scope of a configuration, so the finding of a source that lost
  is not asked for (`baseline.py:1126-1127`); when a step raises, the first source
  comes back without being aged (`sources.py:1004`); ageing clears a boundary and with it the match
  that let a bounded capture's finding stand; two sources that give the same
  several answers are reported as disagreeing (`engine.py:1007`);
- *checks*: the post-pass re-examines only `ungrounded` verdicts, so a name that
  is *there* stays grounded when its row is in question (`drift.py:797`);
  adjudication does not see that a single swept row is disputed, and the
  completeness gate stops such a pass for documents only (`registry.py:525`); the
  downgrade of a finding every fact of which has a material existence dispute
  (rule 3, `drift.py:515-532`, `577`) never happens, because a read by key notes
  the table beside the row (`reconciled.py:228`, `386`) and no table has such a
  dispute: `FindingsStand` says what is left of it;
- *gate*: a supplied state's own loud notes are dropped when the construction
  resolved a snapshot that left others (`gate.py:770-774` and `1132`, against the
  comment at `1128-1131`), so a call can be quiet on such a state;
- *hook and command line*: of one snapshot past its ceiling a present name is
  undecided without a state and grounded with one (`reasoner.py:220`,
  `drift.py:797`, `freshness.py:500-518`);
- *compiler*: an identifier used in two documents raises an exception the
  command line does not catch (`sec_compile.py:323`, `cli.py:2824`); annotation
  writes over an edit made while the model was asked (`sec_llm.py:543`); some
  edits by hand of an artifact load without a note, against the repository's
  `README.md:1508-1513`: another identifier, a status turned to compiled with its
  reason cleared, and a formula and its rendering together where the old
  witnesses fit (`sec_rules.py:960-985`, `1036-1044`; `sec_artifact.py:262-290`);
- *IAM*: exceptions that are not a list yield no claim, and the denial beside
  them is called a block (`iam_checks.py:564`); a permission both denied and
  excepted, or denied under a condition, is called blocked; an unreadable role
  beside a readable one is passed over; a role that escalates by its name,
  captured without its permissions, is undecided even where it is public
  (`iam_checks.py:356`);
- *perimeters*: an operation's services and methods are compared as a cross
  product, which hides some widenings (`vpcsc_checks.py:430`); sources and
  access levels are no axis of the comparison; a bridge, or a perimeter whose
  type is left out, passes as protecting what it lists, though a bridge enforces
  nothing (`vpcsc_checks.py:22`, `267`, `270`);
- *organisation policies*: a rule that stops inheriting is never compared with
  the one before (`org_checks.py`); of a baseline document a rule nobody can read
  is left out, so a denial it held can be dropped unnoticed beside one that was
  read (`org_checks.py:190-193`);
- *promises*: the row of a rule with both source ranges and source tags reads
  as their conjunction, while either matches; a REST flag spelled "FALSE" reads
  as true; a condition of an allow policy that is there and cannot be read is
  recorded as the empty text (`sec_rules.py:725`), where the reader of a deny
  policy leaves the text out so that a promise about it abstains
  (`sec_domains.py:1525`).

## What is not modelled

- The field-by-field mappers of terraform (`map_network.py`, `map_policy.py`,
  `mapping.py`, `normalize.py`), the two HCL readers, `knowledge.py`,
  `facts.py`, `identity.py`, `discovery.py`: translations and look-ups without
  control of their own. Their outcomes enter as arbitrary records, losses and
  exceptions.
- Cloud Armor's checks and expressions, provider schemas:
  one field at a time, without order, history or undecided parts.
- In `Rules`, the extractors for armor policies, hierarchical rules, perimeters
  and role permissions, which repeat the shape of those modelled, and formulas
  with quantifiers over records of two collections.
- In `Terraform`, the refusal of a state file of another provider
  (`state.py:538-545`), what a plan marks unknown *before* the change
  (`plan.py:1011`), and nested mirrors. In `Deny`, grants a plan moves to another
  parent (`iam_deny_checks.py:1200`) and custom roles the same plan defines.
- In `Compile`, the artifact's `captured_at` (`sec_compile.py:327`), a constant
  here: recompiled against a later snapshot, an artifact does differ.
- What the hook waits for: its standard input and the solver.
- The solver and the language model are external: a three-valued answer, any
  text.
- Wording, logging, rendering, argument parsing; `explain_state.py` and
  `sec_evidence.py`, which render decisions; `drift_verdicts`, which lists what
  the merge disputed and cuts the list at fifty.

## The plan

1. Done: the modules above and the refinement of `Batch` by `Gate`.
2. Done: theorems for every safety property of the modules with a history, and
   for the checks whose algorithm and meaning are folds, walks or sets. Left: the
   three named above, which need a prover with induction over data.
3. The composition of `Checks` with the engine's proposal stage, and of `Fetch`
   with `Sidecar`.
