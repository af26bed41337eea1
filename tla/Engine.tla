------------------------------- MODULE Engine -------------------------------
(***************************************************************************)
(* engine.evaluate: one proposal against the current state and the rules.  *)
(* The stages run in order and add verdicts to one report; a stage that    *)
(* raises adds one verdict and the evaluation goes on without its result.  *)
(*                                                                         *)
(* baseline.resolve answers each target with an ENTRY (the counterpart the *)
(* merged state holds, the sources that describe it, how much to trust     *)
(* it); the pair check is run against the entry's document, and for a row  *)
(* the sources disagree about, once more against every other source's.     *)
(* What a source's document says is abstracted to the statuses the pair    *)
(* check answers when it compares the proposal with it.                    *)
(***************************************************************************)
EXTENDS Provenance, FiniteSets, Sequences

CONSTANT Inputs

Statuses == {"grounded", "ungrounded", "contradicted", "unverified"}

VARIABLES
  in,            \* the proposal, the state, the rules and the options:
                 \*   have_state, auto_baseline, pair_tier, block, unresolved
                 \*   claims    the statuses the proposal tier answers
                 \*   sources   the ledger's declared sources, by id
                 \*   tables    the categories of the ledger, by name
                 \*   rows      the targets of the proposal, in order
                 \*   configuration  it is a terraform configuration, no plan: it
                 \*             names every resource of its module, changed or not
                 \*   declares  the operator declared the row it is about
                 \*   rules     the compiled rules, in order
                 \*   carried   the compiler left verdicts of its own
  stage,
  derived,       \* the baseline stage produced a derivation
  projected,     \* the proposal was projected, resource by resource
  index,         \* the entry or rule the stage's loop is at
  pair_results,  \* the statuses reported for each entry compared
  pending,       \* the other sources still to be asked about this entry
  statuses,      \* the statuses reported for this entry so far
  report

engineVars == <<in, stage, derived, projected, index, pair_results, pending,
          statuses, report>>

\* A verdict: the stage that added it, the position of the entry it is about
\* and the source that answered (0: none), what it says, and its status.
Verdict(st, i, s, kind, status) ==
  [stage |-> st, entry |-> i, source |-> s, kind |-> kind, status |-> status]
Unverified(st, i, s, kind) == Verdict(st, i, s, kind, "unverified")

\* What evaluate is given: coverage claims and statuses are of the four, the
\* rows are a sequence, every row belongs to a table, and the sources that
\* describe it are declared.  Any of them may have won the merge: the mode of a
\* category may turn the order of fidelity round.
Category ==
  [scope : Scopes, boundary : STRING, taint : Taints, keys : Nat, dropped : Nat,
   source_kinds : SUBSET Sources, existence_licensed : BOOLEAN, emitted : BOOLEAN]

WellFormed(i) ==
  /\ i.claims \subseteq Statuses
  /\ \A n \in DOMAIN i.rules : i.rules[n].answer \in Statuses
  /\ DOMAIN i.sources \subseteq Nat
  /\ \A s \in DOMAIN i.sources :
       i.sources[s].kind \in Sources /\ i.sources[s].scope \in Scopes
  /\ \A t \in DOMAIN i.tables : i.tables[t].category \in Category
  /\ i.rows \in Seq({i.rows[n] : n \in DOMAIN i.rows})
  /\ \A n \in DOMAIN i.rows :
       /\ i.rows[n].table \in DOMAIN i.tables
       /\ i.rows[n].winner \in DOMAIN i.rows[n].records
       /\ DOMAIN i.rows[n].records \subseteq DOMAIN i.sources
       /\ \A s \in DOMAIN i.rows[n].records : i.rows[n].records[s].answer \subseteq Statuses
       /\ i.rows[n].differs \in {"yes", "no", "unknown"}
       /\ i.rows[n].declared => i.declares

ASSUME EngineAssumption == \A i \in Inputs : WellFormed(i)

-----------------------------------------------------------------------------
(* baseline.resolve: one row of the current state as an entry.  A row is   *)
(* [table, found, winner, records, disputes, taint, unresolved, empty,     *)
(* mode, differs, declared]: records holds the winner's document and every *)
(* alternate's, differs what comparing the proposed record with the merged *)
(* one answers.                                                            *)

\* freshness.demote_stale, for a category some stale source supplies.
demote_stale(c) ==
  [c EXCEPT !.scope = "uncaptured", !.boundary = "",
            !.taint = compose_taint(@, "stale"), !.existence_licensed = FALSE]

coverage_of(row) ==
  LET t == in.tables[row.table]
  IN  IF t.aged THEN demote_stale(t.category) ELSE t.category

taint_of(row) == IF row.taint # "" THEN row.taint ELSE coverage_of(row).taint

\* Candidates in order: by fidelity, the winner first among equals.
rank(s) == fidelity_rank[in.sources[s].kind]
Precedes(row, s, t) ==
  \/ rank(s) > rank(t)
  \/ /\ rank(s) = rank(t)
     /\ s = row.winner \/ (t # row.winner /\ s < t)
FirstOf(row, S) == CHOOSE s \in S : \A t \in S \ {s} : Precedes(row, s, t)

Candidates(row) == DOMAIN row.records
chosen(row)     == FirstOf(row, Candidates(row))
others(row)     == Candidates(row) \ {chosen(row)}

\* The entry's document is projected from the merged snapshot's record, which
\* is the winner's, while the source the entry names is the first candidate.
document(row)   == row.records[row.winner]
comparable(row) == row.found = "row" /\ document(row).form

conflicted(row) == taint_of(row) = "disputed" \/ row.disputes # {}

flags(row) ==
  (IF conflicted(row) THEN {"conflict"} ELSE {})
  \cup (IF row.unresolved THEN {"unresolved"} ELSE {})
  \cup (IF taint_of(row) = "stale" THEN {"stale"} ELSE {})
  \cup (IF ~document(row).form \/ taint_of(row) = "unmergeable" \/ row.empty
        THEN {"opaque"} ELSE {})

FLAG_ORDER == <<"conflict", "unresolved", "stale", "opaque">>

covered(row) == coverage_of(row).scope # "uncaptured" /\ DOMAIN in.sources # {}

MissStatus(row) ==
  IF covered(row) /\ require_complete(coverage_of(row)) = "" THEN "absent" ELSE "unqueried"

RowStatus(row) ==
  IF flags(row) = {} THEN "resolved"
  ELSE FLAG_ORDER[CHOOSE n \in DOMAIN FLAG_ORDER :
                    /\ FLAG_ORDER[n] \in flags(row)
                    /\ \A m \in 1..(n - 1) : FLAG_ORDER[m] \notin flags(row)]

status(row) ==
  CASE row.found = "ambiguous" -> "opaque"
    [] row.found = "miss"      -> MissStatus(row)
    [] row.found = "row"       -> RowStatus(row)

-----------------------------------------------------------------------------
(* baseline.derive: the entries the proposal speaks about, and what is     *)
(* said about them.                                                        *)

Targets == DOMAIN in.rows

\* Whether the proposal changes the row: a missing one, yes; one whose record
\* is no evidence either way is not compared.
changes_the_row(row) ==
  CASE status(row) = "absent" -> "yes"
    [] status(row) \in {"resolved", "conflict", "stale"} -> row.differs
    [] OTHER -> "unknown"

\* The diff scope: a configuration is judged on the rows it demonstrably
\* changes, on the declared row and, where none is declared, on those nobody
\* could compare.  About the others nothing is said, looked up or compared.
scoped(row) ==
  \/ ~in.configuration
  \/ row.declared
  \/ changes_the_row(row) = "yes"
  \/ changes_the_row(row) = "unknown" /\ ~in.declares

Entries == {i \in Targets : scoped(in.rows[i])}

\* One per entry that did not resolve; an ambiguous one says why instead.
StatusVerdicts ==
  {Unverified("baseline", i, 0,
              IF in.rows[i].found = "ambiguous" THEN "ambiguous" ELSE status(in.rows[i])) :
     i \in {j \in Entries : status(in.rows[j]) \notin {"resolved", "stale"}}}

\* One per source that supplied a stale row.
StaleVerdicts ==
  {Unverified("baseline", 0, chosen(in.rows[i]), "stale") :
     i \in {j \in Entries : status(in.rows[j]) = "stale"}}

\* Every entry of a category that holds rows of its own was a miss.
KeyMismatch(t) ==
  LET group == {i \in Entries : in.rows[i].table = t}
  IN  /\ Cardinality(group) >= 2
      /\ in.tables[t].held
      /\ \A i \in group : status(in.rows[i]) = "absent"

key_mismatch_verdicts ==
  {Unverified("baseline", 0, 0, "key-mismatch") : t \in {u \in DOMAIN in.tables : KeyMismatch(u)}}

DeriveVerdicts == StatusVerdicts \cup StaleVerdicts \cup key_mismatch_verdicts

primary == {i \in Entries : /\ comparable(in.rows[i])
                            /\ \A j \in Entries : j < i => ~comparable(in.rows[j])}

-----------------------------------------------------------------------------
(* The partial-baseline asymmetry.                                         *)

soundness(mode, scope, st) ==
  IF /\ scope # "complete"
     /\ \/ mode = "requires_complete" /\ st = "contradicted"
        \/ mode = "subset_safe" /\ st = "grounded"
  THEN "unverified" ELSE st

apply_baseline_soundness(mode, scope, answer) == {soundness(mode, scope, st) : st \in answer}

\* The merged category's scope or, about the same universe, the stronger one
\* the source the entry names declared of itself.
entry_scope(row) ==
  LET c == coverage_of(row)
      r == in.sources[chosen(row)]
  IN  IF c.boundary # r.boundary THEN c.scope ELSE MaxScope({c.scope, r.scope})

\* Mutant: an alternate is graded like the entry it is an alternate of.
source_scope_entry(row, s) == entry_scope(row)

source_scope(row, s) == in.sources[s].scope

\* Without the projection the whole plan is compared, and no check reads it.
Answer(doc) == IF projected THEN doc.answer ELSE {"unverified"}

\* run_pair and the rewrite, for the document of one source.
pair_statuses(row, doc, scope) == apply_baseline_soundness(row.mode, scope, Answer(doc))

-----------------------------------------------------------------------------
(* The stages.                                                             *)

EngineInit ==
  /\ in \in Inputs
  /\ stage = "vocabulary"
  /\ derived = FALSE /\ projected = FALSE
  /\ index = 1
  /\ pair_results = <<>>
  /\ pending = {} /\ statuses = {}
  /\ report = {}

Say(V) == report' = report \cup V
Goto(s) == stage' = s /\ index' = 1

Vocabulary ==
  /\ stage = "vocabulary"
  /\ Say(IF in.have_state THEN {} ELSE {Unverified(stage, 0, 0, "no-snapshot")})
  /\ Goto("proposal-tier")
  /\ UNCHANGED <<in, derived, projected, pair_results, pending, statuses>>

ProposalTier ==
  /\ stage = "proposal-tier"
  /\ Say({Verdict(stage, 0, 0, "claim", st) : st \in in.claims}
         \cup (IF in.unresolved THEN {Unverified(stage, 0, 0, "unresolved")} ELSE {}))
  /\ Goto("baseline")
  /\ UNCHANGED <<in, derived, projected, pair_results, pending, statuses>>

Baseline ==
  /\ stage = "baseline"
  /\ derived' = (in.auto_baseline /\ in.have_state)
  /\ Say(IF ~in.auto_baseline THEN {Unverified(stage, 0, 0, "tier-input")}
         ELSE IF in.have_state THEN DeriveVerdicts ELSE {})
  /\ Goto(IF derived' THEN "proposal-projection" ELSE "carry")
  /\ UNCHANGED <<in, projected, pair_results, pending, statuses>>

Project ==
  /\ stage = "proposal-projection"
  /\ projected' = TRUE
  /\ Goto("pair-tier")
  /\ UNCHANGED <<in, derived, pair_results, pending, statuses, report>>

\* One iteration of the pair tier's loop: the index runs over the targets, of
\* which those out of scope are no entries.
PairEntry ==
  /\ stage = "pair-tier" /\ in.pair_tier
  /\ index \in Targets
  /\ LET row == in.rows[index]
         got == pair_statuses(row, document(row), entry_scope(row))
     IN  IF index \in Entries /\ comparable(row)
         THEN /\ Say({Verdict(stage, index, chosen(row), "pair", st) : st \in got})
              /\ pair_results' = [i \in DOMAIN pair_results \cup {index} |->
                                    IF i = index THEN got ELSE pair_results[i]]
         ELSE UNCHANGED <<report, pair_results>>
  /\ index' = index + 1
  /\ UNCHANGED <<in, stage, derived, projected, pending, statuses>>

\* The estate tier that follows adds nothing: its checks ran in the first.
PairDone ==
  /\ stage = "pair-tier"
  /\ ~in.pair_tier \/ index \notin Targets
  /\ Goto("carry")
  /\ UNCHANGED <<in, derived, projected, pair_results, pending, statuses, report>>

Carry ==
  /\ stage = "carry"
  /\ Say(IF in.carried THEN {Unverified(stage, 0, 0, "compiler")} ELSE {})
  /\ Goto("compiled-rules")
  /\ UNCHANGED <<in, derived, projected, pair_results, pending, statuses>>

\* A pair-tier rule reads the first comparable entry, and abstains without.
rule_status(rule) ==
  IF rule.tier # "pair" THEN rule.answer
  ELSE IF ~derived \/ primary = {} THEN "unverified"
  ELSE LET i == CHOOSE j \in primary : TRUE
       IN  soundness(rule.mode, coverage_of(in.rows[i]).scope, rule.answer)

Rule ==
  /\ stage = "compiled-rules"
  /\ index \in DOMAIN in.rules
  /\ Say({Verdict(stage, 0, 0, "rule", rule_status(in.rules[index]))})
  /\ index' = index + 1
  /\ UNCHANGED <<in, stage, derived, projected, pair_results, pending, statuses>>

RulesDone ==
  /\ stage = "compiled-rules"
  /\ index \notin DOMAIN in.rules
  /\ Goto(IF derived THEN "drift" ELSE "downgrade")
  /\ UNCHANGED <<in, derived, projected, pair_results, pending, statuses, report>>

\* One iteration of the drift stage's loop: an entry no source disputes is
\* passed over, a disputed one is said to be and, if it can be compared, every
\* other source is asked.
Undisputed ==
  /\ stage = "drift" /\ in.pair_tier
  /\ index \in Targets
  /\ index \notin Entries \/ status(in.rows[index]) # "conflict"
  /\ index' = index + 1
  /\ UNCHANGED <<in, stage, derived, projected, pair_results, pending, statuses, report>>

\* Mutant: once the entry itself was found against, nobody else is asked.
ToAsk_unless_found(row, reported) ==
  IF comparable(row) /\ "contradicted" \notin reported THEN others(row) ELSE {}

ToAsk(row, reported) == IF comparable(row) THEN others(row) ELSE {}

Reported(i) == IF i \in DOMAIN pair_results THEN pair_results[i] ELSE {}

Disputed ==
  /\ stage = "drift" /\ in.pair_tier
  /\ index \in Entries
  /\ LET row == in.rows[index]
     IN  /\ status(row) = "conflict"
         /\ Say({Verdict(stage, index, 0, "material",
                         IF in.block THEN "contradicted" ELSE "unverified")})
         /\ pending' = ToAsk(row, Reported(index))
         /\ statuses' = Reported(index)
         /\ IF comparable(row) THEN stage' = "sources" /\ index' = index
            ELSE stage' = stage /\ index' = index + 1
  /\ UNCHANGED <<in, derived, projected, pair_results>>

\* The pair check once more, against the next source's own record.
AskSource ==
  /\ stage = "sources"
  /\ pending # {}
  /\ LET row == in.rows[index]
         s   == FirstOf(row, pending)
         doc == row.records[s]
         got == IF doc.form THEN pair_statuses(row, doc, source_scope(row, s))
                ELSE {"unverified"}
     IN  /\ Say({Verdict("drift", index, s, IF doc.form THEN "pair" ELSE "formless", st) :
                   st \in got})
         /\ statuses' = statuses \cup got
         /\ pending' = pending \ {s}
  /\ UNCHANGED <<in, stage, derived, projected, index, pair_results>>

AllAsked ==
  /\ stage = "sources"
  /\ pending = {}
  /\ Say(IF Cardinality(statuses) > 1 THEN {Unverified("drift", index, 0, "two-answers")} ELSE {})
  /\ stage' = "drift" /\ index' = index + 1
  /\ statuses' = {}
  /\ UNCHANGED <<in, derived, projected, pair_results, pending>>

DriftDone ==
  /\ stage = "drift"
  /\ ~in.pair_tier \/ index \notin Targets
  /\ Goto("downgrade")
  /\ UNCHANGED <<in, derived, projected, pair_results, pending, statuses, report>>

\* Mutant: only what the proposal tier answered is downgraded.
Downgraded_claims(v) ==
  IF in.unresolved /\ v.status = "grounded" /\ v.kind = "claim"
  THEN [v EXCEPT !.status = "unverified"] ELSE v

Downgraded(v) ==
  IF in.unresolved /\ v.status = "grounded" THEN [v EXCEPT !.status = "unverified"] ELSE v

Downgrade ==
  /\ stage = "downgrade"
  /\ report' = {Downgraded(v) : v \in report}
  /\ Goto("provenance")
  /\ UNCHANGED <<in, derived, projected, pair_results, pending, statuses>>

Provenance_rows ==
  /\ stage = "provenance"
  /\ Goto("done")
  /\ UNCHANGED <<in, derived, projected, pair_results, pending, statuses, report>>

\* Any stage may raise between two of its steps: what it already added to the
\* report stays, what it would have returned is lost, the next stage runs.
After(st) ==
  CASE st = "proposal-tier"       -> "baseline"
    [] st = "baseline"            -> "carry"
    [] st = "proposal-projection" -> "pair-tier"
    [] st = "pair-tier"           -> "carry"
    [] st = "compiled-rules"      -> IF derived THEN "drift" ELSE "downgrade"
    [] st = "drift"               -> "downgrade"
    [] st = "sources"             -> "downgrade"
    [] st = "provenance"          -> "done"

Crashed(st) == Unverified(st, 0, 0, "crashed")

\* Mutant: the stage's verdicts go with it.
Remaining_of_stage(st) == {v \in report : v.stage # st}

Remaining(st) == report

StageRaises ==
  /\ stage \notin {"vocabulary", "carry", "downgrade", "done"}
  /\ report' = Remaining(stage) \cup {Crashed(IF stage = "sources" THEN "drift" ELSE stage)}
  /\ pair_results' = IF stage = "pair-tier" THEN <<>> ELSE pair_results
  /\ pending' = {} /\ statuses' = {}
  /\ Goto(After(stage))
  /\ UNCHANGED <<in, derived, projected>>

\* Outside a stage nothing more is decided.
EvaluationRaises ==
  /\ stage = "vocabulary"
  /\ Say({Crashed(stage)})
  /\ Goto("done")
  /\ UNCHANGED <<in, derived, projected, pair_results, pending, statuses>>

EngineNext ==
  \/ Vocabulary \/ ProposalTier \/ Baseline \/ Project
  \/ PairEntry \/ PairDone \/ Carry \/ Rule \/ RulesDone
  \/ Undisputed \/ Disputed \/ AskSource \/ AllAsked \/ DriftDone
  \/ Downgrade \/ Provenance_rows
  \/ StageRaises \/ EvaluationRaises

EngineSpec == EngineInit /\ [][EngineNext]_engineVars

-----------------------------------------------------------------------------
(* What the evaluation promises.                                           *)

done == stage = "done"
crashed(st) == Crashed(st) \in report
\* Every verdict has one of the four statuses (GroundingReport.add warns that
\* any other is invisible to counts, ok and render, and so passes), and the
\* loops stay within their sequences.
EngineTypeOK ==
  /\ \A v \in report : v.status \in Statuses
  /\ DOMAIN pair_results \subseteq Targets
  /\ \A i \in DOMAIN pair_results : pair_results[i] \subseteq Statuses
  /\ pending \subseteq UNION {Candidates(in.rows[i]) : i \in {j \in Targets : in.rows[j].found = "row"}}
  /\ derived => in.have_state /\ in.auto_baseline

\* The source whose document was compared: the entry's own is the merge's
\* winner, whatever the entry says.
Speaker(v) == IF v.stage = "pair-tier" THEN in.rows[v.entry].winner ELSE v.source

\* A source enumerated the universe an answer about the row needs: it claims
\* so, or it supplied the row of a merged category that does.
SawEverything(row, s) ==
  \/ in.sources[s].scope = "complete"
  \/ s = row.winner /\ coverage_of(row).scope = "complete"

\* A policy gave the row to another source than the one the entry names.
TurnedRound(row) == chosen(row) # row.winner

PairVerdicts == {v \in report : v.kind = "pair"}

\* Somebody answers for what v says: the source whose document was compared or,
\* where a policy turned the precedence round, the source the entry names.
Vouched(v) ==
  LET row == in.rows[v.entry]
  IN  \/ SawEverything(row, Speaker(v))
      \/ /\ v.stage = "pair-tier" /\ TurnedRound(row)
         /\ SawEverything(row, v.source)

\* NO PHANTOM BLOCK: a check that reasons from what a baseline does not contain
\* blocks only on the word of a source that saw everything, at whichever of
\* the two stages its finding arrives, and that source is the one whose record
\* was compared, but where precedence was turned round: there the winner's
\* record is graded by the claim of the source the entry names
\* (_apply_baseline_soundness, _entry_scope).
NoPhantomBlock ==
  \A v \in PairVerdicts :
    /\ v.status = "contradicted"
    /\ in.rows[v.entry].mode = "requires_complete"
    => Vouched(v)

\* A clean result of a check that seeks a witness is never drawn from a
\* subset, with the same reservation, nor any clean result, once all is done,
\* from a document some attribute of which was removed (_downgrade_grounded),
\* whichever stage, source or rule minted it.
NoUnearnedPass ==
  /\ \A v \in PairVerdicts :
       v.status = "grounded" /\ in.rows[v.entry].mode = "subset_safe" => Vouched(v)
  /\ stage \in {"provenance", "done"} /\ in.unresolved
     => \A v \in report : v.status # "grounded"

\* The stages an entry's answers come from all ran to their end.
PairTierRan ==
  done /\ derived /\ projected /\ in.pair_tier
  /\ ~\E st \in {"pair-tier", "drift"} : crashed(st)

\* A source that found against the change over a complete view of its own; the
\* one the entry names must have looked at the universe the category is about.
Due(i, s) ==
  LET row == in.rows[i]
  IN  /\ row.records[s].form /\ "contradicted" \in row.records[s].answer
      /\ in.sources[s].scope = "complete"
      /\ s = chosen(row) => in.sources[s].boundary = coverage_of(row).boundary

Heard(i, s) ==
  \E v \in PairVerdicts : v.entry = i /\ Speaker(v) = s /\ v.status = "contradicted"

Contested(i) == status(in.rows[i]) = "conflict" /\ comparable(in.rows[i])

\* A finding from the winner's record on the claim of another source.
Borrowed(v) ==
  /\ v.stage = "pair-tier" /\ v.status = "contradicted"
  /\ in.rows[v.entry].mode = "requires_complete"
  /\ ~SawEverything(in.rows[v.entry], Speaker(v))

\* PRECEDENCE NEVER SUPPRESSES (_stage_drift), for an entry in the diff scope:
\* each source that describes a disputed row and found against the change,
\* entitled to say so, is heard in the report, whichever of them won the merge.
\* Unheard is one alone, the source the entry names where it lost the merge:
\* its record is the entry's in name only and it is not among the others.
\* There the winner is asked twice, and a finding it was lent the claim for
\* never stands without the report saying that the same check gave another
\* answer, the winner's own.
EveryAnswerIsHeard ==
  PairTierRan =>
    \A i \in Entries :
      Contested(i) =>
        /\ \A s \in Candidates(in.rows[i]) :
             Due(i, s) /\ ~Heard(i, s)
             => s = chosen(in.rows[i]) /\ TurnedRound(in.rows[i])
        /\ (\E v \in PairVerdicts : v.entry = i /\ Borrowed(v)) =>
             Unverified("drift", i, 0, "two-answers") \in report

\* A finding that is in the report stays there: later stages, and stages that
\* raise, only add to it, or take back a clean result.
Persists(v) ==
  \/ v \in report'
  \/ v.status = "grounded" /\ [v EXCEPT !.status = "unverified"] \in report'
FindingsStick == [][\A v \in report : Persists(v)]_engineVars
=============================================================================
