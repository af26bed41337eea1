------------------------------- MODULE Checks -------------------------------
(***************************************************************************)
(* preflight.ground_policy over one document, and the post-pass that ends  *)
(* every report: existence claims, the checks registered for a claim, the  *)
(* document's checks, the pair check and the compiled rules, in order.     *)
(*                                                                         *)
(* A registered check is arbitrary code between opening and closing its    *)
(* read set (reconciled.reads) and its evidence ledger (evidence.ledger).  *)
(* While it runs it reads the current state, counts what it examined, and  *)
(* ends by returning verdicts or raising; what it answered then passes the *)
(* drift adjudication, the evidence floor and, for a document's check, the *)
(* completeness gate.  A plain snapshot has no provenance to judge by.     *)
(***************************************************************************)
EXTENDS Provenance, FiniteSets, Sequences

CONSTANTS
  Inputs,
  Keys,         \* the names a check may ask for
  MaxWork       \* bound: what one check does before it ends

Statuses == {"grounded", "ungrounded", "contradicted", "unverified"}
Tiers    == {"existence", "claim", "document", "pair", "rule"}

VARIABLES
  in,        \* the current state, the drift policy and the tasks:
             \*   reconciled, policy
             \*   scopes     the ledger's categories
             \*   names      per category, the names captured
             \*   provable   the categories whose capture can prove an absence
             \*   taints     the facts with a taint of their own
             \*   disputes   of [category, key, severity, field, complete]
             \*   withheld   names declared in configuration but not applied
             \*   tasks      what is asked, in order
  at,        \* the task being done
  pc,        \* "next": between tasks; "check": inside one; "done"
  tap,       \* the read set of the running check
  led,       \* its evidence ledger
  work,      \* what it has really done (history)
  evidence,  \* what each finished task has done, and how it ended (history)
  report

vars == <<in, at, pc, tap, led, work, evidence, report>>

\* What ground_policy is given.  A category the merge licensed to prove an
\* absence holds no row in question; a table is swept by a document's checks,
\* of which one that names a category sweeps no other, and by rules; tasks
\* come in the order of the tiers.
Order == [existence |-> 1, claim |-> 2, document |-> 3, pair |-> 4, rule |-> 5]

Tasks(i) ==
  [tier : Tiers, category : STRING, key : STRING, check : BOOLEAN, builtin : BOOLEAN,
   complete : BOOLEAN, sweeps : SUBSET DOMAIN i.names, exempt : BOOLEAN]

WellFormed(i) ==
  /\ i.policy \in {"annotate", "block", "abstain"}
  /\ i.provable \subseteq DOMAIN i.names
  /\ i.reconciled => DOMAIN i.names = DOMAIN i.scopes
  /\ \A c \in DOMAIN i.scopes :
       /\ i.scopes[c].scope \in Scopes
       /\ i.scopes[c].existence_licensed =>
            /\ can_license(i.scopes[c])
            /\ \A p \in DOMAIN i.taints : p[1] = c => i.taints[p] = ""
  /\ \A p \in i.withheld : p[1] \in DOMAIN i.names /\ p[2] \notin i.names[p[1]]
  /\ i.tasks \in Seq(Tasks(i))
  /\ \A n \in DOMAIN i.tasks :
       /\ i.tasks[n].tier = "existence" => i.tasks[n].category \in DOMAIN i.names
       /\ i.tasks[n].sweeps # {} =>
            i.tasks[n].tier \in {"document", "rule"} /\ ~i.tasks[n].exempt
       /\ i.tasks[n].tier = "document" /\ i.tasks[n].category # "" =>
            i.tasks[n].sweeps \subseteq {i.tasks[n].category}
       /\ \A m \in 1..n : Order[i.tasks[m].tier] <= Order[i.tasks[n].tier]

ASSUME ChecksAssumption ==
  MaxWork \in Nat /\ "" \notin Keys /\ \A i \in Inputs : WellFormed(i)

task   == in.tasks[at]
Idle   == pc = "next" /\ at \in DOMAIN in.tasks
Inside == pc = "check"

\* A verdict: the task it is about, who gave it, what that one said, and the
\* status it is reported with.
Verdict(by, said, status) == [task |-> at, by |-> by, said |-> said, status |-> status]
Synthesised == Verdict("registry", "unverified", "unverified")

NoWork == [rows |-> {}, categories |-> {}, collections |-> 0, examined |-> 0,
           attested |-> FALSE, steps |-> 0]

\* One task follows another, whatever became of it.
Finish(verdicts, done, answer, end) ==
  /\ report' = report \o verdicts
  /\ evidence' = Append(evidence, [work |-> done, answer |-> answer, end |-> end])
  /\ at' = at + 1
  /\ pc' = "next"

-----------------------------------------------------------------------------
(* The current state.                                                      *)

Pairs == UNION {{c} \X in.names[c] : c \in DOMAIN in.names}

scope_of(c) == IF c \in DOMAIN in.scopes THEN in.scopes[c] ELSE UNCAPTURED

\* The fact's taint if it has one, else the category's.
taint_of(c, k) ==
  IF <<c, k>> \in DOMAIN in.taints THEN in.taints[<<c, k>>] ELSE scope_of(c).taint

read_taint(p) == IF p[2] = "" THEN scope_of(p[1]).taint ELSE taint_of(p[1], p[2])
taints_for(pairs) == {p \in pairs : read_taint(p) # ""}

DisputesAbout(c, k) == {d \in in.disputes : d.category = c /\ d.key = k}

\* Why an absence in this category may not be read as non-existence, or "".
RequireComplete(c) ==
  IF in.reconciled THEN require_complete(scope_of(c))
  ELSE IF c \in in.provable THEN "" ELSE "uncaptured"

\* Mutant: one category that licenses an absence is enough.
incomplete_view_of_none ==
  IF in.reconciled /\ \A c \in DOMAIN in.scopes : ~in.scopes[c].existence_licensed
  THEN "incomplete" ELSE ""

\* The whole view, for a check that named no category.
incomplete_view ==
  IF in.reconciled /\ \/ DOMAIN in.scopes = {}
                      \/ \E c \in DOMAIN in.scopes : ~in.scopes[c].existence_licensed
  THEN "incomplete" ELSE ""

incomplete_reason(t) ==
  IF t.category # "" THEN RequireComplete(t.category) ELSE incomplete_view

-----------------------------------------------------------------------------
(* The three judgements of a check's answer, in the order they are made.   *)

\* Mutant: one phantom among the facts read is enough.
rests_on_phantoms_any(pairs) ==
  \E p \in pairs : \E d \in DisputesAbout(p[1], p[2]) :
     d.severity = "material" /\ ~d.field /\ d.complete

\* Every fact read is one that a complete source says is gone; a read of a
\* whole category never is.
rests_on_phantoms(pairs) ==
  /\ pairs # {}
  /\ \A p \in pairs :
       /\ p[2] # ""
       /\ \E d \in DisputesAbout(p[1], p[2]) :
            d.severity = "material" /\ ~d.field /\ d.complete

\* drift.adjudicate: a pass rests on nothing in question, an absence is never
\* proved by a check over a merged view, a finding stands.  Its third rule takes
\* back a finding all of whose facts a complete source says are gone.
adjudicate(status, pairs, exempt) ==
  LET withdrawn ==
        \/ status = "grounded" /\ taints_for(pairs) # {}
        \/ status = "ungrounded"
        \/ status = "contradicted" /\ (rests_on_phantoms(pairs) \/ in.policy = "abstain")
  IN  IF in.reconciled /\ ~exempt /\ withdrawn THEN "unverified" ELSE status

stands_on_nothing(l) == l.collections > 0 /\ l.rows = 0 /\ ~l.dispositive

\* Mutant: only a pass needs evidence.
floored_pass(status, l) ==
  IF status = "grounded" /\ stands_on_nothing(l) THEN "unverified" ELSE status

\* The evidence floor: nothing is decided by reading only empty collections.
floored(status, l) ==
  IF status \in {"grounded", "contradicted"} /\ stands_on_nothing(l)
  THEN "unverified" ELSE status

\* The gate on a document's check that did run over an incomplete view.
downgraded(status, t) ==
  IF t.tier = "document" /\ incomplete_reason(t) # "" /\ status = "grounded"
  THEN "unverified" ELSE status

judged(status) ==
  downgraded(floored(adjudicate(status, tap, task.exempt), led), task)

-----------------------------------------------------------------------------
(* Existence claims: the reasoner's answers, given outside any check.      *)

ground_existence(c, k) ==
  IF k \in in.names[c] THEN "grounded"
  ELSE IF c \in in.provable THEN "ungrounded" ELSE "unverified"

GroundExistence ==
  /\ Idle /\ task.tier = "existence"
  /\ LET s == ground_existence(task.category, task.key)
     IN  Finish(<<Verdict("reasoner", s, s)>>, NoWork, <<s>>, "returned")
  /\ UNCHANGED <<in, tap, led, work>>

-----------------------------------------------------------------------------
(* A registered check, from the registry's side.                           *)

FreshLedger == [collections |-> 0, rows |-> 0, dispositive |-> FALSE]

\* A check whose conclusion needs a category this view does not have whole
\* is not run, and one verdict says so.
Refused(t) ==
  t.tier = "document" /\ t.complete /\ t.category # "" /\ incomplete_reason(t) # ""

RefuseIncomplete ==
  /\ Idle /\ Refused(task)
  /\ Finish(<<Synthesised>>, NoWork, <<>>, "refused")
  /\ UNCHANGED <<in, tap, led, work>>

Open ==
  /\ Idle /\ task.tier \in {"claim", "document", "pair"} /\ task.check
  /\ ~Refused(task)
  /\ tap' = {} /\ led' = FreshLedger /\ work' = NoWork
  /\ pc' = "check"
  /\ UNCHANGED <<in, at, evidence, report>>

\* ground_policy after the claim's checks: the built-in check of its kind, or
\* one verdict for a claim nobody answered.
ClaimTail(produced, s) ==
  IF task.tier # "claim" THEN produced
  ELSE IF task.builtin THEN Append(produced, Verdict("builtin", s, s))
  ELSE IF produced = <<>> THEN Append(produced, Synthesised) ELSE produced

BuiltinAnswers == IF task.tier = "claim" /\ task.builtin THEN Statuses ELSE {"unverified"}

ClaimUnchecked ==
  /\ Idle /\ task.tier = "claim" /\ ~task.check
  /\ \E s \in BuiltinAnswers : Finish(ClaimTail(<<>>, s), NoWork, <<>>, "unchecked")
  /\ UNCHANGED <<in, tap, led, work>>

-----------------------------------------------------------------------------
(* What a check does.  Every access notes itself on the read set; only     *)
(* what it notes is judged.                                                *)

Steps == [work EXCEPT !.steps = @ + 1]
Working == Inside /\ work.steps < MaxWork

note_read(pairs) == IF in.reconciled THEN tap \cup pairs ELSE tap

\* A keyed accessor notes the key, and the table its method looks into.
ReadKey(c, k) ==
  /\ Working /\ ~task.exempt
  /\ tap' = note_read({<<c, k>>, <<c, "">>})
  /\ work' = [Steps EXCEPT !.rows = @ \cup {<<c, k>>}, !.categories = @ \cup {c}]
  /\ UNCHANGED <<in, at, pc, led, evidence, report>>

\* A table accessor, or the raw field: every row is read, the category noted.
Sweep(c) ==
  /\ Working /\ c \in task.sweeps
  /\ tap' = note_read({<<c, "">>})
  /\ work' = [Steps EXCEPT !.rows = @ \cup {p \in Pairs : p[1] = c},
                           !.categories = @ \cup {c}]
  /\ UNCHANGED <<in, at, pc, led, evidence, report>>

\* evidence.rows and evidence.examined.
Examine(n) ==
  /\ Working
  /\ led' = [led EXCEPT !.collections = @ + 1, !.rows = @ + n]
  /\ work' = [Steps EXCEPT !.collections = @ + 1, !.examined = @ + n]
  /\ UNCHANGED <<in, at, pc, tap, evidence, report>>

\* evidence.emptiness_is_dispositive.
Attest ==
  /\ Working
  /\ led' = [led EXCEPT !.dispositive = TRUE]
  /\ work' = [Steps EXCEPT !.attested = TRUE]
  /\ UNCHANGED <<in, at, pc, tap, evidence, report>>

\* The answers a check can give at once: none, one, or a pass and a finding.
Returns == {<<>>, <<"grounded", "contradicted">>} \cup {<<s>> : s \in Statuses}

Return ==
  /\ Inside
  /\ \E answer \in Returns, s \in BuiltinAnswers :
       Finish(ClaimTail([n \in DOMAIN answer |->
                           Verdict("check", answer[n], judged(answer[n]))], s),
              work, answer, "returned")
  /\ UNCHANGED <<in, tap, led, work>>

\* NotEvaluated and any other exception alike: one verdict in the check's place.
Raise ==
  /\ Inside
  /\ \E s \in BuiltinAnswers : Finish(ClaimTail(<<Synthesised>>, s), work, <<>>, "raised")
  /\ UNCHANGED <<in, tap, led, work>>

-----------------------------------------------------------------------------
(* A compiled rule: it collects, abstains over an incomplete estate, and   *)
(* is adjudicated over what it collected.                                  *)

Outcomes(t) ==
  IF \E c \in t.sweeps : RequireComplete(c) # "" THEN {"unverified"}
  ELSE {"grounded", "contradicted", "unverified"}

Collected(t) ==
  [NoWork EXCEPT !.rows = {p \in Pairs : p[1] \in t.sweeps}, !.categories = t.sweeps]

Evaluate ==
  /\ Idle /\ task.tier = "rule"
  /\ \E s \in Outcomes(task) :
       Finish(<<Verdict("rule", s, adjudicate(s, {<<c, "">> : c \in task.sweeps}, FALSE))>>,
              Collected(task), <<s>>, "returned")
  /\ UNCHANGED <<in, tap, led, work>>

\* A rule that does not apply says nothing.
EvaluateNone ==
  /\ Idle /\ task.tier = "rule"
  /\ Finish(<<>>, NoWork, <<>>, "none")
  /\ UNCHANGED <<in, tap, led, work>>

-----------------------------------------------------------------------------
(* drift.postpass over the finished report.                                *)

dispute_taint(severity) ==
  CASE severity = "material" -> "disputed"
    [] severity = "unmergeable" -> "unmergeable"
    [] OTHER -> ""

in_question(c, k) ==
  \/ taint_of(c, k) # ""
  \/ \E d \in DisputesAbout(c, k) : dispute_taint(d.severity) # ""

\* Mutant: a complete category is proof enough.
postpass_one_scope(v) ==
  LET t == in.tasks[v.task]
  IN  IF /\ in.reconciled /\ v.by = "reasoner" /\ v.status = "ungrounded"
         /\ \/ <<t.category, t.key>> \in in.withheld
            \/ scope_of(t.category).scope # "complete"
      THEN [v EXCEPT !.status = "unverified"] ELSE v

\* An absence must be proved by a complete enumeration whose word about this
\* very name is not in question.
postpass_one(v) ==
  LET t == in.tasks[v.task]
  IN  IF /\ in.reconciled /\ v.by = "reasoner" /\ v.status = "ungrounded"
         /\ \/ <<t.category, t.key>> \in in.withheld
            \/ scope_of(t.category).scope # "complete"
            \/ in_question(t.category, t.key)
      THEN [v EXCEPT !.status = "unverified"] ELSE v

Postpass ==
  /\ pc = "next" /\ at = Len(in.tasks) + 1
  /\ report' = [n \in DOMAIN report |-> postpass_one(report[n])]
  /\ pc' = "done"
  /\ UNCHANGED <<in, at, tap, led, work, evidence>>

-----------------------------------------------------------------------------
(* The specification.                                                      *)

Init ==
  /\ in \in Inputs
  /\ at = 1 /\ pc = "next"
  /\ tap = {} /\ led = FreshLedger /\ work = NoWork
  /\ evidence = <<>> /\ report = <<>>

Body ==
  \/ \E c \in DOMAIN in.names, k \in Keys : ReadKey(c, k)
  \/ \E c \in DOMAIN in.names : Sweep(c)
  \/ \E n \in {0, 1} : Examine(n)
  \/ Attest
  \/ Return
  \/ Raise

Next ==
  \/ GroundExistence \/ RefuseIncomplete \/ Open \/ ClaimUnchecked
  \/ Body
  \/ Evaluate \/ EvaluateNone
  \/ Postpass

Spec == Init /\ [][Next]_vars

-----------------------------------------------------------------------------
(* Properties.                                                             *)

Categories == DOMAIN in.names
AllNames == Keys \cup UNION {in.names[c] : c \in Categories}
Work == [rows : SUBSET (Categories \X AllNames), categories : SUBSET Categories,
         collections : Nat, examined : Nat, attested : BOOLEAN, steps : 0..MaxWork]

Voices == {"reasoner", "registry", "check", "builtin", "rule"}
Ends   == {"returned", "raised", "refused", "unchecked", "none"}

\* Every verdict in the report is about a task that was reached, with one of
\* the four statuses, and one record of evidence was kept per finished task.
ChecksTypeOK ==
  /\ in \in Inputs
  /\ at \in 1..(Len(in.tasks) + 1)
  /\ pc \in {"next", "check", "done"}
  /\ pc = "check" => at \in DOMAIN in.tasks
  /\ led \in [collections : Nat, rows : Nat, dispositive : BOOLEAN]
  /\ work \in Work
  /\ evidence \in Seq([work : Work, answer : Seq(Statuses), end : Ends])
  /\ Len(evidence) = at - 1
  /\ report \in Seq([task : 1..(at - 1), by : Voices, said : Statuses, status : Statuses])

Reported == {report[n] : n \in DOMAIN report}
DoneFor(v) == evidence[v.task].work

Questionable(done) ==
  \/ \E p \in done.rows : taint_of(p[1], p[2]) # ""
  \/ \E c \in done.categories : scope_of(c).taint # ""
FromNothing(done) == done.collections > 0 /\ done.examined = 0 /\ ~done.attested

\* A clean answer of a check or a rule over the merged view rests on no row
\* that is disputed, stale or unmergeable: neither one it asked for by name
\* nor one it merely swept over in a table whose enumeration is not in
\* question (drift.adjudicate and registry.run_document_checks together).
NoPassOnDisputedRow ==
  \A v \in Reported :
    in.reconciled /\ v.by \in {"check", "rule"} /\ v.status = "grounded"
      => ~Questionable(DoneFor(v))

\* No check's pass or finding comes from having read collections that held
\* nothing, unless the check says why that decides it (registry._floored).
NothingDecidedOnNothing ==
  \A v \in Reported :
    v.by = "check" /\ v.status \in {"grounded", "contradicted"} => ~FromNothing(DoneFor(v))

\* A finding is taken back only where the operator asked for it, or where the
\* check had examined nothing: drift in the estate is no way to silence one
\* (drift.adjudicate, rule 2).  No exception is left for rule 3, which documents
\* one: a finding is to be taken back when a complete source says that every
\* fact it read is gone.  Looking a row up by its key reads the table too, the
\* tap notes both, and a table is never gone, so that rule applies to no check:
\* a finding that rests on phantoms alone stands as well.
FindingsStand ==
  \A v \in Reported :
    v.said = "contradicted" /\ v.status # "contradicted"
      => \/ in.reconciled /\ in.policy = "abstain"
         \/ v.by = "check" /\ FromNothing(DoneFor(v))

AboutName(v) == v.by = "reasoner" /\ in.reconciled /\ pc = "done"
Proven(t) ==
  /\ t.category \in in.provable /\ t.key \notin in.names[t.category]
  /\ <<t.category, t.key>> \notin in.withheld
  /\ scope_of(t.category).scope = "complete"
  /\ ~in_question(t.category, t.key)

\* What the finished report calls a hallucination over a merged view is a name
\* that a complete enumeration leaves out, and that no source, not even a
\* configuration yet to be applied, speaks for (drift.postpass).
UngroundedIsProven ==
  \A v \in Reported :
    AboutName(v) /\ v.status = "ungrounded" => Proven(in.tasks[v.task])

Of(n, who) == SelectSeq(report, LAMBDA v : v.task = n /\ v.by = who)
=============================================================================
