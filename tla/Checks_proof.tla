---------------------------- MODULE Checks_proof ----------------------------
(***************************************************************************)
(* Proofs about preflight.ground_policy and drift.postpass, for every set  *)
(* of well-formed inputs: any number of tasks, tables, names and disputes, *)
(* and checks that read, count and answer anything in any order.           *)
(***************************************************************************)
EXTENDS Checks, SequenceTheorems, TLAPS

-----------------------------------------------------------------------------
(* The invariant.                                                          *)

Record == [work : Work, answer : Seq(Statuses), end : Ends]
VerdictsAbout(T) == [task : T, by : Voices, said : Statuses, status : Statuses]

\* What every verdict in the report keeps of the work it came from.
Sound(v, w) ==
  /\ v.said = "contradicted" /\ v.status # "contradicted"
       => \/ in.reconciled /\ in.policy = "abstain"
          \/ v.by = "check" /\ FromNothing(w)
  /\ v.by = "check" /\ v.status \in {"grounded", "contradicted"} => ~FromNothing(w)
  /\ in.reconciled /\ v.by \in {"check", "rule"} /\ v.status = "grounded" => ~Questionable(w)
  /\ v.by = "reasoner" => v.said # "contradicted"
  /\ v.by = "reasoner" /\ v.status = "ungrounded"
       => /\ in.tasks[v.task].category \in in.provable
          /\ in.tasks[v.task].key \notin in.names[in.tasks[v.task].category]

\* While a check runs, its ledger counts what it examined, and its read set
\* holds every key and table it read, every row of a swept table excepted.
LedgerCounts ==
  /\ led.collections = work.collections
  /\ led.rows = work.examined
  /\ led.dispositive = work.attested

TapCovers ==
  /\ \A p \in tap : p[2] = "" \/ <<p[1], "">> \in tap
  /\ \A c \in work.categories : <<c, "">> \in tap
  /\ \A p \in work.rows : (p \in tap /\ p[2] # "") \/ p[1] \in task.sweeps

Running ==
  pc = "check" =>
    /\ task.tier \in {"claim", "document", "pair"}
    /\ LedgerCounts
    /\ in.reconciled => TapCovers
    /\ task.exempt => work.rows = {} /\ work.categories = {}

ReportSound == \A n \in DOMAIN report : Sound(report[n], evidence[report[n].task].work)

Regraded == pc = "done" => \A n \in DOMAIN report : postpass_one(report[n]) = report[n]

ChecksInv == ChecksTypeOK /\ Running /\ ReportSound /\ Regraded

-----------------------------------------------------------------------------
(* What the judgements promise.                                            *)

\* What is known of the task being done.
LEMMA TaskIs ==
  ASSUME in \in Inputs, at \in DOMAIN in.tasks
  PROVE  /\ task.tier \in Tiers
         /\ task.sweeps \subseteq DOMAIN in.names
         /\ task.sweeps # {} => task.tier \in {"document", "rule"} /\ ~task.exempt
         /\ task.tier = "existence" => task.category \in DOMAIN in.names
         /\ task.tier = "document" /\ task.category # "" => task.sweeps \subseteq {task.category}
<1>1. WellFormed(in)
  BY ChecksAssumption
<1>2. in.tasks \in Seq(Tasks(in))
  BY <1>1 DEF WellFormed
<1>3. task \in Tasks(in)
  BY <1>2 DEF task
<1> QED BY <1>1, <1>3 DEF WellFormed, Tasks, task

\* A category that licenses an absence has no row and no name in question.
LEMMA LicensedIsClean ==
  ASSUME in \in Inputs, in.reconciled, NEW c \in DOMAIN in.names,
         \/ require_complete(scope_of(c)) = ""
         \/ in.scopes[c].existence_licensed
  PROVE  scope_of(c).taint = "" /\ \A k : taint_of(c, k) = ""
<1>1. WellFormed(in)
  BY ChecksAssumption
<1>2. c \in DOMAIN in.scopes /\ scope_of(c) = in.scopes[c] /\ in.scopes[c].scope \in Scopes
  BY <1>1 DEF WellFormed, scope_of
<1>3. in.scopes[c].existence_licensed
  BY <1>2 DEF require_complete, Scopes
<1>4. /\ can_license(in.scopes[c])
      /\ \A p \in DOMAIN in.taints : p[1] = c => in.taints[p] = ""
  BY <1>1, <1>2, <1>3 DEF WellFormed
<1>5. scope_of(c).taint = ""
  BY <1>2, <1>4 DEF can_license
<1>6. \A k : taint_of(c, k) = ""
  BY <1>4, <1>5 DEF taint_of
<1> QED BY <1>5, <1>6

\* No read set an accessor fills consists of phantoms alone.
LEMMA NoPhantomSet ==
  ASSUME TapCovers
  PROVE  ~rests_on_phantoms(tap)
BY DEF TapCovers, rests_on_phantoms

\* A finding survives the judgements, but for the two licensed exceptions.
LEMMA FindingSurvives ==
  ASSUME Running, pc = "check",
         judged("contradicted") # "contradicted"
  PROVE  (in.reconciled /\ in.policy = "abstain") \/ FromNothing(work)
<1>1. downgraded(floored(adjudicate("contradicted", tap, task.exempt), led), task)
        # "contradicted"
  BY DEF judged
<1>2. in.reconciled => ~rests_on_phantoms(tap)
  BY NoPhantomSet DEF Running
<1>3. ~(in.reconciled /\ in.policy = "abstain")
        => adjudicate("contradicted", tap, task.exempt) = "contradicted"
  BY <1>2 DEF adjudicate
<1>4. ~stands_on_nothing(led) => floored("contradicted", led) = "contradicted"
  BY DEF floored
<1>5. downgraded("contradicted", task) = "contradicted"
  BY DEF downgraded
<1>6. stands_on_nothing(led) => FromNothing(work)
  BY DEF stands_on_nothing, FromNothing, Running, LedgerCounts
<1> QED BY <1>1, <1>3, <1>4, <1>5, <1>6

\* A decided answer was not given on nothing.
LEMMA DecisionExamined ==
  ASSUME Running, pc = "check", NEW s \in Statuses,
         judged(s) \in {"grounded", "contradicted"}
  PROVE  ~FromNothing(work)
<1> DEFINE a == adjudicate(s, tap, task.exempt)
<1> HIDE DEF a
<1>1. downgraded(floored(a, led), task) \in {"grounded", "contradicted"}
  BY DEF judged, a
<1>2. floored(a, led) \in {"grounded", "contradicted"}
  BY <1>1 DEF downgraded
<1>3. ~stands_on_nothing(led)
  BY <1>2 DEF floored
<1> QED BY <1>3 DEF stands_on_nothing, FromNothing, Running, LedgerCounts

\* A pass over the merged view rests on no row and no table in question.
LEMMA PassIsClean ==
  ASSUME ChecksTypeOK, Running, pc = "check", in.reconciled, NEW s \in Statuses,
         judged(s) = "grounded"
  PROVE  ~Questionable(work)
<1> DEFINE a == adjudicate(s, tap, task.exempt)
<1>1. in \in Inputs /\ at \in DOMAIN in.tasks /\ WellFormed(in)
  BY ChecksAssumption DEF ChecksTypeOK
<1>2. a = "grounded" /\ (task.tier = "document" => incomplete_reason(task) = "")
  <2> HIDE DEF a
  <2>1. downgraded(floored(a, led), task) = "grounded"
    BY DEF judged, a
  <2>2. floored(a, led) = "grounded" /\ (task.tier = "document" => incomplete_reason(task) = "")
    BY <2>1 DEF downgraded
  <2> QED BY <2>2 DEF floored
<1>3. CASE task.exempt
  BY <1>3 DEF Running, Questionable
<1>4. CASE ~task.exempt
  <2>1. taints_for(tap) = {}
    BY <1>2, <1>4 DEF adjudicate
  <2>2. \A p \in tap : read_taint(p) = ""
    BY <2>1 DEF taints_for
  <2>3. TapCovers
    BY DEF Running
  <2>4. \A c \in work.categories : scope_of(c).taint = ""
    <3> TAKE c \in work.categories
    <3>1. <<c, "">> \in tap
      BY <2>3 DEF TapCovers
    <3> QED BY <2>2, <3>1 DEF read_taint
  <2>5. \A p \in work.rows : taint_of(p[1], p[2]) = ""
    <3> TAKE p \in work.rows
    <3>1. CASE p \in tap /\ p[2] # ""
      BY <2>2, <3>1 DEF read_taint
    <3>2. CASE p[1] \in task.sweeps
      <4>1. task.tier = "document" /\ p[1] \in DOMAIN in.names
        BY <1>1, <3>2, TaskIs DEF Running
      <4>2. incomplete_reason(task) = ""
        BY <1>2, <4>1
      <4>3. CASE task.category # ""
        <5>1. p[1] = task.category
          BY <1>1, <3>2, <4>1, <4>3, TaskIs
        <5>2. require_complete(scope_of(p[1])) = ""
          BY <4>2, <4>3, <5>1 DEF incomplete_reason, RequireComplete
        <5> QED BY <1>1, <4>1, <5>2, LicensedIsClean
      <4>4. CASE task.category = ""
        <5>1. \A c \in DOMAIN in.scopes : in.scopes[c].existence_licensed
          BY <4>2, <4>4 DEF incomplete_reason, incomplete_view
        <5>2. p[1] \in DOMAIN in.scopes
          BY <1>1, <4>1 DEF WellFormed
        <5> QED BY <1>1, <4>1, <5>1, <5>2, LicensedIsClean
      <4> QED BY <4>3, <4>4
    <3> QED BY <2>3, <3>1, <3>2 DEF TapCovers
  <2> QED BY <2>4, <2>5 DEF Questionable
<1> QED BY <1>3, <1>4

\* A rule decides over an estate every swept table of which is licensed.
LEMMA RuleIsClean ==
  ASSUME ChecksTypeOK, Idle, task.tier = "rule", in.reconciled,
         NEW s \in Outcomes(task), s \in {"grounded", "contradicted"}
  PROVE  ~Questionable(Collected(task))
<1>1. in \in Inputs /\ WellFormed(in)
  BY ChecksAssumption DEF ChecksTypeOK
<1>2. \A c \in task.sweeps : c \in DOMAIN in.names /\ require_complete(scope_of(c)) = ""
  BY <1>1, TaskIs DEF Outcomes, RequireComplete, Idle
<1>3. \A c \in task.sweeps : scope_of(c).taint = "" /\ \A k : taint_of(c, k) = ""
  BY <1>1, <1>2, LicensedIsClean
<1>4. /\ Collected(task).categories = task.sweeps
      /\ \A p \in Collected(task).rows : p[1] \in task.sweeps
  BY DEF Collected, NoWork
<1> QED BY <1>3, <1>4 DEF Questionable

-----------------------------------------------------------------------------
(* Type correctness of the pieces.                                         *)

\* Judging gives a status.
LEMMA JudgedStatus == \A s \in Statuses : judged(s) \in Statuses
BY DEF judged, downgraded, floored, adjudicate, Statuses

\* The claim's tail adds at most one verdict, of a status and a voice.
LEMMA TailVerdicts ==
  ASSUME NEW produced \in Seq(VerdictsAbout({at})), NEW s \in BuiltinAnswers
  PROVE  /\ ClaimTail(produced, s) \in Seq(VerdictsAbout({at}))
         /\ \A n \in DOMAIN ClaimTail(produced, s) :
              \/ n \in DOMAIN produced /\ ClaimTail(produced, s)[n] = produced[n]
              \/ ClaimTail(produced, s)[n] \in {Verdict("builtin", s, s), Synthesised}
<1>1. s \in Statuses
  BY DEF BuiltinAnswers, Statuses
<1>2. Verdict("builtin", s, s) \in VerdictsAbout({at}) /\ Synthesised \in VerdictsAbout({at})
  BY <1>1 DEF Verdict, Synthesised, VerdictsAbout, Voices, Statuses
<1> DEFINE b == Verdict("builtin", s, s)
           r == Synthesised
<1> HIDE DEF b, r
<1>3. \A v \in {b, r} :
        /\ Append(produced, v) \in Seq(VerdictsAbout({at}))
        /\ \A n \in DOMAIN Append(produced, v) :
             \/ n \in DOMAIN produced /\ Append(produced, v)[n] = produced[n]
             \/ Append(produced, v)[n] = v
  <2> TAKE v \in {b, r}
  <2>1. v \in VerdictsAbout({at})
    BY <1>2 DEF b, r
  <2> QED BY <2>1
<1>4. ClaimTail(produced, s) \in {produced, Append(produced, b), Append(produced, r)}
  BY DEF ClaimTail, b, r
<1> QED BY <1>3, <1>4 DEF b, r

-----------------------------------------------------------------------------
(* Every step keeps the invariant.                                         *)

\* What is said of a verdict, or of the state's shape, reads only the inputs.
LEMMA SameInputs ==
  ASSUME in' = in
  PROVE  /\ Work' = Work
         /\ \A v, w : Sound(v, w)' <=> Sound(v, w)
         /\ \A v : postpass_one(v)' = postpass_one(v)
<1>1. Work' = Work
  BY DEF Work, Categories, AllNames
<1>2. \A w : Questionable(w)' <=> Questionable(w)
  BY DEF Questionable, taint_of, scope_of
<1>3. \A w : FromNothing(w)' <=> FromNothing(w)
  BY DEF FromNothing
<1>4. \A v, w : Sound(v, w)' <=> Sound(v, w)
  BY <1>2, <1>3 DEF Sound
<1>5. \A v : postpass_one(v)' = postpass_one(v)
  BY DEF postpass_one, in_question, taint_of, scope_of, DisputesAbout
<1> QED BY <1>1, <1>4, <1>5

\* A task that ends with sound verdicts keeps the invariant.
LEMMA FinishStep ==
  ASSUME ChecksInv, at \in DOMAIN in.tasks, in' = in, led' = led, work' = work,
         NEW verdicts \in Seq(VerdictsAbout({at})), NEW done \in Work,
         NEW answer \in Seq(Statuses), NEW end \in Ends,
         Finish(verdicts, done, answer, end),
         \A n \in DOMAIN verdicts : Sound(verdicts[n], done)
  PROVE  ChecksInv'
<1> DEFINE e == [work |-> done, answer |-> answer, end |-> end]
<1>1. /\ report' = report \o verdicts
      /\ evidence' = Append(evidence, e)
      /\ at' = at + 1
      /\ pc' = "next"
  BY DEF Finish
<1>2. /\ at \in 1..(Len(in.tasks) + 1)
      /\ evidence \in Seq(Record) /\ Len(evidence) = at - 1
      /\ report \in Seq(VerdictsAbout(1..(at - 1)))
  BY DEF ChecksInv, ChecksTypeOK, Record, VerdictsAbout
<1>3. in.tasks \in Seq(Tasks(in)) /\ at \in 1..Len(in.tasks)
  <2>1. WellFormed(in)
    BY ChecksAssumption DEF ChecksInv, ChecksTypeOK
  <2>2. in.tasks \in Seq(Tasks(in))
    BY <2>1 DEF WellFormed
  <2> QED BY <2>2
<1>4. e \in Record
  BY DEF Record
<1> HIDE DEF e
<1>5. /\ evidence' \in Seq(Record) /\ Len(evidence') = at
      /\ evidence'[at] = e
      /\ \A n \in 1..(at - 1) : evidence'[n] = evidence[n]
  BY <1>1, <1>2, <1>3, <1>4
<1>6. report' \in Seq(VerdictsAbout(1..at))
  <2>1. VerdictsAbout({at}) \subseteq VerdictsAbout(1..at)
    BY <1>3 DEF VerdictsAbout
  <2>2. VerdictsAbout(1..(at - 1)) \subseteq VerdictsAbout(1..at)
    BY <1>3 DEF VerdictsAbout
  <2>3. verdicts \in Seq(VerdictsAbout(1..at)) /\ report \in Seq(VerdictsAbout(1..at))
    <3>1. \A S, T : S \subseteq T => Seq(S) \subseteq Seq(T)
      OBVIOUS
    <3> QED BY <1>2, <2>1, <2>2, <3>1
  <2> QED BY <1>1, <2>3
<1>7. ChecksTypeOK'
  <2>1. in' \in Inputs /\ led' \in [collections : Nat, rows : Nat, dispositive : BOOLEAN]
    BY DEF ChecksInv, ChecksTypeOK
  <2>2. work' \in Work' /\ evidence' \in Seq([work : Work', answer : Seq(Statuses), end : Ends])
    BY <1>5, SameInputs DEF ChecksInv, ChecksTypeOK, Record
  <2>3. at' \in 1..(Len(in'.tasks) + 1) /\ Len(evidence') = at' - 1 /\ at' - 1 = at
    BY <1>1, <1>3, <1>5
  <2>4. report' \in Seq([task : 1..(at' - 1), by : Voices, said : Statuses, status : Statuses])
    BY <1>6, <2>3 DEF VerdictsAbout
  <2> QED BY <1>1, <2>1, <2>2, <2>3, <2>4 DEF ChecksTypeOK
<1>8. ReportSound'
  <2>1. \A n \in DOMAIN report' : Sound(report'[n], evidence'[report'[n].task].work)
    <3> TAKE n \in DOMAIN report'
    <3>1. n \in 1..(Len(report) + Len(verdicts))
      BY <1>1, <1>2
    <3>2. CASE n \in 1..Len(report)
      <4>1. report'[n] = report[n] /\ report[n] \in VerdictsAbout(1..(at - 1))
        BY <1>1, <1>2, <3>2
      <4>2. report[n].task \in 1..(at - 1)
        BY <4>1 DEF VerdictsAbout
      <4>3. evidence'[report[n].task] = evidence[report[n].task]
        BY <1>5, <4>2
      <4>4. Sound(report[n], evidence[report[n].task].work)
        BY <1>2, <3>2 DEF ChecksInv, ReportSound
      <4> QED BY <4>1, <4>3, <4>4
    <3>3. CASE n \in (Len(report) + 1)..(Len(report) + Len(verdicts))
      <4> DEFINE m == n - Len(report)
      <4>1. m \in DOMAIN verdicts /\ report'[n] = verdicts[m]
        BY <1>1, <1>2, <3>3, SMTT(30)
      <4>2. verdicts[m] \in VerdictsAbout({at})
        BY <4>1
      <4>3. verdicts[m].task = at
        BY <4>2 DEF VerdictsAbout
      <4>4. e.work = done
        BY DEF e
      <4> HIDE DEF m
      <4> QED BY <1>5, <4>1, <4>3, <4>4
    <3> QED BY <1>2, <3>1, <3>2, <3>3
  <2> QED BY <2>1, SameInputs DEF ReportSound
<1>9. Running' /\ Regraded'
  BY <1>1 DEF Running, Regraded
<1> QED BY <1>7, <1>8, <1>9 DEF ChecksInv

\* What a running check does keeps the invariant if its ledger still counts
\* its work and its read set still covers what it read.
LEMMA InsideStep ==
  ASSUME ChecksInv, pc = "check",
         in' = in, at' = at, pc' = pc, evidence' = evidence, report' = report,
         work' \in Work, led' \in [collections : Nat, rows : Nat, dispositive : BOOLEAN],
         LedgerCounts', in.reconciled => TapCovers',
         task.exempt => work'.rows = {} /\ work'.categories = {}
  PROVE  ChecksInv'
<1>1. ChecksTypeOK'
  BY SameInputs DEF ChecksInv, ChecksTypeOK
<1>2. Running'
  BY DEF ChecksInv, Running, task
<1>3. ReportSound'
  BY SameInputs DEF ChecksInv, ReportSound
<1>4. Regraded'
  BY DEF Regraded
<1> QED BY <1>1, <1>2, <1>3, <1>4 DEF ChecksInv

\* What is known inside a check.
LEMMA InsideIs ==
  ASSUME ChecksInv, pc = "check"
  PROVE  /\ in \in Inputs /\ at \in DOMAIN in.tasks
         /\ work \in Work /\ led \in [collections : Nat, rows : Nat, dispositive : BOOLEAN]
         /\ LedgerCounts /\ (in.reconciled => TapCovers)
         /\ (task.exempt => work.rows = {} /\ work.categories = {})
         /\ task.sweeps \subseteq DOMAIN in.names
         /\ (task.sweeps # {} => ~task.exempt)
BY TaskIs DEF ChecksInv, ChecksTypeOK, Running

\* One more thing done is still within the bound.
LEMMA StepsIs ==
  ASSUME work \in Work, MaxWork \in Nat, work.steps < MaxWork
  PROVE  /\ Steps \in Work
         /\ Steps.rows = work.rows /\ Steps.categories = work.categories
         /\ Steps.collections = work.collections /\ Steps.examined = work.examined
         /\ Steps.attested = work.attested
<1>1. work.steps + 1 \in 0..MaxWork
  BY DEF Work
<1> DEFINE n == work.steps + 1
<1> HIDE DEF n
<1>2. Steps = [work EXCEPT !.steps = n]
  BY DEF Steps, n
<1> QED BY <1>1, <1>2 DEF Work, n

LEMMA ReadKeyStep ==
  ASSUME ChecksInv, NEW c \in DOMAIN in.names, NEW k \in Keys, ReadKey(c, k)
  PROVE  ChecksInv'
<1>1. /\ pc = "check" /\ work.steps < MaxWork /\ ~task.exempt
      /\ tap' = note_read({<<c, k>>, <<c, "">>})
      /\ work' = [Steps EXCEPT !.rows = @ \cup {<<c, k>>}, !.categories = @ \cup {c}]
      /\ in' = in /\ at' = at /\ pc' = pc /\ led' = led
      /\ evidence' = evidence /\ report' = report
  BY DEF ReadKey, Working, Inside
<1>2. work \in Work /\ MaxWork \in Nat /\ k # ""
  BY <1>1, InsideIs, ChecksAssumption
<1>3. /\ Steps \in Work
      /\ Steps.rows = work.rows /\ Steps.categories = work.categories
      /\ Steps.collections = work.collections /\ Steps.examined = work.examined
      /\ Steps.attested = work.attested
  BY <1>1, <1>2, StepsIs
<1>4. /\ work'.rows = work.rows \cup {<<c, k>>}
      /\ work'.categories = work.categories \cup {c}
      /\ work'.collections = work.collections
      /\ work'.examined = work.examined
      /\ work'.attested = work.attested
  BY <1>1, <1>2, <1>3 DEF Work
<1>5. work' \in Work
  <2>1. <<c, k>> \in Categories \X AllNames /\ c \in Categories
    BY DEF Categories, AllNames
  <2> QED BY <1>1, <1>3, <2>1 DEF Work
<1>6. LedgerCounts'
  BY <1>1, <1>4, InsideIs DEF LedgerCounts
<1>7. ASSUME in.reconciled PROVE TapCovers'
  <2>1. tap' = tap \cup {<<c, k>>, <<c, "">>} /\ TapCovers
    BY <1>1, <1>7, InsideIs DEF note_read
  <2>2. task' = task
    BY <1>1 DEF task
  <2>3. \A p \in tap' : p[2] = "" \/ <<p[1], "">> \in tap'
    <3> TAKE p \in tap'
    <3>1. CASE p \in tap
      BY <2>1, <3>1 DEF TapCovers
    <3>2. CASE p = <<c, k>>
      BY <2>1, <3>2
    <3>3. CASE p = <<c, "">>
      BY <3>3
    <3> QED BY <2>1, <3>1, <3>2, <3>3
  <2>4. \A d \in work'.categories : <<d, "">> \in tap'
    BY <1>4, <2>1 DEF TapCovers
  <2>5. \A p \in work'.rows : (p \in tap' /\ p[2] # "") \/ p[1] \in task.sweeps
    <3> TAKE p \in work'.rows
    <3>1. CASE p \in work.rows
      BY <2>1, <3>1 DEF TapCovers
    <3>2. CASE p = <<c, k>>
      BY <1>2, <2>1, <3>2
    <3> QED BY <1>4, <3>1, <3>2
  <2> QED BY <2>2, <2>3, <2>4, <2>5 DEF TapCovers
<1> QED BY <1>1, <1>5, <1>6, <1>7, InsideIs, InsideStep

LEMMA SweepStep ==
  ASSUME ChecksInv, NEW c \in DOMAIN in.names, Sweep(c)
  PROVE  ChecksInv'
<1> DEFINE swept == {p \in Pairs : p[1] = c}
<1>1. /\ pc = "check" /\ work.steps < MaxWork /\ c \in task.sweeps
      /\ tap' = note_read({<<c, "">>})
      /\ work' = [Steps EXCEPT !.rows = @ \cup swept, !.categories = @ \cup {c}]
      /\ in' = in /\ at' = at /\ pc' = pc /\ led' = led
      /\ evidence' = evidence /\ report' = report
  BY DEF Sweep, Working, Inside
<1>2. work \in Work /\ MaxWork \in Nat /\ ~task.exempt
  BY <1>1, InsideIs, ChecksAssumption
<1>3. swept \subseteq Categories \X AllNames /\ \A p \in swept : p[1] = c
  BY DEF Pairs, Categories, AllNames
<1> HIDE DEF swept
<1>4. /\ Steps \in Work
      /\ Steps.rows = work.rows /\ Steps.categories = work.categories
      /\ Steps.collections = work.collections /\ Steps.examined = work.examined
      /\ Steps.attested = work.attested
  BY <1>1, <1>2, StepsIs
<1>5. /\ work'.rows = work.rows \cup swept
      /\ work'.categories = work.categories \cup {c}
      /\ work'.collections = work.collections
      /\ work'.examined = work.examined
      /\ work'.attested = work.attested
  BY <1>1, <1>2, <1>4 DEF Work
<1>6. work' \in Work
  BY <1>1, <1>3, <1>4 DEF Work, Categories
<1>7. LedgerCounts'
  BY <1>1, <1>5, InsideIs DEF LedgerCounts
<1>8. ASSUME in.reconciled PROVE TapCovers'
  <2>1. tap' = tap \cup {<<c, "">>} /\ TapCovers
    BY <1>1, <1>8, InsideIs DEF note_read
  <2>2. task' = task
    BY <1>1 DEF task
  <2>3. \A p \in tap' : p[2] = "" \/ <<p[1], "">> \in tap'
    <3> TAKE p \in tap'
    <3>1. CASE p \in tap
      BY <2>1, <3>1 DEF TapCovers
    <3>2. CASE p = <<c, "">>
      BY <3>2
    <3> QED BY <2>1, <3>1, <3>2
  <2>4. \A d \in work'.categories : <<d, "">> \in tap'
    BY <1>5, <2>1 DEF TapCovers
  <2>5. \A p \in work'.rows : (p \in tap' /\ p[2] # "") \/ p[1] \in task.sweeps
    BY <1>1, <1>3, <1>5, <2>1 DEF TapCovers
  <2> QED BY <2>2, <2>3, <2>4, <2>5 DEF TapCovers
<1> QED BY <1>1, <1>2, <1>6, <1>7, <1>8, InsideIs, InsideStep

LEMMA ExamineStep ==
  ASSUME ChecksInv, NEW n \in {0, 1}, Examine(n)
  PROVE  ChecksInv'
<1>1. /\ pc = "check" /\ work.steps < MaxWork
      /\ led' = [led EXCEPT !.collections = @ + 1, !.rows = @ + n]
      /\ work' = [Steps EXCEPT !.collections = @ + 1, !.examined = @ + n]
      /\ in' = in /\ at' = at /\ pc' = pc /\ tap' = tap
      /\ evidence' = evidence /\ report' = report
  BY DEF Examine, Working, Inside
<1>2. /\ work \in Work /\ MaxWork \in Nat
      /\ led \in [collections : Nat, rows : Nat, dispositive : BOOLEAN]
  BY <1>1, InsideIs, ChecksAssumption
<1>3. /\ Steps \in Work
      /\ Steps.rows = work.rows /\ Steps.categories = work.categories
      /\ Steps.collections = work.collections /\ Steps.examined = work.examined
      /\ Steps.attested = work.attested
  BY <1>1, <1>2, StepsIs
<1> DEFINE wc == work.collections + 1
           we == work.examined + n
           lr == led.rows + n
           lc == led.collections + 1
<1>4. /\ wc \in Nat /\ we \in Nat /\ lr \in Nat /\ lc \in Nat
      /\ lc = wc <=> led.collections = work.collections
      /\ led.rows = work.examined => lr = we
  <2>1. /\ work.collections \in Nat /\ work.examined \in Nat
        /\ led.collections \in Nat /\ led.rows \in Nat
    BY <1>2 DEF Work
  <2>2. n \in Nat
    OBVIOUS
  <2> QED BY <2>1, <2>2
<1>5. /\ work'.rows = work.rows
      /\ work'.categories = work.categories
      /\ work'.collections = wc
      /\ work'.examined = we
      /\ work'.attested = work.attested
      /\ work' \in Work
  <2>1. work' = [Steps EXCEPT !.collections = wc, !.examined = we]
    BY <1>1, <1>3
  <2> HIDE DEF wc, we
  <2> QED BY <1>3, <1>4, <2>1 DEF Work
<1>6. /\ led'.collections = lc
      /\ led'.rows = lr
      /\ led'.dispositive = led.dispositive
      /\ led' \in [collections : Nat, rows : Nat, dispositive : BOOLEAN]
  <2>1. led' = [led EXCEPT !.collections = lc, !.rows = lr]
    BY <1>1
  <2> HIDE DEF lc, lr
  <2> QED BY <1>2, <1>4, <2>1
<1>7. LedgerCounts'
  BY <1>1, <1>5, <1>6, <1>4, InsideIs DEF LedgerCounts
<1>8. in.reconciled => TapCovers'
  BY <1>1, <1>5, InsideIs DEF TapCovers, task
<1> QED BY <1>1, <1>5, <1>6, <1>7, <1>8, InsideIs, InsideStep

LEMMA AttestStep ==
  ASSUME ChecksInv, Attest
  PROVE  ChecksInv'
<1>1. /\ pc = "check" /\ work.steps < MaxWork
      /\ led' = [led EXCEPT !.dispositive = TRUE]
      /\ work' = [Steps EXCEPT !.attested = TRUE]
      /\ in' = in /\ at' = at /\ pc' = pc /\ tap' = tap
      /\ evidence' = evidence /\ report' = report
  BY DEF Attest, Working, Inside
<1>2. /\ work \in Work /\ MaxWork \in Nat
      /\ led \in [collections : Nat, rows : Nat, dispositive : BOOLEAN]
  BY <1>1, InsideIs, ChecksAssumption
<1>3. /\ Steps \in Work
      /\ Steps.rows = work.rows /\ Steps.categories = work.categories
      /\ Steps.collections = work.collections /\ Steps.examined = work.examined
      /\ Steps.attested = work.attested
  BY <1>1, <1>2, StepsIs
<1>4. /\ work'.rows = work.rows
      /\ work'.categories = work.categories
      /\ work'.collections = work.collections
      /\ work'.examined = work.examined
      /\ work'.attested = TRUE
      /\ work' \in Work
  BY <1>1, <1>2, <1>3 DEF Work
<1>5. /\ led'.collections = led.collections
      /\ led'.rows = led.rows
      /\ led'.dispositive = TRUE
      /\ led' \in [collections : Nat, rows : Nat, dispositive : BOOLEAN]
  BY <1>1, <1>2
<1>6. LedgerCounts'
  BY <1>1, <1>4, <1>5, InsideIs DEF LedgerCounts
<1>7. in.reconciled => TapCovers'
  BY <1>1, <1>4, InsideIs DEF TapCovers, task
<1> QED BY <1>1, <1>4, <1>5, <1>6, <1>7, InsideIs, InsideStep

\* The verdicts given outside a check's answer are sound whatever was done.
LEMMA PlainVerdicts ==
  ASSUME NEW s \in Statuses, NEW done
  PROVE  /\ Verdict("builtin", s, s) \in VerdictsAbout({at})
         /\ Synthesised \in VerdictsAbout({at})
         /\ Sound(Verdict("builtin", s, s), done)
         /\ Sound(Synthesised, done)
<1>1. Verdict("builtin", s, s) \in VerdictsAbout({at}) /\ Synthesised \in VerdictsAbout({at})
  BY DEF Verdict, Synthesised, VerdictsAbout, Voices, Statuses
<1>2. /\ Verdict("builtin", s, s).by = "builtin"
      /\ Verdict("builtin", s, s).said = s /\ Verdict("builtin", s, s).status = s
      /\ Synthesised.by = "registry"
      /\ Synthesised.said = "unverified" /\ Synthesised.status = "unverified"
  BY DEF Verdict, Synthesised
<1>3. Sound(Verdict("builtin", s, s), done)
  BY <1>2 DEF Sound
<1>4. Sound(Synthesised, done)
  BY <1>2 DEF Sound
<1> QED BY <1>1, <1>3, <1>4

\* Nothing done is work of the right shape.
LEMMA NoWorkIs ==
  ASSUME MaxWork \in Nat
  PROVE  NoWork \in Work
BY DEF NoWork, Work

\* What is known between tasks.
LEMMA IdleIs ==
  ASSUME ChecksInv, Idle
  PROVE  in \in Inputs /\ at \in DOMAIN in.tasks /\ MaxWork \in Nat /\ NoWork \in Work
BY ChecksAssumption, NoWorkIs DEF ChecksInv, ChecksTypeOK, Idle

\* One verdict ends a task soundly.
LEMMA OneVerdict ==
  ASSUME NEW v \in VerdictsAbout({at}), NEW done, Sound(v, done)
  PROVE  /\ <<v>> \in Seq(VerdictsAbout({at}))
         /\ \A n \in DOMAIN <<v>> : Sound(<<v>>[n], done)
OBVIOUS

LEMMA GroundExistenceStep ==
  ASSUME ChecksInv, GroundExistence
  PROVE  ChecksInv'
<1> DEFINE s == ground_existence(task.category, task.key)
           v == Verdict("reasoner", s, s)
<1>1. /\ Idle /\ task.tier = "existence"
      /\ Finish(<<v>>, NoWork, <<s>>, "returned")
      /\ in' = in /\ led' = led /\ work' = work
  BY DEF GroundExistence
<1>2. s \in Statuses /\ s # "contradicted"
  BY DEF ground_existence, Statuses
<1>3. v \in VerdictsAbout({at})
  BY <1>2 DEF Verdict, VerdictsAbout, Voices
<1>4. /\ v.by = "reasoner" /\ v.said = s /\ v.status = s
      /\ in.tasks[v.task] = task
  BY DEF Verdict, task
<1>5. s = "ungrounded" => task.category \in in.provable /\ task.key \notin in.names[task.category]
  BY DEF ground_existence
<1> HIDE DEF s, v
<1>6. Sound(v, NoWork)
  BY <1>2, <1>4, <1>5 DEF Sound
<1>7. /\ <<v>> \in Seq(VerdictsAbout({at}))
      /\ \A n \in DOMAIN <<v>> : Sound(<<v>>[n], NoWork)
  BY <1>3, <1>6, OneVerdict
<1>8. <<s>> \in Seq(Statuses) /\ "returned" \in Ends
  BY <1>2 DEF Ends
<1> QED BY <1>1, <1>7, <1>8, IdleIs, FinishStep

LEMMA RefuseStep ==
  ASSUME ChecksInv, RefuseIncomplete
  PROVE  ChecksInv'
<1>1. /\ Idle
      /\ Finish(<<Synthesised>>, NoWork, <<>>, "refused")
      /\ in' = in /\ led' = led /\ work' = work
  BY DEF RefuseIncomplete
<1>2. Synthesised \in VerdictsAbout({at}) /\ Sound(Synthesised, NoWork)
  BY PlainVerdicts DEF Statuses
<1>3. /\ <<Synthesised>> \in Seq(VerdictsAbout({at}))
      /\ \A n \in DOMAIN <<Synthesised>> : Sound(<<Synthesised>>[n], NoWork)
  BY <1>2, OneVerdict
<1>4. <<>> \in Seq(Statuses) /\ "refused" \in Ends
  BY DEF Ends
<1> QED BY <1>1, <1>3, <1>4, IdleIs, FinishStep

LEMMA OpenStep ==
  ASSUME ChecksInv, Open
  PROVE  ChecksInv'
<1>1. /\ Idle /\ task.tier \in {"claim", "document", "pair"}
      /\ tap' = {} /\ led' = FreshLedger /\ work' = NoWork /\ pc' = "check"
      /\ in' = in /\ at' = at /\ evidence' = evidence /\ report' = report
  BY DEF Open
<1>2. at \in DOMAIN in.tasks /\ NoWork \in Work
  BY <1>1, IdleIs
<1>3. /\ work'.rows = {} /\ work'.categories = {} /\ work'.collections = 0
      /\ work'.examined = 0 /\ work'.attested = FALSE
  BY <1>1 DEF NoWork
<1>4. /\ led' \in [collections : Nat, rows : Nat, dispositive : BOOLEAN]
      /\ led'.collections = 0 /\ led'.rows = 0 /\ led'.dispositive = FALSE
  BY <1>1 DEF FreshLedger
<1>5. ChecksTypeOK'
  BY <1>1, <1>2, <1>4, SameInputs DEF ChecksInv, ChecksTypeOK
<1>6. task' = task
  BY <1>1 DEF task
<1>7. LedgerCounts' /\ TapCovers'
  BY <1>1, <1>3, <1>4 DEF LedgerCounts, TapCovers
<1>8. Running'
  BY <1>1, <1>3, <1>6, <1>7 DEF Running
<1>9. ReportSound' /\ Regraded'
  BY <1>1, SameInputs DEF ChecksInv, ReportSound, Regraded
<1> QED BY <1>5, <1>8, <1>9 DEF ChecksInv

LEMMA UncheckedStep ==
  ASSUME ChecksInv, ClaimUnchecked
  PROVE  ChecksInv'
<1>1. /\ Idle /\ in' = in /\ led' = led /\ work' = work
  BY DEF ClaimUnchecked
<1>2. PICK s \in BuiltinAnswers : Finish(ClaimTail(<<>>, s), NoWork, <<>>, "unchecked")
  BY DEF ClaimUnchecked
<1>3. s \in Statuses
  BY DEF BuiltinAnswers, Statuses
<1> DEFINE tail == ClaimTail(<<>>, s)
<1>4. /\ tail \in Seq(VerdictsAbout({at}))
      /\ \A n \in DOMAIN tail : tail[n] \in {Verdict("builtin", s, s), Synthesised}
  <2> DEFINE none == <<>>
  <2>1. none \in Seq(VerdictsAbout({at})) /\ DOMAIN none = {}
    OBVIOUS
  <2> HIDE DEF none
  <2>2. /\ ClaimTail(none, s) \in Seq(VerdictsAbout({at}))
        /\ \A n \in DOMAIN ClaimTail(none, s) :
             \/ n \in DOMAIN none /\ ClaimTail(none, s)[n] = none[n]
             \/ ClaimTail(none, s)[n] \in {Verdict("builtin", s, s), Synthesised}
    BY <2>1, TailVerdicts
  <2>3. \A n \in DOMAIN ClaimTail(none, s) : n \notin DOMAIN none
    BY <2>1
  <2> QED BY <2>2, <2>3 DEF none
<1>5. \A n \in DOMAIN tail : Sound(tail[n], NoWork)
  BY <1>3, <1>4, PlainVerdicts
<1> HIDE DEF tail
<1>6. <<>> \in Seq(Statuses) /\ "unchecked" \in Ends /\ Finish(tail, NoWork, <<>>, "unchecked")
  BY <1>2 DEF Ends, tail
<1> QED BY <1>1, <1>4, <1>5, <1>6, IdleIs, FinishStep

LEMMA ReturnStep ==
  ASSUME ChecksInv, Return
  PROVE  ChecksInv'
<1>1. /\ pc = "check" /\ in' = in /\ led' = led /\ work' = work
  BY DEF Return, Inside
<1>2. PICK answer \in Returns, s \in BuiltinAnswers :
        Finish(ClaimTail([n \in DOMAIN answer |->
                            Verdict("check", answer[n], judged(answer[n]))], s),
               work, answer, "returned")
  BY DEF Return
<1>3. s \in Statuses /\ answer \in Seq(Statuses)
  <2>1. s \in Statuses
    BY DEF BuiltinAnswers, Statuses
  <2>2. "grounded" \in Statuses /\ "contradicted" \in Statuses
    BY DEF Statuses
  <2>3. CASE answer = <<>>
    BY <2>1, <2>3
  <2>4. CASE answer = <<"grounded", "contradicted">>
    BY <2>1, <2>2, <2>4
  <2>5. CASE \E a \in Statuses : answer = <<a>>
    BY <2>1, <2>5
  <2> QED BY <2>1, <2>3, <2>4, <2>5 DEF Returns
<1> DEFINE said == [n \in DOMAIN answer |-> Verdict("check", answer[n], judged(answer[n]))]
           tail == ClaimTail(said, s)
<1>4. \A n \in DOMAIN answer :
        /\ Verdict("check", answer[n], judged(answer[n])) \in VerdictsAbout({at})
        /\ Sound(Verdict("check", answer[n], judged(answer[n])), work)
  <2> TAKE n \in DOMAIN answer
  <2> DEFINE a == answer[n]
             v == Verdict("check", a, judged(a))
  <2>1. a \in Statuses
    BY <1>3
  <2> HIDE DEF a
  <2>2. judged(a) \in Statuses
    BY <2>1, JudgedStatus
  <2>3. v \in VerdictsAbout({at})
    BY <2>1, <2>2 DEF Verdict, VerdictsAbout, Voices
  <2>4. v.by = "check" /\ v.said = a /\ v.status = judged(a)
    BY DEF Verdict
  <2>5. ASSUME a = "contradicted", judged(a) # "contradicted"
        PROVE  (in.reconciled /\ in.policy = "abstain") \/ FromNothing(work)
    BY <1>1, <2>5, FindingSurvives DEF ChecksInv
  <2>6. judged(a) \in {"grounded", "contradicted"} => ~FromNothing(work)
    BY <1>1, <2>1, DecisionExamined DEF ChecksInv
  <2>7. in.reconciled /\ judged(a) = "grounded" => ~Questionable(work)
    BY <1>1, <2>1, PassIsClean DEF ChecksInv
  <2> HIDE DEF v
  <2>8. Sound(v, work)
    BY <2>4, <2>5, <2>6, <2>7 DEF Sound
  <2> QED BY <2>3, <2>8 DEF v, a
<1>5. said \in Seq(VerdictsAbout({at})) /\ DOMAIN said = DOMAIN answer
  <2>1. DOMAIN answer = 1..Len(answer) /\ Len(answer) \in Nat
    BY <1>3
  <2> DEFINE m == Len(answer)
  <2>2. said \in [1..m -> VerdictsAbout({at})]
    BY <1>4, <2>1
  <2> HIDE DEF said, m
  <2>3. m \in Nat /\ DOMAIN said = 1..m
    BY <2>1, <2>2 DEF m
  <2>4. said \in Seq(VerdictsAbout({at}))
    <3>1. \A S : \A f \in [1..m -> S] : f \in Seq(S)
      BY <2>3
    <3> QED BY <2>2, <3>1
  <2> QED BY <2>1, <2>3, <2>4 DEF m
<1>6. \A n \in DOMAIN said : Sound(said[n], work)
  BY <1>4
<1> HIDE DEF said
<1>7. /\ tail \in Seq(VerdictsAbout({at}))
      /\ \A n \in DOMAIN tail :
           \/ n \in DOMAIN said /\ tail[n] = said[n]
           \/ tail[n] \in {Verdict("builtin", s, s), Synthesised}
  BY <1>5, TailVerdicts
<1>8. \A n \in DOMAIN tail : Sound(tail[n], work)
  <2> TAKE n \in DOMAIN tail
  <2>1. CASE n \in DOMAIN said /\ tail[n] = said[n]
    BY <1>6, <2>1
  <2>2. CASE tail[n] \in {Verdict("builtin", s, s), Synthesised}
    BY <1>3, <2>2, PlainVerdicts
  <2> QED BY <1>7, <2>1, <2>2
<1>9. Finish(tail, work, answer, "returned") /\ "returned" \in Ends
  BY <1>2 DEF tail, said, Ends
<1> HIDE DEF tail
<1> QED BY <1>1, <1>3, <1>7, <1>8, <1>9, InsideIs, FinishStep

LEMMA RaiseStep ==
  ASSUME ChecksInv, Raise
  PROVE  ChecksInv'
<1>1. /\ pc = "check" /\ in' = in /\ led' = led /\ work' = work
  BY DEF Raise, Inside
<1>2. PICK s \in BuiltinAnswers : Finish(ClaimTail(<<Synthesised>>, s), work, <<>>, "raised")
  BY DEF Raise
<1>3. s \in Statuses
  BY DEF BuiltinAnswers, Statuses
<1> DEFINE said == <<Synthesised>>
           tail == ClaimTail(said, s)
<1>4. said \in Seq(VerdictsAbout({at})) /\ \A n \in DOMAIN said : said[n] = Synthesised
  BY <1>3, PlainVerdicts
<1> HIDE DEF said
<1>5. /\ tail \in Seq(VerdictsAbout({at}))
      /\ \A n \in DOMAIN tail :
           \/ n \in DOMAIN said /\ tail[n] = said[n]
           \/ tail[n] \in {Verdict("builtin", s, s), Synthesised}
  BY <1>4, TailVerdicts
<1>6. \A n \in DOMAIN tail : Sound(tail[n], work)
  BY <1>3, <1>4, <1>5, PlainVerdicts
<1>7. <<>> \in Seq(Statuses) /\ Finish(tail, work, <<>>, "raised") /\ "raised" \in Ends
  BY <1>2 DEF tail, said, Ends
<1> HIDE DEF tail
<1> QED BY <1>1, <1>5, <1>6, <1>7, InsideIs, FinishStep

LEMMA EvaluateStep ==
  ASSUME ChecksInv, Evaluate
  PROVE  ChecksInv'
<1> DEFINE pairs == {<<c, "">> : c \in task.sweeps}
           v(s) == Verdict("rule", s, adjudicate(s, pairs, FALSE))
<1>1. /\ Idle /\ task.tier = "rule" /\ in' = in /\ led' = led /\ work' = work
  BY DEF Evaluate
<1>2. PICK s \in Outcomes(task) : Finish(<<v(s)>>, Collected(task), <<s>>, "returned")
  BY DEF Evaluate
<1>3. s \in Statuses /\ s # "ungrounded"
  BY DEF Outcomes, Statuses
<1>4. ~rests_on_phantoms(pairs)
  <2>1. \A p \in pairs : p[2] = ""
    <3> TAKE p \in pairs
    <3>1. PICK c \in task.sweeps : p = <<c, "">>
      OBVIOUS
    <3> QED BY <3>1
  <2> HIDE DEF pairs
  <2> QED BY <2>1 DEF rests_on_phantoms
<1>5. adjudicate(s, pairs, FALSE) \in {s, "unverified"}
  BY DEF adjudicate
<1>6. s = "contradicted" /\ adjudicate(s, pairs, FALSE) # "contradicted"
        => in.reconciled /\ in.policy = "abstain"
  BY <1>4 DEF adjudicate
<1>7. in.reconciled /\ adjudicate(s, pairs, FALSE) = "grounded" => ~Questionable(Collected(task))
  BY <1>1, <1>5, RuleIsClean DEF ChecksInv
<1>8. v(s) \in VerdictsAbout({at})
  BY <1>3, <1>5 DEF Verdict, VerdictsAbout, Voices, Statuses
<1>9. v(s).by = "rule" /\ v(s).said = s /\ v(s).status = adjudicate(s, pairs, FALSE)
  BY DEF Verdict
<1> HIDE DEF v, pairs
<1>10. Sound(v(s), Collected(task))
  BY <1>6, <1>7, <1>9 DEF Sound
<1>11. /\ <<v(s)>> \in Seq(VerdictsAbout({at}))
       /\ \A n \in DOMAIN <<v(s)>> : Sound(<<v(s)>>[n], Collected(task))
  BY <1>8, <1>10, OneVerdict
<1>12. Collected(task) \in Work
  <2>1. task.sweeps \subseteq DOMAIN in.names
    BY <1>1, IdleIs, TaskIs
  <2>2. {p \in Pairs : p[1] \in task.sweeps} \subseteq Categories \X AllNames
    BY DEF Pairs, Categories, AllNames
  <2> QED BY <1>1, <2>1, <2>2, IdleIs DEF Collected, NoWork, Work, Categories
<1>13. <<s>> \in Seq(Statuses) /\ "returned" \in Ends
  BY <1>3 DEF Ends
<1> QED BY <1>1, <1>2, <1>11, <1>12, <1>13, IdleIs, FinishStep

LEMMA EvaluateNoneStep ==
  ASSUME ChecksInv, EvaluateNone
  PROVE  ChecksInv'
<1>1. /\ Idle /\ Finish(<<>>, NoWork, <<>>, "none")
      /\ in' = in /\ led' = led /\ work' = work
  BY DEF EvaluateNone
<1>2. /\ <<>> \in Seq(VerdictsAbout({at})) /\ <<>> \in Seq(Statuses) /\ "none" \in Ends
      /\ \A n \in DOMAIN <<>> : Sound(<<>>[n], NoWork)
  BY DEF Ends
<1> QED BY <1>1, <1>2, IdleIs, FinishStep

\* The post-pass changes nothing but the status of a reasoner's miss.
LEMMA PostpassIs ==
  ASSUME NEW T, NEW v \in VerdictsAbout(T)
  PROVE  /\ postpass_one(v) \in VerdictsAbout(T)
         /\ postpass_one(v).task = v.task /\ postpass_one(v).by = v.by
         /\ postpass_one(v).said = v.said
         /\ \/ postpass_one(v) = v
            \/ /\ v.by = "reasoner" /\ v.status = "ungrounded"
               /\ postpass_one(v).status = "unverified"
         /\ postpass_one(postpass_one(v)) = postpass_one(v)
<1> DEFINE r == postpass_one(v)
           w == [v EXCEPT !.status = "unverified"]
<1>1. \/ r = v
      \/ v.by = "reasoner" /\ v.status = "ungrounded" /\ r = w
  BY DEF postpass_one
<1>2. /\ w \in VerdictsAbout(T) /\ w.status = "unverified"
      /\ w.task = v.task /\ w.by = v.by /\ w.said = v.said
  BY DEF VerdictsAbout, Statuses
<1> HIDE DEF w
<1>3. r.status # "ungrounded" => postpass_one(r) = r
  <2> HIDE DEF r
  <2> QED BY DEF postpass_one
<1>4. CASE r = v
  BY <1>4
<1>5. CASE v.by = "reasoner" /\ v.status = "ungrounded" /\ r = w
  BY <1>2, <1>3, <1>5
<1> QED BY <1>1, <1>4, <1>5

LEMMA PostpassStep ==
  ASSUME ChecksInv, Postpass
  PROVE  ChecksInv'
<1> DEFINE S == VerdictsAbout(1..(at - 1))
<1>1. /\ report' = [n \in DOMAIN report |-> postpass_one(report[n])]
      /\ pc' = "done" /\ in' = in /\ at' = at /\ led' = led /\ work' = work
      /\ evidence' = evidence
  BY DEF Postpass
<1>2. report \in Seq(S)
  BY DEF ChecksInv, ChecksTypeOK, VerdictsAbout
<1> HIDE DEF S
<1>3. \A n \in DOMAIN report : report[n] \in S
  BY <1>2
<1>4. \A n \in DOMAIN report :
        /\ report'[n] \in S
        /\ report'[n].task = report[n].task /\ report'[n].by = report[n].by
        /\ report'[n].said = report[n].said
        /\ \/ report'[n] = report[n]
           \/ /\ report[n].by = "reasoner" /\ report[n].status = "ungrounded"
              /\ report'[n].status = "unverified"
        /\ postpass_one(report'[n]) = report'[n]
  BY <1>1, <1>3, PostpassIs DEF S
<1>5. DOMAIN report' = DOMAIN report
  BY <1>1
<1>6. report' \in Seq(S)
  <2>1. DOMAIN report = 1..Len(report) /\ Len(report) \in Nat
    BY <1>2
  <2>2. report' \in [1..Len(report) -> S]
    BY <1>1, <1>4, <2>1
  <2> QED BY <2>1, <2>2, SeqDef
<1>7. ChecksTypeOK'
  BY <1>1, <1>6, SameInputs DEF ChecksInv, ChecksTypeOK, S, VerdictsAbout
<1>8. ReportSound'
  <2>1. ASSUME NEW n \in DOMAIN report
        PROVE  Sound(report'[n], evidence[report'[n].task].work)
    <3> DEFINE w == evidence[report[n].task].work
    <3>1. Sound(report[n], w)
      BY DEF ChecksInv, ReportSound
    <3> HIDE DEF w
    <3>2. Sound(report'[n], w)
      <4>1. CASE report'[n] = report[n]
        BY <3>1, <4>1
      <4>2. CASE /\ report[n].by = "reasoner" /\ report[n].status = "ungrounded"
                 /\ report'[n].status = "unverified"
        BY <1>4, <3>1, <4>2 DEF Sound
      <4> QED BY <1>4, <4>1, <4>2
    <3> QED BY <1>4, <3>2 DEF w
  <2> QED BY <1>1, <1>5, <2>1, SameInputs DEF ReportSound
<1>9. Regraded' /\ Running'
  BY <1>1, <1>4, <1>5, SameInputs DEF Regraded, Running
<1> QED BY <1>7, <1>8, <1>9 DEF ChecksInv

-----------------------------------------------------------------------------
(* The invariant and what follows from it.                                 *)

\* ground_policy starts with nothing done and nothing said.
LEMMA ChecksInit == Init => ChecksInv
<1> SUFFICES ASSUME Init PROVE ChecksInv
  OBVIOUS
<1>1. /\ in \in Inputs /\ at = 1 /\ pc = "next" /\ evidence = <<>> /\ report = <<>>
      /\ led = FreshLedger /\ work = NoWork
  BY DEF Init
<1>2. MaxWork \in Nat /\ in.tasks \in Seq(Tasks(in))
  BY <1>1, ChecksAssumption DEF WellFormed
<1>3. ChecksTypeOK
  <2>1. led \in [collections : Nat, rows : Nat, dispositive : BOOLEAN]
    BY <1>1 DEF FreshLedger
  <2>2. work \in Work
    BY <1>1, <1>2, NoWorkIs
  <2>3. at \in 1..(Len(in.tasks) + 1) /\ Len(evidence) = at - 1
    BY <1>1, <1>2
  <2> QED BY <1>1, <2>1, <2>2, <2>3 DEF ChecksTypeOK
<1> QED BY <1>1, <1>3 DEF ChecksInv, Running, ReportSound, Regraded

\* Every step of ground_policy keeps the invariant.
LEMMA ChecksStep == ChecksInv /\ [Next]_vars => ChecksInv'
<1> SUFFICES ASSUME ChecksInv, [Next]_vars PROVE ChecksInv'
  OBVIOUS
<1>1. CASE GroundExistence
  BY <1>1, GroundExistenceStep
<1>2. CASE RefuseIncomplete
  BY <1>2, RefuseStep
<1>3. CASE Open
  BY <1>3, OpenStep
<1>4. CASE ClaimUnchecked
  BY <1>4, UncheckedStep
<1>5. CASE Body
  <2>1. CASE \E c \in DOMAIN in.names, k \in Keys : ReadKey(c, k)
    BY <2>1, ReadKeyStep
  <2>2. CASE \E c \in DOMAIN in.names : Sweep(c)
    BY <2>2, SweepStep
  <2>3. CASE \E n \in {0, 1} : Examine(n)
    BY <2>3, ExamineStep
  <2>4. CASE Attest
    BY <2>4, AttestStep
  <2>5. CASE Return
    BY <2>5, ReturnStep
  <2>6. CASE Raise
    BY <2>6, RaiseStep
  <2> QED BY <1>5, <2>1, <2>2, <2>3, <2>4, <2>5, <2>6 DEF Body
<1>6. CASE Evaluate
  BY <1>6, EvaluateStep
<1>7. CASE EvaluateNone
  BY <1>7, EvaluateNoneStep
<1>8. CASE Postpass
  BY <1>8, PostpassStep
<1>9. CASE UNCHANGED vars
  <2>1. /\ in' = in /\ at' = at /\ pc' = pc /\ tap' = tap /\ led' = led /\ work' = work
        /\ evidence' = evidence /\ report' = report
    BY <1>9 DEF vars
  <2>2. ChecksTypeOK'
    BY <2>1, SameInputs DEF ChecksInv, ChecksTypeOK
  <2>3. Running'
    BY <2>1 DEF ChecksInv, Running, LedgerCounts, TapCovers, task
  <2>4. ReportSound' /\ Regraded'
    BY <2>1, SameInputs DEF ChecksInv, ReportSound, Regraded
  <2> QED BY <2>2, <2>3, <2>4 DEF ChecksInv
<1> QED BY <1>1, <1>2, <1>3, <1>4, <1>5, <1>6, <1>7, <1>8, <1>9 DEF Next

\* In every reachable state.
LEMMA ChecksAlways == Spec => []ChecksInv
BY ChecksInit, ChecksStep, PTL DEF Spec

\* The report and the evidence grow in step with the tasks, whatever a check
\* does or how it ends (preflight.ground_policy).
THEOREM ChecksTypeCorrect == Spec => []ChecksTypeOK
<1>1. ChecksInv => ChecksTypeOK
  BY DEF ChecksInv
<1> QED BY <1>1, ChecksAlways, PTL

\* No pass of a check or a rule over a merged view rests on a row or a table
\* in question, however the check mixed keyed reads and sweeps
\* (drift.adjudicate with registry.run_document_checks).
THEOREM PassesAreClean == Spec => []NoPassOnDisputedRow
<1>1. ChecksInv => NoPassOnDisputedRow
  BY DEF ChecksInv, ReportSound, Sound, NoPassOnDisputedRow, Reported, DoneFor
<1> QED BY <1>1, ChecksAlways, PTL

\* No check decides by having read only empty collections, unless it said why
\* that decides (registry._floored over evidence.ledger).
THEOREM DecisionsRestOnEvidence == Spec => []NothingDecidedOnNothing
<1>1. ChecksInv => NothingDecidedOnNothing
  BY DEF ChecksInv, ReportSound, Sound, NothingDecidedOnNothing, Reported, DoneFor
<1> QED BY <1>1, ChecksAlways, PTL

\* A finding is taken back only under the abstain policy or for a check that
\* examined nothing: no dispute in the estate silences one, not even where a
\* complete source says that every row the check read is gone.  The documented
\* exception for that case (drift.adjudicate, rule 3) is met by no read set a
\* check can leave, for a row looked up by key notes its table with it.
THEOREM FindingsAlwaysStand == Spec => []FindingsStand
<1>1. ChecksInv => FindingsStand
  BY DEF ChecksInv, ReportSound, Sound, FindingsStand, Reported, DoneFor
<1> QED BY <1>1, ChecksAlways, PTL

\* A name the finished report calls a hallucination is left out by a complete
\* enumeration, and no source's word about it is in question (drift.postpass).
THEOREM HallucinationsAreProven == Spec => []UngroundedIsProven
<1>1. ASSUME ChecksInv PROVE UngroundedIsProven
  <2> SUFFICES ASSUME NEW n \in DOMAIN report,
                      AboutName(report[n]), report[n].status = "ungrounded"
               PROVE  Proven(in.tasks[report[n].task])
    BY DEF UngroundedIsProven, Reported
  <2> DEFINE v == report[n]
             t == in.tasks[v.task]
  <2>1. in.reconciled /\ v.by = "reasoner" /\ pc = "done"
    BY DEF AboutName
  <2>2. t.category \in in.provable /\ t.key \notin in.names[t.category]
    BY <1>1, <2>1 DEF ChecksInv, ReportSound, Sound
  <2>3. postpass_one(v) = v
    BY <1>1, <2>1 DEF ChecksInv, Regraded
  <2>4. v \in VerdictsAbout(1..(at - 1))
    <3>1. report \in Seq(VerdictsAbout(1..(at - 1)))
      BY <1>1 DEF ChecksInv, ChecksTypeOK, VerdictsAbout
    <3> QED BY <3>1
  <2>5. [v EXCEPT !.status = "unverified"].status = "unverified"
    BY <2>4 DEF VerdictsAbout
  <2>6. /\ <<t.category, t.key>> \notin in.withheld
        /\ scope_of(t.category).scope = "complete"
        /\ ~in_question(t.category, t.key)
    BY <2>1, <2>3, <2>5 DEF postpass_one
  <2> QED BY <2>2, <2>6 DEF Proven
<1> QED BY <1>1, ChecksAlways, PTL
=============================================================================
