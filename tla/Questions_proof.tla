--------------------------- MODULE Questions_proof --------------------------
(***************************************************************************)
(* Proofs about the answers of the checks: that what each of them says of  *)
(* a document and an estate is true of packets, requests, values, grants   *)
(* and objects, for every document and every estate it can be asked about. *)
(***************************************************************************)
EXTENDS Questions, SequenceTheorems, FiniteSetTheorems, NaturalsInduction,
        WellFoundedInduction, TLAPS

-----------------------------------------------------------------------------
(* What is asked of sequences.                                             *)

\* Of some numbers the least is one of them, and none is less.
LEMMA SmallestNumber ==
  ASSUME NEW T, T \subseteq Nat, T # {}
  PROVE  Min(T) \in T /\ \A k \in T : Min(T) <= k
<1> DEFINE Below == OpToRel(<, Nat)
<1>1. \A k, m \in Nat : <<k, m>> \in Below <=> k < m
  BY DEF OpToRel
<1>2. IsWellFoundedOn(Below, Nat)
  BY NatLessThanWellFounded
<1> HIDE DEF Below
<1>3. PICK m \in T : \A k \in T : <<k, m>> \notin Below
  BY <1>2, WFMin
<1>4. \A k \in T : m <= k
  <2> SUFFICES ASSUME NEW k \in T PROVE m <= k
    OBVIOUS
  <2>1. m \in Nat /\ k \in Nat /\ ~(k < m)
    BY <1>1, <1>3
  <2> QED BY <2>1
<1> QED BY <1>4 DEF Min

-----------------------------------------------------------------------------
(* What is asked.                                                          *)

\* What the second questions are asked of is what the first ones read.
EstateIsRead == asked.of = "firewall-estate" => \E e \in Estates : asked.estate = Read(e)
ClosureIsRead ==
    asked.of = "closure" =>
        /\ asked.table \in Hierarchies
        /\ asked = [of |-> "closure", table |-> asked.table, facts |-> asked.facts,
                    changed |-> asked.changed]
PoliciesAreRead ==
    asked.of = "captured-policies" =>
        /\ asked.table \in OrgTables /\ asked.set \in OrgSettings
        /\ asked.record.value_type \in ValueTypes
Numbers == {"none", "n1", "n2"}
NumberIsRead == asked.of = "deny-estate" => asked.number \in Numbers
HierarchyIsRead ==
    asked.of = "captured-hierarchy" =>
        /\ asked.tree \in Trees /\ asked.vpc \in VpcRules
        /\ \E table \in Policies : asked.rules = table.rules
WorldIsRead == asked.of = "world" => asked.world \in Worlds /\ asked.how \in Spoils
QuestionIsRead ==
    /\ EstateIsRead /\ ClosureIsRead /\ PoliciesAreRead /\ NumberIsRead /\ HierarchyIsRead
    /\ WorldIsRead

\* A question of a kind is asked by the action of that kind.
LEMMA AskedBy ==
  ASSUME QuestionIsRead, [AskNext]_asked
  PROVE  \/ asked' = asked
         \/ AskEstate /\ asked'.of = "firewall-estate"
         \/ AskRule /\ asked'.of = "firewall-rule"
         \/ AskPair /\ asked'.of = "firewall-pair"
         \/ AskClosure /\ asked'.of = "closure"
         \/ Round /\ asked'.of = "closure"
         \/ AskHierarchy /\ asked'.of = "captured-hierarchy"
         \/ AskProposal /\ asked'.of = "proposed-policy-rule"
         \/ AskOrg /\ asked'.of = "captured-policies"
         \/ AskOrgDocument /\ asked'.of = "policy-document"
         \/ AskDenyEstate /\ asked'.of = "deny-estate"
         \/ AskGrant /\ asked'.of = "grant"
         \/ AskWake /\ asked'.of = "wake"
         \/ AskPerimeter /\ asked'.of = "perimeter"
         \/ AskEscalation /\ asked'.of = "escalation"
         \/ AskDenial /\ asked'.of = "denial"
         \/ AskWorld /\ asked'.of = "world"
         \/ AskArtifact /\ asked'.of = "artifact"
<1>1. AskEstate => asked'.of = "firewall-estate"
  BY DEF AskEstate
<1>2. AskRule => asked'.of = "firewall-rule"
  BY DEF AskRule
<1>3. AskPair => asked'.of = "firewall-pair"
  BY DEF AskPair
<1>4. AskClosure => asked'.of = "closure"
  BY DEF AskClosure
<1>5. Round => asked'.of = "closure"
  <2> SUFFICES ASSUME Round PROVE asked'.of = "closure"
    OBVIOUS
  <2>1. asked = [of |-> "closure", table |-> asked.table, facts |-> asked.facts,
                 changed |-> asked.changed]
    BY DEF Round, QuestionIsRead, ClosureIsRead
  <2>2. PICK facts : asked' = [asked EXCEPT !.facts = facts, !.changed = facts # asked.facts]
    BY DEF Round
  <2> QED BY <2>1, <2>2
<1>6. AskHierarchy => asked'.of = "captured-hierarchy"
  BY DEF AskHierarchy
<1>7. AskProposal => asked'.of = "proposed-policy-rule"
  BY DEF AskProposal
<1>8. AskOrg => asked'.of = "captured-policies"
  BY DEF AskOrg
<1>9. AskOrgDocument => asked'.of = "policy-document"
  BY DEF AskOrgDocument
<1>10. AskDenyEstate => asked'.of = "deny-estate"
  BY DEF AskDenyEstate
<1>11. AskGrant => asked'.of = "grant"
  BY DEF AskGrant
<1>12. AskWake => asked'.of = "wake"
  BY DEF AskWake
<1>13. AskPerimeter => asked'.of = "perimeter"
  BY DEF AskPerimeter
<1>14. AskEscalation => asked'.of = "escalation"
  BY DEF AskEscalation
<1>15. AskDenial => asked'.of = "denial"
  BY DEF AskDenial
<1>16. AskWorld => asked'.of = "world"
  BY DEF AskWorld
<1>17. AskArtifact => asked'.of = "artifact"
  BY DEF AskArtifact
<1> QED BY <1>1, <1>2, <1>3, <1>4, <1>5, <1>6, <1>7, <1>8, <1>9, <1>10, <1>11, <1>12, <1>13,
           <1>14, <1>15, <1>16, <1>17
        DEF AskNext, AskFirewall, AskHierarchyClosure, AskHierFirewall, AskOrgPolicy, AskDeny,
            AskRoles, AskTerraform

\* Every reachable question is one of these.
LEMMA QuestionsAreRead == AskSpec => []QuestionIsRead
<1>1. Unasked => QuestionIsRead
  BY DEF Unasked, Nothing, QuestionIsRead, EstateIsRead, ClosureIsRead, PoliciesAreRead,
       NumberIsRead, HierarchyIsRead, WorldIsRead
<1>2. QuestionIsRead /\ [AskNext]_asked => QuestionIsRead'
  <2> SUFFICES ASSUME QuestionIsRead, [AskNext]_asked PROVE QuestionIsRead'
    OBVIOUS
  <2>1. CASE asked' = asked
    BY <2>1 DEF QuestionIsRead, EstateIsRead, ClosureIsRead, PoliciesAreRead,
       NumberIsRead, HierarchyIsRead, WorldIsRead
  <2>2. CASE AskEstate
    BY <2>2 DEF AskEstate, QuestionIsRead, EstateIsRead, ClosureIsRead, PoliciesAreRead,
       NumberIsRead, HierarchyIsRead, WorldIsRead
  <2>3. CASE AskClosure
    BY <2>3 DEF AskClosure, QuestionIsRead, EstateIsRead, ClosureIsRead, PoliciesAreRead,
       NumberIsRead, HierarchyIsRead, WorldIsRead
  <2>4. CASE Round
    <3>1. /\ asked.of = "closure" /\ asked.table \in Hierarchies
          /\ asked = [of |-> "closure", table |-> asked.table, facts |-> asked.facts,
                      changed |-> asked.changed]
      BY <2>4 DEF Round, QuestionIsRead, ClosureIsRead
    <3>2. PICK facts : asked' = [asked EXCEPT !.facts = facts, !.changed = facts # asked.facts]
      BY <2>4 DEF Round
    <3>3. asked' = [of |-> "closure", table |-> asked.table, facts |-> facts,
                    changed |-> (facts # asked.facts)]
      BY <3>1, <3>2
    <3> QED BY <3>1, <3>3 DEF QuestionIsRead, EstateIsRead, ClosureIsRead, PoliciesAreRead,
       NumberIsRead, HierarchyIsRead, WorldIsRead
  <2>5. CASE AskOrg
    BY <2>5 DEF AskOrg, QuestionIsRead, EstateIsRead, ClosureIsRead, PoliciesAreRead,
       NumberIsRead, HierarchyIsRead, WorldIsRead
  <2>6. CASE AskDenyEstate
    <3>1. asked'.of = "deny-estate" /\ asked'.number \in Numbers
      BY <2>6 DEF AskDenyEstate, Numbers
    <3> QED BY <3>1 DEF QuestionIsRead, EstateIsRead, ClosureIsRead, PoliciesAreRead,
                        NumberIsRead, HierarchyIsRead, WorldIsRead
  <2>7. CASE AskHierarchy
    BY <2>7 DEF AskHierarchy, QuestionIsRead, EstateIsRead, ClosureIsRead, PoliciesAreRead,
       NumberIsRead, HierarchyIsRead, WorldIsRead
  <2>8. CASE AskWorld
    BY <2>8 DEF AskWorld, QuestionIsRead, EstateIsRead, ClosureIsRead, PoliciesAreRead,
       NumberIsRead, HierarchyIsRead, WorldIsRead
  <2>9. CASE asked'.of \notin {"firewall-estate", "closure", "captured-policies", "deny-estate",
                              "captured-hierarchy", "world"}
    BY <2>9 DEF QuestionIsRead, EstateIsRead, ClosureIsRead, PoliciesAreRead,
       NumberIsRead, HierarchyIsRead, WorldIsRead
  <2> QED BY <2>1, <2>2, <2>3, <2>4, <2>5, <2>6, <2>7, <2>8, <2>9, AskedBy
<1> QED BY <1>1, <1>2, PTL DEF AskSpec

-----------------------------------------------------------------------------
(* Firewall rules.                                                         *)

\* What normalising leaves alone and what it makes of a rule.
LEMMA NormalRuleIs ==
  ASSUME NEW doc \in RuleDocument
  PROVE  /\ NormalRule(doc).priority \in Int
         /\ NormalRule(doc).disabled \in BOOLEAN
         /\ NormalRule(doc).unsupported \in BOOLEAN
         /\ NormalRule(doc).name = doc.name
         /\ NormalRule(doc).network = doc.network
         /\ NormalRule(doc).unsupported \/ NormalRule(doc).action \in {"allow", "deny"}
<1> DEFINE D == DOMAIN doc \cup {"unsupported", "action"}
<1>1. /\ "priority" \in D /\ "disabled" \in D /\ "unsupported" \in D
      /\ "name" \in D /\ "network" \in D
  BY DEF RuleDocument
<1>2. NormalRule(doc).priority = IF doc.priority = NoPriority THEN 1000 ELSE doc.priority
  BY <1>1 DEF NormalRule
<1>3. /\ NormalRule(doc).disabled = doc.disabled
      /\ NormalRule(doc).unsupported = (Reasons(doc) # {})
      /\ NormalRule(doc).name = doc.name
      /\ NormalRule(doc).network = doc.network
  BY <1>1 DEF NormalRule
<1>4. CASE Cardinality(doc.entries) # 1
  <2>1. "action" \in Reasons(doc)
    BY <1>4 DEF Reasons
  <2>2. NormalRule(doc).unsupported
    BY <1>3, <2>1
  <2> QED BY <1>2, <1>3, <2>2 DEF RuleDocument
<1>5. CASE Cardinality(doc.entries) = 1
  <2>1. NormalRule(doc).action = CHOOSE a \in doc.entries : TRUE
    BY <1>1, <1>5 DEF NormalRule
  <2>2. doc.entries \subseteq {"allow", "deny"} /\ doc.entries # {}
    BY <1>5, FS_EmptySet DEF RuleDocument
  <2>3. NormalRule(doc).action \in {"allow", "deny"}
    BY <2>1, <2>2
  <2> QED BY <1>2, <1>3, <2>3 DEF RuleDocument
<1> QED BY <1>4, <1>5

\* The rules of an estate have integer priorities, and two of one network
\* and one name are one rule.
LEMMA EstateRules ==
  ASSUME NEW e \in Estates
  PROVE  /\ \A r \in Range(Read(e)) : r.priority \in Int /\ r.disabled \in BOOLEAN
         /\ \A r, q \in Range(Read(e)) : r.network = q.network /\ r.name = q.name => r = q
<1>1. e \in Seq(RuleDocument)
  BY FirewallAssumption
<1>2. /\ DOMAIN Read(e) = 1..Len(e)
      /\ \A i \in 1..Len(e) : e[i] \in RuleDocument /\ Read(e)[i] = NormalRule(e[i])
  BY <1>1 DEF Read
<1>3. \A r \in Range(Read(e)) : \E i \in 1..Len(e) : r = NormalRule(e[i]) /\ e[i] \in RuleDocument
  BY <1>2 DEF Range
<1>4. \A i, j \in 1..Len(e) : e[i].network = e[j].network /\ e[i].name = e[j].name => i = j
  BY FirewallAssumption
<1> QED BY <1>3, <1>4, NormalRuleIs

\* A rule all of whose packets rules before it decide changes nothing.
LEMMA UnreachableChangesNothing ==
  ASSUME NEW rest, NEW rule, NEW p,
         \A r \in rest : r.priority \in Int, rule.priority \in Int,
         p \in rule_match(rule) =>
           \E r \in rest : /\ r.direction = rule.direction /\ ~r.disabled
                           /\ Outranks(r, rule) /\ p \in rule_match(r)
  PROVE  Allowed(rest, rule.direction, p) = Allowed(rest \cup {rule}, rule.direction, p)
<1> DEFINE d == rule.direction
           Hits(R) == {r \in R : r.direction = d /\ ~r.disabled /\ p \in rule_match(r)}
           First(R) == {r \in Hits(R) : \A q \in Hits(R) : r.priority <= q.priority}
<1>1. CASE p \notin rule_match(rule)
  <2>1. Hits(rest \cup {rule}) = Hits(rest)
    BY <1>1
  <2> QED BY <2>1 DEF Allowed
<1>2. CASE p \in rule_match(rule) /\ ~rule.disabled
  <2>1. PICK r \in rest : /\ r.direction = d /\ ~r.disabled
                          /\ Outranks(r, rule) /\ p \in rule_match(r)
    BY <1>2
  <2>2. r \in Hits(rest) /\ Hits(rest \cup {rule}) = Hits(rest) \cup {rule}
    BY <1>2, <2>1
  <2>3. r.priority < rule.priority \/ (r.priority = rule.priority /\ r.action = "deny")
    BY <2>1 DEF Outranks
  <2>4. \A q \in First(rest) : q \in First(rest \cup {rule})
    BY <2>2, <2>3
  <2>5. \A q \in First(rest \cup {rule}) : q \in First(rest) \/ q = rule
    BY <2>2
  <2>6. rule \in First(rest \cup {rule}) => r \in First(rest) /\ r.action = "deny"
    BY <2>2, <2>3
  <2>7. (\A q \in First(rest) : q.action # "deny")
          <=> (\A q \in First(rest \cup {rule}) : q.action # "deny")
    BY <2>4, <2>5, <2>6
  <2> QED BY <2>2, <2>7 DEF Allowed
<1>3. CASE rule.disabled
  <2>1. Hits(rest \cup {rule}) = Hits(rest)
    BY <1>3
  <2> QED BY <2>1 DEF Allowed
<1> QED BY <1>1, <1>2, <1>3

\* An allow all of whose packets a deny before it decides, decides nothing.
LEMMA KilledDecidesNothing ==
  ASSUME NEW rest, NEW rule, NEW a \in rest, NEW p,
         \A r \in rest : r.priority \in Int, rule.priority \in Int,
         rule \notin rest, ~rule.disabled, rule.action = "deny",
         a.action = "allow", a.direction = rule.direction, ~a.disabled, Outranks(rule, a),
         rule_match(a) \subseteq rule_match(rule)
  PROVE  Allowed(rest \cup {rule}, rule.direction, p)
           = Allowed((rest \ {a}) \cup {rule}, rule.direction, p)
<1> DEFINE d == rule.direction
           Hits(R) == {r \in R : r.direction = d /\ ~r.disabled /\ p \in rule_match(r)}
           First(R) == {r \in Hits(R) : \A q \in Hits(R) : r.priority <= q.priority}
           With == rest \cup {rule}
           Less == (rest \ {a}) \cup {rule}
<1>1. CASE p \notin rule_match(a)
  <2>1. Hits(With) = Hits(Less)
    BY <1>1
  <2> QED BY <2>1 DEF Allowed
<1>2. CASE p \in rule_match(a)
  <2>1. /\ rule \in Hits(With) /\ rule \in Hits(Less) /\ a \in Hits(With)
        /\ Hits(Less) = Hits(With) \ {a}
    BY <1>2
  <2>2. rule.priority <= a.priority
    BY DEF Outranks
  <2>3. \A q \in Hits(Less) : q \in First(With) <=> q \in First(Less)
    BY <2>1, <2>2
  <2>4. First(Less) \subseteq Hits(Less) /\ First(With) \subseteq Hits(Less) \cup {a}
    BY <2>1
  <2>5. (\A q \in First(With) : q.action # "deny")
          <=> (\A q \in First(Less) : q.action # "deny")
    BY <2>3, <2>4
  <2> QED BY <2>1, <2>5 DEF Allowed
<1> QED BY <1>1, <1>2

\* A packet that a new allow lets past a deny of the estate, the estate alone
\* denying it, is one both match, and the allow comes before the deny.
LEMMA ReopenedIsOverlap ==
  ASSUME NEW rest, NEW rule, NEW p,
         \A r \in rest : r.priority \in Int, rule.priority \in Int,
         rule.action = "allow",
         \E r \in rest : /\ r.direction = rule.direction /\ ~r.disabled /\ p \in rule_match(r),
         Allowed(rest \cup {rule}, rule.direction, p), ~Allowed(rest, rule.direction, p)
  PROVE  \E r \in rest : /\ r.direction = rule.direction /\ ~r.disabled /\ r.action = "deny"
                         /\ p \in rule_match(r) /\ p \in rule_match(rule) /\ Outranks(rule, r)
<1> DEFINE d == rule.direction
           Hits(R) == {r \in R : r.direction = d /\ ~r.disabled /\ p \in rule_match(r)}
           First(R) == {r \in Hits(R) : \A q \in Hits(R) : r.priority <= q.priority}
           With == rest \cup {rule}
<1>1. Hits(rest) # {} /\ Hits(With) # {}
  OBVIOUS
<1>2. /\ \E r \in First(rest) : r.action = "deny"
      /\ \A r \in First(With) : r.action # "deny"
  BY <1>1 DEF Allowed
<1>3. PICK r \in First(rest) : r.action = "deny"
  BY <1>2
<1>4. r \notin First(With) /\ r \in Hits(With)
  BY <1>2, <1>3
<1>5. \E q \in Hits(With) : ~(r.priority <= q.priority)
  BY <1>4
<1>6. rule \in Hits(With) /\ ~(r.priority <= rule.priority)
  BY <1>5
<1>7. rule.priority < r.priority
  BY <1>6
<1> QED BY <1>3, <1>6, <1>7 DEF Outranks

\* The answers of the check against the estate, kind by kind.
LEMMA OpenExposureSays ==
  ASSUME NEW rule, NEW solver
  PROVE  \A v \in check_open_exposure(rule, solver) :
           /\ v.kind = "exposure"
           /\ v.status # "unverified" => ~rule.unsupported
BY DEF check_open_exposure, Finding, Abstain

Shadowing(rule, estate, solver) == check_firewall_shadowing(rule, estate, TRUE, solver)

LEMMA ShadowingSays ==
  ASSUME NEW rule, NEW estate, NEW solver, rule.unsupported \in BOOLEAN
  PROVE  \A v \in Shadowing(rule, estate, solver) :
           /\ v.kind # "exposure"
           /\ v.status # "unverified" =>
                /\ ~rule.unsupported /\ ~rule.disabled
                /\ v \in check_rule(rule, estate, solver)
BY DEF Shadowing, check_firewall_shadowing, check_rule, UnreachableProposal, ReopenedDeny, KilledAllow,
       Finding, Abstain

\* Each of the three comparisons has a kind of its own.
LEMMA KindsApart ==
  ASSUME NEW rule, NEW rules, NEW solver
  PROVE  /\ \A v \in UnreachableProposal(rule, rules, solver) :
              v = Abstain("shadow", rule.name) \/ v.kind = "shadow"
         /\ \A v \in ReopenedDeny(rule, rules, solver) :
              v.status = "unverified" \/ v.kind = "reopen"
         /\ \A v \in KilledAllow(rule, rules, solver) :
              v = Abstain("shadow", rule.name) \/ v.kind = "killed"
<1>1. \A v \in UnreachableProposal(rule, rules, solver) :
        v = Abstain("shadow", rule.name) \/ v = Finding("contradicted", "shadow", rule.name)
  BY DEF UnreachableProposal
<1>2. \A v \in ReopenedDeny(rule, rules, solver) :
        \/ v = Abstain("reopen", rule.name)
        \/ v = Finding("grounded", "reopen", rule.name)
        \/ v = Finding("contradicted", "reopen", rule.name)
  BY DEF ReopenedDeny
<1>3. \A v \in KilledAllow(rule, rules, solver) :
        v = Abstain("shadow", rule.name) \/ \E a : v = Finding("contradicted", "killed", a)
  BY DEF KilledAllow
<1>4. \A status, kind, a : /\ Finding(status, kind, a).kind = kind
                           /\ Finding(status, kind, a).status = status
  BY DEF Finding
<1>5. \A kind, a : Abstain(kind, a).status = "unverified"
  BY <1>4 DEF Abstain
<1> QED BY <1>1, <1>2, <1>3, <1>4, <1>5

\* A rule is called unreachable only behind the rules before it.
LEMMA ShadowFound ==
  ASSUME NEW rule, NEW estate, NEW solver,
         Finding("contradicted", "shadow", rule.name) \in check_rule(rule, estate, solver)
  PROVE  \A p \in rule_match(rule) :
           \E r \in Others(rule, estate) : Outranks(r, rule) /\ p \in rule_match(r)
<1> DEFINE higher == {r \in Others(rule, estate) : Outranks(r, rule)}
           lower == {r \in Others(rule, estate) : Outranks(rule, r)}
           v == Finding("contradicted", "shadow", rule.name)
<1> v.kind = "shadow" /\ v.status = "contradicted"
  BY DEF Finding
<1>2. v # Abstain("shadow", rule.name)
  BY DEF Finding, Abstain
<1>1. v \notin ReopenedDeny(rule, lower, solver) /\ v \notin KilledAllow(rule, lower, solver)
  BY <1>2, KindsApart
<1>3. v \in UnreachableProposal(rule, higher, solver)
  BY <1>1, <1>2 DEF check_rule
<1>4. rule_match(rule) \subseteq UNION {rule_match(r) : r \in higher}
  BY <1>2, <1>3 DEF UnreachableProposal
<1> QED BY <1>4

\* An allow is called killed only by a deny before it that matches it whole.
LEMMA KilledFound ==
  ASSUME NEW rule, NEW estate, NEW solver, NEW name,
         Finding("contradicted", "killed", name) \in check_rule(rule, estate, solver)
  PROVE  /\ rule.action = "deny"
         /\ \E a \in Others(rule, estate) :
              /\ a.name = name /\ a.action = "allow" /\ Outranks(rule, a)
              /\ rule_match(a) \subseteq rule_match(rule)
<1> DEFINE higher == {r \in Others(rule, estate) : Outranks(r, rule)}
           lower == {r \in Others(rule, estate) : Outranks(rule, r)}
           v == Finding("contradicted", "killed", name)
<1> v.kind = "killed" /\ v.status = "contradicted"
  BY DEF Finding
<1>2. v # Abstain("shadow", rule.name)
  BY DEF Finding, Abstain
<1>1. v \notin ReopenedDeny(rule, lower, solver) /\ v \notin UnreachableProposal(rule, higher, solver)
  BY <1>2, KindsApart
<1>3. rule.action = "deny" /\ v \in KilledAllow(rule, lower, solver)
  BY <1>1, <1>2 DEF check_rule
<1>4. PICK a \in lower : /\ a.action = "allow" /\ rule_match(a) # {}
                         /\ "killed" \in solver.hard
                               \/ rule_match(a) \subseteq rule_match(rule)
                         /\ v = IF "killed" \in solver.hard THEN Abstain("shadow", rule.name)
                                ELSE Finding("contradicted", "killed", a.name)
  BY <1>3 DEF KilledAllow
<1>5. "killed" \notin solver.hard /\ v = Finding("contradicted", "killed", a.name)
  BY <1>2, <1>4
<1>6. a.name = name
  BY <1>5 DEF Finding
<1> QED BY <1>3, <1>4, <1>5, <1>6

\* When every question about an allow is answered and none of the answers
\* speaks of a deny re-opened, none is: no public packet is in an overlap.
LEMMA QuietOpensNothing ==
  ASSUME NEW rule, NEW estate, NEW solver,
         rule.action = "allow", rule.unsupported = FALSE, rule.disabled = FALSE,
         \A v \in Shadowing(rule, estate, solver) :
            /\ v.status # "unverified"
            /\ v.kind = "reopen" => v.status = "grounded",
         NEW d \in Others(rule, estate), d.action = "deny", Outranks(rule, d),
         NEW p \in public(rule.direction), p \in rule_match(rule), p \in rule_match(d)
  PROVE  FALSE
<1> DEFINE lower == {r \in Others(rule, estate) : Outranks(rule, r)}
           overlap(r) == rule_match(rule) \cap rule_match(r)
           said == CASE "overlap" \in solver.hard -> {Abstain("reopen", rule.name)}
                     [] "overlap" \notin solver.hard /\ overlap(d) = {} -> {}
                     [] OTHER -> IF "public" \in solver.hard THEN {Abstain("reopen", rule.name)}
                                 ELSE {Finding(IF overlap(d) \cap public(rule.direction) = {}
                                               THEN "grounded" ELSE "contradicted",
                                               "reopen", rule.name)}
<1>1. \A k : Abstain(k, rule.name).status = "unverified"
  BY DEF Abstain, Finding
<1>2. Shadowing(rule, estate, solver) = check_rule(rule, estate, solver)
  BY <1>1 DEF Shadowing, check_firewall_shadowing
<1>3. ReopenedDeny(rule, lower, solver) \subseteq check_rule(rule, estate, solver)
  BY <1>1, <1>2 DEF check_rule
<1>4. said \subseteq ReopenedDeny(rule, lower, solver)
  BY DEF ReopenedDeny
<1>5. overlap(d) \cap public(rule.direction) # {}
  OBVIOUS
<1>6. Abstain("reopen", rule.name) \in said \/ Finding("contradicted", "reopen", rule.name) \in said
  BY <1>5
<1>7. /\ Finding("contradicted", "reopen", rule.name).status = "contradicted"
      /\ Finding("contradicted", "reopen", rule.name).kind = "reopen"
  BY DEF Finding
<1> QED BY <1>1, <1>2, <1>3, <1>4, <1>6, <1>7

\* The answer about one proposed rule, the estate being one that was read.
LEMMA AnswerIsTrue ==
  ASSUME NEW rule, NEW estate, NEW solver, NEW answer,
         rule.priority \in Int, rule.disabled \in BOOLEAN, rule.unsupported \in BOOLEAN,
         \A r \in Range(estate) : r.priority \in Int /\ r.disabled \in BOOLEAN,
         \A r, q \in Range(estate) : r.network = q.network /\ r.name = q.name => r = q,
         answer = check_open_exposure(rule, solver)
                    \cup Shadowing(rule, estate, solver)
  PROVE  TrueOfRule(rule, estate, answer)
<1> DEFINE rest == {r \in Range(estate) : r.network = rule.network /\ r.name # rule.name}
<1> DEFINE shadowing == Shadowing(rule, estate, solver)
<1>1. /\ rule.priority \in Int /\ rule.disabled \in BOOLEAN /\ rule.unsupported \in BOOLEAN
      /\ \A r \in rest : r.priority \in Int /\ r.disabled \in BOOLEAN
      /\ \A r, q \in rest : r.name = q.name => r = q
      /\ rule \notin rest
  OBVIOUS
<1>2. /\ Others(rule, estate) \subseteq rest
      /\ \A r \in Others(rule, estate) : r.direction = rule.direction /\ ~r.disabled
      /\ \A r \in rest : r.direction = rule.direction /\ ~r.disabled => r \in Others(rule, estate)
  BY DEF Others
<1>3. \A v \in answer : v.kind # "exposure" => v \in shadowing
  BY OpenExposureSays
<1>4. \A v \in answer : v.status # "unverified" => ~rule.unsupported
  <2>1. \A v \in shadowing : v.status # "unverified" => ~rule.unsupported
    BY <1>1, ShadowingSays
  <2>2. \A v \in check_open_exposure(rule, solver) : v.status # "unverified" => ~rule.unsupported
    BY OpenExposureSays
  <2> QED BY <2>1, <2>2
<1>5. \A k, about : Finding("contradicted", k, about).kind = k
                    /\ Finding("contradicted", k, about).status = "contradicted"
  BY DEF Finding
<1>6. \A k, about : k # "exposure" /\ Finding("contradicted", k, about) \in answer =>
        ~rule.disabled /\ Finding("contradicted", k, about) \in check_rule(rule, estate, solver)
  BY <1>1, <1>3, <1>5, ShadowingSays
<1>7. ASSUME Finding("contradicted", "shadow", rule.name) \in answer, NEW p
      PROVE  Allowed(rest, rule.direction, p) = Allowed(rest \cup {rule}, rule.direction, p)
  <2>1. p \in rule_match(rule) =>
          \E r \in rest : /\ r.direction = rule.direction /\ ~r.disabled
                          /\ Outranks(r, rule) /\ p \in rule_match(r)
    BY <1>2, <1>6, <1>7, ShadowFound
  <2> QED BY <1>1, <2>1, UnreachableChangesNothing
<1>8. ASSUME NEW a \in rest, Finding("contradicted", "killed", a.name) \in answer, NEW p
      PROVE  Allowed(rest \cup {rule}, rule.direction, p)
               = Allowed((rest \ {a}) \cup {rule}, rule.direction, p)
  <2>1. /\ ~rule.disabled
        /\ Finding("contradicted", "killed", a.name) \in check_rule(rule, estate, solver)
    BY <1>6, <1>8
  <2>2. /\ rule.action = "deny"
        /\ \E q \in Others(rule, estate) :
             /\ q.name = a.name /\ q.action = "allow" /\ Outranks(rule, q)
             /\ rule_match(q) \subseteq rule_match(rule)
    BY <2>1, KilledFound
  <2>3. /\ a.action = "allow" /\ Outranks(rule, a) /\ a.direction = rule.direction
        /\ ~a.disabled /\ rule_match(a) \subseteq rule_match(rule)
    BY <1>1, <1>2, <2>2
  <2>4. rule \notin rest /\ rule.action = "deny" /\ ~rule.disabled
    BY <1>1, <2>1, <2>2
  <2>5. \A r \in rest : r.priority \in Int
    BY <1>1
  <2> QED
    <3> HIDE DEF shadowing, rest
    <3> QED BY ONLY <1>1, <2>3, <2>4, <2>5, a \in rest, KilledDecidesNothing
<1>9. ASSUME ~rule.unsupported, rule.action = "allow", ~rule.disabled,
             \A v \in answer : v.kind = "reopen" => v.status = "grounded",
             ~\E v \in answer : v.status = "unverified",
             NEW p \in public(rule.direction), Allowed(rest \cup {rule}, rule.direction, p),
             \E r \in rest : /\ r.direction = rule.direction /\ ~r.disabled
                             /\ r.action = "deny" /\ p \in rule_match(r),
             ~Allowed(rest, rule.direction, p)
      PROVE  FALSE
  <2>1. PICK r \in rest : /\ r.direction = rule.direction /\ ~r.disabled /\ r.action = "deny"
                          /\ p \in rule_match(r) /\ p \in rule_match(rule) /\ Outranks(rule, r)
    BY <1>1, <1>9, ReopenedIsOverlap
  <2>2. r \in Others(rule, estate)
    BY <1>2, <2>1
  <2>3. \A v \in shadowing : /\ v.status # "unverified"
                             /\ v.kind = "reopen" => v.status = "grounded"
    BY <1>9
  <2>4. rule.unsupported = FALSE /\ rule.disabled = FALSE
    BY <1>1, <1>9
  <2> QED BY <1>9, <2>1, <2>2, <2>3, <2>4, QuietOpensNothing
<1> QED BY <1>4, <1>7, <1>8, <1>9 DEF TrueOfRule

\* Whatever is asked, the comparison with the estate is right about the effect
\* of a rule: one called unreachable changes nothing where it lands, an allow it
\* kills decides nothing afterwards, and an allow nobody contradicts lets no
\* public packet past a deny (fw_estate.py:265).
THEOREM ShadowingIsRight == AskSpec => []ShadowIsTrue
<1>1. Unasked => ShadowIsTrue
  BY DEF Unasked, Nothing, ShadowIsTrue
<1>2. QuestionIsRead /\ ShadowIsTrue /\ [AskNext]_asked => ShadowIsTrue'
  <2> SUFFICES ASSUME QuestionIsRead, ShadowIsTrue, [AskNext]_asked PROVE ShadowIsTrue'
    OBVIOUS
  <2>1. CASE asked' = asked
    BY <2>1 DEF ShadowIsTrue
  <2>2. CASE AskRule
    <3>1. PICK e \in Estates : asked.estate = Read(e)
      BY <2>2 DEF AskRule, QuestionIsRead, EstateIsRead
    <3>2. PICK doc \in Documents, solver \in Solvers :
            asked' = [of |-> "firewall-rule", rule |-> NormalRule(doc), estate |-> asked.estate,
                      solver |-> solver,
                      answer |-> check_open_exposure(NormalRule(doc), solver) \cup
                                 check_firewall_shadowing(NormalRule(doc), asked.estate, TRUE, solver)]
      BY <2>2 DEF AskRule
    <3> DEFINE rule == NormalRule(doc)
               answer == check_open_exposure(rule, solver)
                           \cup Shadowing(rule, Read(e), solver)
    <3>3. asked'.rule = rule /\ asked'.estate = Read(e) /\ asked'.answer = answer
      BY <3>1, <3>2 DEF Shadowing
    <3>4. /\ rule.priority \in Int /\ rule.disabled \in BOOLEAN /\ rule.unsupported \in BOOLEAN
          /\ \A r \in Range(Read(e)) : r.priority \in Int /\ r.disabled \in BOOLEAN
          /\ \A r, q \in Range(Read(e)) : r.network = q.network /\ r.name = q.name => r = q
      BY FirewallAssumption, NormalRuleIs, EstateRules
    <3>5. TrueOfRule(rule, Read(e), answer)
      BY <3>4, AnswerIsTrue
    <3> QED BY <3>3, <3>5 DEF ShadowIsTrue
  <2>3. CASE asked'.of # "firewall-rule"
    BY <2>3 DEF ShadowIsTrue
  <2> QED BY <2>1, <2>2, <2>3, AskedBy
<1> QED BY <1>1, <1>2, QuestionsAreRead, PTL DEF AskSpec

-----------------------------------------------------------------------------
(* Perimeters.                                                             *)

\* The lists of a document.
LEMMA ListsAre ==
  ASSUME NEW S, NEW l \in Lists(S)
  PROVE  /\ l.items \in Seq(S) /\ l.form \in {"list", "absent", "odd"}
         /\ l.form = "odd" <=> l = OddList
         /\ l.items = <<>> <=> Range(l.items) = {}
         /\ l.form # "odd" => Listed(l) = l
         /\ l.form = "odd" => Listed(l).items = <<>>
<1>1. /\ l.items \in Seq(S) /\ l.form \in {"list", "absent", "odd"}
      /\ l.form # "list" => l.items = <<>>
      /\ l = [form |-> l.form, items |-> l.items]
  BY DEF Lists
<1>2. l.form = "odd" <=> l = OddList
  BY <1>1 DEF OddList
<1>3. l.items = <<>> <=> Range(l.items) = {}
  <2>1. l.items = <<>> => Range(l.items) = {}
    BY DEF Range
  <2>2. l.items # <<>> => l.items[1] \in Range(l.items)
    BY <1>1 DEF Range
  <2> QED BY <2>1, <2>2
<1>4. /\ l.form # "odd" => Listed(l) = l
      /\ l.form = "odd" => Listed(l).items = <<>>
  BY DEF Listed, Given
<1> QED BY <1>1, <1>2, <1>3, <1>4

\* A list that can be read takes what its axis admits.
LEMMA AxisTakes ==
  ASSUME NEW S, NEW l \in Lists(S), l.form # "odd", NEW x
  PROVE  Admits(Literals(l), x) <=> Takes(l, x)
<1>1. Literals(l) = Axis("literals", Range(l.items))
  BY DEF Literals
<1>2. Literals(l).state = "literals" /\ Literals(l).literals = Range(l.items)
  BY <1>1 DEF Axis
<1> QED BY <1>2, ListsAre DEF Admits, Takes

\* The operations of a policy that has at most one: the axes of services and of
\* methods, when both can be read, admit what the operation performs.
LEMMA OperationsPerform ==
  ASSUME NEW ops \in Lists(OperationDocument), Len(ops.items) <= 1,
         ServiceAxis(ops) # UnreadableAxis, MethodAxis(ops) # UnreadableAxis, NEW q
  PROVE  /\ ops.form # "odd"
         /\ Admits(ServiceAxis(ops), q.service) /\ Admits(MethodAxis(ops), q.method)
              <=> \/ ops.items = <<>>
                  \/ \E o \in Range(ops.items) : Performs(o, q)
<1> DEFINE services == {o.service : o \in Range(ops.items)}
           lists == {o.methods : o \in Range(ops.items)}
<1>1. ops.items \in Seq(OperationDocument)
  BY ListsAre
<1>2. /\ ops.form # "odd" /\ "odd" \notin services /\ OddList \notin lists
      /\ ServiceAxis(ops) = Axis("literals", services \ {"none"})
      /\ MethodAxis(ops) = Axis("literals", UNION {Range(l.items) : l \in lists})
  BY DEF ServiceAxis, MethodAxis
<1>3. /\ ServiceAxis(ops).state = "literals" /\ ServiceAxis(ops).literals = services \ {"none"}
      /\ MethodAxis(ops).state = "literals"
      /\ MethodAxis(ops).literals = UNION {Range(l.items) : l \in lists}
  BY <1>2 DEF Axis
<1>4. CASE ops.items = <<>>
  <2>1. Range(ops.items) = {}
    BY <1>4 DEF Range
  <2>2. ServiceAxis(ops).literals = {} /\ MethodAxis(ops).literals = {}
    BY <1>3, <2>1
  <2> QED BY <1>2, <1>4, <2>2 DEF Admits
<1>5. CASE ops.items # <<>>
  <2>1. Len(ops.items) = 1 /\ ops.items[1] \in OperationDocument
    <3>1. Len(ops.items) \in Nat /\ Len(ops.items) <= 1
      BY <1>1, LenProperties
    <3>2. Len(ops.items) # 0
      BY <1>1, <1>5, EmptySeq
    <3>3. \A n \in Nat : n <= 1 /\ n # 0 => n = 1
      OBVIOUS
    <3>4. Len(ops.items) = 1
      BY <3>1, <3>2, <3>3, Zenon
    <3> QED BY <1>1, <3>4, ElementOfSeq
  <2> DEFINE op == ops.items[1]
  <2>2. Range(ops.items) = {op}
    BY <1>1, <2>1 DEF Range
  <2>3. services = {op.service} /\ lists = {op.methods}
    BY <2>2
  <2>4. op.service # "odd" /\ op.methods # OddList /\ op.methods \in Lists(STRING)
    BY <1>2, <2>1, <2>3 DEF OperationDocument
  <2>5. op.methods.form # "odd"
    BY <2>4, ListsAre
  <2>6. Admits(ServiceAxis(ops), q.service) <=> op.service \in {"none", "*", q.service}
    BY <1>3, <2>3 DEF Admits
  <2>7. MethodAxis(ops).literals = Range(op.methods.items)
    <3>1. UNION {Range(l.items) : l \in {op.methods}} = Range(op.methods.items)
      OBVIOUS
    <3> QED BY <1>3, <2>3, <3>1
  <2>8. Admits(MethodAxis(ops), q.method) <=> Takes(op.methods, q.method)
    <3>1. op.methods.items = <<>> <=> Range(op.methods.items) = {}
      BY <2>4, ListsAre
    <3> HIDE DEF op
    <3> QED BY <1>3, <2>5, <2>7, <3>1 DEF Admits, Takes
  <2> QED BY <1>2, <1>5, <2>2, <2>6, <2>8 DEF Performs
<1> QED BY <1>4, <1>5

\* The axes of a policy of at most one operation, when each can be read, admit
\* the requests it permits.
LEMMA AxesPermit ==
  ASSUME NEW policy \in PolicyDocument, Len(policy.operations.items) <= 1,
         \A a \in Axes : AxesOf(policy)[a] # UnreadableAxis, NEW q
  PROVE  (\A a \in Axes : Admits(AxesOf(policy)[a], q[a])) <=> PermitsOne(policy, q)
<1>1. /\ AxesOf(policy)["identity"] = IdentityAxis(policy)
      /\ AxesOf(policy)["service"] = ServiceAxis(policy.operations)
      /\ AxesOf(policy)["method"] = MethodAxis(policy.operations)
      /\ AxesOf(policy)["resource"] = Literals(policy.resources)
  BY DEF AxesOf
<1>2. /\ IdentityAxis(policy) # UnreadableAxis /\ ServiceAxis(policy.operations) # UnreadableAxis
      /\ MethodAxis(policy.operations) # UnreadableAxis
      /\ Literals(policy.resources) # UnreadableAxis
  BY <1>1 DEF Axes
<1>3. (\A a \in Axes : Admits(AxesOf(policy)[a], q[a])) <=>
        /\ Admits(IdentityAxis(policy), q.identity)
        /\ Admits(ServiceAxis(policy.operations), q.service)
        /\ Admits(MethodAxis(policy.operations), q.method)
        /\ Admits(Literals(policy.resources), q.resource)
  BY <1>1 DEF Axes
<1>4. /\ policy.identity_type \in {"none", "any", "odd"} /\ policy.identities \in Lists(STRING)
      /\ policy.resources \in Lists(STRING) /\ policy.operations \in Lists(OperationDocument)
  BY DEF PolicyDocument
<1>5. Admits(Literals(policy.resources), q.resource) <=> Takes(policy.resources, q.resource)
  <2>1. policy.resources.form # "odd"
    BY <1>2 DEF Literals
  <2> QED BY <1>4, <2>1, AxisTakes
<1>6. Admits(IdentityAxis(policy), q.identity) <=>
        \/ policy.identity_type = "any"
        \/ policy.identity_type = "none" /\ Takes(policy.identities, q.identity)
  <2>1. CASE policy.identity_type = "any"
    <3>1. IdentityAxis(policy).state = "wildcard"
      BY <2>1 DEF IdentityAxis, Axis
    <3> QED BY <2>1, <3>1 DEF Admits
  <2>2. CASE policy.identity_type = "none"
    <3>1. IdentityAxis(policy) = Literals(policy.identities)
      BY <2>2 DEF IdentityAxis
    <3>2. policy.identities.form # "odd"
      BY <1>2, <3>1 DEF Literals
    <3> QED BY <1>4, <2>2, <3>1, <3>2, AxisTakes
  <2>3. policy.identity_type # "odd"
    BY <1>2 DEF IdentityAxis
  <2> QED BY <1>4, <2>1, <2>2, <2>3
<1>7. /\ policy.operations.form # "odd"
      /\ Admits(ServiceAxis(policy.operations), q.service)
           /\ Admits(MethodAxis(policy.operations), q.method)
           <=> \/ policy.operations.items = <<>>
               \/ \E o \in Range(policy.operations.items) : Performs(o, q)
  BY <1>2, <1>4, OperationsPerform
<1> QED BY <1>3, <1>5, <1>6, <1>7 DEF PermitsOne

\* A legible policy is left as it is by normalising, as far as its axes tell,
\* and has no axis that cannot be read.
LEMMA LegibleAxes ==
  ASSUME NEW policy \in PolicyDocument, LegiblePolicy(policy)
  PROVE  /\ AxesOf(NormalPolicy(policy)) = AxesOf(policy)
         /\ \A a \in Axes : AxesOf(policy)[a] # UnreadableAxis
<1> DEFINE ops == policy.operations
           normal == NormalPolicy(policy)
<1>1. /\ policy.identity_type \in {"none", "any", "odd"} /\ policy.identities \in Lists(STRING)
      /\ policy.resources \in Lists(STRING) /\ ops \in Lists(OperationDocument)
  BY DEF PolicyDocument
<1>2. /\ policy.identity_type # "odd" /\ policy.identities.form # "odd"
      /\ policy.resources.form # "odd" /\ ops.form # "odd"
      /\ \A o \in Range(ops.items) : o.service # "odd" /\ o.methods # OddList
  BY <1>1, ListsAre DEF LegiblePolicy
<1>3. ops.items \in Seq(OperationDocument)
  BY <1>1, ListsAre
<1>4. \A i \in DOMAIN ops.items : NormalOperation(ops.items[i]) = ops.items[i]
  <2> SUFFICES ASSUME NEW i \in DOMAIN ops.items
               PROVE  NormalOperation(ops.items[i]) = ops.items[i]
    OBVIOUS
  <2>1. ops.items[i] \in OperationDocument /\ ops.items[i] \in Range(ops.items)
    BY <1>3 DEF Range
  <2> DEFINE o == ops.items[i]
  <2>2. o.service # "odd" /\ o.methods # OddList /\ o.methods \in Lists(STRING)
        /\ o = [service |-> o.service, methods |-> o.methods]
    BY <1>2, <2>1 DEF OperationDocument
  <2>3. Listed(o.methods) = o.methods
    BY <2>2, ListsAre
  <2> QED BY <2>2, <2>3 DEF NormalOperation
<1>5. [i \in DOMAIN ops.items |-> NormalOperation(ops.items[i])] = ops.items
  BY <1>3, <1>4
<1>6. /\ normal.identity_type = policy.identity_type /\ normal.identities = policy.identities
      /\ normal.resources = policy.resources /\ normal.operations = Given(ops.items)
  BY <1>1, <1>2, <1>5, ListsAre DEF NormalPolicy
<1>7. Given(ops.items).form = "list" /\ Given(ops.items).items = ops.items
  BY DEF Given
<1>8. /\ ServiceAxis(Given(ops.items)) = ServiceAxis(ops)
      /\ MethodAxis(Given(ops.items)) = MethodAxis(ops)
  BY <1>2, <1>7 DEF ServiceAxis, MethodAxis
<1>9. IdentityAxis(normal) = IdentityAxis(policy)
  BY <1>6 DEF IdentityAxis
<1>10. AxesOf(normal) = AxesOf(policy)
  BY <1>6, <1>8, <1>9 DEF AxesOf
<1>11. \A s, x : s \in {"literals", "wildcard"} => Axis(s, x) # UnreadableAxis
  BY DEF Axis, UnreadableAxis
<1>12. /\ IdentityAxis(policy) # UnreadableAxis /\ Literals(policy.resources) # UnreadableAxis
       /\ ServiceAxis(ops) # UnreadableAxis /\ MethodAxis(ops) # UnreadableAxis
  BY <1>2, <1>11 DEF IdentityAxis, Literals, ServiceAxis, MethodAxis
<1>13. \A a \in Axes : AxesOf(policy)[a] # UnreadableAxis
  BY <1>12 DEF Axes, AxesOf
<1> QED BY <1>10, <1>13

\* So for the policies of a direction, as written and as normalised.
LEMMA PoliciesPermit ==
  ASSUME NEW items \in Seq(PolicyDocument), NEW q,
         \A i \in DOMAIN items : /\ Len(items[i].operations.items) <= 1
                                 /\ \A a \in Axes : AxesOf(items[i])[a] # UnreadableAxis
  PROVE  AxesAllow(items, q) <=> \E p \in Range(items) : PermitsOne(p, q)
<1>1. \A i \in DOMAIN items : items[i] \in PolicyDocument
  OBVIOUS
<1>2. \A i \in DOMAIN items : (\A a \in Axes : Admits(AxesOf(items[i])[a], q[a]))
                                <=> PermitsOne(items[i], q)
  BY <1>1, AxesPermit
<1> QED BY <1>2 DEF AxesAllow, Range

LEMMA NormalPoliciesAllow ==
  ASSUME NEW items \in Seq(PolicyDocument), NEW q,
         \A i \in DOMAIN items : LegiblePolicy(items[i])
  PROVE  AxesAllow([i \in DOMAIN items |-> NormalPolicy(items[i])], q) <=> AxesAllow(items, q)
<1>1. \A i \in DOMAIN items : items[i] \in PolicyDocument
  OBVIOUS
<1>2. \A i \in DOMAIN items : AxesOf(NormalPolicy(items[i])) = AxesOf(items[i])
  BY <1>1, LegibleAxes
<1> QED BY <1>2 DEF AxesAllow

\* A direction of a configuration: what is given, and what normalising makes of it.
LEMMA DirectionIs ==
  ASSUME NEW config \in ConfigDocument, config # NoBlock, NEW d \in Directions
  PROVE  /\ config.policies[d] \in Lists(PolicyDocument)
         /\ config.policies[d].items \in Seq(PolicyDocument)
         /\ NormalConfig(config) # NoBlock
         /\ NormalConfig(config).resources = Listed(config.resources)
         /\ NormalConfig(config).restricted = Listed(config.restricted)
         /\ config.resources \in Lists(STRING) /\ config.restricted \in Lists(STRING)
         /\ NormalConfig(config).policies[d].items
              = [i \in DOMAIN config.policies[d].items |-> NormalPolicy(config.policies[d].items[i])]
<1>1. /\ config.policies[d] \in Lists(PolicyDocument)
      /\ config.resources \in Lists(STRING) /\ config.restricted \in Lists(STRING)
  BY DEF ConfigDocument
<1>2. NormalConfig(config).block = TRUE /\ NoBlock.block = FALSE
  BY DEF NormalConfig, NoBlock
<1>3. /\ NormalConfig(config).resources = Listed(config.resources)
      /\ NormalConfig(config).restricted = Listed(config.restricted)
      /\ NormalConfig(config).policies[d].items
           = [i \in DOMAIN config.policies[d].items |-> NormalPolicy(config.policies[d].items[i])]
  BY DEF NormalConfig, Given
<1> QED BY <1>1, <1>2, <1>3, ListsAre

\* A change of the policies of a direction is passed only if it permits no
\* more, and refused only if it does.
LEMMA WideningIsRight ==
  ASSUME NEW now \in ConfigDocument, NEW was \in ConfigDocument, NEW d \in Directions, NEW solver,
         Legible(now, d), Simple(now, d), Simple(was, d)
  PROVE  /\ check_policy_widening(d, NormalConfig(now), was, solver) = "grounded"
              => ~Wider(now, was, d)
         /\ check_policy_widening(d, NormalConfig(now), was, solver) = "contradicted"
              => Wider(now, was, d)
<1> DEFINE says == check_policy_widening(d, NormalConfig(now), was, solver)
           mine == now.policies[d].items
           theirs == was.policies[d].items
           normal == [i \in DOMAIN mine |-> NormalPolicy(mine[i])]
<1>1. CASE now = NoBlock
  <2>1. NormalConfig(now) = NoBlock
    BY <1>1 DEF NormalConfig
  <2>2. says = "grounded"
    BY <2>1 DEF check_policy_widening
  <2> QED BY <1>1, <2>2 DEF Wider, Permits
<1>2. CASE now # NoBlock
  <2>1. /\ mine \in Seq(PolicyDocument) /\ NormalConfig(now) # NoBlock
        /\ NormalConfig(now).policies[d].items = normal
    BY <1>2, DirectionIs
  <2>2. \A p \in Range(mine) : LegiblePolicy(p) /\ Len(p.operations.items) <= 1
    BY <1>2 DEF Legible, Simple
  <2>3. \A i \in DOMAIN mine : /\ LegiblePolicy(mine[i]) /\ mine[i] \in PolicyDocument
                               /\ Len(mine[i].operations.items) <= 1
    BY <2>1, <2>2 DEF Range
  <2>4. \A i \in DOMAIN mine : \A a \in Axes : AxesOf(mine[i])[a] # UnreadableAxis
    BY <2>3, LegibleAxes
  <2>5. \A q : AxesAllow(normal, q) <=> \E p \in Range(mine) : PermitsOne(p, q)
    BY <2>1, <2>3, <2>4, NormalPoliciesAllow, PoliciesPermit
  <2>6. \A q : Permits(now, d, q) <=> AxesAllow(normal, q)
    BY <1>2, <2>5 DEF Permits
  <2>7. CASE normal = <<>>
    <3>1. says = "grounded"
      BY <2>1, <2>7 DEF check_policy_widening
    <3>2. \A q : ~AxesAllow(normal, q)
      BY <2>7 DEF AxesAllow
    <3> QED BY <2>6, <3>1, <3>2 DEF Wider
  <2>8. CASE normal # <<>> /\ (was = NoBlock \/ was.policies[d].form # "list")
    <3>1. says = "unverified"
      BY <2>1, <2>8 DEF check_policy_widening
    <3> QED BY <3>1
  <2>9. CASE normal # <<>> /\ was # NoBlock /\ was.policies[d].form = "list"
              /\ (Blocked(theirs) \/ solver # "answers")
    <3>1. says = "unverified"
      BY <2>1, <2>9 DEF check_policy_widening
    <3> QED BY <3>1
  <2>10. CASE normal # <<>> /\ was # NoBlock /\ was.policies[d].form = "list"
               /\ ~Blocked(theirs) /\ solver = "answers"
    <3>1. theirs \in Seq(PolicyDocument)
      BY <2>10, DirectionIs
    <3>2. \A p \in Range(theirs) : Len(p.operations.items) <= 1
      BY <2>10 DEF Simple
    <3>3. \A i \in DOMAIN theirs : Len(theirs[i].operations.items) <= 1
      BY <3>1, <3>2 DEF Range
    <3>4. \A i \in DOMAIN theirs : \A a \in Axes : AxesOf(theirs[i])[a] # UnreadableAxis
      BY <2>10 DEF Blocked
    <3>5. \A q : AxesAllow(theirs, q) <=> \E p \in Range(theirs) : PermitsOne(p, q)
      BY <3>1, <3>3, <3>4, PoliciesPermit
    <3>6. \A q : Permits(was, d, q) <=> AxesAllow(theirs, q)
      BY <2>10, <3>5 DEF Permits
    <3>7. says = IF \E q \in Requests : AxesAllow(normal, q) /\ ~AxesAllow(theirs, q)
                 THEN "contradicted" ELSE "grounded"
      BY <2>1, <2>10 DEF check_policy_widening
    <3> QED BY <2>6, <3>6, <3>7 DEF Wider
  <2> QED BY <2>7, <2>8, <2>9, <2>10
<1> QED BY <1>1, <1>2

\* A perimeter that is passed covers something, and what was covered.
LEMMA ProtectionIsRight ==
  ASSUME NEW now \in ConfigDocument, NEW was \in ConfigDocument, NEW new, NEW old,
         check_protection(new, old, NormalConfig(now), was) = {"grounded"}
  PROVE  /\ Covers(was) \subseteq Covers(now) /\ Covers(now) # {}
         /\ old.type = "REGULAR" => new.type # "BRIDGE"
<1> DEFINE normal == NormalConfig(now)
           legible == {f \in Fields : was[f].form = "list"}
           removes == \E f \in legible : NamesIn(was[f]) \ NamesIn(normal[f]) # {}
           demotes == old.type = "REGULAR" /\ new.type = "BRIDGE"
           findings == (IF removes \/ demotes THEN {"contradicted"} ELSE {})
                       \cup IF legible # Fields THEN {"unverified"} ELSE {}
<1>1. check_protection(new, old, normal, was) =
        IF was = NoBlock \/ normal = NoBlock THEN {"unverified"}
        ELSE IF findings # {} THEN findings
        ELSE IF \E f \in Fields : NamesIn(normal[f]) = {} THEN {"unverified"} ELSE {"grounded"}
  BY DEF check_protection
<1>2. {"unverified"} # {"grounded"} /\ findings # {"grounded"}
  OBVIOUS
<1>3. /\ was # NoBlock /\ normal # NoBlock /\ findings = {}
      /\ \A f \in Fields : NamesIn(normal[f]) # {}
  BY <1>1, <1>2
<1>4. ~removes /\ ~demotes /\ legible = Fields
  BY <1>3
<1>5. now # NoBlock
  BY <1>3 DEF NormalConfig
<1>6. /\ normal.resources = Listed(now.resources) /\ normal.restricted = Listed(now.restricted)
      /\ now.resources \in Lists(STRING) /\ now.restricted \in Lists(STRING)
  BY <1>5, DirectionIs DEF Directions
<1>7. /\ NamesIn(was.resources) \subseteq NamesIn(normal.resources)
      /\ NamesIn(was.restricted) \subseteq NamesIn(normal.restricted)
      /\ NamesIn(normal.resources) # {} /\ NamesIn(normal.restricted) # {}
  BY <1>3, <1>4 DEF Fields
<1>8. ASSUME NEW l \in Lists(STRING), NamesIn(Listed(l)) # {}
      PROVE  Listed(l) = l /\ l.items # <<>>
  <2>1. l.form # "odd"
    BY <1>8, ListsAre DEF NamesIn, Range
  <2> QED BY <1>8, <2>1, ListsAre DEF NamesIn
<1>9. /\ normal.resources = now.resources /\ normal.restricted = now.restricted
      /\ now.resources.items # <<>> /\ now.restricted.items # <<>>
  BY <1>6, <1>7, <1>8
<1>10. Covers(was) \subseteq Covers(now) /\ Covers(now) # {}
  <2>1. /\ Covers(was) = NamesIn(was.resources) \X NamesIn(was.restricted)
        /\ Covers(now) = NamesIn(normal.resources) \X NamesIn(normal.restricted)
    BY <1>9 DEF Covers
  <2> HIDE DEF normal
  <2>2. PICK x \in NamesIn(normal.resources), y \in NamesIn(normal.restricted) : TRUE
    BY <1>7
  <2>3. <<x, y>> \in Covers(now)
    BY <2>1, <2>2
  <2> QED BY <1>7, <2>1, <2>3
<1> QED BY <1>4, <1>10

\* Whatever perimeters are compared: one that is passed covers something, and all
\* that the one before it covered, and is no bridge where that was a regular one
\* (a bridge protects nothing of what it covers, and a previous perimeter without
\* a type may become one); between policies of one operation each, a change that
\* is passed permits no request the previous policies did not, and one that is
\* refused for it does (vpcsc_checks.py:225, 267, 316, 549).
THEOREM PerimetersAreRight == AskSpec => []PerimeterIsTrue
<1>1. Unasked => PerimeterIsTrue
  BY DEF Unasked, Nothing, PerimeterIsTrue
<1>2. QuestionIsRead /\ PerimeterIsTrue /\ [AskNext]_asked => PerimeterIsTrue'
  <2> SUFFICES ASSUME QuestionIsRead, PerimeterIsTrue, [AskNext]_asked PROVE PerimeterIsTrue'
    OBVIOUS
  <2>1. CASE asked' = asked
    BY <2>1 DEF PerimeterIsTrue
  <2>2. CASE AskPerimeter
    <3>1. PICK new \in Proposed, old \in Previous, solver \in {"answers", "gives-up", "absent"} :
            asked' = [of |-> "perimeter", new |-> new, old |-> old,
                      says |-> check_perimeter(new, old, solver)]
      BY <2>2 DEF AskPerimeter
    <3>2. new \in PerimeterDocument /\ old \in PerimeterDocument
      BY PerimeterAssumption
    <3> DEFINE says == check_perimeter(new, old, solver)
    <3>3. ASSUME old.name = new.name PROVE TrueOfPerimeter(new, old, says)
      <4> DEFINE normal == NormalPerimeter(new)
                 dry == IsDryRun(normal)
                 now == Side(new, dry)
                 was == Side(old, dry)
      <4>1. /\ now \in ConfigDocument /\ was \in ConfigDocument
            /\ new.type \in {"REGULAR", "BRIDGE", "none"}
            /\ old.type \in {"REGULAR", "BRIDGE", "none"}
        BY <3>2 DEF PerimeterDocument, Side
      <4>2. /\ normal.type = new.type /\ normal.status = NormalConfig(new.status)
            /\ normal.spec = NormalConfig(new.spec)
            /\ NormalPerimeter(old).type = old.type
        BY <3>2 DEF PerimeterDocument, NormalPerimeter
      <4>3. Side(normal, dry) = NormalConfig(now)
        BY <4>2 DEF Side
      <4>4. /\ says.dry = dry
            /\ says.protection
                 = check_protection(normal, NormalPerimeter(old), NormalConfig(now), was)
            /\ \A d \in Directions :
                 says.widening[d] = check_policy_widening(d, NormalConfig(now), was, solver)
        BY <3>3, <4>3 DEF check_perimeter, Compare
      <4> HIDE DEF dry, says, normal, now, was
      <4>5. ASSUME says.protection = {"grounded"}
            PROVE  /\ Covers(was) \subseteq Covers(now) /\ Covers(now) # {}
                   /\ old.type = "REGULAR" => new.type # "BRIDGE"
        <5>1. /\ Covers(was) \subseteq Covers(now) /\ Covers(now) # {}
              /\ NormalPerimeter(old).type = "REGULAR" => normal.type # "BRIDGE"
          <6>1. check_protection(normal, NormalPerimeter(old), NormalConfig(now), was) = {"grounded"}
            BY <4>4, <4>5
          <6> QED BY <4>1, <6>1, ProtectionIsRight
        <5> QED BY <4>2, <5>1
      <4>6. ASSUME NEW d \in Directions, Legible(now, d), Simple(now, d), Simple(was, d)
            PROVE  /\ says.widening[d] = "grounded" => ~Wider(now, was, d)
                   /\ says.widening[d] = "contradicted" => Wider(now, was, d)
        BY <4>1, <4>4, <4>6, WideningIsRight
      <4>7. now = Side(new, says.dry) /\ was = Side(old, says.dry)
        BY <4>4 DEF now, was
      <4> QED BY <4>5, <4>6, <4>7 DEF TrueOfPerimeter
    <3> QED BY <3>1, <3>3 DEF PerimeterIsTrue
  <2>3. CASE asked'.of # "perimeter"
    BY <2>3 DEF PerimeterIsTrue
  <2> QED BY <2>1, <2>2, <2>3, AskedBy
<1> QED BY <1>1, <1>2, QuestionsAreRead, PTL DEF AskSpec

-----------------------------------------------------------------------------
(* Organisation policies.                                                  *)

LEMMA RulesAre ==
  ASSUME NEW p \in PolicySetting
  PROVE  /\ RulesIn(p) = {} <=> p.rules = <<>>
         /\ RulesIn(p) \subseteq RuleSetting
<1>1. p.rules \in Seq(RuleSetting)
  BY DEF PolicySetting
<1>2. p.rules = <<>> => RulesIn(p) = {}
  BY DEF RulesIn, Range
<1>3. p.rules # <<>> => p.rules[1] \in RulesIn(p)
  BY <1>1 DEF RulesIn, Range
<1> QED BY <1>1, <1>2, <1>3, RangeOfSeq DEF RulesIn

\* Every rule of a list-shaped policy is compared with the node's own record,
\* when that is list-shaped too and the answer is that all is grounded.
LEMMA EveryRuleIsGraded ==
  ASSUME NEW policy \in PolicySetting, NEW was \in PolicySetting, NEW baseline \in BOOLEAN,
         ListShaped(policy), ListShaped(was), baseline => \A q \in RulesIn(was) : ~Unreadable(q),
         check_enforcement(policy, Prior(was, baseline)) = {"grounded"}, NEW r \in RulesIn(policy)
  PROVE  /\ check_widening(r, Prior(was, baseline)) = "grounded"
         /\ ListRules(Prior(was, baseline)) = RulesIn(was)
<1> DEFINE prior == Prior(was, baseline)
           claim == [rule |-> r, whole |-> FALSE, unreadable |-> Unreadable(r)]
           of(c) ==
             IF c.unreadable \/ prior.silent THEN {"unverified"}
             ELSE {IF WasEnforced(prior) /\ Disables(c, policy)
                   THEN "contradicted" ELSE "grounded"}
                  \cup IF ComparesValues(c, prior) THEN {check_widening(c.rule, prior)}
                       ELSE {}
<1>1. ASSUME NEW p, ListShaped(p), NEW q \in RulesIn(p)
      PROVE  q.enforce = "none"
  <2>1. Cardinality(Stated(q)) = 1 /\ Stated(q) # {"enforce"}
    BY <1>1 DEF ListShaped
  <2>2. IsFiniteSet({"enforce", "allow_all", "deny_all", "values"})
    <3>1. /\ IsFiniteSet({"enforce"}) /\ IsFiniteSet({"allow_all"})
          /\ IsFiniteSet({"deny_all"}) /\ IsFiniteSet({"values"})
      BY FS_Singleton
    <3>2. IsFiniteSet({"enforce"} \cup {"allow_all"}) /\ IsFiniteSet({"deny_all"} \cup {"values"})
      BY <3>1, FS_Union
    <3>3. IsFiniteSet(({"enforce"} \cup {"allow_all"}) \cup ({"deny_all"} \cup {"values"}))
      BY <3>2, FS_Union
    <3>4. {"enforce", "allow_all", "deny_all", "values"}
            = ({"enforce"} \cup {"allow_all"}) \cup ({"deny_all"} \cup {"values"})
      OBVIOUS
    <3> QED BY <3>3, <3>4
  <2>3. IsFiniteSet(Stated(q))
    BY <2>2, FS_Subset DEF Stated
  <2>4. PICK k : Stated(q) = {k}
    BY <2>1, <2>3, FS_Singleton
  <2>5. "enforce" \notin Stated(q)
    BY <2>1, <2>4
  <2> QED BY <2>5 DEF Stated
<1>0. /\ prior.rules = RulesIn(was)
      /\ ~baseline => (prior.silent <=> was.rules = <<>>)
      /\ was.rules # <<>> => ~prior.silent
  BY DEF Prior
<1> HIDE DEF prior
<1>2. r.enforce = "none" /\ ListRules(prior) = RulesIn(was)
  BY <1>0, <1>1 DEF ListRules
<1>3. claim \in EnforcementClaims(policy)
  BY DEF EnforcementClaims
<1>4. UNION {of(c) : c \in EnforcementClaims(policy)} = {"grounded"}
  BY DEF check_enforcement, prior
<1> HIDE DEF of
<1>5. of(claim) \subseteq {"grounded"}
  BY <1>3, <1>4
<1>6. ~claim.unreadable /\ ~prior.silent
  BY <1>5 DEF of
<1>7. ComparesValues(claim, prior)
  <2>1. PICK k \in {"enforce", "allow_all", "deny_all", "values"} : k \in Stated(r)
    <3>1. Stated(r) # {}
      BY FS_EmptySet DEF ListShaped
    <3> QED BY <3>1 DEF Stated
  <2> QED BY <1>2, <2>1 DEF Stated, ComparesValues
<1>8. check_widening(r, prior) \in of(claim)
  BY <1>6, <1>7 DEF of
<1> QED BY <1>2, <1>5, <1>8 DEF prior

\* What a policy of those rules permits is no more than the record did.
LEMMA GradedNarrows ==
  ASSUME NEW policy \in PolicySetting, NEW was \in PolicySetting, NEW baseline \in BOOLEAN
  PROVE  TrueOfNarrowing(policy, was, baseline)
<1> SUFFICES ASSUME Gated(policy), ListShaped(policy), Gated(was), ListShaped(was),
                    policy.rules # <<>>, baseline => \A r \in RulesIn(was) : ~Unreadable(r),
                    check_enforcement(policy, Prior(was, baseline)) = {"grounded"}
             PROVE  LET old == LocalList(was)
                        new == LocalList(policy)
                        permits(s, v) == /\ s.allow_all \/ v \in s.allowed
                                         /\ ~s.deny_all /\ v \notin s.denied
                    IN /\ \A v \in Values : permits(new, v) => permits(old, v)
                       /\ old.deny_all => new.deny_all
                       /\ new.deny_all \/ old.denied \subseteq new.denied
  BY DEF TrueOfNarrowing
<1> DEFINE prior == Prior(was, baseline)
           old == LocalList(was)
           new == LocalList(policy)
<1>1. /\ old.allowed = UNION {r.allowed : r \in RulesIn(was)}
      /\ old.denied = UNION {r.denied : r \in RulesIn(was)}
      /\ old.allow_all <=> \E r \in RulesIn(was) : r.allow_all = "true"
      /\ old.deny_all <=> \E r \in RulesIn(was) : r.deny_all = "true"
  BY DEF LocalList, ListState
<1>2. /\ new.allowed = UNION {r.allowed : r \in RulesIn(policy)}
      /\ new.denied = UNION {r.denied : r \in RulesIn(policy)}
      /\ new.allow_all <=> \E r \in RulesIn(policy) : r.allow_all = "true"
      /\ new.deny_all <=> \E r \in RulesIn(policy) : r.deny_all = "true"
  BY DEF LocalList, ListState
<1>3. RulesIn(policy) # {}
  BY RulesAre
<1>4. \A r \in RulesIn(policy) :
        check_widening(r, prior) = "grounded" /\ ListRules(prior) = RulesIn(was)
  BY EveryRuleIsGraded
<1>5. \A r \in RulesIn(policy) :
        \/ old.allow_all /\ old.denied = {} /\ ~old.deny_all
        \/ /\ r.allow_all # "true" /\ r.allowed \subseteq old.allowed
           /\ r.deny_all = "true" \/ (old.denied \subseteq r.denied /\ ~old.deny_all)
  <2> SUFFICES ASSUME NEW r \in RulesIn(policy),
                      ~(old.allow_all /\ old.denied = {} /\ ~old.deny_all)
               PROVE  /\ r.allow_all # "true" /\ r.allowed \subseteq old.allowed
                      /\ r.deny_all = "true" \/ (old.denied \subseteq r.denied /\ ~old.deny_all)
    OBVIOUS
  <2> DEFINE rules == ListRules(prior)
             denied == UNION {q.denied : q \in rules}
             allowed == UNION {q.allowed : q \in rules}
             denies_all == \E q \in rules : q.deny_all = "true"
             allows_all == \E q \in rules : q.allow_all = "true"
  <2>1. /\ old.allowed = allowed /\ old.denied = denied
        /\ old.allow_all <=> allows_all
        /\ old.deny_all <=> denies_all
    BY <1>1, <1>4
  <2>2. /\ ~(rules = {}) /\ ~(allows_all /\ denied = {} /\ ~denies_all)
        => /\ r.allow_all # "true" /\ r.allowed \ allowed = {}
           /\ ~(r.deny_all # "true" /\ (denied \ r.denied # {} \/ denies_all))
    BY <1>4 DEF check_widening, Widens
  <2>3. check_widening(r, prior) = "unverified" \/ rules # {}
    BY DEF check_widening
  <2> HIDE DEF denied, allowed, denies_all, allows_all, rules
  <2> QED BY <1>4, <2>1, <2>2, <2>3
<1> HIDE DEF old, new
<1>6. CASE old.allow_all /\ old.denied = {} /\ ~old.deny_all
  BY <1>6 DEF old, new
<1>7. CASE ~(old.allow_all /\ old.denied = {} /\ ~old.deny_all)
  <2>1. \A r \in RulesIn(policy) :
          /\ r.allow_all # "true" /\ r.allowed \subseteq old.allowed
          /\ r.deny_all = "true" \/ (old.denied \subseteq r.denied /\ ~old.deny_all)
    BY <1>5, <1>7
  <2>2. ~new.allow_all /\ new.allowed \subseteq old.allowed
    BY <1>2, <2>1
  <2>3. \/ new.deny_all
        \/ old.denied \subseteq new.denied /\ ~old.deny_all
    BY <1>2, <1>3, <2>1
  <2> QED BY <2>2, <2>3 DEF old, new
<1> QED BY <1>6, <1>7

\* Whatever is proposed: when the rules of a document are graded as no widening
\* of what was set at the node, whoever says what that was, nothing that was
\* denied there is allowed there by what the document sets itself
\* (org_checks.py:344, 364).
THEOREM NarrowingIsRight == AskSpec => []NarrowingIsTrue
<1>1. Unasked => NarrowingIsTrue
  BY DEF Unasked, Nothing, NarrowingIsTrue
<1>2. QuestionIsRead /\ NarrowingIsTrue /\ [AskNext]_asked => NarrowingIsTrue'
  <2> SUFFICES ASSUME QuestionIsRead, NarrowingIsTrue, [AskNext]_asked PROVE NarrowingIsTrue'
    OBVIOUS
  <2>1. CASE asked' = asked
    BY <2>1 DEF NarrowingIsTrue
  <2>2. CASE AskOrgDocument
    <3>1. asked.set \in OrgSettings
      BY <2>2 DEF AskOrgDocument, QuestionIsRead, PoliciesAreRead
    <3>2. PICK targets \in OrgDocuments :
            asked' = [of |-> "policy-document", estate |-> asked, targets |-> targets,
                      records |-> effective_records(asked, targets),
                      verdicts |-> check_org_effective(asked, targets)]
      BY <2>2 DEF AskOrgDocument
    <3>3. asked'.targets = targets /\ asked'.estate = asked
      BY <3>2
    <3>4. ASSUME NEW t \in Range(targets), t.node \in DOMAIN asked.set
          PROVE  \A baseline \in BOOLEAN : TrueOfNarrowing(t.policy, asked.set[t.node], baseline)
      <4>1. asked.set[t.node] \in PolicySetting
        BY <3>1, <3>4, OrgAssumption
      <4>2. targets \in Seq([node : STRING, policy : PolicySetting])
        BY OrgAssumption
      <4>3. t.policy \in PolicySetting
        <5>1. PICK i \in DOMAIN targets : targets[i] = t
          BY <3>4 DEF Range
        <5> DEFINE S == [node : STRING, policy : PolicySetting]
        <5>2. targets \in Seq(S)
          BY <4>2
        <5>3. targets[i] \in S
          <6> HIDE DEF S
          <6> QED BY <5>2
        <5> QED BY <5>1, <5>3
      <4> QED BY <4>1, <4>3, GradedNarrows
    <3> QED BY <3>3, <3>4 DEF NarrowingIsTrue
  <2>3. CASE asked'.of # "policy-document"
    BY <2>3 DEF NarrowingIsTrue
  <2> QED BY <2>1, <2>2, <2>3, AskedBy
<1> QED BY <1>1, <1>2, QuestionsAreRead, PTL DEF AskSpec

-----------------------------------------------------------------------------
(* Deny policies.                                                          *)

\* The first of the exceptions that is not certainly somebody else's.
LEMMA FirstException ==
  ASSUME NEW member, NEW number, NEW s \in Seq(STRING), NEW first,
         first = LET I == {i \in 1..Len(s) : MemberIn(member, s[i], number) # "no"}
                 IN IF I # {} THEN Min(I) ELSE 0
  PROVE  \/ first = 0 /\ \A x \in Range(s) : MemberIn(member, x, number) = "no"
         \/ first # 0 /\ s[first] \in Range(s)
<1> DEFINE I == {i \in 1..Len(s) : MemberIn(member, s[i], number) # "no"}
<1>1. Range(s) = {s[i] : i \in 1..Len(s)} /\ I \subseteq Nat
  BY RangeEquality, LenProperties
<1>2. CASE I = {}
  <2>1. \A i \in 1..Len(s) : MemberIn(member, s[i], number) = "no"
    BY <1>2
  <2> QED BY <1>1, <1>2, <2>1
<1>3. CASE I # {}
  <2>1. Min(I) \in I
    BY <1>1, <1>3, SmallestNumber
  <2>2. Min(I) \in 1..Len(s) /\ Min(I) # 0
    BY <2>1
  <2> QED BY <1>1, <1>3, <2>2
<1> QED BY <1>2, <1>3

\* What is said of a member and a principal set is so in every world.
LEMMA MembershipIsSound ==
  ASSUME NEW member \in DOMAIN V2, NEW number \in Numbers, NEW w \in DenyWorlds(number),
         NEW spelling
  PROVE  /\ Grantees(member, w) \subseteq Identities
         /\ MemberIn(member, spelling, number) = "yes" =>
               Grantees(member, w) \subseteq Who(spelling, w)
         /\ MemberIn(member, spelling, number) = "no" =>
               Grantees(member, w) \cap Who(spelling, w) = {}
<1> DEFINE mine == Who(V2[member], w)
<1>1. /\ w.group \subseteq {"user", "account"} /\ w.project \subseteq {"user", "account"}
      /\ number \in {"n1", "n2"} => ("account" \in w.project <=> number = "n1")
  BY DEF DenyWorlds, Identities
<1>2. Grantees(member, w) = mine
  BY DEF Grantees
<1>3. member \in {"user", "account", "group", "allUsers"}
  BY DEF V2
<1>4. /\ V2["user"] = "subject" /\ V2["account"] = "account-subject"
      /\ V2["group"] = "group-set" /\ V2["allUsers"] = "public:all"
  BY DEF V2
<1>5. /\ Who("subject", w) = {"user"} /\ Who("account-subject", w) = {"account"}
      /\ Who("another-subject", w) = {} /\ Who("group-set", w) = w.group
      /\ Who("public:all", w) = {"user", "account"} /\ Who("project-n1", w) = w.project
  BY DEF Who, Identities
<1>6. mine \subseteq Identities
  BY <1>1, <1>3, <1>4, <1>5 DEF Identities
<1>7. CASE spelling \in {"public:all", V2[member]}
  <2>1. MemberIn(member, spelling, number) = "yes"
    BY <1>3, <1>4, <1>7 DEF MemberIn, Exact
  <2> QED BY <1>2, <1>5, <1>6, <1>7, <2>1 DEF Identities
<1>8. CASE spelling \notin {"public:all", V2[member]} /\ spelling \in Exact
  <2>1. MemberIn(member, spelling, number) = IF V2[member] \in Exact THEN "no" ELSE "undecided"
    BY <1>4, <1>8 DEF MemberIn, Exact
  <2>2. Who(V2[member], w) \cap Who(spelling, w) = {} \/ V2[member] \notin Exact
    BY <1>5, <1>8 DEF Exact
  <2>3. MemberIn(member, spelling, number) # "yes"
    BY <2>1
  <2>4. MemberIn(member, spelling, number) = "no" => V2[member] \in Exact
    BY <2>1
  <2> QED BY <1>2, <1>6, <2>2, <2>3, <2>4
<1>9. CASE spelling \notin {"public:all", V2[member]} /\ spelling \notin Exact
  <2>1. CASE spelling # "project-n1"
    <3>1. MemberIn(member, spelling, number) = "undecided"
      BY <1>9, <2>1 DEF MemberIn
    <3> QED BY <1>2, <1>6, <3>1
  <2>2. CASE spelling = "project-n1"
    <3>1. MemberIn(member, spelling, number) = ProjectSetMember(member, number)
      BY <1>3, <1>4, <1>9, <2>2 DEF MemberIn, Exact
    <3>2. \/ ProjectSetMember(member, number) = "undecided"
          \/ /\ member = "account" /\ number \in {"n1", "n2"}
             /\ ProjectSetMember(member, number) = IF number = "n1" THEN "yes" ELSE "no"
      BY DEF ProjectSetMember, Numbers
    <3>3. CASE ProjectSetMember(member, number) = "undecided"
      BY <1>2, <1>6, <3>1, <3>3
    <3>4. CASE /\ member = "account" /\ number \in {"n1", "n2"}
               /\ ProjectSetMember(member, number) = IF number = "n1" THEN "yes" ELSE "no"
      <4>1. Grantees(member, w) = {"account"}
        BY <1>2, <1>4, <1>5, <3>4
      <4> QED BY <1>1, <1>2, <1>5, <1>6, <2>2, <3>1, <3>4, <4>1
    <3> QED BY <3>2, <3>3, <3>4
  <2> QED BY <2>1, <2>2
<1> QED BY <1>7, <1>8, <1>9

\* The principals a rule denies, and the permissions, in a world.
Named(rule, who, w) ==
    /\ \E s \in rule.denied : who \in Who(s, w)
    /\ \A s \in Range(rule.exceptions) : who \notin Who(s, w)
Meant(permissions, w) == permissions \cup IF "*" \in permissions THEN w.wild ELSE {}

LEMMA DeniesIs ==
  ASSUME NEW rule, NEW who, NEW p, NEW w
  PROVE  Denies(rule, who, p, w) <=>
           /\ Named(rule, who, w) /\ p \in Meant(rule.permissions, w) \ Meant(rule.excepted, w)
           /\ rule.condition = "none" \/ w.holds
<1> DEFINE denied == UNION {Who(s, w) : s \in rule.denied}
           excepted == UNION {Who(s, w) : s \in Range(rule.exceptions)}
<1>1. Denies(rule, who, p, w) <=>
        /\ who \in denied \ excepted
        /\ p \in Meant(rule.permissions, w) \ Meant(rule.excepted, w)
        /\ rule.condition = "none" \/ w.holds
  BY DEF Denies, Meant
<1>2. who \in denied <=> \E s \in rule.denied : who \in Who(s, w)
  OBVIOUS
<1>3. who \in excepted <=> \E s \in Range(rule.exceptions) : who \in Who(s, w)
  OBVIOUS
<1> HIDE DEF denied, excepted
<1> QED BY <1>1, <1>2, <1>3 DEF Named

LEMMA NamesIsSound ==
  ASSUME NEW rule, NEW p \in Permissions, NEW w
  PROVE  /\ Names(rule, p) \in {"yes", "no", "undecided"}
         /\ Names(rule, p) = "yes" => p \in Meant(rule.permissions, w) \ Meant(rule.excepted, w)
         /\ Names(rule, p) = "no" => p \notin Meant(rule.permissions, w) \ Meant(rule.excepted, w)
<1>1. p # "*"
  BY DEF Permissions
<1>2. CASE "*" \in rule.excepted
  BY <1>2 DEF Names
<1>3. CASE "*" \notin rule.excepted /\ p \in EffectiveOf(rule)
  <2>1. Names(rule, p) = "yes"
    BY <1>3 DEF Names
  <2>2. p \in rule.permissions \ rule.excepted
    BY <1>3 DEF EffectiveOf
  <2> QED BY <1>3, <2>1, <2>2 DEF Meant
<1>4. CASE "*" \notin rule.excepted /\ p \notin EffectiveOf(rule)
  <2>1. Names(rule, p) = IF "*" \in rule.permissions THEN "undecided" ELSE "no"
    BY <1>4 DEF Names
  <2>2. p \notin rule.permissions \ rule.excepted
    BY <1>1, <1>4 DEF EffectiveOf
  <2> QED BY <1>4, <2>1, <2>2 DEF Meant
<1> QED BY <1>2, <1>3, <1>4

\* What is decided of a member and a rule is so in every world.
LEMMA CoverageIsSound ==
  ASSUME NEW member, NEW rule \in DenyRuleDocument, NEW number \in Numbers,
         NEW w \in DenyWorlds(number),
         NEW state, state = PrincipalCoverage(member, rule, number)
  PROVE  /\ state \in {"covered", "escapes", "undecided", "clear"}
         /\ state = "covered" => \A who \in Grantees(member, w) : Named(rule, who, w)
         /\ state \in {"escapes", "clear"} =>
               \A who \in Grantees(member, w) : ~Named(rule, who, w)
<1> DEFINE denied == {MemberIn(member, s, number) : s \in rule.denied}
           first == SelectInSeq(rule.exceptions, LAMBDA s : MemberIn(member, s, number) # "no")
           G == Grantees(member, w)
<1>1. state = IF member \notin DOMAIN V2 THEN "undecided"
              ELSE IF "yes" \notin denied THEN IF "undecided" \in denied THEN "undecided" ELSE "clear"
              ELSE IF first = 0 THEN "covered"
              ELSE IF MemberIn(member, rule.exceptions[first], number) = "yes"
                   THEN "escapes" ELSE "undecided"
  BY DEF PrincipalCoverage
<1>2. rule.exceptions \in Seq(STRING)
  BY DEF DenyRuleDocument
<1>3. \/ first = 0 /\ \A x \in Range(rule.exceptions) : MemberIn(member, x, number) = "no"
      \/ first # 0 /\ rule.exceptions[first] \in Range(rule.exceptions)
  <2>1. first = LET I == {i \in 1..Len(rule.exceptions) :
                             MemberIn(member, rule.exceptions[i], number) # "no"}
                IN IF I # {} THEN Min(I) ELSE 0
    BY DEF SelectInSeq
  <2> HIDE DEF first
  <2> QED BY <1>2, <2>1, FirstException
<1> HIDE DEF first
<1>4. CASE member \notin DOMAIN V2
  BY <1>1, <1>4
<1>5. CASE member \in DOMAIN V2
  <2>1. \A s : /\ MemberIn(member, s, number) = "yes" => G \subseteq Who(s, w)
               /\ MemberIn(member, s, number) = "no" => G \cap Who(s, w) = {}
    BY <1>5, MembershipIsSound
  <2>2. CASE state = "clear"
    <3>1. "yes" \notin denied /\ "undecided" \notin denied
      BY <1>1, <1>5, <2>2
    <3>2. \A s : MemberIn(member, s, number) \in {"yes", "no", "undecided"}
      <4> SUFFICES ASSUME NEW s PROVE MemberIn(member, s, number) \in {"yes", "no", "undecided"}
        OBVIOUS
      <4>1. ProjectSetMember(member, number) \in {"yes", "no", "undecided"}
        BY DEF ProjectSetMember
      <4> QED BY <4>1 DEF MemberIn
    <3>3. \A s \in rule.denied : MemberIn(member, s, number) = "no"
      BY <3>1, <3>2
    <3>4. \A s \in rule.denied : G \cap Who(s, w) = {}
      BY <2>1, <3>3
    <3> QED BY <2>2, <3>4 DEF Named
  <2>3. CASE state = "covered"
    <3>1. "yes" \in denied /\ first = 0
      BY <1>1, <1>5, <2>3
    <3>2. PICK s \in rule.denied : MemberIn(member, s, number) = "yes"
      BY <3>1
    <3>4. \A x \in Range(rule.exceptions) : G \cap Who(x, w) = {}
      BY <1>3, <2>1, <3>1
    <3>5. G \subseteq Who(s, w)
      BY <2>1, <3>2
    <3>6. \A who \in G : Named(rule, who, w)
      BY <3>2, <3>4, <3>5 DEF Named
    <3> QED BY <2>3, <3>6
  <2>4. CASE state = "escapes"
    <3>1. first # 0 /\ MemberIn(member, rule.exceptions[first], number) = "yes"
      BY <1>1, <1>5, <2>4
    <3>2. G \subseteq Who(rule.exceptions[first], w)
      BY <2>1, <3>1
    <3>4. \A who \in G : ~Named(rule, who, w)
      BY <1>3, <3>1, <3>2 DEF Named
    <3> QED BY <2>4, <3>4
  <2>5. state \in {"covered", "escapes", "undecided", "clear"}
    BY <1>1
  <2> QED BY <2>2, <2>3, <2>4, <2>5
<1> QED BY <1>4, <1>5

\* What is decided of a member and a rule with its condition.
LEMMA CoveredIsSound ==
  ASSUME NEW member, NEW rule \in DenyRuleDocument, NEW number \in Numbers,
         NEW w \in DenyWorlds(number), NEW p \in Permissions
  PROVE  /\ Covered(member, rule, number) \in {"covered", "escapes", "undecided", "clear"}
         /\ Covered(member, rule, number) = "covered" /\ Names(rule, p) = "yes" =>
               \A who \in Grantees(member, w) : Denies(rule, who, p, w)
         /\ Covered(member, rule, number) \in {"escapes", "clear"} \/ Names(rule, p) = "no" =>
               \A who \in Grantees(member, w) : ~Denies(rule, who, p, w)
<1> DEFINE state == PrincipalCoverage(member, rule, number)
<1>1. Covered(member, rule, number)
        = IF state = "covered" /\ rule.condition # "none" THEN "undecided" ELSE state
  BY DEF Covered
<1>2. /\ state \in {"covered", "escapes", "undecided", "clear"}
      /\ state = "covered" => \A who \in Grantees(member, w) : Named(rule, who, w)
      /\ state \in {"escapes", "clear"} => \A who \in Grantees(member, w) : ~Named(rule, who, w)
  BY CoverageIsSound
<1>3. \A who : Denies(rule, who, p, w) <=>
                 /\ Named(rule, who, w)
                 /\ p \in Meant(rule.permissions, w) \ Meant(rule.excepted, w)
                 /\ rule.condition = "none" \/ w.holds
  BY DeniesIs
<1>4. /\ Names(rule, p) = "yes" => p \in Meant(rule.permissions, w) \ Meant(rule.excepted, w)
      /\ Names(rule, p) = "no" => p \notin Meant(rule.permissions, w) \ Meant(rule.excepted, w)
  BY NamesIsSound
<1> HIDE DEF state
<1> QED BY <1>1, <1>2, <1>3, <1>4

\* A role is not read, or grants permissions that are known.
LEMMA RolesGrant ==
  ASSUME NEW role
  PROVE  RolePermissions(role) = Unread \/ RolePermissions(role) \subseteq Permissions
BY DEF RolePermissions, Permissions

\* What is decided of a pair and the rules of a policy.
LEMMA PairIsSound ==
  ASSUME NEW member, NEW rules \in Seq(DenyRuleDocument), NEW number \in Numbers,
         NEW w \in DenyWorlds(number), NEW p \in Permissions
  PROVE  /\ PairCovered(member, p, rules, number) \in {"yes", "undecided", "no"}
         /\ PairCovered(member, p, rules, number) = "yes" =>
               \A who \in Grantees(member, w) : DeniesAny(rules, who, p, w)
         /\ PairCovered(member, p, rules, number) = "no" =>
               \A who \in Grantees(member, w) : ~DeniesAny(rules, who, p, w)
<1> DEFINE naming == {i \in DOMAIN rules : Names(rules[i], p) # "no"}
           sure == {i \in naming : /\ Names(rules[i], p) = "yes"
                                   /\ Covered(member, rules[i], number) = "covered"}
           unsure == {i \in naming : \/ Names(rules[i], p) = "undecided"
                                     \/ Covered(member, rules[i], number) = "undecided"}
<1>1. PairCovered(member, p, rules, number)
        = IF sure # {} THEN "yes" ELSE IF unsure # {} THEN "undecided" ELSE "no"
  BY DEF PairCovered
<1>2. \A i \in DOMAIN rules : rules[i] \in DenyRuleDocument
  OBVIOUS
<1>3. ASSUME sure # {} PROVE \A who \in Grantees(member, w) : DeniesAny(rules, who, p, w)
  <2>1. PICK i \in DOMAIN rules : /\ Names(rules[i], p) = "yes"
                                  /\ Covered(member, rules[i], number) = "covered"
    BY <1>3
  <2> QED BY <1>2, <2>1, CoveredIsSound DEF DeniesAny
<1>4. ASSUME sure = {}, unsure = {}, NEW who \in Grantees(member, w)
      PROVE  ~DeniesAny(rules, who, p, w)
  <2> SUFFICES ASSUME NEW i \in DOMAIN rules PROVE ~Denies(rules[i], who, p, w)
    BY DEF DeniesAny
  <2>1. rules[i] \in DenyRuleDocument
    BY <1>2
  <2>2. CASE i \notin naming
    BY <2>1, <2>2, CoveredIsSound
  <2>3. CASE i \in naming
    <3>1. Names(rules[i], p) \in {"yes", "no", "undecided"}
      BY NamesIsSound
    <3>2. Names(rules[i], p) = "yes" /\ Covered(member, rules[i], number) # "covered"
          /\ Covered(member, rules[i], number) # "undecided"
      BY <1>4, <2>3, <3>1
    <3> QED BY <2>1, <3>2, CoveredIsSound
  <2> QED BY <2>2, <2>3
<1> HIDE DEF sure, unsure
<1> QED BY <1>1, <1>3, <1>4

\* What is said of one rule.
TrueOfOne(grant, granted, rule, node, estate, said, w) ==
    /\ \A v \in said : \A who \in Grantees(v.member, w), p \in v.named :
          /\ v.says = "masked" => Denies(v.rule, who, p, w)
          /\ v.says = "threads" => ~Denies(v.rule, who, p, w)
    /\ said = {} /\ Governs(node, grant.project, estate.table) = "yes" =>
          \A m \in grant.members : \A who \in Grantees(m, w), p \in granted :
             ~Denies(rule, who, p, w)

LEMMA RuleVerdictsAre ==
  ASSUME NEW grant, NEW granted \in SUBSET Permissions, NEW node, NEW estate,
         NEW rule \in DenyRuleDocument, estate.number \in Numbers,
         NEW w \in DenyWorlds(estate.number),
         NEW R, R = RuleVerdicts(grant, granted, rule, node, estate)
  PROVE  TrueOfOne(grant, granted, rule, node, estate, R, w)
<1> DEFINE named == {p \in granted : Names(rule, p) = "yes"}
           unsure == {p \in granted : Names(rule, p) = "undecided"}
           governs == Governs(node, grant.project, estate.table)
           says == [covered |-> "masked", escapes |-> "threads", undecided |-> "unverified"]
           states == {<<m, Covered(m, rule, estate.number)>> : m \in grant.members}
           decided == {t \in states : t[2] # "clear"}
<1>1. R = IF named \cup unsure = {} THEN {}
          ELSE IF grant.conditional \/ named = {} \/ node = "unreadable" THEN {Unverified}
          ELSE CASE governs = "no" -> {}
                 [] governs = "undecided" -> {Unverified}
                 [] OTHER -> {Said(says[s[2]], s[1], rule, named) : s \in decided}
  BY DEF RuleVerdicts
<1>2. Unverified.says = "unverified"
  BY DEF Unverified, Said
<1>3. \A m \in grant.members :
        /\ Covered(m, rule, estate.number) \in {"covered", "escapes", "undecided", "clear"}
        /\ \A p \in granted : \A who \in Grantees(m, w) :
             /\ Covered(m, rule, estate.number) = "covered" /\ Names(rule, p) = "yes" =>
                   Denies(rule, who, p, w)
             /\ Covered(m, rule, estate.number) \in {"escapes", "clear"} \/ Names(rule, p) = "no"
                   => ~Denies(rule, who, p, w)
  <2>1. "escalation" \in Permissions
    BY DEF Permissions
  <2> QED BY <2>1, CoveredIsSound
<1>4. \A p \in granted : Names(rule, p) \in {"yes", "no", "undecided"}
  BY NamesIsSound
<1>5. ASSUME NEW v \in R, NEW who \in Grantees(v.member, w), NEW p \in v.named,
             v.says \in {"masked", "threads"}
      PROVE  /\ v.says = "masked" => Denies(v.rule, who, p, w)
             /\ v.says = "threads" => ~Denies(v.rule, who, p, w)
  <2>1. R = {Said(says[s[2]], s[1], rule, named) : s \in decided}
    <3> HIDE DEF named, unsure, governs, decided
    <3> QED BY <1>1, <1>2, <1>5
  <2>2. PICK s \in decided : v = Said(says[s[2]], s[1], rule, named)
    BY <2>1
  <2>3. PICK m \in grant.members : s = <<m, Covered(m, rule, estate.number)>>
    BY <2>2
  <2>4. /\ v.says = says[Covered(m, rule, estate.number)] /\ v.member = m
        /\ v.rule = rule /\ v.named = named
    BY <2>2, <2>3 DEF Said
  <2>5. /\ Covered(m, rule, estate.number) \in {"covered", "escapes", "undecided"}
        /\ Covered(m, rule, estate.number) # "clear"
    BY <1>3, <2>2, <2>3
  <2>6. /\ v.says = "masked" => Covered(m, rule, estate.number) = "covered"
        /\ v.says = "threads" => Covered(m, rule, estate.number) = "escapes"
    BY <2>4, <2>5
  <2>7. p \in granted /\ Names(rule, p) = "yes"
    BY <1>5, <2>4
  <2>8. who \in Grantees(m, w)
    BY <1>5, <2>4
  <2> QED BY <1>3, <2>4, <2>6, <2>7, <2>8
<1>6. ASSUME R = {}, governs = "yes",
             NEW m \in grant.members, NEW who \in Grantees(m, w), NEW p \in granted
      PROVE  ~Denies(rule, who, p, w)
  <2>1. CASE named \cup unsure = {}
    <3>1. Names(rule, p) = "no"
      BY <1>4, <2>1
    <3> QED BY <1>3, <3>1
  <2>2. CASE named \cup unsure # {}
    <3>1. {Said(says[s[2]], s[1], rule, named) : s \in decided} = {}
      <4> HIDE DEF named, unsure, governs, decided
      <4> QED BY <1>1, <1>6, <2>2
    <3>2. <<m, Covered(m, rule, estate.number)>> \notin decided
      BY <3>1
    <3>3. Covered(m, rule, estate.number) = "clear"
      BY <3>2
    <3> QED BY <1>3, <3>3
  <2> QED BY <2>1, <2>2
<1> QED BY <1>5, <1>6 DEF TrueOfOne

\* What is said of a grant under one policy.
LEMMA GrantIsRight ==
  ASSUME NEW grant, NEW policy, policy.rules \in Seq(DenyRuleDocument), NEW estate,
         estate.number \in Numbers, NEW w \in DenyWorlds(estate.number)
  PROVE  TrueOfGrant(grant, policy, estate, InteractionVerdicts(grant, policy, estate), w)
<1> DEFINE granted == RolePermissions(grant.role)
           of(i) == RuleVerdicts(grant, granted, policy.rules[i], policy.node, estate)
           R == InteractionVerdicts(grant, policy, estate)
<1>1. R = IF granted = Unread THEN {Unverified} ELSE UNION {of(i) : i \in DOMAIN policy.rules}
  BY DEF InteractionVerdicts
<1>2. Unverified.says = "unverified"
  BY DEF Unverified, Said
<1>3. \A i \in DOMAIN policy.rules : policy.rules[i] \in DenyRuleDocument
  OBVIOUS
<1>4. CASE granted = Unread
  <2>1. \A v \in R : v.says = "unverified"
    BY <1>1, <1>2, <1>4
  <2>2. R # {}
    BY <1>1, <1>4
  <2> HIDE DEF R, granted
  <2> QED BY <2>1, <2>2 DEF TrueOfGrant, R
<1>5. CASE granted # Unread
  <2>1. granted \subseteq Permissions
    BY <1>5, RolesGrant
  <2>2. \A i \in DOMAIN policy.rules :
          /\ \A v \in of(i) : \A who \in Grantees(v.member, w), p \in v.named :
               /\ v.says = "masked" => Denies(v.rule, who, p, w)
               /\ v.says = "threads" => ~Denies(v.rule, who, p, w)
          /\ of(i) = {} /\ Governs(policy.node, grant.project, estate.table) = "yes" =>
               \A m \in grant.members : \A who \in Grantees(m, w), p \in granted :
                  ~Denies(policy.rules[i], who, p, w)
    <3> SUFFICES ASSUME NEW i \in DOMAIN policy.rules
                 PROVE  TrueOfOne(grant, granted, policy.rules[i], policy.node, estate, of(i), w)
      BY DEF TrueOfOne
    <3> DEFINE rule == policy.rules[i]
               node == policy.node
               said == of(i)
    <3>1. granted \in SUBSET Permissions /\ rule \in DenyRuleDocument
          /\ said = RuleVerdicts(grant, granted, rule, node, estate)
      BY <1>3, <2>1
    <3> HIDE DEF granted, rule, node, said
    <3>2. TrueOfOne(grant, granted, rule, node, estate, said, w)
      BY <3>1, RuleVerdictsAre
    <3> QED BY <3>2 DEF rule, node, said
  <2> HIDE DEF of
  <2>3. R = UNION {of(i) : i \in DOMAIN policy.rules}
    BY <1>1, <1>5
  <2>4. \A v \in R : \E i \in DOMAIN policy.rules : v \in of(i)
    BY <2>3
  <2>5. R = {} => \A i \in DOMAIN policy.rules : of(i) = {}
    BY <2>3
  <2> HIDE DEF R
  <2>6. ASSUME R = {}, Governs(policy.node, grant.project, estate.table) = "yes",
               NEW m \in grant.members, NEW who \in Grantees(m, w), NEW p \in granted
        PROVE  ~DeniesAny(policy.rules, who, p, w)
    BY <2>2, <2>5, <2>6 DEF DeniesAny
  <2>7. \A v \in R : \A who \in Grantees(v.member, w), p \in v.named :
          /\ v.says = "masked" => Denies(v.rule, who, p, w)
          /\ v.says = "threads" => ~Denies(v.rule, who, p, w)
    BY <2>2, <2>4
  <2> QED BY <2>6, <2>7 DEF TrueOfGrant, R
<1> QED BY <1>4, <1>5

\* What is said of a change of the rules of a policy.
LEMMA WakeIsRight ==
  ASSUME NEW old \in Seq(DenyRuleDocument), NEW new \in Seq(DenyRuleDocument), NEW node,
         NEW bindings, NEW captured, NEW complete \in BOOLEAN, complete => captured = bindings,
         NEW estate, estate.number \in Numbers, NEW w \in DenyWorlds(estate.number)
  PROVE  TrueOfWake(old, new, node, bindings, estate,
                    wake_findings(old, new, node, captured, complete, estate), w)
<1> DEFINE before(p) == PairCovered(p[1], p[2], old, estate.number)
           after(p) == PairCovered(p[1], p[2], new, estate.number)
           pairs == GrantPairs(captured, node, estate)
           dormant == {p \in pairs : before(p) # "no"}
           unsure == {p \in dormant : "undecided" \in {before(p), after(p)}}
           woken == {p \in dormant \ unsure : after(p) = "no"}
           skipped == {b \in captured : ~Comparable(b, node, estate) /\ ~Elsewhere(b, node, estate)}
           waking == {Said(IF p[2] \in Escalations \/ p[1] = "allUsers" THEN "exposed" ELSE "woken",
                           p[1], <<>>, {p[2]}) : p \in woken}
           verdicts == waking \cup IF unsure # {} \/ skipped # {} THEN {Unverified} ELSE {}
           R == wake_findings(old, new, node, captured, complete, estate)
           quiet == Said("wakes-nothing", "any", <<>>, {})
<1>1. R = IF verdicts # {} THEN verdicts ELSE IF complete THEN {quiet} ELSE {Unverified}
  BY DEF wake_findings
<1>2. Unverified.says = "unverified" /\ quiet.says = "wakes-nothing"
  BY DEF Unverified, Said
<1>3. \A p : p \in pairs <=> \E b \in captured : /\ Comparable(b, node, estate)
                                                 /\ p \in b.members \X RolePermissions(b.role)
  BY DEF GrantPairs
<1>4. \A b : Comparable(b, node, estate) => RolePermissions(b.role) \subseteq Permissions
  BY RolesGrant DEF Comparable
<1>5. \A p \in pairs : p = <<p[1], p[2]>> /\ p[2] \in Permissions
  BY <1>3, <1>4
<1>6. \A p \in pairs :
        /\ before(p) \in {"yes", "undecided", "no"} /\ after(p) \in {"yes", "undecided", "no"}
        /\ \A who \in Grantees(p[1], w) :
             /\ before(p) = "yes" => DeniesAny(old, who, p[2], w)
             /\ before(p) = "no" => ~DeniesAny(old, who, p[2], w)
             /\ after(p) = "yes" => DeniesAny(new, who, p[2], w)
             /\ after(p) = "no" => ~DeniesAny(new, who, p[2], w)
  <2> SUFFICES ASSUME NEW p \in pairs
               PROVE  /\ before(p) \in {"yes", "undecided", "no"}
                      /\ after(p) \in {"yes", "undecided", "no"}
                      /\ \A who \in Grantees(p[1], w) :
                           /\ before(p) = "yes" => DeniesAny(old, who, p[2], w)
                           /\ before(p) = "no" => ~DeniesAny(old, who, p[2], w)
                           /\ after(p) = "yes" => DeniesAny(new, who, p[2], w)
                           /\ after(p) = "no" => ~DeniesAny(new, who, p[2], w)
    OBVIOUS
  <2>1. p[2] \in Permissions
    BY <1>5
  <2> DEFINE number == estate.number
             m == p[1]
             q == p[2]
  <2>2. number \in Numbers /\ w \in DenyWorlds(number) /\ q \in Permissions
    BY <2>1
  <2> HIDE DEF pairs, number, m, q
  <2>3. /\ PairCovered(m, q, old, number) \in {"yes", "undecided", "no"}
        /\ PairCovered(m, q, old, number) = "yes" =>
              \A who \in Grantees(m, w) : DeniesAny(old, who, q, w)
        /\ PairCovered(m, q, old, number) = "no" =>
              \A who \in Grantees(m, w) : ~DeniesAny(old, who, q, w)
    BY <2>2, PairIsSound
  <2>4. /\ PairCovered(m, q, new, number) \in {"yes", "undecided", "no"}
        /\ PairCovered(m, q, new, number) = "yes" =>
              \A who \in Grantees(m, w) : DeniesAny(new, who, q, w)
        /\ PairCovered(m, q, new, number) = "no" =>
              \A who \in Grantees(m, w) : ~DeniesAny(new, who, q, w)
    BY <2>2, PairIsSound
  <2> QED BY <2>3, <2>4 DEF number, m, q
<1>7. \A p : /\ p \in dormant <=> p \in pairs /\ before(p) # "no"
             /\ p \in unsure <=> p \in dormant /\ (before(p) = "undecided" \/ after(p) = "undecided")
             /\ p \in woken <=> p \in dormant /\ p \notin unsure /\ after(p) = "no"
  OBVIOUS
<1>8. \A v \in waking : v.says \in {"exposed", "woken"}
                        /\ \E p \in woken : v.member = p[1] /\ v.named = {p[2]}
  BY DEF Said
<1>9. \A b : b \in skipped <=> b \in captured /\ ~Comparable(b, node, estate)
                               /\ ~Elsewhere(b, node, estate)
  OBVIOUS
<1>10. waking = {} => woken = {}
  <2> SUFFICES ASSUME NEW p \in woken PROVE waking # {}
    OBVIOUS
  <2> DEFINE says(q) == IF q[2] \in Escalations \/ q[1] = "allUsers" THEN "exposed" ELSE "woken"
  <2>1. Said(says(p), p[1], <<>>, {p[2]}) \in waking
    <3> HIDE DEF woken
    <3> QED OBVIOUS
  <2> QED BY <2>1
<1>11. \A v \in verdicts : v \in waking \/ v = Unverified
  BY Zenon
<1>12. verdicts = {} => waking = {} /\ unsure = {} /\ skipped = {}
  <2> HIDE DEF waking, unsure, skipped
  <2> QED OBVIOUS
<1> HIDE DEF before, after, pairs, dormant, unsure, woken, skipped, waking, verdicts, R, quiet
<1>13. ASSUME NEW v \in R, v.says \in {"exposed", "woken"},
              NEW who \in Grantees(v.member, w), NEW p \in v.named
       PROVE  DeniesAny(old, who, p, w) /\ ~DeniesAny(new, who, p, w)
  <2>1. v \in waking
    BY <1>1, <1>2, <1>11, <1>13
  <2>2. PICK q \in woken : v.member = q[1] /\ v.named = {q[2]}
    BY <1>8, <2>1
  <2>3. q \in pairs /\ before(q) = "yes" /\ after(q) = "no"
    BY <1>6, <1>7, <2>2
  <2>4. p = q[2] /\ who \in Grantees(q[1], w)
    BY <1>13, <2>2
  <2> QED BY <1>6, <2>3, <2>4
<1>14. ASSUME NEW v \in R, v.says = "wakes-nothing", NEW b \in bindings, NEW m \in b.members,
              NEW who \in Grantees(m, w), NEW p \in RolePermissions(b.role),
              Within(b.at, node, estate.table) # "no", DeniesAny(old, who, p, w)
       PROVE  DeniesAny(new, who, p, w)
  <2>1. verdicts = {} /\ complete
    BY <1>1, <1>2, <1>8, <1>11, <1>14
  <2>2. waking = {} /\ woken = {} /\ unsure = {} /\ skipped = {} /\ b \in captured
    BY <1>10, <1>12, <2>1
  <2>3. Comparable(b, node, estate)
    BY <1>9, <1>14, <2>2 DEF Elsewhere
  <2> DEFINE q == <<m, p>>
  <2>4. q \in pairs /\ q[1] = m /\ q[2] = p
    BY <1>3, <2>2, <2>3
  <2> HIDE DEF q
  <2>5. before(q) # "no"
    BY <1>6, <1>14, <2>4
  <2>6. after(q) = "yes"
    BY <1>6, <1>7, <2>2, <2>4, <2>5
  <2> QED BY <1>6, <2>4, <2>6
<1> QED BY <1>13, <1>14 DEF TrueOfWake, R

\* Whatever is granted under whatever policy, and however a policy changes:
\* what is said of it is so for everybody it may concern, whoever is in the
\* groups, whatever a wildcard names and whether or not the conditions hold
\* (iam_deny_checks.py:386, 403, 738, 1003, 1124).
THEOREM DeniesAreRight == AskSpec => []DenyIsTrue
<1>1. Unasked => DenyIsTrue
  BY DEF Unasked, Nothing, DenyIsTrue
<1>2. QuestionIsRead /\ DenyIsTrue /\ [AskNext]_asked => DenyIsTrue'
  <2> SUFFICES ASSUME QuestionIsRead, DenyIsTrue, [AskNext]_asked PROVE DenyIsTrue'
    OBVIOUS
  <2>1. CASE asked' = asked
    BY <2>1 DEF DenyIsTrue
  <2>2. CASE AskGrant
    <3>1. asked.number \in Numbers
      BY <2>2 DEF AskGrant, QuestionIsRead, NumberIsRead
    <3>2. PICK grant \in DenyGrants, rules \in DenyRules, complete \in BOOLEAN,
               node \in {"project", "folder", "org", "unreadable"} :
            LET policy == [rules |-> rules, node |-> node]
            IN asked' = [of |-> "grant", estate |-> asked, grant |-> grant, policy |-> policy,
                         complete |-> complete,
                         verdicts |-> check_deny_shadow_estate(grant, {policy}, complete, asked)]
      BY <2>2 DEF AskGrant
    <3> DEFINE policy == [rules |-> rules, node |-> node]
    <3>3. policy.rules \in Seq(DenyRuleDocument)
      BY DenyAssumption
    <3> HIDE DEF policy
    <3>4. /\ asked'.of = "grant" /\ asked'.estate = asked /\ asked'.grant = grant
          /\ asked'.policy = policy /\ asked'.complete = complete
          /\ asked'.verdicts = check_deny_shadow_estate(grant, {policy}, complete, asked)
      BY <3>2 DEF policy
    <3>5. complete => check_deny_shadow_estate(grant, {policy}, complete, asked)
                        = InteractionVerdicts(grant, policy, asked)
      BY DEF check_deny_shadow_estate
    <3>6. \A w \in DenyWorlds(asked.number) :
            TrueOfGrant(grant, policy, asked, InteractionVerdicts(grant, policy, asked), w)
      BY <3>1, <3>3, GrantIsRight
    <3> QED BY <3>4, <3>5, <3>6 DEF DenyIsTrue
  <2>3. CASE AskWake
    <3>1. asked.number \in Numbers
      BY <2>3 DEF AskWake, QuestionIsRead, NumberIsRead
    <3>2. PICK bindings \in DenyBindings, whole \in BOOLEAN, change \in DenyChanges,
               node \in {"project", "folder"} :
            LET captured == IF whole THEN bindings ELSE {b \in bindings : b.at = "project"}
            IN asked' = [of |-> "wake", estate |-> asked, bindings |-> bindings, node |-> node,
                         old |-> change[1], new |-> change[2],
                         verdicts |-> wake_findings(change[1], change[2], node, captured,
                                                    whole, asked)]
      BY <2>3 DEF AskWake
    <3> DEFINE captured == IF whole THEN bindings ELSE {b \in bindings : b.at = "project"}
    <3>3. change[1] \in Seq(DenyRuleDocument) /\ change[2] \in Seq(DenyRuleDocument)
      BY DenyAssumption
    <3>4. whole => captured = bindings
      OBVIOUS
    <3> HIDE DEF captured
    <3>5. /\ asked'.of = "wake" /\ asked'.estate = asked /\ asked'.bindings = bindings
          /\ asked'.node = node /\ asked'.old = change[1] /\ asked'.new = change[2]
          /\ asked'.verdicts = wake_findings(change[1], change[2], node, captured, whole, asked)
      BY <3>2 DEF captured
    <3>6. \A w \in DenyWorlds(asked.number) :
            TrueOfWake(change[1], change[2], node, bindings, asked,
                       wake_findings(change[1], change[2], node, captured, whole, asked), w)
      BY <3>1, <3>3, <3>4, WakeIsRight
    <3> QED BY <3>5, <3>6 DEF DenyIsTrue
  <2>4. CASE asked'.of \notin {"grant", "wake"}
    BY <2>4 DEF DenyIsTrue
  <2> QED BY <2>1, <2>2, <2>3, <2>4, AskedBy
<1> QED BY <1>1, <1>2, QuestionsAreRead, PTL DEF AskSpec

-----------------------------------------------------------------------------
(* Order and folding.                                                      *)

\* Functions of the subsets of a finite set are one if at every subset they
\* agree when they agree at the smaller ones.
LEMMA SameOnSubsets ==
  ASSUME NEW D, IsFiniteSet(D), NEW f, NEW g,
         \A t \in SUBSET D :
            (\A u \in SUBSET D : u \subseteq t /\ u # t => f[u] = g[u]) => f[t] = g[t]
  PROVE  \A t \in SUBSET D : f[t] = g[t]
<1> DEFINE B == {t \in SUBSET D : f[t] # g[t]}
<1> SUFFICES ASSUME B # {} PROVE FALSE
  OBVIOUS
<1>1. IsWellFoundedOn(StrictSubsetOrdering(D), SUBSET D)
  BY FS_StrictSubsetOrderingWellFounded, FS_FiniteSubsetsOfFinite
<1>2. PICK t \in B : \A u \in B : <<u, t>> \notin StrictSubsetOrdering(D)
  <2>1. B \subseteq SUBSET D
    OBVIOUS
  <2> HIDE DEF B
  <2> QED BY <1>1, <2>1, WFMin
<1>3. \A u \in SUBSET D : u \subseteq t /\ u # t => u \notin B
  BY <1>2 DEF StrictSubsetOrdering
<1> QED BY <1>2, <1>3

\* Ranks by a strict order that is total: one for each, in its order.
RankOf(I, R) == [i \in I |-> Cardinality({j \in I : <<j, i>> \in R}) + 1]

IsOrdering(R, I) ==
    /\ \A i \in I : <<i, i>> \notin R
    /\ \A i, j \in I : i # j => <<i, j>> \in R \/ <<j, i>> \in R
    /\ \A i, j, k \in I : <<i, j>> \in R /\ <<j, k>> \in R => <<i, k>> \in R
IsRanking(rank, I, R) ==
    /\ rank \in [I -> 1..Cardinality(I)]
    /\ \A i, j \in I : <<i, j>> \in R => rank[i] < rank[j]
    /\ \A k \in 1..Cardinality(I) : \E i \in I : rank[i] = k

LEMMA Ranking ==
  ASSUME NEW I, IsFiniteSet(I), NEW R, IsOrdering(R, I), NEW rank, rank = RankOf(I, R)
  PROVE  IsRanking(rank, I, R)
<1> DEFINE Below(i) == {j \in I : <<j, i>> \in R}
<1> USE DEF RankOf, IsOrdering
<1>1. Cardinality(I) \in Nat
  BY FS_CardinalityType
<1>2. ASSUME NEW i \in I
      PROVE  /\ IsFiniteSet(Below(i)) /\ Cardinality(Below(i)) \in Nat
             /\ Cardinality(Below(i)) <= Cardinality(I) - 1
  <2>1. Below(i) \in SUBSET (I \ {i})
    OBVIOUS
  <2>2. IsFiniteSet(I \ {i}) /\ Cardinality(I \ {i}) = Cardinality(I) - 1
    BY FS_RemoveElement
  <2> HIDE DEF Below
  <2> QED BY <2>1, <2>2, FS_Subset, FS_CardinalityType
<1>3. ASSUME NEW i \in I, NEW j \in I, <<i, j>> \in R PROVE rank[i] < rank[j]
  <2>1. Below(i) \in SUBSET (Below(j) \ {i}) /\ i \in Below(j)
    BY <1>3
  <2> HIDE DEF Below
  <2>2. /\ IsFiniteSet(Below(j) \ {i})
        /\ Cardinality(Below(j) \ {i}) = Cardinality(Below(j)) - 1
    BY <1>2, <2>1, FS_RemoveElement
  <2>3. Cardinality(Below(i)) <= Cardinality(Below(j)) - 1
    BY <2>1, <2>2, FS_Subset
  <2>4. /\ Cardinality(Below(i)) \in Nat /\ Cardinality(Below(j)) \in Nat
    BY <1>2
  <2>5. rank[i] = Cardinality(Below(i)) + 1 /\ rank[j] = Cardinality(Below(j)) + 1
    BY DEF Below
  <2> QED BY <2>3, <2>4, <2>5
<1>4. rank \in [I -> 1..Cardinality(I)]
  <2>1. \A i \in I : Cardinality(Below(i)) + 1 \in 1..Cardinality(I)
    <3> HIDE DEF Below
    <3> QED BY <1>1, <1>2
  <2>2. rank = [i \in I |-> Cardinality(Below(i)) + 1]
    OBVIOUS
  <2> HIDE DEF Below
  <2> QED BY <2>1, <2>2
<1>5. ASSUME NEW k \in 1..Cardinality(I), \A i \in I : rank[i] # k PROVE FALSE
  <2> DEFINE T == (1..Cardinality(I)) \ {k}
  <2>1. IsFiniteSet(1..Cardinality(I)) /\ Cardinality(1..Cardinality(I)) = Cardinality(I)
    BY <1>1, FS_Interval
  <2>2. IsFiniteSet(T) /\ Cardinality(T) = Cardinality(I) - 1
    BY <2>1, FS_RemoveElement
  <2>3. rank \in [I -> T]
    BY <1>4, <1>5
  <2>4. Cardinality(T) < Cardinality(I)
    BY <1>1, <2>2
  <2> HIDE DEF T
  <2>5. PICK x, y \in I : x # y /\ rank[x] = rank[y]
    BY <2>2, <2>3, <2>4, FS_PigeonHole
  <2>6. rank[x] < rank[y] \/ rank[y] < rank[x]
    BY <1>3, <2>5
  <2>7. rank[x] \in Nat /\ rank[y] \in Nat
    BY <1>4
  <2> QED BY <2>5, <2>6, <2>7
<1> QED BY <1>3, <1>4, <1>5 DEF IsRanking

\* The first of the rules that match a packet decides it.
Decided(s, t, base) ==
    {p \in Packets :
        LET hits == {k \in t : p \in rule_match(s[k])}
        IN IF hits = {} THEN p \in base ELSE s[Min(hits)].action = "allow"}

LEMMA FirstDecides ==
  ASSUME NEW n \in Nat, NEW s, DOMAIN s = 1..n, NEW base \in SUBSET Packets
  PROVE  FoldRight(LAMBDA r, allowed : IF r.action = "allow" THEN allowed \cup rule_match(r)
                                       ELSE allowed \ rule_match(r), s, base)
           = Decided(s, 1..n, base)
<1> DEFINE D == 1..n
           op(r, allowed) == IF r.action = "allow" THEN allowed \cup rule_match(r)
                             ELSE allowed \ rule_match(r)
           Folds(g) == g = [t \in SUBSET D |-> IF t = {} THEN base
                                               ELSE op(s[Min(t)], g[t \ {Min(t)}])]
           f == [t \in SUBSET D |-> Decided(s, t, base)]
<1>1. FoldRight(LAMBDA r, allowed : IF r.action = "allow" THEN allowed \cup rule_match(r)
                                    ELSE allowed \ rule_match(r), s, base)
        = (CHOOSE g : Folds(g))[D]
  BY DEF FoldRight, MapThenFoldSet
<1>2. ASSUME NEW t \in SUBSET D, t # {}
      PROVE  Decided(s, t, base) = op(s[Min(t)], Decided(s, t \ {Min(t)}, base))
  <2> DEFINE m == Min(t)
             mine == rule_match(s[m])
  <2>0. t \subseteq Nat
    OBVIOUS
  <2>1. m \in t /\ \A k \in t : m <= k
    BY <1>2, <2>0, SmallestNumber
  <2>2. mine \subseteq Packets
    BY DEF rule_match
  <2> SUFFICES ASSUME NEW p \in Packets
               PROVE  p \in Decided(s, t, base) <=> p \in op(s[m], Decided(s, t \ {m}, base))
    BY <2>2 DEF Decided
  <2> DEFINE hits(u) == {k \in u : p \in rule_match(s[k])}
  <2> HIDE DEF m
  <2>3. \A u : p \in Decided(s, u, base)
                 <=> IF hits(u) = {} THEN p \in base ELSE s[Min(hits(u))].action = "allow"
    BY DEF Decided
  <2>4. CASE p \in mine
    <3>1. m \in hits(t) /\ hits(t) \subseteq Nat /\ \A k \in hits(t) : m <= k
      BY <2>0, <2>1, <2>4
    <3>2. Min(hits(t)) \in hits(t) /\ Min(hits(t)) <= m
      <4> HIDE DEF hits
      <4> QED BY <3>1, SmallestNumber
    <3>3. Min(hits(t)) = m
      <4>1. Min(hits(t)) \in Nat /\ m <= Min(hits(t)) /\ m \in Nat
        BY <3>1, <3>2
      <4> QED BY <3>2, <4>1
    <3>4. p \in Decided(s, t, base) <=> s[m].action = "allow"
      BY <2>3, <3>1, <3>3
    <3> QED BY <2>4, <3>4
  <2>5. CASE p \notin mine
    <3>1. hits(t \ {m}) = hits(t)
      BY <2>5
    <3>2. p \in op(s[m], Decided(s, t \ {m}, base)) <=> p \in Decided(s, t \ {m}, base)
      BY <2>5
    <3> QED BY <2>3, <3>1, <3>2
  <2> QED BY <2>4, <2>5
<1>3. Decided(s, {}, base) = base
  BY DEF Decided
<1>4. Folds(f)
  <2> SUFFICES ASSUME NEW t \in SUBSET D
               PROVE  f[t] = IF t = {} THEN base ELSE op(s[Min(t)], f[t \ {Min(t)}])
    OBVIOUS
  <2>1. t \ {Min(t)} \in SUBSET D
    OBVIOUS
  <2> HIDE DEF D, op
  <2> QED BY <1>2, <1>3, <2>1
<1> DEFINE g == CHOOSE g : Folds(g)
<1>5. Folds(g)
  <2> HIDE DEF Folds
  <2> QED BY <1>4
<1> HIDE DEF g
<1>6. \A t \in SUBSET D : f[t] = g[t]
  <2>1. IsFiniteSet(D)
    BY FS_Interval
  <2>2. ASSUME NEW t \in SUBSET D, \A u \in SUBSET D : u \subseteq t /\ u # t => f[u] = g[u]
        PROVE  f[t] = g[t]
    <3>1. CASE t = {}
      BY <1>4, <1>5, <3>1
    <3>2. CASE t # {}
      <4>1. t \subseteq Nat /\ Min(t) \in t
        <5>1. t \subseteq Nat
          OBVIOUS
        <5> QED BY <3>2, <5>1, SmallestNumber
      <4>2. t \ {Min(t)} \in SUBSET D /\ t \ {Min(t)} \subseteq t /\ t \ {Min(t)} # t
        BY <4>1
      <4>3. f[t \ {Min(t)}] = g[t \ {Min(t)}]
        <5> HIDE DEF f, D
        <5> QED BY <2>2, <4>2
      <4>4. /\ f[t] = op(s[Min(t)], f[t \ {Min(t)}])
            /\ g[t] = op(s[Min(t)], g[t \ {Min(t)}])
        <5>1. \A h : Folds(h) => h[t] = op(s[Min(t)], h[t \ {Min(t)}])
          BY <3>2
        <5> HIDE DEF f, op, D, Folds
        <5> QED BY <1>4, <1>5, <5>1
      <4> HIDE DEF f, op
      <4> QED BY <4>3, <4>4
    <3> QED BY <3>1, <3>2
  <2> HIDE DEF f, D, Folds
  <2> QED BY <2>1, <2>2, SameOnSubsets
<1>7. g[D] = Decided(s, 1..n, base)
  BY <1>6
<1> QED BY <1>1, <1>7 DEF g

-----------------------------------------------------------------------------
(* A document against its baseline.                                        *)

Before(rules, i, j) == \/ Outranks(rules[i], rules[j])
                       \/ i < j /\ ~Outranks(rules[j], rules[i])

IsOrder(rules, live, c, seat) ==
    /\ seat \in [1..c -> live]
    /\ Ordered(rules, live) = [k \in 1..c |-> rules[seat[k]]]
    /\ \A i \in live : \E k \in 1..c : seat[k] = i
    /\ \A j, k \in 1..c : j < k => /\ Before(rules, seat[j], seat[k])
                                   /\ ~Outranks(rules[seat[k]], rules[seat[j]])

\* What is ordered: every live rule has a place, before those it outranks.
LEMMA OrderIs ==
  ASSUME NEW n \in Nat, NEW rules, NEW live \in SUBSET (1..n),
         \A i \in live : rules[i].priority \in Int
  PROVE  \E c \in Nat : \E seat : IsOrder(rules, live, c, seat)
<1> DEFINE R == {p \in live \X live : Before(rules, p[1], p[2])}
           rank == RankOf(live, R)
           c == Cardinality(live)
           seat == [k \in 1..c |-> CHOOSE i \in live :
                                    Cardinality({j \in live : Before(rules, j, i)}) + 1 = k]
<1>1. IsFiniteSet(live) /\ c \in Nat
  <2>1. IsFiniteSet(1..n)
    BY FS_Interval
  <2>2. IsFiniteSet(live)
    BY <2>1, FS_Subset
  <2> QED BY <2>2, FS_CardinalityType
<1>2. live \subseteq Nat
  OBVIOUS
<1>3. \A i, j \in live : <<i, j>> \in R <=> Before(rules, i, j)
  OBVIOUS
<1> HIDE DEF R
<1>4. /\ \A i \in live : <<i, i>> \notin R
      /\ \A i, j \in live : i # j => <<i, j>> \in R \/ <<j, i>> \in R
      /\ \A i, j, k \in live : <<i, j>> \in R /\ <<j, k>> \in R => <<i, k>> \in R
  <2>1. \A i \in live : ~Outranks(rules[i], rules[i])
    BY DEF Outranks
  <2>2. \A i \in live : <<i, i>> \notin R
    BY <1>2, <1>3, <2>1 DEF Before
  <2>3. \A i, j \in live : i # j => <<i, j>> \in R \/ <<j, i>> \in R
    <3> SUFFICES ASSUME NEW i \in live, NEW j \in live, i # j
                 PROVE  Before(rules, i, j) \/ Before(rules, j, i)
      BY <1>3
    <3>1. i < j \/ j < i
      BY <1>2
    <3> QED BY <3>1 DEF Before
  <2>4. ASSUME NEW i \in live, NEW j \in live, NEW k \in live,
               Before(rules, i, j), Before(rules, j, k)
        PROVE  Before(rules, i, k)
    <3>1. /\ rules[i].priority \in Int /\ rules[j].priority \in Int /\ rules[k].priority \in Int
          /\ i \in Nat /\ j \in Nat /\ k \in Nat
      BY <1>2
    <3> QED BY <2>4, <3>1 DEF Before, Outranks
  <2> QED BY <1>3, <2>2, <2>3, <2>4
<1>5. /\ rank \in [live -> 1..c]
      /\ \A i, j \in live : <<i, j>> \in R => rank[i] < rank[j]
      /\ \A k \in 1..c : \E i \in live : rank[i] = k
  <2>1. rank = RankOf(live, R)
    OBVIOUS
  <2> HIDE DEF rank
  <2>2. IsOrdering(R, live)
    BY <1>4 DEF IsOrdering
  <2>3. IsRanking(rank, live, R)
    BY <1>1, <2>1, <2>2, Ranking
  <2> QED BY <2>3 DEF IsRanking
<1>6. \A i \in live : rank[i] = Cardinality({j \in live : Before(rules, j, i)}) + 1
  <2> SUFFICES ASSUME NEW i \in live
               PROVE  {j \in live : <<j, i>> \in R} = {j \in live : Before(rules, j, i)}
    BY DEF RankOf
  <2> QED BY <1>3
<1> HIDE DEF rank, c
<1>7. seat \in [1..c -> live] /\ \A k \in 1..c : rank[seat[k]] = k
  <2>1. \A k \in 1..c : \E i \in live :
          Cardinality({j \in live : Before(rules, j, i)}) + 1 = k
    BY <1>5, <1>6
  <2>2. \A k \in 1..c : /\ seat[k] \in live
                        /\ Cardinality({j \in live : Before(rules, j, seat[k])}) + 1 = k
    BY <2>1
  <2>3. seat \in [1..c -> live]
    BY <2>2
  <2> HIDE DEF seat
  <2> QED BY <1>6, <2>2, <2>3
<1>8. Ordered(rules, live) = [k \in 1..c |-> rules[seat[k]]]
  BY DEF Ordered, Before, c
<1> HIDE DEF seat
<1>9. ASSUME NEW i \in live, NEW j \in live, rank[i] = rank[j] PROVE i = j
  <2>1. rank[i] \in 1..c /\ rank[j] \in 1..c
    BY <1>5
  <2>2. ~(rank[i] < rank[j]) /\ ~(rank[j] < rank[i])
    BY <1>1, <1>9, <2>1
  <2> QED BY <1>4, <1>5, <2>2
<1>10. \A i \in live : rank[i] \in 1..c /\ seat[rank[i]] = i
  <2> SUFFICES ASSUME NEW i \in live PROVE rank[i] \in 1..c /\ seat[rank[i]] = i
    OBVIOUS
  <2>1. rank[i] \in 1..c
    BY <1>5
  <2>2. seat[rank[i]] \in live /\ rank[seat[rank[i]]] = rank[i]
    BY <1>7, <2>1
  <2> QED BY <1>9, <2>1, <2>2
<1>11. ASSUME NEW j \in 1..c, NEW k \in 1..c, j < k
       PROVE  /\ Before(rules, seat[j], seat[k])
              /\ ~Outranks(rules[seat[k]], rules[seat[j]])
  <2>1. seat[j] \in live /\ seat[k] \in live /\ rank[seat[j]] = j /\ rank[seat[k]] = k
    BY <1>7
  <2>2. ASSUME <<seat[k], seat[j]>> \in R PROVE FALSE
    <3>1. rank[seat[k]] < rank[seat[j]]
      BY <1>5, <2>1, <2>2
    <3> QED BY <1>1, <1>11, <2>1, <3>1
  <2> DEFINE x == seat[j]
             y == seat[k]
  <2>5. x \in live /\ y \in live /\ x # y /\ <<y, x>> \notin R
    BY <1>11, <2>1, <2>2
  <2> HIDE DEF x, y
  <2>6. <<x, y>> \in R
    BY <1>4, <2>5
  <2>3. <<seat[j], seat[k]>> \in R
    BY <2>6 DEF x, y
  <2>4. Before(rules, seat[j], seat[k]) /\ ~Before(rules, seat[k], seat[j])
    BY <1>3, <2>1, <2>2, <2>3
  <2> QED BY <2>4 DEF Before
<1>12. IsOrder(rules, live, c, seat)
  BY <1>7, <1>8, <1>10, <1>11 DEF IsOrder
<1> QED BY <1>1, <1>12

\* The rules at some places, and where those of a direction are that are enabled.
RulesAt(rules, group) == {rules[i] : i \in group}
LiveOf(rules, group, direction) ==
    {i \in group : rules[i].direction = direction /\ ~rules[i].disabled}

IsNetwork(allowed, rules, direction) ==
    /\ allowed \subseteq Packets
    /\ \A p \in Packets : p \in allowed <=> Allowed(rules, direction, p)
Decisive(rules, group) ==
    \A i \in group : rules[i].priority \in Int /\ rules[i].action \in {"allow", "deny"}

\* The fold over the order is what the network does.
LEMMA FoldIsNetwork ==
  ASSUME NEW n \in Nat, NEW rules, NEW group \in SUBSET (1..n), NEW direction, NEW live,
         live = LiveOf(rules, group, direction),
         Decisive(rules, group)
  PROVE  IsNetwork(effective_allow(rules, live, direction = "EGRESS"), RulesAt(rules, group),
                   direction)
<1> USE DEF Decisive, IsNetwork
<1>0. live \in SUBSET (1..n) /\ \A i \in live : rules[i].priority \in Int
  BY DEF LiveOf
<1>01. PICK c \in Nat : \E seat : IsOrder(rules, live, c, seat)
  BY <1>0, OrderIs
<1>1. PICK seat : IsOrder(rules, live, c, seat)
  BY <1>01
<1>2. /\ seat \in [1..c -> live]
      /\ Ordered(rules, live) = [k \in 1..c |-> rules[seat[k]]]
      /\ \A i \in live : \E k \in 1..c : seat[k] = i
      /\ \A j, k \in 1..c : j < k => ~Outranks(rules[seat[k]], rules[seat[j]])
  BY <1>1 DEF IsOrder
<1> DEFINE s == [k \in 1..c |-> rules[seat[k]]]
           base == IF direction = "EGRESS" THEN Packets ELSE {}
<1>3. effective_allow(rules, live, direction = "EGRESS") = Decided(s, 1..c, base)
  <2>1. effective_allow(rules, live, direction = "EGRESS")
          = FoldRight(LAMBDA r, allowed : IF r.action = "allow" THEN allowed \cup rule_match(r)
                                          ELSE allowed \ rule_match(r), s, base)
    BY <1>2 DEF effective_allow
  <2>2. DOMAIN s = 1..c /\ base \in SUBSET Packets
    OBVIOUS
  <2> HIDE DEF s, base
  <2> QED BY <2>1, <2>2, FirstDecides
<1> USE DEF RulesAt, LiveOf
<1> SUFFICES ASSUME NEW p \in Packets
             PROVE  p \in Decided(s, 1..c, base)
                      <=> Allowed(RulesAt(rules, group), direction, p)
  <2>1. Decided(s, 1..c, base) \subseteq Packets
    BY DEF Decided
  <2> HIDE DEF s, base
  <2> QED BY <1>3, <2>1
<1> DEFINE hits == {k \in 1..c : p \in rule_match(s[k])}
           H == {r \in RulesAt(rules, group) :
                    r.direction = direction /\ ~r.disabled /\ p \in rule_match(r)}
           first == {r \in H : \A q \in H : r.priority <= q.priority}
<1>4. p \in Decided(s, 1..c, base)
        <=> IF hits = {} THEN p \in base ELSE s[Min(hits)].action = "allow"
  BY DEF Decided
<1>5. Allowed(RulesAt(rules, group), direction, p)
        <=> IF H = {} THEN direction = "EGRESS" ELSE \A r \in first : r.action # "deny"
  BY DEF Allowed
<1>6. \A k \in 1..c : s[k] = rules[seat[k]] /\ seat[k] \in live
  BY <1>2
<1>7. \A r : r \in H <=> \E k \in hits : r = s[k]
  <2> HIDE DEF s
  <2>1. ASSUME NEW k \in hits PROVE s[k] \in H
    <3>1. k \in 1..c /\ p \in rule_match(s[k])
      OBVIOUS
    <3> QED BY <1>6, <3>1
  <2>2. ASSUME NEW r \in H PROVE \E k \in hits : r = s[k]
    <3>1. PICK i \in group : r = rules[i]
      OBVIOUS
    <3>2. i \in live /\ p \in rule_match(rules[i])
      BY <3>1
    <3>3. PICK k \in 1..c : seat[k] = i
      BY <1>2, <3>2
    <3> QED BY <1>6, <3>1, <3>2, <3>3
  <2> QED BY <2>1, <2>2
<1>8. \A k \in hits : s[k].priority \in Int /\ s[k].action \in {"allow", "deny"}
  BY <1>6
<1>9. hits \subseteq Nat /\ \A k \in hits : k \in 1..c
  OBVIOUS
<1>10. \A j, k \in 1..c : j < k => ~Outranks(s[k], s[j])
  BY <1>2, <1>6
<1>11. \A r : r \in first <=> r \in H /\ \A q \in H : r.priority <= q.priority
  OBVIOUS
<1>12. p \in base <=> direction = "EGRESS"
  OBVIOUS
<1> HIDE DEF s, hits, H, first, base
<1>13. CASE hits = {}
  BY <1>4, <1>5, <1>7, <1>12, <1>13
<1>14. CASE hits # {}
  <2> DEFINE m == Min(hits)
  <2>1. m \in hits /\ \A k \in hits : m <= k
    BY <1>9, <1>14, SmallestNumber
  <2> HIDE DEF m
  <2>2. ASSUME NEW k \in hits PROVE ~Outranks(s[k], s[m])
    <3>1. CASE m = k
      BY <1>8, <3>1 DEF Outranks
    <3>2. CASE m # k
      <4>1. m < k
        BY <1>9, <2>1, <3>2
      <4> QED BY <1>9, <1>10, <2>1, <4>1
    <3> QED BY <3>1, <3>2
  <2>3. \A k \in hits : /\ s[m].priority <= s[k].priority
                        /\ s[m].priority = s[k].priority /\ s[k].action = "deny" =>
                              s[m].action = "deny"
    BY <1>8, <2>1, <2>2 DEF Outranks
  <2>4. s[m] \in first /\ H # {}
    BY <1>7, <1>11, <2>1, <2>3
  <2>5. ASSUME s[m].action = "allow", NEW r \in first PROVE r.action # "deny"
    <3>1. PICK k \in hits : r = s[k]
      BY <1>7, <1>11, <2>5
    <3>2. r.priority <= s[m].priority
      BY <1>11, <2>4, <2>5
    <3>3. s[m].priority = s[k].priority
      BY <1>8, <2>1, <2>3, <3>1, <3>2
    <3> QED BY <2>3, <2>5, <3>1, <3>3
  <2>6. s[m].action # "deny" => s[m].action = "allow"
    BY <1>8, <2>1
  <2> QED BY <1>4, <1>5, <1>14, <2>4, <2>5, <2>6 DEF m
<1> QED BY <1>13, <1>14

\* What is said of a group of two estates.
LEMMA PairIsRight ==
  ASSUME NEW e \in Estates, NEW o \in Estates, NEW new, new = Read(e), NEW old, old = Read(o),
         NEW v \in check_packet_set_pair(new, old, [there |-> TRUE, hard |-> {}]),
         v.about # "document"
  PROVE  TrueOfPair(new, old, v)
<1> DEFINE all == new \o old
           Offender(rules, group) ==
             \E i \in group : rules[i].unsupported \/ (~rules[i].disabled /\ ~Encodable(rules[i]))
           groups == {<<all[i].network, all[i].direction>> : i \in 1..Len(all)}
           said(g) == IF \/ Offender(new, Group(new, g[1], g[2]))
                         \/ Offender(old, Group(old, g[1], g[2]))
                      THEN Abstain("pair", g)
                      ELSE Finding(IF Compared(new, Group(new, g[1], g[2]),
                                               old, Group(old, g[1], g[2]), g[2])
                                   THEN "grounded" ELSE "contradicted", "pair", g)
<1>1. v = Abstain("pair", "document") \/ \E g \in groups : v = said(g)
  BY DEF check_packet_set_pair
<1>2. v # Abstain("pair", "document")
  BY DEF Abstain, Finding
<1>3. PICK g \in groups : v = said(g)
  BY <1>1, <1>2
<1> DEFINE mine == Group(new, g[1], g[2])
           theirs == Group(old, g[1], g[2])
<1>4. v.about = g
  BY <1>3 DEF Abstain, Finding
<1>5. CASE Offender(new, mine) \/ Offender(old, theirs)
  <2>1. v.status = "unverified"
    BY <1>3, <1>5 DEF Abstain, Finding
  <2> QED BY <2>1 DEF TrueOfPair
<1>6. CASE ~Offender(new, mine) /\ ~Offender(old, theirs)
  <2>1. v.status = IF Compared(new, mine, old, theirs, g[2]) THEN "grounded" ELSE "contradicted"
    BY <1>3, <1>6 DEF Finding
  <2>2. /\ Len(e) \in Nat /\ DOMAIN new = 1..Len(e) /\ Len(new) = Len(e)
        /\ \A i \in 1..Len(e) : e[i] \in RuleDocument /\ new[i] = NormalRule(e[i])
        /\ Len(o) \in Nat /\ DOMAIN old = 1..Len(o) /\ Len(old) = Len(o)
        /\ \A i \in 1..Len(o) : o[i] \in RuleDocument /\ old[i] = NormalRule(o[i])
    <3>1. e \in Seq(RuleDocument) /\ o \in Seq(RuleDocument)
      BY FirewallAssumption
    <3>2. \A d \in Seq(RuleDocument) :
            /\ Len(d) \in Nat /\ DOMAIN Read(d) = 1..Len(d) /\ Len(Read(d)) = Len(d)
            /\ \A i \in 1..Len(d) : d[i] \in RuleDocument /\ Read(d)[i] = NormalRule(d[i])
      BY DEF Read
    <3> QED BY <3>1, <3>2
  <2>3. /\ mine \in SUBSET (1..Len(e)) /\ theirs \in SUBSET (1..Len(o))
        /\ \A i \in mine : new[i].direction = g[2]
        /\ \A i \in theirs : old[i].direction = g[2]
    BY <2>2 DEF Group
  <2>4. /\ \A i \in mine : /\ new[i].priority \in Int /\ new[i].action \in {"allow", "deny"}
                           /\ ~new[i].unsupported
        /\ \A i \in theirs : /\ old[i].priority \in Int /\ old[i].action \in {"allow", "deny"}
                             /\ ~old[i].unsupported
    <3>1. /\ \A i \in mine : e[i] \in RuleDocument /\ new[i] = NormalRule(e[i])
          /\ \A i \in theirs : o[i] \in RuleDocument /\ old[i] = NormalRule(o[i])
          /\ \A i \in mine : ~new[i].unsupported
          /\ \A i \in theirs : ~old[i].unsupported
      BY <1>6, <2>2, <2>3
    <3> HIDE DEF mine, theirs
    <3> QED BY <3>1, NormalRuleIs
  <2> DEFINE live == mine \cap Enabled(new, g[2])
             them == theirs \cap Enabled(old, g[2])
  <2>5. live = LiveOf(new, mine, g[2]) /\ them = LiveOf(old, theirs, g[2])
    BY <2>2, <2>3 DEF Enabled, LiveOf
  <2>6. Compared(new, mine, old, theirs, g[2])
          <=> effective_allow(new, live, g[2] = "EGRESS")
                \subseteq effective_allow(old, them, g[2] = "EGRESS")
    BY DEF Compared
  <2> HIDE DEF mine, theirs, live, them
  <2> DEFINE A == RulesAt(new, mine)
             B == RulesAt(old, theirs)
  <2>7. Decisive(new, mine) /\ Decisive(old, theirs)
    BY <2>4 DEF Decisive
  <2>8. IsNetwork(effective_allow(new, live, g[2] = "EGRESS"), A, g[2])
    BY <2>2, <2>3, <2>5, <2>7, FoldIsNetwork
  <2>9. IsNetwork(effective_allow(old, them, g[2] = "EGRESS"), B, g[2])
    BY <2>2, <2>3, <2>5, <2>7, FoldIsNetwork
  <2> DEFINE opens == \E p \in Packets : Allowed(A, g[2], p) /\ ~Allowed(B, g[2], p)
  <2>10. Compared(new, mine, old, theirs, g[2]) <=> ~opens
    BY <2>6, <2>8, <2>9 DEF IsNetwork
  <2>11. \A r \in A \cup B : ~r.unsupported
    BY <2>4 DEF RulesAt
  <2>12. TrueOfPair(new, old, v) <=> /\ v.status = "grounded" => ~opens
                                     /\ v.status = "contradicted" => opens
                                     /\ v.status # "unverified" => \A r \in A \cup B : ~r.unsupported
    BY <1>4 DEF TrueOfPair, mine, theirs, RulesAt
  <2> QED BY <2>1, <2>10, <2>11, <2>12
<1> QED BY <1>5, <1>6

\* Whatever a document is compared with: a group is passed only if its rules
\* let nothing through that the baseline's stop, refused only if they do, and
\* neither if one of its rules could not be read, in whatever order either
\* side was captured (packet.py:400, fw_checks.py:259).
THEOREM PairsAreRight == AskSpec => []PairIsTrue
<1>1. Unasked => PairIsTrue
  BY DEF Unasked, Nothing, PairIsTrue
<1>2. QuestionIsRead /\ PairIsTrue /\ [AskNext]_asked => PairIsTrue'
  <2> SUFFICES ASSUME QuestionIsRead, PairIsTrue, [AskNext]_asked PROVE PairIsTrue'
    OBVIOUS
  <2>1. CASE asked' = asked
    BY <2>1 DEF PairIsTrue
  <2>2. CASE AskPair
    <3>1. PICK e \in Estates : asked.estate = Read(e)
      BY <2>2 DEF AskPair, QuestionIsRead, EstateIsRead
    <3>2. PICK o \in Estates :
            asked' = [of |-> "firewall-pair", new |-> asked.estate, old |-> Read(o),
                      answer |-> check_packet_set_pair(asked.estate, Read(o),
                                                       [there |-> TRUE, hard |-> {}])]
      BY <2>2 DEF AskPair
    <3> DEFINE new == Read(e)
               old == Read(o)
               answer == check_packet_set_pair(new, old, [there |-> TRUE, hard |-> {}])
    <3>3. asked'.new = new /\ asked'.old = old /\ asked'.answer = answer
      BY <3>1, <3>2
    <3>4. \A v \in answer : v.about # "document" => TrueOfPair(new, old, v)
      BY PairIsRight
    <3> HIDE DEF new, old, answer
    <3> QED BY <3>3, <3>4 DEF PairIsTrue
  <2>3. CASE asked'.of # "firewall-pair"
    BY <2>3 DEF PairIsTrue
  <2> QED BY <2>1, <2>2, <2>3, AskedBy
<1> QED BY <1>1, <1>2, QuestionsAreRead, PTL DEF AskSpec

-----------------------------------------------------------------------------
(* Steps that are repeated, and the walk up a hierarchy.                   *)

\* Whatever can be done once can be repeated.
Repeats(W, V, b, f) ==
    W \in [Nat -> V] /\ W[0] = b /\ \A n \in Nat : W[n + 1] = f[W[n]]

LEMMA Iterates ==
  ASSUME NEW V, NEW b \in V, NEW f \in [V -> V]
  PROVE  \E W : Repeats(W, V, b, f)
<1> DEFINE App(n) == {h \in [0..n -> V] : h[0] = b /\ \A i \in 0..(n - 1) : h[i + 1] = f[h[i]]}
           None == {n \in Nat : App(n) = {}}
<1>1. None = {}
  <2> SUFFICES ASSUME None # {} PROVE FALSE
    OBVIOUS
  <2> DEFINE m == Min(None)
  <2>1. m \in None /\ \A k \in None : m <= k
    <3>1. None \subseteq Nat
      OBVIOUS
    <3> HIDE DEF None
    <3> QED BY <3>1, SmallestNumber
  <2> HIDE DEF m
  <2>2. CASE m = 0
    <3>1. [i \in 0..0 |-> b] \in App(0)
      OBVIOUS
    <3> QED BY <2>1, <2>2, <3>1
  <2>3. CASE m # 0
    <3>1. m \in Nat /\ m - 1 \in Nat /\ m - 1 \notin None
      BY <2>1, <2>3
    <3>2. PICK h : h \in App(m - 1)
      BY <3>1
    <3> DEFINE k == [i \in 0..m |-> IF i = m THEN f[h[m - 1]] ELSE h[i]]
    <3>3. /\ h \in [0..(m - 1) -> V] /\ h[0] = b
          /\ \A i \in 0..(m - 2) : h[i + 1] = f[h[i]]
      BY <3>1, <3>2
    <3>4. k \in [0..m -> V]
      BY <3>1, <3>3
    <3>5. k[0] = b
      BY <2>3, <3>1, <3>3
    <3>6. ASSUME NEW i \in 0..(m - 1) PROVE k[i + 1] = f[k[i]]
      <4>1. CASE i = m - 1
        BY <3>1, <4>1
      <4>2. CASE i # m - 1
        <5>1. i \in 0..(m - 2) /\ i # m /\ i + 1 # m /\ i \in 0..m /\ i + 1 \in 0..m
          BY <3>1, <4>2
        <5> QED BY <3>3, <5>1
      <4> QED BY <4>1, <4>2
    <3> HIDE DEF k
    <3>7. k \in App(m)
      BY <3>4, <3>5, <3>6
    <3> QED BY <2>1, <3>7
  <2> QED BY <2>2, <2>3
<1> DEFINE a == [n \in Nat |-> CHOOSE h \in App(n) : TRUE]
           W == [n \in Nat |-> a[n][n]]
<1>2. \A n \in Nat : a[n] \in App(n)
  <2> SUFFICES ASSUME NEW n \in Nat PROVE (CHOOSE h \in App(n) : TRUE) \in App(n)
    OBVIOUS
  <2>1. App(n) # {}
    BY <1>1
  <2> HIDE DEF App
  <2> QED BY <2>1
<1> HIDE DEF a
<1>3. \A n \in Nat : /\ a[n] \in [0..n -> V] /\ a[n][0] = b
                     /\ \A i \in 0..(n - 1) : a[n][i + 1] = f[a[n][i]]
  BY <1>2
<1>4. ASSUME NEW n \in Nat PROVE a[n][n] = a[n + 1][n]
  <2> DEFINE Differ == {i \in 0..n : a[n][i] # a[n + 1][i]}
  <2> SUFFICES ASSUME Differ # {} PROVE FALSE
    OBVIOUS
  <2> DEFINE m == Min(Differ)
  <2>1. m \in Differ /\ \A k \in Differ : m <= k
    <3>1. Differ \subseteq Nat
      OBVIOUS
    <3> HIDE DEF Differ
    <3> QED BY <3>1, SmallestNumber
  <2> HIDE DEF m
  <2>2. m # 0
    BY <1>3, <2>1
  <2>3. m \in 1..n /\ m - 1 \in 0..(n - 1) /\ m - 1 \in 0..n /\ m - 1 \notin Differ
    BY <2>1, <2>2
  <2>4. a[n][m - 1] = a[n + 1][m - 1]
    BY <2>3
  <2>5. a[n][m] = f[a[n][m - 1]]
    <3>1. (m - 1) + 1 = m
      BY <2>3
    <3> QED BY <1>3, <2>3, <3>1
  <2>6. a[n + 1][m] = f[a[n + 1][m - 1]]
    <3>1. (m - 1) + 1 = m /\ n + 1 \in Nat /\ m - 1 \in 0..((n + 1) - 1)
      BY <2>3
    <3> QED BY <1>3, <3>1
  <2> QED BY <2>1, <2>4, <2>5, <2>6
<1>5. W \in [Nat -> V] /\ W[0] = b
  BY <1>3
<1>6. ASSUME NEW n \in Nat PROVE W[n + 1] = f[W[n]]
  <2>1. n + 1 \in Nat /\ n \in 0..((n + 1) - 1)
    OBVIOUS
  <2>2. a[n + 1][n + 1] = f[a[n + 1][n]]
    BY <1>3, <2>1
  <2> QED BY <1>4, <2>2
<1> QED BY <1>5, <1>6 DEF Repeats

\* Of finitely many numbers the greatest is one of them, and none is greater.
LEMMA GreatestNumber ==
  ASSUME NEW n \in Nat, NEW T \in SUBSET (1..n), T # {}
  PROVE  Max(T) \in T /\ \A k \in T : k <= Max(T)
<1> DEFINE U == {n - k : k \in T}
<1>1. U \subseteq Nat /\ U # {}
  <2>1. PICK k : k \in T
    OBVIOUS
  <2>2. n - k \in U
    BY <2>1
  <2>3. \A m \in T : n - m \in Nat
    OBVIOUS
  <2> QED BY <2>2, <2>3
<1>2. Min(U) \in U /\ \A u \in U : Min(U) <= u
  <2> HIDE DEF U
  <2> QED BY <1>1, SmallestNumber
<1>3. PICK m \in T : Min(U) = n - m
  BY <1>2
<1>4. ASSUME NEW k \in T PROVE m >= k
  <2>1. n - k \in U
    OBVIOUS
  <2>2. n - m <= n - k
    BY <1>2, <1>3, <2>1
  <2>3. k \in Nat /\ m \in Nat
    OBVIOUS
  <2> QED BY <2>2, <2>3
<1>5. Max(T) \in T /\ \A k \in T : Max(T) >= k
  BY <1>4 DEF Max
<1> QED BY <1>5

\* A fold of one step over some numbers repeats the step.
Walked(table, b, N) == FoldLeft(LAMBDA chain, i : Outward(table, chain), b, [i \in 1..N |-> i])

LEMMA FoldRepeats ==
  ASSUME NEW N \in Nat, NEW V, NEW b \in V, NEW f \in [V -> V], NEW W, Repeats(W, V, b, f),
         NEW table, \A v \in V : f[v] = Outward(table, v)
  PROVE  Walked(table, b, N) = W[N]
<1> DEFINE D == 1..N
           Folds(g) == g = [t \in SUBSET D |-> IF t = {} THEN b
                                               ELSE Outward(table, g[t \ {Max(t)}])]
           h == [t \in SUBSET D |-> W[Cardinality(t)]]
<1>1. Walked(table, b, N) = (CHOOSE g : Folds(g))[D]
  BY DEF Walked, FoldLeft, MapThenFoldSet
<1>2. W \in [Nat -> V] /\ W[0] = b /\ \A n \in Nat : W[n + 1] = f[W[n]]
  BY DEF Repeats
<1>3. IsFiniteSet(D) /\ Cardinality(D) = N
  BY FS_Interval
<1>4. ASSUME NEW t \in SUBSET D, t # {}
      PROVE  /\ t \ {Max(t)} \in SUBSET D /\ t \ {Max(t)} \subseteq t /\ t \ {Max(t)} # t
             /\ W[Cardinality(t)] = Outward(table, W[Cardinality(t \ {Max(t)})])
  <2>1. Max(t) \in t
    BY <1>4, GreatestNumber
  <2>2. IsFiniteSet(t)
    BY <1>3, FS_Subset
  <2>3. IsFiniteSet(t \ {Max(t)}) /\ Cardinality(t \ {Max(t)}) = Cardinality(t) - 1
    BY <2>1, <2>2, FS_RemoveElement
  <2>4. Cardinality(t) \in Nat /\ Cardinality(t \ {Max(t)}) \in Nat
    BY <2>2, <2>3, FS_CardinalityType
  <2> DEFINE n == Cardinality(t \ {Max(t)})
  <2>5. n \in Nat /\ Cardinality(t) = n + 1
    BY <2>3, <2>4
  <2> HIDE DEF n
  <2>6. W[n + 1] = Outward(table, W[n])
    BY <1>2, <2>5
  <2> QED BY <2>1, <2>5, <2>6 DEF n
<1>5. Folds(h)
  <2> SUFFICES ASSUME NEW t \in SUBSET D
               PROVE  h[t] = IF t = {} THEN b ELSE Outward(table, h[t \ {Max(t)}])
    OBVIOUS
  <2>1. CASE t = {}
    BY <1>2, <2>1, FS_EmptySet
  <2>2. CASE t # {}
    BY <1>4, <2>2
  <2> QED BY <2>1, <2>2
<1> DEFINE g == CHOOSE g : Folds(g)
<1>6. Folds(g)
  <2> HIDE DEF Folds
  <2> QED BY <1>5
<1> HIDE DEF g
<1>7. \A k : Folds(k) => \A t \in SUBSET D :
               k[t] = IF t = {} THEN b ELSE Outward(table, k[t \ {Max(t)}])
  OBVIOUS
<1> HIDE DEF h, D, Folds
<1>8. ASSUME NEW t \in SUBSET D, \A u \in SUBSET D : u \subseteq t /\ u # t => h[u] = g[u]
      PROVE  h[t] = g[t]
  <2>1. CASE t = {}
    BY <1>5, <1>6, <1>7, <2>1
  <2>2. CASE t # {}
    <3>1. h[t \ {Max(t)}] = g[t \ {Max(t)}]
      BY <1>4, <1>8, <2>2
    <3> QED BY <1>5, <1>6, <1>7, <2>2, <3>1
  <2> QED BY <2>1, <2>2
<1>9. \A t \in SUBSET D : h[t] = g[t]
  BY <1>3, <1>8, SameOnSubsets
<1>10. h[D] = W[N]
  BY <1>3 DEF h
<1> QED BY <1>1, <1>9, <1>10 DEF g

\* A walk up from a node: each one but the first is a captured node and the
\* one before it its parent, none is met twice, and the last is the node.
Parent(table, x, p) == x \in DOMAIN table /\ table[x] = p /\ p # NoParent
NodesOf(table, node) == DOMAIN table \cup {table[m] : m \in DOMAIN table} \cup {node}
IsWalk(table, node, c) ==
    /\ c \in Seq(NodesOf(table, node)) /\ Len(c) >= 1 /\ c[Len(c)] = node
    /\ \A i \in 1..(Len(c) - 1) : Parent(table, c[i + 1], c[i])
    /\ \A i, j \in 1..Len(c) : c[i] = c[j] => i = j
Stuck(table, c) == \A p : Parent(table, c[1], p) => p \in Range(c)

\* An element put before a sequence.
LEMMA Prepended ==
  ASSUME NEW S, NEW q \in S, NEW c \in Seq(S)
  PROVE  LET d == <<q>> \o c
         IN /\ d \in Seq(S) /\ Len(d) = Len(c) + 1
            /\ \A i \in 1..(Len(c) + 1) : d[i] = IF i <= 1 THEN q ELSE c[i - 1]
<1> DEFINE one == <<q>>
<1>1. one \in Seq(S) /\ Len(one) = 1 /\ one[1] = q /\ Len(c) \in Nat
  OBVIOUS
<1> HIDE DEF one
<1>2. /\ one \o c \in Seq(S) /\ Len(one \o c) = Len(one) + Len(c)
      /\ \A i \in 1..(Len(one) + Len(c)) :
           (one \o c)[i] = IF i <= Len(one) THEN one[i] ELSE c[i - Len(one)]
  BY <1>1, ConcatProperties
<1>3. \A i \in 1..(Len(c) + 1) : i \in 1..(Len(one) + Len(c)) /\ (i <= 1 => i = 1)
  BY <1>1
<1> QED BY <1>1, <1>2, <1>3 DEF one

\* One step goes on walking, unless there is nowhere to go.
LEMMA OutwardWalks ==
  ASSUME NEW table, NEW node, NEW c, IsWalk(table, node, c)
  PROVE  /\ IsWalk(table, node, Outward(table, c))
         /\ Outward(table, c) = c \/ Len(Outward(table, c)) = Len(c) + 1
         /\ Outward(table, c) = c => Stuck(table, c)
<1> DEFINE N == NodesOf(table, node)
           on == Head(c) \in DOMAIN table /\ table[Head(c)] # NoParent
                   /\ table[Head(c)] \notin Range(c)
           q == table[Head(c)]
           d == <<q>> \o c
<1>1. /\ c \in Seq(N) /\ Len(c) \in Nat /\ Len(c) >= 1 /\ c[Len(c)] = node /\ Head(c) = c[1]
      /\ \A i \in 1..(Len(c) - 1) : Parent(table, c[i + 1], c[i])
      /\ \A i, j \in 1..Len(c) : c[i] = c[j] => i = j
      /\ DOMAIN c = 1..Len(c)
  <2>1. c \in Seq(N) /\ Len(c) >= 1
    BY DEF IsWalk
  <2> HIDE DEF N
  <2>2. Len(c) \in Nat /\ DOMAIN c = 1..Len(c) /\ Head(c) = c[1]
    BY <2>1
  <2> QED BY <2>1, <2>2 DEF IsWalk, N
<1>2. Outward(table, c) = IF on THEN d ELSE c
  BY DEF Outward
<1>3. CASE ~on
  <2>1. Outward(table, c) = c
    BY <1>2, <1>3
  <2>2. Stuck(table, c)
    BY <1>1, <1>3 DEF Stuck, Parent
  <2> HIDE DEF on, d
  <2> QED BY <2>1, <2>2
<1>4. CASE on
  <2>1. q \in N
    BY <1>4 DEF NodesOf
  <2> HIDE DEF N
  <2>2. <<q>> \in Seq(N) /\ Len(<<q>>) = 1 /\ <<q>>[1] = q
    BY <2>1
  <2>3. /\ d \in Seq(N) /\ Len(d) = Len(c) + 1
        /\ \A i \in 1..(Len(c) + 1) : d[i] = IF i <= 1 THEN q ELSE c[i - 1]
    BY <1>1, <2>1, Prepended
  <2>4. Parent(table, c[1], q) /\ q \notin Range(c)
    BY <1>1, <1>4 DEF Parent
  <2>5. \A i \in 1..Len(c) : c[i] # q
    BY <1>1, <2>4 DEF Range
  <2> HIDE DEF d, q
  <2>6. d[Len(d)] = node
    BY <1>1, <2>3
  <2>7. ASSUME NEW i \in 1..(Len(d) - 1) PROVE Parent(table, d[i + 1], d[i])
    <3>1. CASE i = 1
      BY <1>1, <2>3, <2>4, <3>1
    <3>2. CASE i # 1
      <4>1. i - 1 \in 1..(Len(c) - 1) /\ (i - 1) + 1 = i
        BY <1>1, <2>3, <3>2
      <4>2. d[i] = c[i - 1] /\ d[i + 1] = c[i]
        BY <1>1, <2>3, <3>2
      <4>3. Parent(table, c[(i - 1) + 1], c[i - 1])
        BY <1>1, <4>1
      <4> QED BY <4>1, <4>2, <4>3
    <3> QED BY <3>1, <3>2
  <2>8. ASSUME NEW i \in 1..Len(d), NEW j \in 1..Len(d), d[i] = d[j] PROVE i = j
    <3>1. /\ d[i] = IF i <= 1 THEN q ELSE c[i - 1]
          /\ d[j] = IF j <= 1 THEN q ELSE c[j - 1]
      BY <2>3
    <3>2. /\ i = 1 \/ i - 1 \in 1..Len(c)
          /\ j = 1 \/ j - 1 \in 1..Len(c)
      BY <1>1, <2>3
    <3>3. (i = 1 <=> d[i] = q) /\ (j = 1 <=> d[j] = q)
      BY <2>5, <3>1, <3>2
    <3>4. CASE i # 1 /\ j # 1
      <4>1. i - 1 \in 1..Len(c) /\ j - 1 \in 1..Len(c) /\ ~(i <= 1) /\ ~(j <= 1)
        BY <1>1, <2>3, <3>2, <3>4
      <4>2. c[i - 1] = c[j - 1]
        BY <2>8, <3>1, <4>1
      <4>3. i - 1 = j - 1
        BY <1>1, <4>1, <4>2
      <4> QED BY <4>3
    <3> QED BY <2>8, <3>3, <3>4
  <2>9. Outward(table, c) = d /\ Len(d) \in Nat /\ d # c
    BY <1>1, <1>2, <1>4, <2>3
  <2>10. Len(d) >= 1 /\ \A i, j \in 1..Len(d) : d[i] = d[j] => i = j
    BY <1>1, <2>3, <2>8
  <2>11. IsWalk(table, node, d)
    BY <2>3, <2>6, <2>7, <2>10 DEF IsWalk, N
  <2> QED BY <1>1, <2>3, <2>9, <2>11
<1> QED BY <1>3, <1>4

\* The chain of a node walks up until there is nowhere to go.
LEMMA ChainIsWalk ==
  ASSUME NEW table, IsFiniteSet(DOMAIN table), NEW node, NEW c, c = ancestry_chain(table, node)
  PROVE  IsWalk(table, node, c) /\ Stuck(table, c)
<1> DEFINE V == {v \in Seq(NodesOf(table, node)) : IsWalk(table, node, v)}
           b == <<node>>
           f == [v \in V |-> Outward(table, v)]
           N == Cardinality(DOMAIN table) + 1
<1>1. b \in V
  <2>1. node \in NodesOf(table, node)
    BY DEF NodesOf
  <2>2. b \in Seq(NodesOf(table, node)) /\ Len(b) = 1 /\ b[1] = node
    BY <2>1
  <2> HIDE DEF b
  <2>3. \A i \in 1..(Len(b) - 1) : Parent(table, b[i + 1], b[i])
    BY <2>2
  <2>4. \A i, j \in 1..Len(b) : b[i] = b[j] => i = j
    BY <2>2
  <2>5. Len(b) >= 1 /\ b[Len(b)] = node
    BY <2>2
  <2>6. IsWalk(table, node, b)
    BY <2>2, <2>3, <2>4, <2>5 DEF IsWalk
  <2> QED BY <2>2, <2>6
<1>2. \A v : v \in V <=> IsWalk(table, node, v)
  BY DEF IsWalk
<1>3. f \in [V -> V] /\ \A v \in V : f[v] = Outward(table, v)
  <2> HIDE DEF V
  <2> QED BY <1>2, OutwardWalks
<1>4. N \in Nat /\ N - 1 = Cardinality(DOMAIN table) /\ N >= 1
  BY FS_CardinalityType
<1> HIDE DEF V, b, f
<1>5. PICK W : Repeats(W, V, b, f)
  BY <1>1, <1>3, Iterates
<1>6. c = W[N]
  <2>1. ancestry_chain(table, node) = Walked(table, b, N)
    BY DEF ancestry_chain, b, Walked
  <2> HIDE DEF N
  <2>2. Walked(table, b, N) = W[N]
    BY <1>1, <1>3, <1>4, <1>5, FoldRepeats
  <2> QED BY <2>1, <2>2
<1>7. /\ \A n \in Nat : IsWalk(table, node, W[n])
      /\ \A n \in Nat : W[n + 1] = Outward(table, W[n])
      /\ W[0] = b
  BY <1>2, <1>3, <1>5 DEF Repeats
<1>8. IsWalk(table, node, c)
  BY <1>4, <1>6, <1>7
<1>9. ASSUME ~Stuck(table, c) PROVE FALSE
  <2> DEFINE Short == {n \in 0..N : Len(W[n]) # n + 1 \/ Stuck(table, W[n])}
  <2>1. Short # {}
    <3>1. CASE Len(W[N]) # N + 1
      <4>1. N \in Short
        BY <1>4, <3>1
      <4> QED BY <4>1
    <3>2. CASE Len(W[N]) = N + 1
      <4> DEFINE e == [i \in 1..N |-> c[i + 1]]
      <4>1. /\ \A i \in 1..N : Parent(table, c[i + 1], c[i])
            /\ \A i, j \in 1..(N + 1) : c[i] = c[j] => i = j
        BY <1>4, <1>6, <1>8, <3>2 DEF IsWalk
      <4>2. e \in [1..N -> DOMAIN table]
        BY <4>1 DEF Parent
      <4>3. IsFiniteSet(1..N) /\ Cardinality(1..N) = N
        BY <1>4, FS_Interval
      <4>4. Cardinality(DOMAIN table) < Cardinality(1..N)
        BY <1>4, <4>3
      <4> HIDE DEF e, N
      <4>5. PICK x, y \in 1..N : x # y /\ e[x] = e[y]
        BY <4>2, <4>3, <4>4, FS_PigeonHole
      <4>6. x + 1 \in 1..(N + 1) /\ y + 1 \in 1..(N + 1) /\ x \in Nat /\ y \in Nat
        BY <1>4
      <4>7. c[x + 1] = c[y + 1]
        BY <4>5 DEF e
      <4>8. x + 1 = y + 1
        BY <4>1, <4>6, <4>7
      <4> QED BY <4>5, <4>6, <4>8
    <3> QED BY <3>1, <3>2
  <2> DEFINE m == Min(Short)
  <2>2. m \in Short /\ \A k \in Short : m <= k
    <3>1. Short \subseteq Nat
      BY <1>4
    <3> HIDE DEF Short
    <3> QED BY <2>1, <3>1, SmallestNumber
  <2> HIDE DEF m
  <2>3. Stuck(table, W[m])
    <3>1. CASE m = 0
      <4>1. Len(W[0]) = 1
        BY <1>7 DEF b
      <4> QED BY <2>2, <3>1, <4>1
    <3>2. CASE m # 0
      <4>1. m - 1 \in 0..N /\ m - 1 \in Nat /\ m - 1 \notin Short /\ (m - 1) + 1 = m /\ m \in Nat
        BY <1>4, <2>2, <3>2
      <4>2. Len(W[m - 1]) = m /\ ~Stuck(table, W[m - 1])
        BY <4>1
      <4>3. Len(W[m]) = m + 1
        BY <1>7, <4>1, <4>2, OutwardWalks
      <4> QED BY <2>2, <4>3
    <3> QED BY <3>1, <3>2
  <2>4. m \in Nat /\ m \in 0..N
    BY <1>4, <2>2
  <2> DEFINE Moved == {n \in m..N : W[n] # W[m]}
  <2>5. Moved # {}
    <3>1. N \in m..N /\ W[N] # W[m]
      BY <1>4, <1>6, <1>9, <2>3, <2>4
    <3> QED BY <3>1
  <2> DEFINE k == Min(Moved)
  <2>6. k \in Moved /\ \A i \in Moved : k <= i
    <3>1. Moved \subseteq Nat
      BY <1>4, <2>4
    <3> HIDE DEF Moved
    <3> QED BY <2>5, <3>1, SmallestNumber
  <2> HIDE DEF k
  <2>7. k # m /\ k \in Nat /\ k - 1 \in m..N /\ k - 1 \in Nat /\ k - 1 \notin Moved
    BY <1>4, <2>4, <2>6
  <2>8. W[k - 1] = W[m] /\ W[k] = Outward(table, W[k - 1])
    <3>1. (k - 1) + 1 = k
      BY <2>7
    <3> QED BY <1>7, <2>7, <3>1
  <2>9. Outward(table, W[m]) # W[m]
    BY <2>6, <2>8
  <2>10. IsWalk(table, node, W[m])
    BY <1>7, <2>4
  <2>11. \A p : Parent(table, W[m][1], p) => p \in Range(W[m])
    BY <2>3 DEF Stuck
  <2>12. Head(W[m]) = W[m][1]
    BY <2>10 DEF IsWalk
  <2> QED BY <2>9, <2>11, <2>12 DEF Outward, Parent
<1> QED BY <1>8, <1>9

\* The nodes of a walk: what one of them passes on to the nodes whose parent
\* has it, reaches the node the walk began at.
LEMMA DownTheWalk ==
  ASSUME NEW table, NEW node, NEW c, IsWalk(table, node, c),
         NEW T, \A m, p : Parent(table, m, p) /\ p \in T => m \in T,
         NEW a \in T, a \in Range(c)
  PROVE  node \in T
<1>1. /\ Len(c) \in Nat /\ Len(c) >= 1 /\ c[Len(c)] = node /\ DOMAIN c = 1..Len(c)
      /\ \A i \in 1..(Len(c) - 1) : Parent(table, c[i + 1], c[i])
  BY DEF IsWalk
<1>2. PICK s \in 1..Len(c) : c[s] = a
  BY <1>1 DEF Range
<1> DEFINE Lost == {k \in s..Len(c) : c[k] \notin T}
           k == Min(Lost)
<1>3. ASSUME node \notin T PROVE FALSE
  <2>1. Len(c) \in Lost
    BY <1>1, <1>2, <1>3
  <2>2. k \in Lost /\ \A i \in Lost : k <= i
    <3>1. Lost \subseteq Nat
      BY <1>1, <1>2
    <3> HIDE DEF Lost
    <3> QED BY <2>1, <3>1, SmallestNumber
  <2> HIDE DEF k
  <2>3. k # s /\ k \in s..Len(c) /\ c[k] \notin T
    BY <1>2, <2>2
  <2>4. k - 1 \in s..Len(c) /\ k - 1 \in 1..(Len(c) - 1) /\ (k - 1) + 1 = k
    BY <1>1, <1>2, <2>3
  <2>5. k - 1 \notin Lost
    BY <1>1, <1>2, <2>2, <2>3
  <2>6. c[k - 1] \in T
    BY <2>4, <2>5
  <2>7. Parent(table, c[k], c[k - 1])
    BY <1>1, <2>4
  <2> QED BY <2>3, <2>6, <2>7
<1> QED BY <1>3

\* What the walk up from a node passes: the node, the parent of all it passes,
\* and nothing that is not so reached.
Passed(table, x) == Range(ancestry_chain(table, x))

LEMMA WalkPasses ==
  ASSUME NEW table, IsFiniteSet(DOMAIN table), NEW x
  PROVE  /\ x \in Passed(table, x)
         /\ \A m, p : Parent(table, m, p) /\ m \in Passed(table, x) => p \in Passed(table, x)
<1> DEFINE c == ancestry_chain(table, x)
<1>1. IsWalk(table, x, c) /\ Stuck(table, c)
  <2> HIDE DEF c
  <2>1. c = ancestry_chain(table, x)
    BY DEF c
  <2> QED BY <2>1, ChainIsWalk
<1> HIDE DEF c
<1>2. /\ Len(c) \in Nat /\ Len(c) >= 1 /\ c[Len(c)] = x /\ DOMAIN c = 1..Len(c)
      /\ \A i \in 1..(Len(c) - 1) : Parent(table, c[i + 1], c[i])
      /\ Passed(table, x) = Range(c)
  BY <1>1 DEF IsWalk, Passed, c
<1>3. x \in Range(c)
  <2>1. Len(c) \in DOMAIN c
    BY <1>2
  <2> QED BY <1>2, <2>1 DEF Range
<1>4. ASSUME NEW m, NEW p, Parent(table, m, p), m \in Range(c) PROVE p \in Range(c)
  <2>1. PICK i \in 1..Len(c) : c[i] = m
    BY <1>2, <1>4 DEF Range
  <2>2. CASE i = 1
    BY <1>1, <1>4, <2>1, <2>2 DEF Stuck
  <2>3. CASE i # 1
    <3>1. i - 1 \in 1..(Len(c) - 1) /\ (i - 1) + 1 = i /\ i - 1 \in DOMAIN c
      BY <1>2, <2>1, <2>3
    <3>2. Parent(table, m, c[i - 1])
      BY <1>2, <2>1, <3>1
    <3>3. c[i - 1] = p
      BY <1>4, <3>2 DEF Parent
    <3> QED BY <3>1, <3>3 DEF Range
  <2> QED BY <2>2, <2>3
<1> QED BY <1>2, <1>3, <1>4

\* The walk up from a parent passes nothing that its child's does not.
LEMMA WalksAgree ==
  ASSUME NEW table, IsFiniteSet(DOMAIN table), NEW x, NEW p, Parent(table, x, p)
  PROVE  Passed(table, p) \subseteq Passed(table, x)
<1> DEFINE U == Passed(table, x)
           T == {m \in DOMAIN table \cup Passed(table, p) : m \notin U}
<1>1. /\ x \in U
      /\ \A m, q : Parent(table, m, q) /\ m \in U => q \in U
  BY WalkPasses
<1> SUFFICES ASSUME NEW a \in Passed(table, p), a \notin U PROVE FALSE
  OBVIOUS
<1> HIDE DEF U
<1>2. \A m, q : Parent(table, m, q) /\ q \in T => m \in T
  BY <1>1 DEF Parent
<1>3. a \in T /\ p \notin T
  BY <1>1
<1> HIDE DEF T
<1> DEFINE c == ancestry_chain(table, p)
<1>4. a \in Range(c)
  BY DEF Passed
<1>5. IsWalk(table, p, c)
  <2> HIDE DEF c
  <2>1. c = ancestry_chain(table, p)
    BY DEF c
  <2> QED BY <2>1, ChainIsWalk
<1> HIDE DEF c
<1> QED BY <1>2, <1>3, <1>4, <1>5, DownTheWalk

\* The ancestors of a node are what its walk passes but for itself.
LEMMA AncestorsAre ==
  ASSUME NEW table, IsFiniteSet(DOMAIN table), NEW n, NEW a, n # a
  PROVE  a \in Range(ancestors(table, n)) <=> a \in Passed(table, n)
<1> DEFINE c == ancestry_chain(table, n)
           d == SubSeq(c, 1, Len(c) - 1)
<1>1. IsWalk(table, n, c)
  <2> HIDE DEF c
  <2>1. c = ancestry_chain(table, n)
    BY DEF c
  <2> QED BY <2>1, ChainIsWalk
<1>2. ancestors(table, n) = d /\ Passed(table, n) = Range(c)
  BY DEF ancestors, Front, Passed
<1> HIDE DEF c
<1> DEFINE S == NodesOf(table, n)
<1>3. c \in Seq(S) /\ Len(c) \in Nat /\ Len(c) >= 1 /\ c[Len(c)] = n /\ DOMAIN c = 1..Len(c)
  BY <1>1 DEF IsWalk
<1> HIDE DEF S
<1>4. DOMAIN d = 1..(Len(c) - 1) /\ \A i \in 1..(Len(c) - 1) : d[i] = c[i]
  BY <1>3
<1> HIDE DEF d
<1>5. a \in Range(d) => a \in Range(c)
  BY <1>3, <1>4 DEF Range
<1>6. ASSUME a \in Range(c) PROVE a \in Range(d)
  <2>1. PICK i \in 1..Len(c) : c[i] = a
    BY <1>3, <1>6 DEF Range
  <2>2. i \in 1..(Len(c) - 1)
    BY <1>3, <2>1
  <2> QED BY <1>4, <2>1, <2>2 DEF Range
<1> QED BY <1>2, <1>5, <1>6

-----------------------------------------------------------------------------
(* The closure.                                                            *)

\* The facts so far: no ancestor that the walk up does not pass, every captured
\* parent, and no clause left to apply once a round has changed nothing.
NothingFalse(table, facts) ==
    /\ \A x, y : <<"ancestor", x, y>> \in facts => y \in Passed(table, x)
    /\ \A x, y : <<"parent", x, y>> \in facts => Parent(table, x, y)
AllParents(table, facts) == \A x, y : Parent(table, x, y) => <<"parent", x, y>> \in facts
Exhausted(table, facts) == \A cl \in Clauses(table) : cl.body \subseteq facts => cl.head \in facts
ClosureInv ==
    asked.of = "closure" =>
        /\ NothingFalse(asked.table, asked.facts)
        /\ AllParents(asked.table, asked.facts)
        /\ ~asked.changed => Exhausted(asked.table, asked.facts)

\* The captured parents are such facts.
LEMMA FactsAre ==
  ASSUME NEW table
  PROVE  NothingFalse(table, Facts(table)) /\ AllParents(table, Facts(table))
<1>1. \A t : t \in Facts(table)
               <=> \E n \in DOMAIN table : table[n] # NoParent /\ t = <<"parent", n, table[n]>>
  BY DEF Facts
<1>2. ASSUME NEW x, NEW y
      PROVE  <<"parent", x, y>> \in Facts(table) <=> Parent(table, x, y)
  <2>1. Parent(table, x, y) => <<"parent", x, y>> \in Facts(table)
    BY <1>1 DEF Parent
  <2>2. ASSUME <<"parent", x, y>> \in Facts(table) PROVE Parent(table, x, y)
    <3>1. PICK n \in DOMAIN table : table[n] # NoParent /\ <<"parent", x, y>> = <<"parent", n, table[n]>>
      BY <1>1, <2>2
    <3>2. x = n /\ y = table[n]
      BY <3>1
    <3> QED BY <3>1, <3>2 DEF Parent
  <2> QED BY <2>1, <2>2
<1>3. ASSUME NEW x, NEW y PROVE <<"ancestor", x, y>> \notin Facts(table)
  BY <1>1
<1> QED BY <1>2, <1>3 DEF NothingFalse, AllParents

\* What the clauses say: a parent is an ancestor, and so is its ancestor.
Follows(facts, t) ==
    \E c, p, a : /\ t = <<"ancestor", c, a>>
                 /\ <<"parent", c, p>> \in facts
                 /\ a = p \/ <<"ancestor", p, a>> \in facts

LEMMA ClausesSay ==
  ASSUME NEW table, NEW facts
  PROVE  /\ \A cl \in Clauses(table) : cl.body \subseteq facts =>
              Follows(facts, cl.head)
         /\ Exhausted(table, facts) =>
              \A c, p, a \in Known(table) :
                <<"parent", c, p>> \in facts /\ (a = p \/ <<"ancestor", p, a>> \in facts)
                  => <<"ancestor", c, a>> \in facts
<1> DEFINE K == Known(table)
           B(c, p) == [head |-> <<"ancestor", c, p>>, body |-> {<<"parent", c, p>>}]
           R(c, p, a) == [head |-> <<"ancestor", c, a>>,
                          body |-> {<<"parent", c, p>>, <<"ancestor", p, a>>}]
<1>1. \A cl : cl \in Clauses(table) <=> \/ \E c \in K, p \in K : cl = B(c, p)
                                        \/ \E c \in K, p \in K, a \in K : cl = R(c, p, a)
  BY DEF Clauses
<1>2. /\ \A c, p : B(c, p).head = <<"ancestor", c, p>> /\ B(c, p).body = {<<"parent", c, p>>}
      /\ \A c, p, a : /\ R(c, p, a).head = <<"ancestor", c, a>>
                      /\ R(c, p, a).body = {<<"parent", c, p>>, <<"ancestor", p, a>>}
  OBVIOUS
<1> HIDE DEF K, B, R
<1>3. ASSUME NEW cl \in Clauses(table), cl.body \subseteq facts
      PROVE  Follows(facts, cl.head)
  <2>1. CASE \E c \in K, p \in K : cl = B(c, p)
    <3>1. PICK c \in K, p \in K : cl = B(c, p)
      BY <2>1
    <3>2. cl.head = <<"ancestor", c, p>> /\ <<"parent", c, p>> \in facts
      BY <1>2, <1>3, <3>1
    <3> QED BY <3>2 DEF Follows
  <2>2. CASE \E c \in K, p \in K, a \in K : cl = R(c, p, a)
    <3>1. PICK c \in K, p \in K, a \in K : cl = R(c, p, a)
      BY <2>2
    <3>2. /\ cl.head = <<"ancestor", c, a>>
          /\ <<"parent", c, p>> \in facts /\ <<"ancestor", p, a>> \in facts
      BY <1>2, <1>3, <3>1
    <3> QED BY <3>2 DEF Follows
  <2> QED BY <1>1, <1>3, <2>1, <2>2
<1>4. ASSUME Exhausted(table, facts), NEW c \in K, NEW p \in K, NEW a \in K,
             <<"parent", c, p>> \in facts, a = p \/ <<"ancestor", p, a>> \in facts
      PROVE  <<"ancestor", c, a>> \in facts
  <2>1. CASE a = p
    <3>1. B(c, p) \in Clauses(table)
      BY <1>1
    <3>2. B(c, p).body \subseteq facts
      BY <1>2, <1>4
    <3> QED BY <1>2, <1>4, <2>1, <3>1, <3>2 DEF Exhausted
  <2>2. CASE <<"ancestor", p, a>> \in facts
    <3>1. R(c, p, a) \in Clauses(table)
      BY <1>1
    <3>2. R(c, p, a).body \subseteq facts
      BY <1>2, <1>4, <2>2
    <3> QED BY <1>2, <1>4, <3>1, <3>2 DEF Exhausted
  <2> QED BY <1>4, <2>1, <2>2
<1> QED BY <1>3, <1>4 DEF K

\* A round derives nothing false, and forgets nothing.
LEMMA RoundIsSound ==
  ASSUME NEW table, IsFiniteSet(DOMAIN table), NEW facts,
         NothingFalse(table, facts), AllParents(table, facts)
  PROVE  LET new == Derive(Clauses(table), facts)
         IN /\ NothingFalse(table, new) /\ AllParents(table, new)
            /\ new = facts => Exhausted(table, facts)
<1> DEFINE new == Derive(Clauses(table), facts)
<1>1. \A t : t \in new <=> \/ t \in facts
                           \/ \E cl \in Clauses(table) : cl.body \subseteq facts /\ t = cl.head
  BY DEF Derive
<1> HIDE DEF new
<1>2. ASSUME NEW t \in new, t \notin facts
      PROVE  \E c, a : t = <<"ancestor", c, a>> /\ a \in Passed(table, c)
  <2>1. PICK cl \in Clauses(table) : cl.body \subseteq facts /\ t = cl.head
    BY <1>1, <1>2
  <2>2. PICK c, p, a : /\ cl.head = <<"ancestor", c, a>>
                       /\ <<"parent", c, p>> \in facts
                       /\ a = p \/ <<"ancestor", p, a>> \in facts
    <3>1. Follows(facts, cl.head)
      BY <2>1, ClausesSay
    <3> QED BY <3>1 DEF Follows
  <2>3. Parent(table, c, p)
    BY <2>2 DEF NothingFalse
  <2>4. a \in Passed(table, p)
    <3>1. p \in Passed(table, p)
      BY WalkPasses
    <3> QED BY <2>2, <3>1 DEF NothingFalse
  <2>5. Passed(table, p) \subseteq Passed(table, c)
    BY <2>3, WalksAgree
  <2> QED BY <2>1, <2>2, <2>4, <2>5
<1>3. ASSUME NEW x, NEW y, <<"ancestor", x, y>> \in new PROVE y \in Passed(table, x)
  <2>1. CASE <<"ancestor", x, y>> \in facts
    BY <2>1 DEF NothingFalse
  <2>2. CASE <<"ancestor", x, y>> \notin facts
    <3>1. PICK c, a : <<"ancestor", x, y>> = <<"ancestor", c, a>> /\ a \in Passed(table, c)
      BY <1>2, <1>3, <2>2
    <3>2. x = c /\ y = a
      BY <3>1
    <3> QED BY <3>1, <3>2
  <2> QED BY <2>1, <2>2
<1>4. ASSUME NEW x, NEW y, <<"parent", x, y>> \in new PROVE Parent(table, x, y)
  <2>1. CASE <<"parent", x, y>> \in facts
    BY <2>1 DEF NothingFalse
  <2>2. CASE <<"parent", x, y>> \notin facts
    <3>1. PICK c, a : <<"parent", x, y>> = <<"ancestor", c, a>>
      BY <1>2, <1>4, <2>2
    <3>2. "parent" = "ancestor"
      BY <3>1
    <3> QED BY <3>2
  <2> QED BY <2>1, <2>2
<1>5. AllParents(table, new)
  BY <1>1 DEF AllParents
<1>6. new = facts => Exhausted(table, facts)
  BY <1>1 DEF Exhausted
<1> QED BY <1>3, <1>4, <1>5, <1>6 DEF NothingFalse, new

\* When nothing is left to derive, all that the walk up passes is derived.
LEMMA ExhaustedIsTrue ==
  ASSUME NEW table, IsFiniteSet(DOMAIN table), NEW facts,
         NothingFalse(table, facts), AllParents(table, facts), Exhausted(table, facts)
  PROVE  TrueOfClosure(table, facts)
<1> SUFFICES ASSUME NEW n \in Known(table), NEW a \in Known(table), n # a
             PROVE  <<"ancestor", n, a>> \in facts <=> a \in Passed(table, n)
  BY AncestorsAre DEF TrueOfClosure
<1>1. ASSUME a \in Passed(table, n) PROVE <<"ancestor", n, a>> \in facts
  <2> DEFINE U == DOMAIN table \cup {table[m] : m \in DOMAIN table}
             T == {m \in U : m = NoParent \/ m = a \/ <<"ancestor", m, a>> \in facts}
             c == ancestry_chain(table, n)
  <2>1. \A x : x \in Known(table) <=> x \in U /\ x # NoParent
    BY DEF Known, Range
  <2>2. ASSUME NEW m, NEW p, Parent(table, m, p), p \in T PROVE m \in T
    <3>1. m \in U /\ p \in U /\ p # NoParent /\ <<"parent", m, p>> \in facts
      BY <2>2 DEF Parent, AllParents
    <3>2. CASE m # NoParent
      <4>1. m \in Known(table) /\ p \in Known(table)
        BY <2>1, <3>1, <3>2
      <4>2. p = a \/ <<"ancestor", p, a>> \in facts
        BY <2>2, <3>1
      <4>3. <<"ancestor", m, a>> \in facts
        BY <3>1, <4>1, <4>2, ClausesSay
      <4> QED BY <3>1, <4>3
    <3> QED BY <3>1, <3>2
  <2>3. a \in T /\ (n \in T => <<"ancestor", n, a>> \in facts)
    BY <2>1
  <2>4. a \in Range(c)
    BY <1>1 DEF Passed
  <2>5. IsWalk(table, n, c)
    <3> HIDE DEF c
    <3>1. c = ancestry_chain(table, n)
      BY DEF c
    <3> QED BY <3>1, ChainIsWalk
  <2> HIDE DEF T, U, c
  <2>6. n \in T
    BY <2>2, <2>3, <2>4, <2>5, DownTheWalk
  <2> QED BY <2>3, <2>6
<1> QED BY <1>1 DEF NothingFalse

\* Whenever the rounds stop, on whatever table, the closure holds a node as
\* another's ancestor exactly if that one's walk up passes it: a table may turn
\* in a circle, or end at parents nobody captured (core/datalog.py:85,
\* hierarchy.py:108).
THEOREM ClosureIsRight == AskSpec => []ClosureIsTheWalk
<1>1. Unasked => ClosureInv
  BY DEF Unasked, Nothing, ClosureInv
<1>2. QuestionIsRead /\ ClosureInv /\ [AskNext]_asked => ClosureInv'
  <2> SUFFICES ASSUME QuestionIsRead, ClosureInv, [AskNext]_asked PROVE ClosureInv'
    OBVIOUS
  <2>1. CASE asked' = asked
    BY <2>1 DEF ClosureInv
  <2>2. CASE AskClosure
    <3>1. PICK table \in Hierarchies :
            asked' = [of |-> "closure", table |-> table, facts |-> Facts(table), changed |-> TRUE]
      BY <2>2 DEF AskClosure
    <3>2. asked'.table = table /\ asked'.facts = Facts(table) /\ asked'.changed = TRUE
      BY <3>1
    <3>3. NothingFalse(table, Facts(table)) /\ AllParents(table, Facts(table))
      BY FactsAre
    <3> QED BY <3>2, <3>3 DEF ClosureInv
  <2>3. CASE Round
    <3> DEFINE table == asked.table
               facts == asked.facts
               new == Derive(Clauses(table), facts)
    <3>1. /\ asked.of = "closure" /\ table \in Hierarchies
          /\ asked = [of |-> "closure", table |-> table, facts |-> facts, changed |-> asked.changed]
          /\ asked' = [asked EXCEPT !.facts = new, !.changed = new # facts]
      BY <2>3 DEF Round, QuestionIsRead, ClosureIsRead
    <3>2. NothingFalse(table, facts) /\ AllParents(table, facts)
      BY <3>1 DEF ClosureInv
    <3>3. IsFiniteSet(DOMAIN table)
      BY <3>1, HierarchyAssumption
    <3> HIDE DEF table, facts
    <3>4. /\ NothingFalse(table, new) /\ AllParents(table, new)
          /\ new = facts => Exhausted(table, facts)
      BY <3>2, <3>3, RoundIsSound
    <3> HIDE DEF new
    <3>5. asked'.table = table /\ asked'.facts = new /\ asked'.changed = (new # facts)
      BY <3>1
    <3>6. ~asked'.changed => Exhausted(asked'.table, asked'.facts)
      BY <3>4, <3>5
    <3> QED BY <3>4, <3>5, <3>6 DEF ClosureInv
  <2>4. CASE asked'.of # "closure"
    BY <2>4 DEF ClosureInv
  <2> QED BY <2>1, <2>2, <2>3, <2>4, AskedBy
<1>3. QuestionIsRead /\ ClosureInv => ClosureIsTheWalk
  <2> SUFFICES ASSUME QuestionIsRead, ClosureInv, asked.of = "closure", ~asked.changed
               PROVE  TrueOfClosure(asked.table, asked.facts)
    BY DEF ClosureIsTheWalk
  <2>1. IsFiniteSet(DOMAIN asked.table)
    BY HierarchyAssumption DEF QuestionIsRead, ClosureIsRead
  <2> QED BY <2>1, ExhaustedIsTrue DEF ClosureInv
<1> QED BY <1>1, <1>2, <1>3, QuestionsAreRead, PTL DEF AskSpec
-----------------------------------------------------------------------------
(* The policies in force.                                                  *)

\* A walk that ends at a root that was captured.
Rooted(table, c) == c[1] \in DOMAIN table /\ table[c[1]] = NoParent

\* There is one such walk from a node: two of them agree from below.
LEMMA OneWalk ==
  ASSUME NEW table, NEW x, NEW c, NEW d, IsWalk(table, x, c), IsWalk(table, x, d),
         Rooted(table, c), Rooted(table, d)
  PROVE  c = d
<1> DEFINE N == NodesOf(table, x)
<1>1. /\ c \in Seq(N) /\ Len(c) \in Nat /\ Len(c) >= 1 /\ c[Len(c)] = x
      /\ d \in Seq(N) /\ Len(d) \in Nat /\ Len(d) >= 1 /\ d[Len(d)] = x
      /\ \A i \in 1..(Len(c) - 1) : Parent(table, c[i + 1], c[i])
      /\ \A i \in 1..(Len(d) - 1) : Parent(table, d[i + 1], d[i])
  BY DEF IsWalk
<1> HIDE DEF N
<1> DEFINE Split == {k \in Nat : k < Len(c) /\ k < Len(d) /\ c[Len(c) - k] # d[Len(d) - k]}
<1>2. Split = {}
  <2> SUFFICES ASSUME Split # {} PROVE FALSE
    OBVIOUS
  <2> DEFINE m == Min(Split)
  <2>1. m \in Split /\ \A k \in Split : m <= k
    <3>1. Split \subseteq Nat
      OBVIOUS
    <3> HIDE DEF Split
    <3> QED BY <3>1, SmallestNumber
  <2> HIDE DEF m
  <2>2. m # 0 /\ m \in Nat /\ m < Len(c) /\ m < Len(d) /\ c[Len(c) - m] # d[Len(d) - m]
    BY <1>1, <2>1
  <2>3. m - 1 \in Nat /\ m - 1 \notin Split /\ m - 1 < Len(c) /\ m - 1 < Len(d)
    <3>1. m - 1 \in Nat /\ m - 1 < Len(c) /\ m - 1 < Len(d) /\ ~(m <= m - 1)
      BY <1>1, <2>2
    <3> HIDE DEF Split
    <3> QED BY <2>1, <3>1
  <2> DEFINE i == Len(c) - m
             j == Len(d) - m
  <2>4. /\ i \in 1..(Len(c) - 1) /\ Len(c) - (m - 1) = i + 1
        /\ j \in 1..(Len(d) - 1) /\ Len(d) - (m - 1) = j + 1
    BY <1>1, <2>2
  <2>5. c[i + 1] = d[j + 1]
    BY <2>3, <2>4
  <2>6. Parent(table, c[i + 1], c[i]) /\ Parent(table, d[j + 1], d[j])
    BY <1>1, <2>4
  <2> QED BY <2>2, <2>5, <2>6 DEF Parent
<1>3. \A k \in Nat : k < Len(c) /\ k < Len(d) => c[Len(c) - k] = d[Len(d) - k]
  BY <1>2
<1>4. ASSUME Len(c) < Len(d) PROVE FALSE
  <2> DEFINE k == Len(c) - 1
             j == Len(d) - k - 1
  <2>1. /\ k \in Nat /\ k < Len(c) /\ k < Len(d) /\ Len(c) - k = 1
        /\ j \in 1..(Len(d) - 1) /\ Len(d) - k = j + 1
    BY <1>1, <1>4
  <2> HIDE DEF k, j
  <2>2. c[Len(c) - k] = d[Len(d) - k]
    BY <1>3, <2>1
  <2>3. c[1] = d[j + 1]
    BY <2>1, <2>2
  <2>4. Parent(table, d[j + 1], d[j])
    BY <1>1, <2>1
  <2> QED BY <2>3, <2>4 DEF Parent, Rooted
<1>5. ASSUME Len(d) < Len(c) PROVE FALSE
  <2> DEFINE k == Len(d) - 1
             j == Len(c) - k - 1
  <2>1. /\ k \in Nat /\ k < Len(d) /\ k < Len(c) /\ Len(d) - k = 1
        /\ j \in 1..(Len(c) - 1) /\ Len(c) - k = j + 1
    BY <1>1, <1>5
  <2> HIDE DEF k, j
  <2>2. d[Len(d) - k] = c[Len(c) - k]
    BY <1>3, <2>1
  <2>3. d[1] = c[j + 1]
    BY <2>1, <2>2
  <2>4. Parent(table, c[j + 1], c[j])
    BY <1>1, <2>1
  <2> QED BY <2>3, <2>4 DEF Parent, Rooted
<1>6. Len(c) = Len(d)
  BY <1>1, <1>4, <1>5
<1>7. ASSUME NEW i \in 1..Len(c) PROVE c[i] = d[i]
  <2>1. Len(c) - i \in Nat /\ Len(c) - i < Len(c) /\ Len(c) - (Len(c) - i) = i
    BY <1>1
  <2> QED BY <1>3, <1>6, <2>1
<1> QED BY <1>1, <1>6, <1>7

\* The chain of a node in a table without a broken one.
IsChain(table, n, c) ==
    /\ IsWalk(table, n, c) /\ Rooted(table, c) /\ c = ancestry_chain(table, n)
    /\ \A i \in 1..Len(c) : c[i] \in DOMAIN table

LEMMA ChainOf ==
  ASSUME NEW table, IsFiniteSet(DOMAIN table), ~AnyBroken(table), NEW n \in DOMAIN table
  PROVE  IsChain(table, n, ancestry_chain(table, n))
<1> DEFINE c == ancestry_chain(table, n)
<1>1. IsWalk(table, n, c)
  <2> HIDE DEF c
  <2>1. c = ancestry_chain(table, n)
    BY DEF c
  <2> QED BY <2>1, ChainIsWalk
<1>2. ~Broken(table, n)
  BY DEF AnyBroken
<1>3. Head(c) \in DOMAIN table /\ table[Head(c)] = NoParent
  BY <1>2 DEF Broken
<1> HIDE DEF c
<1> DEFINE N == NodesOf(table, n)
<1>4. /\ c \in Seq(N) /\ Len(c) \in Nat /\ Len(c) >= 1 /\ c[Len(c)] = n
      /\ \A i \in 1..(Len(c) - 1) : Parent(table, c[i + 1], c[i])
  BY <1>1 DEF IsWalk
<1> HIDE DEF N
<1>5. Rooted(table, c)
  <2>1. Head(c) = c[1]
    BY <1>4
  <2> QED BY <1>3, <2>1 DEF Rooted
<1>6. ASSUME NEW i \in 1..Len(c) PROVE c[i] \in DOMAIN table
  <2>1. CASE i = 1
    BY <1>5, <2>1 DEF Rooted
  <2>2. CASE i # 1
    <3>1. i - 1 \in 1..(Len(c) - 1) /\ (i - 1) + 1 = i
      BY <1>4, <2>2
    <3>2. Parent(table, c[i], c[i - 1])
      BY <1>4, <3>1
    <3> QED BY <3>2 DEF Parent
  <2> QED BY <2>1, <2>2
<1> QED BY <1>1, <1>5, <1>6 DEF IsChain, c

\* The chain of a node on a chain is the part down to it.
LEMMA ChainBegins ==
  ASSUME NEW table, IsFiniteSet(DOMAIN table), ~AnyBroken(table), NEW n \in DOMAIN table,
         NEW c, IsChain(table, n, c), NEW i \in 1..Len(c)
  PROVE  LET d == ancestry_chain(table, c[i])
         IN /\ d \in Seq(NodesOf(table, n)) /\ Len(d) = i /\ \A j \in 1..i : d[j] = c[j]
            /\ IsChain(table, c[i], d) /\ c[i] \in DOMAIN table
<1> DEFINE N == NodesOf(table, n)
           e == SubSeq(c, 1, i)
           d == ancestry_chain(table, c[i])
<1>1. /\ c \in Seq(N) /\ Len(c) \in Nat /\ Len(c) >= 1
      /\ \A k \in 1..(Len(c) - 1) : Parent(table, c[k + 1], c[k])
      /\ \A k, l \in 1..Len(c) : c[k] = c[l] => k = l
      /\ \A k \in 1..Len(c) : c[k] \in DOMAIN table
  BY DEF IsWalk, IsChain
<1>2. NodesOf(table, c[i]) \subseteq N /\ DOMAIN table \subseteq NodesOf(table, c[i])
  BY <1>1 DEF NodesOf
<1> HIDE DEF N
<1>3. /\ i \in Nat /\ i >= 1 /\ i <= Len(c)
      /\ e \in Seq(N) /\ Len(e) = i /\ \A j \in 1..i : e[j] = c[j]
  BY <1>1
<1> HIDE DEF e
<1>4. IsWalk(table, c[i], e)
  <2> DEFINE M == NodesOf(table, c[i])
  <2>0. \A j \in 1..Len(e) : e[j] \in M
    BY <1>1, <1>2, <1>3
  <2> HIDE DEF M
  <2>1. e \in Seq(M)
    BY <1>3, <2>0
  <2>2. Len(e) >= 1 /\ e[Len(e)] = c[i]
    BY <1>3
  <2>3. ASSUME NEW k \in 1..(Len(e) - 1) PROVE Parent(table, e[k + 1], e[k])
    <3>1. k \in 1..(Len(c) - 1) /\ k \in 1..i /\ k + 1 \in 1..i
      BY <1>1, <1>3
    <3>2. e[k] = c[k] /\ e[k + 1] = c[k + 1]
      BY <1>3, <3>1
    <3> QED BY <1>1, <3>1, <3>2
  <2>4. ASSUME NEW k \in 1..Len(e), NEW l \in 1..Len(e), e[k] = e[l] PROVE k = l
    BY <1>1, <1>3, <2>4
  <2> QED BY <2>1, <2>2, <2>3, <2>4 DEF IsWalk, M
<1>5. Rooted(table, e)
  <2>1. e[1] = c[1]
    BY <1>3
  <2> QED BY <2>1 DEF Rooted, IsChain
<1>6. c[i] \in DOMAIN table
  BY <1>1
<1>7. IsChain(table, c[i], d)
  BY <1>6, ChainOf
<1> HIDE DEF d
<1>8. d = e
  BY <1>4, <1>5, <1>7, OneWalk DEF IsChain
<1> QED BY <1>3, <1>6, <1>7, <1>8 DEF d, N

\* The states along a chain, one after each of its nodes.
AtNode(state, n, set, record) ==
    IF n \in DOMAIN set THEN FoldPolicy(state, set[n], record) ELSE state
AreStates(F, c, set, record) ==
    F[0] = AtDefault /\ \A i \in 1..Len(c) : F[i] = AtNode(F[i - 1], c[i], set, record)

LEMMA StatesAre ==
  ASSUME NEW c, Len(c) \in Nat, NEW set, NEW record
  PROVE  \E F : AreStates(F, c, set, record) /\ StateAlong(c, set, record) = F[Len(c)]
<1> DEFINE L == Len(c)
           Upto(h, n) == /\ h = [i \in 0..n |-> h[i]] /\ h[0] = AtDefault
                         /\ \A i \in 1..n : h[i] = AtNode(h[i - 1], c[i], set, record)
           StatesOf(g) == [i \in 0..L |-> IF i = 0 THEN AtDefault
                                      ELSE IF c[i] \in DOMAIN set
                                           THEN FoldPolicy(g[i - 1], set[c[i]], record)
                                      ELSE g[i - 1]]
           None == {n \in Nat : ~\E h : Upto(h, n)}
<1>1. StateAlong(c, set, record) = (CHOOSE g : g = StatesOf(g))[L]
  BY DEF StateAlong
<1>2. None = {}
  <2> SUFFICES ASSUME None # {} PROVE FALSE
    OBVIOUS
  <2> DEFINE m == Min(None)
  <2>1. m \in None /\ \A k \in None : m <= k
    <3>1. None \subseteq Nat
      OBVIOUS
    <3> HIDE DEF None
    <3> QED BY <3>1, SmallestNumber
  <2> HIDE DEF m
  <2>2. m \in Nat
    BY <2>1
  <2>3. CASE m = 0
    <3> DEFINE h == [i \in 0..0 |-> AtDefault]
    <3>1. Upto(h, 0)
      OBVIOUS
    <3> HIDE DEF Upto, h
    <3> QED BY <2>1, <2>3, <3>1
  <2>4. CASE m # 0
    <3>1. m - 1 \in Nat /\ ~(m <= m - 1)
      BY <2>2, <2>4
    <3>2. PICK h : Upto(h, m - 1)
      <4> HIDE DEF Upto
      <4> QED BY <2>1, <3>1
    <3> DEFINE e == [i \in 0..m |-> IF i = m THEN AtNode(h[m - 1], c[m], set, record) ELSE h[i]]
    <3>3. e = [i \in 0..m |-> e[i]] /\ e[0] = AtDefault
      BY <2>2, <2>4, <3>2
    <3>4. ASSUME NEW i \in 1..m PROVE e[i] = AtNode(e[i - 1], c[i], set, record)
      <4>1. i - 1 \in 0..m /\ i - 1 # m /\ i \in 0..m
        BY <2>2
      <4>2. e[i - 1] = h[i - 1]
        BY <4>1
      <4>3. CASE i = m
        BY <4>1, <4>2, <4>3
      <4>4. CASE i # m
        <5>1. i \in 1..(m - 1)
          BY <2>2, <4>4
        <5> QED BY <3>2, <4>1, <4>2, <4>4, <5>1
      <4> QED BY <4>3, <4>4
    <3> HIDE DEF e
    <3>5. Upto(e, m)
      BY <3>3, <3>4
    <3> HIDE DEF Upto
    <3> QED BY <2>1, <3>5
  <2> QED BY <2>3, <2>4
<1>3. PICK h : Upto(h, L)
  <2> HIDE DEF Upto
  <2> QED BY <1>2
<1>4. h = StatesOf(h)
  <2>1. \A i \in 0..L : h[i] = IF i = 0 THEN AtDefault
                               ELSE IF c[i] \in DOMAIN set
                                    THEN FoldPolicy(h[i - 1], set[c[i]], record)
                               ELSE h[i - 1]
    <3> SUFFICES ASSUME NEW i \in 0..L, i # 0
                 PROVE  h[i] = AtNode(h[i - 1], c[i], set, record)
      BY <1>3 DEF AtNode
    <3>1. i \in 1..L
      OBVIOUS
    <3> QED BY <1>3, <3>1
  <2> QED BY <1>3, <2>1
<1> DEFINE g == CHOOSE g : g = StatesOf(g)
<1>5. g = StatesOf(g)
  <2> HIDE DEF StatesOf
  <2> QED BY <1>4
<1> HIDE DEF g
<1>6. AreStates(g, c, set, record)
  <2>1. g[0] = AtDefault
    BY <1>5
  <2>2. ASSUME NEW i \in 1..L PROVE g[i] = AtNode(g[i - 1], c[i], set, record)
    <3>1. i \in 0..L /\ i # 0
      OBVIOUS
    <3> QED BY <1>5, <3>1 DEF AtNode
  <2> QED BY <2>1, <2>2 DEF AreStates
<1> QED BY <1>1, <1>6 DEF g

\* Where chains and policies are the same, so are the states.
Agree(c, set, d, other, n) ==
    \A i \in 1..n : /\ c[i] = d[i]
                    /\ c[i] \in DOMAIN set <=> d[i] \in DOMAIN other
                    /\ c[i] \in DOMAIN set => set[c[i]] = other[d[i]]

LEMMA SameStates ==
  ASSUME NEW c, NEW d, NEW n \in Nat, Len(c) \in Nat, Len(d) \in Nat, n <= Len(c), n <= Len(d),
         NEW F, NEW G, NEW set, NEW other, NEW record,
         AreStates(F, c, set, record), AreStates(G, d, other, record),
         Agree(c, set, d, other, n)
  PROVE  F[n] = G[n]
<1> DEFINE Apart == {k \in 0..n : F[k] # G[k]}
<1> SUFFICES ASSUME Apart # {} PROVE FALSE
  OBVIOUS
<1> DEFINE m == Min(Apart)
<1>1. m \in Apart /\ \A k \in Apart : m <= k
  <2>1. Apart \subseteq Nat
    OBVIOUS
  <2> HIDE DEF Apart
  <2> QED BY <2>1, SmallestNumber
<1> HIDE DEF m
<1>2. m # 0 /\ m \in 1..n /\ F[m] # G[m]
  BY <1>1 DEF AreStates
<1>3. m - 1 \in 0..n /\ ~(m <= m - 1) /\ m \in 1..Len(c) /\ m \in 1..Len(d)
  BY <1>2
<1>4. F[m - 1] = G[m - 1]
  BY <1>1, <1>3
<1>5. F[m] = AtNode(F[m - 1], c[m], set, record) /\ G[m] = AtNode(G[m - 1], d[m], other, record)
  BY <1>3 DEF AreStates
<1>6. AtNode(F[m - 1], c[m], set, record) = AtNode(G[m - 1], d[m], other, record)
  BY <1>2, <1>4 DEF AtNode, Agree
<1> QED BY <1>2, <1>5, <1>6

\* What a state can be.
ListStates == [allowed : SUBSET STRING, denied : SUBSET STRING, allow_all : BOOLEAN, deny_all : BOOLEAN]
States == ListStates \cup {Undecided, AtDefault}

LEMMA StatesDiffer ==
  /\ Undecided # AtDefault /\ Undecided \notin ListStates /\ AtDefault \notin ListStates
  /\ \A s \in ListStates : "enforce" \notin DOMAIN s
<1>1. ASSUME NEW s \in ListStates
      PROVE  DOMAIN s = {"allowed", "denied", "allow_all", "deny_all"}
  BY DEF ListStates
<1>2. DOMAIN Undecided = {"decided"} /\ DOMAIN AtDefault = {"default"}
  BY DEF Undecided, AtDefault
<1>3. Undecided # AtDefault
  BY <1>2
<1>4. Undecided \notin ListStates
  BY <1>1, <1>2
<1>5. AtDefault \notin ListStates
  BY <1>1, <1>2
<1>6. \A s \in ListStates : "enforce" \notin DOMAIN s
  BY <1>1
<1> QED BY <1>3, <1>4, <1>5, <1>6

LEMMA LocalListIs ==
  ASSUME NEW p \in PolicySetting
  PROVE  /\ RulesIn(p) \subseteq RuleSetting
         /\ LocalList(p) \in ListStates
         /\ LocalList(p).allowed = UNION {r.allowed : r \in RulesIn(p)}
         /\ LocalList(p).denied = UNION {r.denied : r \in RulesIn(p)}
         /\ LocalList(p).allow_all <=> \E r \in RulesIn(p) : r.allow_all = "true"
         /\ LocalList(p).deny_all <=> \E r \in RulesIn(p) : r.deny_all = "true"
<1>1. p.rules \in Seq(RuleSetting)
  BY DEF PolicySetting
<1>2. RulesIn(p) \subseteq RuleSetting
  <2> HIDE DEF RuleSetting
  <2> QED BY <1>1 DEF RulesIn, Range
<1>3. \A r \in RuleSetting : r.allowed \subseteq STRING /\ r.denied \subseteq STRING
  BY DEF RuleSetting
<1> DEFINE A == UNION {r.allowed : r \in RulesIn(p)}
           D == UNION {r.denied : r \in RulesIn(p)}
           a == \E r \in RulesIn(p) : r.allow_all = "true"
           d == \E r \in RulesIn(p) : r.deny_all = "true"
<1>4. A \in SUBSET STRING /\ D \in SUBSET STRING
  BY <1>2, <1>3
<1>5. a \in BOOLEAN /\ d \in BOOLEAN
  OBVIOUS
<1>6. LocalList(p) = [allowed |-> A, denied |-> D, allow_all |-> a, deny_all |-> d]
  BY DEF LocalList, ListState
<1> HIDE DEF A, D, a, d
<1>7. /\ LocalList(p) \in ListStates /\ LocalList(p).allowed = A /\ LocalList(p).denied = D
      /\ LocalList(p).allow_all = a /\ LocalList(p).deny_all = d
  BY <1>4, <1>5, <1>6 DEF ListStates
<1> QED BY <1>2, <1>7 DEF A, D, a, d

LEMMA MergedIs ==
  ASSUME NEW s \in ListStates, NEW u \in ListStates
  PROVE  /\ Merged(s, u) \in ListStates
         /\ Merged(s, u).allowed = s.allowed \cup u.allowed
         /\ Merged(s, u).denied = s.denied \cup u.denied
         /\ Merged(s, u).allow_all <=> s.allow_all \/ u.allow_all
         /\ Merged(s, u).deny_all <=> s.deny_all \/ u.deny_all
<1> DEFINE A == s.allowed \cup u.allowed
           D == s.denied \cup u.denied
           a == s.allow_all \/ u.allow_all
           d == s.deny_all \/ u.deny_all
<1>1. A \in SUBSET STRING /\ D \in SUBSET STRING
  BY DEF ListStates
<1>2. a \in BOOLEAN /\ d \in BOOLEAN
  OBVIOUS
<1>3. Merged(s, u) = [allowed |-> A, denied |-> D, allow_all |-> a, deny_all |-> d]
  BY DEF Merged, ListState
<1> HIDE DEF A, D, a, d
<1>4. /\ Merged(s, u) \in ListStates /\ Merged(s, u).allowed = A /\ Merged(s, u).denied = D
      /\ Merged(s, u).allow_all = a /\ Merged(s, u).deny_all = d
  BY <1>1, <1>2, <1>3 DEF ListStates
<1> QED BY <1>4 DEF A, D, a, d

\* The default is everything allowed, everything denied, or not known.
LEMMA DefaultIs ==
  ASSUME NEW record
  PROVE  \/ record.default = "unknown" /\ DefaultList(record) = Undecided
         \/ /\ record.default # "unknown" /\ DefaultList(record) \in ListStates
            /\ DefaultList(record).allowed = {} /\ DefaultList(record).denied = {}
            /\ DefaultList(record).allow_all <=> record.default = "ALLOW"
            /\ DefaultList(record).deny_all <=> record.default = "DENY"
<1>1. CASE record.default = "unknown"
  BY <1>1 DEF DefaultList
<1>2. CASE record.default # "unknown"
  <2> DEFINE a == (record.default = "ALLOW")
             d == (record.default = "DENY")
  <2>1. a \in BOOLEAN /\ d \in BOOLEAN
    OBVIOUS
  <2>2. DefaultList(record) = [allowed |-> {}, denied |-> {}, allow_all |-> a, deny_all |-> d]
    BY <1>2 DEF DefaultList, ListState
  <2> HIDE DEF a, d
  <2>3. /\ DefaultList(record) \in ListStates
        /\ DefaultList(record).allowed = {} /\ DefaultList(record).denied = {}
        /\ DefaultList(record).allow_all = a /\ DefaultList(record).deny_all = d
    BY <2>1, <2>2 DEF ListStates
  <2> QED BY <1>2, <2>3 DEF a, d
<1> QED BY <1>1, <1>2

LEMMA ResolvedIs ==
  ASSUME NEW record, NEW s \in States
  PROVE  /\ Resolved(s, record) \in ListStates \cup {Undecided}
         /\ s \in ListStates => Resolved(s, record) = s
         /\ s = Undecided => Resolved(s, record) = Undecided
         /\ s = AtDefault => Resolved(s, record) = DefaultList(record)
BY DefaultIs, StatesDiffer DEF Resolved, States

\* What a policy makes of a state.
LEMMA FoldPolicyIs ==
  ASSUME NEW record, NEW s \in States, NEW p \in PolicySetting
  PROVE  LET f == FoldPolicy(s, p, record)
             t == Resolved(s, record)
         IN /\ f \in States
            /\ \/ f = Undecided
               \/ s # Undecided /\ Gated(p) /\ p.reset /\ f = AtDefault
               \/ s # Undecided /\ Gated(p) /\ ~p.reset /\ p.rules = <<>> /\ p.inherit /\ f = s
               \/ s # Undecided /\ ~p.reset /\ p.rules # <<>> /\ ~p.inherit /\ f = LocalList(p)
               \/ /\ s # Undecided /\ ~p.reset /\ p.rules # <<>> /\ p.inherit
                  /\ t \in ListStates /\ f = Merged(t, LocalList(p))
<1>1. LocalList(p) \in ListStates
  BY LocalListIs
<1>2. Resolved(s, record) \in ListStates \cup {Undecided}
  BY ResolvedIs
<1>3. Resolved(s, record) \in ListStates => Merged(Resolved(s, record), LocalList(p)) \in ListStates
  BY <1>1, MergedIs
<1> QED BY <1>1, <1>2, <1>3 DEF FoldPolicy, Inherits, States

\* Two states that read the same.
Alike(s, u, record) ==
    \/ s = u
    \/ /\ Resolved(s, record) # Undecided /\ Resolved(u, record) # Undecided
       /\ Canonical(Resolved(s, record)) = Canonical(Resolved(u, record))

LEMMA CanonicalIs ==
  ASSUME NEW s \in ListStates, NEW u \in ListStates
  PROVE  Canonical(s) = Canonical(u)
           <=> \/ s.deny_all /\ u.deny_all
               \/ /\ ~s.deny_all /\ ~u.deny_all /\ s.denied = u.denied
                  /\ s.allow_all = u.allow_all
                  /\ s.allowed \ s.denied = u.allowed \ u.denied
<1> DEFINE shut == [allowed |-> {}, denied |-> {}, allow_all |-> FALSE, deny_all |-> TRUE]
           open(v) == [allowed |-> v.allowed \ v.denied, denied |-> v.denied,
                       allow_all |-> v.allow_all, deny_all |-> v.deny_all]
<1>1. ASSUME NEW v \in ListStates
      PROVE  Canonical(v) = IF v.deny_all THEN shut ELSE open(v)
  <2>1. v # Undecided /\ "enforce" \notin DOMAIN v
    BY StatesDiffer
  <2>2. [v EXCEPT !.allowed = v.allowed \ v.denied] = open(v)
    BY DEF ListStates
  <2> QED BY <2>1, <2>2 DEF Canonical, ListState
<1>2. shut.deny_all = TRUE
  OBVIOUS
<1>3. \A v \in ListStates : /\ open(v).deny_all = v.deny_all /\ open(v).allow_all = v.allow_all
                        /\ open(v).denied = v.denied /\ open(v).allowed = v.allowed \ v.denied
  OBVIOUS
<1>4. s.deny_all \in BOOLEAN /\ u.deny_all \in BOOLEAN
  BY DEF ListStates
<1>5. CASE s.deny_all /\ u.deny_all
  BY <1>1, <1>5
<1>6. CASE s.deny_all /\ ~u.deny_all
  <2> HIDE DEF shut, open
  <2>1. Canonical(s) = shut /\ Canonical(u) = open(u)
    BY <1>1, <1>6
  <2> QED BY <1>2, <1>3, <1>6, <2>1
<1>7. CASE ~s.deny_all /\ u.deny_all
  <2> HIDE DEF shut, open
  <2>1. Canonical(u) = shut /\ Canonical(s) = open(s)
    BY <1>1, <1>7
  <2> QED BY <1>2, <1>3, <1>7, <2>1
<1>8. CASE ~s.deny_all /\ ~u.deny_all
  <2>1. s.deny_all = u.deny_all
    BY <1>4, <1>8
  <2>2. open(s) = open(u) <=> /\ s.denied = u.denied /\ s.allow_all = u.allow_all
                              /\ s.allowed \ s.denied = u.allowed \ u.denied
    <3>1. ASSUME s.denied = u.denied, s.allow_all = u.allow_all,
                 s.allowed \ s.denied = u.allowed \ u.denied
          PROVE  open(s) = open(u)
      BY <2>1, <3>1
    <3> HIDE DEF open
    <3> QED BY <1>3, <3>1
  <2> HIDE DEF open, shut
  <2>3. Canonical(s) = open(s) /\ Canonical(u) = open(u)
    BY <1>1, <1>8
  <2> QED BY <1>8, <2>2, <2>3
<1> QED BY <1>4, <1>5, <1>6, <1>7, <1>8

\* A policy makes alike of what is alike.
LEMMA FoldKeepsAlike ==
  ASSUME NEW record, NEW s \in States, NEW u \in States, NEW p \in PolicySetting,
         Alike(s, u, record)
  PROVE  Alike(FoldPolicy(s, p, record), FoldPolicy(u, p, record), record)
<1> DEFINE l == LocalList(p)
           t == Resolved(s, record)
           v == Resolved(u, record)
<1>1. CASE s = u
  BY <1>1 DEF Alike
<1>2. CASE s # u
  <2>1. t # Undecided /\ v # Undecided /\ Canonical(t) = Canonical(v)
    BY <1>2 DEF Alike
  <2>2. t \in ListStates /\ v \in ListStates /\ s # Undecided /\ u # Undecided
    BY <2>1, ResolvedIs
  <2>3. l \in ListStates
    BY LocalListIs
  <2> HIDE DEF t, v, l
  <2>4. Canonical(Merged(t, l)) = Canonical(Merged(v, l))
    <3>1. Merged(t, l) \in ListStates /\ Merged(v, l) \in ListStates
      BY <2>2, <2>3, MergedIs
    <3>2. \/ t.deny_all /\ v.deny_all
          \/ /\ ~t.deny_all /\ ~v.deny_all /\ t.denied = v.denied
             /\ t.allow_all = v.allow_all /\ t.allowed \ t.denied = v.allowed \ v.denied
      BY <2>1, <2>2, CanonicalIs
    <3>3. /\ Merged(t, l).deny_all <=> t.deny_all \/ l.deny_all
          /\ Merged(v, l).deny_all <=> v.deny_all \/ l.deny_all
          /\ Merged(t, l).allow_all <=> t.allow_all \/ l.allow_all
          /\ Merged(v, l).allow_all <=> v.allow_all \/ l.allow_all
          /\ Merged(t, l).denied = t.denied \cup l.denied
          /\ Merged(v, l).denied = v.denied \cup l.denied
          /\ Merged(t, l).allowed = t.allowed \cup l.allowed
          /\ Merged(v, l).allowed = v.allowed \cup l.allowed
      BY <2>2, <2>3, MergedIs
    <3>4. CASE Merged(t, l).deny_all
      <4>1. Merged(v, l).deny_all
        BY <3>2, <3>3, <3>4
      <4> QED BY <3>1, <3>4, <4>1, CanonicalIs
    <3>5. CASE ~Merged(t, l).deny_all
      <4>1. /\ ~t.deny_all /\ ~v.deny_all /\ t.denied = v.denied
            /\ t.allow_all = v.allow_all /\ t.allowed \ t.denied = v.allowed \ v.denied
            /\ ~Merged(v, l).deny_all
        BY <3>2, <3>3, <3>5
      <4>2. Merged(t, l).denied = Merged(v, l).denied
        BY <3>3, <4>1
      <4>3. Merged(t, l).allowed \ Merged(t, l).denied = Merged(v, l).allowed \ Merged(v, l).denied
        BY <3>3, <4>1
      <4>4. Merged(t, l).allow_all = Merged(v, l).allow_all
        <5>1. /\ Merged(t, l).allow_all \in BOOLEAN /\ Merged(v, l).allow_all \in BOOLEAN
          BY <3>1 DEF ListStates
        <5> QED BY <3>3, <4>1, <5>1
      <4> QED BY <3>1, <3>5, <4>1, <4>2, <4>3, <4>4, CanonicalIs
    <3> QED BY <3>4, <3>5
  <2>5. Merged(t, l) \in ListStates /\ Merged(v, l) \in ListStates
    BY <2>2, <2>3, MergedIs
  <2>6. Alike(Merged(t, l), Merged(v, l), record)
    <3>1. /\ Resolved(Merged(t, l), record) = Merged(t, l)
          /\ Resolved(Merged(v, l), record) = Merged(v, l)
      BY <2>5, ResolvedIs DEF States
    <3> QED BY <2>4, <2>5, <3>1, StatesDiffer DEF Alike
  <2>7. Alike(s, u, record) /\ Alike(l, l, record) /\ Alike(Undecided, Undecided, record)
          /\ Alike(AtDefault, AtDefault, record)
    BY DEF Alike
  <2>8. /\ FoldPolicy(s, p, record)
             = IF ~Gated(p) THEN Undecided ELSE IF p.reset THEN AtDefault
               ELSE IF p.rules = <<>> THEN IF p.inherit THEN s ELSE Undecided
               ELSE IF ~ListShaped(p) THEN Undecided
               ELSE IF ~p.inherit THEN l ELSE Merged(t, l)
        /\ FoldPolicy(u, p, record)
             = IF ~Gated(p) THEN Undecided ELSE IF p.reset THEN AtDefault
               ELSE IF p.rules = <<>> THEN IF p.inherit THEN u ELSE Undecided
               ELSE IF ~ListShaped(p) THEN Undecided
               ELSE IF ~p.inherit THEN l ELSE Merged(v, l)
    BY <2>1, <2>2 DEF FoldPolicy, Inherits, t, v, l
  <2> QED BY <2>6, <2>7, <2>8
<1> QED BY <1>1, <1>2

LEMMA AlikeIsTransitive ==
  ASSUME NEW record, NEW s, NEW u, NEW v, Alike(s, u, record), Alike(u, v, record)
  PROVE  Alike(s, v, record)
BY DEF Alike

\* What remains in force below the next node of a chain.
LEMMA RemainingIs ==
  ASSUME NEW c, NEW set, NEW i \in Nat \ {0}
  PROVE  /\ c[i] \notin DOMAIN set => Remaining(c, set, i) = Remaining(c, set, i - 1)
         /\ c[i] \in DOMAIN set /\ StartsAnew(set[c[i]]) => Remaining(c, set, i) = {i}
         /\ c[i] \in DOMAIN set /\ ~StartsAnew(set[c[i]])
              => Remaining(c, set, i) = Remaining(c, set, i - 1) \cup {i}
<1> DEFINE there(k) == c[k] \in DOMAIN set
           anew(k) == StartsAnew(set[c[k]])
           R(n) == {k \in 1..n : there(k) /\ \A j \in (k + 1)..n : there(j) => ~anew(j)}
<1>1. Remaining(c, set, i) = R(i) /\ Remaining(c, set, i - 1) = R(i - 1)
  BY DEF Remaining
<1>2. ASSUME NEW k, NEW n, n = i \/ n = i - 1
      PROVE  k \in R(n) <=> /\ k \in 1..n /\ there(k)
                            /\ \A j \in (k + 1)..n : there(j) => ~anew(j)
  OBVIOUS
<1> HIDE DEF R, there, anew
<1>3. ASSUME NEW k \in 1..(i - 1), ~(there(i) /\ anew(i)) PROVE k \in R(i) <=> k \in R(i - 1)
  <2>1. \A j \in (k + 1)..i : j = i \/ j \in (k + 1)..(i - 1)
    OBVIOUS
  <2>2. \A j \in (k + 1)..(i - 1) : j \in (k + 1)..i
    OBVIOUS
  <2>3. k \in 1..i
    OBVIOUS
  <2> QED BY <1>2, <1>3, <2>1, <2>2, <2>3
<1>4. i \in R(i) <=> there(i)
  <2>1. i \in 1..i /\ \A j : j \notin (i + 1)..i
    OBVIOUS
  <2> QED BY <1>2, <2>1
<1>5. \A k : k \in R(i) => k = i \/ k \in 1..(i - 1)
  <2>1. \A k \in 1..i : k = i \/ k \in 1..(i - 1)
    OBVIOUS
  <2> QED BY <1>2, <2>1
<1>6. \A k : k \in R(i - 1) => k \in 1..(i - 1)
  BY <1>2
<1>7. CASE ~there(i)
  <2>1. R(i) = R(i - 1)
    BY <1>3, <1>4, <1>5, <1>6, <1>7
  <2> QED BY <1>1, <1>7, <2>1 DEF there, anew
<1>8. CASE there(i) /\ anew(i)
  <2>1. ASSUME NEW k \in 1..(i - 1) PROVE k \notin R(i)
    <3>1. i \in (k + 1)..i
      OBVIOUS
    <3> QED BY <1>2, <1>8, <3>1
  <2>2. R(i) = {i}
    BY <1>4, <1>5, <1>8, <2>1
  <2> QED BY <1>1, <1>8, <2>2 DEF there, anew
<1>9. CASE there(i) /\ ~anew(i)
  <2>1. R(i) = R(i - 1) \cup {i}
    BY <1>3, <1>4, <1>5, <1>6, <1>9
  <2> QED BY <1>1, <1>9, <2>1 DEF there, anew
<1> QED BY <1>7, <1>8, <1>9

LEMMA InForceNext ==
  ASSUME NEW c, NEW set, NEW i \in Nat \ {0}
  PROVE  /\ c[i] \notin DOMAIN set =>
              /\ RulesInForce(c, set, i) = RulesInForce(c, set, i - 1)
              /\ DefaultInForce(c, set, i) <=> DefaultInForce(c, set, i - 1)
         /\ c[i] \in DOMAIN set /\ StartsAnew(set[c[i]]) =>
              /\ RulesInForce(c, set, i) = RulesIn(set[c[i]])
              /\ DefaultInForce(c, set, i) <=> set[c[i]].reset
         /\ c[i] \in DOMAIN set /\ ~StartsAnew(set[c[i]]) =>
              /\ RulesInForce(c, set, i) = RulesInForce(c, set, i - 1) \cup RulesIn(set[c[i]])
              /\ DefaultInForce(c, set, i) <=> DefaultInForce(c, set, i - 1)
<1>1. CASE c[i] \notin DOMAIN set
  BY <1>1, RemainingIs DEF RulesInForce, DefaultInForce
<1>2. CASE c[i] \in DOMAIN set /\ StartsAnew(set[c[i]])
  <2>1. Remaining(c, set, i) = {i}
    BY <1>2, RemainingIs
  <2> QED BY <1>2, <2>1 DEF RulesInForce, DefaultInForce
<1>3. CASE c[i] \in DOMAIN set /\ ~StartsAnew(set[c[i]])
  <2>1. Remaining(c, set, i) = Remaining(c, set, i - 1) \cup {i}
    BY <1>3, RemainingIs
  <2> QED BY <1>3, <2>1 DEF RulesInForce, DefaultInForce
<1> QED BY <1>1, <1>2, <1>3

\* A state that says what is in force.
SaysInForce(t, c, set, record, i) ==
    LET rules == RulesInForce(c, set, i)
    IN /\ t \in ListStates
       /\ t.allowed = UNION {r.allowed : r \in rules}
       /\ t.denied = UNION {r.denied : r \in rules}
       /\ t.allow_all <=> \/ \E r \in rules : r.allow_all = "true"
                          \/ DefaultInForce(c, set, i) /\ record.default = "ALLOW"
       /\ t.deny_all <=> \/ \E r \in rules : r.deny_all = "true"
                         \/ DefaultInForce(c, set, i) /\ record.default = "DENY"
StateInForce(s, c, set, record, i) ==
    \/ s = Undecided
    \/ s = AtDefault /\ DefaultInForce(c, set, i) /\ RulesInForce(c, set, i) = {}
    \/ SaysInForce(s, c, set, record, i)

LEMMA ResolvedInForce ==
  ASSUME NEW c, NEW set, NEW record, NEW i, NEW s, StateInForce(s, c, set, record, i)
  PROVE  /\ s \in States
         /\ \/ Resolved(s, record) = Undecided
            \/ SaysInForce(Resolved(s, record), c, set, record, i)
<1>1. CASE s = Undecided
  BY <1>1, ResolvedIs DEF States
<1>2. CASE s = AtDefault /\ DefaultInForce(c, set, i) /\ RulesInForce(c, set, i) = {}
  <2>1. s \in States /\ Resolved(s, record) = DefaultList(record)
    BY <1>2, ResolvedIs DEF States
  <2>2. CASE DefaultList(record) = Undecided
    BY <2>1, <2>2
  <2>3. CASE DefaultList(record) # Undecided
    BY <1>2, <2>1, <2>3, DefaultIs DEF SaysInForce
  <2> QED BY <2>1, <2>2, <2>3
<1>3. CASE SaysInForce(s, c, set, record, i)
  <2>1. s \in ListStates
    BY <1>3 DEF SaysInForce
  <2>2. s \in States /\ Resolved(s, record) = s
    BY <2>1, ResolvedIs DEF States
  <2> QED BY <1>3, <2>2
<1> QED BY <1>1, <1>2, <1>3 DEF StateInForce

LEMMA NextInForce ==
  ASSUME NEW c, NEW set, NEW record, NEW i \in Nat \ {0}, NEW s,
         c[i] \in DOMAIN set => set[c[i]] \in PolicySetting,
         StateInForce(s, c, set, record, i - 1)
  PROVE  StateInForce(AtNode(s, c[i], set, record), c, set, record, i)
<1>1. CASE c[i] \notin DOMAIN set
  <2>1. AtNode(s, c[i], set, record) = s
    BY <1>1 DEF AtNode
  <2>2. /\ RulesInForce(c, set, i) = RulesInForce(c, set, i - 1)
        /\ DefaultInForce(c, set, i) <=> DefaultInForce(c, set, i - 1)
    BY <1>1, InForceNext
  <2> QED BY <2>1, <2>2 DEF StateInForce, SaysInForce
<1>2. CASE c[i] \in DOMAIN set
  <2> DEFINE p == set[c[i]]
             l == LocalList(p)
             f == FoldPolicy(s, p, record)
             t == Resolved(s, record)
  <2>1. p \in PolicySetting /\ AtNode(s, c[i], set, record) = f
    BY <1>2 DEF AtNode
  <2>2. /\ s \in States
        /\ t = Undecided \/ SaysInForce(t, c, set, record, i - 1)
    BY ResolvedInForce
  <2>3. /\ StartsAnew(p) =>
              /\ RulesInForce(c, set, i) = RulesIn(p)
              /\ DefaultInForce(c, set, i) <=> p.reset
        /\ ~StartsAnew(p) =>
              /\ RulesInForce(c, set, i) = RulesInForce(c, set, i - 1) \cup RulesIn(p)
              /\ DefaultInForce(c, set, i) <=> DefaultInForce(c, set, i - 1)
    BY <1>2, InForceNext
  <2>4. \/ f = Undecided
        \/ s # Undecided /\ Gated(p) /\ p.reset /\ f = AtDefault
        \/ s # Undecided /\ Gated(p) /\ ~p.reset /\ p.rules = <<>> /\ p.inherit /\ f = s
        \/ s # Undecided /\ ~p.reset /\ p.rules # <<>> /\ ~p.inherit /\ f = l
        \/ /\ s # Undecided /\ ~p.reset /\ p.rules # <<>> /\ p.inherit
           /\ t \in ListStates /\ f = Merged(t, l)
    BY <2>1, <2>2, FoldPolicyIs
  <2>5. /\ l \in ListStates
        /\ l.allowed = UNION {r.allowed : r \in RulesIn(p)}
        /\ l.denied = UNION {r.denied : r \in RulesIn(p)}
        /\ l.allow_all <=> \E r \in RulesIn(p) : r.allow_all = "true"
        /\ l.deny_all <=> \E r \in RulesIn(p) : r.deny_all = "true"
    BY <2>1, LocalListIs
  <2>6. p.rules = <<>> => RulesIn(p) = {}
    BY DEF RulesIn, Range
  <2> HIDE DEF p, l, f, t
  <2>7. CASE f = Undecided
    BY <2>1, <2>7 DEF StateInForce
  <2>8. CASE Gated(p) /\ p.reset /\ f = AtDefault
    BY <2>1, <2>3, <2>6, <2>8 DEF StateInForce, StartsAnew, Gated
  <2>9. CASE ~p.reset /\ p.rules = <<>> /\ p.inherit /\ f = s
    <3>1. ~StartsAnew(p)
      BY <2>9 DEF StartsAnew
    <3>2. /\ RulesInForce(c, set, i) = RulesInForce(c, set, i - 1)
          /\ DefaultInForce(c, set, i) <=> DefaultInForce(c, set, i - 1)
      BY <2>3, <2>6, <2>9, <3>1
    <3> QED BY <2>1, <2>9, <3>2 DEF StateInForce, SaysInForce
  <2>10. CASE ~p.reset /\ p.rules # <<>> /\ ~p.inherit /\ f = l
    <3>1. StartsAnew(p)
      BY <2>10 DEF StartsAnew
    <3>2. RulesInForce(c, set, i) = RulesIn(p) /\ ~DefaultInForce(c, set, i)
      BY <2>3, <2>10, <3>1
    <3> QED BY <2>1, <2>5, <2>10, <3>2 DEF StateInForce, SaysInForce
  <2>11. CASE ~p.reset /\ p.rules # <<>> /\ p.inherit /\ t \in ListStates /\ f = Merged(t, l)
    <3>1. ~StartsAnew(p)
      BY <2>11 DEF StartsAnew
    <3>2. /\ RulesInForce(c, set, i) = RulesInForce(c, set, i - 1) \cup RulesIn(p)
          /\ DefaultInForce(c, set, i) <=> DefaultInForce(c, set, i - 1)
      BY <2>3, <3>1
    <3>3. SaysInForce(t, c, set, record, i - 1)
      BY <2>2, <2>11, StatesDiffer
    <3>4. /\ f \in ListStates /\ f.allowed = t.allowed \cup l.allowed
          /\ f.denied = t.denied \cup l.denied
          /\ f.allow_all <=> t.allow_all \/ l.allow_all
          /\ f.deny_all <=> t.deny_all \/ l.deny_all
      BY <2>5, <2>11, MergedIs
    <3>5. f.allowed = UNION {r.allowed : r \in RulesInForce(c, set, i)}
      BY <2>5, <3>2, <3>3, <3>4 DEF SaysInForce
    <3>6. f.denied = UNION {r.denied : r \in RulesInForce(c, set, i)}
      BY <2>5, <3>2, <3>3, <3>4 DEF SaysInForce
    <3>7. f.allow_all <=> \/ \E r \in RulesInForce(c, set, i) : r.allow_all = "true"
                          \/ DefaultInForce(c, set, i) /\ record.default = "ALLOW"
      BY <2>5, <3>2, <3>3, <3>4 DEF SaysInForce
    <3>8. f.deny_all <=> \/ \E r \in RulesInForce(c, set, i) : r.deny_all = "true"
                         \/ DefaultInForce(c, set, i) /\ record.default = "DENY"
      BY <2>5, <3>2, <3>3, <3>4 DEF SaysInForce
    <3> QED BY <2>1, <3>4, <3>5, <3>6, <3>7, <3>8 DEF StateInForce, SaysInForce
  <2> QED BY <2>4, <2>7, <2>8, <2>9, <2>10, <2>11
<1> QED BY <1>1, <1>2

\* The fold says what is in force, unless it decides nothing.
PoliciesAlong(c, set) == \A i \in 1..Len(c) : c[i] \in DOMAIN set => set[c[i]] \in PolicySetting

LEMMA StatesInForce ==
  ASSUME NEW c, Len(c) \in Nat, NEW set, NEW record, PoliciesAlong(c, set), NEW F,
         AreStates(F, c, set, record), NEW n \in 0..Len(c)
  PROVE  StateInForce(F[n], c, set, record, n)
<1> DEFINE Wrong == {k \in 0..Len(c) : ~StateInForce(F[k], c, set, record, k)}
<1> SUFFICES ASSUME Wrong # {} PROVE FALSE
  OBVIOUS
<1> DEFINE m == Min(Wrong)
<1>1. m \in Wrong /\ \A k \in Wrong : m <= k
  <2>1. Wrong \subseteq Nat
    OBVIOUS
  <2> HIDE DEF Wrong
  <2> QED BY <2>1, SmallestNumber
<1> HIDE DEF m
<1>2. CASE m = 0
  <2>1. Remaining(c, set, 0) = {}
    BY DEF Remaining
  <2>2. StateInForce(AtDefault, c, set, record, 0)
    BY <2>1 DEF StateInForce, RulesInForce, DefaultInForce
  <2> QED BY <1>1, <1>2, <2>2 DEF AreStates
<1>3. CASE m # 0
  <2>1. m \in 1..Len(c) /\ m - 1 \in 0..Len(c) /\ ~(m <= m - 1) /\ m \in Nat \ {0}
    BY <1>1, <1>3
  <2>2. StateInForce(F[m - 1], c, set, record, m - 1)
    BY <1>1, <2>1
  <2>3. F[m] = AtNode(F[m - 1], c[m], set, record)
    BY <2>1 DEF AreStates
  <2>4. c[m] \in DOMAIN set => set[c[m]] \in PolicySetting
    BY <2>1 DEF PoliciesAlong
  <2>5. StateInForce(F[m], c, set, record, m)
    BY <2>1, <2>2, <2>3, <2>4, NextInForce
  <2> QED BY <1>1, <2>5
<1> QED BY <1>2, <1>3
\* The targets of a document, and an estate, as they are read.
Target == [node : STRING, policy : PolicySetting]
ProperEstate(estate) ==
    /\ IsFiniteSet(DOMAIN estate.table)
    /\ \A n \in DOMAIN estate.set : estate.set[n] \in PolicySetting
    /\ estate.record.value_type \in ValueTypes
Apart(targets) ==
    \A i, j \in 1..Len(targets) : targets[i].node = targets[j].node => i = j

LEMMA TargetsAre ==
  ASSUME NEW targets \in Seq(Target)
  PROVE  /\ Len(targets) \in Nat /\ DOMAIN targets = 1..Len(targets)
         /\ \A i \in 1..Len(targets) : targets[i].policy \in PolicySetting
<1> DEFINE T == Target
<1>1. Len(targets) \in Nat /\ DOMAIN targets = 1..Len(targets)
      /\ \A i \in 1..Len(targets) : targets[i] \in T
  <2> HIDE DEF T
  <2>1. targets \in Seq(T)
    BY DEF T
  <2> QED BY <2>1
<1> QED BY <1>1 DEF Target

\* What is set with a document in place.
LEMMA OverIs ==
  ASSUME NEW estate, ProperEstate(estate), NEW targets \in Seq(Target), Apart(targets)
  PROVE  LET over == Over(estate, targets)
         IN /\ \A n : n \in DOMAIN over <=> \/ n \in DOMAIN estate.set
                                            \/ \E i \in 1..Len(targets) : targets[i].node = n
            /\ \A i \in 1..Len(targets) : over[targets[i].node] = targets[i].policy
            /\ \A n \in DOMAIN estate.set :
                 (\A i \in 1..Len(targets) : targets[i].node # n) => over[n] = estate.set[n]
            /\ \A n \in DOMAIN over : over[n] \in PolicySetting
<1> DEFINE I == 1..Len(targets)
           who(n) == CHOOSE i \in I : targets[i].node = n
           over == Over(estate, targets)
<1>1. over = [n \in DOMAIN estate.set \cup {targets[i].node : i \in I} |->
                IF \E i \in I : targets[i].node = n
                THEN targets[who(n)].policy ELSE estate.set[n]]
  BY DEF Over
<1>2. \A i \in I : who(targets[i].node) = i
  BY DEF Apart
<1> HIDE DEF who, over
<1>3. \A n : n \in DOMAIN over <=> n \in DOMAIN estate.set \/ \E i \in I : targets[i].node = n
  BY <1>1
<1>4. ASSUME NEW i \in I PROVE over[targets[i].node] = targets[i].policy
  BY <1>1, <1>2
<1>5. ASSUME NEW n \in DOMAIN estate.set, \A i \in I : targets[i].node # n
      PROVE  over[n] = estate.set[n]
  BY <1>1, <1>5
<1>6. ASSUME NEW n \in DOMAIN over PROVE over[n] \in PolicySetting
  <2>1. CASE \E i \in I : targets[i].node = n
    BY <1>4, <2>1, TargetsAre
  <2>2. CASE \A i \in I : targets[i].node # n
    BY <1>3, <1>5, <1>6, <2>2 DEF ProperEstate
  <2> QED BY <2>1, <2>2
<1> QED BY <1>3, <1>4, <1>5, <1>6 DEF over

LEMMA OverOneIs ==
  ASSUME NEW estate, ProperEstate(estate), NEW t \in Target
  PROVE  LET over == Over(estate, <<t>>)
         IN /\ \A n : n \in DOMAIN over <=> n \in DOMAIN estate.set \/ n = t.node
            /\ over[t.node] = t.policy
            /\ \A n \in DOMAIN estate.set : n # t.node => over[n] = estate.set[n]
            /\ \A n \in DOMAIN over : over[n] \in PolicySetting
<1> DEFINE s == <<t>>
<1>1. s \in Seq(Target) /\ Len(s) = 1 /\ s[1] = t /\ Apart(s)
  BY DEF Apart
<1>2. 1 \in 1..Len(s) /\ \A i \in 1..Len(s) : i = 1
  BY <1>1
<1> DEFINE over == Over(estate, s)
<1> HIDE DEF s
<1>3. /\ \A n : n \in DOMAIN over <=> \/ n \in DOMAIN estate.set
                                      \/ \E i \in 1..Len(s) : s[i].node = n
      /\ \A i \in 1..Len(s) : over[s[i].node] = s[i].policy
      /\ \A n \in DOMAIN estate.set :
           (\A i \in 1..Len(s) : s[i].node # n) => over[n] = estate.set[n]
      /\ \A n \in DOMAIN over : over[n] \in PolicySetting
  BY <1>1, OverIs
<1> HIDE DEF over
<1>4. \A n : n \in DOMAIN over <=> n \in DOMAIN estate.set \/ n = t.node
  BY <1>1, <1>2, <1>3
<1>5. over[t.node] = t.policy
  BY <1>1, <1>2, <1>3
<1>6. \A n \in DOMAIN estate.set : n # t.node => over[n] = estate.set[n]
  BY <1>1, <1>2, <1>3
<1> QED BY <1>3, <1>4, <1>5, <1>6 DEF over, s

-----------------------------------------------------------------------------
(* The rows.                                                               *)

LEMMA RowsAre ==
  /\ \A n, p, v : /\ Row(n, p, v).node = n /\ Row(n, p, v).polarity = p
                  /\ Row(n, p, v).value = v /\ Row(n, p, v).all_values = FALSE
  /\ \A n, p : /\ RowOfAll(n, p).node = n /\ RowOfAll(n, p).polarity = p
               /\ RowOfAll(n, p).all_values = TRUE
<1>1. ASSUME NEW n, NEW p, NEW v
      PROVE  /\ Row(n, p, v).node = n /\ Row(n, p, v).polarity = p
             /\ Row(n, p, v).value = v /\ Row(n, p, v).all_values = FALSE
  BY DEF Row
<1>2. ASSUME NEW n, NEW p
      PROVE  /\ RowOfAll(n, p).node = n /\ RowOfAll(n, p).polarity = p
             /\ RowOfAll(n, p).all_values = TRUE
  BY Zenon DEF RowOfAll
<1> QED BY <1>1, <1>2

\* The rows of a node say what its state does.
Has(rows, n, polarity, v) == Row(n, polarity, v) \in rows \/ RowOfAll(n, polarity) \in rows
LEMMA RowsOfNode ==
  ASSUME NEW m, NEW t \in ListStates, NEW n, NEW v
  PROVE  /\ Row(n, "deny", v) \in list_rows(m, t) <=> n = m /\ ~t.deny_all /\ v \in t.denied
         /\ RowOfAll(n, "deny") \in list_rows(m, t) <=> n = m /\ t.deny_all
         /\ Row(n, "allow", v) \in list_rows(m, t)
              <=> n = m /\ ~t.deny_all /\ v \in t.allowed \ t.denied
         /\ RowOfAll(n, "allow") \in list_rows(m, t) <=> n = m /\ ~t.deny_all /\ t.allow_all
<1> DEFINE D == {Row(m, "deny", u) : u \in t.denied}
           A == {Row(m, "allow", u) : u \in t.allowed \ t.denied}
           O == IF t.allow_all THEN {RowOfAll(m, "allow")} ELSE {}
           L == list_rows(m, t)
<1>1. L = IF t.deny_all THEN {RowOfAll(m, "deny")} ELSE D \cup A \cup O
  BY DEF list_rows
<1>2. /\ Row(n, "deny", v) \in D <=> n = m /\ v \in t.denied
      /\ Row(n, "allow", v) \notin D /\ RowOfAll(n, "deny") \notin D /\ RowOfAll(n, "allow") \notin D
  BY RowsAre
<1>3. /\ Row(n, "allow", v) \in A <=> n = m /\ v \in t.allowed \ t.denied
      /\ Row(n, "deny", v) \notin A /\ RowOfAll(n, "deny") \notin A /\ RowOfAll(n, "allow") \notin A
  BY RowsAre
<1>4. /\ RowOfAll(n, "allow") \in O <=> n = m /\ t.allow_all
      /\ Row(n, "deny", v) \notin O /\ Row(n, "allow", v) \notin O /\ RowOfAll(n, "deny") \notin O
  BY RowsAre
<1>5. /\ RowOfAll(n, "deny") \in {RowOfAll(m, "deny")} <=> n = m
      /\ Row(n, "deny", v) \notin {RowOfAll(m, "deny")}
      /\ Row(n, "allow", v) \notin {RowOfAll(m, "deny")}
      /\ RowOfAll(n, "allow") \notin {RowOfAll(m, "deny")}
  BY RowsAre
<1> HIDE DEF D, A, O, L
<1>6. CASE t.deny_all
  BY <1>1, <1>5, <1>6 DEF L
<1>7. CASE ~t.deny_all
  BY <1>1, <1>2, <1>3, <1>4, <1>7 DEF L
<1> QED BY <1>6, <1>7

LEMMA RowsSay ==
  ASSUME NEW nodes, NEW s, \A n \in nodes : s[n] \in ListStates, NEW n \in nodes,
         ~(s[n].deny_all /\ s[n].allow_all), NEW v, NEW rows,
         rows = UNION {list_rows(m, s[m]) : m \in nodes}
  PROVE  /\ Has(rows, n, "deny", v) <=> s[n].deny_all \/ v \in s[n].denied
         /\ Has(rows, n, "allow", v) /\ ~Has(rows, n, "deny", v)
              <=> /\ ~s[n].deny_all /\ v \notin s[n].denied
                  /\ s[n].allow_all \/ v \in s[n].allowed
<1>1. \A r : r \in rows <=> \E m \in nodes : r \in list_rows(m, s[m])
  OBVIOUS
<1>2. \A m \in nodes :
         /\ Row(n, "deny", v) \in list_rows(m, s[m])
              <=> n = m /\ ~s[m].deny_all /\ v \in s[m].denied
         /\ RowOfAll(n, "deny") \in list_rows(m, s[m]) <=> n = m /\ s[m].deny_all
         /\ Row(n, "allow", v) \in list_rows(m, s[m])
              <=> n = m /\ ~s[m].deny_all /\ v \in s[m].allowed \ s[m].denied
         /\ RowOfAll(n, "allow") \in list_rows(m, s[m])
              <=> n = m /\ ~s[m].deny_all /\ s[m].allow_all
  BY RowsOfNode
<1>3. /\ Row(n, "deny", v) \in rows <=> ~s[n].deny_all /\ v \in s[n].denied
      /\ RowOfAll(n, "deny") \in rows <=> s[n].deny_all
      /\ Row(n, "allow", v) \in rows
           <=> ~s[n].deny_all /\ v \in s[n].allowed \ s[n].denied
      /\ RowOfAll(n, "allow") \in rows <=> ~s[n].deny_all /\ s[n].allow_all
  BY <1>1, <1>2
<1> QED BY <1>3 DEF Has
ProperSet(set) == \A n \in DOMAIN set : set[n] \in PolicySetting
Answers(e, f) ==
    /\ e \in ListStates
    /\ \A v \in Values : /\ v \in f.Denied <=> e.deny_all \/ v \in e.denied
                         /\ v \in f.Allowed <=> e.allow_all \/ v \in e.allowed

LEMMA ListInForce ==
  ASSUME NEW estate, ProperEstate(estate), ~AnyBroken(estate.table),
         estate.record.value_type # "boolean", NEW n \in DOMAIN estate.table,
         NEW set, ProperSet(set), EffectiveAt(n, set, estate) # Undecided
  PROVE  Answers(EffectiveAt(n, set, estate), InForce(n, set, estate))
<1> DEFINE c == ancestry_chain(estate.table, n)
           rec == estate.record
           e == EffectiveAt(n, set, estate)
           f == InForce(n, set, estate)
           rules == RulesInForce(c, set, Len(c))
           default(d) == DefaultInForce(c, set, Len(c)) /\ rec.default = d
<1>1. IsChain(estate.table, n, c)
  BY ChainOf DEF ProperEstate
<1>2. e = Resolved(StateAlong(c, set, rec), rec)
  BY DEF EffectiveAt, Effective, effective_list
<1>3. /\ f.Denied = {v \in Values : \/ \E r \in rules : r.deny_all = "true"
                                    \/ default("DENY")
                                    \/ \E r \in rules : v \in r.denied}
      /\ f.Allowed = {v \in Values : \/ \E r \in rules : r.allow_all = "true"
                                     \/ default("ALLOW")
                                     \/ \E r \in rules : v \in r.allowed}
  BY DEF InForce
<1> HIDE DEF c, rec, e, f
<1>4. Len(c) \in Nat
  BY <1>1 DEF IsChain, IsWalk
<1>5. PoliciesAlong(c, set)
  BY DEF PoliciesAlong, ProperSet
<1>6. PICK F : AreStates(F, c, set, rec) /\ StateAlong(c, set, rec) = F[Len(c)]
  BY <1>4, StatesAre
<1>7. StateInForce(F[Len(c)], c, set, rec, Len(c))
  <2>1. Len(c) \in 0..Len(c)
    BY <1>4
  <2> QED BY <1>4, <1>5, <1>6, <2>1, StatesInForce
<1>8. SaysInForce(e, c, set, rec, Len(c))
  <2>1. e # Undecided
    BY DEF e
  <2> QED BY <1>2, <1>6, <1>7, <2>1, ResolvedInForce
<1>9. /\ e \in ListStates
      /\ e.allowed = UNION {r.allowed : r \in rules}
      /\ e.denied = UNION {r.denied : r \in rules}
      /\ e.allow_all <=> (\E r \in rules : r.allow_all = "true") \/ default("ALLOW")
      /\ e.deny_all <=> (\E r \in rules : r.deny_all = "true") \/ default("DENY")
  BY <1>8 DEF SaysInForce
<1> HIDE DEF rules, default
<1>10. ASSUME NEW v \in Values
       PROVE  /\ v \in f.Denied <=> e.deny_all \/ v \in e.denied
              /\ v \in f.Allowed <=> e.allow_all \/ v \in e.allowed
  <2>1. v \in e.denied <=> \E r \in rules : v \in r.denied
    BY <1>9
  <2>2. v \in e.allowed <=> \E r \in rules : v \in r.allowed
    BY <1>9
  <2>3. v \in f.Denied <=> \/ \E r \in rules : r.deny_all = "true"
                           \/ default("DENY")
                           \/ \E r \in rules : v \in r.denied
    BY <1>3
  <2>4. v \in f.Allowed <=> \/ \E r \in rules : r.allow_all = "true"
                            \/ default("ALLOW")
                            \/ \E r \in rules : v \in r.allowed
    BY <1>3
  <2> QED BY <1>9, <2>1, <2>2, <2>3, <2>4
<1> QED BY <1>9, <1>10 DEF Answers, e, f

\* What is put to a document, and the nodes it is about.
Governed(estate, targets) ==
    UNION {Universe(estate.table, targets[i].node) : i \in 1..Len(targets)}
Together(estate, targets, n) == EffectiveAt(n, Over(estate, targets), estate)
Put(estate, targets) ==
    /\ ProperEstate(estate) /\ targets \in Seq(Target)
    /\ effective_records(estate, targets) # Undecided

LEMMA PutIs ==
  ASSUME NEW estate, NEW targets, Put(estate, targets)
  PROVE  /\ ~OutOfReach(estate, targets) /\ ~AnyBroken(estate.table) /\ Apart(targets)
         /\ Governed(estate, targets) \subseteq DOMAIN estate.table
         /\ \A n \in Governed(estate, targets) : Together(estate, targets, n) # Undecided
         /\ estate.record.value_type = "boolean" =>
              effective_records(estate, targets).rows
                = {[node |-> n, enforce |-> Together(estate, targets, n).enforce] :
                     n \in Governed(estate, targets)}
         /\ estate.record.value_type # "boolean" =>
              /\ \A n \in Governed(estate, targets) : ~Contradictory(Together(estate, targets, n))
              /\ effective_records(estate, targets).rows
                   = UNION {list_rows(n, Together(estate, targets, n)) :
                              n \in Governed(estate, targets)}
<1> DEFINE G == Governed(estate, targets)
           s(n) == Together(estate, targets, n)
           R == effective_records(estate, targets)
           list == UNION {list_rows(n, s(n)) : n \in G}
           flags == {[node |-> n, enforce |-> s(n).enforce] : n \in G}
<1>1. R = IF \/ OutOfReach(estate, targets) \/ AnyBroken(estate.table)
             \/ \E n \in G : s(n) = Undecided
          THEN Undecided
          ELSE IF estate.record.value_type = "boolean"
               THEN [rows |-> flags]
               ELSE IF \E n \in G : Contradictory(s(n)) THEN Undecided
                    ELSE [rows |-> list]
  BY DEF effective_records, Governed, Together
<1>2. R # Undecided
  BY DEF Put
<1> HIDE DEF G, s, R, list, flags
<1>3. /\ ~OutOfReach(estate, targets) /\ ~AnyBroken(estate.table)
      /\ \A n \in G : s(n) # Undecided
      /\ estate.record.value_type # "boolean" =>
              (\A n \in G : ~Contradictory(s(n))) /\ R = [rows |-> list]
      /\ estate.record.value_type = "boolean" => R = [rows |-> flags]
  BY <1>1, <1>2
<1>4. /\ estate.record.value_type # "boolean" => R.rows = list
      /\ estate.record.value_type = "boolean" => R.rows = flags
  BY <1>3
<1>5. Apart(targets)
  BY <1>3 DEF OutOfReach, Apart
<1>6. ASSUME NEW n \in G PROVE n \in DOMAIN estate.table
  <2>1. PICK i \in 1..Len(targets) : n \in Universe(estate.table, targets[i].node)
    BY DEF G, Governed
  <2>2. targets[i].node \in DOMAIN estate.table
    BY <1>3 DEF OutOfReach
  <2> QED BY <2>1, <2>2 DEF Universe
<1> QED BY <1>3, <1>4, <1>5, <1>6 DEF G, s, R, list, flags

\* The rows of a list say what is in force.
LEMMA RowsAreInForce ==
  ASSUME NEW estate, NEW targets, Put(estate, targets), estate.record.value_type = "list",
         NEW n \in Governed(estate, targets), NEW v \in Values
  PROVE  LET rows == effective_records(estate, targets).rows
             now == InForce(n, Over(estate, targets), estate)
         IN /\ Has(rows, n, "deny", v) <=> v \in now.Denied
            /\ Has(rows, n, "allow", v) /\ ~Has(rows, n, "deny", v)
                 <=> v \in now.Allowed \ now.Denied
<1> DEFINE G == Governed(estate, targets)
           s == [m \in G |-> Together(estate, targets, m)]
           rows == effective_records(estate, targets).rows
           now == InForce(n, Over(estate, targets), estate)
<1>1. ProperEstate(estate) /\ targets \in Seq(Target)
  BY DEF Put
<1>2. /\ ~AnyBroken(estate.table) /\ Apart(targets) /\ G \subseteq DOMAIN estate.table
      /\ estate.record.value_type # "boolean"
      /\ \A m \in G : s[m] # Undecided /\ ~Contradictory(s[m])
      /\ rows = UNION {list_rows(m, s[m]) : m \in G}
  BY PutIs
<1>3. ProperSet(Over(estate, targets))
  BY <1>1, <1>2, OverIs DEF ProperSet
<1>4. ASSUME NEW m \in G PROVE Answers(s[m], InForce(m, Over(estate, targets), estate))
  <2>1. s[m] = EffectiveAt(m, Over(estate, targets), estate) /\ s[m] # Undecided
    BY <1>2 DEF Together
  <2>2. m \in DOMAIN estate.table
    BY <1>2
  <2> HIDE DEF s
  <2> QED BY <1>1, <1>2, <1>3, <2>1, <2>2, ListInForce
<1> HIDE DEF s, rows, now, G
<1>5. n \in G
  BY DEF G
<1>6. \A m \in G : s[m] \in ListStates
  BY <1>4 DEF Answers
<1>7. ~(s[n].deny_all /\ s[n].allow_all)
  BY <1>2, <1>5 DEF Contradictory
<1>8. /\ Has(rows, n, "deny", v) <=> s[n].deny_all \/ v \in s[n].denied
      /\ Has(rows, n, "allow", v) /\ ~Has(rows, n, "deny", v)
              <=> /\ ~s[n].deny_all /\ v \notin s[n].denied
                  /\ s[n].allow_all \/ v \in s[n].allowed
  BY <1>2, <1>5, <1>6, <1>7, RowsSay
<1>9. /\ v \in now.Denied <=> s[n].deny_all \/ v \in s[n].denied
      /\ v \in now.Allowed <=> s[n].allow_all \/ v \in s[n].allowed
  BY <1>4, <1>5 DEF Answers, now
<1> QED BY <1>8, <1>9 DEF rows, now
\* A target that alters nothing on its own.
Inert(estate, t) ==
    \A n \in Universe(estate.table, t.node) :
        /\ EffectiveAt(n, estate.set, estate) # Undecided
        /\ EffectiveAt(n, Over(estate, <<t>>), estate) # Undecided
        /\ Canonical(EffectiveAt(n, estate.set, estate))
             = Canonical(EffectiveAt(n, Over(estate, <<t>>), estate))
AllInert(estate, targets) == \A i \in 1..Len(targets) : Inert(estate, targets[i])

LEMMA InertSays ==
  ASSUME NEW estate, NEW t, target_verdict(estate, t) = "inert"
  PROVE  Inert(estate, t)
BY DEF target_verdict, Inert

LEMMA VerdictsSay ==
  ASSUME NEW estate, NEW targets, Put(estate, targets),
         \A i \in DOMAIN check_org_effective(estate, targets) :
            check_org_effective(estate, targets)[i] = "inert"
  PROVE  AllInert(estate, targets)
<1>1. ~OutOfReach(estate, targets)
  BY PutIs
<1>2. check_org_effective(estate, targets)
        = [i \in 1..Len(targets) |-> target_verdict(estate, targets[i])]
  BY <1>1 DEF check_org_effective
<1>3. \A i \in 1..Len(targets) : target_verdict(estate, targets[i]) = "inert"
  BY <1>2
<1> QED BY <1>3, InertSays DEF AllInert

\* Where a chain meets a target, the target alone makes of what was there what
\* all of them make of it.
LEMMA TargetAlone ==
  ASSUME NEW estate, ProperEstate(estate), ~AnyBroken(estate.table),
         estate.record.value_type # "boolean", NEW t \in Target, Inert(estate, t),
         NEW n \in DOMAIN estate.table, NEW c, IsChain(estate.table, n, c),
         NEW i \in 1..Len(c), c[i] = t.node,
         NEW B, AreStates(B, c, estate.set, estate.record)
  PROVE  Alike(FoldPolicy(B[i - 1], t.policy, estate.record), B[i], estate.record)
<1> DEFINE table == estate.table
           rec == estate.record
           set == estate.set
           over == Over(estate, <<t>>)
           d == ancestry_chain(table, c[i])
<1>1. /\ Len(d) = i /\ \A j \in 1..i : d[j] = c[j]
      /\ IsChain(table, c[i], d) /\ c[i] \in DOMAIN table
  BY ChainBegins DEF ProperEstate
<1>2. Len(c) \in Nat /\ \A k, l \in 1..Len(c) : c[k] = c[l] => k = l
  BY DEF IsChain, IsWalk
<1>3. /\ \A m : m \in DOMAIN over <=> m \in DOMAIN set \/ m = t.node
      /\ over[t.node] = t.policy
      /\ \A m \in DOMAIN set : m # t.node => over[m] = set[m]
  BY OverOneIs
<1>4. c[i] \in Universe(table, t.node)
  BY DEF Universe
<1>5. /\ Resolved(StateAlong(d, set, rec), rec) # Undecided
      /\ Resolved(StateAlong(d, over, rec), rec) # Undecided
      /\ Canonical(Resolved(StateAlong(d, set, rec), rec))
           = Canonical(Resolved(StateAlong(d, over, rec), rec))
  BY <1>4 DEF Inert, EffectiveAt, Effective, effective_list
<1> HIDE DEF table, rec, set, over, d
<1>6. Len(d) \in Nat /\ i \in Nat /\ i >= 1 /\ i <= Len(c) /\ i \in 1..Len(d)
  BY <1>1, <1>2
<1>7. PICK A : AreStates(A, d, set, rec) /\ StateAlong(d, set, rec) = A[i]
  BY <1>1, <1>6, StatesAre
<1>8. PICK I : AreStates(I, d, over, rec) /\ StateAlong(d, over, rec) = I[i]
  BY <1>1, <1>6, StatesAre
<1>9. AreStates(B, c, set, rec)
  BY DEF set, rec
<1>10. A[i] = B[i]
  <2>1. Agree(d, set, c, set, i)
    BY <1>1 DEF Agree
  <2>2. AreStates(A, d, set, rec) /\ AreStates(B, c, set, rec)
    BY <1>7, <1>9
  <2>3. i \in Nat /\ i <= Len(d) /\ i <= Len(c) /\ Len(c) \in Nat /\ Len(d) \in Nat
    BY <1>1, <1>2, <1>6
  <2> QED BY <2>1, <2>2, <2>3, SameStates
<1>11. I[i - 1] = B[i - 1]
  <2> DEFINE k == i - 1
  <2>1. k \in Nat /\ k <= Len(d) /\ k <= Len(c)
    BY <1>6, <1>1
  <2>2. ASSUME NEW j \in 1..k
        PROVE  /\ d[j] = c[j]
               /\ d[j] \in DOMAIN over <=> c[j] \in DOMAIN set
               /\ d[j] \in DOMAIN over => over[d[j]] = set[c[j]]
    <3>1. j \in 1..i /\ j \in 1..Len(c) /\ j # i
      BY <1>6
    <3>2. d[j] = c[j] /\ d[j] # t.node
      BY <1>1, <1>2, <3>1
    <3> QED BY <1>3, <3>2
  <2> HIDE DEF k
  <2>3. Agree(d, over, c, set, k)
    BY <2>2 DEF Agree
  <2>4. I[k] = B[k]
    BY <1>2, <1>6, <1>8, <1>9, <2>1, <2>3, SameStates
  <2> QED BY <2>4 DEF k
<1>12. I[i] = FoldPolicy(B[i - 1], t.policy, rec)
  <2>1. I[i] = AtNode(I[i - 1], d[i], over, rec)
    BY <1>6, <1>8 DEF AreStates
  <2>2. d[i] = t.node
    BY <1>1, <1>6
  <2> QED BY <1>3, <1>11, <2>1, <2>2 DEF AtNode
<1>13. Alike(I[i], A[i], rec)
  BY <1>5, <1>7, <1>8 DEF Alike
<1> QED BY <1>10, <1>12, <1>13 DEF rec

\* Every state with the whole document in place reads like the one before it.
LEMMA StatesAlike ==
  ASSUME NEW estate, ProperEstate(estate), ~AnyBroken(estate.table),
         estate.record.value_type # "boolean", NEW targets \in Seq(Target), Apart(targets),
         AllInert(estate, targets),
         NEW n \in DOMAIN estate.table, NEW c, IsChain(estate.table, n, c),
         NEW B, AreStates(B, c, estate.set, estate.record),
         NEW J, AreStates(J, c, Over(estate, targets), estate.record), NEW k \in 0..Len(c)
  PROVE  Alike(J[k], B[k], estate.record)
<1> DEFINE rec == estate.record
           set == estate.set
           over == Over(estate, targets)
           Unlike == {j \in 0..Len(c) : ~Alike(J[j], B[j], rec)}
<1> SUFFICES ASSUME Unlike # {} PROVE FALSE
  OBVIOUS
<1> DEFINE m == Min(Unlike)
<1>1. m \in Unlike /\ \A j \in Unlike : m <= j
  <2>1. Unlike \subseteq Nat
    OBVIOUS
  <2> HIDE DEF Unlike
  <2> QED BY <2>1, SmallestNumber
<1>2. m # 0
  <2> HIDE DEF m
  <2>1. CASE m = 0
    <3>1. J[0] = B[0]
      BY DEF AreStates
    <3>2. Alike(J[0], B[0], rec)
      BY <3>1 DEF Alike
    <3> QED BY <1>1, <2>1, <3>2
  <2> QED BY <2>1
<1> HIDE DEF m
<1>3. Len(c) \in Nat
  BY DEF IsChain, IsWalk
<1>4. m \in 1..Len(c) /\ m - 1 \in 0..Len(c) /\ ~(m <= m - 1)
  BY <1>1, <1>2, <1>3
<1>5. Alike(J[m - 1], B[m - 1], rec)
  BY <1>1, <1>4
<1>6. /\ J[m] = AtNode(J[m - 1], c[m], over, rec)
      /\ B[m] = AtNode(B[m - 1], c[m], set, rec)
  BY <1>4 DEF AreStates
<1>7. /\ \A x : x \in DOMAIN over <=> \/ x \in DOMAIN set
                                      \/ \E i \in 1..Len(targets) : targets[i].node = x
      /\ \A i \in 1..Len(targets) : over[targets[i].node] = targets[i].policy
      /\ \A x \in DOMAIN set : (\A i \in 1..Len(targets) : targets[i].node # x) => over[x] = set[x]
      /\ \A x \in DOMAIN over : over[x] \in PolicySetting
  BY OverIs
<1>8. \A x \in DOMAIN set : set[x] \in PolicySetting
  BY DEF ProperEstate
<1> HIDE DEF over, set, rec, Unlike
<1>9. J[m - 1] \in States /\ B[m - 1] \in States
  <2>1. PoliciesAlong(c, over) /\ PoliciesAlong(c, set)
    BY <1>7, <1>8 DEF PoliciesAlong
  <2>2. AreStates(J, c, over, rec) /\ AreStates(B, c, set, rec)
    BY DEF over, set, rec
  <2>3. /\ StateInForce(J[m - 1], c, over, rec, m - 1)
        /\ StateInForce(B[m - 1], c, set, rec, m - 1)
    BY <1>3, <1>4, <2>1, <2>2, StatesInForce
  <2> QED BY <2>3, ResolvedInForce
<1>10. CASE \E i \in 1..Len(targets) : targets[i].node = c[m]
  <2>1. PICK i \in 1..Len(targets) : targets[i].node = c[m]
    BY <1>10
  <2> DEFINE t == targets[i]
             p == t.policy
  <2>2. t \in Target
    <3> DEFINE T == Target
    <3>1. targets \in Seq(T)
      OBVIOUS
    <3> HIDE DEF T
    <3> QED BY <3>1 DEF T
  <2>3. J[m] = FoldPolicy(J[m - 1], p, rec)
    BY <1>6, <1>7, <2>1 DEF AtNode
  <2>4. p \in PolicySetting
    BY <2>1, TargetsAre
  <2>5. Inert(estate, t)
    BY <2>1 DEF AllInert
  <2>6. c[m] = t.node
    BY <2>1
  <2> HIDE DEF t, p
  <2>7. Alike(FoldPolicy(J[m - 1], p, rec), FoldPolicy(B[m - 1], p, rec), rec)
    BY <1>5, <1>9, <2>4, FoldKeepsAlike
  <2>8. Alike(FoldPolicy(B[m - 1], t.policy, estate.record), B[m], estate.record)
    BY <1>4, <2>2, <2>5, <2>6, TargetAlone
  <2>9. Alike(FoldPolicy(B[m - 1], p, rec), B[m], rec)
    BY <2>8 DEF p, rec
  <2>10. Alike(J[m], B[m], rec)
    BY <2>3, <2>7, <2>9, AlikeIsTransitive
  <2> QED BY <1>1, <2>10 DEF Unlike
<1>11. CASE \A i \in 1..Len(targets) : targets[i].node # c[m]
  <2>1. c[m] \in DOMAIN over <=> c[m] \in DOMAIN set
    BY <1>7, <1>11
  <2>2. CASE c[m] \notin DOMAIN set
    <3>1. J[m] = J[m - 1] /\ B[m] = B[m - 1]
      BY <1>6, <2>1, <2>2 DEF AtNode
    <3> QED BY <1>1, <1>5, <3>1 DEF Unlike
  <2>3. CASE c[m] \in DOMAIN set
    <3>1. over[c[m]] = set[c[m]] /\ set[c[m]] \in PolicySetting
      BY <1>7, <1>8, <1>11, <2>3
    <3>2. /\ J[m] = FoldPolicy(J[m - 1], set[c[m]], rec)
          /\ B[m] = FoldPolicy(B[m - 1], set[c[m]], rec)
      BY <1>6, <2>1, <2>3, <3>1 DEF AtNode
    <3>3. Alike(J[m], B[m], rec)
      BY <1>5, <1>9, <3>1, <3>2, FoldKeepsAlike
    <3> QED BY <1>1, <3>3 DEF Unlike
  <2> QED BY <2>2, <2>3
<1> QED BY <1>10, <1>11
\* A boolean is what the nearest policy makes it.
Nearest(c, set, k) == k \in SetOn(c, set) /\ \A j \in SetOn(c, set) : j <= k

LEMMA NearestIs ==
  ASSUME NEW c, Len(c) \in Nat, NEW set
  PROVE  /\ SetOn(c, set) # {} => Nearest(c, set, Max(SetOn(c, set)))
         /\ \A k : Nearest(c, set, k) => k = Max(SetOn(c, set)) /\ SetOn(c, set) # {}
<1> DEFINE S == SetOn(c, set)
<1>1. S \in SUBSET (1..Len(c))
  BY DEF SetOn
<1> HIDE DEF S
<1>2. S # {} => Max(S) \in S /\ \A k \in S : k <= Max(S)
  BY <1>1, GreatestNumber
<1>3. ASSUME NEW k \in S, \A j \in S : j <= k PROVE k = Max(S) /\ S # {}
  <2> DEFINE m == Max(S)
  <2>1. S # {} /\ m \in S /\ k <= m
    BY <1>2, <1>3
  <2> HIDE DEF m
  <2>2. m <= k /\ k \in Nat /\ m \in Nat
    BY <1>1, <1>3, <2>1
  <2>3. k = m
    BY <2>1, <2>2
  <2> QED BY <2>1, <2>3 DEF m
<1> QED BY <1>2, <1>3 DEF Nearest, S

LEMMA SameNearest ==
  ASSUME NEW c, Len(c) \in Nat, NEW set, NEW other, NEW record,
         \/ SetOn(c, set) = {} /\ SetOn(c, other) = {}
         \/ \E k : Nearest(c, set, k) /\ Nearest(c, other, k) /\ set[c[k]] = other[c[k]]
  PROVE  effective_bool(c, set, record) = effective_bool(c, other, record)
<1>1. CASE SetOn(c, set) = {} /\ SetOn(c, other) = {}
  BY <1>1 DEF effective_bool
<1>2. CASE \E k : Nearest(c, set, k) /\ Nearest(c, other, k) /\ set[c[k]] = other[c[k]]
  <2>1. PICK k : Nearest(c, set, k) /\ Nearest(c, other, k) /\ set[c[k]] = other[c[k]]
    BY <1>2
  <2>2. /\ k = Max(SetOn(c, set)) /\ SetOn(c, set) # {}
        /\ k = Max(SetOn(c, other)) /\ SetOn(c, other) # {}
    BY <2>1, NearestIs
  <2>3. set[c[Max(SetOn(c, set))]] = other[c[Max(SetOn(c, other))]]
    BY <2>1, <2>2
  <2> QED BY <2>2, <2>3 DEF effective_bool
<1> QED BY <1>1, <1>2

LEMMA BooleansAlike ==
  ASSUME NEW estate, ProperEstate(estate), estate.record.value_type = "boolean",
         NEW targets \in Seq(Target), Apart(targets), AllInert(estate, targets),
         NEW n \in DOMAIN estate.table, NEW c, IsChain(estate.table, n, c)
  PROVE  Canonical(effective_bool(c, estate.set, estate.record))
           = Canonical(effective_bool(c, Over(estate, targets), estate.record))
<1> DEFINE rec == estate.record
           set == estate.set
           over == Over(estate, targets)
<1>1. Len(c) \in Nat /\ DOMAIN c = 1..Len(c) /\ c = ancestry_chain(estate.table, n)
  BY DEF IsChain, IsWalk
<1>2. /\ \A x : x \in DOMAIN over <=> \/ x \in DOMAIN set
                                      \/ \E i \in 1..Len(targets) : targets[i].node = x
      /\ \A i \in 1..Len(targets) : over[targets[i].node] = targets[i].policy
      /\ \A x \in DOMAIN set : (\A i \in 1..Len(targets) : targets[i].node # x) => over[x] = set[x]
  BY OverIs
<1> HIDE DEF over, set, rec
<1>3. SetOn(c, set) \subseteq SetOn(c, over)
  BY <1>2 DEF SetOn
<1>4. CASE SetOn(c, over) = {}
  <2>1. effective_bool(c, set, rec) = effective_bool(c, over, rec)
    BY <1>1, <1>3, <1>4, SameNearest
  <2> QED BY <2>1 DEF rec, set, over
<1>5. CASE SetOn(c, over) # {}
  <2> DEFINE k == Max(SetOn(c, over))
  <2>1. Nearest(c, over, k)
    BY <1>1, <1>5, NearestIs
  <2> HIDE DEF k
  <2>2. k \in 1..Len(c) /\ c[k] \in DOMAIN over /\ \A j \in SetOn(c, over) : j <= k
    BY <2>1 DEF Nearest, SetOn
  <2>3. CASE \A i \in 1..Len(targets) : targets[i].node # c[k]
    <3>1. c[k] \in DOMAIN set /\ over[c[k]] = set[c[k]]
      BY <1>2, <2>2, <2>3
    <3>2. k \in SetOn(c, set)
      BY <2>2, <3>1 DEF SetOn
    <3>3. Nearest(c, set, k)
      BY <1>3, <2>2, <3>2 DEF Nearest
    <3>4. effective_bool(c, set, rec) = effective_bool(c, over, rec)
      BY <1>1, <2>1, <3>1, <3>3, SameNearest
    <3> QED BY <3>4 DEF rec, set, over
  <2>4. CASE \E i \in 1..Len(targets) : targets[i].node = c[k]
    <3>1. PICK i \in 1..Len(targets) : targets[i].node = c[k]
      BY <2>4
    <3> DEFINE t == targets[i]
               one == Over(estate, <<t>>)
    <3>2. t \in Target
      <4> DEFINE T == Target
      <4>1. targets \in Seq(T)
        OBVIOUS
      <4> HIDE DEF T
      <4> QED BY <4>1 DEF T
    <3>3. over[c[k]] = t.policy
      BY <1>2, <3>1
    <3>4. Inert(estate, t) /\ t.node = c[k]
      BY <3>1 DEF AllInert
    <3> HIDE DEF t
    <3>5. /\ \A x : x \in DOMAIN one <=> x \in DOMAIN set \/ x = t.node
          /\ one[t.node] = t.policy
      BY <3>2, OverOneIs DEF set
    <3> HIDE DEF one
    <3>6. SetOn(c, one) \subseteq SetOn(c, over) /\ k \in SetOn(c, one)
      BY <1>2, <2>2, <3>4, <3>5 DEF SetOn
    <3>7. Nearest(c, one, k)
      BY <2>2, <3>6 DEF Nearest
    <3>8. effective_bool(c, one, rec) = effective_bool(c, over, rec)
      BY <1>1, <2>1, <3>3, <3>4, <3>5, <3>7, SameNearest
    <3>9. n \in Universe(estate.table, t.node)
      <4>1. c[k] \in Range(c)
        BY <1>1, <2>2 DEF Range
      <4> QED BY <1>1, <3>4, <4>1 DEF Universe
    <3>10. Canonical(effective_bool(c, set, rec)) = Canonical(effective_bool(c, one, rec))
      BY <1>1, <3>4, <3>9 DEF Inert, EffectiveAt, Effective, one, set, rec
    <3> QED BY <3>8, <3>10 DEF rec, set, over
  <2> QED BY <2>3, <2>4
<1> QED BY <1>4, <1>5

\* Nothing is changed by what changes nothing piece by piece.
LEMMA InertIsInert ==
  ASSUME NEW estate, NEW targets, Put(estate, targets), AllInert(estate, targets),
         NEW n \in Governed(estate, targets)
  PROVE  Canonical(EffectiveAt(n, estate.set, estate))
           = Canonical(EffectiveAt(n, Over(estate, targets), estate))
<1> DEFINE c == ancestry_chain(estate.table, n)
           rec == estate.record
           set == estate.set
           over == Over(estate, targets)
<1>1. /\ ProperEstate(estate) /\ targets \in Seq(Target) /\ Apart(targets)
      /\ ~AnyBroken(estate.table) /\ n \in DOMAIN estate.table
  BY PutIs DEF Put
<1>2. IsChain(estate.table, n, c)
  BY <1>1, ChainOf DEF ProperEstate
<1>3. CASE rec.value_type = "boolean"
  <2>1. /\ EffectiveAt(n, set, estate) = effective_bool(c, set, rec)
        /\ EffectiveAt(n, over, estate) = effective_bool(c, over, rec)
    BY <1>3 DEF EffectiveAt, Effective
  <2> HIDE DEF c
  <2> QED BY <1>1, <1>2, <1>3, <2>1, BooleansAlike
<1>4. CASE rec.value_type # "boolean"
  <2>1. /\ EffectiveAt(n, set, estate) = Resolved(StateAlong(c, set, rec), rec)
        /\ EffectiveAt(n, over, estate) = Resolved(StateAlong(c, over, rec), rec)
    BY <1>4 DEF EffectiveAt, Effective, effective_list
  <2> HIDE DEF c
  <2>2. Len(c) \in Nat /\ Len(c) \in 0..Len(c)
    BY <1>2 DEF IsChain, IsWalk
  <2>3. PICK B : AreStates(B, c, set, rec) /\ StateAlong(c, set, rec) = B[Len(c)]
    BY <2>2, StatesAre
  <2>4. PICK J : AreStates(J, c, over, rec) /\ StateAlong(c, over, rec) = J[Len(c)]
    BY <2>2, StatesAre
  <2>5. Alike(J[Len(c)], B[Len(c)], rec)
    BY <1>1, <1>2, <1>4, <2>2, <2>3, <2>4, StatesAlike
  <2>6. Canonical(Resolved(J[Len(c)], rec)) = Canonical(Resolved(B[Len(c)], rec))
    BY <2>5 DEF Alike
  <2> QED BY <2>1, <2>3, <2>4, <2>6
<1> QED BY <1>3, <1>4

\* A boolean that is decided is enforced exactly if the default or the one policy
\* in force enforces it.
EnforcedBy(c, set, record) ==
    \/ DefaultInForce(c, set, Len(c)) /\ record.default = "DENY"
    \/ \E r \in RulesInForce(c, set, Len(c)) : r.enforce = "true"

LEMMA BooleanPolicy ==
  ASSUME NEW p \in PolicySetting, BooleanShaped(p)
  PROVE  \E flag \in {"true", "false"} : /\ LocalBool(p) = Enforced(flag)
                                         /\ \A r \in RulesIn(p) : r.enforce = flag
                                         /\ RulesIn(p) # {}
<1> DEFINE flags == {r.enforce : r \in RulesIn(p)}
<1>1. p.rules \in Seq(RuleSetting) /\ p.rules # <<>>
  BY DEF PolicySetting, BooleanShaped
<1>2. p.rules[1] \in RulesIn(p) /\ Head(p.rules) = p.rules[1]
  BY <1>1 DEF RulesIn, Range
<1>3. ASSUME NEW r \in RulesIn(p) PROVE r.enforce \in {"true", "false"}
  <2>1. r \in RuleSetting
    BY RulesAre
  <2>2. r.enforce \in Flags
    BY <2>1 DEF RuleSetting
  <2>3. "enforce" \in Stated(r)
    BY DEF BooleanShaped
  <2> QED BY <2>2, <2>3 DEF Flags, Stated
<1>4. IsFiniteSet(flags) /\ Cardinality(flags) = 1
  <2>1. flags \in SUBSET {"true", "false"}
    BY <1>3
  <2>2. IsFiniteSet({"true"} \cup {"false"})
    BY FS_Singleton, FS_Union
  <2>3. {"true", "false"} = {"true"} \cup {"false"}
    OBVIOUS
  <2>4. IsFiniteSet(flags)
    BY <2>1, <2>2, <2>3, FS_Subset
  <2> QED BY <2>4 DEF BooleanShaped
<1>5. PICK flag : flags = {flag}
  BY <1>4, FS_Singleton
<1>6. \A r \in RulesIn(p) : r.enforce = flag
  BY <1>5
<1>7. LocalBool(p) = Enforced(flag) /\ flag \in {"true", "false"}
  BY <1>2, <1>3, <1>6 DEF LocalBool
<1> QED BY <1>2, <1>6, <1>7

LEMMA DefaultBoolIs ==
  ASSUME NEW record, DefaultBool(record) # Undecided
  PROVE  DefaultBool(record) = Enforced(IF record.default = "DENY" THEN "true" ELSE "false")
BY DEF DefaultBool

LEMMA BooleanInForce ==
  ASSUME NEW c, Len(c) \in Nat, NEW set, NEW record, PoliciesAlong(c, set),
         effective_bool(c, set, record) # Undecided
  PROVE  effective_bool(c, set, record)
           = Enforced(IF EnforcedBy(c, set, record) THEN "true" ELSE "false")
<1>1. CASE SetOn(c, set) = {}
  <2>1. Remaining(c, set, Len(c)) = {}
    BY <1>1 DEF Remaining, SetOn
  <2>2. RulesInForce(c, set, Len(c)) = {} /\ DefaultInForce(c, set, Len(c))
    BY <2>1 DEF RulesInForce, DefaultInForce
  <2>3. effective_bool(c, set, record) = DefaultBool(record)
    BY <1>1 DEF effective_bool
  <2> QED BY <2>2, <2>3, DefaultBoolIs DEF EnforcedBy
<1>2. CASE SetOn(c, set) # {}
  <2> DEFINE m == Max(SetOn(c, set))
  <2>1. PICK k : k = m
    OBVIOUS
  <2>2. Nearest(c, set, k)
    BY <1>2, <2>1, NearestIs
  <2>3. PICK p : p = set[c[k]]
    OBVIOUS
  <2>4. effective_bool(c, set, record)
          = CASE ~Gated(p) \/ p.inherit -> Undecided
              [] Gated(p) /\ ~p.inherit /\ p.reset -> DefaultBool(record)
              [] OTHER -> IF BooleanShaped(p) THEN LocalBool(p) ELSE Undecided
    BY <1>2, <2>1, <2>3 DEF effective_bool
  <2> HIDE DEF m
  <2>5. k \in 1..Len(c) /\ c[k] \in DOMAIN set /\ \A j \in SetOn(c, set) : j <= k
    BY <2>2 DEF Nearest, SetOn
  <2>6. p \in PolicySetting
    BY <2>3, <2>5 DEF PoliciesAlong
  <2>7. p.inherit \in BOOLEAN /\ p.reset \in BOOLEAN
    BY <2>6 DEF PolicySetting
  <2>8. Gated(p) /\ ~p.inherit /\ (~p.reset => BooleanShaped(p))
    <3>1. CASE ~Gated(p) \/ p.inherit
      BY <2>4, <3>1
    <3>2. CASE Gated(p) /\ ~p.inherit /\ ~p.reset /\ ~BooleanShaped(p)
      BY <2>4, <3>2
    <3> QED BY <3>1, <3>2
  <2>9. StartsAnew(p) /\ (p.reset => RulesIn(p) = {})
    <3>1. p.reset => RulesIn(p) = {}
      BY <2>6, <2>8, RulesAre DEF Gated
    <3>2. ~p.reset => p.rules # <<>>
      BY <2>8 DEF BooleanShaped
    <3> QED BY <2>8, <3>1, <3>2 DEF StartsAnew
  <2>10. Remaining(c, set, Len(c)) = {k}
    <3>1. ASSUME NEW i \in Remaining(c, set, Len(c)) PROVE i = k
      <4>1. i \in SetOn(c, set) /\ i \in 1..Len(c)
        BY <3>1 DEF Remaining, SetOn
      <4>2. i <= k
        BY <2>5, <4>1
      <4>3. ~(k \in (i + 1)..Len(c))
        BY <2>3, <2>5, <2>9, <3>1 DEF Remaining
      <4> QED BY <2>5, <4>1, <4>2, <4>3
    <3>2. k \in Remaining(c, set, Len(c))
      <4>1. ASSUME NEW j \in (k + 1)..Len(c), c[j] \in DOMAIN set PROVE FALSE
        <5>1. j \in 1..Len(c) /\ ~(j <= k)
          BY <2>5
        <5>2. j \in SetOn(c, set)
          BY <4>1, <5>1 DEF SetOn
        <5> QED BY <2>5, <5>1, <5>2
      <4> QED BY <2>5, <4>1 DEF Remaining
    <3> QED BY <3>1, <3>2
  <2>11. /\ RulesInForce(c, set, Len(c)) = RulesIn(p)
         /\ DefaultInForce(c, set, Len(c)) <=> p.reset
    BY <2>3, <2>9, <2>10 DEF RulesInForce, DefaultInForce
  <2>12. CASE p.reset
    <3>1. effective_bool(c, set, record) = DefaultBool(record)
      BY <2>4, <2>8, <2>12
    <3> QED BY <2>9, <2>11, <2>12, <3>1, DefaultBoolIs DEF EnforcedBy
  <2>13. CASE ~p.reset
    <3>1. effective_bool(c, set, record) = LocalBool(p)
      BY <2>4, <2>7, <2>8, <2>13
    <3>2. PICK flag \in {"true", "false"} : /\ LocalBool(p) = Enforced(flag)
                                            /\ \A r \in RulesIn(p) : r.enforce = flag
                                            /\ RulesIn(p) # {}
      BY <2>6, <2>8, <2>13, BooleanPolicy
    <3>3. (\E r \in RulesIn(p) : r.enforce = "true") <=> flag = "true"
      BY <3>2
    <3>4. EnforcedBy(c, set, record) <=> flag = "true"
      BY <2>11, <2>13, <3>3 DEF EnforcedBy
    <3> QED BY <3>1, <3>2, <3>4
  <2> QED BY <2>7, <2>12, <2>13
<1> QED BY <1>1, <1>2

\* The rows of a boolean say whether it is enforced.
LEMMA BooleanRowsAreInForce ==
  ASSUME NEW estate, NEW targets, Put(estate, targets), estate.record.value_type = "boolean",
         NEW n \in Governed(estate, targets), NEW flag \in {"true", "false"}
  PROVE  [node |-> n, enforce |-> flag] \in effective_records(estate, targets).rows
           <=> (flag = "true") = EnforcedAt(n, Over(estate, targets), estate)
<1> DEFINE G == Governed(estate, targets)
           says(m) == IF EnforcedBy(ancestry_chain(estate.table, m), Over(estate, targets),
                                    estate.record)
                      THEN "true" ELSE "false"
           rows == effective_records(estate, targets).rows
<1>1. ProperEstate(estate) /\ targets \in Seq(Target)
  BY DEF Put
<1>2. /\ ~AnyBroken(estate.table) /\ Apart(targets) /\ G \subseteq DOMAIN estate.table
      /\ \A m \in G : Together(estate, targets, m) # Undecided
      /\ rows = {[node |-> m, enforce |-> Together(estate, targets, m).enforce] : m \in G}
  BY PutIs
<1>3. ASSUME NEW m \in G PROVE Together(estate, targets, m).enforce = says(m)
  <2> DEFINE c == ancestry_chain(estate.table, m)
             over == Over(estate, targets)
  <2>1. IsChain(estate.table, m, c)
    BY <1>1, <1>2, ChainOf DEF ProperEstate
  <2>2. Together(estate, targets, m) = effective_bool(c, over, estate.record)
    BY DEF Together, EffectiveAt, Effective
  <2>3. PoliciesAlong(c, over)
    BY <1>1, <1>2, OverIs DEF PoliciesAlong
  <2> HIDE DEF c, over
  <2>4. Len(c) \in Nat
    BY <2>1 DEF IsChain, IsWalk
  <2>5. effective_bool(c, over, estate.record)
          = Enforced(IF EnforcedBy(c, over, estate.record) THEN "true" ELSE "false")
    BY <1>2, <2>2, <2>3, <2>4, BooleanInForce
  <2>6. Together(estate, targets, m).enforce
          = IF EnforcedBy(c, over, estate.record) THEN "true" ELSE "false"
    BY <2>2, <2>5 DEF Enforced
  <2> QED BY <2>6 DEF c, over
<1>4. EnforcedAt(n, Over(estate, targets), estate)
        <=> EnforcedBy(ancestry_chain(estate.table, n), Over(estate, targets), estate.record)
  BY DEF EnforcedAt, EnforcedBy
<1>5. says(n) \in {"true", "false"} /\ (says(n) = "true" <=> EnforcedAt(n, Over(estate, targets), estate))
  BY <1>4
<1> HIDE DEF says, rows, G
<1>6. rows = {[node |-> m, enforce |-> says(m)] : m \in G}
  BY <1>2, <1>3
<1>7. n \in G
  BY DEF G
<1>8. [node |-> n, enforce |-> flag] \in rows <=> flag = says(n)
  BY <1>6, <1>7
<1>9. flag = says(n) <=> (flag = "true") = EnforcedAt(n, Over(estate, targets), estate)
  <2>1. EnforcedAt(n, Over(estate, targets), estate) \in BOOLEAN
    BY DEF EnforcedAt
  <2> QED BY <1>5, <2>1
<1> QED BY <1>8, <1>9 DEF rows

LEMMA OrgRowsRight ==
  ASSUME NEW estate, NEW targets, Put(estate, targets)
  PROVE  TrueOfRows(estate, targets, effective_records(estate, targets),
                    check_org_effective(estate, targets))
<1> DEFINE rows == effective_records(estate, targets).rows
           verdicts == check_org_effective(estate, targets)
           nodes == UNION {Universe(estate.table, t.node) : t \in Range(targets)}
           has(n, polarity, v) == Row(n, polarity, v) \in rows \/ RowOfAll(n, polarity) \in rows
<1>1. nodes = Governed(estate, targets)
  <2>1. DOMAIN targets = 1..Len(targets)
    BY TargetsAre DEF Put
  <2> QED BY <2>1 DEF Governed, Range
<1>2. ASSUME estate.record.value_type = "list", NEW n \in nodes, NEW v \in Values
      PROVE  LET now == InForce(n, Over(estate, targets), estate)
             IN /\ has(n, "deny", v) <=> v \in now.Denied
                /\ has(n, "allow", v) /\ ~has(n, "deny", v) <=> v \in now.Allowed \ now.Denied
  <2>1. n \in Governed(estate, targets)
    BY <1>1
  <2> HIDE DEF nodes
  <2> QED BY <1>2, <2>1, RowsAreInForce DEF Has
<1>3. ASSUME \A i \in DOMAIN verdicts : verdicts[i] = "inert", NEW n \in nodes
      PROVE  Canonical(EffectiveAt(n, estate.set, estate))
               = Canonical(EffectiveAt(n, Over(estate, targets), estate))
  <2>1. AllInert(estate, targets)
    BY <1>3, VerdictsSay
  <2>2. n \in Governed(estate, targets)
    BY <1>1
  <2> HIDE DEF nodes, verdicts
  <2> QED BY <2>1, <2>2, InertIsInert
<1>4. ASSUME estate.record.value_type = "boolean", NEW n \in nodes, NEW flag \in {"true", "false"}
      PROVE  [node |-> n, enforce |-> flag] \in rows
               <=> (flag = "true") = EnforcedAt(n, Over(estate, targets), estate)
  <2>1. n \in Governed(estate, targets)
    BY <1>1
  <2> HIDE DEF nodes
  <2> QED BY <1>4, <2>1, BooleanRowsAreInForce
<1> QED BY <1>2, <1>3, <1>4 DEF TrueOfRows

\* Whatever is captured and proposed: the rows the requirements are checked on
\* say of every value, and of a boolean, what is in force with the whole document
\* applied, and a document whose every change is called inert on its own changes
\* nothing as a whole (org_effective.py:474, 501, 539, 994).
THEOREM RowsAreRight == AskSpec => []OrgRowsAreTrue
<1>1. Unasked => OrgRowsAreTrue
  BY DEF Unasked, Nothing, OrgRowsAreTrue
<1>2. QuestionIsRead /\ OrgRowsAreTrue /\ [AskNext]_asked => OrgRowsAreTrue'
  <2> SUFFICES ASSUME QuestionIsRead, OrgRowsAreTrue, [AskNext]_asked PROVE OrgRowsAreTrue'
    OBVIOUS
  <2>1. CASE asked' = asked
    BY <2>1 DEF OrgRowsAreTrue
  <2>2. CASE AskOrgDocument
    <3>1. /\ asked.table \in OrgTables /\ asked.set \in OrgSettings
          /\ asked.record.value_type \in ValueTypes
      BY <2>2 DEF AskOrgDocument, QuestionIsRead, PoliciesAreRead
    <3>2. PICK targets \in OrgDocuments :
            asked' = [of |-> "policy-document", estate |-> asked, targets |-> targets,
                      records |-> effective_records(asked, targets),
                      verdicts |-> check_org_effective(asked, targets)]
      BY <2>2 DEF AskOrgDocument
    <3>3. /\ asked'.targets = targets /\ asked'.estate = asked
          /\ asked'.records = effective_records(asked, targets)
          /\ asked'.verdicts = check_org_effective(asked, targets)
      BY <3>2
    <3>4. ProperEstate(asked) /\ targets \in Seq(Target)
      BY <3>1, OrgAssumption DEF ProperEstate, Target
    <3>5. effective_records(asked, targets) # Undecided =>
            TrueOfRows(asked, targets, effective_records(asked, targets),
                       check_org_effective(asked, targets))
      BY <3>4, OrgRowsRight DEF Put
    <3> QED BY <3>3, <3>5 DEF OrgRowsAreTrue
  <2>3. CASE asked'.of # "policy-document"
    BY <2>3 DEF OrgRowsAreTrue
  <2> QED BY <2>1, <2>2, <2>3, AskedBy
<1> QED BY <1>1, <1>2, QuestionsAreRead, PTL DEF AskSpec
-----------------------------------------------------------------------------
(* Roles that can escalate, and denials of them.                           *)

\* What a document of the right shape claims at the place of a binding is
\* what that binding claims: its role, and each of its members.
IamDocument(d) ==
  \A b, c \in d.bindings : IamBinding(b) /\ (b.place = c.place => b = c)

LEMMA KindsAre ==
  ASSUME NEW m
  PROVE  /\ MemberKind(m) # "role"
         /\ (MemberKind(m) = "public_principal") <=> m \in PublicMembers
         /\ MemberKind(m) \notin {"public_principal", "unmodelled_principal"} => m \in People
<1>1. PublicMembers \cap People = {}
  BY EscalationAssumption DEF EscalationAssumption
<1>2. CASE m \in PublicMembers
  <2>1. m \notin People
    BY <1>1, <1>2
  <2>2. MemberKind(m) = "public_principal"
    BY <1>2, <2>1 DEF MemberKind
  <2> QED BY <1>2, <2>2
<1>3. CASE m \notin PublicMembers /\ m \in People
  <2>1. MemberKind(m) = "principal"
    BY <1>3 DEF MemberKind
  <2> QED BY <1>3, <2>1
<1>4. CASE m \notin PublicMembers /\ m \notin People
  <2>1. MemberKind(m) = "unmodelled_principal"
    BY <1>4 DEF MemberKind
  <2> QED BY <1>4, <2>1
<1> QED BY <1>2, <1>3, <1>4

LEMMA RoleClaimed ==
  ASSUME NEW d, IamDocument(d), NEW b \in d.bindings, NEW c \in iam_policy_claims(d),
         c.place = b.place, c.kind = "role"
  PROVE  b.form # "odd" /\ c.value = b.role
<1>1. PICK e \in d.bindings : c \in BindingClaims(e)
  BY DEF iam_policy_claims
<1>2. e.form # "odd"
  BY <1>1 DEF BindingClaims
<1>3. c \notin {IamClaim(MemberKind(m), m, e.place) : m \in e.members}
  BY KindsAre DEF IamClaim
<1>4. c \in {IamClaim("role", r, e.place) : r \in {e.role} \ {"odd"}}
  BY <1>1, <1>2, <1>3 DEF BindingClaims
<1>5. c.value = e.role /\ c.place = e.place
  BY <1>4 DEF IamClaim
<1>6. e = b
  BY <1>5 DEF IamDocument
<1> QED BY <1>2, <1>5, <1>6

LEMMA MembersClaimed ==
  ASSUME NEW d, IamDocument(d), NEW b \in d.bindings, b.form # "odd"
  PROVE  BoundMembers(iam_policy_claims(d), b.place)
           = {IamClaim(MemberKind(m), m, b.place) : m \in b.members}
<1> DEFINE claims == iam_policy_claims(d)
           mine == {IamClaim(MemberKind(m), m, b.place) : m \in b.members}
<1>1. ASSUME NEW c \in BoundMembers(claims, b.place) PROVE c \in mine
  <2>1. c \in claims /\ c.kind # "role" /\ c.place = b.place
    BY <1>1 DEF BoundMembers
  <2>2. PICK e \in d.bindings : c \in BindingClaims(e)
    BY <2>1 DEF iam_policy_claims
  <2>3. c.place = e.place
    BY <2>2 DEF BindingClaims, IamClaim
  <2>4. e = b
    BY <2>1, <2>3 DEF IamDocument
  <2>5. c \notin {IamClaim("role", r, b.place) : r \in {b.role} \ {"odd"}}
    BY <2>1 DEF IamClaim
  <2> QED BY <2>2, <2>4, <2>5 DEF BindingClaims
<1>2. ASSUME NEW c \in mine PROVE c \in BoundMembers(claims, b.place)
  <2>1. c \in BindingClaims(b)
    BY <1>2 DEF BindingClaims
  <2>2. c \in claims
    BY <2>1 DEF iam_policy_claims
  <2>3. c.kind # "role" /\ c.place = b.place
    BY <1>2, KindsAre DEF IamClaim
  <2> QED BY <2>2, <2>3 DEF BoundMembers
<1> HIDE DEF mine
<1>3. BoundMembers(claims, b.place) = mine
  BY <1>1, <1>2
<1> QED BY <1>3 DEF mine

\* The verdict on the role of a binding.
LEMMA VerdictIs ==
  ASSUME NEW d, IamDocument(d), NEW captured \in BOOLEAN, NEW b \in d.bindings,
         NEW c \in iam_policy_claims(d), c.place = b.place, c.kind = "role",
         NEW s \in EscalationVerdict(c, iam_policy_claims(d), d, captured)
  PROVE  /\ b.form # "odd" /\ c.value = b.role
         /\ s = "contradicted" => /\ b.role \in DOMAIN PermissionsOf
                                  /\ EscalationHits(b.role) # {}
                                  /\ b.members \cap PublicMembers # {}
         /\ s = "nobody" => b.members = {} /\ b.listed
<1>1. b.form # "odd" /\ c.value = b.role
  BY RoleClaimed
<1> DEFINE bound == BoundMembers(iam_policy_claims(d), c.place)
<1>2. bound = {IamClaim(MemberKind(m), m, b.place) : m \in b.members}
  BY <1>1, MembersClaimed
<1>3. (\E x \in bound : x.kind = "public_principal") => b.members \cap PublicMembers # {}
  BY <1>2, KindsAre DEF IamClaim
<1>4. bound = {} => b.members = {}
  BY <1>2
<1>5. NoUsableMembers(bound, c.place, d) = "nobody" => bound = {} /\ b.listed
  BY DEF NoUsableMembers, BindingMembers
<1>6. NoUsableMembers(bound, c.place, d) \in {"nobody", "unverified"}
  BY DEF NoUsableMembers
<1> HIDE DEF bound
<1>7. CASE d.anchor = "elsewhere" \/ ~captured
  <2>1. s = "unverified"
    BY <1>7 DEF EscalationVerdict
  <2> QED BY <1>1, <2>1
<1>8. CASE ~(d.anchor = "elsewhere" \/ ~captured)
  <2>1. s \in (IF c.value \notin DOMAIN PermissionsOf THEN {}
               ELSE IF PermissionsOf[c.value] = {} THEN {"unverified"}
               ELSE IF EscalationHits(c.value) = {} THEN {}
               ELSE IF \E x \in bound : x.kind = "public_principal" THEN {"contradicted"}
               ELSE IF {x \in bound : x.kind # "unmodelled_principal"} # {} THEN {"review"}
               ELSE {NoUsableMembers(bound, c.place, d)})
    BY <1>8 DEF EscalationVerdict, bound
  <2> QED BY <1>1, <1>3, <1>4, <1>5, <1>6, <2>1
<1> QED BY <1>7, <1>8

LEMMA BindingsRight ==
  ASSUME NEW d, IamDocument(d), NEW captured \in BOOLEAN, NEW b \in d.bindings,
         "odd" \notin DOMAIN PermissionsOf
  PROVE  TrueOfBinding(b, d, captured, check_escalation(d, captured))
<1> DEFINE claims == iam_policy_claims(d)
           roles == {c \in claims : c.kind = "role"}
           says == check_escalation(d, captured)
           said == {v.says : v \in {u \in says : u.place = b.place}}
           escalates == /\ b.form # "odd" /\ b.role \in DOMAIN PermissionsOf
                        /\ EscalationHits(b.role) # {}
           mine == IamClaim("role", b.role, b.place)
<1>1. ASSUME NEW s \in said
      PROVE  \/ s = "unverified"
             \/ \E c \in roles : c.place = b.place /\ s \in EscalationVerdict(c, claims, d, captured)
  <2>1. PICK v \in says : v.place = b.place /\ s = v.says
    BY <1>1
  <2>2. CASE roles = {}
    <3>1. v \in {[role |-> "any", place |-> 0, says |-> x] : x \in no_role_claims(d)}
      BY <2>1, <2>2 DEF check_escalation
    <3>2. no_role_claims(d) \subseteq {"unverified"}
      BY DEF no_role_claims
    <3> QED BY <2>1, <3>1, <3>2
  <2>3. CASE roles # {}
    <3>1. PICK c \in roles : v \in {[role |-> c.value, place |-> c.place, says |-> x] :
                                    x \in EscalationVerdict(c, claims, d, captured)}
      BY <2>1, <2>3 DEF check_escalation
    <3>2. v.place = c.place /\ v.says \in EscalationVerdict(c, claims, d, captured)
      BY <3>1
    <3> QED BY <2>1, <3>2
  <2> QED BY <2>2, <2>3
<1>2. ASSUME escalates
      PROVE  mine \in roles /\ mine.place = b.place /\ mine.value = b.role
  <2>1. mine \in BindingClaims(b)
    BY <1>2 DEF BindingClaims
  <2> QED BY <2>1 DEF iam_policy_claims, IamClaim
<1>3. ASSUME escalates, NEW s \in EscalationVerdict(mine, claims, d, captured)
      PROVE  s \in said
  <2>1. roles # {}
    BY <1>2, <1>3
  <2> DEFINE v == [role |-> mine.value, place |-> mine.place, says |-> s]
  <2>2. v \in says
    BY <1>2, <1>3, <2>1 DEF check_escalation
  <2>3. v.place = b.place /\ v.says = s
    BY <1>2, <1>3
  <2> HIDE DEF v, says
  <2> QED BY <2>2, <2>3
<1>4. ASSUME escalates
      PROVE  /\ EscalationVerdict(mine, claims, d, captured) # {}
             /\ b.members \cap PublicMembers # {} /\ captured /\ d.anchor # "elsewhere"
                  /\ PermissionsOf[b.role] # {}
                  => "contradicted" \in EscalationVerdict(mine, claims, d, captured)
  <2>1. BoundMembers(claims, b.place) = {IamClaim(MemberKind(m), m, b.place) : m \in b.members}
    BY <1>4, MembersClaimed
  <2>2. ASSUME b.members \cap PublicMembers # {}
        PROVE  \E x \in BoundMembers(claims, b.place) : x.kind = "public_principal"
    <3>1. PICK m \in b.members : m \in PublicMembers
      BY <2>2
    <3>2. IamClaim(MemberKind(m), m, b.place).kind = "public_principal"
      BY <3>1, KindsAre DEF IamClaim
    <3> QED BY <2>1, <3>1, <3>2
  <2>3. mine.value = b.role /\ mine.place = b.place
    BY <1>2, <1>4
  <2> HIDE DEF mine, claims
  <2> QED BY <1>4, <2>2, <2>3 DEF EscalationVerdict
<1>5. ASSUME "contradicted" \in said PROVE escalates /\ b.members \cap PublicMembers # {}
  <2>1. PICK c \in roles : /\ c.place = b.place
                           /\ "contradicted" \in EscalationVerdict(c, claims, d, captured)
    BY <1>1, <1>5
  <2> QED BY <2>1, VerdictIs
<1>6. ASSUME "nobody" \in said PROVE b.members = {} /\ b.listed
  <2>1. PICK c \in roles : /\ c.place = b.place
                           /\ "nobody" \in EscalationVerdict(c, claims, d, captured)
    BY <1>1, <1>6
  <2> QED BY <2>1, VerdictIs
<1>7. escalates => said # {}
  BY <1>3, <1>4
<1>8. ASSUME escalates, b.members \cap PublicMembers # {}, captured, d.anchor # "elsewhere",
             PermissionsOf[b.role] # {}
      PROVE  "contradicted" \in said
  BY <1>3, <1>4, <1>8
<1> HIDE DEF said
<1> QED BY <1>5, <1>6, <1>7, <1>8 DEF TrueOfBinding, said

LEMMA DenialsRight ==
  ASSUME NEW rule
  PROVE  TrueOfDenial(rule, DenialVerdicts(rule))
<1> SUFFICES ASSUME NEW v \in DenialVerdicts(rule), v.says = "blocks"
             PROVE  /\ v.of \in EscalationPermissions \cap rule.permissions
                    /\ rule.exceptions \subseteq People
  BY DEF TrueOfDenial
<1>1. ASSUME NEW claim PROVE check_public_principal(claim) # "blocks"
  BY DEF check_public_principal
<1> DEFINE carved(q) == check_denied_permission(q, TRUE, rule)
<1>2. ASSUME NEW q PROVE carved(q) # "blocks"
  BY DEF check_denied_permission
<1>3. PICK p \in rule.permissions : v = [of |-> p, says |-> check_denied_permission(p, FALSE, rule)]
  <2> DEFINE principals(s, e) ==
               {[of |-> m, says |-> check_public_principal([polarity |-> "deny", excepted |-> e])] :
                  m \in s \cap PublicMembers}
  <2>1. v \notin principals(rule.denied, FALSE) /\ v \notin principals(rule.exceptions, TRUE)
    BY <1>1
  <2>2. v \notin {[of |-> q, says |-> carved(q)] : q \in rule.excepted}
    <3> HIDE DEF carved
    <3> QED BY <1>2
  <2>3. v \in {[of |-> q, says |-> check_denied_permission(q, FALSE, rule)] : q \in rule.permissions}
    BY <2>1, <2>2 DEF DenialVerdicts
  <2> QED BY <2>3
<1>4. check_denied_permission(p, FALSE, rule) = "blocks" /\ v.of = p
  BY <1>3
<1>5. p \in EscalationPermissions
  BY <1>4 DEF check_denied_permission
<1>6. ExceptionDefect(rule) \subseteq {"contradicted", "unverified"}
  BY DEF ExceptionDefect
<1>7. ExceptionDefect(rule) = {}
  <2> SUFFICES ASSUME ExceptionDefect(rule) # {} PROVE FALSE
    OBVIOUS
  <2>1. (CHOOSE s \in ExceptionDefect(rule) : TRUE) \in ExceptionDefect(rule)
    OBVIOUS
  <2>2. (CHOOSE s \in ExceptionDefect(rule) : TRUE) # "blocks"
    BY <1>6, <2>1
  <2> QED BY <1>4, <2>2 DEF check_denied_permission
<1>8. ASSUME NEW m \in rule.exceptions PROVE m \in People
  <2>1. MemberKind(m) \notin {"public_principal", "unmodelled_principal"}
    BY <1>7 DEF ExceptionDefect
  <2> QED BY <2>1, KindsAre
<1> QED BY <1>3, <1>4, <1>5, <1>8

\* Whatever is bound and denied: an escalation is called public exactly where a
\* public member is given a role that escalates, "nobody" only of an empty list,
\* and is passed over nowhere; no denial is said to block that exempts, as far
\* as its exceptions were read, anybody but known people
\* (iam_checks.py:306, 393, 556).
THEOREM EscalationsAreRight == AskSpec => []EscalationIsTrue
<1>1. Unasked => EscalationIsTrue
  BY DEF Unasked, Nothing, EscalationIsTrue
<1>2. QuestionIsRead /\ EscalationIsTrue /\ [AskNext]_asked => EscalationIsTrue'
  <2> SUFFICES ASSUME QuestionIsRead, EscalationIsTrue, [AskNext]_asked PROVE EscalationIsTrue'
    OBVIOUS
  <2>1. CASE asked' = asked
    BY <2>1 DEF EscalationIsTrue
  <2>2. CASE AskEscalation
    <3>1. PICK d \in IamDocuments, captured \in BOOLEAN :
            asked' = [of |-> "escalation", document |-> d, captured |-> captured,
                      says |-> check_escalation(d, captured)]
      BY <2>2 DEF AskEscalation
    <3>2. /\ asked'.of = "escalation" /\ asked'.document = d /\ asked'.captured = captured
          /\ asked'.says = check_escalation(d, captured)
      BY <3>1
    <3>3. IamDocument(d) /\ "odd" \notin DOMAIN PermissionsOf
      BY EscalationAssumption DEF EscalationAssumption, IamDocument
    <3>4. \A b \in d.bindings : TrueOfBinding(b, d, captured, check_escalation(d, captured))
      BY <3>3, BindingsRight
    <3> QED BY <3>2, <3>4 DEF EscalationIsTrue
  <2>3. CASE AskDenial
    <3>1. PICK rule \in IamDenials :
            asked' = [of |-> "denial", rule |-> rule, says |-> DenialVerdicts(rule)]
      BY <2>3 DEF AskDenial
    <3>2. asked'.of = "denial" /\ asked'.rule = rule /\ asked'.says = DenialVerdicts(rule)
      BY <3>1
    <3> QED BY <3>2, DenialsRight DEF EscalationIsTrue
  <2>4. CASE asked'.of \notin {"escalation", "denial"}
    BY <2>4 DEF EscalationIsTrue
  <2> QED BY <2>1, <2>2, <2>3, <2>4, AskedBy
<1> QED BY <1>1, <1>2, QuestionsAreRead, PTL DEF AskSpec

-----------------------------------------------------------------------------
(* Rules of several levels.                                                *)

\* A fold each step of which keeps what it does not settle: the first step
\* that settles an element says whether it is in.
SettledBy(t, p, settled) == {k \in t : p \in settled[k]}
FirstSay(t, settled, said, base) ==
    {p \in base \cup UNION {said[k] : k \in t} :
        IF SettledBy(t, p, settled) = {} THEN p \in base
        ELSE p \in said[Min(SettledBy(t, p, settled))]}
FoldsBy(g, n, settled, said, base) ==
    g = [t \in SUBSET (1..n) |->
            IF t = {} THEN base
            ELSE (g[t \ {Min(t)}] \ settled[Min(t)]) \cup said[Min(t)]]

LEMMA FirstSayIs ==
  ASSUME NEW settled, NEW said, NEW base, NEW t, t \subseteq Nat, NEW p
  PROVE  p \in FirstSay(t, settled, said, base)
           <=> IF SettledBy(t, p, settled) = {} THEN p \in base
               ELSE p \in said[Min(SettledBy(t, p, settled))]
<1> DEFINE hits == SettledBy(t, p, settled)
<1>1. p \in FirstSay(t, settled, said, base)
        <=> /\ p \in base \cup UNION {said[k] : k \in t}
            /\ IF hits = {} THEN p \in base ELSE p \in said[Min(hits)]
  BY DEF FirstSay
<1>2. CASE hits = {}
  BY <1>1, <1>2
<1>3. CASE hits # {}
  <2>1. hits \subseteq Nat /\ hits \subseteq t
    BY DEF SettledBy
  <2> HIDE DEF hits
  <2>2. Min(hits) \in t
    BY <1>3, <2>1, SmallestNumber
  <2>3. said[Min(hits)] \subseteq UNION {said[k] : k \in t}
    BY <2>2
  <2> QED BY <1>1, <1>3, <2>3 DEF hits
<1> QED BY <1>2, <1>3

LEMMA FirstSays ==
  ASSUME NEW n \in Nat, NEW settled, NEW said, NEW base,
         \A k \in 1..n : said[k] \subseteq settled[k]
  PROVE  /\ \E g : FoldsBy(g, n, settled, said, base)
         /\ \A g : FoldsBy(g, n, settled, said, base) =>
               g[1..n] = FirstSay(1..n, settled, said, base)
<1> DEFINE D == 1..n
           f == [t \in SUBSET D |-> FirstSay(t, settled, said, base)]
           step(m, e) == (e \ settled[m]) \cup said[m]
<1>2. ASSUME NEW t \in SUBSET D, t # {}
      PROVE  FirstSay(t, settled, said, base)
               = step(Min(t), FirstSay(t \ {Min(t)}, settled, said, base))
  <2> DEFINE m == Min(t)
             u == t \ {m}
  <2>0. t \subseteq Nat
    OBVIOUS
  <2>1. m \in t /\ \A k \in t : m <= k
    BY <1>2, <2>0, SmallestNumber
  <2>2. said[m] \subseteq settled[m] /\ u \in SUBSET D
    BY <2>1
  <2> SUFFICES ASSUME NEW p
               PROVE  p \in FirstSay(t, settled, said, base)
                        <=> p \in step(m, FirstSay(u, settled, said, base))
    OBVIOUS
  <2> DEFINE hits(v) == SettledBy(v, p, settled)
  <2>3. \A v \in SUBSET D :
          p \in FirstSay(v, settled, said, base)
            <=> IF hits(v) = {} THEN p \in base ELSE p \in said[Min(hits(v))]
    <3> SUFFICES ASSUME NEW v \in SUBSET D
                 PROVE  p \in FirstSay(v, settled, said, base)
                          <=> IF hits(v) = {} THEN p \in base ELSE p \in said[Min(hits(v))]
      OBVIOUS
    <3>1. v \subseteq Nat
      OBVIOUS
    <3> QED BY <3>1, FirstSayIs
  <2>4. \A k : k \in hits(t) <=> k \in t /\ p \in settled[k]
    BY DEF SettledBy
  <2>5. \A k : k \in hits(u) <=> k \in hits(t) /\ k # m
    BY DEF SettledBy
  <2> HIDE DEF hits, m, u
  <2>6. CASE p \in settled[m]
    <3>1. m \in hits(t) /\ hits(t) \subseteq Nat /\ \A k \in hits(t) : m <= k
      BY <2>0, <2>1, <2>4, <2>6
    <3>2. Min(hits(t)) \in hits(t) /\ Min(hits(t)) <= m
      BY <3>1, SmallestNumber
    <3>3. Min(hits(t)) = m
      <4>1. Min(hits(t)) \in Nat /\ m <= Min(hits(t)) /\ m \in Nat
        BY <3>1, <3>2
      <4> QED BY <3>2, <4>1
    <3>4. p \in FirstSay(t, settled, said, base) <=> p \in said[m]
      BY <2>3, <3>1, <3>3
    <3> QED BY <2>6, <3>4
  <2>7. CASE p \notin settled[m]
    <3>1. hits(u) = hits(t)
      BY <2>4, <2>5, <2>7
    <3>2. p \in step(m, FirstSay(u, settled, said, base))
            <=> p \in FirstSay(u, settled, said, base)
      BY <2>2, <2>7
    <3>3. p \in FirstSay(u, settled, said, base) <=> p \in FirstSay(t, settled, said, base)
      BY <2>2, <2>3, <3>1
    <3> QED BY <3>2, <3>3
  <2> QED BY <2>6, <2>7
<1>3. FirstSay({}, settled, said, base) = base
  BY DEF FirstSay, SettledBy
<1>4. FoldsBy(f, n, settled, said, base)
  <2> SUFFICES ASSUME NEW t \in SUBSET D
               PROVE  f[t] = IF t = {} THEN base ELSE step(Min(t), f[t \ {Min(t)}])
    BY DEF FoldsBy
  <2>1. t \ {Min(t)} \in SUBSET D
    OBVIOUS
  <2> HIDE DEF D, step
  <2> QED BY <1>2, <1>3, <2>1
<1>5. ASSUME NEW g, FoldsBy(g, n, settled, said, base)
      PROVE  g[1..n] = FirstSay(1..n, settled, said, base)
  <2>1. IsFiniteSet(D)
    BY FS_Interval
  <2>2. ASSUME NEW t \in SUBSET D, \A u \in SUBSET D : u \subseteq t /\ u # t => f[u] = g[u]
        PROVE  f[t] = g[t]
    <3>1. CASE t = {}
      BY <1>4, <1>5, <3>1 DEF FoldsBy
    <3>2. CASE t # {}
      <4>1. t \subseteq Nat /\ Min(t) \in t
        <5>1. t \subseteq Nat
          OBVIOUS
        <5> QED BY <3>2, <5>1, SmallestNumber
      <4>2. t \ {Min(t)} \in SUBSET D /\ t \ {Min(t)} \subseteq t /\ t \ {Min(t)} # t
        BY <4>1
      <4>3. f[t \ {Min(t)}] = g[t \ {Min(t)}]
        <5> HIDE DEF f, D
        <5> QED BY <2>2, <4>2
      <4>4. /\ f[t] = step(Min(t), f[t \ {Min(t)}])
            /\ g[t] = step(Min(t), g[t \ {Min(t)}])
        <5>1. \A h : FoldsBy(h, n, settled, said, base) => h[t] = step(Min(t), h[t \ {Min(t)}])
          BY <3>2 DEF FoldsBy
        <5> HIDE DEF f, step, D
        <5> QED BY <1>4, <1>5, <5>1
      <4> HIDE DEF f, step
      <4> QED BY <4>3, <4>4
    <3> QED BY <3>1, <3>2
  <2>3. \A t \in SUBSET D : f[t] = g[t]
    <3> HIDE DEF f, D
    <3> QED BY <2>1, <2>2, SameOnSubsets
  <2> QED BY <2>3
<1> QED BY <1>4, <1>5

\* Of some rules, the one that comes before all others gives their answer.
Leads(rules, hits, i) == i \in hits /\ \A j \in hits \ {i} : Before(rules, i, j)

LEMMA LeaderAnswers ==
  ASSUME NEW rules, NEW hits, hits \subseteq Nat, \A i \in hits : rules[i].priority \in Int,
         NEW i, Leads(rules, hits, i)
  PROVE  Answer(rules, hits) = rules[i].action
<1> DEFINE best == {j \in hits : \A k \in hits : rules[j].priority <= rules[k].priority}
<1>1. i \in hits /\ rules[i].priority \in Int /\ i \in Nat
  BY DEF Leads
<1>2. ASSUME NEW j \in hits, j # i
      PROVE  /\ rules[i].priority <= rules[j].priority
             /\ rules[i].priority = rules[j].priority /\ rules[j].action = "deny" =>
                   rules[i].action = "deny"
             /\ rules[i].priority = rules[j].priority /\ rules[i].action # "deny" => i < j
  <2>1. rules[j].priority \in Int /\ Before(rules, i, j)
    BY <1>2 DEF Leads
  <2> QED BY <1>1, <2>1 DEF Before, Outranks
<1>3. i \in best
  <2>1. ASSUME NEW k \in hits PROVE rules[i].priority <= rules[k].priority
    <3>1. CASE k = i
      BY <1>1, <3>1
    <3>2. CASE k # i
      BY <1>2, <3>2
    <3> QED BY <3>1, <3>2
  <2> QED BY <1>1, <2>1
<1>4. \A j \in best : j \in hits /\ rules[j].priority = rules[i].priority
  <2> SUFFICES ASSUME NEW j \in best PROVE j \in hits /\ rules[j].priority = rules[i].priority
    OBVIOUS
  <2>1. j \in hits /\ rules[j].priority <= rules[i].priority /\ rules[j].priority \in Int
    BY <1>1
  <2>2. rules[i].priority <= rules[j].priority
    BY <1>1, <1>2, <2>1
  <2> QED BY <1>1, <2>1, <2>2
<1>5. best \subseteq Nat /\ best # {}
  BY <1>3
<1>6. Answer(rules, hits) = IF \E j \in best : rules[j].action = "deny" THEN "deny"
                            ELSE rules[Min(best)].action
  BY <1>1 DEF Answer
<1> HIDE DEF best
<1>7. CASE \E j \in best : rules[j].action = "deny"
  <2>1. PICK j \in best : rules[j].action = "deny"
    BY <1>7
  <2>2. rules[i].action = "deny"
    <3>1. j \in hits /\ rules[j].priority = rules[i].priority
      BY <1>4
    <3> QED BY <1>2, <2>1, <3>1
  <2> QED BY <1>6, <1>7, <2>2
<1>8. CASE ~\E j \in best : rules[j].action = "deny"
  <2>1. rules[i].action # "deny"
    BY <1>3, <1>8
  <2>2. Min(best) \in best /\ Min(best) <= i
    BY <1>3, <1>5, SmallestNumber
  <2> DEFINE j == Min(best)
  <2> HIDE DEF j
  <2>3. j \in best /\ j <= i
    BY <2>2 DEF j
  <2>4. j = i
    <3> SUFFICES ASSUME j # i PROVE FALSE
      OBVIOUS
    <3>1. j \in hits /\ rules[j].priority = rules[i].priority /\ j \in Nat
      BY <1>4, <1>5, <2>3
    <3>2. i < j
      BY <1>2, <2>1, <3>1
    <3> QED BY <1>1, <2>3, <3>1, <3>2
  <2> QED BY <1>6, <1>8, <2>4 DEF j
<1> QED BY <1>7, <1>8

\* And among some there is one that does.
LEMMA LeaderIs ==
  ASSUME NEW n \in Nat, NEW rules, NEW hits \in SUBSET (1..n), hits # {},
         \A i \in hits : rules[i].priority \in Int
  PROVE  \E i \in hits : Leads(rules, hits, i)
<1>1. PICK c \in Nat : \E seat : IsOrder(rules, hits, c, seat)
  BY OrderIs
<1>2. PICK seat : IsOrder(rules, hits, c, seat)
  BY <1>1
<1>3. /\ seat \in [1..c -> hits]
      /\ \A i \in hits : \E k \in 1..c : seat[k] = i
      /\ \A j, k \in 1..c : j < k => Before(rules, seat[j], seat[k])
  BY <1>2 DEF IsOrder
<1>4. 1 \in 1..c
  <2>1. PICK i \in hits : TRUE
    OBVIOUS
  <2>2. PICK k \in 1..c : seat[k] = i
    BY <1>3
  <2> QED BY <2>2
<1>5. ASSUME NEW j \in hits \ {seat[1]} PROVE Before(rules, seat[1], j)
  <2>1. PICK k \in 1..c : seat[k] = j
    BY <1>3
  <2>2. 1 < k
    BY <1>5, <2>1
  <2> QED BY <1>3, <1>4, <2>1, <2>2
<1>6. seat[1] \in hits
  BY <1>3, <1>4
<1> QED BY <1>5, <1>6 DEF Leads

\* The rules of a level that match a packet, of those that are asked.
MatchedBy(rules, live, p) == {i \in live : p \in rule_match(rules[i])}
Settling(rules, live) ==
    \A i \in live : rules[i].priority \in Int /\ rules[i].action \in {"allow", "deny", "goto_next"}

\* What one level leaves of what is allowed inside it.
LEMMA DecideIs ==
  ASSUME NEW n \in Nat, NEW rules, NEW level, NEW direction, NEW live \in SUBSET (1..n),
         live = level \cap Enabled(rules, direction), Settling(rules, live), NEW eff, NEW p,
         NEW says, says = Answer(rules, MatchedBy(rules, live, p))
  PROVE  p \in Decide(rules, level, direction, eff)
           <=> says = "allow" \/ (says = "goto_next" /\ p \in eff)
<1>1. \A i \in live : rules[i].priority \in Int
  BY DEF Settling
<1>2. PICK c \in Nat : \E seat : IsOrder(rules, live, c, seat)
  BY <1>1, OrderIs
<1>3. PICK seat : IsOrder(rules, live, c, seat)
  BY <1>2
<1>4. /\ seat \in [1..c -> live]
      /\ Ordered(rules, live) = [k \in 1..c |-> rules[seat[k]]]
      /\ \A i \in live : \E k \in 1..c : seat[k] = i
      /\ \A j, k \in 1..c : j < k => Before(rules, seat[j], seat[k])
  BY <1>3 DEF IsOrder
<1> DEFINE D == 1..c
           s == [k \in D |-> rules[seat[k]]]
           settled == [k \in D |-> rule_match(s[k])]
           said == [k \in D |-> CASE s[k].action = "allow" -> rule_match(s[k])
                                  [] s[k].action = "deny" -> {}
                                  [] OTHER -> eff \cap rule_match(s[k])]
           Own(g) == g = [t \in SUBSET D |-> IF t = {} THEN eff
                                             ELSE Outcome(s[Min(t)], g[t \ {Min(t)}], eff)]
<1>5. Decide(rules, level, direction, eff) = (CHOOSE g : Own(g))[D]
  <2>1. Decide(rules, level, direction, eff) = FoldRight(LAMBDA r, e : Outcome(r, e, eff), s, eff)
    BY <1>4 DEF Decide
  <2>2. DOMAIN s = D
    OBVIOUS
  <2> HIDE DEF s
  <2> QED BY <2>1, <2>2 DEF FoldRight, MapThenFoldSet
<1>6. ASSUME NEW k \in D, NEW e PROVE Outcome(s[k], e, eff) = (e \ settled[k]) \cup said[k]
  <2>1. /\ settled[k] = rule_match(s[k])
        /\ s[k].action = "allow" => said[k] = rule_match(s[k])
        /\ s[k].action = "deny" => said[k] = {}
        /\ s[k].action \notin {"allow", "deny"} => said[k] = eff \cap rule_match(s[k])
    OBVIOUS
  <2>2. /\ s[k].action = "allow" => Outcome(s[k], e, eff) = e \cup rule_match(s[k])
        /\ s[k].action = "deny" => Outcome(s[k], e, eff) = e \ rule_match(s[k])
        /\ s[k].action \notin {"allow", "deny"} =>
              Outcome(s[k], e, eff) = (e \ rule_match(s[k])) \cup (eff \cap rule_match(s[k]))
    BY DEF Outcome
  <2> HIDE DEF s, settled, said
  <2> QED BY <2>1, <2>2
<1>7. \A k \in D : said[k] \subseteq settled[k]
  OBVIOUS
<1>8. \A g : Own(g) <=> FoldsBy(g, c, settled, said, eff)
  <2> SUFFICES ASSUME NEW g PROVE Own(g) <=> FoldsBy(g, c, settled, said, eff)
    OBVIOUS
  <2> DEFINE a(t) == IF t = {} THEN eff ELSE Outcome(s[Min(t)], g[t \ {Min(t)}], eff)
             b(t) == IF t = {} THEN eff ELSE (g[t \ {Min(t)}] \ settled[Min(t)]) \cup said[Min(t)]
  <2>1. ASSUME NEW t \in SUBSET D PROVE a(t) = b(t)
    <3>1. CASE t = {}
      BY <3>1
    <3>2. CASE t # {}
      <4>1. t \subseteq Nat
        OBVIOUS
      <4>2. Min(t) \in D
        BY <3>2, <4>1, SmallestNumber
      <4> HIDE DEF s, settled, said, D
      <4> QED BY <1>6, <3>2, <4>2
    <3> QED BY <3>1, <3>2
  <2>2. Own(g) <=> g = [t \in SUBSET D |-> a(t)]
    OBVIOUS
  <2>3. FoldsBy(g, c, settled, said, eff) <=> g = [t \in SUBSET D |-> b(t)]
    BY DEF FoldsBy
  <2> HIDE DEF a, b, Own, D
  <2>4. [t \in SUBSET D |-> a(t)] = [t \in SUBSET D |-> b(t)]
    BY <2>1
  <2> QED BY <2>2, <2>3, <2>4
<1>9. (CHOOSE g : Own(g))[D] = FirstSay(D, settled, said, eff)
  <2> HIDE DEF Own, settled, said
  <2> DEFINE h == CHOOSE g : Own(g)
  <2>1. \E g : FoldsBy(g, c, settled, said, eff)
    BY <1>7, FirstSays
  <2>2. Own(h)
    BY <1>8, <2>1
  <2> HIDE DEF h
  <2>3. FoldsBy(h, c, settled, said, eff)
    BY <1>8, <2>2
  <2>4. h[D] = FirstSay(D, settled, said, eff)
    BY <1>7, <2>3, FirstSays
  <2> QED BY <2>4 DEF h
<1> DEFINE seen == SettledBy(D, p, settled)
           hits == MatchedBy(rules, live, p)
<1>10. p \in Decide(rules, level, direction, eff)
         <=> IF seen = {} THEN p \in eff ELSE p \in said[Min(seen)]
  <2>1. D \subseteq Nat
    OBVIOUS
  <2> DEFINE outcome == (CHOOSE g : Own(g))[D]
  <2>2. /\ Decide(rules, level, direction, eff) = outcome
        /\ outcome = FirstSay(D, settled, said, eff)
    BY <1>5, <1>9
  <2> HIDE DEF outcome, settled, said, D
  <2> QED BY <2>1, <2>2, FirstSayIs, ZenonT(40)
<1>11. \A k : k \in seen <=> k \in D /\ p \in rule_match(rules[seat[k]])
  BY DEF SettledBy
<1>12. \A i : i \in hits <=> i \in live /\ p \in rule_match(rules[i])
  BY DEF MatchedBy
<1>13. \A k \in D : seat[k] \in live
  BY <1>4
<1>14. \A k \in D : /\ s[k] = rules[seat[k]] /\ settled[k] = rule_match(rules[seat[k]])
                    /\ said[k] = CASE s[k].action = "allow" -> rule_match(s[k])
                                   [] s[k].action = "deny" -> {}
                                   [] OTHER -> eff \cap rule_match(s[k])
  OBVIOUS
<1>15. seen \subseteq Nat
  BY <1>11
<1> HIDE DEF seen, hits, s, settled, said
<1>16. CASE seen = {}
  <2>1. hits = {}
    <3> SUFFICES ASSUME NEW i \in hits PROVE FALSE
      OBVIOUS
    <3>1. PICK k \in D : seat[k] = i
      BY <1>4, <1>12
    <3> QED BY <1>11, <1>12, <1>16, <3>1
  <2>2. says = "goto_next"
    BY <2>1 DEF Answer, hits
  <2> QED BY <1>10, <1>16, <2>2
<1>17. CASE seen # {}
  <2> DEFINE m == Min(seen)
  <2>1. m \in seen /\ \A k \in seen : m <= k
    BY <1>15, <1>17, SmallestNumber
  <2>2. p \in Decide(rules, level, direction, eff) <=> p \in said[m]
    BY <1>10, <1>17
  <2> HIDE DEF m
  <2> DEFINE i == seat[m]
  <2>3. m \in D /\ m \in Nat /\ i \in hits /\ p \in rule_match(rules[i])
    BY <1>11, <1>12, <1>13, <2>1
  <2>4. ASSUME NEW j \in hits \ {i} PROVE Before(rules, i, j)
    <3>1. PICK k \in D : seat[k] = j
      BY <1>4, <1>12
    <3>2. k \in seen /\ k # m
      BY <1>11, <1>12, <2>4, <3>1
    <3>3. m < k
      BY <2>1, <2>3, <3>1, <3>2
    <3> QED BY <1>4, <2>3, <3>1, <3>3
  <2>5. Leads(rules, hits, i)
    BY <2>3, <2>4 DEF Leads
  <2>6. hits \subseteq Nat /\ \A j \in hits : rules[j].priority \in Int
    BY <1>1, <1>12
  <2>7. says = rules[i].action
    <3> HIDE DEF i
    <3> QED BY <2>5, <2>6, LeaderAnswers DEF hits
  <2>8. rules[i].action \in {"allow", "deny", "goto_next"}
    BY <1>12, <2>3 DEF Settling
  <2>9. said[m] = CASE rules[i].action = "allow" -> rule_match(rules[i])
                    [] rules[i].action = "deny" -> {}
                    [] OTHER -> eff \cap rule_match(rules[i])
    BY <1>14, <2>3
  <2>10. /\ rules[i].action = "allow" => said[m] = rule_match(rules[i])
         /\ rules[i].action = "deny" => said[m] = {}
         /\ rules[i].action = "goto_next" => said[m] = eff \cap rule_match(rules[i])
    BY <2>9
  <2> HIDE DEF i
  <2> QED BY <2>2, <2>3, <2>7, <2>8, <2>10
<1> QED BY <1>16, <1>17

\* What the levels of a place give a packet: the first that settles it.
SaysAt(rules, levels, direction, p) ==
    [i \in 1..Len(levels) |->
        Answer(rules, MatchedBy(rules, levels[i] \cap Enabled(rules, direction), p))]
Outspoken(says, l, p, inner) ==
    LET deciding == {i \in 1..l : says[i] # "goto_next"}
    IN IF deciding = {} THEN p \in inner ELSE says[Min(deciding)] = "allow"
InnerAllowed(place, direction) ==
    effective_allow(place.vpc, place.layer \cap Enabled(place.vpc, direction),
                    direction = "EGRESS")
IsLevels(levels, l, n) ==
    DOMAIN levels = 1..l /\ Len(levels) = l /\ \A i \in 1..l : levels[i] \in SUBSET (1..n)

LEMMA EffectiveIs ==
  ASSUME NEW n \in Nat, NEW l \in Nat, NEW place, Len(place.rules) = n, NEW levels,
         IsLevels(levels, l, n), NEW direction,
         \A i \in 1..l : Settling(place.rules, levels[i] \cap Enabled(place.rules, direction)),
         NEW inner, inner = InnerAllowed(place, direction),
         NEW p
  PROVE  p \in effective_decision(place, levels, direction)
           <=> Outspoken(SaysAt(place.rules, levels, direction, p), l, p, inner)
<1> DEFINE D == 1..l
           rules == place.rules
           live(i) == levels[i] \cap Enabled(rules, direction)
           says(i, q) == Answer(rules, MatchedBy(rules, live(i), q))
           settled == [i \in D |-> {q \in Packets : says(i, q) # "goto_next"}]
           said == [i \in D |-> {q \in Packets : says(i, q) = "allow"}]
           step(i, e) == Decide(rules, levels[i], direction, e)
           Own(g) == g = [t \in SUBSET D |-> IF t = {} THEN inner
                                             ELSE step(Min(t), g[t \ {Min(t)}])]
<1>1. effective_decision(place, levels, direction) = (CHOOSE g : Own(g))[D]
  <2>1. DOMAIN levels = D
    BY DEF IsLevels
  <2> QED BY <2>1 DEF effective_decision, FoldRight, MapThenFoldSet, InnerAllowed
<1>2. ASSUME NEW i \in D, NEW q, q \notin Packets PROVE says(i, q) = "goto_next"
  <2>1. MatchedBy(rules, live(i), q) = {}
    BY <1>2 DEF MatchedBy, rule_match
  <2> QED BY <2>1 DEF Answer
<1>3. ASSUME NEW i \in D, NEW e PROVE step(i, e) = (e \ settled[i]) \cup said[i]
  <2> SUFFICES ASSUME NEW q PROVE q \in step(i, e) <=> q \in (e \ settled[i]) \cup said[i]
    OBVIOUS
  <2>1. live(i) \in SUBSET (1..n) /\ Settling(rules, live(i))
    BY DEF IsLevels
  <2>2. live(i) = levels[i] \cap Enabled(rules, direction)
    OBVIOUS
  <2>3. /\ q \in settled[i] <=> q \in Packets /\ says(i, q) # "goto_next"
        /\ q \in said[i] <=> q \in Packets /\ says(i, q) = "allow"
    OBVIOUS
  <2> DEFINE w == says(i, q)
             v == live(i)
  <2>4. w = Answer(rules, MatchedBy(rules, v, q))
    OBVIOUS
  <2>5. q \in step(i, e) <=> w = "allow" \/ (w = "goto_next" /\ q \in e)
    <3> DEFINE level == levels[i]
               E == Decide(rules, level, direction, e)
    <3>1. v \in SUBSET (1..n) /\ v = level \cap Enabled(rules, direction) /\ Settling(rules, v)
      BY <2>1
    <3>2. step(i, e) = E
      OBVIOUS
    <3> HIDE DEF w, v, rules, level, step
    <3>3. q \in E <=> w = "allow" \/ (w = "goto_next" /\ q \in e)
      <4>1. \A says1 : says1 = Answer(rules, MatchedBy(rules, v, q)) =>
              (q \in Decide(rules, level, direction, e)
                 <=> says1 = "allow" \/ (says1 = "goto_next" /\ q \in e))
        BY <3>1, DecideIs
      <4> QED BY <2>4, <4>1
    <3> QED BY <3>2, <3>3
  <2>6. q \notin Packets => w = "goto_next"
    BY <1>2
  <2>7. /\ q \in settled[i] <=> q \in Packets /\ w # "goto_next"
        /\ q \in said[i] <=> q \in Packets /\ w = "allow"
    BY <2>3
  <2> HIDE DEF w, settled, said, step
  <2> QED BY <2>5, <2>6, <2>7
<1>4. \A i \in D : said[i] \subseteq settled[i]
  OBVIOUS
<1>5. \A g : Own(g) <=> FoldsBy(g, l, settled, said, inner)
  <2> SUFFICES ASSUME NEW g PROVE Own(g) <=> FoldsBy(g, l, settled, said, inner)
    OBVIOUS
  <2> DEFINE a(t) == IF t = {} THEN inner ELSE step(Min(t), g[t \ {Min(t)}])
             b(t) == IF t = {} THEN inner
                     ELSE (g[t \ {Min(t)}] \ settled[Min(t)]) \cup said[Min(t)]
  <2>1. ASSUME NEW t \in SUBSET D PROVE a(t) = b(t)
    <3>1. CASE t = {}
      BY <3>1
    <3>2. CASE t # {}
      <4>1. t \subseteq Nat
        OBVIOUS
      <4>2. Min(t) \in D
        BY <3>2, <4>1, SmallestNumber
      <4> HIDE DEF settled, said, step, D
      <4> QED BY <1>3, <3>2, <4>2
    <3> QED BY <3>1, <3>2
  <2>2. Own(g) <=> g = [t \in SUBSET D |-> a(t)]
    OBVIOUS
  <2>3. FoldsBy(g, l, settled, said, inner) <=> g = [t \in SUBSET D |-> b(t)]
    BY DEF FoldsBy
  <2> HIDE DEF a, b, Own, D
  <2>4. [t \in SUBSET D |-> a(t)] = [t \in SUBSET D |-> b(t)]
    BY <2>1
  <2> QED BY <2>2, <2>3, <2>4
<1>6. (CHOOSE g : Own(g))[D] = FirstSay(D, settled, said, inner)
  <2> HIDE DEF Own, settled, said
  <2> DEFINE h == CHOOSE g : Own(g)
  <2>1. \E g : FoldsBy(g, l, settled, said, inner)
    BY <1>4, FirstSays
  <2>2. Own(h)
    BY <1>5, <2>1
  <2> HIDE DEF h
  <2>3. FoldsBy(h, l, settled, said, inner)
    BY <1>5, <2>2
  <2>4. h[D] = FirstSay(D, settled, said, inner)
    BY <1>4, <2>3, FirstSays
  <2> QED BY <2>4 DEF h
<1> DEFINE deciding == SettledBy(D, p, settled)
           spoken == SaysAt(rules, levels, direction, p)
<1>7. p \in effective_decision(place, levels, direction)
        <=> IF deciding = {} THEN p \in inner ELSE p \in said[Min(deciding)]
  <2>1. D \subseteq Nat
    OBVIOUS
  <2> DEFINE outcome == (CHOOSE g : Own(g))[D]
  <2>2. /\ effective_decision(place, levels, direction) = outcome
        /\ outcome = FirstSay(D, settled, said, inner)
    BY <1>1, <1>6
  <2> HIDE DEF outcome, settled, said, D
  <2> QED BY <2>1, <2>2, FirstSayIs, ZenonT(40)
<1>8. \A i \in D : spoken[i] = says(i, p)
  <2>1. Len(levels) = l
    BY DEF IsLevels
  <2> QED BY <2>1 DEF SaysAt
<1>9. deciding = {i \in D : spoken[i] # "goto_next"}
  <2>1. \A i \in D : p \in settled[i] <=> p \in Packets /\ says(i, p) # "goto_next"
    OBVIOUS
  <2>2. \A i \in D : p \in settled[i] <=> spoken[i] # "goto_next"
    <3> HIDE DEF says, settled, spoken
    <3> QED BY <1>2, <1>8, <2>1
  <2> HIDE DEF settled, spoken
  <2> QED BY <2>2 DEF SettledBy
<1>10. \A i \in D : p \in said[i] <=> spoken[i] = "allow"
  <2>1. \A i \in D : p \in said[i] <=> p \in Packets /\ says(i, p) = "allow"
    OBVIOUS
  <2> HIDE DEF says, said, spoken
  <2> QED BY <1>2, <1>8, <2>1
<1>11. deciding # {} => Min(deciding) \in D
  <2>1. deciding \subseteq Nat /\ deciding \subseteq D
    <3> HIDE DEF deciding, spoken
    <3> QED BY <1>9
  <2> HIDE DEF deciding
  <2> QED BY <2>1, SmallestNumber
<1>12. Outspoken(spoken, l, p, inner)
         <=> IF deciding = {} THEN p \in inner ELSE spoken[Min(deciding)] = "allow"
  BY <1>9 DEF Outspoken
<1> HIDE DEF deciding, spoken, said
<1> HIDE DEF D
<1>13. CASE deciding = {}
  BY <1>7, <1>12, <1>13 DEF spoken
<1>14. CASE deciding # {}
  BY <1>7, <1>10, <1>11, <1>12, <1>14 DEF spoken
<1> QED BY <1>13, <1>14

\* A place: a rule among those of the levels above it, with the VPC rules of
\* its project innermost.
IsPlace(place, l, n, own) ==
    /\ Len(place.rules) = n /\ \A j \in 1..n : place.rules[j] \in HierRule
    /\ place.vpc \in Seq(HierRule) /\ place.layer \in SUBSET (1..Len(place.vpc))
    /\ \A j \in place.layer : /\ place.vpc[j].networks # {} /\ place.vpc[j].action # "goto_next"
                              /\ \/ readable(place.rule) = {}
                                 \/ place.vpc[j].networks \subseteq readable(place.rule)
    /\ IsLevels(place.others, l, n) /\ IsLevels(place.with, l, n)
    /\ place.level \in 1..l /\ own \in 1..n /\ place.rules[own] = place.rule
    /\ place.with[place.level] = place.others[place.level] \cup {own}
    /\ \A i \in 1..l : /\ own \notin place.others[i]
                       /\ i # place.level => place.with[i] = place.others[i]
Clear(place) == \A e \in Entries(place) : ~ScopeUndecided(place.rule, e.rule)

LEMMA EntryIs ==
  ASSUME NEW place, NEW e
  PROVE  e \in Entries(place)
           <=> \/ \E i \in 1..Len(place.others) : \E j \in place.others[i] :
                     e = [level |-> i, rule |-> place.rules[j]]
               \/ \E j \in place.layer :
                     e = [level |-> Len(place.others) + 1, rule |-> place.vpc[j]]
<1> DEFINE lie(i) == {[level |-> i, rule |-> place.rules[j]] : j \in place.others[i]}
           inner == {[level |-> Len(place.others) + 1, rule |-> place.vpc[j]] : j \in place.layer}
<1>1. Entries(place) = (UNION {lie(i) : i \in 1..Len(place.others)}) \cup inner
  BY Zenon DEF Entries
<1>2. e \in UNION {lie(i) : i \in 1..Len(place.others)}
        <=> \E i \in 1..Len(place.others) : e \in lie(i)
  <2> HIDE DEF lie
  <2> QED OBVIOUS
<1>3. \A i : e \in lie(i) <=> \E j \in place.others[i] : e = [level |-> i, rule |-> place.rules[j]]
  OBVIOUS
<1>4. e \in inner <=> \E j \in place.layer :
                       e = [level |-> Len(place.others) + 1, rule |-> place.vpc[j]]
  OBVIOUS
<1>5. (\E i \in 1..Len(place.others) : e \in lie(i))
        <=> \E i \in 1..Len(place.others) : \E j \in place.others[i] :
               e = [level |-> i, rule |-> place.rules[j]]
  <2> HIDE DEF lie
  <2> QED BY <1>3
<1> HIDE DEF lie, inner
<1>6. e \in Entries(place) <=> e \in UNION {lie(i) : i \in 1..Len(place.others)} \/ e \in inner
  BY <1>1
<1> QED BY <1>2, <1>4, <1>5, <1>6

\* The rules compared with one rule are those of each network it shares with
\* all of them.
InNetwork(rule, net) == rule.networks = {} \/ net \in rule.networks
Fits(place, net, levels) ==
    \A i \in 1..Len(levels) : \A j \in levels[i] :
       InNetwork(place.rules[j], net) <=> ~Disjoint(place.rule, place.rules[j])

LEMMA NetworksFit ==
  ASSUME NEW l \in Nat, NEW n \in Nat, NEW own, NEW place, IsPlace(place, l, n, own),
         Clear(place), NEW net \in SharedNetworks(place)
  PROVE  /\ Fits(place, net, place.others) /\ Fits(place, net, place.with)
         /\ \A j \in place.layer : InNetwork(place.vpc[j], net)
<1>1. /\ InNetwork(place.rule, net)
      /\ \A e \in Entries(place) : InNetwork(e.rule, net) \/ Disjoint(place.rule, e.rule)
  BY DEF SharedNetworks, InNetwork
<1>2. Len(place.others) = l /\ Len(place.with) = l
  BY DEF IsPlace, IsLevels
<1>3. ASSUME NEW rule, ~ScopeUndecided(place.rule, rule),
             InNetwork(rule, net) \/ Disjoint(place.rule, rule)
      PROVE  InNetwork(rule, net) <=> ~Disjoint(place.rule, rule)
  BY <1>1, <1>3 DEF InNetwork, Disjoint
<1>4. ASSUME NEW i \in 1..l, NEW j \in place.others[i]
      PROVE  InNetwork(place.rules[j], net) <=> ~Disjoint(place.rule, place.rules[j])
  <2> DEFINE e == [level |-> i, rule |-> place.rules[j]]
  <2>1. e \in Entries(place)
    BY <1>2, EntryIs
  <2>2. e.rule = place.rules[j]
    OBVIOUS
  <2> HIDE DEF e
  <2> QED BY <1>1, <1>3, <2>1, <2>2 DEF Clear
<1>5. InNetwork(place.rule, net) /\ ~Disjoint(place.rule, place.rule)
  BY <1>1 DEF Disjoint
<1>6. Fits(place, net, place.others)
  BY <1>2, <1>4 DEF Fits
<1>7. Fits(place, net, place.with)
  <2> SUFFICES ASSUME NEW i \in 1..l, NEW j \in place.with[i]
               PROVE  InNetwork(place.rules[j], net) <=> ~Disjoint(place.rule, place.rules[j])
    BY <1>2 DEF Fits
  <2>1. j \in place.others[i] \/ j = own
    BY DEF IsPlace
  <2>2. place.rules[own] = place.rule
    BY DEF IsPlace
  <2> QED BY <1>4, <1>5, <2>1, <2>2
<1>8. ASSUME NEW j \in place.layer PROVE InNetwork(place.vpc[j], net)
  <2> DEFINE e == [level |-> l + 1, rule |-> place.vpc[j]]
             rule == place.vpc[j]
  <2>1. e \in Entries(place)
    BY <1>2, EntryIs
  <2>2. e.rule = rule
    OBVIOUS
  <2> HIDE DEF e
  <2>3. ~ScopeUndecided(place.rule, rule) /\ (InNetwork(rule, net) \/ Disjoint(place.rule, rule))
    BY <1>1, <2>1, <2>2 DEF Clear
  <2>4. /\ rule.networks # {}
        /\ readable(place.rule) = {} \/ rule.networks \subseteq readable(place.rule)
    BY DEF IsPlace
  <2>5. readable(place.rule) = place.rule.networks
    BY <2>3 DEF ScopeUndecided, readable
  <2> HIDE DEF rule
  <2>6. ~Disjoint(place.rule, rule)
    BY <2>4, <2>5 DEF Disjoint
  <2> QED BY <2>3, <2>6 DEF rule
<1> QED BY <1>6, <1>7, <1>8

\* What the levels and the VPC rules of a place say of a packet.
LEMMA InnerIs ==
  ASSUME NEW n \in Nat, NEW place, Len(place.vpc) = n, place.layer \in SUBSET (1..n),
         NEW direction, NEW net, \A j \in place.layer : InNetwork(place.vpc[j], net),
         Decisive(place.vpc, place.layer \cap Enabled(place.vpc, direction)),
         NEW p \in Packets
  PROVE  p \in InnerAllowed(place, direction)
           <=> Allowed({place.vpc[j] : j \in HitsAt(place.vpc, place.layer, net, direction, p)},
                       direction, p)
<1> DEFINE vpc == place.vpc
           group == place.layer \cap Enabled(vpc, direction)
           hits == HitsAt(vpc, place.layer, net, direction, p)
           some == {vpc[j] : j \in hits}
<1>1. group \in SUBSET (1..n) /\ group = LiveOf(vpc, group, direction)
  BY DEF Enabled, LiveOf
<1>2. IsNetwork(effective_allow(vpc, group, direction = "EGRESS"), RulesAt(vpc, group), direction)
  <2> HIDE DEF group, vpc
  <2>1. Decisive(vpc, group)
    BY DEF group, vpc
  <2> QED BY <1>1, <2>1, FoldIsNetwork
<1>3. p \in InnerAllowed(place, direction) <=> Allowed(RulesAt(vpc, group), direction, p)
  BY <1>2 DEF IsNetwork, InnerAllowed
<1> DEFINE met(rules) == {r \in rules : /\ r.direction = direction /\ ~r.disabled
                                        /\ p \in rule_match(r)}
           first(H) == {r \in H : \A q \in H : r.priority <= q.priority}
<1>4. \A rules : Allowed(rules, direction, p)
                   <=> IF met(rules) = {} THEN direction = "EGRESS"
                       ELSE \A r \in first(met(rules)) : r.action # "deny"
  BY DEF Allowed
<1>5. met(RulesAt(vpc, group)) = met(some)
  <2>1. \A j : j \in hits <=> /\ j \in group /\ p \in rule_match(vpc[j])
    BY DEF HitsAt, Enabled, InNetwork
  <2>2. \A j \in group : vpc[j].direction = direction /\ ~vpc[j].disabled
    BY DEF Enabled
  <2>3. \A r : r \in met(RulesAt(vpc, group))
                 <=> /\ \E j \in group : r = vpc[j]
                     /\ r.direction = direction /\ ~r.disabled /\ p \in rule_match(r)
    BY DEF RulesAt
  <2>4. \A r : r \in met(some)
                 <=> /\ \E j \in hits : r = vpc[j]
                     /\ r.direction = direction /\ ~r.disabled /\ p \in rule_match(r)
    OBVIOUS
  <2> HIDE DEF met, some, hits, group, vpc
  <2>5. \A r : r \in met(RulesAt(vpc, group)) <=> r \in met(some)
    BY <2>1, <2>2, <2>3, <2>4
  <2> QED BY <2>3, <2>4, <2>5 DEF met
<1> HIDE DEF met, first
<1> QED BY <1>3, <1>4, <1>5

FoldKeepsHits(place, levels, net, direction, p, i) ==
    HitsAt(place.rules, levels[i], net, direction, p)
      = MatchedBy(place.rules, Folded(levels, place)[i] \cap Enabled(place.rules, direction), p)

LEMMA HitsAre ==
  ASSUME NEW l \in Nat, NEW n \in Nat, NEW place, Len(place.rules) = n, NEW levels,
         IsLevels(levels, l, n), NEW net, Fits(place, net, levels), NEW direction, NEW p,
         NEW i \in 1..l
  PROVE  FoldKeepsHits(place, levels, net, direction, p, i)
<1>1. Len(levels) = l /\ levels[i] \in SUBSET (1..n)
  BY DEF IsLevels
<1>2. Folded(levels, place)[i] = {j \in levels[i] : ~Disjoint(place.rule, place.rules[j])}
  BY <1>1 DEF Folded
<1>3. \A j \in levels[i] : InNetwork(place.rules[j], net) <=> ~Disjoint(place.rule, place.rules[j])
  BY <1>1 DEF Fits
<1> QED BY <1>1, <1>2, <1>3 DEF HitsAt, MatchedBy, Enabled, InNetwork, FoldKeepsHits

\* The levels asked of a place settle what they match.
LEMMA PassesAre ==
  ASSUME NEW l \in Nat, NEW n \in Nat, NEW own, NEW place, IsPlace(place, l, n, own),
         NEW net, \A j \in place.layer : InNetwork(place.vpc[j], net),
         NEW levels, IsLevels(levels, l, n), Fits(place, net, levels), NEW direction,
         \A i \in 1..l : Settling(place.rules, Folded(levels, place)[i]
                                               \cap Enabled(place.rules, direction)),
         Decisive(place.vpc, place.layer \cap Enabled(place.vpc, direction)), NEW p \in Packets
  PROVE  Passes(place, levels, net, direction, p)
           <=> p \in effective_decision(place, Folded(levels, place), direction)
<1> DEFINE folded == Folded(levels, place)
           inner == InnerAllowed(place, direction)
           spoken == SaysAt(place.rules, folded, direction, p)
           hits(i) == HitsAt(place.rules, levels[i], net, direction, p)
           says(i) == Answer(place.rules, hits(i))
           vpc == HitsAt(place.vpc, place.layer, net, direction, p)
           deciding == {i \in 1..l : says(i) # "goto_next"}
<1>1. Len(levels) = l /\ Len(place.rules) = n
  BY DEF IsLevels, IsPlace
<1>2. IsLevels(folded, l, n)
  BY <1>1 DEF IsLevels, Folded
<1>3. p \in effective_decision(place, folded, direction) <=> Outspoken(spoken, l, p, inner)
  <2> HIDE DEF folded, inner
  <2> DEFINE v == SaysAt(place.rules, folded, direction, p)
  <2>1. \A i \in 1..l : Settling(place.rules, folded[i] \cap Enabled(place.rules, direction))
    BY DEF folded
  <2>2. p \in effective_decision(place, folded, direction)
          <=> Outspoken(SaysAt(place.rules, folded, direction, p), l, p, inner)
    <3>1. inner = InnerAllowed(place, direction)
      BY DEF inner
    <3> QED BY <1>1, <1>2, <2>1, <3>1, EffectiveIs
  <2> QED BY <2>2
<1>4. p \in inner <=> Allowed({place.vpc[j] : j \in vpc}, direction, p)
  <2>1. Len(place.vpc) \in Nat /\ place.layer \in SUBSET (1..Len(place.vpc))
    BY DEF IsPlace
  <2> QED BY <2>1, InnerIs
<1>5. \A i \in 1..l : spoken[i] = says(i)
  <2> SUFFICES ASSUME NEW i \in 1..l PROVE spoken[i] = says(i)
    OBVIOUS
  <2>1. Len(folded) = l
    BY <1>2 DEF IsLevels
  <2>2. spoken[i] = Answer(place.rules, MatchedBy(place.rules, folded[i]
                                             \cap Enabled(place.rules, direction), p))
    BY <2>1 DEF SaysAt
  <2>3. hits(i) = MatchedBy(place.rules, folded[i] \cap Enabled(place.rules, direction), p)
    <3>1. FoldKeepsHits(place, levels, net, direction, p, i)
      BY <1>1, HitsAre
    <3> QED BY <3>1 DEF FoldKeepsHits
  <2> QED BY <2>2, <2>3
<1>6. Outspoken(spoken, l, p, inner)
        <=> IF deciding = {} THEN p \in inner ELSE spoken[Min(deciding)] = "allow"
  <2>1. deciding = {i \in 1..l : spoken[i] # "goto_next"}
    <3> HIDE DEF spoken, says
    <3> QED BY <1>5
  <2> HIDE DEF spoken, deciding
  <2> QED BY <2>1 DEF Outspoken
<1>7. deciding # {} => spoken[Min(deciding)] = says(Min(deciding))
  <2>1. deciding \subseteq Nat /\ deciding \subseteq 1..l
    OBVIOUS
  <2> HIDE DEF deciding, spoken, says
  <2>2. deciding # {} => Min(deciding) \in 1..l
    BY <2>1, SmallestNumber
  <2> QED BY <1>5, <2>2
<1>8. Passes(place, levels, net, direction, p)
        <=> IF deciding = {} THEN Allowed({place.vpc[j] : j \in vpc}, direction, p)
            ELSE says(Min(deciding)) = "allow"
  BY <1>1 DEF Passes
<1> HIDE DEF spoken, deciding, says, inner, vpc
<1>9. CASE deciding = {}
  BY <1>3, <1>4, <1>6, <1>8, <1>9
<1>10. CASE deciding # {}
  BY <1>3, <1>6, <1>7, <1>8, <1>10
<1> QED BY <1>9, <1>10

\* Two readings of a place that say the same of a packet up to the first level
\* that settles it pass the same packets.
AnswerAt(place, levels, i, net, direction, p) ==
    Answer(place.rules, HitsAt(place.rules, levels[i], net, direction, p))
AgreeBefore(place, l, a, b, net, direction, p, m) ==
    \A i \in 1..l : i < m =>
       AnswerAt(place, a, i, net, direction, p) = AnswerAt(place, b, i, net, direction, p)
SettlesBefore(place, l, levels, net, direction, p, m) ==
    \E i \in 1..l : i < m /\ AnswerAt(place, levels, i, net, direction, p) # "goto_next"

LEMMA SamePassage ==
  ASSUME NEW l \in Nat, NEW place, NEW a, Len(a) = l, NEW b, Len(b) = l, NEW net, NEW direction,
         NEW p, NEW m \in 1..(l + 1), AgreeBefore(place, l, a, b, net, direction, p, m),
         m <= l => SettlesBefore(place, l, a, net, direction, p, m)
  PROVE  Passes(place, a, net, direction, p) <=> Passes(place, b, net, direction, p)
<1> DEFINE says(levels, i) == Answer(place.rules, HitsAt(place.rules, levels[i], net, direction, p))
           deciding(levels) == {i \in 1..l : says(levels, i) # "goto_next"}
           inner == Allowed({place.vpc[j] :
                                j \in HitsAt(place.vpc, place.layer, net, direction, p)},
                            direction, p)
           A == deciding(a)
           B == deciding(b)
<1>1. /\ Passes(place, a, net, direction, p)
           <=> IF A = {} THEN inner ELSE says(a, Min(A)) = "allow"
      /\ Passes(place, b, net, direction, p)
           <=> IF B = {} THEN inner ELSE says(b, Min(B)) = "allow"
  BY DEF Passes
<1>2. \A i \in 1..l : i < m => says(a, i) = says(b, i)
  BY DEF AgreeBefore, AnswerAt
<1>3. m <= l => \E i \in 1..l : i < m /\ says(a, i) # "goto_next"
  BY DEF SettlesBefore, AnswerAt
<1>4. /\ \A i : i \in A <=> i \in 1..l /\ says(a, i) # "goto_next"
      /\ \A i : i \in B <=> i \in 1..l /\ says(b, i) # "goto_next"
  OBVIOUS
<1>5. A \subseteq Nat /\ B \subseteq Nat
  OBVIOUS
<1> HIDE DEF A, B, says, inner
<1>6. CASE m = l + 1
  <2>1. A = B /\ \A i \in A : says(a, i) = says(b, i)
    <3>1. \A i \in 1..l : says(a, i) = says(b, i)
      BY <1>2, <1>6
    <3> QED BY <1>4, <3>1
  <2>2. A # {} => Min(A) \in A
    BY <1>5, SmallestNumber
  <2>3. CASE A = {}
    BY <1>1, <2>1, <2>3
  <2>4. CASE A # {}
    BY <1>1, <2>1, <2>2, <2>4
  <2> QED BY <2>3, <2>4
<1>7. CASE m <= l
  <2>1. PICK i \in 1..l : i < m /\ says(a, i) # "goto_next"
    BY <1>3, <1>7
  <2>2. i \in A /\ i \in B
    BY <1>2, <1>4, <2>1
  <2> DEFINE x == Min(A)
             y == Min(B)
  <2>3. /\ x \in A /\ \A k \in A : x <= k
        /\ y \in B /\ \A k \in B : y <= k
    BY <1>5, <2>2, SmallestNumber
  <2> HIDE DEF x, y
  <2>4. x \in 1..l /\ y \in 1..l /\ x < m /\ y < m
    BY <1>4, <2>1, <2>2, <2>3
  <2>5. x \in B /\ y \in A
    BY <1>2, <1>4, <2>3, <2>4
  <2>6. x = y
    BY <2>3, <2>4, <2>5
  <2>7. says(a, x) = says(b, y)
    BY <1>2, <2>4, <2>6
  <2> QED BY <1>1, <2>2, <2>7 DEF x, y
<1> QED BY <1>6, <1>7

\* What an answer about a place says, when nothing of it is left open.
FoldedRules(place) ==
    {place.rules[j] : j \in UNION Range(Folded(place.with, place))}
    \cup {place.vpc[j] : j \in place.layer}
WithRule(place) ==
    effective_decision(place, Folded(place.with, place), place.rule.direction)
WithoutRule(place) ==
    effective_decision(place, Folded(place.others, place), place.rule.direction)

LEMMA FindingsSay ==
  ASSUME NEW place, NEW answer, answer = Findings(place), \A v \in answer : v.status # "unverified"
  PROVE  /\ \A r \in Live(FoldedRules(place), place.rule.direction) : HierEncodable(r)
         /\ Finding("contradicted", "shadow", "mine") \in answer =>
               /\ Preempting(place) # {}
               /\ rule_match(place.rule)
                     \subseteq UNION {rule_match(e.rule) : e \in Preempting(place)}
         /\ Finding("grounded", "no-effect", "mine") \in answer =>
               WithRule(place) = WithoutRule(place)
         /\ Finding("grounded", "narrows", "mine") \in answer =>
               WithRule(place) \subseteq WithoutRule(place)
         /\ Finding("contradicted", "widen", "mine") \in answer =>
               WithRule(place) \ WithoutRule(place) # {}
<1> DEFINE abstain == {Abstain("order", "mine")}
           folds == AllEncodable(Live(FoldedRules(place), place.rule.direction))
           W == WithRule(place)
           O == WithoutRule(place)
           S == Preempting(place) # {}
                /\ rule_match(place.rule)
                      \subseteq UNION {rule_match(e.rule) : e \in Preempting(place)}
           shadow == Finding("contradicted", "shadow", "mine")
           reopen == Finding("contradicted", "reopen", "mine")
           widen == Finding("contradicted", "widen", "mine")
           none == Finding("grounded", "no-effect", "mine")
           narrow == Finding("grounded", "narrows", "mine")
           delta == CASE W \ O # {} -> widen [] W = O -> none [] OTHER -> narrow
<1>1. \/ Abstain("order", "mine") \in answer
      \/ folds /\ answer = Unreachable(place) \cup (Reopens(place) \cup Delta(place))
  BY DEF Findings, FoldedRules
<1>2. Abstain("order", "mine").status = "unverified"
  BY DEF Abstain, Finding
<1>3. folds /\ answer = Unreachable(place) \cup (Reopens(place) \cup Delta(place))
  BY <1>1, <1>2
<1>4. Unreachable(place) = IF S THEN {shadow} ELSE {}
  BY DEF Unreachable
<1>5. Reopens(place) = {reopen} \/ Reopens(place) = {}
  BY DEF Reopens
<1>6. Delta(place) = {delta}
  BY DEF Delta, WithRule, WithoutRule
<1>7. /\ shadow.kind = "shadow" /\ reopen.kind = "reopen" /\ widen.kind = "widen"
      /\ none.kind = "no-effect" /\ narrow.kind = "narrows"
  BY DEF Finding
<1>8. folds <=> \A r \in Live(FoldedRules(place), place.rule.direction) : HierEncodable(r)
  BY DEF AllEncodable
<1>9. /\ W \ O # {} => delta = widen
      /\ ~(W \ O # {}) /\ W = O => delta = none
      /\ ~(W \ O # {}) /\ W # O => delta = narrow
  OBVIOUS
<1> HIDE DEF shadow, reopen, widen, none, narrow, delta, folds
<1>10. \A v \in answer : \/ v = shadow /\ S
                         \/ v = reopen
                         \/ v = delta
  BY <1>3, <1>4, <1>5, <1>6
<1>11. (shadow \in answer => S) /\ (none \in answer => none = delta)
       /\ (narrow \in answer => narrow = delta) /\ (widen \in answer => widen = delta)
  <2> HIDE DEF S, W, O
  <2>1. delta \in {widen, none, narrow}
    BY <1>9
  <2> QED BY <1>7, <1>10, <2>1
<1>12. /\ none = delta => W = O
       /\ narrow = delta => W \subseteq O
       /\ widen = delta => W \ O # {}
  <2> HIDE DEF W, O
  <2> QED BY <1>7, <1>9
<1> QED BY <1>3, <1>8, <1>11, <1>12 DEF shadow, none, narrow, widen

\* A rule every packet of which is settled before it changes nothing.
LEMMA ShadowedIsIdle ==
  ASSUME NEW l \in Nat, NEW n \in Nat, NEW own, NEW place, IsPlace(place, l, n, own),
         NEW net, Fits(place, net, place.others), Clear(place), ~Delegated(place),
         rule_match(place.rule) \subseteq UNION {rule_match(e.rule) : e \in Preempting(place)},
         NEW p \in Packets
  PROVE  Passes(place, place.with, net, place.rule.direction, p)
           <=> Passes(place, place.others, net, place.rule.direction, p)
<1> DEFINE direction == place.rule.direction
           rules == place.rules
           W(i) == HitsAt(rules, place.with[i], net, direction, p)
           O(i) == HitsAt(rules, place.others[i], net, direction, p)
           k == place.level
<1>1. /\ Len(place.others) = l /\ Len(place.with) = l /\ k \in 1..l
      /\ \A j \in 1..n : rules[j] \in HierRule
      /\ own \in 1..n /\ rules[own] = place.rule
      /\ place.with[k] = place.others[k] \cup {own}
      /\ \A i \in 1..l : /\ place.others[i] \in SUBSET (1..n) /\ own \notin place.others[i]
                         /\ i # k => place.with[i] = place.others[i]
  BY DEF IsPlace, IsLevels
<1>2. \A j \in 1..n : rules[j].priority \in Int
  BY <1>1 DEF HierRule
<1>3. ASSUME NEW i \in 1..l, i # k PROVE W(i) = O(i)
  BY <1>1, <1>3
<1>4. \A j : j \in W(k) <=> j \in O(k) \/ (j = own /\ own \in W(k))
  BY <1>1 DEF HitsAt
<1>5. ASSUME NEW i \in 1..l, NEW j \in O(i)
      PROVE  /\ j \in 1..n /\ p \in rule_match(rules[j])
             /\ [level |-> i, rule |-> rules[j]] \in Rivals(place)
  <2> DEFINE e == [level |-> i, rule |-> rules[j]]
  <2>1. /\ j \in place.others[i] /\ rules[j].direction = direction /\ ~rules[j].disabled
        /\ p \in rule_match(rules[j]) /\ InNetwork(rules[j], net)
    BY DEF HitsAt, InNetwork
  <2>2. e \in Entries(place)
    BY <1>1, <2>1, EntryIs
  <2>3. ~Disjoint(place.rule, rules[j])
    BY <1>1, <2>1 DEF Fits
  <2>4. e.rule = rules[j]
    OBVIOUS
  <2> HIDE DEF e
  <2>5. e \in Rivals(place)
    BY <2>1, <2>2, <2>3, <2>4 DEF Rivals, Clear
  <2>6. j \in 1..n
    BY <1>1, <2>1
  <2> QED BY <2>1, <2>5, <2>6 DEF e
<1>6. CASE own \notin W(k)
  <2>1. \A i \in 1..l : W(i) = O(i)
    <3> SUFFICES ASSUME NEW i \in 1..l PROVE W(i) = O(i)
      OBVIOUS
    <3>1. CASE i # k
      BY <1>3, <3>1
    <3>2. CASE i = k
      <4>1. W(k) = O(k)
        <5> HIDE DEF W, O, k
        <5> QED BY <1>4, <1>6
      <4> QED BY <3>2, <4>1
    <3> QED BY <3>1, <3>2
  <2>2. \A i \in 1..l : Answer(rules, W(i)) = Answer(rules, O(i))
    <3> HIDE DEF W, O
    <3> QED BY <2>1
  <2>3. (l + 1) \in 1..(l + 1) /\ ~(l + 1 <= l)
    OBVIOUS
  <2>4. AgreeBefore(place, l, place.with, place.others, net, direction, p, l + 1)
    BY <2>2 DEF AgreeBefore, AnswerAt
  <2> QED BY <1>1, <2>3, <2>4, SamePassage
<1>7. CASE own \in W(k)
  <2>1. p \in rule_match(place.rule)
    BY <1>1, <1>7 DEF HitsAt
  <2>2. PICK e \in Preempting(place) : p \in rule_match(e.rule)
    BY <2>1
  <2>3. /\ e \in Rivals(place) /\ e.rule.action # "goto_next" /\ WinsOver(e, Mine(place))
        /\ e \in Entries(place) /\ e.rule.direction = direction /\ ~e.rule.disabled
        /\ ~Disjoint(place.rule, e.rule)
    BY <2>2 DEF Preempting, Rivals
  <2>4. Mine(place).level = k /\ Mine(place).rule = place.rule
    BY DEF Mine
  <2>5. e.level < k \/ (e.level = k /\ Outranks(e.rule, place.rule))
    BY <2>3, <2>4 DEF WinsOver
  <2>60. PICK m \in 1..l : \E j \in place.others[m] : e = [level |-> m, rule |-> rules[j]]
    <3>1. \A x \in place.layer : e # [level |-> l + 1, rule |-> place.vpc[x]]
      BY <1>1, <2>5
    <3> QED BY <1>1, <2>3, <3>1, EntryIs, SMTT(30)
  <2>6. PICK j \in place.others[m] : e = [level |-> m, rule |-> rules[j]]
    BY <2>60
  <2>7. e.level = m /\ e.rule = rules[j]
    BY <2>6
  <2>8. j \in O(m) /\ j \in 1..n
    <3>1. InNetwork(rules[j], net)
      BY <1>1, <2>3, <2>6, <2>7 DEF Fits
    <3> QED BY <1>1, <2>2, <2>3, <2>6, <2>7, <3>1 DEF HitsAt, InNetwork
  <2>9. CASE m = k
    <3>1. Outranks(rules[j], rules[own])
      BY <1>1, <2>5, <2>7, <2>9
    <3>2. /\ W(k) \in SUBSET (1..n) /\ W(k) # {} /\ \A x \in W(k) : rules[x].priority \in Int
      BY <1>1, <1>2, <1>7 DEF HitsAt
    <3> HIDE DEF W, O
    <3>3. PICK x \in W(k) : Leads(rules, W(k), x)
      BY <3>2, LeaderIs
    <3>4. x # own
      <4> SUFFICES ASSUME x = own PROVE FALSE
        OBVIOUS
      <4>1. j \in W(k) \ {own}
        BY <1>1, <1>4, <2>6, <2>8, <2>9
      <4>2. Before(rules, own, j)
        BY <3>3, <4>1 DEF Leads
      <4>3. rules[own].priority \in Int /\ rules[j].priority \in Int
        BY <1>1, <1>2, <2>8
      <4> QED BY <3>1, <4>2, <4>3 DEF Before, Outranks
    <3>5. Leads(rules, O(k), x)
      <4>1. x \in O(k) /\ O(k) \subseteq W(k)
        BY <1>4, <3>3, <3>4
      <4> QED BY <3>3, <4>1 DEF Leads
    <3>6. Answer(rules, W(k)) = rules[x].action
      <4>1. W(k) \subseteq Nat
        BY <3>2
      <4> QED BY <3>2, <3>3, <4>1, LeaderAnswers
    <3>7. Answer(rules, O(k)) = rules[x].action
      <4>1. O(k) \subseteq Nat /\ \A y \in O(k) : rules[y].priority \in Int
        BY <1>4, <3>2
      <4> QED BY <3>5, <4>1, LeaderAnswers
    <3>8. \A i \in 1..l : Answer(rules, W(i)) = Answer(rules, O(i))
      BY <1>3, <3>6, <3>7
    <3>9. (l + 1) \in 1..(l + 1) /\ ~(l + 1 <= l)
      OBVIOUS
    <3>10. AgreeBefore(place, l, place.with, place.others, net, direction, p, l + 1)
      BY <3>8 DEF AgreeBefore, AnswerAt, W, O
    <3> QED BY <1>1, <3>9, <3>10, SamePassage
  <2>10. CASE m < k
    <3>1. /\ O(m) \in SUBSET (1..n) /\ O(m) # {} /\ \A x \in O(m) : rules[x].priority \in Int
      BY <1>1, <1>2, <2>8 DEF HitsAt
    <3>2. PICK x \in O(m) : Leads(rules, O(m), x)
      <4> HIDE DEF O
      <4> QED BY <3>1, LeaderIs
    <3>3. rules[x].action # "goto_next"
      <4> DEFINE f == [level |-> m, rule |-> rules[x]]
      <4>1. f \in Rivals(place) /\ f.level = m /\ f.rule = rules[x]
        BY <1>5
      <4> HIDE DEF f
      <4>2. WinsOver(f, Mine(place))
        BY <2>4, <2>10, <4>1 DEF WinsOver
      <4> QED BY <4>1, <4>2 DEF Delegated
    <3>4. Answer(rules, O(m)) = rules[x].action
      <4>1. O(m) \subseteq Nat
        BY <3>1
      <4> HIDE DEF O
      <4> QED BY <3>1, <3>2, <4>1, LeaderAnswers
    <3>5. \A i \in 1..l : i < k => Answer(rules, W(i)) = Answer(rules, O(i))
      <4>1. \A i \in 1..l : i < k => W(i) = O(i)
        BY <1>1, <1>3
      <4> HIDE DEF W, O
      <4> QED BY <4>1
    <3>6. Answer(rules, W(m)) # "goto_next"
      <4> HIDE DEF W, O
      <4> QED BY <2>10, <3>3, <3>4, <3>5
    <3>7. k \in 1..(l + 1)
      BY <1>1
    <3>8. AgreeBefore(place, l, place.with, place.others, net, direction, p, k)
      BY <3>5 DEF AgreeBefore, AnswerAt
    <3>9. SettlesBefore(place, l, place.with, net, direction, p, k)
      BY <2>10, <3>6 DEF SettlesBefore, AnswerAt
    <3> QED BY <1>1, <3>7, <3>8, <3>9, SamePassage
  <2>11. m < k \/ m = k
    BY <2>5, <2>7
  <2> QED BY <2>9, <2>10, <2>11
<1> QED BY <1>6, <1>7

\* What is said of a rule in its place is so.
LEMMA OnlyPackets ==
  ASSUME NEW n \in Nat, NEW l \in Nat, NEW place, Len(place.rules) = n, NEW levels,
         IsLevels(levels, l, n), NEW direction,
         \A i \in 1..l : Settling(place.rules, levels[i] \cap Enabled(place.rules, direction)),
         place.vpc \in Seq(HierRule), place.layer \in SUBSET (1..Len(place.vpc)),
         Decisive(place.vpc, place.layer \cap Enabled(place.vpc, direction)),
         NEW p \in effective_decision(place, levels, direction)
  PROVE  p \in Packets
<1> DEFINE inner == InnerAllowed(place, direction)
           says == SaysAt(place.rules, levels, direction, p)
           deciding == {i \in 1..l : says[i] # "goto_next"}
<1> SUFFICES ASSUME p \notin Packets PROVE FALSE
  OBVIOUS
<1>1. Outspoken(says, l, p, inner)
  <2>1. inner = InnerAllowed(place, direction)
    OBVIOUS
  <2> HIDE DEF inner
  <2> QED BY <2>1, EffectiveIs
<1>2. ASSUME NEW i \in 1..l PROVE says[i] = "goto_next"
  <2>1. \A live : MatchedBy(place.rules, live, p) = {}
    BY DEF MatchedBy, rule_match
  <2>2. says[i] = Answer(place.rules, MatchedBy(place.rules, levels[i]
                                         \cap Enabled(place.rules, direction), p))
    BY DEF SaysAt, IsLevels
  <2>3. says[i] = Answer(place.rules, {})
    BY <2>1, <2>2
  <2> QED BY <2>3 DEF Answer
<1>3. p \in inner
  <2>1. deciding = {}
    <3> HIDE DEF says
    <3> QED BY <1>2
  <2> HIDE DEF says, inner
  <2> QED BY <1>1, <2>1 DEF Outspoken
<1>4. inner \subseteq Packets
  <2> DEFINE vpc == place.vpc
             group == place.layer \cap Enabled(vpc, direction)
  <2>1. /\ Len(vpc) \in Nat /\ group \in SUBSET (1..Len(vpc))
        /\ group = LiveOf(vpc, group, direction)
    BY DEF Enabled, LiveOf
  <2>2. Decisive(vpc, group)
    OBVIOUS
  <2> HIDE DEF group, vpc
  <2>3. IsNetwork(effective_allow(vpc, group, direction = "EGRESS"), RulesAt(vpc, group), direction)
    BY <2>1, <2>2, FoldIsNetwork
  <2> QED BY <2>3 DEF IsNetwork, InnerAllowed, group, vpc
<1> QED BY <1>3, <1>4

LEMMA PlaceIsTrue ==
  ASSUME NEW l \in Nat, NEW n \in Nat, NEW own, NEW place, IsPlace(place, l, n, own), Clear(place),
         NEW answer, answer = Findings(place), \A v \in answer : v.status # "unverified"
  PROVE  TrueOfPlace(place, answer)
<1> DEFINE direction == place.rule.direction
           rules == place.rules
           W == WithRule(place)
           O == WithoutRule(place)
           with == Folded(place.with, place)
           without == Folded(place.others, place)
           says(status, kind) == Finding(status, kind, "mine") \in answer
<1>1. /\ \A r \in Live(FoldedRules(place), direction) : HierEncodable(r)
      /\ says("contradicted", "shadow") =>
            rule_match(place.rule) \subseteq UNION {rule_match(e.rule) : e \in Preempting(place)}
      /\ says("grounded", "no-effect") => W = O
      /\ says("grounded", "narrows") => W \subseteq O
      /\ says("contradicted", "widen") => W \ O # {}
  BY FindingsSay
<1>2. /\ Len(rules) = n /\ IsLevels(place.others, l, n) /\ IsLevels(place.with, l, n)
      /\ \A j \in 1..n : rules[j] \in HierRule
      /\ place.vpc \in Seq(HierRule) /\ place.layer \in SUBSET (1..Len(place.vpc))
  BY DEF IsPlace
<1>3. IsLevels(with, l, n) /\ IsLevels(without, l, n)
  BY <1>2 DEF IsLevels, Folded
<1>4. \A i \in 1..l : without[i] \subseteq with[i]
  <2> SUFFICES ASSUME NEW i \in 1..l PROVE without[i] \subseteq with[i]
    OBVIOUS
  <2>1. /\ with[i] = {j \in place.with[i] : ~Disjoint(place.rule, rules[j])}
        /\ without[i] = {j \in place.others[i] : ~Disjoint(place.rule, rules[j])}
    BY <1>2 DEF IsLevels, Folded
  <2>2. place.others[i] \subseteq place.with[i]
    BY DEF IsPlace
  <2> QED BY <2>1, <2>2
<1>5. ASSUME NEW i \in 1..l
      PROVE  /\ Settling(rules, with[i] \cap Enabled(rules, direction))
             /\ Settling(rules, without[i] \cap Enabled(rules, direction))
  <2> HIDE DEF with, without
  <2>1. ASSUME NEW j \in with[i] \cap Enabled(rules, direction)
        PROVE  rules[j].priority \in Int /\ rules[j].action \in {"allow", "deny", "goto_next"}
    <3>1. j \in 1..n /\ rules[j] \in HierRule
      BY <1>2, <1>3 DEF IsLevels
    <3>2. rules[j] \in FoldedRules(place)
      <4>1. with[i] \in Range(Folded(place.with, place))
        BY <1>3 DEF with, Range, IsLevels
      <4> QED BY <4>1 DEF FoldedRules
    <3>3. rules[j] \in Live(FoldedRules(place), direction)
      BY <3>2 DEF Live, Enabled
    <3> QED BY <1>1, <3>1, <3>3 DEF HierEncodable, HierRule
  <2> QED BY <1>4, <2>1 DEF Settling
<1>6. Decisive(place.vpc, place.layer \cap Enabled(place.vpc, direction))
  <2> SUFFICES ASSUME NEW j \in place.layer \cap Enabled(place.vpc, direction)
               PROVE  place.vpc[j].priority \in Int /\ place.vpc[j].action \in {"allow", "deny"}
    BY DEF Decisive
  <2>1. place.vpc[j] \in HierRule
    BY <1>2
  <2>2. place.vpc[j] \in Live(FoldedRules(place), direction)
    BY DEF Live, FoldedRules, Enabled
  <2>3. place.vpc[j].action # "goto_next"
    BY DEF IsPlace
  <2> QED BY <1>1, <2>1, <2>2, <2>3 DEF HierEncodable, HierRule
<1>7. /\ W = effective_decision(place, with, direction)
      /\ O = effective_decision(place, without, direction)
  BY DEF WithRule, WithoutRule
<1> HIDE DEF with, without, W, O
<1>8. W \subseteq Packets
  BY <1>2, <1>3, <1>5, <1>6, <1>7, OnlyPackets
<1> SUFFICES ASSUME NEW net \in SharedNetworks(place)
             PROVE  LET With(p) == Passes(place, place.with, net, direction, p)
                        Without(p) == Passes(place, place.others, net, direction, p)
                    IN /\ \/ says("contradicted", "shadow") /\ ~Delegated(place)
                          \/ says("grounded", "no-effect")
                          => \A p \in Packets : With(p) <=> Without(p)
                       /\ says("grounded", "narrows") => \A p \in Packets : With(p) => Without(p)
                       /\ says("contradicted", "widen") => \E p \in Packets : With(p) /\ ~Without(p)
  BY DEF TrueOfPlace
<1> DEFINE With(p) == Passes(place, place.with, net, direction, p)
           Without(p) == Passes(place, place.others, net, direction, p)
<1>9. /\ Fits(place, net, place.others) /\ Fits(place, net, place.with)
      /\ \A j \in place.layer : InNetwork(place.vpc[j], net)
  BY NetworksFit
<1>10. ASSUME NEW p \in Packets PROVE (With(p) <=> p \in W) /\ (Without(p) <=> p \in O)
  <2>1. /\ \A i \in 1..l :
              Settling(rules, Folded(place.with, place)[i] \cap Enabled(rules, direction))
        /\ \A i \in 1..l :
              Settling(rules, Folded(place.others, place)[i] \cap Enabled(rules, direction))
    BY <1>5 DEF with, without
  <2>2. /\ W = effective_decision(place, Folded(place.with, place), direction)
        /\ O = effective_decision(place, Folded(place.others, place), direction)
    BY <1>7 DEF with, without
  <2>3. With(p) <=> p \in W
    BY <1>2, <1>6, <1>9, <2>1, <2>2, PassesAre
  <2>4. Without(p) <=> p \in O
    BY <1>2, <1>6, <1>9, <2>1, <2>2, PassesAre
  <2> QED BY <2>3, <2>4
<1>11. ASSUME says("contradicted", "shadow"), ~Delegated(place), NEW p \in Packets
       PROVE  With(p) <=> Without(p)
  BY <1>1, <1>9, <1>11, ShadowedIsIdle
<1> HIDE DEF With, Without, says
<1> QED BY <1>1, <1>8, <1>10, <1>11 DEF With, Without

\* A claim that is not misplaced has a place.
CapturedHierarchy(estate) ==
    /\ estate.tree \in Trees /\ estate.vpc \in VpcRules
    /\ \E table \in Policies : estate.rules = table.rules

LEMMA PlaceIs ==
  ASSUME NEW estate, CapturedHierarchy(estate), NEW claims \in Proposals,
         NEW mine \in 1..Len(claims),
         ~Misplaced(claims[mine], estate, claims), NEW place, place = Place(mine, estate, claims)
  PROVE  \E l, n \in Nat : \E own : IsPlace(place, l, n, own)
<1> DEFINE claim == claims[mine]
           m == Len(estate.rules)
           c == Len(claims)
           N == m + c
           own == m + mine
           node == CHOOSE x \in Attachment(claim, estate) : TRUE
           project == CHOOSE p \in ProjectsUnder(claim.rule, node, estate) : TRUE
           chain == ancestry_chain(estate.tree, project)
           l == Len(chain)
           held == Held(chain, estate)
           edits == Edits(claims, estate, chain)
           kept(i) == {j \in 1..m : /\ <<i, j>> \in held /\ Slot(estate.rules[j]) \notin edits}
           proposed(i) == {k \in (1..c) \ {mine} : Attachment(claims[k], estate) = {chain[i]}}
           others == [i \in 1..l |-> kept(i) \cup {m + k : k \in proposed(i)}]
           level == CHOOSE i \in 1..l : chain[i] = node
           with == [others EXCEPT ![level] = @ \cup {own}]
           rules == AllRules(claims, estate)
           layer == VpcLayer(claim.rule, project, estate)
<1>1. place = [rule |-> claim.rule, rules |-> rules, level |-> level, others |-> others,
               with |-> with, vpc |-> estate.vpc, layer |-> layer]
  BY Zenon DEF Place
<1>2. /\ m \in Nat /\ c \in Nat
      /\ \A j \in 1..m : estate.rules[j].rule \in HierRule
      /\ \A k \in 1..c : claims[k].rule \in HierRule
      /\ estate.vpc \in Seq(HierRule)
      /\ \A j \in 1..Len(estate.vpc) : estate.vpc[j].action # "goto_next"
      /\ IsFiniteSet(DOMAIN estate.tree)
  <2> DEFINE Ruled == [policy : STRING, rule : HierRule]
             Claimed == [policy : STRING, rule : HierRule, association : SUBSET STRING,
                         carried : SUBSET STRING]
  <2>1. estate.rules \in Seq(Ruled) /\ claims \in Seq(Claimed)
    BY HierFirewallAssumption DEF CapturedHierarchy
  <2>2. (\A r \in Ruled : r.rule \in HierRule) /\ (\A r \in Claimed : r.rule \in HierRule)
    OBVIOUS
  <2> HIDE DEF Ruled, Claimed
  <2>3. /\ m \in Nat /\ c \in Nat /\ \A j \in 1..m : estate.rules[j] \in Ruled
        /\ \A k \in 1..c : claims[k] \in Claimed
    BY <2>1
  <2>4. /\ estate.vpc \in Seq(HierRule)
        /\ \A j \in 1..Len(estate.vpc) : estate.vpc[j].action # "goto_next"
        /\ IsFiniteSet(DOMAIN estate.tree)
    BY HierFirewallAssumption DEF CapturedHierarchy
  <2> QED BY <2>2, <2>3, <2>4
<1>3. node \in Range(chain)
  BY DEF Misplaced
<1>4. l \in Nat /\ DOMAIN chain = 1..l
  <2> HIDE DEF project
  <2>1. IsWalk(estate.tree, project, chain)
    BY <1>2, ChainIsWalk
  <2> DEFINE V == NodesOf(estate.tree, project)
  <2>2. chain \in Seq(V)
    BY <2>1 DEF IsWalk
  <2> HIDE DEF V, chain
  <2> QED BY <2>2
<1>5. level \in 1..l
  <2>1. \E i \in 1..l : chain[i] = node
    BY <1>3, <1>4 DEF Range
  <2> HIDE DEF chain, l, node
  <2> QED BY <2>1
<1>6. own \in 1..N /\ N \in Nat
  BY <1>2
<1>7. /\ Len(rules) = N /\ rules[own] = claim.rule /\ \A j \in 1..N : rules[j] \in HierRule
  <2>1. rules = [i \in 1..N |-> IF i <= m THEN estate.rules[i].rule ELSE claims[i - m].rule]
    BY DEF AllRules
  <2>2. ASSUME NEW i \in 1..N
        PROVE  (IF i <= m THEN estate.rules[i].rule ELSE claims[i - m].rule) \in HierRule
    <3>1. CASE i <= m
      BY <1>2, <3>1
    <3>2. CASE ~(i <= m)
      <4>1. i - m \in 1..c
        BY <1>2, <3>2
      <4> QED BY <1>2, <3>2, <4>1
    <3> QED BY <3>1, <3>2
  <2>3. ~(own <= m) /\ own - m = mine
    BY <1>2
  <2> HIDE DEF rules, N
  <2> QED BY <1>6, <2>1, <2>2, <2>3
<1>8. \A i \in 1..l : others[i] \in SUBSET (1..N) /\ own \notin others[i]
  <2> SUFFICES ASSUME NEW i \in 1..l, NEW j \in others[i] PROVE j \in 1..N /\ j # own
    OBVIOUS
  <2>1. j \in 1..m \/ \E k \in (1..c) \ {mine} : j = m + k
    OBVIOUS
  <2> HIDE DEF others, m, c
  <2> QED BY <1>2, <2>1
<1>9. /\ with[level] = others[level] \cup {own}
      /\ \A i \in 1..l : i # level => with[i] = others[i]
      /\ DOMAIN others = 1..l /\ DOMAIN with = 1..l /\ Len(others) = l /\ Len(with) = l
  <2>1. DOMAIN others = 1..l /\ Len(others) = l /\ DOMAIN with = 1..l
    BY <1>4
  <2>2. Len(with) = l
    <3> HIDE DEF with
    <3> QED BY <1>4, <2>1
  <2>3. with[level] = others[level] \cup {own} /\ \A i \in 1..l : i # level => with[i] = others[i]
    <3> HIDE DEF others, level, own
    <3> QED BY <1>5, <2>1
  <2> QED BY <2>1, <2>2, <2>3
<1>10. IsLevels(others, l, N) /\ IsLevels(with, l, N)
  <2> HIDE DEF others, with, N, own
  <2>1. \A i \in 1..l : with[i] \in SUBSET (1..N)
    BY <1>6, <1>8, <1>9
  <2> QED BY <1>8, <1>9, <2>1 DEF IsLevels
<1>11. /\ layer \in SUBSET (1..Len(estate.vpc))
       /\ \A j \in layer : /\ estate.vpc[j].networks # {}
                           /\ \/ readable(claim.rule) = {}
                              \/ estate.vpc[j].networks \subseteq readable(claim.rule)
  <2> HIDE DEF project, claim
  <2> QED BY DEF VpcLayer
<1> HIDE DEF claim, rules, level, others, with, layer, N, l, own
<1>12. /\ place.rule = claim.rule /\ place.rules = rules /\ place.level = level
       /\ place.others = others /\ place.with = with /\ place.vpc = estate.vpc
       /\ place.layer = layer
  BY <1>1
<1>13. IsPlace(place, l, N, own)
  BY <1>2, <1>5, <1>6, <1>7, <1>8, <1>9, <1>10, <1>11, <1>12, ZenonT(40) DEF IsPlace
<1> QED BY <1>4, <1>6, <1>13

LEMMA ProposalIsTrue ==
  ASSUME NEW estate, CapturedHierarchy(estate), NEW claims \in Proposals,
         NEW mine \in 1..Len(claims),
         NEW solver, NEW answer, answer = check_hierarchical_order(mine, claims, estate, solver),
         \A v \in answer : v.status # "unverified"
  PROVE  TrueOfPlace(Place(mine, estate, claims), answer)
<1> DEFINE place == Place(mine, estate, claims)
           scoped == \E e \in Entries(place) : ScopeUndecided(place.rule, e.rule)
<1>1. Abstain("order", "mine") \notin answer
  BY DEF Abstain, Finding
<1>2. /\ ~Misplaced(claims[mine], estate, claims)
      /\ answer = Findings(place) \cup (IF scoped THEN {Abstain("order", "mine")} ELSE {})
  BY <1>1 DEF check_hierarchical_order
<1> HIDE DEF place
<1>3. ~scoped
  BY <1>1, <1>2
<1>4. answer = Findings(place) /\ Clear(place)
  BY <1>2, <1>3 DEF Clear
<1>5. PICK l \in Nat : \E n \in Nat : \E own : IsPlace(place, l, n, own)
  BY <1>2, PlaceIs DEF place
<1>6. PICK n \in Nat : \E own : IsPlace(place, l, n, own)
  BY <1>5
<1>7. PICK own : IsPlace(place, l, n, own)
  BY <1>6
<1>8. TrueOfPlace(place, answer)
  BY <1>4, <1>7, PlaceIsTrue
<1> QED BY <1>8 DEF place

\* Whatever firewall policies a hierarchy holds and whatever is proposed for
\* them: a rule called without effect, narrowing or widening is so for every
\* network it shares with the rules it is compared with, and one called
\* unreachable changes nothing unless a rule before it delegates, at every
\* level of the hierarchy and with the rest of the document in its place
\* (hfw_checks.py:881).
THEOREM HierarchiesAreRight == AskSpec => []HierarchyIsTrue
<1>1. Unasked => HierarchyIsTrue
  BY DEF Unasked, Nothing, HierarchyIsTrue
<1>2. QuestionIsRead /\ HierarchyIsTrue /\ [AskNext]_asked => HierarchyIsTrue'
  <2> SUFFICES ASSUME QuestionIsRead, HierarchyIsTrue, [AskNext]_asked PROVE HierarchyIsTrue'
    OBVIOUS
  <2>1. CASE asked' = asked
    BY <2>1 DEF HierarchyIsTrue
  <2>2. CASE AskProposal
    <3>1. PICK claims \in Proposals, there \in BOOLEAN : \E mine \in 1..Len(claims) :
            asked' = [of |-> "proposed-policy-rule", estate |-> asked, claims |-> claims,
                      mine |-> mine,
                      answer |-> check_hierarchical_order(mine, claims, asked,
                                                          [there |-> there, hard |-> {}])]
      BY <2>2 DEF AskProposal
    <3>2. PICK mine \in 1..Len(claims) :
            asked' = [of |-> "proposed-policy-rule", estate |-> asked, claims |-> claims,
                      mine |-> mine,
                      answer |-> check_hierarchical_order(mine, claims, asked,
                                                          [there |-> there, hard |-> {}])]
      BY <3>1
    <3> DEFINE solver == [there |-> there, hard |-> {}]
    <3> HIDE DEF solver
    <3>3. /\ asked'.estate = asked /\ asked'.claims = claims /\ asked'.mine = mine
          /\ asked'.answer = check_hierarchical_order(mine, claims, asked, solver)
      BY <3>2 DEF solver
    <3>4. CapturedHierarchy(asked)
      BY <2>2 DEF AskProposal, QuestionIsRead, HierarchyIsRead, CapturedHierarchy
    <3>5. (\A v \in asked'.answer : v.status # "unverified") =>
             TrueOfPlace(Place(mine, asked, claims), asked'.answer)
      BY <3>3, <3>4, ProposalIsTrue
    <3> QED BY <3>3, <3>5 DEF HierarchyIsTrue
  <2>3. CASE asked'.of # "proposed-policy-rule"
    BY <2>3 DEF HierarchyIsTrue
  <2> QED BY <2>1, <2>2, <2>3, AskedBy
<1> QED BY <1>1, <1>2, QuestionsAreRead, PTL DEF AskSpec

-----------------------------------------------------------------------------
(* Terraform's artifacts.                                                  *)

\* What is written of an object that is known tells it but for its secrets.
LEMMA KnownObjectIs ==
  ASSUME NEW object, IsObject(object), AllKnown(object)
  PROVE  /\ object # Absent /\ Json(object) # Null
         /\ redact(Json(object), SensitiveIn(object)) = Shown(object)
<1>1. object # Absent
  <2>1. "absent" \in DOMAIN Absent
    BY DEF Absent
  <2> QED BY <2>1 DEF IsObject
<1>2. KnownIn(object) = DOMAIN object
  BY DEF AllKnown, KnownIn
<1>3. Json(object) = [a \in DOMAIN object |-> object[a]]
  BY <1>1, <1>2 DEF Json, Restrict
<1>4. DOMAIN Json(object) = DOMAIN object /\ \A a \in DOMAIN object : Json(object)[a] = object[a]
  BY <1>3
<1>5. Json(object) # Null
  <2>1. "null" \in DOMAIN Null
    BY DEF Null
  <2> QED BY <1>4, <2>1 DEF IsObject
<1>6. SensitiveIn(object) = DOMAIN object \cap SensitiveAttributes
  BY <1>1 DEF SensitiveIn
<1>7. redact(Json(object), SensitiveIn(object)) = Shown(object)
  BY <1>4, <1>6 DEF redact, Shown, AllKnown
<1> QED BY <1>1, <1>5, <1>7

\* What is written of an object with its mirror of what is not known yet tells
\* it too, and no attribute of it is lost or read as unset.
LEMMA PlannedObjectIs ==
  ASSUME NEW object, IsObject(object)
  PROVE  /\ object # Absent /\ Json(object) # Null
         /\ Mark(redact(Json(object), SensitiveIn(object)), Mirror(object)) = Shown(object)
<1>1. object # Absent
  <2>1. "absent" \in DOMAIN Absent
    BY DEF Absent
  <2> QED BY <2>1 DEF IsObject
<1> DEFINE known == KnownIn(object)
           values == redact(Json(object), SensitiveIn(object))
<1>2. known \subseteq DOMAIN object /\ \A a \in DOMAIN object : a \in known <=> object[a] # UnknownMark
  BY DEF KnownIn
<1>3. Json(object) = [a \in known |-> object[a]]
  BY <1>1 DEF Json, Restrict
<1>4. Json(object) # Null
  <2>1. "null" \in DOMAIN Null
    BY DEF Null
  <2>2. DOMAIN Json(object) = known
    BY <1>3
  <2> QED BY <1>2, <2>1, <2>2 DEF IsObject
<1>5. SensitiveIn(object) = DOMAIN object \cap SensitiveAttributes /\ Mirror(object) = DOMAIN object \ known
  BY <1>1 DEF SensitiveIn, Mirror
<1>6. /\ DOMAIN values = known
      /\ \A a \in known : values[a] = IF a \in SensitiveAttributes THEN Redacted ELSE object[a]
  BY <1>2, <1>3, <1>5 DEF redact
<1>7. Mark(values, Mirror(object)) =
        [a \in DOMAIN object |-> IF a \in DOMAIN object \ known THEN UnknownMark ELSE values[a]]
  <2>1. known \cup (DOMAIN object \ known) = DOMAIN object
    BY <1>2
  <2> QED BY <1>5, <1>6, <2>1 DEF Mark
<1>8. ASSUME NEW a \in DOMAIN object
      PROVE  (IF a \in DOMAIN object \ known THEN UnknownMark ELSE values[a]) =
             (IF a \in SensitiveAttributes /\ object[a] # UnknownMark THEN Redacted ELSE object[a])
  BY <1>2, <1>6
<1>9. Mark(values, Mirror(object)) = Shown(object)
  <2> HIDE DEF values, known
  <2> QED BY <1>7, <1>8 DEF Shown
<1> QED BY <1>1, <1>4, <1>9

\* A list of at most so many positions.
Positioned(list, n) == n \in Nat /\ DOMAIN list \subseteq 1..n

\* What is said of an address is what some element of the list said of it.
LEMMA ByAddressIs ==
  ASSUME NEW list, NEW n, Positioned(list, n)
  PROVE  /\ DOMAIN ByAddress(list) = {list[i].address : i \in DOMAIN list}
         /\ \A a \in DOMAIN ByAddress(list) :
               \E i \in DOMAIN list : list[i].address = a /\ ByAddress(list)[a] = list[i].values
<1>1. DOMAIN ByAddress(list) = {list[i].address : i \in DOMAIN list}
  BY DEF ByAddress
<1>2. ASSUME NEW a \in DOMAIN ByAddress(list)
      PROVE  \E i \in DOMAIN list : list[i].address = a /\ ByAddress(list)[a] = list[i].values
  <2> DEFINE mine == {i \in DOMAIN list : list[i].address = a}
  <2>1. mine # {} /\ mine \in SUBSET (1..n) /\ n \in Nat
    BY <1>1 DEF Positioned
  <2>2. Max(mine) \in mine
    <3> HIDE DEF mine
    <3> QED BY <2>1, GreatestNumber
  <2>3. ByAddress(list)[a] = list[Max(mine)].values
    BY <1>1 DEF ByAddress
  <2> QED BY <2>2, <2>3
<1> QED BY <1>1, <1>2

\* Facts that tell what there is.
Tells(facts, world) ==
    \A a \in DOMAIN facts : world.before[a] # Absent /\ facts[a] = Shown(world.before[a])

\* Elements that do.
AllTell(list, world) ==
    \A i \in DOMAIN list : /\ world.before[list[i].address] # Absent
                           /\ list[i].values = Shown(world.before[list[i].address])

LEMMA ListTells ==
  ASSUME NEW list, NEW n, Positioned(list, n), NEW world, AllTell(list, world)
  PROVE  Tells(ByAddress(list), world)
<1> SUFFICES ASSUME NEW a \in DOMAIN ByAddress(list)
             PROVE  world.before[a] # Absent /\ ByAddress(list)[a] = Shown(world.before[a])
  BY DEF Tells
<1>1. PICK i \in DOMAIN list : list[i].address = a /\ ByAddress(list)[a] = list[i].values
  BY ByAddressIs
<1> QED BY <1>1 DEF AllTell

\* What is known of a world.
LEMMA WorldIs ==
  ASSUME NEW world \in Worlds
  PROVE  /\ Len(world.order) \in Nat /\ DOMAIN world.order = 1..Len(world.order)
         /\ \A i \in DOMAIN world.order : world.order[i] \in Things
         /\ \A a \in TfAddresses :
              /\ world.before[a] # Absent => IsObject(world.before[a]) /\ AllKnown(world.before[a])
              /\ world.after[a] # Absent => IsObject(world.after[a])
              /\ \E i \in DOMAIN world.order : world.order[i] = [address |-> a, deposed |-> FALSE]
<1>1. world.order \in Seq(Things)
  BY TerraformAssumption
<1> QED BY <1>1, TerraformAssumption

\* What is listed is written in the order of the world.
LEMMA WrittenIs ==
  ASSUME NEW world \in Worlds, NEW live
  PROVE  /\ Written(world, live) \subseteq DOMAIN world.order
         /\ \A i \in Written(world, live) :
              /\ world.order[i].address \in TfAddresses /\ world.order[i].deposed \in BOOLEAN
              /\ ~world.order[i].deposed => world.order[i].address \in live
         /\ \A a \in TfAddresses \cap live :
              \E i \in Written(world, live) : world.order[i].address = a /\ ~world.order[i].deposed
<1>1. \A i \in DOMAIN world.order : /\ world.order[i].address \in TfAddresses
                                    /\ world.order[i].deposed \in BOOLEAN
  BY WorldIs DEF Things
<1>2. ASSUME NEW a \in TfAddresses \cap live
      PROVE  \E i \in Written(world, live) : world.order[i].address = a /\ ~world.order[i].deposed
  <2>1. PICK i \in DOMAIN world.order : world.order[i] = [address |-> a, deposed |-> FALSE]
    BY WorldIs
  <2>2. world.order[i].address = a /\ ~world.order[i].deposed
    BY <2>1
  <2>3. i \in Written(world, live)
    BY <2>2 DEF Written
  <2> QED BY <2>2, <2>3
<1> QED BY <1>1, <1>2 DEF Written

\* The values of what there is tell it.
LEMMA ValuesTell ==
  ASSUME NEW world \in Worlds, NEW shown, NEW listed,
         listed = Missing \/ listed = ValuesOf(world, world.before, shown)
  PROVE  Tells(read_values(listed), world)
<1> DEFINE n == Len(world.order)
           live == {a \in shown : world.before[a] # Absent}
           there == {j \in Written(world, live) : ~world.order[j].deposed}
           L == IF listed = Missing THEN <<>> ELSE listed
           S == {j \in DOMAIN L : L[j].mode = "managed"}
           list == [i \in S |-> [address |-> L[i].address, values |-> redact(L[i].values, L[i].sensitive)]]
<1>1. read_values(listed) = ByAddress(list)
  BY DEF read_values
<1>2. CASE listed = Missing
  <2>1. DOMAIN list = {}
    BY <1>2
  <2>2. Positioned(list, 0) /\ AllTell(list, world)
    BY <2>1 DEF Positioned, AllTell
  <2> QED BY <1>1, <2>2, ListTells
<1>3. CASE listed # Missing
  <2> DEFINE a(i) == world.order[i].address
  <2>1. L = [i \in there |-> [address |-> a(i), mode |-> "managed", values |-> Json(world.before[a(i)]),
                              sensitive |-> SensitiveIn(world.before[a(i)])]]
    BY <1>3 DEF ValuesOf
  <2>2. ASSUME NEW i \in there
        PROVE  /\ i \in 1..n /\ a(i) \in TfAddresses /\ world.before[a(i)] # Absent
               /\ redact(Json(world.before[a(i)]), SensitiveIn(world.before[a(i)]))
                    = Shown(world.before[a(i)])
    <3>1. i \in DOMAIN world.order /\ a(i) \in TfAddresses /\ a(i) \in live
      BY WrittenIs
    <3>2. world.before[a(i)] # Absent /\ i \in 1..n
      BY <3>1, WorldIs
    <3> QED BY <3>1, <3>2, WorldIs, KnownObjectIs
  <2>3. /\ DOMAIN list \subseteq there
        /\ \A i \in DOMAIN list : /\ list[i].address = a(i)
                                  /\ list[i].values = redact(Json(world.before[a(i)]),
                                                             SensitiveIn(world.before[a(i)]))
    <3> HIDE DEF there
    <3> QED BY <2>1
  <2>4. Positioned(list, n) /\ AllTell(list, world)
    <3>1. n \in Nat
      BY WorldIs
    <3> HIDE DEF list, n, there
    <3> QED BY <2>2, <2>3, <3>1 DEF Positioned, AllTell
  <2> HIDE DEF list
  <2> QED BY <1>1, <2>4, ListTells
<1> QED BY <1>2, <1>3

\* The entries of a plan, each with what is at its address.
WrittenEntries(world) ==
    Written(world, {a \in TfAddresses : world.before[a] # Absent \/ world.after[a] # Absent})
EntryAt(world, i) ==
    LET a == world.order[i].address
    IN IF world.order[i].deposed THEN Entry(a, TRUE, <<"delete">>, world.deposed[a], Absent)
       ELSE Entry(a, FALSE, Actions(world, a), world.before[a], world.after[a])
LEMMA EntriesAre ==
  ASSUME NEW world \in Worlds, NEW doc, doc.changes = ChangesOf(world), doc.changes # Missing
  PROVE  EntriesOf(doc) = [i \in WrittenEntries(world) |-> EntryAt(world, i)]
<1>1. ChangesOf(world) = [i \in WrittenEntries(world) |-> EntryAt(world, i)]
  BY DEF ChangesOf, WrittenEntries, EntryAt
<1>2. \A i \in WrittenEntries(world) : EntryAt(world, i).mode = "managed"
  BY DEF EntryAt, Entry
<1> DEFINE c == ChangesOf(world)
<1>3. EntriesOf(doc) = [i \in {j \in DOMAIN c : c[j].mode = "managed"} |-> c[i]]
  BY DEF EntriesOf
<1>4. {j \in DOMAIN c : c[j].mode = "managed"} = WrittenEntries(world)
  BY <1>1, <1>2
<1> QED BY <1>1, <1>3, <1>4

LEMMA BeforeTells ==
  ASSUME NEW world \in Worlds, NEW doc, doc.changes = Missing \/ doc.changes = ChangesOf(world)
  PROVE  Tells(BeforeFacts(doc), world)
<1> DEFINE n == Len(world.order)
           E == EntriesOf(doc)
           S == {j \in DOMAIN E : Occupies(E[j]) /\ E[j].before # Null}
           list == [i \in S |-> [address |-> E[i].address,
                                 values |-> redact(E[i].before, E[i].before_sensitive)]]
<1>1. BeforeFacts(doc) = ByAddress(list)
  BY DEF BeforeFacts
<1>2. CASE doc.changes = Missing
  <2>1. DOMAIN E = {}
    BY <1>2 DEF EntriesOf
  <2>2. DOMAIN list = {}
    BY <2>1
  <2>3. Positioned(list, 0) /\ AllTell(list, world)
    BY <2>2 DEF Positioned, AllTell
  <2> QED BY <1>1, <2>3, ListTells
<1>3. CASE doc.changes # Missing
  <2>1. E = [i \in WrittenEntries(world) |-> EntryAt(world, i)]
    BY <1>3, EntriesAre
  <2>2. ASSUME NEW i \in S
        PROVE  /\ i \in 1..n /\ world.before[list[i].address] # Absent
               /\ list[i].values = Shown(world.before[list[i].address])
    <3> DEFINE a == world.order[i].address
    <3>1. i \in WrittenEntries(world) /\ E[i] = EntryAt(world, i) /\ ~E[i].deposed /\ E[i].before # Null
      BY <2>1 DEF Occupies
    <3>2. i \in DOMAIN world.order /\ a \in TfAddresses /\ i \in 1..n
      BY <3>1, WrittenIs, WorldIs DEF WrittenEntries
    <3>3. ~world.order[i].deposed
      BY <3>1 DEF EntryAt, Entry
    <3>4. /\ E[i].address = a /\ E[i].before = Json(world.before[a])
          /\ E[i].before_sensitive = SensitiveIn(world.before[a])
      BY <3>1, <3>3 DEF EntryAt, Entry
    <3>5. world.before[a] # Absent
      BY <3>1, <3>4 DEF Json
    <3>6. redact(E[i].before, E[i].before_sensitive) = Shown(world.before[a])
      BY <3>2, <3>4, <3>5, WorldIs, KnownObjectIs
    <3>7. list[i].address = a /\ list[i].values = redact(E[i].before, E[i].before_sensitive)
      BY <3>4
    <3> QED BY <3>2, <3>5, <3>6, <3>7
  <2>3. Positioned(list, n) /\ AllTell(list, world)
    <3>1. n \in Nat /\ DOMAIN list = S
      BY WorldIs
    <3> HIDE DEF list, n, S
    <3> QED BY <2>2, <3>1 DEF Positioned, AllTell
  <2> HIDE DEF list
  <2> QED BY <1>1, <2>3, ListTells
<1> QED BY <1>2, <1>3

\* What a state file lists of a world, whatever the mode of it.
InstanceOf(world, r, i) ==
    LET a == world.order[i].address
        object == IF world.order[i].deposed THEN world.deposed[a] ELSE world.before[a]
    IN /\ r.address = a /\ r.deposed = world.order[i].deposed
       /\ r.attributes = Json(object) /\ r.paths = SensitiveIn(object)
WrittenInstances(world) == Written(world, {a \in TfAddresses : world.before[a] # Absent})
InstancesOf(world, resources) ==
    /\ DOMAIN resources = WrittenInstances(world)
    /\ \A i \in DOMAIN resources : InstanceOf(world, resources[i], i)

\* An artifact of a world, spoiled or not: each of its parts is missing or was
\* written of the world, and only a state file has resources and a version.
IsArtifact(file, world) ==
    /\ file.changes = Missing \/ file.changes = ChangesOf(world)
    /\ \A listed \in {file.prior, file.values} :
          listed = Missing \/ \E shown : listed = ValuesOf(world, world.before, shown)
    /\ file.resources = Missing \/ InstancesOf(world, file.resources)

LEMMA ArtifactsAre ==
  ASSUME NEW world \in Worlds, NEW how \in Spoils,
         NEW file \in {PlanFile(world), ShownState(world), StateFile(world)}
  PROVE  IsArtifact(Spoiled(file, how), world)
<1> DEFINE Parts == {"suffix", "readable", "format", "version", "lineage", "backend", "resources",
                      "prior", "changes", "planned", "values"}
           spoiled == Spoiled(file, how)
<1>1. /\ DOMAIN file = Parts
      /\ file.changes = Missing \/ file.changes = ChangesOf(world)
      /\ file.prior = Missing \/ file.prior = ValuesOf(world, world.before, world.refreshed)
      /\ file.values = Missing \/ file.values = ValuesOf(world, world.before, TfAddresses)
  BY DEF PlanFile, ShownState, StateFile, Nowhere
<1>2. file.resources = Missing \/ InstancesOf(world, file.resources)
  <2>1. CASE file # StateFile(world)
    BY <2>1 DEF PlanFile, ShownState, Nowhere
  <2>2. CASE file = StateFile(world)
    <3> DEFINE instance(a, deposed) ==
                 LET object == IF deposed THEN world.deposed[a] ELSE world.before[a]
                 IN [address |-> a, mode |-> "managed", deposed |-> deposed,
                     attributes |-> Json(object), paths |-> SensitiveIn(object)]
    <3>1. file.resources = [i \in WrittenInstances(world) |->
                              instance(world.order[i].address, world.order[i].deposed)]
      BY <2>2 DEF StateFile, Nowhere, WrittenInstances
    <3>2. \A i \in WrittenInstances(world) :
            InstanceOf(world, instance(world.order[i].address, world.order[i].deposed), i)
      BY DEF InstanceOf
    <3> HIDE DEF instance
    <3> QED BY <3>1, <3>2 DEF InstancesOf
  <2> QED BY <2>1, <2>2
<1>3. how \in {"as-written", "unreadable", "another-format", "no-changes", "remote-stub",
               "backup", "data-source"}
  BY TerraformAssumption
<1>4. /\ spoiled.changes = Missing \/ spoiled.changes = ChangesOf(world)
      /\ spoiled.prior = file.prior /\ spoiled.values = file.values
  BY <1>1, <1>3 DEF Spoiled
<1>5. spoiled.resources = Missing \/ InstancesOf(world, spoiled.resources)
  <2>1. CASE how # "data-source"
    <3>1. spoiled.resources = Missing \/ spoiled.resources = file.resources
      BY <1>1, <1>3, <2>1 DEF Spoiled
    <3> QED BY <1>2, <3>1
  <2>2. CASE how = "data-source" /\ file.resources # Missing
    <3> DEFINE R == file.resources
               D == [i \in DOMAIN R |-> [R[i] EXCEPT !.mode = "data"]]
    <3>1. spoiled.resources = D
      BY <1>1, <2>2 DEF Spoiled
    <3>2. ASSUME NEW i \in DOMAIN R PROVE InstanceOf(world, D[i], i)
      <4>1. /\ D[i].address = R[i].address /\ D[i].deposed = R[i].deposed
            /\ D[i].attributes = R[i].attributes /\ D[i].paths = R[i].paths
        OBVIOUS
      <4> HIDE DEF D, R
      <4> QED BY <1>2, <2>2, <4>1 DEF InstanceOf, InstancesOf, R
    <3> QED BY <1>2, <2>2, <3>1, <3>2 DEF InstancesOf
  <2>3. CASE how = "data-source" /\ file.resources = Missing
    BY <1>1, <2>3 DEF Spoiled
  <2> QED BY <2>1, <2>2, <2>3
<1> HIDE DEF spoiled
<1>6. \A listed \in {spoiled.prior, spoiled.values} :
         listed = Missing \/ \E shown : listed = ValuesOf(world, world.before, shown)
  BY <1>1, <1>4
<1> QED BY <1>4, <1>5, <1>6 DEF IsArtifact, spoiled

LEMMA OverlayTells ==
  ASSUME NEW world, NEW first, NEW second, Tells(first, world), Tells(second, world)
  PROVE  Tells(Overlay(first, second), world)
BY DEF Tells, Overlay

\* What a plan says there is was there.
LEMMA PlansTell ==
  ASSUME NEW world \in Worlds, NEW file, IsArtifact(file, world)
  PROVE  Tells(read_plan_document(file).current, world)
<1>1. Tells(read_values(file.prior), world) /\ Tells(read_values(file.values), world)
  BY ValuesTell DEF IsArtifact
<1>2. Tells(BeforeFacts(file), world)
  BY BeforeTells DEF IsArtifact
<1>3. Tells(CurrentFacts(file), world)
  BY <1>1, <1>2, OverlayTells DEF CurrentFacts
<1>4. Tells(NoObjects, world)
  BY DEF Tells, NoObjects
<1>5. read_plan_document(file).current \in {NoObjects, read_values(file.values), CurrentFacts(file)}
  BY DEF read_plan_document, NothingRead
<1> QED BY <1>1, <1>3, <1>4, <1>5

\* What a state file says there is was there, and nothing that was is missing.
LEMMA StatesTell ==
  ASSUME NEW world \in Worlds, NEW file, IsArtifact(file, world), file.resources # Missing
  PROVE  /\ Tells(read_state_document(file).current, world)
         /\ (\A i \in DOMAIN file.resources : file.resources[i].mode = "managed") =>
               DOMAIN read_state_document(file).current = {a \in TfAddresses : world.before[a] # Absent}
<1> DEFINE n == Len(world.order)
           R == file.resources
           S == {i \in DOMAIN R : R[i].mode # "data" /\ Occupies(R[i]) /\ R[i].attributes # Null}
           list == [i \in S |-> [address |-> R[i].address,
                                 values |-> redact(R[i].attributes, R[i].paths)]]
           a(i) == world.order[i].address
<1>1. read_state_document(file).current = ByAddress(list)
  BY DEF read_state_document
<1>2. /\ DOMAIN R = WrittenInstances(world) /\ WrittenInstances(world) \subseteq 1..n /\ n \in Nat
      /\ \A i \in DOMAIN R : InstanceOf(world, R[i], i) /\ a(i) \in TfAddresses
  BY WrittenIs, WorldIs DEF IsArtifact, InstancesOf, WrittenInstances
<1>3. \A i \in DOMAIN R : /\ R[i].address = a(i) /\ (Occupies(R[i]) <=> ~world.order[i].deposed)
                          /\ ~world.order[i].deposed =>
                               /\ R[i].attributes = Json(world.before[a(i)])
                               /\ R[i].paths = SensitiveIn(world.before[a(i)])
  BY <1>2 DEF InstanceOf, Occupies
<1>4. ASSUME NEW i \in S
      PROVE  /\ i \in 1..n /\ list[i].address = a(i) /\ world.before[a(i)] # Absent
             /\ list[i].values = Shown(world.before[a(i)])
  <2>1. /\ i \in 1..n /\ R[i].address = a(i) /\ a(i) \in TfAddresses
        /\ R[i].attributes = Json(world.before[a(i)]) /\ R[i].paths = SensitiveIn(world.before[a(i)])
        /\ R[i].attributes # Null
    BY <1>2, <1>3
  <2>2. world.before[a(i)] # Absent
    BY <2>1 DEF Json
  <2>3. redact(R[i].attributes, R[i].paths) = Shown(world.before[a(i)])
    BY <2>1, <2>2, WorldIs, KnownObjectIs
  <2> QED BY <2>1, <2>2, <2>3
<1>5. Positioned(list, n) /\ AllTell(list, world)
  <2>1. DOMAIN list = S
    OBVIOUS
  <2> HIDE DEF list, n, S
  <2> QED BY <1>2, <1>4, <2>1 DEF Positioned, AllTell
<1>6. Tells(ByAddress(list), world)
  <2> HIDE DEF list
  <2> QED BY <1>5, ListTells
<1>7. ASSUME \A i \in DOMAIN R : R[i].mode = "managed"
      PROVE  DOMAIN ByAddress(list) = {b \in TfAddresses : world.before[b] # Absent}
  <2>1. DOMAIN ByAddress(list) = {list[i].address : i \in S}
    <3>1. DOMAIN list = S
      OBVIOUS
    <3> HIDE DEF list
    <3> QED BY <1>5, <3>1, ByAddressIs, ZenonT(40)
  <2>2. ASSUME NEW b \in TfAddresses, world.before[b] # Absent
        PROVE  \E i \in S : list[i].address = b
    <3> DEFINE live == {x \in TfAddresses : world.before[x] # Absent}
    <3>0. b \in TfAddresses \cap live /\ Written(world, live) = WrittenInstances(world)
      BY <2>2 DEF WrittenInstances
    <3>1. PICK i \in WrittenInstances(world) : a(i) = b /\ ~world.order[i].deposed
      <4> HIDE DEF live
      <4> QED BY <3>0, WrittenIs
    <3>2. Json(world.before[b]) # Null
      BY <2>2, WorldIs, KnownObjectIs
    <3>3. /\ i \in DOMAIN R /\ R[i].mode = "managed" /\ Occupies(R[i])
          /\ R[i].attributes = Json(world.before[b]) /\ R[i].address = b
      BY <1>2, <1>3, <1>7, <3>1
    <3>4. i \in S
      BY <3>2, <3>3
    <3> QED BY <3>3, <3>4
  <2>3. \A i \in S : list[i].address \in TfAddresses /\ world.before[list[i].address] # Absent
    BY <1>2, <1>4
  <2> HIDE DEF list, S
  <2> QED BY <2>1, <2>2, <2>3
<1> QED BY <1>1, <1>6, <1>7

\* Whatever Terraform found, planned and wrote, and however the file was
\* spoiled: what is read of it as there is there, as it may be shown, and a
\* state file tells all there is (plan.py:690, 741, state.py:564).
THEOREM SourcesAreRight == AskSpec => []SourceIsTheEstate
<1>1. Unasked => SourceIsTheEstate
  BY DEF Unasked, Nothing, SourceIsTheEstate
<1>2. QuestionIsRead /\ SourceIsTheEstate /\ [AskNext]_asked => SourceIsTheEstate'
  <2> SUFFICES ASSUME QuestionIsRead, SourceIsTheEstate, [AskNext]_asked PROVE SourceIsTheEstate'
    OBVIOUS
  <2>1. CASE asked' = asked
    BY <2>1 DEF SourceIsTheEstate
  <2>2. CASE AskArtifact
    <3> DEFINE world == asked.world
    <3>1. world \in Worlds /\ asked.how \in Spoils
      BY <2>2 DEF AskArtifact, QuestionIsRead, WorldIsRead
    <3>2. PICK made \in {PlanFile(world), ShownState(world), StateFile(world)} :
            LET file == Spoiled(made, asked.how)
            IN asked' = [of |-> "artifact", world |-> world, file |-> file, kind |-> classify(file),
                         source |-> ReadArtifact(file).current, review |-> read_plan_document(file)]
      BY <2>2 DEF AskArtifact
    <3> DEFINE file == Spoiled(made, asked.how)
               source == ReadArtifact(file).current
    <3>3. /\ asked'.of = "artifact" /\ asked'.world = world /\ asked'.file = file
          /\ asked'.kind = classify(file) /\ asked'.source = source
      BY <3>2
    <3>4. IsArtifact(file, world)
      BY <3>1, ArtifactsAre
    <3> HIDE DEF world, file
    <3>5. classify(file) = "tfstate" => file.resources # Missing
      BY DEF classify
    <3>6. Tells(NothingRead.current, world)
      BY DEF Tells, NothingRead, NoObjects
    <3>7. Tells(source, world)
      <4>1. CASE classify(file) = "tfstate"
        <5>1. source = read_state_document(file).current
          BY <4>1 DEF ReadArtifact
        <5> QED BY <3>1, <3>4, <3>5, <4>1, <5>1, StatesTell
      <4>2. CASE classify(file) \in {"plan_json", "state_json"}
        <5>1. source = read_plan_document(file).current
          BY <4>2 DEF ReadArtifact
        <5> QED BY <3>1, <3>4, <5>1, PlansTell
      <4>3. CASE classify(file) \notin {"tfstate", "plan_json", "state_json"}
        <5>1. source = NothingRead.current
          BY <4>3 DEF ReadArtifact
        <5> QED BY <3>6, <5>1
      <4> QED BY <4>1, <4>2, <4>3
    <3>8. ASSUME classify(file) = "tfstate", \A r \in Range(file.resources) : r.mode = "managed"
          PROVE  DOMAIN source = {a \in TfAddresses : world.before[a] # Absent}
      <4>1. \A i \in DOMAIN file.resources : file.resources[i].mode = "managed"
        BY <3>8 DEF Range
      <4>2. source = read_state_document(file).current
        BY <3>8 DEF ReadArtifact
      <4> QED BY <3>1, <3>4, <3>5, <3>8, <4>1, <4>2, StatesTell
    <3> HIDE DEF source
    <3> QED BY <3>3, <3>7, <3>8 DEF SourceIsTheEstate, Tells
  <2>3. CASE asked'.of # "artifact"
    BY <2>3 DEF SourceIsTheEstate
  <2> QED BY <2>1, <2>2, <2>3, AskedBy
<1> QED BY <1>1, <1>2, QuestionsAreRead, PTL DEF AskSpec

\* What an address with a change is spoken for by: the entry of what is there
\* and shall be there, never one of an old generation.
LEMMA ChangeSpeaks ==
  ASSUME NEW world \in Worlds, NEW doc, doc.changes = ChangesOf(world), doc.changes # Missing,
         NEW a \in TfAddresses, world.before[a] # Absent \/ world.after[a] # Absent
  PROVE  /\ a \in {EntriesOf(doc)[i].address : i \in DOMAIN EntriesOf(doc)}
         /\ Speaking(EntriesOf(doc), a) =
              Entry(a, FALSE, Actions(world, a), world.before[a], world.after[a])
<1> DEFINE entries == EntriesOf(doc)
           mine == {i \in DOMAIN entries : entries[i].address = a}
           live == {i \in mine : ~entries[i].deposed}
           changed == {b \in TfAddresses : world.before[b] # Absent \/ world.after[b] # Absent}
<1>1. entries = [i \in WrittenEntries(world) |-> EntryAt(world, i)]
  BY EntriesAre
<1>2. \A i \in WrittenEntries(world) :
         /\ i \in Nat
         /\ EntryAt(world, i).address = world.order[i].address
         /\ EntryAt(world, i).deposed <=> world.order[i].deposed
  <2>1. \A i \in WrittenEntries(world) : i \in Nat /\ world.order[i].deposed \in BOOLEAN
    BY WrittenIs, WorldIs DEF WrittenEntries
  <2> QED BY <2>1 DEF EntryAt, Entry
<1>3. PICK i \in WrittenEntries(world) : world.order[i].address = a /\ ~world.order[i].deposed
  <2>1. a \in TfAddresses \cap changed /\ Written(world, changed) = WrittenEntries(world)
    BY DEF WrittenEntries
  <2> HIDE DEF changed
  <2> QED BY <2>1, WrittenIs
<1>4. i \in DOMAIN entries /\ entries[i].address = a /\ i \in live
  BY <1>1, <1>2, <1>3
<1>5. live \subseteq Nat /\ live # {}
  BY <1>1, <1>2, <1>4
<1>6. Min(live) \in live
  <2> HIDE DEF live
  <2> QED BY <1>5, SmallestNumber
<1>7. Speaking(entries, a) = entries[Min(live)]
  BY <1>5 DEF Speaking
<1>8. ASSUME NEW k \in live
      PROVE  entries[k] = Entry(a, FALSE, Actions(world, a), world.before[a], world.after[a])
  <2>1. k \in WrittenEntries(world) /\ world.order[k].address = a /\ ~world.order[k].deposed
    BY <1>1, <1>2
  <2> QED BY <1>1, <2>1 DEF EntryAt
<1> HIDE DEF entries, live
<1> QED BY <1>4, <1>6, <1>7, <1>8 DEF entries

\* Whatever a plan changes: it is under review as it shall be, or as it was
\* where it is destroyed, and nothing else speaks for it (plan.py:368, 755, 770).
THEOREM ReviewsAreRight == AskSpec => []ReviewIsTheChange
<1>1. Unasked => ReviewIsTheChange
  BY DEF Unasked, Nothing, ReviewIsTheChange
<1>2. QuestionIsRead /\ ReviewIsTheChange /\ [AskNext]_asked => ReviewIsTheChange'
  <2> SUFFICES ASSUME QuestionIsRead, ReviewIsTheChange, [AskNext]_asked PROVE ReviewIsTheChange'
    OBVIOUS
  <2>1. CASE asked' = asked
    BY <2>1 DEF ReviewIsTheChange
  <2>2. CASE AskArtifact
    <3> DEFINE world == asked.world
    <3>1. world \in Worlds /\ asked.how \in Spoils
      BY <2>2 DEF AskArtifact, QuestionIsRead, WorldIsRead
    <3>2. PICK made \in {PlanFile(world), ShownState(world), StateFile(world)} :
            LET file == Spoiled(made, asked.how)
            IN asked' = [of |-> "artifact", world |-> world, file |-> file, kind |-> classify(file),
                         source |-> ReadArtifact(file).current, review |-> read_plan_document(file)]
      BY <2>2 DEF AskArtifact
    <3> DEFINE file == Spoiled(made, asked.how)
               review == read_plan_document(file)
               proposed == ProposedFacts(file)
    <3>3. /\ asked'.of = "artifact" /\ asked'.world = world /\ asked'.file = file
          /\ asked'.review = review
      BY <3>2
    <3>4. IsArtifact(file, world)
      BY <3>1, ArtifactsAre
    <3> HIDE DEF world, file
    <3>5. SUFFICES ASSUME review.ok, file.changes # Missing, NEW a \in TfAddresses,
                          world.before[a] # world.after[a]
                   PROVE  IF world.after[a] # Absent
                          THEN /\ a \in DOMAIN review.proposed
                               /\ review.proposed[a].values = Shown(world.after[a])
                          ELSE IF a \notin world.forgotten
                          THEN /\ a \in DOMAIN review.proposed
                               /\ review.proposed[a].action = "delete"
                               /\ review.proposed[a].values = Shown(world.before[a])
                          ELSE a \notin DOMAIN review.proposed
      <4> HIDE DEF review
      <4> QED BY <3>3 DEF ReviewIsTheChange
    <3>6. file.changes = ChangesOf(world)
      BY <3>4, <3>5 DEF IsArtifact
    <3>7. review.proposed = proposed
      BY <3>5 DEF read_plan_document, NothingRead
    <3> DEFINE entries == EntriesOf(file)
               e == Entry(a, FALSE, Actions(world, a), world.before[a], world.after[a])
               seen == {entries[i].address : i \in DOMAIN entries}
    <3>8. world.before[a] # Absent \/ world.after[a] # Absent
      BY <3>5
    <3>9. Speaking(entries, a) = e /\ a \in seen
      BY <3>1, <3>5, <3>6, <3>8, ChangeSpeaks
    <3>10. /\ a \in DOMAIN proposed <=> Proposes(e)
           /\ Proposes(e) => proposed[a] = ProposedBy(e)
      <4> DEFINE first == [b \in {c \in seen : Proposes(Speaking(entries, c))} |->
                             ProposedBy(Speaking(entries, b))]
                 planned == read_values(file.planned)
                 second == [b \in DOMAIN planned \ seen |-> [action |-> "no-op", values |-> planned[b]]]
      <4>1. proposed = Overlay(first, second)
        BY DEF ProposedFacts
      <4>2. /\ a \in DOMAIN first <=> Proposes(e)
            /\ a \notin DOMAIN second
            /\ Proposes(e) => first[a] = ProposedBy(e)
        <5> HIDE DEF entries, e, planned, seen
        <5> QED BY <3>9
      <4> HIDE DEF first, second, e
      <4> QED BY <4>1, <4>2 DEF Overlay
    <3>11. /\ e.after = Json(world.after[a]) /\ e.after_unknown = Mirror(world.after[a])
           /\ e.after_sensitive = SensitiveIn(world.after[a])
           /\ e.before = Json(world.before[a]) /\ e.before_sensitive = SensitiveIn(world.before[a])
           /\ e.actions = Actions(world, a)
      BY DEF Entry
    <3> HIDE DEF e, proposed
    <3>12. CASE world.after[a] # Absent
      <4>1. /\ e.after # Null
            /\ Mark(redact(e.after, e.after_sensitive), e.after_unknown) = Shown(world.after[a])
        BY <3>1, <3>11, <3>12, WorldIs, PlannedObjectIs
      <4>2. ProposedBy(e).values = Shown(world.after[a])
        BY <4>1 DEF ProposedBy
      <4> QED BY <3>7, <3>10, <3>12, <4>1, <4>2 DEF Proposes
    <3>13. CASE world.after[a] = Absent
      <4>1. /\ e.after = Null /\ e.before # Null
            /\ redact(e.before, e.before_sensitive) = Shown(world.before[a])
        BY <3>1, <3>5, <3>11, <3>13, WorldIs, KnownObjectIs DEF Json
      <4>2. e.actions = IF a \in world.forgotten THEN <<"forget">> ELSE <<"delete">>
        BY <3>5, <3>11, <3>13 DEF Actions
      <4>3. normalize_action(<<"forget">>) = "update" /\ normalize_action(<<"delete">>) = "delete"
        BY DEF normalize_action
      <4>4. Proposes(e) <=> a \notin world.forgotten
        BY <4>1, <4>2, <4>3 DEF Proposes
      <4>5. a \notin world.forgotten =>
              ProposedBy(e).action = "delete" /\ ProposedBy(e).values = Shown(world.before[a])
        BY <4>1, <4>2, <4>3 DEF ProposedBy
      <4> QED BY <3>7, <3>10, <3>13, <4>4, <4>5
    <3> QED BY <3>12, <3>13
  <2>3. CASE asked'.of # "artifact"
    BY <2>3 DEF ReviewIsTheChange
  <2> QED BY <2>1, <2>2, <2>3, AskedBy
<1> QED BY <1>1, <1>2, QuestionsAreRead, PTL DEF AskSpec
=============================================================================
