---------------------------- MODULE HierFirewall ----------------------------
(***************************************************************************)
(* The hierarchical firewall check (hfw_checks.py, hfw_claims.py): the     *)
(* proposed rules of firewall policies are placed among the rules of every *)
(* level above a project and its VPC rules, and three questions are asked  *)
(* of each: is it reachable, does it re-open a deny, does it widen what    *)
(* the project lets through.  A rule is one of Firewall's, whose action    *)
(* may also be "goto_next" and whose `networks` are those it is scoped to. *)
(***************************************************************************)
EXTENDS Firewall, Hierarchy

CONSTANTS
    ProjectOf,  \* network -> the project it is in
    Trees,      \* the hierarchies a capture may hold
    Policies,   \* the policies it may hold, and the rules of each, in order
    VpcRules,   \* the VPC rules it may hold
    Proposals   \* the proposed rules of a document

HierRule ==
    [name : STRING, network : STRING, direction : STRING, entries : SUBSET STRING,
     action : STRING, priority : Int, disabled : BOOLEAN, ports : SUBSET STRING,
     source_ranges : SUBSET STRING, source_tags : SUBSET STRING, source_sas : SUBSET STRING,
     destination_ranges : SUBSET STRING, target_tags : SUBSET STRING, target_sas : SUBSET STRING,
     networks : SUBSET STRING, readable : BOOLEAN, unsupported : BOOLEAN]
ASSUME HierFirewallAssumption ==
    /\ \A tree \in Trees : IsFiniteSet(DOMAIN tree)
    /\ \A table \in Policies : table.rules \in Seq([policy : STRING, rule : HierRule])
    /\ \A vpc \in VpcRules : /\ vpc \in Seq(HierRule)
                            /\ \A i \in 1..Len(vpc) : vpc[i].action # "goto_next"
    /\ \A claims \in Proposals :
          claims \in Seq([policy : STRING, rule : HierRule, association : SUBSET STRING,
                         carried : SUBSET STRING])

Projects == Range(ProjectOf)
OddNetwork == "odd"         \* a scope that is no network's self-link
readable(rule) == rule.networks \ {OddNetwork}

(* What the normaliser cannot make a rule of: an unknown action or a       *)
(* priority that is no integer, a match that is missing or unreadable, and *)
(* one that does not say where its packets come from or go to.             *)
Unsupported(rule) ==
    \/ rule.action \notin {"allow", "deny", "goto_next"} \/ rule.priority = BadPriority
    \/ ~rule.readable
    \/ rule.direction = "INGRESS" /\ rule.source_ranges = {}
    \/ rule.direction = "EGRESS" /\ rule.destination_ranges = {}

(* A match block, a list or a flag nobody can read makes a rule unreadable;
   it is never read as no restriction.                                     *)
HierEncodable(rule) == Encodable(rule) /\ rule.action \in {"allow", "deny", "goto_next"}

-----------------------------------------------------------------------------
(* The effective decision: the VPC rules innermost, then each level from   *)
(* the project out; "goto_next" gives what the levels inside it give.      *)

(* Mutant: goto_next leaves the packet to the other rules of its level. *)
OutcomeSkipped(rule, e, eff) ==
    CASE rule.action = "allow" -> e \cup rule_match(rule)
      [] rule.action = "deny" -> e \ rule_match(rule)
      [] OTHER -> e
Outcome(rule, e, eff) ==
    CASE rule.action = "allow" -> e \cup rule_match(rule)
      [] rule.action = "deny" -> e \ rule_match(rule)
      [] OTHER -> (e \ rule_match(rule)) \cup (eff \cap rule_match(rule))

(* A level is a set of places in a sequence of rules.                      *)
Decide(rules, level, direction, eff) ==
    FoldRight(LAMBDA r, e : Outcome(r, e, eff),
              Ordered(rules, level \cap Enabled(rules, direction)), eff)
effective_decision(place, levels, direction) ==
    FoldRight(LAMBDA level, eff : Decide(place.rules, level, direction, eff), levels,
              effective_allow(place.vpc, place.layer \cap Enabled(place.vpc, direction),
                              direction = "EGRESS"))

-----------------------------------------------------------------------------
(* Placement.  `estate` is what was captured and which tables of it were;  *)
(* its policies are in the order of their names.                           *)

(* Where a policy is attached: an association of the same document, else   *)
(* what the policy's own document carries, else the estate's record.       *)
Attachment(claim, estate) ==
    CASE claim.association # {} -> claim.association
      [] claim.association = {} /\ claim.carried # {} -> claim.carried
      [] OTHER -> UNION {p.attachments : p \in {q \in Range(estate.policies) :
                                                   q.name = claim.policy}}

(* The projects the rule may be evaluated for: its networks', else the     *)
(* node it is attached to, else those below that node.                     *)
ProjectsUnder(rule, node, estate) ==
    CASE readable(rule) # {} -> {ProjectOf[n] : n \in readable(rule)}
      [] readable(rule) = {} /\ node \in Projects -> {node}
      [] OTHER -> {p \in Projects \cap DOMAIN estate.tree :
                      node \in Range(ancestors(estate.tree, p))}

VpcLayer(rule, project, estate) ==
    {i \in 1..Len(estate.vpc) :
        /\ project \in {ProjectOf[n] : n \in estate.vpc[i].networks}
        /\ readable(rule) = {} \/ estate.vpc[i].networks \subseteq readable(rule)}

(* A policy keys its rules by priority, so a proposed rule replaces the    *)
(* estate's rule of its slot.                                              *)
Slot(claim) == <<claim.policy, claim.rule.priority>>

(* The rules of the estate that a chain holds, each with the level that a  *)
(* policy of the rule is attached to, and the claims that lie on it.       *)
Held(chain, estate) ==
    {h \in (1..Len(chain)) \X (1..Len(estate.rules)) :
        \E p \in Range(estate.policies) :
            p.name = estate.rules[h[2]].policy /\ chain[h[1]] \in p.attachments}
OnChain(claims, estate, chain) ==
    {k \in 1..Len(claims) : \E node \in Range(chain) : Attachment(claims[k], estate) = {node}}
Edits(claims, estate, chain) == {Slot(claims[k]) : k \in OnChain(claims, estate, chain)}

Captured == {"hierarchy", "policies", "vpc"}

Unattached(estate, chain) ==
    \E p \in Range(estate.policies) : p.scope \in Range(chain) /\ p.attachments = {}

(* Why a claim has no place: a table that was not captured; no node, or    *)
(* several, or one the hierarchy does not know; no project, or several; a  *)
(* node off the project's path; a policy scoped on the path that declares  *)
(* no attachment; a slot edited twice, or held twice by the estate; and an *)
(* order of several levels that no rule of the estate contributes to.      *)
Misplaced(claim, estate, claims) ==
    LET nodes == Attachment(claim, estate)
        node == CHOOSE n \in nodes : TRUE
        projects == ProjectsUnder(claim.rule, node, estate)
        chain == ancestry_chain(estate.tree, CHOOSE p \in projects : TRUE)
        held == Held(chain, estate)
    IN \/ estate.captured # Captured \/ Cardinality(nodes) # 1
       \/ node \notin DOMAIN estate.tree \/ Cardinality(projects) # 1
       \/ node \notin Range(chain)
       \/ Unattached(estate, chain)
       \/ \E j, k \in OnChain(claims, estate, chain) :
             j # k /\ Slot(claims[j]) = Slot(claims[k])
       \/ \E h \in held : ~estate.rules[h[2]].rule.readable
       \/ Len(chain) > 1 /\ held = {}
       \/ \E g, h \in held : /\ g # h /\ Slot(estate.rules[g[2]]) = Slot(estate.rules[h[2]])
                             /\ Slot(estate.rules[g[2]]) \in Edits(claims, estate, chain)

(* The rules of the estate and after them those of the document.           *)
AllRules(claims, estate) ==
    LET n == Len(estate.rules)
    IN [i \in 1..(n + Len(claims)) |->
           IF i <= n THEN estate.rules[i].rule ELSE claims[i - n].rule]

(* A place: the rules of each level of the chain with and without the       *)
(* claim's, and the VPC layer under them.                                  *)
Place(mine, estate, claims) ==
    LET claim == claims[mine]
        n == Len(estate.rules)
        node == CHOOSE x \in Attachment(claim, estate) : TRUE
        project == CHOOSE p \in ProjectsUnder(claim.rule, node, estate) : TRUE
        chain == ancestry_chain(estate.tree, project)
        kept(i) == {j \in 1..n : /\ <<i, j>> \in Held(chain, estate)
                                 /\ Slot(estate.rules[j]) \notin Edits(claims, estate, chain)}
        proposed(i) == {k \in (1..Len(claims)) \ {mine} :
                           Attachment(claims[k], estate) = {chain[i]}}
        others == [i \in 1..Len(chain) |-> kept(i) \cup {n + k : k \in proposed(i)}]
        level == CHOOSE i \in 1..Len(chain) : chain[i] = node
    IN [rule |-> claim.rule, rules |-> AllRules(claims, estate), level |-> level,
        others |-> others, with |-> [others EXCEPT ![level] = @ \cup {n + mine}],
        vpc |-> estate.vpc, layer |-> VpcLayer(claim.rule, project, estate)]

(* The others of a place, each with its level; the VPC rules lie innermost. *)
Entries(place) ==
    (UNION {{[level |-> i, rule |-> place.rules[j]] : j \in place.others[i]} :
               i \in 1..Len(place.others)})
    \cup {[level |-> Len(place.others) + 1, rule |-> place.vpc[j]] : j \in place.layer}

WinsOver(a, b) == a.level < b.level \/ (a.level = b.level /\ Outranks(a.rule, b.rule))

-----------------------------------------------------------------------------
(* The three findings.  Rules of disjoint networks are never compared; a   *)
(* scope nobody can read leaves the pair undecided, and the fold whole.    *)

ScopeUndecided(a, b) == OddNetwork \in a.networks \cup b.networks
Disjoint(a, b) == /\ ~ScopeUndecided(a, b) /\ a.networks # {} /\ b.networks # {}
                  /\ a.networks \cap b.networks = {}

(* What may be asked of a pair: both enabled, in one direction.            *)
Rivals(place) ==
    {e \in Entries(place) : /\ ~ScopeUndecided(place.rule, e.rule) /\ ~Disjoint(place.rule, e.rule)
                            /\ e.rule.direction = place.rule.direction /\ ~e.rule.disabled}
Mine(place) == [level |-> place.level, rule |-> place.rule]

Preempting(place) ==
    {e \in Rivals(place) : e.rule.action # "goto_next" /\ WinsOver(e, Mine(place))}
Unreachable(place) ==
    IF /\ Preempting(place) # {}
       /\ rule_match(place.rule) \subseteq UNION {rule_match(e.rule) : e \in Preempting(place)}
    THEN {Finding("contradicted", "shadow", "mine")} ELSE {}

Reopened(place) ==
    {e \in Rivals(place) : /\ place.rule.action = "allow" /\ e.rule.action = "deny"
                           /\ WinsOver(Mine(place), e)}
Reopens(place) ==
    IF \E e \in Reopened(place) :
          rule_match(place.rule) \cap rule_match(e.rule) \cap public(place.rule.direction) # {}
    THEN {Finding("contradicted", "reopen", "mine")} ELSE {}

Folded(levels, place) ==
    [i \in 1..Len(levels) |-> {j \in levels[i] : ~Disjoint(place.rule, place.rules[j])}]
Delta(place) ==
    LET direction == place.rule.direction
        with == effective_decision(place, Folded(place.with, place), direction)
        without == effective_decision(place, Folded(place.others, place), direction)
    IN {CASE with \ without # {} -> Finding("contradicted", "widen", "mine")
          [] with = without -> Finding("grounded", "no-effect", "mine")
          [] OTHER -> Finding("grounded", "narrows", "mine")}

(* A rule that cannot be encoded ends the claim's answer where it is met.  *)
AllEncodable(rules) == \A r \in rules : HierEncodable(r)
Live(rules, direction) == {r \in rules : r.direction = direction /\ ~r.disabled}
Findings(place) ==
    LET asked_of(entries) == {e.rule : e \in entries} \cup
                             (IF entries = {} THEN {} ELSE {place.rule})
        folded == {place.rules[j] : j \in UNION Range(Folded(place.with, place))}
                  \cup {place.vpc[j] : j \in place.layer}
        abstain == {Abstain("order", "mine")}
    IN IF ~AllEncodable(asked_of(Preempting(place))) THEN abstain
       ELSE Unreachable(place) \cup
            IF ~AllEncodable(asked_of(Reopened(place))) THEN abstain
            ELSE Reopens(place) \cup
                 IF ~AllEncodable(Live(folded, place.rule.direction)) THEN abstain
                 ELSE Delta(place)

(* One proposed rule that cannot be encoded stops the check for all.       *)
check_hierarchical_order(mine, claims, estate, solver) ==
    IF \/ ~solver.there \/ \E i \in 1..Len(claims) : Unsupported(claims[i].rule)
       \/ Misplaced(claims[mine], estate, claims)
    THEN {Abstain("order", "mine")}
    ELSE LET place == Place(mine, estate, claims)
         IN Findings(place) \cup
            IF \E e \in Entries(place) : ScopeUndecided(place.rule, e.rule)
            THEN {Abstain("order", "mine")} ELSE {}

-----------------------------------------------------------------------------
(* The questions: a document of proposed rules against a captured estate.  *)

AskHierarchy ==
    /\ Unasked
    /\ \E tree \in Trees, table \in Policies, vpc \in VpcRules,
          captured \in {Captured} \cup {Captured \ {t} : t \in Captured} :
          asked' = [of |-> "captured-hierarchy", tree |-> tree, policies |-> table.policies,
                    rules |-> table.rules, vpc |-> vpc, captured |-> captured]
AskProposal ==
    /\ asked.of = "captured-hierarchy"
    /\ \E claims \in Proposals, there \in BOOLEAN : \E mine \in 1..Len(claims) :
          asked' = [of |-> "proposed-policy-rule", estate |-> asked, claims |-> claims,
                    mine |-> mine,
                    answer |-> check_hierarchical_order(mine, claims, asked,
                                                        [there |-> there, hard |-> {}])]

-----------------------------------------------------------------------------
(* What happens to a packet of a network, said without formulas: at each   *)
(* level the rules that are for this network and match it are asked; those *)
(* of the least priority answer, a deny before the others and otherwise    *)
(* the first of them; the first level that does not answer "goto_next"     *)
(* decides, else the VPC rules do.                                         *)
HitsAt(rules, level, network, direction, p) ==
    {i \in level : /\ rules[i].direction = direction /\ ~rules[i].disabled
                   /\ p \in rule_match(rules[i])
                   /\ rules[i].networks = {} \/ network \in rules[i].networks}
Answer(rules, hits) ==
    LET best == {i \in hits : \A j \in hits : rules[i].priority <= rules[j].priority}
    IN IF hits = {} THEN "goto_next"
       ELSE IF \E i \in best : rules[i].action = "deny" THEN "deny"
       ELSE rules[Min(best)].action
Passes(place, levels, network, direction, p) ==
    LET Says(i) == Answer(place.rules, HitsAt(place.rules, levels[i], network, direction, p))
        deciding == {i \in 1..Len(levels) : Says(i) # "goto_next"}
        vpc == HitsAt(place.vpc, place.layer, network, direction, p)
    IN IF deciding = {} THEN Allowed({place.vpc[i] : i \in vpc}, direction, p)
       ELSE Says(Min(deciding)) = "allow"

(* Networks that the rules compared with one rule are all for.  Rules       *)
(* scoped to other networks of the same project than the claim's are        *)
(* compared as if they were not, which the code records (hfw_checks.py:881).*)
SharedNetworks(place) ==
    {n \in IF place.rule.networks = {} THEN DOMAIN ProjectOf ELSE place.rule.networks :
        \A e \in Entries(place) : \/ e.rule.networks = {} \/ n \in e.rule.networks
                                  \/ Disjoint(place.rule, e.rule)}
Delegated(place) ==
    \E e \in Rivals(place) : e.rule.action = "goto_next" /\ WinsOver(e, Mine(place))

(* What is said of a rule in a place, of every packet of such a network.   *)
TrueOfPlace(place, answer) ==
    LET With(n, p) == Passes(place, place.with, n, place.rule.direction, p)
        Without(n, p) == Passes(place, place.others, n, place.rule.direction, p)
        says(status, kind) == Finding(status, kind, "mine") \in answer
    IN \A n \in SharedNetworks(place) :
          /\ \/ says("contradicted", "shadow") /\ ~Delegated(place)
             \/ says("grounded", "no-effect")
             => \A p \in Packets : With(n, p) <=> Without(n, p)
          /\ says("grounded", "narrows") => \A p \in Packets : With(n, p) => Without(n, p)
          /\ says("contradicted", "widen") => \E p \in Packets : With(n, p) /\ ~Without(n, p)

(* What is said of a proposed rule holds of every network it is for, with  *)
(* the rules of every level and of the rest of the document in their       *)
(* places: unreachable and without effect mean that no packet fares        *)
(* differently for it, narrowing that none fares better, and an allow that *)
(* is neither contradicted nor left open lets nothing in.  A rule is called *)
(* unreachable also behind rules that a goto_next before them takes its    *)
(* packets past (hfw_checks.py:324, 428, 881, 945).                        *)
HierarchyIsTrue ==
    asked.of = "proposed-policy-rule" /\ (\A v \in asked.answer : v.status # "unverified") =>
        TrueOfPlace(Place(asked.mine, asked.estate, asked.claims), asked.answer)
=============================================================================
