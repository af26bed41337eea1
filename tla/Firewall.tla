------------------------------ MODULE Firewall ------------------------------
(***************************************************************************)
(* The packet algebra (packet.py), the normalised VPC firewall rule        *)
(* (fw_claims.py) and the three checks over it: public exposure, the pair  *)
(* against a baseline (fw_checks.py) and shadowing against the estate      *)
(* (fw_estate.py).  A symbolic formula over packets is the set of packets  *)
(* that satisfy it; asking the solver for a model of one is asking whether *)
(* the set is empty, and the solver may be absent or give up.              *)
(***************************************************************************)
EXTENDS Asking, Integers, Sequences, FiniteSets, SequencesExt

CONSTANTS
    Addresses,  \* classes of addresses no rule tells apart further
    Public,     \* those outside NON_PUBLIC_RANGES
    Ports,      \* classes of (protocol, port) pairs
    Sensitive,  \* those of SENSITIVE_PORTS
    Tags,       \* network tags
    Accounts,   \* service accounts
    Documents,  \* the rules a document may propose, as written
    Estates     \* the rule sets a capture or a baseline may hold

(* A packet, the tags of its two ends and their service accounts, of which *)
(* each end has at most one (universe_axioms).                             *)
Packets == [src : Addresses, dst : Addresses, port : Ports,
            src_tags : SUBSET Tags, target_tags : SUBSET Tags,
            src_sas : {s \in SUBSET Accounts : Cardinality(s) <= 1},
            target_sas : {s \in SUBSET Accounts : Cardinality(s) <= 1}]
public(direction) ==
    {p \in Packets : (IF direction = "EGRESS" THEN p.dst ELSE p.src) \in Public}

-----------------------------------------------------------------------------
(* Rules.  A document gives each field, or does not, or in a shape nobody  *)
(* can read; `match` are the readable lists, {} where there is none.       *)

Unset == "absent"
NoPriority == -1        \* the field is absent
BadPriority == -2       \* and here it is no integer

RuleDocument ==
    [name : STRING, network : STRING, direction : STRING, entries : SUBSET {"allow", "deny"},
     priority : Int, disabled : BOOLEAN, ports : SUBSET STRING,
     source_ranges : SUBSET STRING, source_tags : SUBSET STRING, source_sas : SUBSET STRING,
     destination_ranges : SUBSET STRING, target_tags : SUBSET STRING, target_sas : SUBSET STRING]

(* The estate's table is keyed by the rule's path, and the rules of one     *)
(* network are of one project, so that among them the short name is unique. *)
ASSUME FirewallAssumption ==
    /\ Documents \subseteq RuleDocument
    /\ Estates \subseteq Seq(RuleDocument)
    /\ \A e \in Estates : \A i, j \in 1..Len(e) :
          e[i].network = e[j].network /\ e[i].name = e[j].name => i = j

(* What is wrong with a document's rule, in the normaliser's eyes.         *)
Reasons(doc) ==
    {f \in {"network", "direction", "action", "priority"} :
        \/ f = "network" /\ doc.network = Unset
        \/ f = "direction" /\ doc.direction \notin {Unset, "INGRESS", "EGRESS"}
        \/ f = "action" /\ Cardinality(doc.entries) # 1
        \/ f = "priority" /\ doc.priority = BadPriority}

NormalRule(doc) ==
    [f \in DOMAIN doc \cup {"unsupported", "action"} |->
        CASE f = "unsupported" -> Reasons(doc) # {}
          [] f = "action" -> IF Cardinality(doc.entries) = 1
                             THEN CHOOSE a \in doc.entries : TRUE ELSE "none"
          [] f = "direction" /\ doc.direction = Unset -> "INGRESS"
          [] f = "priority" /\ doc.priority = NoPriority -> 1000
          [] OTHER -> doc[f]]

(* A range that is no IPv4 range, and an ingress rule that names no source *)
(* at all, have no packets.                                                *)
Encodable(rule) ==
    /\ rule.destination_ranges \subseteq Addresses
    /\ \/ rule.direction = "EGRESS"
       \/ /\ rule.source_ranges \subseteq Addresses
          /\ rule.source_ranges # {} \/ rule.source_tags # {} \/ rule.source_sas # {}

(* Targets are one list and sources another, each a disjunction; an empty  *)
(* list of targets, ports or destinations restricts nothing.               *)
rule_match(rule) ==
    {p \in Packets :
        /\ rule.target_tags \cup rule.target_sas = {}
              \/ rule.target_tags \cap p.target_tags # {}
              \/ rule.target_sas \cap p.target_sas # {}
        /\ rule.ports = {} \/ p.port \in rule.ports
        /\ rule.destination_ranges = {} \/ p.dst \in rule.destination_ranges
        /\ rule.direction = "EGRESS"
              \/ p.src \in rule.source_ranges
              \/ rule.source_tags \cap p.src_tags # {}
              \/ rule.source_sas \cap p.src_sas # {}}

(* Mutant: of two rules of one priority, the one captured first decides. *)
OutranksByPriority(a, b) == a.priority < b.priority
(* A deny outranks an allow of its priority.                               *)
Outranks(a, b) ==
    \/ a.priority < b.priority
    \/ a.priority = b.priority /\ a.action = "deny" /\ b.action # "deny"

(* Where the rules of a direction are that are enabled.                    *)
Enabled(rules, direction) ==
    {i \in 1..Len(rules) : rules[i].direction = direction /\ ~rules[i].disabled}

(* The rules at these places, the first to apply first; of two that tie,   *)
(* the one captured first.                                                 *)
Ordered(rules, live) ==
    LET Before(i, j) == \/ Outranks(rules[i], rules[j])
                        \/ i < j /\ ~Outranks(rules[j], rules[i])
        rank(i) == Cardinality({j \in live : Before(j, i)}) + 1
    IN [k \in 1..Cardinality(live) |-> rules[CHOOSE i \in live : rank(i) = k]]

(* The packets a rule set allows: the rules are folded from the lowest     *)
(* precedence up, each deciding what it matches.                           *)
effective_allow(rules, live, default_allow) ==
    FoldRight(LAMBDA r, allowed : IF r.action = "allow" THEN allowed \cup rule_match(r)
                                  ELSE allowed \ rule_match(r),
              Ordered(rules, live), IF default_allow THEN Packets ELSE {})

-----------------------------------------------------------------------------
(* The checks.  A solver is there or not, and gives up on some questions.  *)

Finding(status, kind, about) == [status |-> status, kind |-> kind, about |-> about]
Abstain(kind, about) == Finding("unverified", kind, about)

(* Public exposure of one enabled ingress allow.                           *)
check_open_exposure(rule, solver) ==
    LET exposed == {p \in rule_match(rule) \cap public("INGRESS") : p.port \in Sensitive}
    IN CASE ~solver.there \/ rule.unsupported -> {Abstain("exposure", rule.name)}
         [] solver.there /\ ~rule.unsupported
               /\ (rule.direction # "INGRESS" \/ rule.action # "allow" \/ rule.disabled) -> {}
         [] OTHER -> IF ~Encodable(rule) \/ "exposure" \in solver.hard
                     THEN {Abstain("exposure", rule.name)}
                     ELSE {Finding(IF exposed = {} THEN "grounded" ELSE "contradicted",
                                   "exposure", rule.name)}

Group(rules, network, direction) ==
    {i \in 1..Len(rules) : rules[i].network = network /\ rules[i].direction = direction}
Networks(rules) == {rules[i].network : i \in 1..Len(rules)}

Compared(new, mine, old, theirs, direction) ==
    effective_allow(new, mine \cap Enabled(new, direction), direction = "EGRESS")
        \subseteq effective_allow(old, theirs \cap Enabled(old, direction), direction = "EGRESS")

(* The rules of a document against those of its baseline, network by       *)
(* network and direction by direction.  A rule that could be in any group  *)
(* stops the whole comparison, one that cannot be encoded its group's; a   *)
(* baseline about other networks is none.                                  *)
check_packet_set_pair(new, old, solver) ==
    LET all == new \o old
        unplaceable == \E i \in 1..Len(all) : all[i].network = Unset
                                              \/ all[i].direction = "bad"
        Offender(rules, group) == \E i \in group :
               rules[i].unsupported \/ (~rules[i].disabled /\ ~Encodable(rules[i]))
        groups == {<<all[i].network, all[i].direction>> : i \in 1..Len(all)}
    IN IF \/ ~solver.there \/ new = <<>> \/ old = <<>> \/ unplaceable
          \/ Networks(new) \cap Networks(old) = {}
       THEN {Abstain("pair", "document")}
       ELSE {LET mine == Group(new, g[1], g[2])
                 theirs == Group(old, g[1], g[2])
             IN IF Offender(new, mine) \/ Offender(old, theirs) \/ "pair" \in solver.hard
                THEN Abstain("pair", g)
                ELSE Finding(IF Compared(new, mine, old, theirs, g[2])
                             THEN "grounded" ELSE "contradicted", "pair", g) : g \in groups}

(* Mutant: the estate's own copy of the proposed rule is kept. *)
OthersWithSelf(rule, estate) ==
    {r \in Range(estate) : /\ r.network = rule.network /\ r.direction = rule.direction
                           /\ ~r.disabled}
(* The estate's enabled rules of the network and direction, but the one    *)
(* the proposal replaces.                                                  *)
Others(rule, estate) ==
    {r \in Range(estate) : /\ r.network = rule.network /\ r.direction = rule.direction
                           /\ ~r.disabled /\ r.name # rule.name}

(* Every packet the rule matches is decided before it.                     *)
UnreachableProposal(rule, higher, solver) ==
    CASE higher = {} -> {}
      [] higher # {} /\ "preempt" \in solver.hard -> {Abstain("shadow", rule.name)}
      [] OTHER -> IF rule_match(rule) \subseteq UNION {rule_match(r) : r \in higher}
                  THEN {Finding("contradicted", "shadow", rule.name)} ELSE {}

(* An allow that now decides packets an existing deny decided: from public *)
(* addresses it re-opens them, from others it narrows the deny.            *)
ReopenedDeny(rule, lower, solver) ==
    LET overlap(d) == rule_match(rule) \cap rule_match(d)
    IN UNION {CASE "overlap" \in solver.hard -> {Abstain("reopen", rule.name)}
                [] "overlap" \notin solver.hard /\ overlap(d) = {} -> {}
                [] OTHER -> IF "public" \in solver.hard THEN {Abstain("reopen", rule.name)}
                            ELSE {Finding(IF overlap(d) \cap public(rule.direction) = {}
                                          THEN "grounded" ELSE "contradicted",
                                          "reopen", rule.name)}
              : d \in {r \in lower : r.action = "deny"}}

(* An existing allow every packet of which this deny decides.              *)
KilledAllow(rule, lower, solver) ==
    {IF "killed" \in solver.hard THEN Abstain("shadow", rule.name)
     ELSE Finding("contradicted", "killed", a.name) :
        a \in {r \in lower : /\ r.action = "allow" /\ rule_match(r) # {}
                             /\ "killed" \in solver.hard
                                   \/ rule_match(r) \subseteq rule_match(rule)}}

check_rule(rule, estate, solver) ==
    LET others == Others(rule, estate)
        lower == {r \in others : Outranks(rule, r)}
    IN IF \/ ~Encodable(rule) \/ \E r \in others : ~Encodable(r)
          \/ rule_match(rule) = {} \/ "match" \in solver.hard
       THEN {Abstain("shadow", rule.name)}
       ELSE UnreachableProposal(rule, {r \in others : Outranks(r, rule)}, solver)
            \cup CASE rule.action = "allow" -> ReopenedDeny(rule, lower, solver)
                   [] rule.action = "deny" -> KilledAllow(rule, lower, solver)
                   [] OTHER -> {}

(* A disabled proposal answers nothing; a shape nobody reads, a network    *)
(* that does not canonicalise and an estate nobody captured abstain.       *)
check_firewall_shadowing(rule, estate, captured, solver) ==
    CASE rule.disabled -> {}
      [] ~rule.disabled /\ (rule.unsupported \/ rule.network = "odd"
                            \/ ~captured \/ ~solver.there) -> {Abstain("shadow", rule.name)}
      [] OTHER -> check_rule(rule, estate, solver)

-----------------------------------------------------------------------------
(* The questions: one rule against an estate, a document against another.  *)

Questions == {"exposure", "match", "preempt", "overlap", "public", "killed", "pair"}
Solvers == {[there |-> FALSE, hard |-> {}]}
           \cup {[there |-> TRUE, hard |-> h] : h \in {{}, {"overlap"}, {"public"}, Questions}}

Read(docs) == [i \in 1..Len(docs) |-> NormalRule(docs[i])]

AskEstate ==
    /\ Unasked
    /\ \E estate \in Estates : asked' = [of |-> "firewall-estate", estate |-> Read(estate)]
AskRule ==
    /\ asked.of = "firewall-estate"
    /\ \E doc \in Documents, solver \in Solvers :
          asked' = [of |-> "firewall-rule", rule |-> NormalRule(doc), estate |-> asked.estate,
                    solver |-> solver,
                    answer |-> check_open_exposure(NormalRule(doc), solver) \cup
                               check_firewall_shadowing(NormalRule(doc), asked.estate, TRUE, solver)]
AskPair ==
    /\ asked.of = "firewall-estate"
    /\ \E old \in Estates :
          asked' = [of |-> "firewall-pair", new |-> asked.estate, old |-> Read(old),
                    answer |-> check_packet_set_pair(asked.estate, Read(old),
                                                     [there |-> TRUE, hard |-> {}])]

-----------------------------------------------------------------------------
(* What the network does with a packet, said without formulas: the enabled *)
(* rules of the direction that match it, of these the ones of the lowest   *)
(* priority number, and a deny among them wins.                            *)
Allowed(rules, direction, p) ==
    LET hits == {r \in rules : r.direction = direction /\ ~r.disabled /\ p \in rule_match(r)}
        first == {r \in hits : \A q \in hits : r.priority <= q.priority}
    IN IF hits = {} THEN direction = "EGRESS" ELSE \A r \in first : r.action # "deny"

(* What the network makes of two groups, against what is said of them.    *)
TrueOfPair(new, old, v) ==
    LET mine == {new[i] : i \in Group(new, v.about[1], v.about[2])}
        theirs == {old[i] : i \in Group(old, v.about[1], v.about[2])}
        opens == \E p \in Packets : /\ Allowed(mine, v.about[2], p)
                                    /\ ~Allowed(theirs, v.about[2], p)
    IN /\ v.status = "grounded" => ~opens
       /\ v.status = "contradicted" => opens
       /\ v.status # "unverified" => \A r \in mine \cup theirs : ~r.unsupported

(* The comparison with a baseline says so if and only if the new rules     *)
(* allow a packet the old ones denied, in whatever order either side was   *)
(* captured, and says nothing of a group with a rule it cannot read        *)
(* (packet.py:400, fw_checks.py:259).                                      *)
PairIsTrue ==
    asked.of = "firewall-pair" =>
        \A v \in asked.answer : v.about # "document" => TrueOfPair(asked.new, asked.old, v)

(* The network without the rule, with it, and with it but without another. *)
TrueOfRule(rule, estate, answer) ==
    LET rest == {r \in Range(estate) : r.network = rule.network /\ r.name # rule.name}
        Same(a, b) == \A p \in Packets : Allowed(a, rule.direction, p)
                                             = Allowed(b, rule.direction, p)
        denied(p) == \E r \in rest : /\ r.direction = rule.direction /\ ~r.disabled
                                     /\ r.action = "deny" /\ p \in rule_match(r)
    IN /\ Finding("contradicted", "shadow", rule.name) \in answer => Same(rest, rest \cup {rule})
       /\ \A a \in rest : Finding("contradicted", "killed", a.name) \in answer =>
             Same(rest \cup {rule}, (rest \ {a}) \cup {rule})
       /\ \A v \in answer : v.status # "unverified" /\ v.kind # "reopen" => ~rule.unsupported
       /\ /\ ~rule.unsupported /\ rule.action = "allow" /\ ~rule.disabled
          /\ rule.network # "odd"
          /\ \A v \in answer : v.kind = "reopen" => v.status = "grounded"
          /\ ~\E v \in answer : v.status = "unverified"
          => \A p \in public(rule.direction) :
                Allowed(rest \cup {rule}, rule.direction, p) /\ denied(p)
                    => Allowed(rest, rule.direction, p)

(* The comparison with the estate is right about the effect of a rule: one *)
(* called unreachable changes nothing where it lands, an allow it kills    *)
(* decides nothing afterwards, and an allow nobody contradicts lets no     *)
(* public packet past a deny of the estate (fw_estate.py:265).             *)
ShadowIsTrue ==
    asked.of = "firewall-rule" => TrueOfRule(asked.rule, asked.estate, asked.answer)
=============================================================================
