----------------------------- MODULE OrgPolicy -----------------------------
(***************************************************************************)
(* Organisation policies: what the policies set along a node's ancestry    *)
(* put in force there (org_effective.py), what a proposed document changes *)
(* of it, and whether it stops enforcing or widens what was set at its own *)
(* node (org_checks.py).  A policy is a reset flag, an inherit flag and    *)
(* rules; a rule sets one of enforce, allow_all, deny_all and values.      *)
(***************************************************************************)
EXTENDS Hierarchy

CONSTANTS
    OrgTables,      \* the hierarchies a capture may hold
    OrgSettings,    \* the policies it may hold: node -> policy
    OrgDocuments,   \* the proposals: targets [node, policy]
    Values          \* the values of a list constraint

Flags == {"none", "true", "false"}
ValueTypes == {"boolean", "list", "other"}
Defaults == {"ALLOW", "DENY", "unknown"}

(* The documents: a flag is absent, true or false; `values` is whether the *)
(* lists of allowed and denied values are there, both empty where not.     *)
RuleSetting ==
    {r \in [enforce : Flags, allow_all : Flags, deny_all : Flags, values : BOOLEAN,
            allowed : SUBSET STRING, denied : SUBSET STRING, condition : BOOLEAN, odd : BOOLEAN] :
        ~r.values => r.allowed \cup r.denied = {}}
PolicySetting == [reset : BOOLEAN, inherit : BOOLEAN, rules : Seq(RuleSetting)]
ASSUME OrgAssumption ==
    /\ \A table \in OrgTables : IsFiniteSet(DOMAIN table)
    /\ \A set \in OrgSettings : \A n \in DOMAIN set : set[n] \in PolicySetting
    /\ \A targets \in OrgDocuments : targets \in Seq([node : STRING, policy : PolicySetting])

Undecided == [decided |-> FALSE]
Enforced(flag) == [enforce |-> flag]
ListState(allowed, denied, allow_all, deny_all) ==
    [allowed |-> allowed, denied |-> denied, allow_all |-> allow_all, deny_all |-> deny_all]

-----------------------------------------------------------------------------
(* Reading one policy.                                                     *)

(* What a rule states: a false flag states nothing, but for enforce. *)
Stated(rule) ==
    {k \in {"enforce", "allow_all", "deny_all", "values"} :
        \/ k = "enforce" /\ rule.enforce # "none"
        \/ k = "allow_all" /\ rule.allow_all = "true"
        \/ k = "deny_all" /\ rule.deny_all = "true"
        \/ k = "values" /\ rule.allowed \cup rule.denied # {}}
(* The rules in the shape that is folded; one that has none is odd.        *)
RulesIn(policy) == Range(policy.rules)

(* A policy with a rule nobody can read, with a condition, or that resets  *)
(* and sets rules, decides nothing.                                        *)
Gated(policy) == /\ \A r \in RulesIn(policy) : ~r.odd /\ ~r.condition
                 /\ policy.reset => policy.rules = <<>>

BooleanShaped(policy) ==
    /\ policy.rules # <<>>
    /\ \A r \in RulesIn(policy) : Stated(r) = {"enforce"}
    /\ Cardinality({r.enforce : r \in RulesIn(policy)}) = 1
ListShaped(policy) ==
    \A r \in RulesIn(policy) : Cardinality(Stated(r)) = 1 /\ Stated(r) # {"enforce"}

LocalBool(policy) == Enforced(Head(policy.rules).enforce)
LocalList(policy) ==
    ListState(UNION {r.allowed : r \in RulesIn(policy)}, UNION {r.denied : r \in RulesIn(policy)},
              \E r \in RulesIn(policy) : r.allow_all = "true",
              \E r \in RulesIn(policy) : r.deny_all = "true")

-----------------------------------------------------------------------------
(* The fold along a chain, outermost first.  `set` maps a node to its      *)
(* policy, `record` is the captured constraint.                            *)

DefaultBool(record) ==
    IF record.default = "unknown" THEN Undecided
    ELSE Enforced(IF record.default = "DENY" THEN "true" ELSE "false")
DefaultList(record) ==
    IF record.default = "unknown" THEN Undecided
    ELSE ListState({}, {}, record.default = "ALLOW", record.default = "DENY")

(* Where on the chain a policy is set.                                     *)
SetOn(chain, set) == {i \in 1..Len(chain) : chain[i] \in DOMAIN set}

(* A boolean is decided by the nearest policy alone. *)
effective_bool(chain, set, record) ==
    IF SetOn(chain, set) = {} THEN DefaultBool(record)
    ELSE LET policy == set[chain[Max(SetOn(chain, set))]]
         IN CASE ~Gated(policy) \/ policy.inherit -> Undecided
              [] Gated(policy) /\ ~policy.inherit /\ policy.reset -> DefaultBool(record)
              [] OTHER -> IF BooleanShaped(policy) THEN LocalBool(policy) ELSE Undecided

AtDefault == [default |-> TRUE]
Resolved(state, record) == IF state = AtDefault THEN DefaultList(record) ELSE state
Merged(a, b) == ListState(a.allowed \cup b.allowed, a.denied \cup b.denied,
                          a.allow_all \/ b.allow_all, a.deny_all \/ b.deny_all)

(* Mutant: a policy that sets its own values keeps what was above it. *)
InheritsAlways(policy) == TRUE
Inherits(policy) == policy.inherit

(* A list is folded from the root: a reset goes back to the managed        *)
(* default, an inheriting policy adds to what is above it, any other       *)
(* replaces it.                                                            *)
FoldPolicy(state, policy, record) ==
    IF state = Undecided \/ ~Gated(policy) THEN Undecided
    ELSE IF policy.reset THEN AtDefault
    ELSE IF policy.rules = <<>> THEN IF policy.inherit THEN state ELSE Undecided
    ELSE IF ~ListShaped(policy) THEN Undecided
    ELSE IF ~Inherits(policy) THEN LocalList(policy)
    ELSE IF Resolved(state, record) = Undecided THEN Undecided
    ELSE Merged(Resolved(state, record), LocalList(policy))
StateAlong(chain, set, record) ==
    LET state[i \in 0..Len(chain)] ==
          IF i = 0 THEN AtDefault
          ELSE IF chain[i] \in DOMAIN set THEN FoldPolicy(state[i - 1], set[chain[i]], record)
          ELSE state[i - 1]
    IN state[Len(chain)]
effective_list(chain, set, record) == Resolved(StateAlong(chain, set, record), record)

Effective(chain, set, record) ==
    IF record.value_type = "boolean" THEN effective_bool(chain, set, record)
    ELSE effective_list(chain, set, record)

(* What two states have in common when they read the same: denying all     *)
(* hides the values, and a denied value is not an allowed one.             *)
Canonical(state) ==
    IF state = Undecided \/ "enforce" \in DOMAIN state THEN state
    ELSE IF state.deny_all THEN ListState({}, {}, FALSE, TRUE)
    ELSE [state EXCEPT !.allowed = state.allowed \ state.denied]

(* The rows of a node: one that denies all, else what is denied, then what *)
(* is allowed and not denied.  One row may be of every value.              *)
Row(node, polarity, value) ==
    [node |-> node, polarity |-> polarity, value |-> value, all_values |-> FALSE]
RowOfAll(node, polarity) ==
    [node |-> node, polarity |-> polarity, value |-> "", all_values |-> TRUE]
Contradictory(state) == state # Undecided /\ state.deny_all /\ state.allow_all
list_rows(node, state) ==
    IF state.deny_all THEN {RowOfAll(node, "deny")}
    ELSE {Row(node, "deny", v) : v \in state.denied}
         \cup {Row(node, "allow", v) : v \in state.allowed \ state.denied}
         \cup IF state.allow_all THEN {RowOfAll(node, "allow")} ELSE {}

-----------------------------------------------------------------------------
(* The document under review over the estate.                              *)

(* A chain that is broken decides nothing, and neither does any question   *)
(* about the whole table.                                                  *)
Universe(table, node) ==
    {node} \cup {n \in DOMAIN table : node \in Range(ancestry_chain(table, n))}

(* Two targets of one node, a target of a node nobody captured, and a      *)
(* table that was not captured whole, end the whole answer.                *)
OutOfReach(estate, targets) ==
    \/ ~estate.complete
    \/ \E i \in 1..Len(targets) : targets[i].node \notin DOMAIN estate.table
    \/ \E i, j \in 1..Len(targets) : i # j /\ targets[i].node = targets[j].node
    \/ \E i \in 1..Len(targets) : \E r \in RulesIn(targets[i].policy) : r.odd
    \/ estate.record.value_type = "other"

Over(estate, targets) ==
    LET at(n) == CHOOSE i \in 1..Len(targets) : targets[i].node = n
    IN [n \in DOMAIN estate.set \cup {targets[i].node : i \in 1..Len(targets)} |->
            IF \E i \in 1..Len(targets) : targets[i].node = n
            THEN targets[at(n)].policy ELSE estate.set[n]]

EffectiveAt(node, set, estate) ==
    Effective(ancestry_chain(estate.table, node), set, estate.record)
AnyBroken(table) == \E n \in DOMAIN table : Broken(table, n)

(* The rows of the domain, for every node at or below a target, with the   *)
(* whole document in place; one node that is undecided leaves no rows.     *)
effective_records(estate, targets) ==
    LET nodes == UNION {Universe(estate.table, targets[i].node) : i \in 1..Len(targets)}
        state(n) == EffectiveAt(n, Over(estate, targets), estate)
    IN IF \/ OutOfReach(estate, targets) \/ AnyBroken(estate.table)
          \/ \E n \in nodes : state(n) = Undecided
       THEN Undecided
       ELSE IF estate.record.value_type = "boolean"
            THEN [rows |-> {[node |-> n, enforce |-> state(n).enforce] : n \in nodes}]
            ELSE IF \E n \in nodes : Contradictory(state(n)) THEN Undecided
                 ELSE [rows |-> UNION {list_rows(n, state(n)) : n \in nodes}]

(* What one target changes, by itself, at the nodes it governs.            *)
target_verdict(estate, target) ==
    LET nodes == Universe(estate.table, target.node)
        before(n) == EffectiveAt(n, estate.set, estate)
        after(n) == EffectiveAt(n, Over(estate, <<target>>), estate)
    IN IF AnyBroken(estate.table)
             \/ \E n \in nodes : before(n) = Undecided \/ after(n) = Undecided
       THEN "undecided"
       ELSE IF \E n \in nodes : Canonical(before(n)) # Canonical(after(n))
            THEN "alters" ELSE "inert"
check_org_effective(estate, targets) ==
    IF OutOfReach(estate, targets) THEN [i \in 1..Len(targets) |-> "undecided"]
    ELSE [i \in 1..Len(targets) |-> target_verdict(estate, targets[i])]

-----------------------------------------------------------------------------
(* The checks of a document's own rules against what was set before.       *)

Constrains(rule) == \/ rule.enforce = "true" \/ rule.allow_all # "none"
                    \/ rule.deny_all # "none" \/ rule.allowed \cup rule.denied # {}
ListRules(prior) == {r \in prior.rules : r.enforce = "none"}
WasEnforced(prior) == ~prior.reset /\ \E r \in prior.rules : Constrains(r)

(* A rule with none or several of the value keys cannot be read.           *)
ValueKeys(rule) == {k \in {"enforce", "allow_all", "deny_all", "values"} :
                  IF k = "values" THEN rule.values ELSE rule[k] # "none"}
Unreadable(rule) == rule.odd \/ Cardinality(ValueKeys(rule)) # 1
NoRule == [enforce |-> "none", allow_all |-> "none", deny_all |-> "none", values |-> FALSE,
           allowed |-> {}, denied |-> {}, condition |-> FALSE, odd |-> FALSE]

(* One claim a rule, and one for the document when no rule was read but it *)
(* resets or inherits.                                                     *)
EnforcementClaims(policy) ==
    {[rule |-> r, whole |-> FALSE, unreadable |-> Unreadable(r)] : r \in RulesIn(policy)}
    \cup IF (\A r \in RulesIn(policy) : Unreadable(r)) /\ (policy.reset \/ policy.inherit)
         THEN {[rule |-> NoRule, whole |-> TRUE, unreadable |-> FALSE]} ELSE {}

Disables(claim, policy) == \/ claim.rule.enforce = "false" \/ policy.reset
                           \/ policy.inherit /\ claim.whole
ComparesValues(claim, prior) ==
    \/ claim.rule.allow_all # "none" \/ claim.rule.deny_all # "none"
    \/ claim.rule.allowed \cup claim.rule.denied # {}
    \/ claim.rule.enforce = "none" /\ ~claim.whole /\ ListRules(prior) # {}

(* Mutant: only the allowed side is compared. *)
WidensAllowed(rule, allowed, denied, denies_all) == rule.allowed \ allowed # {}
(* A value more is allowed, or one fewer is denied.                        *)
Widens(rule, allowed, denied, denies_all) ==
    \/ rule.allowed \ allowed # {}
    \/ rule.deny_all # "true" /\ (denied \ rule.denied # {} \/ denies_all)

check_widening(rule, prior) ==
    LET rules == ListRules(prior)
        denied == UNION {r.denied : r \in rules}
        denies_all == \E r \in rules : r.deny_all = "true"
        allows_all == \E r \in rules : r.allow_all = "true"
    IN IF rules = {} THEN "unverified"
       ELSE IF allows_all /\ denied = {} /\ ~denies_all THEN "grounded"
       ELSE IF \/ rule.allow_all = "true"
               \/ Widens(rule, UNION {r.allowed : r \in rules}, denied, denies_all)
            THEN "contradicted" ELSE "grounded"

(* What was set before, as the estate records it, where it must carry a    *)
(* rule, or as a baseline document says it, of which the rules nobody can  *)
(* read are left out and a bare reset or inheritance says enough.  A       *)
(* baseline that sets nothing leaves the question to the estate.           *)
Prior(was, baseline) ==
    [rules |-> {r \in RulesIn(was) : baseline => ~Unreadable(r)}, reset |-> was.reset,
     silent |-> was.rules = <<>> /\ (baseline => ~was.reset /\ ~was.inherit)]
check_enforcement(policy, prior) ==
    LET of(claim) ==
          IF claim.unreadable \/ prior.silent THEN {"unverified"}
          ELSE {IF WasEnforced(prior) /\ Disables(claim, policy)
                THEN "contradicted" ELSE "grounded"}
               \cup IF ComparesValues(claim, prior) THEN {check_widening(claim.rule, prior)}
                    ELSE {}
    IN UNION {of(c) : c \in EnforcementClaims(policy)}

-----------------------------------------------------------------------------
(* The questions: an estate is captured, then a document is proposed.      *)

AskOrg ==
    /\ Unasked
    /\ \E table \in OrgTables, set \in OrgSettings, complete \in BOOLEAN,
          value_type \in ValueTypes, default \in Defaults :
          asked' = [of |-> "captured-policies", table |-> table, set |-> set,
                    complete |-> complete,
                    record |-> [value_type |-> value_type, default |-> default]]
AskOrgDocument ==
    /\ asked.of = "captured-policies"
    /\ \E targets \in OrgDocuments :
          asked' = [of |-> "policy-document", estate |-> asked, targets |-> targets,
                    records |-> effective_records(asked, targets),
                    verdicts |-> check_org_effective(asked, targets)]

-----------------------------------------------------------------------------
(* What is in force at a node, said without a fold.  A reset, and rules    *)
(* that do not inherit, start anew; the policies in force are those after  *)
(* which none does, and the default is in force with them unless the one   *)
(* that starts anew sets rules.                                            *)
StartsAnew(policy) == policy.reset \/ (policy.rules # <<>> /\ ~policy.inherit)
Remaining(chain, set, upto) ==
    {i \in 1..upto : /\ chain[i] \in DOMAIN set
                     /\ \A j \in (i + 1)..upto : chain[j] \in DOMAIN set
                                                    => ~StartsAnew(set[chain[j]])}
RulesInForce(chain, set, upto) ==
    UNION {RulesIn(set[chain[i]]) : i \in Remaining(chain, set, upto)}
DefaultInForce(chain, set, upto) ==
    \A i \in Remaining(chain, set, upto) : StartsAnew(set[chain[i]]) => set[chain[i]].reset
InForce(node, set, estate) ==
    LET chain == ancestry_chain(estate.table, node)
        rules == RulesInForce(chain, set, Len(chain))
        default(d) == DefaultInForce(chain, set, Len(chain)) /\ estate.record.default = d
        says(flag) == \E r \in rules : r[flag] = "true"
    IN [Denied |-> {v \in Values : \/ says("deny_all") \/ default("DENY")
                                   \/ \E r \in rules : v \in r.denied},
        Allowed |-> {v \in Values : \/ says("allow_all") \/ default("ALLOW")
                                    \/ \E r \in rules : v \in r.allowed}]
(* A boolean constraint is enforced by the default, or by the one policy.  *)
EnforcedAt(node, set, estate) ==
    LET chain == ancestry_chain(estate.table, node)
    IN \/ DefaultInForce(chain, set, Len(chain)) /\ estate.record.default = "DENY"
       \/ \E r \in RulesInForce(chain, set, Len(chain)) : r.enforce = "true"

(* The rows and the verdicts, against what is in force.                    *)
TrueOfRows(estate, targets, records, verdicts) ==
    LET has(n, polarity, v) == Row(n, polarity, v) \in records.rows
                               \/ RowOfAll(n, polarity) \in records.rows
        nodes == UNION {Universe(estate.table, t.node) : t \in Range(targets)}
    IN /\ estate.record.value_type = "list" =>
            \A n \in nodes, v \in Values :
                LET now == InForce(n, Over(estate, targets), estate)
                IN /\ has(n, "deny", v) <=> v \in now.Denied
                   /\ has(n, "allow", v) /\ ~has(n, "deny", v) <=> v \in now.Allowed \ now.Denied
       /\ estate.record.value_type = "boolean" =>
            \A n \in nodes, flag \in {"true", "false"} :
                [node |-> n, enforce |-> flag] \in records.rows
                    <=> (flag = "true") = EnforcedAt(n, Over(estate, targets), estate)
       /\ (\A i \in DOMAIN verdicts : verdicts[i] = "inert") =>
            \A n \in nodes : Canonical(EffectiveAt(n, estate.set, estate))
                               = Canonical(EffectiveAt(n, Over(estate, targets), estate))

(* The rows the requirements are checked on say of every value what is in  *)
(* force with the whole document applied, a denial outranking any allowing *)
(* row, and of a boolean constraint whether it is enforced; and a document *)
(* whose every change is called inert on its own changes nothing as a      *)
(* whole (org_effective.py:474, 501, 539, 994).                            *)
OrgRowsAreTrue ==
    asked.of = "policy-document" /\ asked.records # Undecided =>
        TrueOfRows(asked.estate, asked.targets, asked.records, asked.verdicts)

(* What two policies of one node permit, when the second is graded against *)
(* what the estate records of the first, or against its document.          *)
TrueOfNarrowing(policy, was, baseline) ==
    /\ Gated(policy) /\ ListShaped(policy) /\ Gated(was) /\ ListShaped(was)
    /\ policy.rules # <<>> /\ (baseline => \A r \in RulesIn(was) : ~Unreadable(r))
    /\ check_enforcement(policy, Prior(was, baseline)) = {"grounded"}
    => LET old == LocalList(was)
           new == LocalList(policy)
           permits(s, v) == /\ s.allow_all \/ v \in s.allowed
                            /\ ~s.deny_all /\ v \notin s.denied
       IN /\ \A v \in Values : permits(new, v) => permits(old, v)
          /\ old.deny_all => new.deny_all
          /\ new.deny_all \/ old.denied \subseteq new.denied

(* The two checks of one document agree: when its rules are graded as no   *)
(* widening of what was set at the node, whoever says what that was,       *)
(* nothing that was denied there is allowed there by what the document     *)
(* sets itself (org_checks.py:344, 364).                                   *)
NarrowingIsTrue ==
    asked.of = "policy-document" =>
        \A t \in Range(asked.targets), baseline \in BOOLEAN :
            t.node \in DOMAIN asked.estate.set =>
                TrueOfNarrowing(t.policy, asked.estate.set[t.node], baseline)
=============================================================================
