-------------------------------- MODULE Deny --------------------------------
(***************************************************************************)
(* Deny policies (iam_deny_checks.py, iam_deny.py): which of the grants a  *)
(* document proposes a deny policy masks or lets through an exception, and *)
(* which dormant grants wake when a deny policy is removed or narrowed.    *)
(*                                                                         *)
(* Nothing offline tells who is in a group, what a wildcard names, or      *)
(* whether a condition holds.  Every question about these is undecided,    *)
(* and an undecided part leaves what depends on it undecided.              *)
(***************************************************************************)
EXTENDS Hierarchy

CONSTANTS
    DenyTables,     \* the hierarchies a capture may hold
    DenyRules,      \* the sequences of rules a deny policy may have
    DenyChanges,    \* the changes of one: pairs <<old rules, new rules>>
    DenyGrants,     \* what a document may grant
    DenyBindings    \* what the estate may have granted

(* A rule, as a document writes it: principals and permissions are words.  *)
DenyRuleDocument ==
    [denied : SUBSET STRING, exceptions : Seq(STRING), permissions : SUBSET STRING,
     excepted : SUBSET STRING, condition : {"none", "present"}]
ASSUME DenyAssumption ==
    /\ DenyRules \subseteq Seq(DenyRuleDocument)
    /\ DenyChanges \subseteq Seq(DenyRuleDocument) \X Seq(DenyRuleDocument)

Uncaptured == [n \in {} |-> NoParent]
Permissions == {"escalation", "harmless"}
Escalations == {"escalation"}

(* Members as a grant spells them and as a deny rule does; there is no such *)
(* spelling for a domain.                                                   *)
V2 == [user |-> "subject", account |-> "account-subject", group |-> "group-set",
       allUsers |-> "public:all"]
Exact == {"subject", "account-subject", "another-subject"}

(* Whether a member is in a principal set of a rule.  A service account is *)
(* in the set of its project, if the hierarchy holds the project's number. *)
ProjectSetMember(member, number) ==
    CASE member # "account" -> "undecided"
      [] member = "account" /\ number = "none" -> "undecided"
      [] OTHER -> IF number = "n1" THEN "yes" ELSE "no"
MemberIn(member, spelling, number) ==
    CASE spelling \in {"public:all", V2[member]} -> "yes"
      [] spelling \in Exact \ {V2[member]} -> IF V2[member] \in Exact THEN "no" ELSE "undecided"
      [] spelling = "project-n1" -> ProjectSetMember(member, number)
      [] OTHER -> "undecided"

-----------------------------------------------------------------------------
(* A rule: whom it denies and, in a sequence, excepts, which permissions   *)
(* it denies and excepts - "*" is a wildcard, which has no normal form -   *)
(* and whether it has a condition.  The first exception that is not        *)
(* certainly somebody else's decides.                                      *)

EffectiveOf(rule) == (rule.permissions \ rule.excepted) \ {"*"}

(* Mutant: what a wildcard excepts is overlooked. *)
NamesEffective(rule, permission) ==
    CASE permission \in EffectiveOf(rule) -> "yes"
      [] OTHER -> IF "*" \in rule.permissions THEN "undecided" ELSE "no"
Names(rule, permission) ==
    CASE "*" \in rule.excepted -> "undecided"
      [] "*" \notin rule.excepted /\ permission \in EffectiveOf(rule) -> "yes"
      [] OTHER -> IF "*" \in rule.permissions THEN "undecided" ELSE "no"

PrincipalCoverage(member, rule, number) ==
    LET denied == {MemberIn(member, s, number) : s \in rule.denied}
        first == SelectInSeq(rule.exceptions, LAMBDA s : MemberIn(member, s, number) # "no")
    IN IF member \notin DOMAIN V2 THEN "undecided"
       ELSE IF "yes" \notin denied THEN IF "undecided" \in denied THEN "undecided" ELSE "clear"
       ELSE IF first = 0 THEN "covered"
       ELSE IF MemberIn(member, rule.exceptions[first], number) = "yes"
            THEN "escapes" ELSE "undecided"
Covered(member, rule, number) ==
    LET state == PrincipalCoverage(member, rule, number)
    IN IF state = "covered" /\ rule.condition # "none" THEN "undecided" ELSE state

(* Whether a policy at a node governs a project, by the walk up from it.   *)
Governs(node, project, table) ==
    IF project = "unreadable" THEN "undecided"
    ELSE IF node = project THEN "yes"
    ELSE IF table = Uncaptured THEN "undecided"
    ELSE IF node \in Range(ancestry_chain(table, project)) THEN "yes"
    ELSE IF Broken(table, project) THEN "undecided" ELSE "no"
Within(at, node, table) ==
    IF at = node THEN "yes"
    ELSE IF at # "project" THEN "undecided" ELSE Governs(node, at, table)

(* What a role grants: nothing, if it is known not to exist.               *)
Unread == {"unread"}
RolePermissions(role) ==
    CASE role = "admin" -> Permissions
      [] role = "viewer" -> {"harmless"}
      [] role = "nonexistent" -> {}
      [] OTHER -> Unread        \* not captured, or captured with nothing in it

-----------------------------------------------------------------------------
(* The grants of a document against the rules of one policy.               *)

Said(what, member, rule, named) ==
    [says |-> what, member |-> member, rule |-> rule, named |-> named]
Unverified == Said("unverified", "any", <<>>, {})

RuleVerdicts(grant, granted, rule, node, estate) ==
    LET named == {p \in granted : Names(rule, p) = "yes"}
        unsure == {p \in granted : Names(rule, p) = "undecided"}
        governs == Governs(node, grant.project, estate.table)
        says == [covered |-> "masked", escapes |-> "threads", undecided |-> "unverified"]
        states == {<<m, Covered(m, rule, estate.number)>> : m \in grant.members}
    IN IF named \cup unsure = {} THEN {}
       ELSE IF grant.conditional \/ named = {} \/ node = "unreadable" THEN {Unverified}
       ELSE CASE governs = "no" -> {}
              [] governs = "undecided" -> {Unverified}
              [] OTHER -> {Said(says[s[2]], s[1], rule, named) :
                             s \in {t \in states : t[2] # "clear"}}
InteractionVerdicts(grant, policy, estate) ==
    LET granted == RolePermissions(grant.role)
    IN IF granted = Unread THEN {Unverified}
       ELSE UNION {RuleVerdicts(grant, granted, policy.rules[i], policy.node, estate) :
                     i \in DOMAIN policy.rules}

(* The policies of the estate are consulted when all of them are captured; *)
(* when not, that is said of grants that could escalate.                   *)
check_deny_shadow_estate(grant, policies, complete, estate) ==
    IF complete THEN UNION {InteractionVerdicts(grant, p, estate) : p \in policies}
    ELSE IF ~grant.conditional /\ RolePermissions(grant.role) \cap Escalations # {}
         THEN {Said("estate-incomplete", "any", <<>>, Escalations)} ELSE {}

-----------------------------------------------------------------------------
(* A policy changes, or goes: every captured grant under its node is       *)
(* compared under the old and the new rules.                               *)

PairCovered(member, permission, rules, number) ==
    LET naming == {i \in DOMAIN rules : Names(rules[i], permission) # "no"}
        sure == {i \in naming : /\ Names(rules[i], permission) = "yes"
                                /\ Covered(member, rules[i], number) = "covered"}
        unsure == {i \in naming : \/ Names(rules[i], permission) = "undecided"
                                  \/ Covered(member, rules[i], number) = "undecided"}
    IN IF sure # {} THEN "yes" ELSE IF unsure # {} THEN "undecided" ELSE "no"

Comparable(binding, node, estate) ==
    /\ binding.at # "unreadable" /\ Within(binding.at, node, estate.table) = "yes"
    /\ ~binding.conditional
    /\ RolePermissions(binding.role) \notin {Unread, {}}
Elsewhere(binding, node, estate) ==
    binding.at # "unreadable" /\ Within(binding.at, node, estate.table) = "no"
GrantPairs(bindings, node, estate) ==
    UNION {b.members \X RolePermissions(b.role) :
             b \in {c \in bindings : Comparable(c, node, estate)}}

wake_findings(old, new, node, bindings, complete, estate) ==
    LET before(p) == PairCovered(p[1], p[2], old, estate.number)
        after(p) == PairCovered(p[1], p[2], new, estate.number)
        dormant == {p \in GrantPairs(bindings, node, estate) : before(p) # "no"}
        unsure == {p \in dormant : "undecided" \in {before(p), after(p)}}
        woken == {p \in dormant \ unsure : after(p) = "no"}
        skipped == {b \in bindings : ~Comparable(b, node, estate) /\ ~Elsewhere(b, node, estate)}
        verdicts == {Said(IF p[2] \in Escalations \/ p[1] = "allUsers" THEN "exposed" ELSE "woken",
                          p[1], <<>>, {p[2]}) : p \in woken}
                    \cup IF unsure # {} \/ skipped # {} THEN {Unverified} ELSE {}
    IN IF verdicts # {} THEN verdicts
       ELSE IF complete THEN {Said("wakes-nothing", "any", <<>>, {})} ELSE {Unverified}

-----------------------------------------------------------------------------
(* The questions.                                                          *)

AskDenyEstate ==
    /\ Unasked
    /\ \E table \in DenyTables \cup {Uncaptured} :
          \E number \in IF table = Uncaptured THEN {"none"} ELSE {"none", "n1", "n2"} :
             asked' = [of |-> "deny-estate", table |-> table, number |-> number]
AskGrant ==
    /\ asked.of = "deny-estate"
    /\ \E grant \in DenyGrants, rules \in DenyRules, complete \in BOOLEAN,
          node \in {"project", "folder", "org", "unreadable"} :
          LET policy == [rules |-> rules, node |-> node]
          IN asked' = [of |-> "grant", estate |-> asked, grant |-> grant, policy |-> policy,
                       complete |-> complete,
                       verdicts |-> check_deny_shadow_estate(grant, {policy}, complete, asked)]
AskWake ==
    /\ asked.of = "deny-estate"
    /\ \E bindings \in DenyBindings, whole \in BOOLEAN, change \in DenyChanges,
          node \in {"project", "folder"} :
          LET captured == IF whole THEN bindings ELSE {b \in bindings : b.at = "project"}
          IN asked' = [of |-> "wake", estate |-> asked, bindings |-> bindings, node |-> node,
                       old |-> change[1], new |-> change[2],
                       verdicts |-> wake_findings(change[1], change[2], node, captured,
                                                  whole, asked)]

-----------------------------------------------------------------------------
(* What may be so for all that was captured: who is in which set, which    *)
(* permissions a wildcard names, and whether conditions hold.              *)
Identities == {"user", "account"}
DenyWorlds(number) ==
    [group : SUBSET Identities, pool : {{}, {"user"}}, wild : {{}, Permissions}, holds : BOOLEAN,
     project : IF number \in {"n1", "n2"}
               THEN {P \in SUBSET Identities : "account" \in P <=> number = "n1"}
               ELSE {{}, {"account"}}]
Who(spelling, world) ==
    CASE spelling = "subject" -> {"user"}
      [] spelling = "account-subject" -> {"account"}
      [] spelling = "another-subject" -> {}
      [] spelling = "group-set" -> world.group
      [] spelling = "public:all" -> Identities
      [] spelling = "project-n1" -> world.project
      [] OTHER -> world.pool
Grantees(member, world) == IF member \in DOMAIN V2 THEN Who(V2[member], world) ELSE world.pool
Denies(rule, who, permission, world) ==
    LET meant(permissions) == permissions \cup IF "*" \in permissions THEN world.wild ELSE {}
    IN /\ who \in (UNION {Who(s, world) : s \in rule.denied})
                  \ (UNION {Who(s, world) : s \in Range(rule.exceptions)})
       /\ permission \in meant(rule.permissions) \ meant(rule.excepted)
       /\ rule.condition = "none" \/ world.holds
DeniesAny(rules, who, permission, world) ==
    \E i \in DOMAIN rules : Denies(rules[i], who, permission, world)

(* The verdicts on a grant and on a change, in one world.                  *)
TrueOfGrant(grant, policy, estate, verdicts, w) ==
    /\ \A v \in verdicts : \A who \in Grantees(v.member, w), p \in v.named :
          v.says = "masked" => Denies(v.rule, who, p, w)
    /\ \A v \in verdicts : v.says = "threads" =>
          \A who \in Grantees(v.member, w), p \in v.named : ~Denies(v.rule, who, p, w)
    /\ verdicts = {} /\ Governs(policy.node, grant.project, estate.table) = "yes" =>
          \A m \in grant.members : \A who \in Grantees(m, w), p \in RolePermissions(grant.role) :
             ~DeniesAny(policy.rules, who, p, w)
TrueOfWake(old, new, node, bindings, estate, verdicts, w) ==
    /\ \A v \in verdicts : v.says \in {"exposed", "woken"} =>
          \A who \in Grantees(v.member, w), p \in v.named :
             DeniesAny(old, who, p, w) /\ ~DeniesAny(new, who, p, w)
    /\ \A v \in verdicts : v.says = "wakes-nothing" =>
          \A b \in bindings : \A m \in b.members :
             \A who \in Grantees(m, w), p \in RolePermissions(b.role) :
                Within(b.at, node, estate.table) # "no" /\ DeniesAny(old, who, p, w)
                    => DeniesAny(new, who, p, w)

(* Every answer holds whatever is the case.  A grant is called masked only *)
(* if all it grants to is denied, to let through an exception only if none *)
(* is, and passed over in silence only if the policy denies nothing of it; *)
(* a pair is called woken only if it was denied and no longer is; and      *)
(* nothing wakes when the answer is that nothing does                      *)
(* (iam_deny_checks.py:386, 403, 738, 1003, 1124).                         *)
DenyIsTrue ==
    /\ asked.of = "grant" /\ asked.complete =>
         \A w \in DenyWorlds(asked.estate.number) :
            TrueOfGrant(asked.grant, asked.policy, asked.estate, asked.verdicts, w)
    /\ asked.of = "wake" =>
         \A w \in DenyWorlds(asked.estate.number) :
            TrueOfWake(asked.old, asked.new, asked.node, asked.bindings, asked.estate,
                       asked.verdicts, w)
=============================================================================
