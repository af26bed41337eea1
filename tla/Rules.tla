-------------------------------- MODULE Rules --------------------------------
(***************************************************************************)
(* The evaluation of compiled promises (sec_rules.py, sec_encode.py,       *)
(* sec_domains.py): extractors flatten a document, its baseline, a plan or *)
(* the captured estate into rows, the promise is ground over the rows, and *)
(* a solver decides it.                                                    *)
(*                                                                         *)
(* A row holds only the fields that could be given one value.  A promise   *)
(* about a field some row lacks is not decided, so a row that stands for   *)
(* any port is a row without a port.                                       *)
(***************************************************************************)
EXTENDS Asking, Naturals, FiniteSets, TLC

CONSTANTS
    Promises,       \* the compiled promises
    Contexts,       \* the documents, with what they are compared to
    Captures,       \* the estates and what was captured of them
    MaxUnroll       \* the number of rows a promise is ground over

Read(rows) == [records |-> rows, missing |-> FALSE, empty |-> FALSE]
Missing == [records |-> {}, missing |-> TRUE, empty |-> FALSE]
ObservedEmpty == [records |-> {}, missing |-> FALSE, empty |-> TRUE]

NoField == [f \in {} |-> f]
Dimension(field, values) == {field :> v : v \in values}
OrNothing(dimension) == IF dimension = {} THEN {NoField} ELSE dimension

-----------------------------------------------------------------------------
(* VPC firewall rules: every row is one range, one tag and one port.  A    *)
(* wide range of ports is not enumerated but read as any port.             *)

FirewallUnread(rule) ==
    \/ rule.action \notin {"allow", "deny"} \/ "odd" \in rule.ranges
    \/ \E b \in rule.layer4 : b.protocol = "odd" \/ "odd" \in b.ports

(* Mutant: a wide range is left out beside ports that are enumerated. *)
PortsEnumerated(ports) ==
    IF ports \ {"wide"} = {} THEN {NoField} ELSE Dimension("port", ports \ {"wide"})
PortValues(ports) ==
    Dimension("port", ports \ {"wide"}) \cup
        IF ports = {} \/ "wide" \in ports THEN {NoField} ELSE {}

ProtocolNumber(protocol) == IF protocol = "all" THEN NoField ELSE "protocol" :> protocol
Layer4Dimension(blocks) ==
    UNION {{ProtocolNumber(b.protocol) @@ p : p \in PortValues(b.ports)} : b \in blocks}
FirewallRows(rule) ==
    {("action" :> rule.action) @@ r @@ t @@ l :
        r \in OrNothing(Dimension("source_range", rule.ranges)),
        t \in Dimension("source_tag", IF rule.tags = {} THEN {"none"} ELSE rule.tags),
        l \in Layer4Dimension(rule.layer4)}
FirewallRecords(rules) ==
    IF \E r \in rules : FirewallUnread(r) THEN Missing
    ELSE Read(UNION {FirewallRows(r) : r \in rules})

ProposedFirewallRules(context) ==
    FirewallRecords(IF context.kind = "tf_plan" THEN context.document.firewalls
                    ELSE context.document.rules)
EstateFirewallRules(capture) ==
    IF capture.captured THEN FirewallRecords(capture.seen) ELSE Missing

-----------------------------------------------------------------------------
(* IAM bindings, of a policy and of a plan.  A plan's resource yields      *)
(* claims of its role and its members where they can be read; of some      *)
(* types no claim is extracted.                                            *)

BindingUnread(b) == b.form = "odd" \/ b.role = "odd" \/ "odd" \in b.members
BindingRows(b) ==
    {[role |-> b.role, member |-> m, has_condition |-> b.condition # "none",
      condition |-> IF b.condition = "text" THEN "text" ELSE ""] : m \in b.members}
IamRecords(policy) ==
    IF policy.form # "policy" \/ \E b \in policy.bindings : BindingUnread(b) THEN Missing
    ELSE Read(UNION {BindingRows(b) : b \in policy.bindings})

Claimed(r) == r.type = "project" /\ (r.role # "odd" \/ r.members # {})
ResourceUnread(r) == r.counted \/ r.role = "odd" \/ "odd" \in r.members \/ r.form = "odd"
GrantUnread(r) == ~Claimed(r) /\ r.place = "root"
PlanRows(r) ==
    {[role |-> r.role, member |-> m] @@
        IF r.condition = "text" THEN [condition |-> "text", has_condition |-> TRUE] ELSE NoField :
        m \in r.members}
TfIamBindings(plan) ==
    LET groups == {r \in plan.grants : Claimed(r)}
        rows == UNION {PlanRows(r) : r \in groups}
    IN IF (\E r \in groups : ResourceUnread(r)) \/ (\E r \in plan.grants : GrantUnread(r)) \/ rows = {}
       THEN Missing ELSE Read(rows)

-----------------------------------------------------------------------------
(* Deny policies, one row for each principal and permission a rule denies. *)

DenyUnread(rule) ==
    \/ rule.form = "odd" \/ "odd" \in rule.denied \cup rule.exceptions
    \/ {"odd", "*"} \cap (rule.permissions \cup rule.excepted) # {}
DenyCondition(rule) ==
    CASE rule.condition = "none" -> [has_condition |-> FALSE, condition |-> ""]
      [] rule.condition = "text" -> [has_condition |-> TRUE, condition |-> "text"]
      [] OTHER -> NoField
DenyRows(rule) ==
    {("has_principal_exceptions" :> (rule.exceptions # {})) @@ DenyCondition(rule) @@ d @@ p :
        d \in OrNothing(Dimension("denied_principal", rule.denied)),
        p \in OrNothing(Dimension("permission", rule.permissions \ rule.excepted))}
(* A plan holds several policies.  The claims of one in a module lie under *)
(* no policy that is read, and one in the root without a claim was         *)
(* stripped.                                                               *)
DenyPolicies(context) ==
    IF context.kind = "tf_plan" THEN context.document.denials ELSE {context.document}
DenyUnits(context) ==
    {p \in DenyPolicies(context) : context.kind = "tf_plan" => p.place = "root"}
DenyClaims(policy) ==
    IF policy.form = "odd" THEN {}
    ELSE UNION {r.denied \cup r.exceptions \cup ((r.permissions \cup r.excepted) \ {"odd"}) :
                   r \in {q \in policy.rules : q.form # "odd"}}
Stripped(policy) == policy.rules # {} /\ DenyClaims(policy) = {}
DenyPolicyUnread(policy) == policy.form = "odd" \/ \E r \in policy.rules : DenyUnread(r)
DenyWalk(context) ==
    LET units == DenyUnits(context)
        rows == UNION {UNION {DenyRows(r) : r \in p.rules} : p \in units}
    IN IF \/ \E p \in units : DenyPolicyUnread(p) \/ (context.kind = "tf_plan" /\ Stripped(p))
          \/ \E p \in DenyPolicies(context) \ units : DenyClaims(p) # {}
          \/ rows = {}
       THEN Missing ELSE Read(rows)
Exceptions(policies) ==
    UNION {UNION {Dimension("exception_principal", r.exceptions) : r \in p.rules} : p \in policies}
DenyExceptions(context) ==
    IF DenyWalk(context) = Missing THEN Missing
    ELSE IF Exceptions(DenyUnits(context)) = {} THEN ObservedEmpty
    ELSE Read(Exceptions(DenyUnits(context)))

-----------------------------------------------------------------------------
(* Organisation policies, of a document and of a plan.  A rule of a plan   *)
(* that sets none or several of its value types yields no claim.           *)

OrgRow(constraint, is_list, enforce, value) ==
    [constraint |-> constraint, is_list |-> is_list, enforce |-> enforce, value |-> value]
OrgRuleRows(constraint, rule) ==
    IF rule.key = "values" THEN {OrgRow(constraint, TRUE, FALSE, v) : v \in rule.listed}
    ELSE {OrgRow(constraint, FALSE, rule.key = "enforce" /\ rule.enforce, "")}
OrgRuleUnread(rule) == rule.key = "odd" \/ "odd" \in rule.listed
OrgRecords(policy) ==
    IF policy.form = "odd" \/ policy.rules = {} \/ \E r \in policy.rules : OrgRuleUnread(r)
    THEN Missing ELSE Read(UNION {OrgRuleRows(policy.constraint, r) : r \in policy.rules})

RuleClaims(policy) == {r \in policy.rules : r.key # "ambiguous"}
PolicyUnread(policy) ==
    \/ policy.constraint = "odd" /\ policy.place = "root"
    \/ policy.constraint # "odd" /\
         \/ RuleClaims(policy) = {} \/ policy.counted
         \/ \E r \in RuleClaims(policy) : r.key = "all" \/ OrgRuleUnread(r)
TfOrgPolicyRules(plan) ==
    LET read == {p \in plan.policies : p.constraint # "odd"}
        rows == UNION {UNION {OrgRuleRows(p.constraint, r) : r \in RuleClaims(p)} : p \in read}
    IN IF (\E p \in plan.policies : PolicyUnread(p)) \/ rows = {} THEN Missing ELSE Read(rows)

-----------------------------------------------------------------------------
(* The extractors.                                                         *)

ProposedCollections == {"proposed_firewall_rules", "iam_bindings", "new_iam_bindings", "deny_rules",
              "deny_rule_exceptions", "org_policy_rules"}
OfKind == [proposed_firewall_rules |-> "firewall_rule", iam_bindings |-> "iam_policy",
           new_iam_bindings |-> "iam_policy", deny_rules |-> "iam_deny_policy",
           deny_rule_exceptions |-> "iam_deny_policy", org_policy_rules |-> "org_policy"]
DocumentRecords(collection, context) ==
    CASE collection = "proposed_firewall_rules" -> ProposedFirewallRules(context)
      [] collection = "deny_rules" -> DenyWalk(context)
      [] collection = "deny_rule_exceptions" -> DenyExceptions(context)
      [] collection = "org_policy_rules" ->
            IF context.kind = "tf_plan" THEN TfOrgPolicyRules(context.document)
            ELSE OrgRecords(context.document)
      [] OTHER -> IF context.kind = "tf_plan" THEN TfIamBindings(context.document)
                  ELSE IamRecords(context.document)
Extractor(collection, context, capture) ==
    CASE collection = "firewall_rules" -> EstateFirewallRules(capture)
      [] collection = "old_iam_bindings" ->
            IF context.baseline.form = "none" THEN Missing ELSE IamRecords(context.baseline)
      [] collection \in ProposedCollections /\ context.kind = OfKind[collection] ->
            DocumentRecords(collection, context)
      [] collection \in ProposedCollections \ {"new_iam_bindings"} /\ context.kind = "tf_plan" ->
            DocumentRecords(collection, context)
      [] OTHER -> Missing

(* Nothing read is not read as nothing there, unless the extractor says so. *)
Collected(collection, context, capture) ==
    LET extraction == Extractor(collection, context, capture)
    IN IF extraction = Read({}) THEN Missing ELSE extraction

-----------------------------------------------------------------------------
(* A promise says that no row, or that some row, passes all its tests, or  *)
(* that every new row is also among the old.                               *)

Used(promise) ==
    IF promise.form = "kept" THEN {"new_iam_bindings", "old_iam_bindings"} ELSE {promise.over}
Fields(promise) == IF promise.form = "kept" THEN {"role", "member"} ELSE DOMAIN promise.tests
(* Every atom - a comparison, a range, a prefix, a member of a set - is    *)
(* the set of values it holds of.                                          *)
Fits(row, promise) == \A f \in DOMAIN promise.tests : row[f] \in promise.tests[f]
Same(row, other) == row.role = other.role /\ row.member = other.member
Formula(promise, rows) ==
    CASE promise.form = "none" -> \A r \in rows[promise.over] : ~Fits(r, promise)
      [] promise.form = "some" -> \E r \in rows[promise.over] : Fits(r, promise)
      [] OTHER -> \A r \in rows["new_iam_bindings"] :
                    \E o \in rows["old_iam_bindings"] : Same(r, o)
Obligation(promise, rows) ==
    IF promise.mode = "refute" THEN ~Formula(promise, rows) ELSE Formula(promise, rows)

Unrolled(promise, rows) ==
    IF promise.form # "kept" THEN Cardinality(rows[promise.over])
    ELSE Cardinality(rows["new_iam_bindings"]) * (1 + Cardinality(rows["old_iam_bindings"]))
UnsupportedTerm(promise, rows) ==
    \/ \E c \in Used(promise) : \E r \in rows[c] : ~(Fields(promise) \subseteq DOMAIN r)
    \/ Unrolled(promise, rows) > MaxUnroll

(* A row that refutes the promise in the place of all its collection.      *)
Witnesses(promise, rows) ==
    UNION {{r \in rows[c] : ~Obligation(promise, [rows EXCEPT ![c] = {r}])} : c \in Used(promise)}

Domain == [proposed_firewall_rules |-> "vpc_firewall", firewall_rules |-> "vpc_firewall",
           iam_bindings |-> "iam", deny_rules |-> "iam", deny_rule_exceptions |-> "iam",
           new_iam_bindings |-> "iam", org_policy_rules |-> "org_policy"]
DomainKinds == [vpc_firewall |-> {"firewall_rule"}, iam |-> {"iam_policy", "iam_deny_policy"},
                org_policy |-> {"org_policy"}]
TableKinds == (UNION {DomainKinds[d] : d \in DOMAIN DomainKinds}) \cup {"tf_plan"}
AppliesTo(promise, kind) ==
    kind \in TableKinds => kind = "tf_plan" \/ kind \in DomainKinds[Domain[promise.over]]

(* A promise about one named constraint is not decided by a document that  *)
(* is about others.                                                        *)
Subjects(context) ==
    CASE context.kind = "org_policy" -> {context.document.constraint}
      [] context.kind = "tf_plan" -> {p.constraint : p \in context.document.policies} \ {"odd"}
      [] OTHER -> {}
OffSubject(promise, context) ==
    /\ context.kind \in {"org_policy", "tf_plan"} /\ promise.names # "none"
    /\ Subjects(context) # {} /\ promise.names \notin Subjects(context)

IncompleteEstate(promise, capture) ==
    "firewall_rules" \in Used(promise) /\ ~capture.complete

Says(status, witnesses) == [says |-> status, witnesses |-> witnesses]
evaluate(promise, context, capture, solver) ==
    LET collected == [c \in Used(promise) |-> Collected(c, context, capture)]
        rows == [c \in Used(promise) |-> collected[c].records]
    IN IF ~AppliesTo(promise, context.kind) THEN Says("silent", {})
       ELSE IF \/ OffSubject(promise, context) \/ \E c \in Used(promise) : collected[c].missing
               \/ IncompleteEstate(promise, capture) \/ solver = "absent"
               \/ UnsupportedTerm(promise, rows) \/ solver = "unknown"
            THEN Says("unverified", {})
       ELSE IF Obligation(promise, rows) THEN Says("grounded", {})
       ELSE Says("contradicted", Witnesses(promise, rows))

(* A promise is asked about a document.                                    *)
NotAsked == [captured |-> FALSE, complete |-> FALSE, seen |-> {}, rules |-> {}]
AskPromise ==
    /\ Unasked
    /\ \E promise \in Promises, context \in Contexts, solver \in {"absent", "unknown", "decides"} :
       \E capture \in IF "firewall_rules" \in Used(promise) THEN Captures ELSE {NotAsked} :
          asked' = [of |-> "promise", promise |-> promise, context |-> context, capture |-> capture,
                    verdict |-> evaluate(promise, context, capture, solver)]

-----------------------------------------------------------------------------
(* What the documents say, every row with all its fields.  A part that     *)
(* cannot be read may say nothing or anything.                             *)

Ranges == {"public", "private"}
RulePorts == {"ssh", "web"}
Protocols == {"tcp", "udp"}
FirewallMeaning(rule) ==
    [action : {rule.action}, source_range : IF rule.ranges = {} THEN Ranges ELSE rule.ranges,
     source_tag : IF rule.tags = {} THEN {"none"} ELSE rule.tags,
     layer4 : UNION {(IF b.protocol = "all" THEN Protocols ELSE {b.protocol}) \X
                     (IF b.ports = {} \/ "wide" \in b.ports THEN RulePorts ELSE b.ports) : b \in rule.layer4}]
FirewallTruth(rules) ==
    LET said == UNION {FirewallMeaning(r) : r \in {q \in rules : ~FirewallUnread(q)}}
        row(s) == [action |-> s.action, source_range |-> s.source_range, source_tag |-> s.source_tag,
                   protocol |-> s.layer4[1], port |-> s.layer4[2]]
    IN {row(s) : s \in said}

Conditions == [none |-> "", text |-> "text", odd |-> "unread"]
GrantTruth(bindings) ==
    {[role |-> b.role, member |-> m, has_condition |-> b.condition # "none",
      condition |-> Conditions[b.condition]] :
        <<b, m>> \in UNION {{b} \X b.members : b \in {c \in bindings : c.role # "odd"}}}
DenyTruth(policies) ==
    UNION {[denied_principal : r.denied, permission : r.permissions \ r.excepted,
            has_principal_exceptions : {r.exceptions # {}}, has_condition : {r.condition # "none"}] :
             r \in UNION {p.rules : p \in policies}}
OrgTruth(policies) == UNION {UNION {OrgRuleRows(p.constraint, r) : r \in RuleClaims(p)} : p \in policies}

(* What an unreadable part may say that could change the verdict.          *)
Whatever(promise) ==
    {IF promise.form = "kept" THEN [f \in Fields(promise) |-> "another"]
     ELSE [f \in Fields(promise) |-> CHOOSE v \in promise.tests[f] : TRUE]}
Unreadable(collection, context, capture) ==
    CASE collection = "firewall_rules" -> \E r \in capture.rules : FirewallUnread(r)
      [] collection = "proposed_firewall_rules" -> ProposedFirewallRules(context) = Missing
      [] collection = "old_iam_bindings" -> IamRecords(context.baseline) = Missing
      [] collection \in {"deny_rules", "deny_rule_exceptions"} ->
            \E p \in DenyPolicies(context) : DenyPolicyUnread(p)
      [] collection = "org_policy_rules" /\ context.kind = "tf_plan" ->
            \E p \in context.document.policies :
               p.constraint = "odd" \/ PolicyUnread(p) \/ \E r \in p.rules : r.key = "ambiguous"
      [] collection = "org_policy_rules" /\ context.kind # "tf_plan" ->
            context.document.form = "odd" \/ \E r \in context.document.rules : OrgRuleUnread(r)
      [] collection = "iam_bindings" /\ context.kind = "tf_plan" ->
            \E r \in context.document.grants : ResourceUnread(r) \/ ~Claimed(r)
      [] OTHER -> IamRecords(context.document) = Missing
Meaning(collection, context, capture) ==
    CASE collection = "firewall_rules" -> FirewallTruth(capture.rules)
      [] collection = "proposed_firewall_rules" ->
            FirewallTruth(IF context.kind = "tf_plan" THEN context.document.firewalls
                          ELSE context.document.rules)
      [] collection = "old_iam_bindings" -> GrantTruth(context.baseline.bindings)
      [] collection = "deny_rules" -> DenyTruth(DenyPolicies(context))
      [] collection = "deny_rule_exceptions" -> Exceptions(DenyPolicies(context))
      [] collection = "org_policy_rules" ->
            OrgTruth(IF context.kind = "tf_plan" THEN {p \in context.document.policies : p.constraint # "odd"}
                     ELSE {context.document})
      [] collection = "iam_bindings" /\ context.kind = "tf_plan" ->
            GrantTruth({r \in context.document.grants : r.type = "project"})
      [] OTHER -> GrantTruth(context.document.bindings)
Possible(promise, context, capture) ==
    LET unsure(c) == \/ Unreadable(c, context, capture)
                     \/ promise.names # "none" /\ promise.names \notin Subjects(context)
        said(c) == Meaning(c, context, capture)
    IN {rows \in [Used(promise) -> UNION {{said(c), said(c) \cup Whatever(promise)} : c \in Used(promise)}] :
           \A c \in Used(promise) :
              rows[c] \in {said(c)} \cup IF unsure(c) THEN {said(c) \cup Whatever(promise)} ELSE {}}

(* What the census of a plan passes over: resources in a module, and a     *)
(* rule beside others in its policy.                                       *)
Overlooked(plan) ==
    \/ \E r \in plan.grants : ~Claimed(r) /\ r.place = "module"
    \/ \E p \in plan.denials : p.place = "module" /\ DenyClaims(p) = {} /\ DenyPolicyUnread(p)
    \/ \E p \in plan.policies : \/ p.constraint = "odd" /\ p.place = "module"
                                \/ \E r \in p.rules : r.key = "ambiguous"

Decided == asked.of = "promise" /\ asked.verdict.says \in {"grounded", "contradicted"}
VerdictHolds ==
    \A rows \in Possible(asked.promise, asked.context, asked.capture) :
       Obligation(asked.promise, rows) <=> asked.verdict.says = "grounded"

(* A promise is called kept or broken only if it is, of everything the     *)
(* document, the baseline or the whole estate says, whatever the parts say *)
(* that could not be read; and a row named as a witness breaks it.         *)
(* Promises pass in silence only over documents that hold nothing of       *)
(* theirs (sec_rules.py:202, 253, 662, sec_encode.py:340,                  *)
(* sec_domains.py:429).                                                    *)
RuleIsTrue ==
    /\ Decided /\ ~(asked.context.kind = "tf_plan" /\ Overlooked(asked.context.document)) => VerdictHolds
    /\ Decided /\ asked.promise.form = "none" /\ asked.promise.mode # "refute" =>
         \A w \in asked.verdict.witnesses : Fits(w, asked.promise)
    /\ asked.of = "promise" /\ asked.verdict.says = "silent" =>
         \A c \in Used(asked.promise) \cap ProposedCollections : Extractor(c, asked.context, asked.capture).missing

(* The same of plans without exception: a block whose parts could not be   *)
(* read is a grant, or a rule, nobody read, and no promise passes over it  *)
(* (sec_domains.py:961, 1091).                                             *)
PlanIsReadWhole == Decided /\ asked.context.kind = "tf_plan" => VerdictHolds
=============================================================================
