---------------------------- MODULE MCAlgorithms ----------------------------
(***************************************************************************)
(* The checks and the algorithms under them on small instances, one        *)
(* question at a time: rules over two address and two port classes, all    *)
(* tables of three nodes, policies at two levels above one project.        *)
(***************************************************************************)
EXTENDS Questions

-----------------------------------------------------------------------------
(* VPC rules.                                                              *)

Pub == {"public"}
Both == {"public", "private"}
MCPorts == {"ssh", "web"}
MCSensitive == {"ssh"}
MCTags == {"t"}
MCAccounts == {}
FwRule(name, priority, action, sources, ports) ==
    [name |-> name, network |-> "net", direction |-> "INGRESS", entries |-> {action},
     priority |-> priority, disabled |-> FALSE, source_ranges |-> sources,
     destination_ranges |-> {}, source_tags |-> {}, source_sas |-> {},
     target_tags |-> {}, target_sas |-> {}, ports |-> ports]
Shapes(name) ==
    {FwRule(name, p, a, s, {}) : p \in {1, 2}, a \in {"allow", "deny"}, s \in {Pub, Both}}
    \cup {FwRule(name, 1, a, Both, {"ssh"}) : a \in {"allow", "deny"}}
    \cup {[FwRule(name, 1, a, Pub, {}) EXCEPT !.target_tags = {"t"}] : a \in {"allow", "deny"}}
Odd(name) ==
    LET r == FwRule(name, 1, "allow", Pub, {})
    IN {[r EXCEPT !.disabled = TRUE], [r EXCEPT !.network = "absent"],
        [r EXCEPT !.network = "odd"], [r EXCEPT !.direction = "bad"],
        [r EXCEPT !.entries = {"allow", "deny"}],
        [r EXCEPT !.priority = -1, !.direction = "absent"],
        [r EXCEPT !.priority = -2], [r EXCEPT !.source_ranges = {"v6"}],
        [r EXCEPT !.source_ranges = {}, !.source_tags = {"t"}],
        [r EXCEPT !.direction = "EGRESS", !.entries = {"deny"},
                  !.destination_ranges = {"private"}]}
MCDocuments == Shapes("new") \cup Odd("new")
MCEstates == {<<>>} \cup {<<a>> : a \in Odd("a")} \cup
             {<<a, b>> : a \in Shapes("a") \cup {FwRule("new", 1, x, Both, {}) : x \in {"allow", "deny"}},
                         b \in {FwRule("b", p, x, s, {}) : p \in {1, 2}, s \in {Pub},
                                                           x \in {"allow", "deny"}}}

-----------------------------------------------------------------------------
(* Hierarchical rules, and the hierarchies they are placed in.             *)

Nodes == {"org", "folder", "project"}
MCHierarchies == UNION {[s -> Nodes \cup {"gone", "none"}] : s \in {Nodes, {"org", "folder"}}}
MCProjectOf == [n \in {"net", "net2"} |-> "project"]
MCTrees == {[n \in Nodes |-> CASE n = "org" -> "none" [] n = "folder" -> "org"
                               [] OTHER -> "folder"]}
Hier(rule, networks) ==
    rule @@ [networks |-> networks, readable |-> TRUE, unsupported |-> FALSE,
             action |-> CHOOSE a \in rule.entries : TRUE]
HRule(name, priority, action, sources, networks) ==
    Hier(FwRule(name, priority, action, sources, {}), networks)
HRules ==
    {HRule("r", p, a, Pub, {}) : p \in {1, 2}, a \in {"allow", "deny", "goto_next"}}
    \cup {HRule("r", 1, a, Both, n) : a \in {"allow", "deny"}, n \in {{}, {"net"}, {"odd"}}}
    \cup {HRule("r", 1, "deny", Pub, {"net2"})}
Policy(name, scope, attachments) == [name |-> name, scope |-> scope, attachments |-> attachments]
Of(policy, rule) == [policy |-> policy, rule |-> rule]
MCPolicies ==
    {[policies |-> <<Policy("a", "org", {"org"}), Policy("b", "folder", {"folder"})>>,
      rules |-> <<Of("a", r), Of("b", q), Of("b", HRule("last", 3, "deny", Pub, {}))>>] :
        r \in HRules, q \in HRules}
    \cup {[policies |-> p, rules |-> <<>>] :
             p \in {<<>>, <<Policy("b", "folder", {})>>, <<Policy("b", "folder", {"folder"})>>}}
MCVpc == {<<>>, <<HRule("v", 1, "allow", Pub, {"net"}), HRule("w", 1, "deny", Both, {"net"})>>}
Claim(policy, rule, carried) ==
    [policy |-> policy, rule |-> rule, association |-> {}, carried |-> carried]
MCProposals ==
    {<<Claim("b", r, {})>> : r \in HRules}
    \cup {<<Claim("c", r, {"folder"}), Claim("a", HRule("x", 1, "deny", Pub, {}), {})>> :
             r \in HRules}
    \cup {<<Claim("c", HRule("x", 1, "deny", Pub, {}), n)>> :
             n \in {{}, {"org", "folder"}, {"elsewhere"}, {"project"}}}

-----------------------------------------------------------------------------
(* Organisation policies at two levels, over a tree, a tree whose project  *)
(* is not under the folder, and a circle.                                  *)

Sets(allowed, denied) == [NoRule EXCEPT !.values = TRUE, !.allowed = allowed, !.denied = denied]
AllowsAll == [NoRule EXCEPT !.allow_all = "true"]
DeniesAll == [NoRule EXCEPT !.deny_all = "true"]
Enforces(flag) == [NoRule EXCEPT !.enforce = flag]
Plain(rules) == [reset |-> FALSE, inherit |-> FALSE, rules |-> rules]
Inheriting(rules) == [reset |-> FALSE, inherit |-> TRUE, rules |-> rules]
Reset == [reset |-> TRUE, inherit |-> FALSE, rules |-> <<>>]
OrgPolicies ==
    {Plain(<<>>), Inheriting(<<>>), Reset, Plain(<<Sets({"x"}, {})>>),
     Inheriting(<<Sets({}, {"x"})>>), Plain(<<Sets({"x", "y"}, {"x"})>>),
     Plain(<<DeniesAll, Sets({"x"}, {})>>), Inheriting(<<AllowsAll>>),
     Plain(<<Enforces("true")>>), Plain(<<Enforces("false")>>)}
OddPolicies ==
    {Plain(<<[DeniesAll EXCEPT !.condition = TRUE]>>), Plain(<<[DeniesAll EXCEPT !.odd = TRUE]>>),
     [Reset EXCEPT !.rules = <<DeniesAll>>], Plain(<<Sets({"y"}, {}), Sets({}, {"y"})>>)}
MCValues == {"x", "y"}
MCOrgTables == MCTrees \cup {[n \in Nodes |-> CASE n = "org" -> "none" [] n = "folder" -> "project"
                                                [] OTHER -> "folder"]}
MCOrgSettings == {[n \in {} |-> Reset]} \cup [{"org"} -> OddPolicies]
                 \cup [{"org", "folder"} -> OrgPolicies]
MCOrgDocuments ==
    LET target(n, p) == [node |-> n, policy |-> p]
    IN {<<target(n, p)>> : n \in {"org", "folder"}, p \in OrgPolicies \cup OddPolicies}
       \cup {<<target("org", p), target(n, q)>> :
                n \in {"folder", "org", "gone"}, p \in {Plain(<<DeniesAll>>), Inheriting(<<>>)},
                q \in {Reset, Inheriting(<<Sets({}, {"x"})>>)}}

-----------------------------------------------------------------------------
(* Terraform: two addresses, created, changed, replaced, destroyed and     *)
(* forgotten, with and without an old generation that is still there.      *)

TfObjects == {[name |-> "old", secret |-> "s"], [name |-> "new", size |-> "1"]}
TfPlanned == TfObjects \cup {[name |-> "new", size |-> "<known-after-apply>",
                              secret |-> "<known-after-apply>"]}
MCAddresses == {"a", "b"}
Gone == [absent |-> TRUE]
TfThing(a, deposed) == [address |-> a, deposed |-> deposed]
TfOrder(a, b, first) ==
    <<TfThing(a, first), TfThing(a, ~first), TfThing(b, first), TfThing(b, ~first)>>
MCWorlds ==
    [before : [MCAddresses -> TfObjects \cup {Gone}],
     after : [MCAddresses -> TfPlanned \cup {Gone}],
     deposed : {[x \in d |-> [name |-> "older", size |-> "0"]] : d \in {{}, {"a"}}},
     forgotten : {{}, {"a"}}, replaced : {{"b"}}, refreshed : {{}, {"b"}, MCAddresses},
     order : {TfOrder(o[1], o[2], first) : o \in {<<"a", "b">>, <<"b", "a">>}, first \in BOOLEAN}]
MCSpoils == {"as-written", "unreadable", "another-format", "no-changes", "remote-stub",
             "backup", "data-source"}

-----------------------------------------------------------------------------
(* Deny policies: one rule, or two of which the first denies a person.     *)

DenyRule(denied, exceptions, permissions, excepted, condition) ==
    [denied |-> denied, exceptions |-> exceptions, permissions |-> permissions,
     excepted |-> excepted, condition |-> condition]
Both2 == {"escalation", "harmless"}
DRules ==
    {DenyRule(d, e, Both2, {}, "none") :
        d \in {{"public:all"}, {"subject"}, {"group-set"}, {"project-n1"},
              {"pool", "account-subject"}},
        e \in {<<>>, <<"subject">>, <<"group-set">>, <<"project-n1", "account-subject">>,
              <<"another-subject", "public:all">>}}
    \cup {DenyRule({"public:all"}, <<>>, p, x, "none") :
              p \in {{"escalation"}, {"*"}, Both2}, x \in {{}, {"*"}, {"harmless"}}}
    \cup {DenyRule({"subject", "account-subject"}, <<>>, {"escalation"}, {}, "present")}
Person == DenyRule({"subject"}, <<>>, {"escalation"}, {}, "none")
MCDenyRules == {<<r>> : r \in DRules} \cup {<<Person, r>> : r \in DRules}
MCDenyChanges ==
    UNION {{<<<<r>>, <<>>>>, <<<<r>>, <<Person>>>>, <<<<Person>>, <<r>>>>, <<<<Person, r>>, <<r>>>>} :
             r \in DRules}
DGrant(role, member, project, conditional) ==
    [role |-> role, members |-> {member}, project |-> project, conditional |-> conditional]
MCDenyGrants ==
    {DGrant("admin", m, "project", FALSE) :
        m \in {"user", "account", "group", "allUsers", "domain"}}
    \cup {DGrant(r, "user", p, c) : r \in {"viewer", "nonexistent", "uncaptured"},
                                   p \in {"project", "unreadable"}, c \in BOOLEAN}
DBinding(at, role, member, conditional) ==
    [at |-> at, role |-> role, members |-> {member, "user"}, conditional |-> conditional]
MCDenyBindings ==
    {{}} \cup {{DBinding("project", "admin", m, FALSE)} :
                  m \in {"user", "account", "group", "allUsers", "domain"}}
    \cup {{DBinding("project", "viewer", "account", FALSE), DBinding(at, "admin", "user", c)} :
              at \in {"folder", "unreadable"}, c \in BOOLEAN}

-----------------------------------------------------------------------------
(* Perimeters: policies of no, one or two operations.                      *)

VpList(items) == [form |-> "list", items |-> items]
VpAbsent == [form |-> "absent", items |-> <<>>]
VpOdd == [form |-> "odd", items |-> <<>>]
VpNone == [block |-> FALSE]
VpOp(service, methods) == [service |-> service, methods |-> methods]
VpPolicy(type, identities, operations, resources) ==
    [identity_type |-> type, identities |-> identities, operations |-> operations,
     resources |-> resources]
VpRead == VpList(<<"read">>)
VpPolicies ==
    {VpPolicy("none", VpList(<<"alice">>), VpList(<<o>>), VpList(<<"data">>)) :
        o \in {VpOp("storage", VpRead), VpOp("storage", VpList(<<>>)), VpOp("none", VpOdd),
              VpOp("bigquery", VpList(<<"read", "write">>)), VpOp("*", VpAbsent)}}
    \cup {VpPolicy(t, i, VpList(<<VpOp("storage", VpRead)>>), VpList(<<"*">>)) :
              t \in {"none", "any", "odd"}, i \in {VpList(<<"alice">>), VpAbsent, VpOdd}}
    \cup {VpPolicy("any", VpAbsent, o, r) :
              o \in {VpAbsent, VpOdd, VpList(<<VpOp("odd", VpRead)>>),
                    VpList(<<VpOp("storage", VpRead), VpOp("bigquery", VpList(<<"write">>))>>)},
              r \in {VpAbsent, VpOdd}}
VpLists == {VpAbsent, VpOdd, VpList(<<>>)} \cup {VpList(<<p>>) : p \in VpPolicies}
           \cup {VpList(<<p, VpPolicy("none", VpList(<<"bob">>), VpAbsent, VpAbsent)>>) :
                    p \in VpPolicies}
VpConfig(resources, restricted, ingress) ==
    [block |-> TRUE, resources |-> resources, restricted |-> restricted,
     policies |-> [d \in {"ingress", "egress"} |-> IF d = "ingress" THEN ingress ELSE VpList(<<>>)]]
VpPerimeter(name, type, dry, status, spec) ==
    [name |-> name, type |-> type, dry_run |-> dry, status |-> status, spec |-> spec]
VpPlain(ingress) ==
    VpPerimeter("p", "REGULAR", FALSE,
                VpConfig(VpList(<<"prod">>), VpList(<<"storage">>), ingress), VpNone)
VpContents ==
    {VpConfig(r, s, VpAbsent) : r \in {VpList(<<"prod">>), VpList(<<"prod", "test">>), VpAbsent},
                                s \in {VpList(<<"storage">>), VpList(<<>>), VpOdd}} \cup {VpNone}
VpShapes ==
    {VpPerimeter("p", t, d, c, e) : t \in {"REGULAR", "BRIDGE"}, d \in BOOLEAN, c \in VpContents,
                                    e \in {VpNone, VpConfig(VpList(<<"prod">>), VpList(<<>>), VpAbsent)}}
MCAxisValues ==
    [identity |-> {"alice", "another"}, service |-> {"storage", "bigquery", "another"},
     method |-> {"read", "write", "another"}, resource |-> {"data", "another"}]
MCProposed == {VpPlain(l) : l \in VpLists} \cup VpShapes
MCPrevious == MCProposed \cup {VpPerimeter("q", "REGULAR", FALSE, VpNone, VpNone)}

-----------------------------------------------------------------------------
(* Promises, and what they are asked of.                                   *)

Promise(over, form, tests, names) ==
    [over |-> over, form |-> form, mode |-> "assert_satisfiable", tests |-> tests, names |-> names]
Refuted(promise) == [promise EXCEPT !.mode = "refute"]
OpenSsh == [action |-> {"allow"}, source_range |-> {"public"}, port |-> {"ssh"}]
Owner == [role |-> {"owner"}, member |-> {"stranger"}]
Denied == [denied_principal |-> {"all"}, permission |-> {"escalation"},
           has_principal_exceptions |-> {FALSE}, has_condition |-> {FALSE}]
EnforcedPromise == [constraint |-> {"c"}, enforce |-> {TRUE}]
MCPromises ==
    {Promise(o, "none", OpenSsh, "none") : o \in {"proposed_firewall_rules", "firewall_rules"}}
    \cup {Promise("proposed_firewall_rules", f, [action |-> {"deny"}, source_tag |-> {"none"}], "none") :
              f \in {"none", "some"}}
    \cup {Promise("iam_bindings", "none", Owner, "none"), Refuted(Promise("iam_bindings", "some", Owner, "none")),
          Promise("iam_bindings", "none", [role |-> {"owner"}, has_condition |-> {FALSE}], "none"),
          Promise("new_iam_bindings", "kept", [f \in {} |-> {}], "none"),
          Promise("deny_rules", "some", Denied, "none"),
          Promise("deny_rule_exceptions", "none", [exception_principal |-> {"alice"}], "none"),
          Promise("org_policy_rules", "some", EnforcedPromise, "c"), Promise("org_policy_rules", "none", EnforcedPromise, "c"),
          Promise("org_policy_rules", "none", [is_list |-> {TRUE}, value |-> {"x"}], "none"),
          Refuted(Promise("org_policy_rules", "none", [constraint |-> {"c"}, enforce |-> {FALSE}], "none"))}

Block(protocol, ports) == [protocol |-> protocol, ports |-> ports]
FwAs(action, ranges, tags, layer4) ==
    [action |-> action, ranges |-> ranges, tags |-> tags, layer4 |-> layer4]
MCFwRules ==
    {FwAs(a, r, t, {Block("tcp", p)}) :
        a \in {"allow", "deny"}, r \in {{}, {"public"}, {"public", "private"}}, t \in {{}, {"t"}},
        p \in {{}, {"ssh"}, {"web"}, {"wide"}, {"web", "wide"}}}
    \cup {FwAs("both", {}, {}, {}), FwAs("allow", {"public", "odd"}, {}, {Block("tcp", {})}),
          FwAs("allow", {"private"}, {}, {Block("odd", {}), Block("tcp", {"web"})}),
          FwAs("deny", {"private"}, {}, {Block("all", {"web", "odd"})}),
          FwAs("allow", {"private"}, {}, {Block("all", {}), Block("udp", {"web"})})}
MCFwSets == {{}} \cup {{r} : r \in MCFwRules} \cup
            {{r, FwAs("allow", {"private"}, {}, {Block("tcp", {"web"})})} : r \in MCFwRules}
IamAs(form, role, members, condition) ==
    [form |-> form, role |-> role, members |-> members, condition |-> condition]
IamBindings ==
    {IamAs("binding", r, m, c) : r \in {"owner", "viewer", "odd"}, c \in {"none", "text", "odd"},
                                 m \in {{}, {"alice"}, {"alice", "stranger"}, {"alice", "odd"}}}
    \cup {IamAs("odd", "viewer", {"alice"}, "none")}
IamPolicy(bindings) == [form |-> "policy", bindings |-> bindings]
Alice == IamAs("binding", "viewer", {"alice"}, "none")
IamPolicies == {IamPolicy({}), [form |-> "odd", bindings |-> {}]}
               \cup {IamPolicy({b}) : b \in IamBindings} \cup {IamPolicy({b, Alice}) : b \in IamBindings}
DenyAs(denied, exceptions, permissions, excepted, condition) ==
    [form |-> "rule", denied |-> denied, exceptions |-> exceptions, permissions |-> permissions,
     excepted |-> excepted, condition |-> condition]
DenialRules ==
    {DenyAs(d, e, p, x, c) : d \in {{}, {"all"}, {"alice", "all"}, {"all", "odd"}},
        e \in {{}, {"alice"}}, p \in {{"escalation"}, {"escalation", "harmless"}, {"*"}},
        x \in {{}, {"escalation"}}, c \in {"none", "text", "odd"}}
Denials ==
    {[form |-> f, rules |-> r] : f \in {"policy", "odd"}, r \in {{}, {DenyAs({"all"}, {}, {"escalation"}, {}, "none")}}}
    \cup {[form |-> "policy", rules |-> {r, DenyAs({"bob"}, {"carol"}, {"harmless"}, {}, "none")}] : r \in DenialRules}
OrgAs(key, enforce, listed) == [key |-> key, enforce |-> enforce, listed |-> listed]
OrgRules == {OrgAs("enforce", e, {}) : e \in BOOLEAN} \cup {OrgAs(k, FALSE, {}) : k \in {"odd", "all", "ambiguous"}}
            \cup {OrgAs("values", FALSE, v) : v \in {{}, {"x"}, {"x", "odd"}}}
OrgDoc(constraint, rules, place, counted) ==
    [form |-> "policy", constraint |-> constraint, rules |-> rules, place |-> place, counted |-> counted]
OrgRuleSets == {{}} \cup {{r} : r \in OrgRules} \cup {{r, OrgAs("enforce", FALSE, {})} : r \in OrgRules}
OrgPlanned == {OrgDoc(c, r, p, n) : c \in {"c", "d", "odd"}, r \in OrgRuleSets, p \in {"root", "module"},
                                    n \in BOOLEAN}
Planned(place, type, role, members, form, counted, condition) ==
    [place |-> place, type |-> type, role |-> role, members |-> members, form |-> form,
     counted |-> counted, condition |-> condition]
PlanGrants ==
    {Planned(p, t, r, m, "list", n, c) :
        p \in {"root", "module"}, t \in {"project", "bucket"}, r \in {"owner", "odd"}, n \in BOOLEAN,
        m \in {{}, {"alice"}, {"alice", "odd"}}, c \in {"none", "text", "odd"}}
    \cup {Planned("root", "project", "owner", {}, "odd", FALSE, "none")}
Sibling == Planned("root", "project", "viewer", {"alice"}, "list", FALSE, "none")
PlanAs(grants, policies, firewalls, denials) ==
    [grants |-> grants, policies |-> policies, firewalls |-> firewalls, denials |-> denials]
DenyPlanned(place, form, rules) == [place |-> place, form |-> form, rules |-> rules]
NoEntries == DenyAs({}, {}, {}, {}, "none")
SiblingDenial == DenyPlanned("root", "policy", {DenyAs({"all"}, {}, {"escalation"}, {}, "none")})
PlanDenials ==
    {DenyPlanned(p, f, r) : p \in {"root", "module"}, f \in {"policy", "odd"},
        r \in {{}, {NoEntries}, {DenyAs({}, {}, {"odd"}, {}, "none")},
               {DenyAs({"all", "odd"}, {}, {"escalation"}, {}, "none")}}
              \cup {{DenyAs({"all"}, e, {"escalation"}, x, "none")} :
                        e \in {{}, {"alice"}}, x \in {{}, {"escalation"}}}}
SiblingPolicy == OrgDoc("d", {OrgAs("enforce", TRUE, {})}, "root", FALSE)
Context(kind, document) ==
    [kind |-> kind, document |-> document, baseline |-> [form |-> "none", bindings |-> {}]]
MCContexts ==
    {Context("firewall_rule", [rules |-> r]) : r \in MCFwSets}
    \cup {Context("iam_policy", p) : p \in IamPolicies}
    \cup {[Context("iam_policy", IamPolicy({IamAs("binding", "owner", {"alice"}, "none"), Alice}))
             EXCEPT !.baseline = p] : p \in IamPolicies}
    \cup {Context("iam_deny_policy", d) : d \in Denials}
    \cup {Context("org_policy", OrgDoc(c, r, "root", FALSE)) : c \in {"c", "d"},
              r \in {s \in OrgRuleSets : \A q \in s : q.key # "ambiguous"}}
    \cup {Context("tf_plan", PlanAs(g, {}, {}, {})) : g \in {{}} \cup {{q} : q \in PlanGrants} \cup {{q, Sibling} : q \in PlanGrants}}
    \cup {Context("tf_plan", PlanAs({}, p, {}, {})) : p \in {{q} : q \in OrgPlanned} \cup {{q, SiblingPolicy} : q \in OrgPlanned}}
    \cup {Context("tf_plan", PlanAs({}, {}, f, {})) : f \in MCFwSets}
    \cup {Context("tf_plan", PlanAs({}, {}, {}, d)) :
              d \in {{q} : q \in PlanDenials} \cup {{q, SiblingDenial} : q \in PlanDenials}}
    \cup {Context("security_policy", [rules |-> {}])}
    \cup {Context("anything-else", [rules |-> {}])}
MCCaptures ==
    LET made(captured, complete, seen, rules) ==
            [captured |-> captured, complete |-> complete, seen |-> seen, rules |-> rules]
        web == FwAs("allow", {"private"}, {}, {Block("tcp", {"web"})})
        estates == {{}, {web}} \cup {{web, r} : r \in {FwAs("allow", {"public"}, {}, {Block("tcp", p)}) :
                                                       p \in {{}, {"ssh"}, {"web"}, {"wide", "web"}, {"odd"}}}}
    IN UNION {{made(FALSE, FALSE, {}, e), made(TRUE, TRUE, e, e), made(TRUE, FALSE, e \cap {web}, e)} : e \in estates}

RL == INSTANCE Rules WITH
        Promises <- MCPromises, Contexts <- MCContexts, Captures <- MCCaptures, MaxUnroll <- 6

(* See Rules. *)
RuleIsTrue == RL!RuleIsTrue
PlanIsReadWhole == RL!PlanIsReadWhole

-----------------------------------------------------------------------------
(* IAM: every sequence of up to four tokens and the longer ones that tell   *)
(* how operators bind; policies of two bindings; one custom role.          *)

CelOps == {"||", "&&"}
MCExpressions ==
    UNION {[1..n -> {"early", "since", "ours", "true", "odd", "||", "&&", "!", "(", ")"}] : n \in 0..3}
    \cup [1..4 -> {"early", "ours", "||", "&&", "!", "(", ")"}]
    \cup {<<a, o, b, p, c>> : a \in {"early", "true"}, b \in {"since", "late", "ours"},
                              c \in {"late", "ours", "false"}, o \in CelOps, p \in CelOps}
    \cup {n \o <<"(", a, o, b, ")", p, c>> : n \in {<<>>, <<"!">>, <<"!", "!">>}, a \in {"early", "ours"},
             b \in {"since", "late"}, c \in {"late", "ours"}, o \in CelOps, p \in CelOps}
IamConditions == {<<>>, <<"early">>, <<"late">>, <<"early", "&&", "ours">>, <<"early", "||", "since">>,
                  <<"early", "||", "ours", "&&", "late">>, <<"odd">>, <<"malformed">>}
IamBind(role, members, condition) ==
    [form |-> "binding", role |-> role, members |-> members, condition |-> condition]
IamAllow(bindings) == [form |-> "allow", bindings |-> bindings]
SomePolicies ==
    {IamAllow({IamBind(r, {"alice"}, c)}) : r \in {"viewer", "admin"}, c \in IamConditions}
    \cup {IamAllow({IamBind("viewer", {"alice"}, c), IamBind("viewer", m, <<"late">>)}) :
             c \in IamConditions, m \in {{}, {"alice", "bob"}}}
    \cup {IamAllow({}), [form |-> "deny", bindings |-> {}],
          IamAllow({[IamBind("viewer", {"alice"}, <<>>) EXCEPT !.form = "odd"]})}
MCPeople == {"alice", "bob"}
MCPermissionsOf == [owner |-> {"list"}, admin |-> {"actAs", "list"}, viewer |-> {"list"},
                    editor |-> {}, hollow |-> {}]   \* captured, without its permissions
IamGrant(place, role, members, listed) ==
    [form |-> "binding", place |-> place, role |-> role, members |-> members, listed |-> listed]
GrantsAt(place) ==
    {IamGrant(place, r, m, TRUE) : r \in {"owner", "editor", "admin", "viewer", "hollow", "gone", "odd"},
        m \in {{}, {"alice"}, {"allUsers"}, {"wildcard"}, {"alice", "wildcard"}, {"allUsers", "wildcard"}}}
    \cup {IamGrant(place, "admin", {}, FALSE),
          [IamGrant(place, "admin", {"alice"}, TRUE) EXCEPT !.form = "odd"]}
MCIamDocuments ==
    {[form |-> f, anchor |-> a, bindings |-> {}] : f \in {"list", "absent", "odd"}, a \in {"index", "address"}}
    \cup {[form |-> "list", anchor |-> a, bindings |-> {g, h}] :
             a \in {"index", "address", "elsewhere"}, g \in GrantsAt(1), h \in GrantsAt(2)}
MCIamDenials ==
    [denied : {{"allUsers"}, {"alice"}}, permissions : SUBSET {"actAs", "list", "*"},
     excepted : {{}, {"setIamPolicy"}}, exceptions : SUBSET {"allUsers", "alice", "wildcard"}]
HeldGrant(role, members, conditional) ==
    [form |-> "binding", role |-> role, members |-> members, conditional |-> conditional]
HeldOnce == {HeldGrant(r, m, c) : r \in {"admin", "viewer", "hollow", "gone", "custom"},
                             m \in {{"alice"}, {"alice", "bob"}}, c \in BOOLEAN}
            \cup {[HeldGrant("admin", {"alice"}, FALSE) EXCEPT !.form = "odd"]}
SwapFrom(role, members) ==
    [form |-> "binding", role |-> role, members |-> members, project |-> "p", many |-> FALSE]
Swapped == SwapFrom("custom", {"alice"})
CustomRoles == {[form |-> "read", named |-> TRUE, many |-> FALSE, permissions |-> p] :
                  p \in {{}, {"list"}, {"actAs", "list"}, {"setIamPolicy"}, {"list", "odd"}}}
Custom == [form |-> "read", named |-> TRUE, many |-> FALSE, permissions |-> {"list"}]
SwapEstate(form, current) == [form |-> form, roles |-> TRUE, current |-> current]
MCSwaps ==
    {[custom |-> c, bindings |-> {Swapped}, estate |-> SwapEstate("captured", e)] :
        c \in CustomRoles, e \in {<<>>} \cup {<<g>> : g \in HeldOnce} \cup {<<g, h>> : g, h \in HeldOnce}}
    \cup {[custom |-> c, bindings |-> {b, SwapFrom("viewer", {"bob"})}, estate |-> e] :
        c \in {Custom, [Custom EXCEPT !.named = FALSE], [Custom EXCEPT !.many = TRUE], [Custom EXCEPT !.form = "odd"]},
        b \in {SwapFrom("odd", {"alice"}), SwapFrom("custom", {}), SwapFrom("custom", {"alice", "odd"}),
               [Swapped EXCEPT !.many = TRUE], [Swapped EXCEPT !.form = "odd"],
               [Swapped EXCEPT !.project = "odd"], Swapped},
        e \in {SwapEstate(f, <<HeldGrant("admin", {"alice"}, FALSE)>>) : f \in {"captured", "uncaptured", "absent", "odd"}}
               \cup {[SwapEstate("captured", <<HeldGrant("admin", {"alice"}, FALSE)>>) EXCEPT !.roles = FALSE]}}

IM == INSTANCE IAM WITH
        Expressions <- MCExpressions, PolicyPairs <- SomePolicies \X SomePolicies,
        Swaps <- MCSwaps

(* See IAM. *)
ChangeIsTrue == IM!ChangeIsTrue

-----------------------------------------------------------------------------
(* Views of one resource, to be compared with one another.                 *)

W(word) == [kind |-> "word", word |-> word]
L(items) == [kind |-> "list", items |-> items]
O(fields) == [kind |-> "object", fields |-> fields]
NullView == [kind |-> "null"]
Words(words) == L([i \in DOMAIN words |-> W(words[i])])
Protocol(protocol, ports) == O([protocol |-> W(protocol), ports |-> ports])

FwView == [action |-> W("allow"), priority |-> W("1"), disabled |-> W("false"),
           layer4 |-> L(<<Protocol("tcp", Words(<<"22">>))>>), ranges |-> Words(<<"a", "b">>)]
FwViews ==
    {O(FwView)} \cup
    {O([FwView EXCEPT !.priority = W(p)]) : p \in {"1-as-text", "2", "odd"}} \cup
    {O([FwView EXCEPT !.disabled = d]) : d \in {NullView, W("False"), W("true")}} \cup
    {O([FwView EXCEPT !.layer4 = l]) :
       l \in {NullView, L(<<>>), W("tcp"), L(<<W("tcp")>>),
              L(<<Protocol("TCP", Words(<<"22-22">>))>>), L(<<Protocol("tcp", NullView)>>),
              L(<<Protocol("tcp", L(<<>>))>>), L(<<Protocol("udp", Words(<<"22">>))>>),
              L(<<Protocol("tcp", Words(<<"22-80">>))>>),
              L(<<Protocol("tcp", Words(<<"backwards">>))>>),
              L(<<O([protocol |-> W("tcp"), novel |-> W("x")])>>)}} \cup
    {O([FwView EXCEPT !.ranges = Words(r), !.disabled = d]) :
       r \in {<<"b", "a">>, <<"a">>, <<>>}, d \in {NullView, W("false")}} \cup
    {O(FwView @@ extra) : extra \in {[etag |-> W("1")], [etag |-> W("2")], [description |-> W("x")],
                                     [description |-> W("y")], [novel |-> W("x")]}} \cup
    {O([f \in DOMAIN FwView \ {g} |-> FwView[f]]) : g \in {"action", "disabled", "priority"}}

ArmorRule(priority, action, ranges) ==
    O([priority |-> W(priority), action |-> W(action), ranges |-> Words(ranges)])
ArmorViews ==
    {O([rules |-> L(rules)]) :
       rules \in {<<>>, <<ArmorRule("1", "allow", <<"a">>)>>, <<ArmorRule("1-as-text", "allow", <<"a">>)>>,
                  <<ArmorRule("1", "deny", <<"a">>)>>, <<ArmorRule("2", "allow", <<"a">>)>>}
                 \cup {<<ArmorRule(p, "allow", <<"a">>), ArmorRule(q, x, r)>> :
                         p \in {"1", "2"}, q \in {"1", "2"}, x \in {"allow", "deny"},
                         r \in {<<"a">>, <<"b", "a">>, <<"a", "b">>}}}

Bound(role, members) == O([role |-> W(role), members |-> Words(members)])
Bindings ==
    {<<>>, <<Bound("r", <<"a", "b">>)>>, <<Bound("r", <<"b", "a">>)>>,
     <<Bound("r", <<"a">>), Bound("r", <<"b">>)>>, <<Bound("r", <<"b">>), Bound("r", <<"a">>)>>,
     <<Bound("r", <<"a">>)>>, <<Bound("q", <<"a", "b">>)>>, <<Bound("r", <<"a">>), Bound("q", <<>>)>>,
     <<Bound("r", <<"a">>), O([role |-> W("r"), members |-> Words(<<"b">>), condition |-> W("c")])>>,
     <<Bound("r", <<"a">>), O([role |-> W("r"), members |-> Words(<<"b">>), novel |-> W("c")])>>,
     <<Bound("r", <<"a">>), W("b")>>, <<O([role |-> W("r"), members |-> W("a")])>>}
IamViews ==
    {O([bindings |-> L(b), version |-> W("1")]) : b \in Bindings}
    \cup {O([bindings |-> L(<<Bound("r", <<"a">>)>>), version |-> W("3")]),
          O([bindings |-> NullView]), O([bindings |-> W("r")])}

Switches(values) == L([i \in DOMAIN values |-> O([enforce |-> W(values[i])])])
OrgViews ==
    {O([rules |-> Switches(v)]) :
       v \in {<<>>, <<"TRUE">>, <<"FALSE">>, <<"TRUE", "FALSE">>, <<"FALSE", "TRUE">>, <<"TRUE", "TRUE">>}}
    \cup {O([rules |-> Switches(<<"TRUE">>), dry_run_spec |-> W(d)]) : d \in {"x", "y"}}

Config(resources) == O([resources |-> Words(resources)])
PerimeterBlocks == {NullView, Config(<<"p">>), Config(<<"p", "q">>), Config(<<"q", "p">>)}
PerimeterViews == {O([status |-> s, spec |-> d]) : s \in PerimeterBlocks, d \in PerimeterBlocks}

MCViews ==
    [firewall_rules |-> FwViews \cup {NullView}, cloud_armor_policies |-> ArmorViews,
     iam_bindings |-> IamViews, org_policies |-> OrgViews, vpc_sc_perimeters |-> PerimeterViews,
     networks |-> {NullView, W("x"), W("y"), O([name |-> W("x")])}]

CM == INSTANCE Comparison WITH Views <- MCViews

(* See Comparison. *)
ComparisonIsTrue == CM!ComparisonIsTrue

-----------------------------------------------------------------------------
Init == Unasked
Next == \/ AskNext
        \/ RL!AskPromise
        \/ IM!AskCondition \/ IM!AskSubset \/ IM!AskSwap
        \/ CM!AskViews
Spec == Init /\ [][Next]_asked

(* The questions about promises alone. *)
PromiseSpec == Init /\ [][RL!AskPromise]_asked
=============================================================================
