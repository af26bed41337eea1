----------------------------- MODULE Perimeter -----------------------------
(***************************************************************************)
(* Service perimeters (vpcsc_checks.py, vpcsc_claims.py): whether a        *)
(* proposed perimeter protects less than the one before it, and whether    *)
(* its ingress or egress policies permit what the ones before did not.     *)
(*                                                                         *)
(* A list of a document is absent, something else than a list, or given.   *)
(* The proposal is normalised first: what cannot be read becomes an empty  *)
(* list.  The previous perimeter is read as it is written.                 *)
(***************************************************************************)
EXTENDS Asking, Naturals, Sequences, FiniteSets, SequencesExt

CONSTANTS
    Proposed,       \* the perimeters that may be proposed
    Previous,       \* the perimeters that may have been there
    AxisValues      \* the values of each axis, one of which no policy names

Directions == {"ingress", "egress"}
Axes == {"identity", "service", "method", "resource"}

Given(items) == [form |-> "list", items |-> items]
AbsentList == [form |-> "absent", items |-> <<>>]
OddList == [form |-> "odd", items |-> <<>>]
NoBlock == [block |-> FALSE]

(* The documents.  A service is "none" where there is none and "odd" where *)
(* it is no name; an identity type that admits any caller is "any"; a      *)
(* perimeter type that is neither of the two is "none".                    *)
Lists(S) == {l \in [form : {"list", "absent", "odd"}, items : Seq(S)] :
                l.form # "list" => l.items = <<>>}
OperationDocument == [service : STRING, methods : Lists(STRING)]
PolicyDocument ==
    [identity_type : {"none", "any", "odd"}, identities : Lists(STRING),
     operations : Lists(OperationDocument), resources : Lists(STRING)]
ConfigDocument ==
    {NoBlock} \cup [block : {TRUE}, resources : Lists(STRING), restricted : Lists(STRING),
                    policies : [Directions -> Lists(PolicyDocument)]]
PerimeterDocument ==
    [name : STRING, type : {"REGULAR", "BRIDGE", "none"}, dry_run : BOOLEAN,
     status : ConfigDocument, spec : ConfigDocument]
ASSUME PerimeterAssumption == Proposed \cup Previous \subseteq PerimeterDocument

-----------------------------------------------------------------------------
(* Normalising the proposal.                                               *)

Listed(list) == IF list.form = "odd" THEN Given(<<>>) ELSE list
NormalOperation(op) ==
    [service |-> IF op.service = "odd" THEN "none" ELSE op.service, methods |-> Listed(op.methods)]
NormalPolicy(policy) ==
    [identity_type |-> IF policy.identity_type = "odd" THEN "none" ELSE policy.identity_type,
     identities |-> Listed(policy.identities), resources |-> Listed(policy.resources),
     operations |-> Given([i \in DOMAIN policy.operations.items |->
                              NormalOperation(policy.operations.items[i])])]
NormalConfig(config) ==
    IF config = NoBlock THEN NoBlock
    ELSE [block |-> TRUE, resources |-> Listed(config.resources),
          restricted |-> Listed(config.restricted),
          policies |-> [d \in Directions |->
              Given([i \in DOMAIN config.policies[d].items |->
                        NormalPolicy(config.policies[d].items[i])])]]
NormalPerimeter(perimeter) ==
    [perimeter EXCEPT !.status = NormalConfig(@), !.spec = NormalConfig(@)]

-----------------------------------------------------------------------------
(* A change of the explicit dry run alone is compared against that.        *)

IsDryRun(new) == new.dry_run /\ new.status = NoBlock /\ new.spec # NoBlock
Side(perimeter, dry) == IF dry THEN perimeter.spec ELSE perimeter.status

Fields == {"resources", "restricted"}
NamesIn(list) == Range(list.items)

check_protection(new, old, now, was) ==
    LET readable == {f \in Fields : was[f].form = "list"}
        removes == \E f \in readable : NamesIn(was[f]) \ NamesIn(now[f]) # {}
        demotes == old.type = "REGULAR" /\ new.type = "BRIDGE"
        findings == (IF removes \/ demotes THEN {"contradicted"} ELSE {})
                    \cup IF readable # Fields THEN {"unverified"} ELSE {}
    IN IF was = NoBlock \/ now = NoBlock THEN {"unverified"}
       ELSE IF findings # {} THEN findings
       ELSE IF \E f \in Fields : NamesIn(now[f]) = {} THEN {"unverified"} ELSE {"grounded"}

-----------------------------------------------------------------------------
(* The axes of a policy, each any value, some values, or unreadable.  The  *)
(* services and the methods are collected over all operations.             *)

Axis(state, literals) == [state |-> state, literals |-> literals]
UnreadableAxis == Axis("unreadable", {})
Literals(list) == IF list.form = "odd" THEN UnreadableAxis ELSE Axis("literals", Range(list.items))
IdentityAxis(policy) ==
    CASE policy.identity_type = "any" -> Axis("wildcard", {})
      [] policy.identity_type = "odd" -> UnreadableAxis
      [] OTHER -> Literals(policy.identities)
ServiceAxis(operations) ==
    LET services == {o.service : o \in Range(operations.items)}
    IN IF operations.form = "odd" \/ "odd" \in services THEN UnreadableAxis
       ELSE Axis("literals", services \ {"none"})
MethodAxis(operations) ==
    LET lists == {o.methods : o \in Range(operations.items)}
    IN IF operations.form = "odd" \/ OddList \in lists THEN UnreadableAxis
       ELSE Axis("literals", UNION {Range(l.items) : l \in lists})
AxesOf(policy) ==
    [identity |-> IdentityAxis(policy), service |-> ServiceAxis(policy.operations),
     method |-> MethodAxis(policy.operations), resource |-> Literals(policy.resources)]

(* An axis with no value, or with a star among them, admits any value.     *)
Admits(axis, value) ==
    \/ axis.state # "literals" \/ axis.literals = {} \/ "*" \in axis.literals
    \/ value \in axis.literals
Requests == {[identity |-> i, service |-> s, method |-> m, resource |-> r] :
                i \in AxisValues["identity"], s \in AxisValues["service"],
                m \in AxisValues["method"], r \in AxisValues["resource"]}
AxesAllow(policies, request) ==
    \E i \in DOMAIN policies : \A a \in Axes : Admits(AxesOf(policies[i])[a], request[a])

(* Mutant: an axis of the previous perimeter nobody can read is any value. *)
BlockedNever(policies) == FALSE
Blocked(policies) ==
    \E i \in DOMAIN policies : \E a \in Axes : AxesOf(policies[i])[a] = UnreadableAxis

(* Is there a request that is permitted now and was not before?  `was` is  *)
(* as written, `now` normalised; the solver may not be there, or give up.  *)
check_policy_widening(direction, now, was, solver) ==
    IF now = NoBlock \/ now.policies[direction].items = <<>> THEN "grounded"
    ELSE IF was = NoBlock \/ was.policies[direction].form # "list" THEN "unverified"
    ELSE IF Blocked(was.policies[direction].items) \/ solver # "answers" THEN "unverified"
    ELSE IF \E q \in Requests : /\ AxesAllow(now.policies[direction].items, q)
                                   /\ ~AxesAllow(was.policies[direction].items, q)
         THEN "contradicted" ELSE "grounded"

Compare(proposal, old, solver) ==
    LET new == NormalPerimeter(proposal)
        dry == IsDryRun(new)
        now == Side(new, dry)
        was == Side(old, dry)
    IN [protection |-> check_protection(new, NormalPerimeter(old), now, was), dry |-> dry,
        widening |-> [d \in Directions |-> check_policy_widening(d, now, was, solver)]]

(* A perimeter that is not captured, or has another name than the given    *)
(* baseline, has no known previous state.                                  *)
check_perimeter(new, old, solver) ==
    IF old.name # new.name
    THEN [protection |-> {"unverified"}, dry |-> FALSE,
          widening |-> [d \in Directions |-> "unverified"]]
    ELSE Compare(new, old, solver)

AskPerimeter ==
    /\ Unasked
    /\ \E new \in Proposed, old \in Previous, solver \in {"answers", "gives-up", "absent"} :
          asked' = [of |-> "perimeter", new |-> new, old |-> old,
                    says |-> check_perimeter(new, old, solver)]

-----------------------------------------------------------------------------
(* What a perimeter covers, which of what it lists it protects only as     *)
(* long as it is no bridge; and what its policies permit: an operation is  *)
(* a service together with methods of that service.                        *)
Covers(config) == NamesIn(config.resources) \X NamesIn(config.restricted)
Takes(list, value) ==
    list.form # "odd" /\ (list.items = <<>> \/ {"*", value} \cap Range(list.items) # {})
Performs(op, request) ==
    /\ op.service \in {"none", "*", request.service}
    /\ Takes(op.methods, request.method)
PermitsOne(policy, request) ==
    /\ \/ policy.identity_type = "any"
       \/ policy.identity_type = "none" /\ Takes(policy.identities, request.identity)
    /\ Takes(policy.resources, request.resource)
    /\ policy.operations.form # "odd"
    /\ \/ policy.operations.items = <<>>
       \/ \E o \in Range(policy.operations.items) : Performs(o, request)
Permits(config, direction, request) ==
    /\ config # NoBlock
    /\ \E p \in Range(config.policies[direction].items) : PermitsOne(p, request)
Wider(now, was, direction) ==
    \E q \in Requests : Permits(now, direction, q) /\ ~Permits(was, direction, q)

LegiblePolicy(policy) ==
    /\ policy.identity_type # "odd" /\ OddList \notin {policy.identities, policy.resources}
    /\ policy.operations.form # "odd"
    /\ \A o \in Range(policy.operations.items) : o.service # "odd" /\ o.methods # OddList
Legible(config, direction) ==
    config # NoBlock => /\ config.policies[direction].form # "odd"
                        /\ \A p \in Range(config.policies[direction].items) : LegiblePolicy(p)
Simple(config, direction) ==
    config # NoBlock => \A p \in Range(config.policies[direction].items) :
                            Len(p.operations.items) <= 1

(* What two perimeters protect and permit, against what is said of them.   *)
TrueOfPerimeter(new, old, says) ==
    LET now == Side(new, says.dry)
        was == Side(old, says.dry)
    IN /\ says.protection = {"grounded"} =>
             /\ Covers(was) \subseteq Covers(now) /\ Covers(now) # {}
             /\ old.type = "REGULAR" => new.type # "BRIDGE"
       /\ \A d \in Directions :
             Legible(now, d) /\ Simple(now, d) /\ Simple(was, d) =>
                /\ says.widening[d] = "grounded" => ~Wider(now, was, d)
                /\ says.widening[d] = "contradicted" => Wider(now, was, d)

(* A perimeter that is passed covers something, and all that the one       *)
(* before it covered, and is no bridge where that was a regular one.  That *)
(* is what it lists: a bridge protects none of it, and a previous          *)
(* perimeter that is a bridge, or says no type, may become one or stay one *)
(* and be passed.  Between policies of one operation each, a change that   *)
(* is passed permits no request the previous policies did not, and one     *)
(* that is refused for it does; a previous policy that cannot be read      *)
(* permits nothing for sure (vpcsc_checks.py:225, 267, 316, 549).          *)
PerimeterIsTrue ==
    asked.of = "perimeter" /\ asked.old.name = asked.new.name =>
        TrueOfPerimeter(asked.new, asked.old, asked.says)
=============================================================================
