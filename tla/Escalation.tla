----------------------------- MODULE Escalation -----------------------------
(***************************************************************************)
(* Roles that can escalate (iam_checks.py): who an IAM policy gives them   *)
(* to, and whether a rule of a deny policy denies what they allow.         *)
(***************************************************************************)
EXTENDS Asking

CONSTANTS
    People,         \* the members a snapshot can know, but the public ones
    PermissionsOf,  \* the roles that were captured, with their permissions
    IamDocuments,   \* policies whose grants are examined
    IamDenials      \* rules of deny policies

-----------------------------------------------------------------------------
PublicMembers == {"allUsers"}
(* A captured role is a readable name; the bindings of a document have      *)
(* places of their own, its indices or the addresses of resources.         *)
IamBinding(b) ==
    /\ DOMAIN b = {"form", "place", "role", "members", "listed"}
    /\ b.form \in {"binding", "odd"} /\ b.listed \in BOOLEAN
EscalationAssumption ==
    /\ PublicMembers \cap People = {} /\ "odd" \notin DOMAIN PermissionsOf
    /\ \A d \in IamDocuments : \A b, c \in d.bindings :
          IamBinding(b) /\ (b.place = c.place => b = c)
ASSUME EscalationAssumption

-----------------------------------------------------------------------------
(* Who gets an escalation.  A member of the estate, a public one or one no  *)
(* claim can model each make a claim of their own, paired with the role by  *)
(* the place of their binding: an index, or the address of a resource.     *)

MemberKind(member) == CASE member \in PublicMembers -> "public_principal"
                        [] member \in People -> "principal"
                        [] OTHER -> "unmodelled_principal"
EscalationPermissions == {"actAs", "setIamPolicy"}
EscalationRoles == {"owner", "editor"}
EscalationHits(role) == (PermissionsOf[role] \cap EscalationPermissions) \cup ({role} \cap EscalationRoles)

IamClaim(kind, value, place) == [kind |-> kind, value |-> value, place |-> place]
BindingClaims(b) ==
    IF b.form = "odd" THEN {}
    ELSE {IamClaim("role", r, b.place) : r \in {b.role} \ {"odd"}}
         \cup {IamClaim(MemberKind(m), m, b.place) : m \in b.members}
iam_policy_claims(document) == UNION {BindingClaims(b) : b \in document.bindings}

(* Mutant: members are paired with every role. *)
MembersAnywhere(claims, place) == {c \in claims : c.kind # "role"}
BoundMembers(claims, place) == {c \in claims : c.kind # "role" /\ c.place = place}

(* Only a list seen empty grants to nobody; no list of a plan is located.   *)
BindingMembers(place, document) ==
    IF /\ document.anchor = "index"
       /\ \A b \in document.bindings : b.place = place => b.listed
    THEN "read" ELSE "not-located"
NoUsableMembers(refused, place, document) ==
    IF refused = {} /\ BindingMembers(place, document) = "read" THEN "nobody" ELSE "unverified"
EscalationVerdict(claim, claims, document, captured) ==
    LET bound == BoundMembers(claims, claim.place)
        usable == {c \in bound : c.kind # "unmodelled_principal"}
    IN CASE document.anchor = "elsewhere" \/ ~captured -> {"unverified"}
         [] OTHER ->
              IF claim.value \notin DOMAIN PermissionsOf THEN {}
              ELSE IF PermissionsOf[claim.value] = {} THEN {"unverified"}
              ELSE IF EscalationHits(claim.value) = {} THEN {}
              ELSE IF \E c \in bound : c.kind = "public_principal" THEN {"contradicted"}
              ELSE IF usable # {} THEN {"review"}
              ELSE {NoUsableMembers(bound, claim.place, document)}
no_role_claims(document) ==
    IF \/ document.form = "list" /\ document.bindings = {}
       \/ document.form = "absent" \/ document.anchor # "index"
    THEN {} ELSE {"unverified"}
check_escalation(document, captured) ==
    LET claims == iam_policy_claims(document)
        roles == {c \in claims : c.kind = "role"}
    IN IF roles = {} THEN {[role |-> "any", place |-> 0, says |-> s] : s \in no_role_claims(document)}
       ELSE UNION {{[role |-> c.value, place |-> c.place, says |-> s] :
                      s \in EscalationVerdict(c, claims, document, captured)} : c \in roles}
check_public_principal(claim) ==
    IF claim.polarity = "grant" THEN "contradicted"
    ELSE IF claim.excepted THEN "contradicted" ELSE "grounded"

-----------------------------------------------------------------------------
(* Whether a rule of a deny policy denies an escalation.  "*" has no normal *)
(* form; the exceptions are the principals that were read.                 *)

ExceptionDefect(rule) ==
    LET kinds == {MemberKind(m) : m \in rule.exceptions}
    IN IF "public_principal" \in kinds THEN {"contradicted"}
       ELSE IF "unmodelled_principal" \in kinds THEN {"unverified"} ELSE {}
check_denied_permission(permission, excepted, rule) ==
    IF permission = "*" THEN "unverified"
    ELSE IF permission \notin EscalationPermissions THEN "no-escalation"
    ELSE IF excepted THEN "carved-out"
    ELSE IF ExceptionDefect(rule) # {} THEN CHOOSE s \in ExceptionDefect(rule) : TRUE
    ELSE "blocks"
DenialVerdicts(rule) ==
    {[of |-> p, says |-> check_denied_permission(p, FALSE, rule)] : p \in rule.permissions}
    \cup {[of |-> p, says |-> check_denied_permission(p, TRUE, rule)] : p \in rule.excepted}
    \cup {[of |-> m, says |-> check_public_principal([polarity |-> "deny", excepted |-> FALSE])] :
            m \in rule.denied \cap PublicMembers}
    \cup {[of |-> m, says |-> check_public_principal([polarity |-> "deny", excepted |-> TRUE])] :
            m \in rule.exceptions \cap PublicMembers}

-----------------------------------------------------------------------------
AskEscalation ==
    /\ Unasked
    /\ \E d \in IamDocuments, c \in BOOLEAN :
         asked' = [of |-> "escalation", document |-> d, captured |-> c,
                   says |-> check_escalation(d, c)]
AskDenial ==
    /\ Unasked
    /\ \E r \in IamDenials : asked' = [of |-> "denial", rule |-> r, says |-> DenialVerdicts(r)]
-----------------------------------------------------------------------------
(* Of the bindings of a document, and of a rule of a deny policy.          *)
TrueOfBinding(b, document, captured, says) ==
    LET escalates == /\ b.form # "odd" /\ b.role \in DOMAIN PermissionsOf
                     /\ EscalationHits(b.role) # {}
        said == {v.says : v \in {u \in says : u.place = b.place}}
    IN /\ "contradicted" \in said => escalates /\ b.members \cap PublicMembers # {}
       /\ "nobody" \in said => b.members = {} /\ b.listed
       /\ escalates => said # {}
       /\ (escalates /\ b.members \cap PublicMembers # {} /\ captured
           /\ document.anchor # "elsewhere" /\ PermissionsOf[b.role] # {})
             => "contradicted" \in said
TrueOfDenial(rule, says) ==
    \A v \in says : v.says = "blocks" => /\ v.of \in EscalationPermissions \cap rule.permissions
                                         /\ rule.exceptions \subseteq People

(* An escalation is called public exactly for the bindings that give a      *)
(* public member a role that can escalate and whose permissions were        *)
(* captured, "nobody" only where the list is empty, and a role that can     *)
(* escalate is never passed over in silence (iam_checks.py:243, :306,       *)
(* :393).  A denial is said to block an escalation only if everybody        *)
(* exempted from it, as far as read, is a known person (iam_checks.py:556). *)
EscalationIsTrue ==
    /\ asked.of = "escalation" =>
         \A b \in asked.document.bindings :
            TrueOfBinding(b, asked.document, asked.captured, asked.says)
    /\ asked.of = "denial" => TrueOfDenial(asked.rule, asked.says)
=============================================================================
