----------------------------- MODULE Provenance -----------------------------
(***************************************************************************)
(* The orders and pure predicates of gcp_grounding/provenance.py: the      *)
(* coverage lattice, the taint order, the coercions a CategoryScope makes  *)
(* when it is constructed, and the absence predicate require_complete that *)
(* every absence-reasoning check consults.                                 *)
(*                                                                         *)
(* A coverage claim is a scope together with a boundary, the name of what  *)
(* the coverage is complete within; "" is "no boundary declared".          *)
(***************************************************************************)
EXTENDS Naturals

Scopes == {"uncaptured", "undeclared", "partial", "complete"}
Taints == {"", "disputed", "stale", "unmergeable"}
Sources == {"fixture", "hcl", "tfplan-prior", "tfstate", "unattributed",
            "api", "explicit-baseline"}
TerraformSources == {"hcl", "tfplan-prior", "tfstate"}

\* Position in the one fidelity order, weakest first.
fidelity_rank ==
  [k \in Sources |-> CASE k = "fixture"      -> 0
                       [] k = "hcl"          -> 1
                       [] k = "tfplan-prior" -> 2
                       [] k = "tfstate"      -> 3
                       [] k = "unattributed" -> 4
                       [] k = "api"          -> 5
                       [] OTHER              -> 6]

scope_rank ==
  [s \in Scopes |-> CASE s = "uncaptured" -> 0
                      [] s = "undeclared" -> 1
                      [] s = "partial"    -> 2
                      [] OTHER            -> 3]

taint_rank ==
  [t \in Taints |-> CASE t = ""         -> 0
                      [] t = "disputed" -> 1
                      [] t = "stale"    -> 2
                      [] OTHER          -> 3]

-----------------------------------------------------------------------------
(* Composition.                                                            *)

MaxScope(S) == CHOOSE s \in S : \A t \in S : scope_rank[t] <= scope_rank[s]
MinScope(a, b) == IF scope_rank[a] <= scope_rank[b] THEN a ELSE b

Contribution(scope, boundary) == [scope |-> scope, boundary |-> boundary]

\* An uncaptured contributor describes no content, so it names no boundary.
BoundariesOf(C) == {c.boundary : c \in {d \in C : d.scope # "uncaptured"}}

BoundariesDiffer(C) == \E a, b \in BoundariesOf(C) : a # b

\* compose_scope over a set of contributions, all of them in one call: the
\* strongest scope, unless the contributors were complete within different
\* boundaries; then at most partial, within none.
ComposedScope(C) ==
  LET best == MaxScope({c.scope : c \in C})
  IN  IF C = {} THEN "uncaptured"
      ELSE IF BoundariesDiffer(C) THEN MinScope(best, "partial") ELSE best

ComposedBoundary(C) ==
  IF BoundariesOf(C) = {} \/ BoundariesDiffer(C)
  THEN "" ELSE CHOOSE b \in BoundariesOf(C) : TRUE

compose_scope(C) == Contribution(ComposedScope(C), ComposedBoundary(C))

compose_taint(t, u) == IF taint_rank[u] > taint_rank[t] THEN u ELSE t

-----------------------------------------------------------------------------
(* The category record a builder entry becomes.                            *)

\* A terraform artifact covers only the resources terraform manages.
CapTerraform(kinds, scope) ==
  IF kinds \cap TerraformSources # {} THEN MinScope(scope, "partial") ELSE scope

can_license(r) == r.scope = "complete" /\ r.taint = "" /\ r.dropped = 0

\* CategoryScope.__post_init__: the two caps, then "nothing emitted is
\* uncaptured", then the licence is narrowed to what is left.
CategoryScope(e) ==
  LET capped == CapTerraform(e.source_kinds, e.scope)
      holed  == IF e.dropped > 0 THEN MinScope(capped, "partial") ELSE capped
      r      == [e EXCEPT !.scope = IF e.emitted THEN holed ELSE "uncaptured",
                          !.keys  = IF e.emitted THEN e.keys ELSE 0]
  IN  [r EXCEPT !.existence_licensed = e.existence_licensed /\ can_license(r)]

\* SourceRecord.__post_init__: the same terraform cap on one source's claim.
SourceRecord(kind, scope) ==
  [kind |-> kind, scope |-> CapTerraform({kind}, scope)]

\* CategoryScope() as the module constant UNCAPTURED: nobody declared it.
UNCAPTURED == [scope |-> "uncaptured", boundary |-> "", taint |-> "",
               keys |-> 0, dropped |-> 0, source_kinds |-> {},
               existence_licensed |-> FALSE, emitted |-> FALSE]

\* require_complete: "" licenses the absence, anything else is the first
\* refusal, in the order of specificity the function tests them.
require_complete(r) ==
  IF r.scope = "uncaptured" THEN "uncaptured"
  ELSE IF r.dropped > 0     THEN "dropped"
  ELSE IF r.taint # ""      THEN "tainted"
  ELSE IF r.scope # "complete" THEN r.scope
  ELSE IF ~r.existence_licensed THEN "withheld"
  ELSE ""
=============================================================================
