-------------------------- MODULE Provenance_proof --------------------------
(***************************************************************************)
(* Lemmas about the coverage lattice and the taint order, used by the      *)
(* proofs about the modules built on them.                                 *)
(***************************************************************************)
EXTENDS Provenance, TLAPS

\* The scope order is the four positions of the lattice, injectively.
LEMMA ScopeRank ==
  /\ scope_rank["uncaptured"] = 0 /\ scope_rank["undeclared"] = 1
  /\ scope_rank["partial"] = 2 /\ scope_rank["complete"] = 3
  /\ \A s \in Scopes : scope_rank[s] \in 0..3
BY DEF scope_rank, Scopes

\* Taints are ranked, and only the empty one has rank zero.
LEMMA TaintRank ==
  /\ \A t \in Taints : taint_rank[t] \in 0..3
  /\ \A t \in Taints : taint_rank[t] <= taint_rank[""] => t = ""
BY DEF taint_rank, Taints

\* A nonempty set of scopes has a strongest member.
LEMMA MaxScopeExists ==
  ASSUME NEW S \in SUBSET Scopes, S # {}
  PROVE  /\ MaxScope(S) \in S
         /\ \A t \in S : scope_rank[t] <= scope_rank[MaxScope(S)]
<1>1. \E s \in S : \A t \in S : scope_rank[t] <= scope_rank[s]
  <2>1. CASE "complete" \in S
    BY <2>1, ScopeRank DEF Scopes
  <2>2. CASE "complete" \notin S /\ "partial" \in S
    BY <2>2, ScopeRank DEF Scopes
  <2>3. CASE "complete" \notin S /\ "partial" \notin S /\ "undeclared" \in S
    BY <2>3, ScopeRank DEF Scopes
  <2>4. CASE S = {"uncaptured"}
    BY <2>4, ScopeRank DEF Scopes
  <2> QED BY <2>1, <2>2, <2>3, <2>4 DEF Scopes
<1> QED BY <1>1 DEF MaxScope

\* The weaker of two scopes is one of them, and never above either.
LEMMA MinScopeIsOne ==
  ASSUME NEW a \in Scopes, NEW b \in Scopes
  PROVE  /\ MinScope(a, b) \in {a, b}
         /\ scope_rank[MinScope(a, b)] <= scope_rank[a]
         /\ scope_rank[MinScope(a, b)] <= scope_rank[b]
BY ScopeRank DEF MinScope

\* What is demoted to partial is no longer complete.
LEMMA AtMostPartial ==
  ASSUME NEW a \in Scopes
  PROVE  /\ MinScope(a, "partial") \in Scopes
         /\ MinScope(a, "partial") # "complete"
BY ScopeRank DEF MinScope, Scopes

\* Composition stays in the lattice, under a contributed boundary or none,
\* and is complete only where some contributor is.
LEMMA ComposeScope ==
  ASSUME NEW B, "" \in B, NEW C \in SUBSET [scope : Scopes, boundary : B]
  PROVE  /\ compose_scope(C).scope \in Scopes
         /\ compose_scope(C).boundary \in B
         /\ compose_scope(C).scope = "complete" =>
              \E k \in C : k.scope = "complete"
<1>1. ComposedBoundary(C) \in B
  <2>1. BoundariesOf(C) \subseteq B
    BY DEF BoundariesOf
  <2> QED BY <2>1 DEF ComposedBoundary
<1>2. /\ ComposedScope(C) \in Scopes
      /\ ComposedScope(C) = "complete" => \E k \in C : k.scope = "complete"
  <2> DEFINE S == {k.scope : k \in C}
  <2>1. CASE C = {}
    BY <2>1 DEF ComposedScope, Scopes
  <2>2. CASE C # {}
    <3>1. MaxScope(S) \in S
      <4>1. S \in SUBSET Scopes /\ S # {}
        BY <2>2
      <4> QED BY <4>1, MaxScopeExists
    <3>2. /\ MaxScope(S) \in Scopes
          /\ MaxScope(S) = "complete" => \E k \in C : k.scope = "complete"
      BY <3>1
    <3>3. /\ MinScope(MaxScope(S), "partial") \in Scopes
          /\ MinScope(MaxScope(S), "partial") # "complete"
      BY <3>2, AtMostPartial
    <3> QED BY <2>2, <3>2, <3>3 DEF ComposedScope
  <2> QED BY <2>1, <2>2
<1> QED BY <1>1, <1>2 DEF compose_scope, Contribution

\* A composed taint is a taint, no weaker than either.
LEMMA ComposeTaint ==
  ASSUME NEW t \in Taints, NEW u \in Taints
  PROVE  /\ compose_taint(t, u) \in Taints
         /\ taint_rank[t] <= taint_rank[compose_taint(t, u)]
         /\ taint_rank[u] <= taint_rank[compose_taint(t, u)]
<1>1. /\ taint_rank[t] \in 0..3
      /\ taint_rank[u] \in 0..3
  BY TaintRank
<1>2. CASE taint_rank[u] > taint_rank[t]
  BY <1>1, <1>2 DEF compose_taint
<1>3. CASE ~(taint_rank[u] > taint_rank[t])
  BY <1>1, <1>3 DEF compose_taint
<1> QED BY <1>2, <1>3
=============================================================================
