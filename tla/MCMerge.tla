------------------------------ MODULE MCMerge -------------------------------
(***************************************************************************)
(* One table category and one flat one, an API snapshot (1), a state file  *)
(* (2), a second state file (3) and configuration (4).  An input is any    *)
(* set of at most MaxFacts facts of Pool, under every precedence mode and  *)
(* several coverage claims.                                                *)
(***************************************************************************)
EXTENDS Merge, FiniteSetsExt, TLC

CONSTANT MaxFacts

MCKeys == {"k1", "k1-alias", "k2", "k3", "k4", "raw"}
MCAmbiguousKeys == {"raw"}
MCcanonical_key == [k \in MCKeys \ MCAmbiguousKeys |-> IF k = "k1-alias" THEN "k1" ELSE k]
MCSourceIds == 1..4
MCKind == [s \in MCSourceIds |-> CASE s = 1 -> "api" [] s = 4 -> "hcl" [] OTHER -> "tfstate"]

Rec(m, b, u) == [n \in Fields |-> CASE n = "members" -> m [] n = "description" -> b
                                    [] OTHER -> u]
X == {"x"}   Y == {"y"}   Z == {"z"}
MCslot == [i \in Items |-> IF i = "z" THEN 2 ELSE 1]   \* x and y: one rule, changed

Table(s, k, address, r, markers) ==
  [category |-> "table", key |-> k, origin |-> s, source |-> MCKind[s],
   address |-> address, fragment |-> FALSE, record |-> r, unresolved |-> markers]
Fragment(s, k, address, r) == [Table(s, k, address, r, {}) EXCEPT !.fragment = TRUE]
Flat(s, k) ==
  [Table(s, k, 0, NoRecord, {}) EXCEPT !.category = "flat"]
Proposed(f) == [f EXCEPT !.source = "tfplan-planned"]

Pool ==
  {Table(1, "k1", 0, r, {}) : r \in {Rec(X, X, Missing), Rec(Marker, Y, X)}}
  \cup {Table(1, "k1", 0, Rec(Missing, X, Missing), m) : m \in {{}, {"members"}}}
  \cup {Table(2, "k1", 1, Rec(X, X, X), {}), Table(2, "k1-alias", 2, Rec(Y, X, Missing), {}),
        Fragment(2, "k1", 3, Rec(Z, Missing, Missing)),
        Table(3, "k1", 1, Rec(Y, X, X), {}), Table(3, "k1", 1, Rec(Marker, X, X), {}),
        Table(4, "k1", 1, Rec(Y, Y, Y), {}), Fragment(4, "k1", 2, Rec(Z, Missing, Missing)),
        Proposed(Table(2, "k1", 4, Rec(X, X, Missing), {})),
        Proposed(Flat(2, "k2"))}
  \cup {Table(s, "raw", 5, Rec(X, X, Missing), {}) : s \in {1, 2}}
  \cup {Flat(s, "k2") : s \in MCSourceIds \ {3}}
  \cup {Flat(4, "raw"), [Flat(1, "k3") EXCEPT !.source = "unranked"]}

\* Two tables that may share no key, or only k2.
MissPool ==
  {Table(s, k, 6, Rec(X, X, Missing), {}) :
     s \in {2}, k \in {"k1-alias", "k1", "k2"}}
  \cup {Table(3, k, 6, Rec(X, X, Missing), {}) : k \in {"k2", "k3", "k4"}}

Subsets(S, n) == UNION {kSubset(i, S) : i \in 0..n}

MCScopeTables ==
  {<<>>,
   (<<1, "table">> :> "complete") @@ (<<1, "flat">> :> "partial"),
   (<<2, "table">> :> "complete") @@ (<<2, "flat">> :> "complete"),
   (<<3, "table">> :> "partial") @@ (<<1, "flat">> :> "complete")}

\* What the API snapshot declares about itself.
Source(s, scope, boundary) ==
  [kind |-> MCKind[s], scope |-> CASE s = 1 -> scope [] s = 4 -> "undeclared" [] OTHER -> "partial",
   boundary |-> IF s = 1 THEN boundary ELSE ""]

MCSourceLists ==
  {[s \in MCSourceIds |-> Source(s, x[1], x[2])] :
     x \in {<<"complete", "">>, <<"undeclared", "">>, <<"complete", "projects/p">>}}

MCFactSets == Subsets(Pool, MaxFacts) \cup SUBSET MissPool
MCPolicies == {[c \in Categories |-> mode] : mode \in PRECEDENCE}
=============================================================================
