--------------------------------- MODULE IAM ---------------------------------
(***************************************************************************)
(* IAM policies: whether a condition can hold and whether a new policy     *)
(* grants a subset of the old one (constraints.py), and what a custom role *)
(* swapped into a binding adds (iam_scope.py).                             *)
(*                                                                         *)
(* A condition is a sequence of tokens, a comparison being one of them,    *)
(* and denotes the worlds in which it holds.                               *)
(***************************************************************************)
EXTENDS Escalation, Naturals, Sequences, FiniteSets, SequencesExt

CONSTANTS
    Expressions,    \* conditions
    PolicyPairs,    \* pairs of policies: the new and the old
    Swaps           \* custom roles, bindings and what the estate has bound

-----------------------------------------------------------------------------
(* Conditions.  An instant is before a threshold, at it or after it; "odd"  *)
(* is a token outside the supported subset.                                *)

Situations == [time : 1..3, ours : BOOLEAN]
Atoms == [early |-> {w \in Situations : w.time < 2}, since |-> {w \in Situations : w.time >= 2},
          late |-> {w \in Situations : w.time > 2}, ours |-> {w \in Situations : w.ours},
          true |-> Situations, false |-> {}]

Unsupported == [ok |-> FALSE, holds |-> {}, rest |-> <<>>]
Parsed(holds, rest) == [ok |-> TRUE, holds |-> holds, rest |-> rest]
Peek(tokens) == IF tokens = <<>> THEN "end" ELSE Head(tokens)

RECURSIVE More(_, _), Unary(_)
And(tokens) == More("&&", Unary(tokens))
Or(tokens) == More("||", And(tokens))
More(op, left) ==
    IF ~left.ok \/ Peek(left.rest) # op THEN left
    ELSE LET right == IF op = "||" THEN And(Tail(left.rest)) ELSE Unary(Tail(left.rest))
         IN More(op, [right EXCEPT !.holds = IF op = "||" THEN @ \cup left.holds
                                             ELSE @ \cap left.holds])
(* A "!" binds tighter than a comparison, so before one it is refused.     *)
Unary(tokens) ==
    LET rest == Tail(tokens)
        negated == Unary(rest)
        inner == Or(rest)
    IN CASE Peek(tokens) = "!" ->
              IF Peek(rest) \in {"!", "(", "true", "false"} /\ negated.ok
              THEN Parsed(Situations \ negated.holds, negated.rest) ELSE Unsupported
         [] Peek(tokens) = "(" ->
              IF inner.ok /\ Peek(inner.rest) = ")" THEN Parsed(inner.holds, Tail(inner.rest))
              ELSE Unsupported
         [] Peek(tokens) \in DOMAIN Atoms -> Parsed(Atoms[Head(tokens)], rest)
         [] OTHER -> Unsupported
translate(tokens) ==
    LET formula == Or(tokens) IN IF formula.rest = <<>> THEN formula ELSE Unsupported

Solvers == {"z3", "gives-up", "none"}
check_cel(tokens, solver) ==
    LET formula == translate(tokens)
    IN IF solver # "z3" \/ ~formula.ok THEN "unverified"
       ELSE IF formula.holds = {} THEN "never"
       ELSE IF formula.holds = Situations THEN "always" ELSE "sometimes"

-----------------------------------------------------------------------------
(* Whether a new policy grants a subset of an old one.  A binding has a     *)
(* role, members and a condition: none, a malformed one, or tokens.        *)

Unconditional == <<>>
Malformed == <<"malformed">>
Undecidable(policy) ==
    \/ policy.form # "allow"
    \/ \E b \in policy.bindings : b.form = "odd" \/ b.condition = Malformed

(* Mutant: a condition that is there is read as one that is not. *)
GrantPairsUnconditional(policy) ==
    UNION {{<<b.role, m, Unconditional>> : m \in b.members} : b \in policy.bindings}
GrantPairs(policy) ==
    UNION {{<<b.role, m, b.condition>> : m \in b.members} : b \in policy.bindings}

condition_formula(condition) ==
    IF condition = Unconditional THEN Parsed(Situations, <<>>) ELSE translate(condition)
GrantedIn(grants, world) ==
    {<<g[1], g[2]>> : g \in {h \in grants : world \in condition_formula(h[3]).holds}}
check_policy_subset(new, old, solver) ==
    LET grants == GrantPairs(new)
        before == GrantPairs(old)
    IN IF \/ Undecidable(new) \/ Undecidable(old) \/ solver # "z3"
          \/ \E g \in grants \cup before : ~condition_formula(g[3]).ok THEN "unverified"
       ELSE IF \A w \in Situations : GrantedIn(grants, w) \subseteq GrantedIn(before, w)
            THEN "grounded" ELSE "contradicted"

-----------------------------------------------------------------------------
(* A custom role swapped into a binding.  Its predecessor is the one other  *)
(* role the estate grants to exactly the members of the binding.           *)

PredecessorEntries(binding, current) ==
    SelectSeq(current, LAMBDA e : /\ e.form = "binding" /\ e.members = binding.members
                                  /\ e.role # "custom")
Predecessor(binding, current) ==
    LET entries == PredecessorEntries(binding, current)
        roles == {entries[i].role : i \in DOMAIN entries}
        unreadable == \E i \in DOMAIN current : current[i].form = "odd"
    IN IF roles = {} THEN IF unreadable THEN "undecided" ELSE "silent"
       ELSE IF Cardinality(roles) > 1 \/ entries[1].conditional THEN "undecided"
       ELSE entries[1].role
Enumerated(role, captured) ==
    captured /\ role \in DOMAIN PermissionsOf /\ PermissionsOf[role] # {}
SwapVerdict(binding, custom, estate) ==
    LET old == Predecessor(binding, estate.current)
    IN IF binding.many \/ custom.many \/ binding.project = "odd" \/ binding.form = "odd"
       THEN "undecided"
       ELSE IF binding.members = {} THEN "silent"
       ELSE IF "odd" \in binding.members \/ estate.form # "captured" THEN "undecided"
       ELSE IF old \in {"silent", "undecided"} THEN old
       ELSE IF ~Enumerated(old, estate.roles) \/ custom.form = "odd" \/ "odd" \in custom.permissions
       THEN "undecided"
       ELSE IF custom.permissions \subseteq PermissionsOf[old] THEN "reduces" ELSE "widens"
check_role_scope_diff(custom, bindings, estate) ==
    {[of |-> custom, says |-> "undecided"] : b \in {c \in bindings : ~custom.named}}
    \cup {[of |-> b, says |-> "undecided"] : b \in {c \in bindings : c.role = "odd"}}
    \cup {[of |-> b, says |-> SwapVerdict(b, custom, estate)] :
            b \in {c \in bindings : custom.named /\ c.role = "custom"}}

-----------------------------------------------------------------------------
AskCondition ==
    /\ Unasked
    /\ \E c \in Expressions, s \in Solvers :
         asked' = [of |-> "condition", condition |-> c, solver |-> s, says |-> check_cel(c, s)]
AskSubset ==
    /\ Unasked
    /\ \E p \in PolicyPairs, s \in Solvers :
         asked' = [of |-> "subset", new |-> p[1], old |-> p[2], solver |-> s,
                   says |-> check_policy_subset(p[1], p[2], s)]
AskSwap ==
    /\ Unasked
    /\ \E s \in Swaps :
         asked' = [of |-> "swap", swap |-> s,
                   says |-> check_role_scope_diff(s.custom, s.bindings, s.estate)]

-----------------------------------------------------------------------------
(* What a condition means, by its outermost operator: "||" binds weakest,   *)
(* and nothing but a term in parentheses, a literal or another negation is *)
(* negated.  A sequence that is no expression has no meaning.              *)

Depth(tokens, i) ==
    Cardinality({j \in 1..i : tokens[j] = "("}) - Cardinality({j \in 1..i : tokens[j] = ")"})
Outermost(tokens, op) == {i \in DOMAIN tokens : tokens[i] = op /\ Depth(tokens, i) = 0}
RECURSIVE Meanings(_)
Meanings(tokens) ==
    LET ors == Outermost(tokens, "||")
        ands == Outermost(tokens, "&&")
        left(i) == Meanings(SubSeq(tokens, 1, i - 1))
        right(i) == Meanings(SubSeq(tokens, i + 1, Len(tokens)))
    IN IF tokens = <<>> THEN {}
       ELSE IF ors # {} THEN UNION {{l \cup r : l \in left(i), r \in right(i)} : i \in ors}
       ELSE IF ands # {} THEN UNION {{l \cap r : l \in left(i), r \in right(i)} : i \in ands}
       ELSE IF Head(tokens) = "!" THEN
            IF Peek(Tail(tokens)) \in {"early", "since", "late", "ours"} THEN {}
            ELSE {Situations \ m : m \in Meanings(Tail(tokens))}
       ELSE IF Head(tokens) = "(" /\ Last(tokens) = ")"
            THEN Meanings(SubSeq(tokens, 2, Len(tokens) - 1))
       ELSE IF Len(tokens) = 1 /\ Head(tokens) \in DOMAIN Atoms THEN {Atoms[Head(tokens)]}
       ELSE {}
HoldsIn(condition, world) ==
    condition = Unconditional \/ \E m \in Meanings(condition) : world \in m
Grants(policy, world) ==
    UNION {{<<b.role, m>> : m \in b.members} :
             b \in {c \in policy.bindings : HoldsIn(c.condition, world)}}
(* What the estate certainly lets a member do. *)
Powers(member, current) ==
    UNION {PermissionsOf[current[i].role] :
             i \in {j \in DOMAIN current : /\ current[j].form = "binding" /\ ~current[j].conditional
                                           /\ member \in current[j].members
                                           /\ current[j].role \in DOMAIN PermissionsOf}}

(* What a comparison of policies says is true.  A condition is called dead, *)
(* always true or satisfiable exactly if it is, as its operators bind, and  *)
(* undecided only without a solver's answer or a meaning                    *)
(* (constraints.py:150, :305); a policy is called a subset exactly if in no *)
(* world it grants a member a role the old one does not (constraints.py:463,*)
(* :447); a swap is called a reduction only if every member could already   *)
(* do all the custom role allows, unconditionally, and a widening only if   *)
(* the predecessor could not (iam_scope.py:157, :270).                      *)
ChangeIsTrue ==
    LET a == asked
        subset == \A w \in Situations : Grants(a.new, w) \subseteq Grants(a.old, w)
    IN /\ a.of = "condition" =>
            LET worlds == CASE a.says = "never" -> {{}} [] a.says = "always" -> {Situations}
                            [] OTHER -> (SUBSET Situations) \ {{}, Situations}
            IN IF a.says = "unverified" THEN a.solver # "z3" \/ Meanings(a.condition) = {}
               ELSE Cardinality(Meanings(a.condition)) = 1 /\ Meanings(a.condition) \subseteq worlds
       /\ a.of = "subset" /\ a.says = "grounded" => subset
       /\ a.of = "subset" /\ a.says = "contradicted" => ~subset
       /\ a.of = "swap" => \A v \in a.says :
            LET allows == a.swap.custom.permissions
            IN /\ v.says = "reduces" =>
                    \A m \in v.of.members : allows \subseteq Powers(m, a.swap.estate.current)
               /\ v.says = "widens" =>
                    \E i \in DOMAIN a.swap.estate.current :
                       LET e == a.swap.estate.current[i]
                       IN /\ e.members = v.of.members /\ e.role \in DOMAIN PermissionsOf
                          /\ ~(allows \subseteq PermissionsOf[e.role])

=============================================================================
