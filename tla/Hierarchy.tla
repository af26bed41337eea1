------------------------------ MODULE Hierarchy ------------------------------
(***************************************************************************)
(* The resource hierarchy (hierarchy.py) and the Datalog engine its        *)
(* closure runs on (core/datalog.py).  A captured hierarchy is a table     *)
(* from a node to its parent: it may hold cycles, and parents that were    *)
(* not captured themselves.  Ancestors are found by walking up, and        *)
(* descendants by a fixpoint; both are consulted about one question.       *)
(***************************************************************************)
EXTENDS Asking, Naturals, Sequences, FiniteSets, SequencesExt

CONSTANT Hierarchies     \* the tables a capture may hold
ASSUME HierarchyAssumption == \A table \in Hierarchies : IsFiniteSet(DOMAIN table)

NoParent == "none"

(* The walk up from a node, outermost first and the node itself last: one  *)
(* step prepends the parent of the outermost node so far, unless it has    *)
(* none, is no captured node, or would be revisited.                       *)
Outward(table, chain) ==
    IF Head(chain) \in DOMAIN table /\ table[Head(chain)] # NoParent
         /\ table[Head(chain)] \notin Range(chain)
    THEN <<table[Head(chain)]>> \o chain ELSE chain
ancestry_chain(table, node) ==
    FoldLeft(LAMBDA chain, i : Outward(table, chain), <<node>>,
             [i \in 1..(Cardinality(DOMAIN table) + 1) |-> i])
ancestors(table, node) == Front(ancestry_chain(table, node))

(* A chain that turns in a circle, or ends at a parent nobody captured.    *)
Broken(table, node) ==
    LET top == Head(ancestry_chain(table, node))
    IN top \notin DOMAIN table \/ table[top] # NoParent

(* The program of the closure: its facts, and its clauses over the nodes,  *)
(* a head that follows from a set of facts.                                *)
Facts(table) ==
    {<<"parent", n, table[n]>> : n \in {m \in DOMAIN table : table[m] # NoParent}}
Known(table) == (DOMAIN table \cup Range(table)) \ {NoParent}
Clauses(table) ==
    {[head |-> <<"ancestor", c, p>>, body |-> {<<"parent", c, p>>}] :
        c \in Known(table), p \in Known(table)}
    \cup {[head |-> <<"ancestor", c, a>>,
           body |-> {<<"parent", c, p>>, <<"ancestor", p, a>>}] :
        c \in Known(table), p \in Known(table), a \in Known(table)}

(* Mutant: the recursive clause is applied once. *)
DeriveShallow(clauses, facts) ==
    facts \cup {c.head : c \in {d \in clauses : d.body \subseteq facts
                                    /\ \A f \in d.body : f[1] = "parent"}}
(* One round: every clause is matched against the facts as they were when  *)
(* the round began, and the heads are added afterwards.                    *)
Derive(clauses, facts) == facts \cup {c.head : c \in {d \in clauses : d.body \subseteq facts}}

-----------------------------------------------------------------------------
(* The closure is asked for: rounds follow until one derives nothing new.  *)

AskClosure ==
    /\ Unasked
    /\ \E table \in Hierarchies :
          asked' = [of |-> "closure", table |-> table, facts |-> Facts(table), changed |-> TRUE]
Round ==
    /\ asked.of = "closure" /\ asked.changed
    /\ LET facts == Derive(Clauses(asked.table), asked.facts)
       IN asked' = [asked EXCEPT !.facts = facts, !.changed = facts # asked.facts]

(* The facts of a closure against the walks up.                            *)
TrueOfClosure(table, facts) ==
    \A n, a \in Known(table) :
        n # a => (<<"ancestor", n, a>> \in facts <=> a \in Range(ancestors(table, n)))

(* When the rounds stop, the closure and the walk agree on every table,    *)
(* also one that turns in a circle or ends at a parent nobody captured:    *)
(* the descendants of a node are those whose walk up passes it, but for a  *)
(* node that is on a circle of its own (core/datalog.py:85,                *)
(* hierarchy.py:108).                                                      *)
ClosureIsTheWalk ==
    asked.of = "closure" /\ ~asked.changed => TrueOfClosure(asked.table, asked.facts)
=============================================================================
