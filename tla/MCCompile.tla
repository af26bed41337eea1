----------------------------- MODULE MCCompile -----------------------------
(***************************************************************************)
(* Two documents: one whose promise is proposed, flipped, doubled with a   *)
(* rival or broken, and one that may reuse its identifier.                 *)
(***************************************************************************)
EXTENDS Compile

MCDocs == <<"a", "b">>
Blk(id, ast, mode) == [id |-> id, ast |-> ast, mode |-> mode, fault |-> "none", marked |-> FALSE]
Prose(id) == [id |-> id, ast |-> "none", mode |-> "refute", fault |-> "prose", marked |-> FALSE]
Text(blocks) == [there |-> TRUE, broken |-> FALSE, blocks |-> blocks]
MCDrafts == [d \in {"a", "b"} |->
    IF d = "a"
    THEN {Text(<<Prose("u"), Blk("p", "f", "refute")>>),
          Text(<<Blk("p", "f", "assert_satisfiable"), Blk("r", "g", "refute")>>), NoDoc}
    ELSE {Text(<<Blk("n", "t", "refute")>>)}]
MCProposals == {Blk("n", "f", "refute"), Blk("m", "g", "refute")}
MCNature == [f \in {"f", "g", "t"} |-> IF f = "t" THEN "tautology" ELSE "sound"]
MCFits == {<<[ast |-> "f", mode |-> "refute"], [ast |-> "g", mode |-> "refute"]>>}
MCClashes == {{"f", "g"}}
=============================================================================
