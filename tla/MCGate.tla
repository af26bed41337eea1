------------------------------- MODULE MCGate -------------------------------
(***************************************************************************)
(* Four files in two directories, one a raw terraform file and one a state *)
(* file, each directory configured by itself, by the other or by nobody.   *)
(***************************************************************************)
EXTENDS Gate

MCPaths == {"a.json", "b.policy.json", "c.tf", "d.tfstate"}
MCRoute == [p \in MCPaths |->
              CASE p = "a.json" -> "json" [] p = "b.policy.json" -> "policy.json"
                [] p = "c.tf" -> "tf" [] OTHER -> "tfstate"]
MCDirs == {"repo", "module"}
MCDir == [p \in MCPaths |-> IF p \in {"a.json", "d.tfstate"} THEN "repo" ELSE "module"]
MCAbove == [d \in MCDirs |-> {"repo", d}]
Of(mode, notes, own) == [mode |-> mode, notes |-> notes, own |-> own]
(* A state of the caller's own comes alone, or beside a snapshot that was  *)
(* resolved with notes of its own.                                         *)
MCSetups == {Of(mode, {}, {}) : mode \in {"plain", "missing", "discover"}}
            \cup {Of("given", notes, own) : notes \in {{}, {"unverified"}, {"loud"}},
                                           own \in {{"unverified"}, {"loud"}}}
MCGraded == {{"grounded"}, {"grounded", "finding"}, {"unverified"}}
MCBatches == {<<"a.json", "b.policy.json", "a.json">>, <<"d.tfstate", "b.policy.json">>,
              <<"c.tf">>}
=============================================================================
