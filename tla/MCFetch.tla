------------------------------ MODULE MCFetch ------------------------------
(***************************************************************************)
(* Three folders and a project under one root, flat, nested, moved, too    *)
(* deep for the walk; one tag and one principal.                           *)
(***************************************************************************)
EXTENDS Fetch

MCFolders == {"f1", "f2", "f3"}
MCProjects == {"p1"}
Tree(f1, f2, f3, p1) == [n \in MCFolders \cup MCProjects |->
    CASE n = "f1" -> f1 [] n = "f2" -> f2 [] n = "f3" -> f3 [] OTHER -> p1]
MCTrees == {Tree("root", "root", "f1", "f3"), Tree("root", "root", "f2", "f2"),
            Tree("root", "f1", "f2", "f3"), Tree("f2", "root", "f2", "f1"),
            Tree("root", "nowhere", "nowhere", "root")}
MCRequests == {{"roles", "principals", "iam_bindings", "firewall_rules"}, {"resource_hierarchy"},
               {"roles", "permissions", "service_accounts", "principals", "resource_types"},
               {"firewall_rules", "hierarchical_firewall_policies", "vpc_sc_perimeters",
                "resource_types", "constraints"},
               {"org_policies", "iam_bindings"}}
=============================================================================
