------------------------------- MODULE Fetch -------------------------------
(***************************************************************************)
(* The cloud capture (fetch.py): one process reads the estate category by  *)
(* category, and walks the resource hierarchy breadth-first, while the     *)
(* estate changes under it and any call may fail.  A category is what was  *)
(* read and when; only the tables that are derived from one another keep   *)
(* their content.  One listing, all its pages, is one step.                *)
(***************************************************************************)
EXTENDS Naturals, Sequences, FiniteSets, SequencesExt

CONSTANTS
    Root, Folders, Projects,  \* the nodes of the hierarchy
    Trees,       \* the hierarchies the estate may have: node -> parent
    MaxDepth,    \* how deep the walk goes
    Tags,        \* network tags a firewall rule may use
    Members,     \* principals a binding may name
    Requests,    \* what a capture is asked for
    MaxChanges,  \* changes of the estate explored
    MaxCaptures  \* captures explored

VARIABLES
    live,        \* the estate
    clock,       \* the number of changes it has seen
    cache,       \* the terraform schema dump kept beside the checkout
    cap,         \* the capture in progress
    walk,        \* its walk of the hierarchy
    snapshot,    \* what the last capture returned
    captures

vars == <<live, clock, cache, cap, walk, snapshot, captures>>

Nowhere == "nowhere"

(* A hierarchy hangs together under its root: what is reached from the     *)
(* root, level by level, is every node that is attached to anything.       *)
Attached(parent) == {n \in Folders \cup Projects : parent[n] # Nowhere}
Rooted(parent) ==
    \A S \in SUBSET ({Root} \cup Folders \cup Projects) :
        Root \in S /\ (\A n \in Folders \cup Projects : parent[n] \in S => n \in S)
            => Attached(parent) \subseteq S

ASSUME FetchAssumption ==
    /\ IsFiniteSet(Folders) /\ IsFiniteSet(Projects) /\ Folders \cap Projects = {}
    /\ Root # Nowhere /\ {Root, Nowhere} \cap (Folders \cup Projects) = {}
    /\ Trees \subseteq [Folders \cup Projects -> Folders \cup {Root, Nowhere}]
    /\ \A parent \in Trees : Rooted(parent)
    /\ MaxDepth \in Nat /\ MaxCaptures \in Nat

Uncaptured == [at |-> 0, of |-> {}, captured |-> FALSE]
Categories == <<"roles", "permissions", "service_accounts", "constraints",
    "org_policies", "principals", "iam_bindings", "resource_hierarchy",
    "firewall_rules", "networks", "subnetworks", "network_tags",
    "hierarchical_firewall_policies", "cloud_armor_policies",
    "vpc_sc_perimeters", "access_levels", "restricted_services", "resource_types">>
Nothing == [c \in Range(Categories) |-> Uncaptured]
NoWalk == [queue |-> <<>>, visited |-> {}, found |-> <<>>, truncated |-> FALSE,
           projects |-> FALSE, depth |-> 0, calm |-> TRUE]
NoCapture == [busy |-> FALSE, request |-> {}, step |-> 1, stamp |-> 0, data |-> Nothing]
NoSnapshot == [stamp |-> 0, data |-> Nothing, tree |-> <<>>, calm |-> FALSE]

Init ==
    /\ live \in [parent : Trees, tags : SUBSET Tags, members : SUBSET Members]
    /\ clock = 0
    /\ cache \in [there : BOOLEAN, good : BOOLEAN, at : {0}]
    /\ ~cache.there => cache.good
    /\ cap = NoCapture /\ walk = NoWalk /\ snapshot = NoSnapshot /\ captures = 0

-----------------------------------------------------------------------------
(* What a request asks for.  A request that names a scope without the      *)
(* client to read it with, or the reverse, is refused before any call.     *)
Coherent(request) ==
    /\ request \cap {"permissions", "service_accounts"} # {} => "roles" \in request
    /\ "iam_bindings" \in request => "principals" \in request
    /\ "hierarchical_firewall_policies" \in request => "firewall_rules" \in request

(* One scope may bring several categories with it.                         *)
Wants(request, category) ==
    CASE category \in {"networks", "subnetworks", "network_tags"} -> "firewall_rules" \in request
      [] category = "cloud_armor_policies" -> "hierarchical_firewall_policies" \in request
      [] category \in {"access_levels", "restricted_services"} -> "vpc_sc_perimeters" \in request
      [] OTHER -> category \in request

(* The stamp is taken before the first call.                               *)
Begin(request) ==
    /\ ~cap.busy /\ captures < MaxCaptures /\ Coherent(request)
    /\ captures' = captures + 1
    /\ cap' = [NoCapture EXCEPT !.busy = TRUE, !.request = request, !.stamp = clock]
    /\ walk' = NoWalk
    /\ UNCHANGED <<live, clock, cache, snapshot>>

Category == Categories[cap.step]
Stepping == cap.busy /\ cap.step <= Len(Categories)
Proceed(data) == cap' = [cap EXCEPT !.step = @ + 1, !.data = data]
Read(of) == [at |-> clock, of |-> of, captured |-> TRUE]

NotWanted ==
    /\ Stepping /\ ~Wants(cap.request, Category)
    /\ Proceed(cap.data)
    /\ UNCHANGED <<live, clock, cache, walk, snapshot, captures>>

(* The tables a caller asked for and nothing else is derived from.         *)
Plain == {"roles", "permissions", "service_accounts", "constraints", "org_policies",
          "networks", "subnetworks", "hierarchical_firewall_policies",
          "cloud_armor_policies", "vpc_sc_perimeters", "access_levels",
          "restricted_services"}
FetchPlain ==
    /\ Stepping /\ Wants(cap.request, Category) /\ Category \in Plain
    /\ Proceed([cap.data EXCEPT ![Category] = Read({})])
    /\ UNCHANGED <<live, clock, cache, walk, snapshot, captures>>

(* Mutant: the bindings are read in a second pass over the estate. *)
FetchPrincipalsTwice ==
    /\ Stepping /\ Wants(cap.request, Category) /\ Category \in {"principals", "iam_bindings"}
    /\ Proceed([cap.data EXCEPT ![Category] = Read(live.members)])
    /\ UNCHANGED <<live, clock, cache, walk, snapshot, captures>>

(* Principals and bindings come from one pass over the estate.             *)
FetchPrincipals ==
    /\ Stepping /\ Wants(cap.request, Category) /\ Category \in {"principals", "iam_bindings"}
    /\ Proceed(IF Category = "principals"
               THEN [cap.data EXCEPT !["principals"] = Read(live.members),
                        !["iam_bindings"] = IF Wants(cap.request, "iam_bindings")
                                            THEN Read(live.members) ELSE @]
               ELSE cap.data)
    /\ UNCHANGED <<live, clock, cache, walk, snapshot, captures>>

FetchFirewallRules ==
    /\ Stepping /\ Wants(cap.request, Category) /\ Category = "firewall_rules"
    /\ Proceed([cap.data EXCEPT ![Category] = Read(live.tags)])
    /\ UNCHANGED <<live, clock, cache, walk, snapshot, captures>>

(* The tags of the rules already read, and those of the instances.         *)
FetchNetworkTags ==
    /\ Stepping /\ Wants(cap.request, Category) /\ Category = "network_tags"
    /\ \E ofInstances \in SUBSET Tags :
          Proceed([cap.data EXCEPT ![Category] =
                      Read(cap.data["firewall_rules"].of \cup ofInstances)])
    /\ UNCHANGED <<live, clock, cache, walk, snapshot, captures>>

(* A dump that is there is used, whatever its age; one that cannot be      *)
(* parsed ends the capture; a live one is kept for the next.               *)
FetchResourceTypes ==
    /\ Stepping /\ Wants(cap.request, Category) /\ Category = "resource_types"
    /\ cache.there => cache.good
    /\ cache' = IF cache.there THEN cache ELSE [there |-> TRUE, good |-> TRUE, at |-> clock]
    /\ Proceed([cap.data EXCEPT ![Category] = [at |-> cache'.at, of |-> {}, captured |-> TRUE]])
    /\ UNCHANGED <<live, clock, walk, snapshot, captures>>

(* The dump is written in place: a capture killed there leaves half of it. *)
KillInCache ==
    /\ Stepping /\ Wants(cap.request, Category) /\ Category = "resource_types"
    /\ ~cache.there
    /\ cache' = [there |-> TRUE, good |-> FALSE, at |-> clock]
    /\ cap' = NoCapture
    /\ UNCHANGED <<live, clock, walk, snapshot, captures>>

-----------------------------------------------------------------------------
(* The walk of the hierarchy.  `found` is a sequence of node and parent    *)
(* (the parent an entry names, or the node listed: the same while one      *)
(* listing is one reading).  An entry without a name is skipped and, unlike *)
(* a failed call, does not truncate the walk.  `calm' is a ghost: no node  *)
(* moved since the walk began, and every entry listed had its name.        *)

Walking == Stepping /\ Wants(cap.request, Category) /\ Category = "resource_hierarchy"
Found(node, found) == \E i \in 1..Len(found) : found[i].node = node
Children(node, kind) == {n \in kind : live.parent[n] = node}

BeginWalk ==
    /\ Walking /\ walk.found = <<>>
    /\ walk' = [NoWalk EXCEPT !.queue = <<[node |-> Root, depth |-> 0]>>,
                              !.found = <<[node |-> Root, parent |-> Nowhere]>>]
    /\ UNCHANGED <<live, clock, cache, cap, snapshot, captures>>

(* What one listing adds: children already recorded close a cycle, and     *)
(* truncate the walk; a failed listing does too.                           *)
Listed(w, node, children) ==
    LET new == SetToSeq({c \in children : ~Found(c, w.found)})
    IN [w EXCEPT !.found = @ \o [i \in 1..Len(new) |-> [node |-> new[i], parent |-> node]],
                 !.truncated = @ \/ \E c \in children : Found(c, w.found)]

(* Mutant: a listing that fails is an empty one. *)
ListingEmptyOnFailure(w, node, children) == {Listed(w, node, children), w}
Listing(w, node, children) ==
    {Listed(w, node, children), [w EXCEPT !.truncated = TRUE]}

(* The folders of the node at the head of the queue.                       *)
WalkFolders ==
    /\ Walking /\ walk.queue # <<>> /\ ~walk.projects
    /\ LET item == Head(walk.queue)
           rest == [walk EXCEPT !.queue = Tail(@), !.visited = @ \cup {item.node}]
       IN IF item.node \in walk.visited
          THEN walk' = [walk EXCEPT !.queue = Tail(@)]
          ELSE IF item.depth >= MaxDepth
          THEN walk' = [rest EXCEPT !.truncated = TRUE]
          ELSE \E named \in SUBSET Children(item.node, Folders) :
               \E w \in Listing([walk EXCEPT !.visited = @ \cup {item.node},
                                     !.calm = @ /\ named = Children(item.node, Folders)],
                                item.node, named) :
                  LET added == SubSeq(w.found, Len(walk.found) + 1, Len(w.found))
                  IN walk' = [w EXCEPT !.projects = TRUE,
                         !.queue = @ \o [i \in 1..Len(added) |->
                             [node |-> added[i].node, depth |-> item.depth + 1]]]
    /\ UNCHANGED <<live, clock, cache, cap, snapshot, captures>>

(* Then its projects, which are leaves.                                    *)
WalkProjects ==
    /\ Walking /\ walk.projects
    /\ \E named \in SUBSET Children(Head(walk.queue).node, Projects) :
       \E w \in Listing([walk EXCEPT !.calm =
                             @ /\ named = Children(Head(walk.queue).node, Projects)],
                        Head(walk.queue).node, named) :
          walk' = [w EXCEPT !.projects = FALSE, !.queue = Tail(@)]
    /\ UNCHANGED <<live, clock, cache, cap, snapshot, captures>>

(* A truncated walk leaves the category uncaptured.                        *)
EndWalk ==
    /\ Walking /\ walk.found # <<>> /\ walk.queue = <<>>
    /\ Proceed(IF walk.truncated THEN cap.data
               ELSE [cap.data EXCEPT ![Category] = Read({})])
    /\ UNCHANGED <<live, clock, cache, walk, snapshot, captures>>

-----------------------------------------------------------------------------
(* Any other failure ends the capture, and nothing is returned.            *)
Fail ==
    /\ Stepping
    /\ cap' = NoCapture
    /\ UNCHANGED <<live, clock, cache, walk, snapshot, captures>>
Finish ==
    /\ cap.busy /\ cap.step > Len(Categories)
    /\ snapshot' = [stamp |-> cap.stamp, data |-> cap.data, tree |-> walk.found,
                    calm |-> walk.calm]
    /\ cap' = NoCapture /\ walk' = NoWalk
    /\ UNCHANGED <<live, clock, cache, captures>>

(* The estate changes: a node moves, a rule or a binding changes.          *)
Change ==
    /\ clock < MaxChanges /\ clock' = clock + 1
    /\ \/ \E tree \in Trees : live' = [live EXCEPT !.parent = tree]
       \/ \E tags \in SUBSET Tags : live' = [live EXCEPT !.tags = tags]
       \/ \E members \in SUBSET Members : live' = [live EXCEPT !.members = members]
    /\ live' # live
    /\ walk' = [walk EXCEPT !.calm = @ /\ (walk.found = <<>> \/ live'.parent = live.parent)]
    /\ UNCHANGED <<cache, cap, snapshot, captures>>

Step == \/ NotWanted \/ FetchPlain \/ FetchPrincipals \/ FetchFirewallRules
        \/ FetchNetworkTags \/ FetchResourceTypes \/ KillInCache \/ BeginWalk
        \/ WalkFolders \/ WalkProjects \/ EndWalk \/ Fail \/ Finish

Next == (\E request \in Requests : Begin(request)) \/ Step \/ Change

Spec == Init /\ [][Next]_vars

-----------------------------------------------------------------------------
(* Properties                                                              *)

Nodes(tree) == {tree[i].node : i \in 1..Len(tree)}

(* A hierarchy that is captured is a tree under its root whatever moves,   *)
(* fails or comes without a name while it is walked, and it is all of the  *)
(* tree if no node moved and every entry had its name: what it leaves out  *)
(* is called absent by every check that reads it (fetch.py:1044, 1264).    *)
HierarchyIsWhole ==
    snapshot.data["resource_hierarchy"].captured =>
        /\ \A i \in 2..Len(snapshot.tree) :
              \E j \in 1..(i - 1) : snapshot.tree[j].node = snapshot.tree[i].parent
        /\ Cardinality(Nodes(snapshot.tree)) = Len(snapshot.tree)
        /\ snapshot.calm =>
              \E parent \in Trees :
                 /\ Nodes(snapshot.tree) =
                       {Root} \cup Attached(parent)
                 /\ \A i \in 2..Len(snapshot.tree) :
                       parent[snapshot.tree[i].node] = snapshot.tree[i].parent

(* Tables derived from one another agree, though the estate changes        *)
(* between their calls: every member of a captured binding is a captured   *)
(* principal, and every tag of a captured rule a captured tag              *)
(* (fetch.py:416, 635).                                                    *)
DerivedAgree ==
    LET of(c) == snapshot.data[c].of
    IN /\ of("iam_bindings") \subseteq of("principals")
       /\ of("firewall_rules") \subseteq of("network_tags")
=============================================================================
