----------------------------- MODULE Terraform -----------------------------
(***************************************************************************)
(* Reading what Terraform writes (tfsource/discover.py, plan.py, state.py, *)
(* redact.py): which of the artifacts a file is, what of it is said about  *)
(* the estate as it is and what about the change under review.             *)
(*                                                                         *)
(* An object is a function of its attributes.  JSON leaves an attribute    *)
(* that is not known yet out of the object, as it does one that is not     *)
(* set; a parallel mirror tells the two apart, and another names what is   *)
(* sensitive.                                                              *)
(***************************************************************************)
EXTENDS Asking, Naturals, Sequences, FiniteSets, FiniteSetsExt, Functions

CONSTANTS
    TfAddresses,    \* resource addresses
    Worlds,         \* what Terraform found and plans: see PlanFile
    Spoils          \* ways a file may be spoiled: see Spoiled

Absent == [absent |-> TRUE]
Null == [null |-> TRUE]       \* for an object
Missing == <<Null>>          \* for a list
(* In place of a value: not known before the apply, or withheld.           *)
UnknownMark == "<known-after-apply>"
Redacted == "<redacted>"
SensitiveAttributes == {"secret"}

-----------------------------------------------------------------------------
(* What Terraform writes (external).  A world holds for each address the   *)
(* object there is and the one there shall be, which may have unknown      *)
(* attributes; the old generations still to be destroyed; the addresses    *)
(* whose change is a replacement or a removal from the state only; those a *)
(* refresh covered; and the order in which generations are written.  A     *)
(* list in a file is a function of the positions of its elements, which    *)
(* are numbers and need not be adjacent.                                   *)

Things == [address : TfAddresses, deposed : BOOLEAN]
IsObject(object) ==
    /\ object = [a \in DOMAIN object |-> object[a]]
    /\ "absent" \notin DOMAIN object /\ "null" \notin DOMAIN object
AllKnown(object) == \A a \in DOMAIN object : object[a] # UnknownMark
ASSUME TerraformAssumption ==
    /\ Spoils \subseteq {"as-written", "unreadable", "another-format", "no-changes", "remote-stub",
                         "backup", "data-source"}
    /\ \A world \in Worlds :
        /\ \A a \in TfAddresses :
              /\ world.before[a] = Absent \/ (IsObject(world.before[a]) /\ AllKnown(world.before[a]))
              /\ world.after[a] = Absent \/ IsObject(world.after[a])
        /\ DOMAIN world.before = TfAddresses /\ DOMAIN world.after = TfAddresses
        /\ world.order \in Seq(Things)
        /\ \A a \in TfAddresses :
              \E i \in DOMAIN world.order : world.order[i] = [address |-> a, deposed |-> FALSE]

KnownIn(object) == {a \in DOMAIN object : object[a] # UnknownMark}
Json(object) == IF object = Absent THEN Null ELSE Restrict(object, KnownIn(object))
Mirror(object) == IF object = Absent THEN {} ELSE DOMAIN object \ KnownIn(object)
SensitiveIn(object) == IF object = Absent THEN {} ELSE DOMAIN object \cap SensitiveAttributes

Actions(world, a) ==
    LET before == world.before[a]
        after == world.after[a]
    IN CASE before = Absent -> <<"create">>
         [] before # Absent /\ after = Absent ->
                IF a \in world.forgotten THEN <<"forget">> ELSE <<"delete">>
         [] OTHER -> IF before = after THEN <<"no-op">>
                     ELSE IF a \in world.replaced THEN <<"create", "delete">> ELSE <<"update">>

Entry(a, deposed, actions, before, after) ==
    [address |-> a, mode |-> "managed", deposed |-> deposed, actions |-> actions,
     before |-> Json(before), before_sensitive |-> SensitiveIn(before),
     after |-> Json(after), after_unknown |-> Mirror(after),
     after_sensitive |-> SensitiveIn(after)]
Written(world, live) ==
    {i \in DOMAIN world.order :
        world.order[i].address \in IF world.order[i].deposed THEN DOMAIN world.deposed ELSE live}
ChangesOf(world) ==
    [i \in Written(world, {a \in TfAddresses : world.before[a] # Absent \/ world.after[a] # Absent}) |->
        LET a == world.order[i].address
        IN IF world.order[i].deposed
           THEN Entry(a, TRUE, <<"delete">>, world.deposed[a], Absent)
           ELSE Entry(a, FALSE, Actions(world, a), world.before[a], world.after[a])]
ValuesOf(world, objects, shown) ==
    [i \in {j \in Written(world, {a \in shown : objects[a] # Absent}) : ~world.order[j].deposed} |->
        LET a == world.order[i].address
        IN [address |-> a, mode |-> "managed", values |-> Json(objects[a]),
            sensitive |-> SensitiveIn(objects[a])]]

Nowhere == [suffix |-> ".json", readable |-> TRUE, format |-> "1", version |-> "none",
            lineage |-> FALSE, backend |-> FALSE, resources |-> Missing, prior |-> Missing,
            changes |-> Missing, planned |-> Missing, values |-> Missing]
PlanFile(world) ==
    [Nowhere EXCEPT !.changes = ChangesOf(world),
                    !.prior = IF world.refreshed = {} THEN Missing
                              ELSE ValuesOf(world, world.before, world.refreshed),
                    !.planned = ValuesOf(world, world.after, TfAddresses)]
ShownState(world) == [Nowhere EXCEPT !.values = ValuesOf(world, world.before, TfAddresses)]
(* The instances of the resources of a state file, each with the address   *)
(* and the mode of its resource.                                           *)
StateFile(world) ==
    LET instance(a, deposed) ==
          LET object == IF deposed THEN world.deposed[a] ELSE world.before[a]
          IN [address |-> a, mode |-> "managed", deposed |-> deposed,
              attributes |-> Json(object), paths |-> SensitiveIn(object)]
    IN [Nowhere EXCEPT !.suffix = ".tfstate", !.format = "none", !.version = "4",
            !.lineage = TRUE,
            !.resources = [i \in Written(world, {a \in TfAddresses : world.before[a] # Absent}) |->
                             instance(world.order[i].address, world.order[i].deposed)]]

(* A file that is not whole, or not what it was. *)
Spoiled(file, how) ==
    CASE how = "as-written" -> file
      [] how = "unreadable" -> [file EXCEPT !.readable = FALSE]
      [] how = "another-format" ->
            [file EXCEPT !.format = IF @ = "1" THEN "2" ELSE @,
                         !.version = IF @ = "4" THEN "3" ELSE @]
      [] how = "no-changes" -> [file EXCEPT !.changes = Missing]
      [] how = "remote-stub" -> [file EXCEPT !.resources = Missing, !.backend = TRUE]
      [] how = "backup" -> [file EXCEPT !.suffix = ".tfstate.backup"]
      [] how = "data-source" ->
            [file EXCEPT !.resources =
                IF @ = Missing THEN Missing ELSE [i \in DOMAIN @ |-> [@[i] EXCEPT !.mode = "data"]]]

-----------------------------------------------------------------------------
(* Which artifact a file is, as a source of what there is: by its shape,   *)
(* state before shown state before plan.  A backup, a remote stub, another *)
(* version, and a plan that read nothing of the estate are refused.        *)

StateShaped(doc) == doc.lineage \/ doc.backend \/ (doc.version # "none" /\ doc.resources # Missing)

ReadTheEstate(doc) == doc.prior # Missing

classify(file) ==
    CASE file.suffix = ".tfstate.backup" \/ ~file.readable -> "refused"
      [] OTHER ->
        IF StateShaped(file)
        THEN IF file.version = "4" /\ file.lineage /\ file.resources # Missing
             THEN "tfstate" ELSE "refused"
        ELSE IF file.values # Missing /\ file.changes = Missing /\ file.prior = Missing
        THEN IF file.format \in {"none", "1"} THEN "state_json" ELSE "refused"
        ELSE IF file.format = "1" /\ ReadTheEstate(file) THEN "plan_json" ELSE "refused"

-----------------------------------------------------------------------------
(* Redaction first, then the marks for what is not known.                  *)

redact(values, sensitive) ==
    [a \in DOMAIN values |-> IF a \in sensitive THEN Redacted ELSE values[a]]

(* The attributes the mirror names are created with the mark. *)
Mark(values, unknown) ==
    [a \in DOMAIN values \cup unknown |-> IF a \in unknown THEN UnknownMark ELSE values[a]]

(* The last of several objects of one address stays. *)
ByAddress(objects) ==
    [a \in {objects[i].address : i \in DOMAIN objects} |->
        objects[Max({i \in DOMAIN objects : objects[i].address = a})].values]
read_values(resources) ==
    LET listed == IF resources = Missing THEN <<>> ELSE resources
    IN ByAddress([i \in {j \in DOMAIN listed : listed[j].mode = "managed"} |->
                     [address |-> listed[i].address,
                      values |-> redact(listed[i].values, listed[i].sensitive)]])

-----------------------------------------------------------------------------
(* Reading a plan.  What there is comes from the refreshed state and, in   *)
(* its place, from what a change says was there before it; old generations *)
(* say nothing about it.                                                   *)

EntriesOf(doc) ==
    LET listed == IF doc.changes = Missing THEN <<>> ELSE doc.changes
    IN [i \in {j \in DOMAIN listed : listed[j].mode = "managed"} |-> listed[i]]
(* Mutant: an old generation is an object like any other. *)
OccupiesAny(entry) == TRUE
(* The object that is at the address now.                                  *)
Occupies(entry) == ~entry.deposed
BeforeFacts(doc) ==
    LET entries == EntriesOf(doc)
    IN ByAddress([i \in {j \in DOMAIN entries : Occupies(entries[j]) /\ entries[j].before # Null} |->
                     [address |-> entries[i].address,
                      values |-> redact(entries[i].before, entries[i].before_sensitive)]])
Overlay(first, second) ==
    [a \in DOMAIN first \cup DOMAIN second |-> IF a \in DOMAIN first THEN first[a] ELSE second[a]]
CurrentFacts(doc) == Overlay(BeforeFacts(doc), read_values(doc.prior))

(* Actions nobody knows are read as an update. *)
normalize_action(actions) ==
    CASE actions \in {<<"create", "delete">>, <<"delete", "create">>} -> "replace"
      [] actions \in {<<a>> : a \in {"no-op", "create", "read", "update", "delete"}} -> actions[1]
      [] OTHER -> "update"

(* The change: the first entry of an address speaks for it, those of old  *)
(* generations after the others.  A deletion is about what is removed;     *)
(* nothing else that has no `after` proposes anything.  Then the planned   *)
(* values speak for the addresses without an entry.                        *)

(* Mutant: the entries are taken in the order they were written. *)
SpeakingFirst(entries, a) == entries[Min({i \in DOMAIN entries : entries[i].address = a})]
Speaking(entries, a) ==
    LET mine == {i \in DOMAIN entries : entries[i].address = a}
        live == {i \in mine : ~entries[i].deposed}
    IN entries[Min(IF live # {} THEN live ELSE mine)]
Proposes(e) == \/ e.after # Null
               \/ normalize_action(e.actions) = "delete" /\ e.before # Null
ProposedBy(e) ==
    [action |-> normalize_action(e.actions),
     values |-> IF e.after # Null THEN Mark(redact(e.after, e.after_sensitive), e.after_unknown)
                ELSE redact(e.before, e.before_sensitive)]
ProposedFacts(doc) ==
    LET entries == EntriesOf(doc)
        seen == {entries[i].address : i \in DOMAIN entries}
        planned == read_values(doc.planned)
    IN Overlay([a \in {b \in seen : Proposes(Speaking(entries, b))} |-> ProposedBy(Speaking(entries, a))],
            [a \in DOMAIN planned \ seen |-> [action |-> "no-op", values |-> planned[a]]])

NoObjects == [a \in {} |-> Null]
NothingRead == [ok |-> FALSE, current |-> NoObjects, proposed |-> NoObjects]
read_plan_document(doc) ==
    IF \/ ~doc.readable \/ doc.format \notin {"none", "1"}
       \/ doc.prior = Missing /\ doc.changes = Missing /\ doc.planned = Missing /\ doc.values = Missing
    THEN NothingRead
    ELSE IF doc.prior = Missing /\ doc.changes = Missing /\ doc.planned = Missing
    THEN [ok |-> TRUE, current |-> read_values(doc.values), proposed |-> NoObjects]
    ELSE [ok |-> TRUE, current |-> CurrentFacts(doc), proposed |-> ProposedFacts(doc)]

(* Reading a state file: every instance that is no old generation and has  *)
(* attributes; a data source is not managed.                               *)
read_state_document(doc) ==
    LET usable == {i \in DOMAIN doc.resources :
                      LET r == doc.resources[i]
                      IN r.mode # "data" /\ Occupies(r) /\ r.attributes # Null}
    IN [ok |-> TRUE, proposed |-> NoObjects,
        current |-> ByAddress([i \in usable |->
            [address |-> doc.resources[i].address,
             values |-> redact(doc.resources[i].attributes, doc.resources[i].paths)]])]

ReadArtifact(file) ==
    CASE classify(file) = "tfstate" -> read_state_document(file)
      [] classify(file) \in {"plan_json", "state_json"} -> read_plan_document(file)
      [] OTHER -> NothingRead

-----------------------------------------------------------------------------
(* The questions: an artifact as a source of what there is, and a plan as  *)
(* the document under review, which needs no refreshed state.              *)

AskWorld ==
    /\ Unasked
    /\ \E world \in Worlds, how \in Spoils :
          asked' = [of |-> "world", world |-> world, how |-> how]
AskArtifact ==
    /\ asked.of = "world"
    /\ \E file \in {PlanFile(asked.world), ShownState(asked.world), StateFile(asked.world)} :
          LET spoiled == Spoiled(file, asked.how)
          IN asked' = [of |-> "artifact", world |-> asked.world, file |-> spoiled,
                       kind |-> classify(spoiled), source |-> ReadArtifact(spoiled).current,
                       review |-> read_plan_document(spoiled)]

-----------------------------------------------------------------------------
(* An object as it may be shown: what is not known yet holds no secret.    *)
Shown(object) == [a \in DOMAIN object |-> IF a \in SensitiveAttributes /\ object[a] # UnknownMark
                                          THEN Redacted ELSE object[a]]

(* What is read of an artifact is what Terraform had: a source never holds *)
(* an object that is not there now - no proposal, no old generation, no    *)
(* attribute by guess - and no secret; and a state file holds every one    *)
(* (plan.py:690, 741, state.py:564).                                       *)
SourceIsTheEstate ==
    asked.of = "artifact" =>
        LET world == asked.world
        IN /\ \A a \in DOMAIN asked.source :
                 /\ world.before[a] # Absent
                 /\ asked.source[a] = Shown(world.before[a])
           /\ asked.kind = "tfstate" /\ (\A r \in Range(asked.file.resources) : r.mode = "managed") =>
                 DOMAIN asked.source = {a \in TfAddresses : world.before[a] # Absent}

(* Every object a plan changes is under review as it shall be, attributes  *)
(* nobody knows yet as unknown and never as unset, and one that is         *)
(* destroyed as it was; only an object the plan forgets is passed over     *)
(* (plan.py:368, 755, 770).                                                *)
ReviewIsTheChange ==
    asked.of = "artifact" /\ asked.review.ok /\ asked.file.changes # Missing =>
        LET world == asked.world
        IN \A a \in {b \in TfAddresses : world.before[b] # world.after[b]} :
            CASE world.after[a] # Absent ->
                    /\ a \in DOMAIN asked.review.proposed
                    /\ asked.review.proposed[a].values = Shown(world.after[a])
              [] world.after[a] = Absent /\ a \notin world.forgotten ->
                    /\ a \in DOMAIN asked.review.proposed
                    /\ asked.review.proposed[a].action = "delete"
                    /\ asked.review.proposed[a].values = Shown(world.before[a])
              [] OTHER -> a \notin DOMAIN asked.review.proposed
=============================================================================
