----------------------------- MODULE Comparison ------------------------------
(***************************************************************************)
(* Whether two views of one resource say the same thing (compare.py).  The *)
(* merge compares the records of two sources, the engine a proposed record *)
(* with its baseline.  A view is a value: a word, a list or an object; one *)
(* word can be spelled in several ways.                                    *)
(***************************************************************************)
EXTENDS Asking, Naturals, FiniteSets, SequencesExt

CONSTANTS Views     \* by category, the views that are compared with another

Null == [kind |-> "null"]
Word(word) == [kind |-> "word", word |-> word]
List(items) == [kind |-> "list", items |-> items]
Object(fields) == [kind |-> "object", fields |-> fields]
SetOf(members) == [kind |-> "set", members |-> members]
Field(fields, name) == IF name \in DOMAIN fields THEN fields[name] ELSE Null
ListItems(value) == IF value.kind = "list" THEN Range(value.items) ELSE {}

-----------------------------------------------------------------------------
(* What is known of the fields of each category.                           *)

VOLATILE_IGNORED == {"etag"}
BENIGN_REPORTED == {"description"}
CategoryCompare(security, benign, sets, aligned) ==
    [security |-> security, benign |-> benign, sets |-> sets, aligned |-> aligned]
FIELDS ==
    [firewall_rules |-> CategoryCompare({"action", "disabled", "priority", "layer4", "ranges"},
                                        {}, {"ranges"}, [f \in {} |-> "value"]),
     cloud_armor_policies |-> CategoryCompare({"rules", "action", "priority", "ranges"}, {},
                                              {"rules", "ranges"}, [rules |-> "priority"]),
     iam_bindings |-> CategoryCompare({"bindings", "version", "role", "member", "members", "condition"},
                                      {}, {"bindings", "members"}, [bindings |-> "value"]),
     org_policies |-> CategoryCompare({"rules", "enforce"}, {"dry_run_spec"}, {}, [rules |-> "index"]),
     vpc_sc_perimeters |-> CategoryCompare({"status", "spec", "resources"}, {}, {"resources"},
                                           [f \in {} |-> "value"]),
     networks |-> CategoryCompare({}, {}, {}, [f \in {} |-> "value"])]
Severity(category, name) ==
    CASE name \in FIELDS[category].security -> "material"
      [] name \in FIELDS[category].benign \cup BENIGN_REPORTED -> "benign"
      [] OTHER -> "unmergeable"

-----------------------------------------------------------------------------
(* Normal forms.  A flag that is not set is false, no list of ports is      *)
(* every port, a volatile field is left out, as is one that is null.       *)

Spelled(name, word) ==
    CASE name = "protocol" /\ word = "TCP" -> "tcp"
      [] name = "port" /\ word = "22" -> "22-22"
      [] name = "priority" /\ word = "1-as-text" -> "1"
      [] name = "disabled" /\ word = "False" -> "false"
      [] OTHER -> word

Layer4(entry) ==
    [protocol |-> Spelled("protocol", Field(entry.fields, "protocol").word),
     ports |-> {Spelled("port", p.word) : p \in ListItems(Field(entry.fields, "ports"))}]

RECURSIVE Normal(_, _, _), Frozen(_, _)
Normal(category, name, value) ==
    IF name = "layer4" THEN SetOf({Layer4(e) : e \in ListItems(value)})
    ELSE IF name = "disabled" /\ value = Null THEN Word("false")
    ELSE IF name \in {"priority", "disabled"} /\ value # Null THEN Word(Spelled(name, value.word))
    ELSE IF name \in FIELDS[category].sets /\ value.kind = "list"
         THEN SetOf({Frozen(category, v) : v \in ListItems(value)})
    ELSE Frozen(category, value)
Frozen(category, value) ==
    LET normal == [f \in DOMAIN value.fields \ VOLATILE_IGNORED |->
                     Normal(category, f, value.fields[f])]
    IN CASE value.kind = "object" ->
              Object([f \in {g \in DOMAIN normal : normal[g] # Null} |-> normal[f]])
         [] value.kind = "list" ->
              List([i \in DOMAIN value.items |-> Frozen(category, value.items[i])])
         [] OTHER -> value

(* A view that has no normal form is compared with nothing.                *)
OddLayer4(entry) ==
    \/ entry.kind # "object" \/ Field(entry.fields, "protocol") = Null
    \/ ~(DOMAIN entry.fields \subseteq {"protocol", "ports"})
    \/ Word("backwards") \in ListItems(Field(entry.fields, "ports"))
OddBinding(binding) ==
    \/ binding.kind # "object"
    \/ ~(DOMAIN binding.fields \subseteq {"role", "members", "condition"})
    \/ Field(binding.fields, "members").kind \notin {"null", "list"}
RECURSIVE Incomparable(_, _)
Incomparable(name, value) ==
    CASE name = "layer4" -> \/ value.kind \notin {"null", "list"}
                            \/ \E e \in ListItems(value) : OddLayer4(e)
      [] name = "bindings" -> value # Null /\ (value.kind # "list" \/ \E b \in ListItems(value) : OddBinding(b))
      [] name \in {"priority", "disabled"} -> value # Null /\ value = Word("odd")
      [] OTHER -> \/ /\ value.kind = "object"
                     /\ \E f \in DOMAIN value.fields \ VOLATILE_IGNORED : Incomparable(f, value.fields[f])
                  \/ \E v \in ListItems(value) : Incomparable("item", v)

(* Bindings are compared by role, member and condition, however grouped; a  *)
(* binding without members is one of its own.                              *)
Triples(binding) ==
    LET of(m) == Object([role |-> Field(binding.fields, "role"), member |-> m,
                         condition |-> Field(binding.fields, "condition")])
        members == Field(binding.fields, "members")
    IN IF ListItems(members) = {} THEN <<of(Null)>>
       ELSE [i \in DOMAIN members.items |-> of(members.items[i])]
Expanded(category, view) ==
    IF category # "iam_bindings" \/ view.kind # "object" \/ Field(view.fields, "bindings") = Null
    THEN view
    ELSE LET bindings == view.fields["bindings"].items
             triples == FlattenSeq([i \in DOMAIN bindings |-> Triples(bindings[i])])
         IN Object([view.fields EXCEPT !["bindings"] = List(triples)])

comparable(category, view) == Frozen(category, Expanded(category, view))

-----------------------------------------------------------------------------
(* Differences.  The elements of some collections are aligned, by a field,  *)
(* by their position or by what they are; of several alike, in order.      *)

FieldDiff(field, severity, left, right) ==
    [field |-> field, severity |-> severity, left |-> left, right |-> right]
PlainDiffs(category, left, right, names, within) ==
    {FieldDiff(within \o <<n>>, Severity(category, n), Normal(category, n, Field(left, n)),
               Normal(category, n, Field(right, n))) :
       n \in {m \in names \ VOLATILE_IGNORED :
                \/ Severity(category, m) = "unmergeable"
                \/ Normal(category, m, Field(left, m)) # Normal(category, m, Field(right, m))}}

Items(value) == IF value.kind = "list" THEN value.items ELSE <<>>
Identity(category, collection, element, index) ==
    LET by == FIELDS[category].aligned[collection]
    IN CASE by = "index" -> [index |-> index]
         [] by = "priority" /\ "priority" \in DOMAIN element.fields ->
              [priority |-> Normal(category, by, element.fields["priority"])]
         [] OTHER -> [value |-> Frozen(category, element)]
Slot(category, collection, items, index) ==
    LET identity(i) == Identity(category, collection, items[i], i)
    IN <<identity(index), Cardinality({i \in 1..index : identity(i) = identity(index)})>>
(* Mutant: an element that one view alone has is passed over. *)
OneSidedNone(slots, others) == {}
OneSided(slots, others) == {i \in DOMAIN slots : slots[i] \notin Range(others)}
SubrecordDiffs(category, collection, left, right) ==
    LET l == Items(left)   r == Items(right)
        ls == [i \in DOMAIN l |-> Slot(category, collection, l, i)]
        rs == [i \in DOMAIN r |-> Slot(category, collection, r, i)]
        lost(i) == FieldDiff(<<collection>>, "material", Frozen(category, l[i]), Null)
        new(i) == FieldDiff(<<collection>>, "material", Null, Frozen(category, r[i]))
        pairs == {p \in (DOMAIN l) \X (DOMAIN r) : ls[p[1]] = rs[p[2]]}
    IN {lost(i) : i \in OneSided(ls, rs)} \cup {new(i) : i \in OneSided(rs, ls)}
       \cup UNION {PlainDiffs(category, l[p[1]].fields, r[p[2]].fields,
                              DOMAIN l[p[1]].fields \cup DOMAIN r[p[2]].fields, <<collection>>) :
                     p \in pairs}

(* One view of a perimeter only enforced, the other only a dry run.        *)
CrossPair(category, left, right) ==
    LET only(fields, name, other) == Field(fields, name) # Null /\ Field(fields, other) = Null
    IN /\ category = "vpc_sc_perimeters"
       /\ \/ only(left, "status", "spec") /\ only(right, "spec", "status")
          \/ only(left, "spec", "status") /\ only(right, "status", "spec")
Either(fields) == IF Field(fields, "spec") # Null THEN fields["spec"] ELSE Field(fields, "status")

RecordDiffs(category, left, right) ==
    LET names == (DOMAIN left \cup DOMAIN right)
                 \ (IF CrossPair(category, left, right) THEN {"status", "spec"} ELSE {})
        aligned == {n \in names \cap DOMAIN FIELDS[category].aligned :
                      \A v \in {Field(left, n), Field(right, n)} : v.kind \in {"null", "list"}}
    IN PlainDiffs(category, left, right, names \ aligned, <<>>)
       \cup UNION {SubrecordDiffs(category, n, Field(left, n), Field(right, n)) : n \in aligned}
       \cup IF CrossPair(category, left, right)
            THEN {FieldDiff(<<"status/spec">>, "unmergeable", Frozen(category, Either(left)),
                            Frozen(category, Either(right)))}
            ELSE {}

Refuses(left, right) ==
    /\ left # Null /\ right # Null
    /\ left.kind # right.kind \/ Incomparable("record", left) \/ Incomparable("record", right)
compare(category, left, right) ==
    IF left = Null \/ right = Null THEN {}
    ELSE IF left.kind = "word"
         THEN IF left = right THEN {} ELSE {FieldDiff(<<"name">>, "material", left, right)}
    ELSE RecordDiffs(category, Expanded(category, left).fields, Expanded(category, right).fields)

(* Whether a proposal changes the row it was resolved to.                  *)
changes_the_row(category, record, proposed) ==
    IF proposed = Null \/ Refuses(record, proposed) THEN "unknown"
    ELSE IF compare(category, record, proposed) = {} THEN "no" ELSE "yes"

AskViews ==
    /\ Unasked
    /\ \E c \in DOMAIN Views : \E l, r \in Views[c] :
         asked' = IF Refuses(l, r) THEN [of |-> "views-refused", left |-> l, right |-> r]
                  ELSE [of |-> "views", category |-> c, left |-> l, right |-> r,
                        diffs |-> compare(c, l, r), mirrored |-> compare(c, r, l),
                        changes |-> changes_the_row(c, l, r),
                        alike |-> Null \notin {l, r} /\ comparable(c, l) = comparable(c, r)]

-----------------------------------------------------------------------------
(* What a view says of the estate, read off its fields as they are spelled. *)

FieldWord(fields, name) == IF Field(fields, name) = Null THEN "none" ELSE fields[name].word
Rank(fields) == LET p == FieldWord(fields, "priority") IN IF p = "1-as-text" THEN "1" ELSE p
PortsOf == [p \in {"22", "22-22", "22-80"} |-> IF p = "22-80" THEN {22, 80} ELSE {22}]
Traffic(entry) ==
    LET ports == ListItems(Field(entry.fields, "ports"))
    IN {IF FieldWord(entry.fields, "protocol") \in {"tcp", "TCP"} THEN "tcp" ELSE "udp"}
       \X (IF ports = {} THEN {22, 80, 443} ELSE UNION {PortsOf[p.word] : p \in ports})
RuleSays(fields) ==
    [action |-> FieldWord(fields, "action"), rank |-> Rank(fields),
     disabled |-> FieldWord(fields, "disabled") = "true",
     ranges |-> ListItems(Field(fields, "ranges")),
     traffic |-> UNION {Traffic(e) : e \in ListItems(Field(fields, "layer4"))}]
Enforced(rule) == FieldWord(rule.fields, "enforce")
Says(category, view) ==
    LET fields == view.fields
        rules == Field(fields, "rules")
        bindings == ListItems(Field(fields, "bindings"))
        protects(name) == LET block == Field(fields, name)
                          IN IF block = Null THEN {Null} ELSE ListItems(Field(block.fields, "resources"))
    IN CASE view.kind = "word" \/ category = "networks" -> {view}
         [] category = "firewall_rules" -> {RuleSays(fields)}
         [] category = "cloud_armor_policies" -> {RuleSays(r.fields) : r \in ListItems(rules)}
         [] category = "iam_bindings" ->
              {<<FieldWord(fields, "version")>>} \cup
              UNION {{<<FieldWord(b.fields, "role"), m.word, FieldWord(b.fields, "condition")>> :
                        m \in ListItems(Field(b.fields, "members"))} : b \in bindings}
         [] category = "org_policies" -> {[i \in DOMAIN Items(rules) |-> Enforced(rules.items[i])]}
         [] category = "vpc_sc_perimeters" ->
              {[enforced |-> protects("status"), dry_run |-> protects("spec")]}
(* The fields a view states at all, those that say nothing of the estate,  *)
(* and bindings that grant nothing.  A flag or a list of ports that is null *)
(* is stated: `comparable` keeps it as false or as no ports, and leaves out *)
(* the absent one.                                                         *)
Stated(view) ==
    LET names(v) == {f \in DOMAIN v.fields \ VOLATILE_IGNORED :
                       v.fields[f] # Null \/ f \in {"disabled", "layer4"}}
    IN IF view.kind = "word" THEN {}
       ELSE names(view) \cup UNION {UNION {names(e) : e \in ListItems(view.fields[f])} :
                                      f \in names(view) \ {"bindings", "layer4", "ranges"}}
Aside(view) ==
    IF view.kind = "word" THEN {}
    ELSE {Field(view.fields, f) : f \in {"description", "novel", "dry_run_spec"}}
         \cup {b \in ListItems(Field(view.fields, "bindings")) : ListItems(Field(b.fields, "members")) = {}}

(* No element of a collection is there twice. *)
Once(category, view) ==
    view.kind = "object" =>
        \A f \in DOMAIN FIELDS[category].aligned :
            LET items == Items(Field(Expanded(category, view).fields, f))
            IN \A i \in DOMAIN items : Slot(category, f, items, i)[2] = 1

(* A comparison tells what matters and only that.  Views that say something *)
(* different of the estate have a difference that is not benign, in either  *)
(* order the same ones, are not alike and count as a change                 *)
(* (compare.py:807, :630, baseline.py:1079).  Views that state the same     *)
(* fields and say the same of the estate are alike however they are ordered,*)
(* grouped and spelled (compare.py:1, :579); and where nothing is there     *)
(* twice, they have no difference but a field nobody knows, even if one     *)
(* leaves out a flag or the ports the other has at null or at the default   *)
(* (compare.py:507): of those the comparison of records makes one state,    *)
(* `comparable` two.                                                        *)
ComparisonIsTrue ==
    LET a == asked
        mirror(d) == [d EXCEPT !.left = d.right, !.right = d.left]
        unset == {"disabled", "layer4"}
        same == Says(a.category, a.left) = Says(a.category, a.right) /\ Aside(a.left) = Aside(a.right)
        once == Once(a.category, a.left) /\ Once(a.category, a.right)
    IN a.of = "views" /\ a.left # Null /\ a.right # Null =>
         /\ a.mirrored = {mirror(d) : d \in a.diffs}
         /\ Says(a.category, a.left) # Says(a.category, a.right) =>
              /\ \E d \in a.diffs : d.severity # "benign"
              /\ ~a.alike /\ a.changes = "yes"
         /\ same /\ Stated(a.left) = Stated(a.right) => a.alike
         /\ same /\ once /\ Stated(a.left) \ unset = Stated(a.right) \ unset =>
              \A d \in a.diffs : d.severity = "unmergeable"
=============================================================================
