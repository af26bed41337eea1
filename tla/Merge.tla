------------------------------- MODULE Merge --------------------------------
(***************************************************************************)
(* merge.resolve: facts about one estate, read from several sources, are   *)
(* reconciled into one record per (category, key).  The steps of           *)
(* _Merger.run are the actions; the fields of _Merger are the variables.   *)
(*                                                                         *)
(* A fact names its source id (origin), its fidelity spelling (source),    *)
(* the raw key, and for a table category a record: each field is a set of  *)
(* items, or Missing, or Marker, a value that was never resolved.  The     *)
(* order of list items and the text of notes are left out.                 *)
(***************************************************************************)
EXTENDS Provenance, FiniteSets

CONSTANTS TableCategories, FlatCategories,
          Keys,            \* raw and canonical keys
          AmbiguousKeys,   \* raw keys canonical_key refuses
          canonical_key,   \* [Keys \ AmbiguousKeys -> Keys], the alias map applied
          SourceIds,       \* natural numbers, for the order of source ids
          Fields,
          MaterialFields, BenignFields,   \* compare's lists; the rest are neither
          ListFields,      \* collections, which fragments contribute to
          Items,           \* the atoms of field values
          slot,            \* [Items -> what aligns an item with another's]
          Missing, Marker, NoRecord

\* The calls explored: any combination of these.
CONSTANTS FactSets,        \* the sets of facts
          SourceLists,     \* [SourceIds -> the source's declared record]
          ScopeTables,     \* functions from pairs <<source id, category>> to scopes
          Policies         \* [Categories -> PRECEDENCE]

Categories == TableCategories \cup FlatCategories
PROPOSED_SOURCES == {"tfplan-planned", "hcl-proposed"}
UNRANKED == {"unranked"}   \* any spelling fidelity_rank does not know
PRECEDENCE == {"api-wins", "terraform-wins", "highest-fidelity-wins",
               "require-agreement"}
MIN_KEYS_FOR_MISMATCH == 2
EMIT_FIDELITY_FLOOR == "tfstate"

Values   == (SUBSET Items) \cup {Missing, Marker}
Record   == [Fields -> Values]
EMPTY    == [n \in Fields |-> Missing]

Facts == [category : Categories, key : Keys, origin : SourceIds,
          source : Sources \cup PROPOSED_SOURCES \cup UNRANKED, address : Nat,
          fragment : BOOLEAN, record : Record \cup {NoRecord},
          unresolved : SUBSET Fields]

\* One call: the facts, per source its declared SourceRecord, the optional
\* per-category scopes that override it, and the policy's mode per category.
Inputs == [facts : FactSets, sources : SourceLists,
           category_scopes : ScopeTables, policy : Policies]

ASSUME MergeAssumption ==
  /\ SourceIds \subseteq Nat /\ IsFiniteSet(SourceIds)
  /\ TableCategories \cap FlatCategories = {}
  /\ canonical_key \in [Keys \ AmbiguousKeys -> Keys]
  /\ MaterialFields \subseteq Fields /\ AmbiguousKeys \subseteq Keys
  /\ UNION FactSets \subseteq Facts /\ \A F \in FactSets : IsFiniteSet(F)
  /\ \A sources \in SourceLists, s \in SourceIds :
       /\ sources[s].kind \in Sources /\ sources[s].scope \in Scopes
       /\ \A f \in UNION FactSets : f.origin = s =>
            f.source \in PROPOSED_SOURCES \cup UNRANKED \cup {sources[s].kind}
  /\ \A table \in ScopeTables :
       /\ DOMAIN table \subseteq SourceIds \X Categories
       /\ \A x \in DOMAIN table : table[x] \in Scopes
  /\ Policies \subseteq [Categories -> PRECEDENCE]

VARIABLES in,        \* the arguments of the call
          pc,        \* the step run() is at
          kept,      \* current-state facts
          dropped,   \* facts that reach no resolution
          pending,   \* (category, key) -> the resolution under construction
          alternates, disputes, verdicts,
          declared_not_applied,
          scopes     \* category -> composed (scope, boundary)

vars == <<in, pc, kept, dropped, pending, alternates, disputes, verdicts,
          declared_not_applied, scopes>>

-----------------------------------------------------------------------------
(* Source bookkeeping.                                                     *)

kind(s) == in.sources[s].kind
Ambiguous(f) == f.key \in AmbiguousKeys
Canonical(k) == IF k \in AmbiguousKeys THEN k ELSE canonical_key[k]
KeyOf(f) == Canonical(f.key)

contributed(s, c) == \E f \in kept : f.origin = s /\ f.category = c

\* The per-category scope if one was supplied, else the source's own claim,
\* and only for a category it contributed to.
ClaimedScope(s, c) ==
  IF <<s, c>> \in DOMAIN in.category_scopes THEN in.category_scopes[<<s, c>>]
  ELSE IF contributed(s, c) THEN in.sources[s].scope ELSE "uncaptured"

scope_of(s, c) == CapTerraform({kind(s)}, ClaimedScope(s, c))

sources_over(c) ==
  {s \in SourceIds :
     \/ contributed(s, c)
     \/ /\ <<s, c>> \in DOMAIN in.category_scopes
        /\ in.category_scopes[<<s, c>>] # "uncaptured"}

-----------------------------------------------------------------------------
(* Step 4: one source's record for a key, out of its facts about it.       *)

\* Of several base records the one at the lowest address.
BaseRecord(G) ==
  LET bases == {f \in G : ~f.fragment}
  IN  IF bases = {} THEN EMPTY
      ELSE (CHOOSE f \in bases : \A g \in bases : f.address <= g.address).record

\* A fragment contributes the items of its list fields, to a list or to
\* nothing; a base value that is not a list stays.
assemble(G) ==
  LET base == BaseRecord(G)
      offers(n) == {f \in G : f.fragment /\ f.record[n] \notin {Missing, Marker}}
      items(n)  == UNION {f.record[n] : f \in offers(n)}
  IN  [n \in Fields |->
         IF n \notin ListFields \/ offers(n) = {} \/ base[n] = Marker THEN base[n]
         ELSE IF base[n] = Missing THEN items(n) ELSE base[n] \cup items(n)]

OfSource(G, s) == {f \in G : f.origin = s}
Origins(G) == {f.origin : f \in G}

-----------------------------------------------------------------------------
(* Step 5: the order of the sources under a precedence mode.               *)

\* Tiers promote the kinds a mode names; everything else is ordered by
\* fidelity, then by source id.
tier(k, mode) ==
  CASE mode = "api-wins" /\ k = "explicit-baseline" -> 2
    [] mode = "api-wins" /\ k = "api"               -> 1
    [] mode = "terraform-wins" /\ k = "tfstate"      -> 3
    [] mode = "terraform-wins" /\ k = "tfplan-prior" -> 2
    [] mode = "terraform-wins" /\ k = "hcl"          -> 1
    [] OTHER                                         -> 0

Precedes(s, t, mode) ==
  LET ts == tier(kind(s), mode)      tt == tier(kind(t), mode)
      fs == fidelity_rank[kind(s)]   ft == fidelity_rank[kind(t)]
  IN  \/ ts > tt
      \/ ts = tt /\ fs > ft
      \/ ts = tt /\ fs = ft /\ s < t

First(S, mode) == CHOOSE s \in S : \A t \in S \ {s} : Precedes(s, t, mode)

-----------------------------------------------------------------------------
(* Step 6: the fields the winner left unresolved.                          *)

Stated(v) == v \notin {Missing, Marker}

needs_backfill(record, G, n) ==
  \/ record[n] = Marker
  \/ record[n] = Missing /\ \E f \in G : n \in f.unresolved

\* The first loser, in precedence order, with a resolved value.
backfill(records, winner, G, mode) ==
  [n \in Fields |->
     LET able == {s \in DOMAIN records \ {winner} : Stated(records[s][n])}
     IN  IF needs_backfill(records[winner], G, n) /\ able # {}
         THEN records[First(able, mode)][n]
         ELSE records[winner][n]]

-----------------------------------------------------------------------------
(* Step 7: the winner's record, backfilled, against one loser's.           *)

Dispute(c, k, n, severity, left, right) ==
  [category |-> c, key |-> k, field |-> n, severity |-> severity,
   left |-> left, right |-> right]

Incomparable(r) == \E n \in Fields : r[n] = Marker

severity_of(n) == IF n \in MaterialFields THEN "material"
                  ELSE IF n \in BenignFields THEN "benign" ELSE "unmergeable"

\* A field that no list classifies is reported even when the values agree,
\* but only of records that differ somewhere; a side that does not state the
\* field disagrees with nothing.  Of a collection, the items in one slot are
\* compared; one that has no counterpart is absence and disagrees with nothing.
Differ(n, left, right) ==
  IF n \in ListFields THEN \E i \in left \ right, j \in right \ left : slot[i] = slot[j]
  ELSE left # right
compare(left, right) ==
  IF Incomparable(left) \/ Incomparable(right) THEN {<<"", "unmergeable">>}
  ELSE IF left = right THEN {}
  ELSE {<<n, severity_of(n)>> :
          n \in {m \in Fields :
                   /\ left[m] # Missing /\ right[m] # Missing
                   /\ Differ(m, left[m], right[m]) \/ severity_of(m) = "unmergeable"}}

\* compose_taint over every dispute of the set: the strongest.
TaintFrom(D) ==
  IF \E d \in D : d.severity = "unmergeable" THEN "unmergeable"
  ELSE IF \E d \in D : d.severity = "material" THEN "disputed" ELSE ""

-----------------------------------------------------------------------------
(* The steps of run.                                                       *)

Init ==
  /\ in \in Inputs
  /\ pc = "partition"
  /\ kept = {} /\ dropped = {} /\ pending = <<>> /\ alternates = {}
  /\ disputes = {} /\ verdicts = {} /\ declared_not_applied = {}
  /\ scopes = <<>>

\* A proposed change, or a spelling that cannot be ranked.
never_current(f) == f.source \in PROPOSED_SOURCES \/ f.source \notin Sources

\* Step 1: a proposed change never is current state.
Partition ==
  /\ pc = "partition"
  /\ kept' = {f \in in.facts : ~never_current(f)}
  /\ dropped' = in.facts \ kept'
  /\ pc' = "canonicalise"
  /\ UNCHANGED <<in, pending, alternates, disputes, verdicts,
                 declared_not_applied, scopes>>

\* Step 2: a key that cannot be canonicalised is kept raw and disputed.
Canonicalise ==
  /\ pc = "canonicalise"
  /\ disputes' = {Dispute(f.category, f.key, "", "unmergeable", f.origin, 0) :
                    f \in {g \in kept : Ambiguous(g)}}
  /\ pc' = "resolve"
  /\ UNCHANGED <<in, kept, dropped, pending, alternates, verdicts,
                 declared_not_applied, scopes>>

\* Step 3.
Groups == {<<f.category, KeyOf(f)>> : f \in kept}
Group(c, k) == {f \in kept : f.category = c /\ KeyOf(f) = k}
Unresolved == {g \in Groups : g \notin DOMAIN pending \cup declared_not_applied}

UnresolvedAlias(c, k) == \E f \in kept : f.category = c /\ f.key = k /\ Ambiguous(f)

LosersKept(c, k, winner, records, record) ==
  {[category |-> c, key |-> k, source_id |-> s, record |-> records[s]] :
     s \in DOMAIN records \ {winner}}

\* Mutant: compared before backfill, with the record the winner supplied.
PairDisputes_stale(c, k, winner, records, record) ==
  UNION {{Dispute(c, k, d[1], d[2], winner, s) :
            d \in {e \in compare(records[winner], records[s]) : e[1] # ""}} :
         s \in DOMAIN records \ {winner}}

PairDisputes(c, k, winner, records, record) ==
  UNION {{Dispute(c, k, d[1], d[2], winner, s) : d \in compare(record, records[s])} :
         s \in DOMAIN records \ {winner}}

\* Steps 4 to 7 of one table key.
ResolveTable(c, k) ==
  LET G       == Group(c, k)
      records == [s \in Origins(G) |-> assemble(OfSource(G, s))]
      mode    == in.policy[c]
      winner  == First(Origins(G), mode)
      record  == backfill(records, winner, OfSource(G, winner), mode)
      found   == PairDisputes(c, k, winner, records, record)
  IN  /\ pc = "resolve"
      /\ <<c, k>> \in Unresolved /\ c \in TableCategories
      /\ pending' = [p \in DOMAIN pending \cup {<<c, k>>} |->
           IF p # <<c, k>> THEN pending[p]
           ELSE [record |-> record, source_id |-> winner, contributors |-> G,
                 taint |-> compose_taint(TaintFrom(found),
                             IF UnresolvedAlias(c, k) THEN "unmergeable" ELSE "")]]
      /\ alternates' = alternates \cup LosersKept(c, k, winner, records, record)
      /\ disputes' = disputes \cup found
      /\ verdicts' = verdicts \cup
           {[kind |-> "drift:material", category |-> c, key |-> k, field |-> d.field] :
              d \in {e \in found : e.severity = "material" /\ mode = "require-agreement"}}
      /\ UNCHANGED <<in, pc, kept, dropped, declared_not_applied, scopes>>

Observes(s) == fidelity_rank[kind(s)] >= fidelity_rank[EMIT_FIDELITY_FLOOR]

emitting(G) == {s \in Origins(G) : Observes(s)}

\* Mutant: the name is remembered and its facts are not.
WithholdFlat_evaporating(c, k) ==
  /\ pc = "resolve"
  /\ <<c, k>> \in Unresolved /\ c \in FlatCategories
  /\ emitting(Group(c, k)) = {}
  /\ declared_not_applied' = declared_not_applied \cup {<<c, k>>}
  /\ UNCHANGED <<in, pc, kept, dropped, pending, alternates, disputes, verdicts, scopes>>

\* Step 9, a flat name seen only in configuration: withheld, not emitted.
WithholdFlat(c, k) ==
  /\ pc = "resolve"
  /\ <<c, k>> \in Unresolved /\ c \in FlatCategories
  /\ emitting(Group(c, k)) = {}
  /\ declared_not_applied' = declared_not_applied \cup {<<c, k>>}
  /\ dropped' = dropped \cup Group(c, k)
  /\ UNCHANGED <<in, pc, kept, pending, alternates, disputes, verdicts, scopes>>

\* Step 9, a flat name somebody observed: the union, precedence not consulted.
EmitFlat(c, k) ==
  LET G == Group(c, k)
  IN  /\ pc = "resolve"
      /\ <<c, k>> \in Unresolved /\ c \in FlatCategories
      /\ emitting(G) # {}
      /\ pending' = [p \in DOMAIN pending \cup {<<c, k>>} |->
           IF p # <<c, k>> THEN pending[p]
           ELSE [record |-> NoRecord, contributors |-> G,
                 source_id |-> First(emitting(G), "highest-fidelity-wins"),
                 taint |-> IF UnresolvedAlias(c, k) THEN "unmergeable" ELSE ""]]
      /\ UNCHANGED <<in, pc, kept, dropped, alternates, disputes, verdicts,
                     declared_not_applied, scopes>>

Lowest(S) == CHOOSE s \in S : \A t \in S : s <= t

\* Step 8: what an absence from another source says about a key that is here.
existence_disputes(c, k) ==
  LET present  == Origins(pending[<<c, k>>].contributors)
      complete == {s \in present : scope_of(s, c) = "complete"}
      others   == sources_over(c) \ present
      gone      == {o \in others : scope_of(o, c) = "complete"}
      unmanaged == {o \in others : /\ scope_of(o, c) \notin {"uncaptured", "complete"}
                                   /\ complete # {} /\ kind(o) \in TerraformSources}
  IN  {Dispute(c, k, "", "material", Lowest(present), o) : o \in gone}
      \cup {Dispute(c, k, "", "unmanaged", Lowest(complete), o) : o \in unmanaged}

Existence ==
  /\ pc = "resolve" /\ Unresolved = {}
  /\ LET found == [p \in DOMAIN pending |-> existence_disputes(p[1], p[2])]
     IN  /\ disputes' = disputes \cup UNION {found[p] : p \in DOMAIN pending}
         /\ pending' = [p \in DOMAIN pending |->
              [pending[p] EXCEPT !.taint = compose_taint(@, TaintFrom(found[p]))]]
  /\ pc' = "mismatch"
  /\ UNCHANGED <<in, kept, dropped, alternates, verdicts, declared_not_applied,
                 scopes>>

\* Step 9a: two sources that share no canonical key share no key form either.
CanonicalKeys(s, c) ==
  {KeyOf(f) : f \in {g \in kept : g.origin = s /\ g.category = c /\ ~Ambiguous(g)}}

KeyMismatch ==
  /\ pc = "mismatch"
  /\ verdicts' = verdicts \cup
       {[kind |-> "drift:key-mismatch", category |-> x[1], left |-> x[2], right |-> x[3]] :
          x \in {y \in Categories \X SourceIds \X SourceIds :
                   LET left == CanonicalKeys(y[2], y[1])
                       right == CanonicalKeys(y[3], y[1])
                   IN  /\ y[2] < y[3]
                       /\ Cardinality(left) >= MIN_KEYS_FOR_MISMATCH
                       /\ Cardinality(right) >= MIN_KEYS_FOR_MISMATCH
                       /\ left \cap right = {}}}
  /\ pc' = "compose"
  /\ UNCHANGED <<in, kept, dropped, pending, alternates, disputes,
                 declared_not_applied, scopes>>

\* Step 10: every contributor of a category in one call.
ComposeScopes ==
  /\ pc = "compose"
  /\ scopes' = [c \in {d \in Categories : sources_over(d) # {}} |->
       LET claims == {Contribution(scope_of(s, c), in.sources[s].boundary) :
                        s \in sources_over(c)}
       IN  Contribution(CapTerraform({kind(s) : s \in sources_over(c)},
                                     ComposedScope(claims)),
                        ComposedBoundary(claims))]
  /\ pc' = "done"
  /\ UNCHANGED <<in, kept, dropped, pending, alternates, disputes, verdicts,
                 declared_not_applied>>

Next ==
  \/ Partition
  \/ Canonicalise
  \/ \E c \in Categories, k \in Keys :
       ResolveTable(c, k) \/ WithholdFlat(c, k) \/ EmitFlat(c, k)
  \/ Existence
  \/ KeyMismatch
  \/ ComposeScopes

Spec == Init /\ [][Next]_vars

-----------------------------------------------------------------------------
(* Properties.                                                             *)

Done == pc = "done"
DisputesAt(p) == {d \in disputes : d.category = p[1] /\ d.key = p[2]}
Sources_of(p) == Origins(pending[p].contributors)
SourceRecordAt(p, s) == assemble(OfSource(pending[p].contributors, s))

\* Nothing evaporates and nothing is used twice (_check_accounting): at the
\* end every fact is in the contributors of one resolution, or dropped.
Accounted ==
  Done => \A f \in in.facts :
    LET uses == {p \in DOMAIN pending : f \in pending[p].contributors}
    IN  IF f \in dropped THEN uses = {} ELSE Cardinality(uses) = 1

\* Precedence selects a value, it never suppresses a finding: whatever
\* the mode, when two sources state different values for a security field
\* that the resolution states, or a source has another item in a slot of a
\* collection than the resolution, the key is disputed and the fact tainted
\* (merge.py:1, :846).  No dispute speaks of an item only one of them has, nor
\* of an item both have beside another in the same slot.
DisagreementIsReported ==
  Done => \A p \in DOMAIN pending : p[1] \in TableCategories =>
    \A s, t \in Sources_of(p), n \in MaterialFields :
      LET a == SourceRecordAt(p, s)[n]   b == SourceRecordAt(p, t)[n]
          r == pending[p].record[n]
      IN  (/\ Stated(a) /\ Stated(b) /\ r # Missing
           /\ IF n \in ListFields
              THEN Stated(r) /\ \E i \in r \ a, j \in a \ r : slot[i] = slot[j]
              ELSE a # b) =>
            /\ pending[p].taint # ""
            /\ \E d \in DisputesAt(p) : d.severity \in {"material", "unmergeable"}
=============================================================================
