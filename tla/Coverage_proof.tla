--------------------------- MODULE Coverage_proof ---------------------------
(***************************************************************************)
(* Proofs about how a coverage claim is earned and how it is used: about   *)
(* the provenance ledger, for every set of categories, keys, sources and   *)
(* declarations; and about engine.evaluate, for every set of well-formed   *)
(* inputs: any number of targets, sources, tables and rules, any answers.  *)
(*                                                                         *)
(* LicenceEarned speaks of ledgers already built; it is not inductive by   *)
(* itself, because a ledger is built from the builder's entries and says   *)
(* nothing about them.  The strengthening is EntryRemembers: each entry    *)
(* still carries what every call made for its category said.               *)
(***************************************************************************)
EXTENDS Ledger, Engine, Provenance_proof, FiniteSetTheorems, WellFoundedInduction

\* An entry is at least as cautious as each call folded into it.
Remembers(e, h) ==
  /\ e.dropped = h.drops
  /\ \A d \in h.declared :
       /\ taint_rank[d.taint] <= taint_rank[e.taint]
       /\ d.source_kinds \subseteq e.source_kinds
       /\ e.existence_licensed => d.existence_licensed
  /\ e.scope = "complete" => \E d \in h.declared : d.scope = "complete"
  /\ e.emitted => \E d \in h.declared : d.emitted

EntryRemembers ==
  \A c \in Categories :
    IF IsDeclared(c) THEN Remembers(entry[c], log[c])
                     ELSE log[c].declared = {} /\ log[c].drops = 0

\* A built ledger is never more cautious than the builder it came from, and
\* never licenses a category a terraform artifact contributed to.
LedgerLags ==
  \A c \in Categories : ledger[c] # NoEntry =>
    /\ IsDeclared(c)
    /\ ledger[c].dropped <= entry[c].dropped
    /\ taint_rank[ledger[c].taint] <= taint_rank[entry[c].taint]
    /\ ledger[c].source_kinds \subseteq entry[c].source_kinds
    /\ require_complete(ledger[c]) = "" =>
         ledger[c].source_kinds \cap TerraformSources = {}

IInv == TypeOK /\ EntryRemembers /\ LicenceEarned /\ LedgerLags

-----------------------------------------------------------------------------
(* Entries and the records built from them.                                *)

\* Storing a first declaration keeps it whole.
LEMMA FreshEntry ==
  ASSUME NEW d \in Declaration
  PROVE  Fresh(d) \in Entry /\ Remembers(Fresh(d), [declared |-> {d}, drops |-> 0])
<1>1. Fresh(d) \in Entry
  BY DEF Fresh, Declaration, Entry
<1>2. Fresh(d).taint = d.taint /\ taint_rank[d.taint] \in 0..3
  BY TaintRank DEF Fresh, Declaration
<1> QED BY <1>1, <1>2 DEF Fresh, Remembers

\* Folding a declaration in gives an entry no less cautious than the old one
\* and than the declaration, complete or emitted only if one of them was.
LEMMA FoldedEntry ==
  ASSUME NEW e \in Entry, NEW d \in Declaration
  PROVE  /\ Folded(e, d) \in Entry
         /\ Folded(e, d).dropped = e.dropped
         /\ taint_rank[e.taint] <= taint_rank[Folded(e, d).taint]
         /\ taint_rank[d.taint] <= taint_rank[Folded(e, d).taint]
         /\ Folded(e, d).source_kinds = e.source_kinds \cup d.source_kinds
         /\ Folded(e, d).existence_licensed =>
              e.existence_licensed /\ d.existence_licensed
         /\ Folded(e, d).scope = "complete" =>
              e.scope = "complete" \/ d.scope = "complete"
         /\ Folded(e, d).emitted => e.emitted \/ d.emitted
<1> DEFINE C == {Contribution(e.scope, e.boundary), Contribution(d.scope, d.boundary)}
<1>1. C \in SUBSET [scope : Scopes, boundary : Boundaries]
  BY DEF Entry, Declaration, Contribution
<1>2. /\ compose_scope(C).scope \in Scopes
      /\ compose_scope(C).boundary \in Boundaries
      /\ compose_scope(C).scope = "complete" =>
           e.scope = "complete" \/ d.scope = "complete"
  <2>1. "" \in Boundaries
    BY LedgerAssumption
  <2>2. /\ compose_scope(C).scope \in Scopes
        /\ compose_scope(C).boundary \in Boundaries
        /\ compose_scope(C).scope = "complete" => \E k \in C : k.scope = "complete"
    <3> HIDE DEF C
    <3> QED BY <1>1, <2>1, ComposeScope
  <2> QED BY <2>2 DEF Contribution
<1>3. /\ compose_taint(e.taint, d.taint) \in Taints
      /\ taint_rank[e.taint] <= taint_rank[compose_taint(e.taint, d.taint)]
      /\ taint_rank[d.taint] <= taint_rank[compose_taint(e.taint, d.taint)]
  BY ComposeTaint DEF Entry, Declaration
<1>4. Larger(e.keys, d.keys) \in Nat
  BY DEF Larger, Entry, Declaration
<1> HIDE DEF C
<1>5. Folded(e, d) =
        [scope |-> compose_scope(C).scope, boundary |-> compose_scope(C).boundary,
         taint |-> compose_taint(e.taint, d.taint),
         keys |-> Larger(e.keys, d.keys),
         source_kinds |-> e.source_kinds \cup d.source_kinds,
         existence_licensed |-> e.existence_licensed /\ d.existence_licensed,
         emitted |-> e.emitted \/ d.emitted, dropped |-> e.dropped]
  BY DEF Folded, C
<1> QED BY <1>2, <1>3, <1>4, <1>5 DEF Entry, Declaration

\* Construction only narrows, and what it leaves licensed was complete,
\* untainted, undropped, emitted, licensed and free of terraform before.
LEMMA CategoryScopeNarrows ==
  ASSUME NEW e \in Entry
  PROVE  /\ CategoryScope(e) \in Entry
         /\ CategoryScope(e).dropped = e.dropped
         /\ CategoryScope(e).taint = e.taint
         /\ CategoryScope(e).source_kinds = e.source_kinds
         /\ require_complete(CategoryScope(e)) = "" =>
              /\ e.scope = "complete" /\ e.taint = "" /\ e.dropped = 0
              /\ e.emitted /\ e.existence_licensed
              /\ e.source_kinds \cap TerraformSources = {}
<1> DEFINE capped == CapTerraform(e.source_kinds, e.scope)
           holed  == IF e.dropped > 0 THEN MinScope(capped, "partial") ELSE capped
           scope  == IF e.emitted THEN holed ELSE "uncaptured"
           r      == [e EXCEPT !.scope = scope,
                               !.keys  = IF e.emitted THEN e.keys ELSE 0]
<1>1. /\ capped \in Scopes
      /\ capped = "complete" =>
           e.scope = "complete" /\ e.source_kinds \cap TerraformSources = {}
  BY ScopeRank, MinScopeIsOne DEF CapTerraform, MinScope, Scopes, Entry
<1> HIDE DEF capped
<1>2. /\ scope \in Scopes
      /\ scope = "complete" => capped = "complete" /\ e.emitted
  BY <1>1, ScopeRank DEF MinScope, Scopes, Entry
<1> HIDE DEF holed, scope
<1>3. /\ r \in Entry /\ r.scope = scope /\ r.dropped = e.dropped
      /\ r.taint = e.taint /\ r.source_kinds = e.source_kinds
  BY <1>2 DEF Entry
<1> HIDE DEF r
<1>4. CategoryScope(e) =
        [r EXCEPT !.existence_licensed = e.existence_licensed /\ can_license(r)]
  BY DEF CategoryScope, r, scope, holed, capped
<1>5. (e.existence_licensed /\ can_license(r)) \in BOOLEAN
  BY DEF Entry, can_license
<1>6. /\ CategoryScope(e) \in Entry
      /\ CategoryScope(e).scope = scope /\ CategoryScope(e).dropped = e.dropped
      /\ CategoryScope(e).taint = e.taint
      /\ CategoryScope(e).source_kinds = e.source_kinds
      /\ CategoryScope(e).existence_licensed => e.existence_licensed
  BY <1>3, <1>4, <1>5 DEF Entry
<1>7. ASSUME require_complete(CategoryScope(e)) = ""
      PROVE  /\ scope = "complete" /\ e.taint = "" /\ e.dropped = 0
             /\ e.existence_licensed
  <2>1. e.dropped \in Nat
    BY DEF Entry
  <2>2. scope # "uncaptured"
    BY <1>6, <1>7 DEF require_complete
  <2>3. ~(e.dropped > 0)
    BY <1>6, <1>7, <2>2 DEF require_complete
  <2>4. e.taint = ""
    BY <1>6, <1>7, <2>2, <2>3 DEF require_complete
  <2>5. scope = "complete"
    BY <1>2, <1>6, <1>7, <2>2, <2>3, <2>4 DEF require_complete, Scopes
  <2>6. e.existence_licensed
    BY <1>6, <1>7, <2>2, <2>3, <2>4, <2>5 DEF require_complete
  <2>7. e.dropped = 0
    BY <2>1, <2>3
  <2> QED BY <2>4, <2>5, <2>6, <2>7
<1> QED BY <1>1, <1>2, <1>6, <1>7

-----------------------------------------------------------------------------
(* The inductive invariant.                                                *)

\* Nothing has been said and nothing built.
LEMMA InitInv == Init => IInv
<1> SUFFICES ASSUME Init PROVE IInv
  OBVIOUS
<1>1. TypeOK
  BY LedgerAssumption DEF Init, TypeOK
<1>2. \A c \in Categories :
        /\ entry[c] = NoEntry /\ ledger[c] = NoEntry
        /\ log[c].declared = {} /\ log[c].drops = 0
  BY DEF Init
<1>3. \A c \in Categories : require_complete(scope_of(c)) # ""
  BY <1>2 DEF scope_of, UNCAPTURED, require_complete
<1> QED
  BY <1>1, <1>2, <1>3 DEF IInv, EntryRemembers, LicenceEarned, LedgerLags, IsDeclared

\* What build() makes of a declared category is an entry as cautious as the
\* one it came from.
LEMMA BuiltScopeNarrows ==
  ASSUME TypeOK, NEW c \in Categories, IsDeclared(c)
  PROVE  /\ BuiltScope(c) \in Entry
         /\ BuiltScope(c).dropped = entry[c].dropped
         /\ BuiltScope(c).taint = entry[c].taint
         /\ BuiltScope(c).source_kinds = entry[c].source_kinds
         /\ require_complete(BuiltScope(c)) = "" =>
              /\ entry[c].scope = "complete" /\ entry[c].taint = ""
              /\ entry[c].dropped = 0
              /\ entry[c].emitted /\ entry[c].existence_licensed
              /\ entry[c].source_kinds \cap TerraformSources = {}
<1> DEFINE n == Larger(entry[c].keys, Cardinality(FactKeys(c)))
           e == [entry[c] EXCEPT !.keys = n]
<1>1. entry[c] \in Entry
  BY DEF TypeOK, IsDeclared
<1>2. n \in Nat
  <2>1. FactKeys(c) \subseteq Keys
    BY DEF FactKeys
  <2>2. Cardinality(FactKeys(c)) \in Nat
    BY <2>1, FS_Subset, FS_CardinalityType, LedgerAssumption
  <2> QED BY <1>1, <2>2 DEF Larger, Entry
<1> HIDE DEF n
<1>3. /\ e \in Entry
      /\ e.scope = entry[c].scope /\ e.taint = entry[c].taint
      /\ e.dropped = entry[c].dropped /\ e.source_kinds = entry[c].source_kinds
      /\ e.emitted = entry[c].emitted
      /\ e.existence_licensed = entry[c].existence_licensed
  BY <1>1, <1>2 DEF Entry
<1>4. BuiltScope(c) = CategoryScope(e)
  BY DEF BuiltScope, n
<1> HIDE DEF e
<1> QED BY <1>3, <1>4, CategoryScopeNarrows, ZenonT(40)

\* The parts of IInv beyond the types speak of these four variables only.
LEMMA Untouched ==
  ASSUME IInv, TypeOK', UNCHANGED <<entry, ledger, built, log>>
  PROVE  IInv'
BY DEF IInv, EntryRemembers, LicenceEarned, LedgerLags, IsDeclared, scope_of

LEMMA AddSourceInv ==
  ASSUME IInv, NEW s \in SourceIds, NEW r \in Records, AddSource(s, r)
  PROVE  IInv'
<1>1. r \in [kind : Sources, scope : Scopes]
  BY LedgerAssumption
<1>2. SourceRecord(r.kind, r.scope) \in [kind : Sources, scope : Scopes]
  BY <1>1, MinScopeIsOne DEF SourceRecord, CapTerraform, Scopes
<1>3. TypeOK'
  BY <1>2 DEF AddSource, IInv, TypeOK
<1> QED BY <1>3, Untouched DEF AddSource

LEMMA RecordFactInv ==
  ASSUME IInv, NEW c \in Categories, NEW k \in Keys, NEW s \in SourceIds,
         RecordFact(c, k, s)
  PROVE  IInv'
<1>1. TypeOK'
  BY DEF RecordFact, IInv, TypeOK
<1> QED BY <1>1, Untouched DEF RecordFact

LEMMA AlternateInv ==
  ASSUME IInv, NEW c \in Categories, NEW k \in Keys, NEW s \in SourceIds,
         Alternate(c, k, s)
  PROVE  IInv'
<1>1. TypeOK'
  BY DEF Alternate, IInv, TypeOK
<1> QED BY <1>1, Untouched DEF Alternate

\* Replacing one category's entry by a more cautious one, and its history by
\* one the new entry remembers, keeps the invariant.
LEMMA EntryStep ==
  ASSUME IInv, NEW c \in Categories,
         NEW e \in Entry,
         NEW h \in [declared : SUBSET Declarations, drops : Nat],
         entry' = [entry EXCEPT ![c] = e], log' = [log EXCEPT ![c] = h],
         UNCHANGED <<sources, facts, alternates, ledger, built>>,
         Remembers(e, h),
         IsDeclared(c) => /\ entry[c].dropped <= e.dropped
                          /\ taint_rank[entry[c].taint] <= taint_rank[e.taint]
                          /\ entry[c].source_kinds \subseteq e.source_kinds
  PROVE  IInv'
<1>1. TypeOK /\ e # NoEntry
  BY LedgerAssumption DEF IInv
<1>2. TypeOK'
  BY <1>1 DEF TypeOK
<1>3. /\ entry'[c] = e /\ log'[c] = h
      /\ \A x \in Categories \ {c} : entry'[x] = entry[x] /\ log'[x] = log[x]
  BY <1>1 DEF TypeOK
<1>4. EntryRemembers'
  BY <1>1, <1>3 DEF IInv, EntryRemembers, IsDeclared
<1>5. LicenceEarned'
  BY DEF IInv, LicenceEarned, scope_of
<1>6. LedgerLags'
  <2> SUFFICES ASSUME NEW x \in Categories, ledger[x] # NoEntry
               PROVE  /\ entry'[x] # NoEntry
                      /\ ledger[x].dropped <= entry'[x].dropped
                      /\ taint_rank[ledger[x].taint] <= taint_rank[entry'[x].taint]
                      /\ ledger[x].source_kinds \subseteq entry'[x].source_kinds
    BY DEF IInv, LedgerLags, IsDeclared
  <2>1. /\ IsDeclared(x)
        /\ ledger[x].dropped <= entry[x].dropped
        /\ taint_rank[ledger[x].taint] <= taint_rank[entry[x].taint]
        /\ ledger[x].source_kinds \subseteq entry[x].source_kinds
    BY DEF IInv, LedgerLags
  <2>2. CASE x # c
    BY <1>3, <2>1, <2>2 DEF IsDeclared
  <2>3. CASE x = c
    <3>1. ledger[c] \in Entry /\ entry[c] \in Entry
      BY <1>1, <2>1, <2>3 DEF TypeOK, IsDeclared
    <3>2. /\ ledger[c].dropped \in Nat /\ entry[c].dropped \in Nat
          /\ e.dropped \in Nat
          /\ ledger[c].taint \in Taints /\ entry[c].taint \in Taints
          /\ e.taint \in Taints
      BY <3>1 DEF Entry
    <3>3. ledger[c].dropped <= e.dropped
      BY <2>1, <2>3, <3>2
    <3>4. taint_rank[ledger[c].taint] <= taint_rank[e.taint]
      <4>1. /\ taint_rank[ledger[c].taint] \in 0..3
            /\ taint_rank[entry[c].taint] \in 0..3
            /\ taint_rank[e.taint] \in 0..3
        BY <3>2, TaintRank
      <4>2. /\ taint_rank[ledger[c].taint] <= taint_rank[entry[c].taint]
            /\ taint_rank[entry[c].taint] <= taint_rank[e.taint]
        BY <2>1, <2>3
      <4> QED BY <4>1, <4>2
    <3> QED BY <1>1, <1>3, <2>1, <2>3, <3>3, <3>4
  <2> QED BY <2>2, <2>3
<1> QED BY <1>2, <1>4, <1>5, <1>6 DEF IInv

LEMMA DeclareInv ==
  ASSUME IInv, NEW c \in Categories, NEW d \in Declarations, Declare(c, d)
  PROVE  IInv'
<1> DEFINE e == IF IsDeclared(c) THEN Folded(entry[c], d) ELSE Fresh(d)
           h == [log[c] EXCEPT !.declared = @ \cup {d}]
<1>1. d \in Declaration
  BY LedgerAssumption
<1>2. TypeOK /\ EntryRemembers
  BY DEF IInv
<1>3. entry' = [entry EXCEPT ![c] = e] /\ log' = [log EXCEPT ![c] = h]
  BY <1>2 DEF Declare, TypeOK
<1>4. /\ h \in [declared : SUBSET Declarations, drops : Nat]
      /\ h.declared = log[c].declared \cup {d} /\ h.drops = log[c].drops
  BY <1>2 DEF TypeOK
<1> HIDE DEF h
<1>5. CASE IsDeclared(c)
  <2>1. entry[c] \in Entry /\ e = Folded(entry[c], d) /\ Remembers(entry[c], log[c])
    BY <1>2, <1>5 DEF IsDeclared, TypeOK, EntryRemembers
  <2> HIDE DEF e
  <2>2. /\ e \in Entry
        /\ e.dropped = entry[c].dropped
        /\ taint_rank[entry[c].taint] <= taint_rank[e.taint]
        /\ taint_rank[d.taint] <= taint_rank[e.taint]
        /\ e.source_kinds = entry[c].source_kinds \cup d.source_kinds
        /\ e.existence_licensed =>
             entry[c].existence_licensed /\ d.existence_licensed
        /\ e.scope = "complete" =>
             entry[c].scope = "complete" \/ d.scope = "complete"
        /\ e.emitted => entry[c].emitted \/ d.emitted
    BY <1>1, <2>1, FoldedEntry
  <2>3. \A x \in h.declared :
          /\ taint_rank[x.taint] <= taint_rank[e.taint]
          /\ x.source_kinds \subseteq e.source_kinds
          /\ e.existence_licensed => x.existence_licensed
    <3> SUFFICES ASSUME NEW x \in log[c].declared
                 PROVE  /\ taint_rank[x.taint] <= taint_rank[e.taint]
                        /\ x.source_kinds \subseteq e.source_kinds
                        /\ e.existence_licensed => x.existence_licensed
      BY <1>4, <2>2
    <3>1. x \in Declaration
      BY <1>2, LedgerAssumption DEF TypeOK
    <3>2. /\ taint_rank[x.taint] \in 0..3 /\ taint_rank[e.taint] \in 0..3
          /\ taint_rank[entry[c].taint] \in 0..3
      BY <2>1, <2>2, <3>1, TaintRank DEF Entry, Declaration
    <3>3. taint_rank[x.taint] <= taint_rank[entry[c].taint]
      BY <2>1 DEF Remembers
    <3>4. taint_rank[x.taint] <= taint_rank[e.taint]
      BY <2>2, <3>2, <3>3
    <3> QED BY <2>1, <2>2, <3>4 DEF Remembers
  <2>4. Remembers(e, h)
    BY <1>4, <2>1, <2>2, <2>3 DEF Remembers
  <2>5. entry[c].dropped <= e.dropped
    BY <2>1, <2>2 DEF Entry
  <2> QED BY <1>3, <1>4, <2>2, <2>4, <2>5, EntryStep DEF Declare
<1>6. CASE ~IsDeclared(c)
  <2>1. e = Fresh(d) /\ log[c].declared = {} /\ log[c].drops = 0
    BY <1>2, <1>6 DEF EntryRemembers
  <2>2. h.declared = {d} /\ h.drops = 0
    BY <1>4, <2>1
  <2> HIDE DEF e
  <2>3. e \in Entry /\ Remembers(e, h)
    BY <1>1, <2>1, <2>2, FreshEntry DEF Remembers
  <2> QED BY <1>3, <1>4, <1>6, <2>3, EntryStep DEF Declare
<1> QED BY <1>5, <1>6

LEMMA DropInv ==
  ASSUME IInv, NEW c \in Categories, NEW n \in 1..MaxDrop, Drop(c, n)
  PROVE  IInv'
<1> DEFINE e == [entry[c] EXCEPT !.dropped = @ + n]
           h == [log[c] EXCEPT !.drops = @ + n]
<1>1. TypeOK /\ entry[c] \in Entry /\ Remembers(entry[c], log[c])
  BY DEF IInv, TypeOK, EntryRemembers, Drop, IsDeclared
<1>2. entry' = [entry EXCEPT ![c] = e] /\ log' = [log EXCEPT ![c] = h]
  BY <1>1 DEF Drop, TypeOK
<1>3. n \in Nat
  <2>1. MaxDrop \in Nat
    BY LedgerAssumption
  <2> QED BY <2>1
<1>4. /\ h \in [declared : SUBSET Declarations, drops : Nat]
      /\ h.declared = log[c].declared /\ h.drops = log[c].drops + n
  <2>1. log[c] \in [declared : SUBSET Declarations, drops : Nat]
    BY <1>1 DEF TypeOK
  <2>2. log[c].drops + n \in Nat
    BY <1>3, <2>1
  <2> QED BY <2>1, <2>2
<1>5. /\ e \in Entry /\ e.dropped = entry[c].dropped + n
      /\ e.taint = entry[c].taint /\ e.source_kinds = entry[c].source_kinds
      /\ e.scope = entry[c].scope /\ e.emitted = entry[c].emitted
      /\ e.existence_licensed = entry[c].existence_licensed
  BY <1>1, <1>3 DEF Entry
<1> HIDE DEF e, h
<1>6. Remembers(e, h)
  BY <1>1, <1>4, <1>5 DEF Remembers
<1>7. /\ entry[c].dropped <= e.dropped
      /\ taint_rank[entry[c].taint] <= taint_rank[e.taint]
  <2>1. entry[c].dropped \in Nat /\ taint_rank[entry[c].taint] \in 0..3
    BY <1>1, TaintRank DEF Entry
  <2> QED BY <1>3, <1>5, <2>1
<1> QED BY <1>2, <1>4, <1>5, <1>6, <1>7, EntryStep DEF Drop

LEMMA BuildInv ==
  ASSUME IInv, Build
  PROVE  IInv'
<1>1. TypeOK /\ EntryRemembers
  BY DEF IInv
<1>2. \A c \in Categories :
        IF IsDeclared(c) THEN ledger'[c] = BuiltScope(c) /\ BuiltScope(c) \in Entry
                         ELSE ledger'[c] = NoEntry
  BY <1>1, BuiltScopeNarrows DEF Build
<1>3. TypeOK'
  <2>1. ledger' \in [Categories -> Entry \cup {NoEntry}]
    BY <1>2 DEF Build
  <2> QED BY <1>1, <2>1 DEF Build, TypeOK
<1>4. EntryRemembers'
  BY <1>1 DEF Build, EntryRemembers, IsDeclared
<1>5. LicenceEarned'
  <2> SUFFICES ASSUME NEW c \in Categories, require_complete(scope_of(c))' = ""
               PROVE  /\ log[c].drops = 0
                      /\ \A d \in log[c].declared :
                           /\ d.taint = "" /\ d.existence_licensed
                           /\ d.source_kinds \cap TerraformSources = {}
                      /\ \E d \in log[c].declared : d.scope = "complete" /\ d.emitted
    BY DEF Build, LicenceEarned
  <2>1. CASE ~IsDeclared(c)
    <3>1. scope_of(c)' = UNCAPTURED
      BY <1>2, <2>1 DEF scope_of
    <3>2. require_complete(UNCAPTURED) # ""
      BY DEF UNCAPTURED, require_complete
    <3> QED BY <3>1, <3>2
  <2>2. CASE IsDeclared(c)
    <3>1. scope_of(c)' = BuiltScope(c)
      BY <1>2, <2>2, LedgerAssumption DEF scope_of
    <3>2. /\ entry[c].scope = "complete" /\ entry[c].taint = ""
          /\ entry[c].dropped = 0
          /\ entry[c].emitted /\ entry[c].existence_licensed
          /\ entry[c].source_kinds \cap TerraformSources = {}
      BY <1>1, <2>2, <3>1, BuiltScopeNarrows
    <3>3. Remembers(entry[c], log[c])
      BY <1>1, <2>2 DEF EntryRemembers
    <3>4. ASSUME NEW d \in log[c].declared
          PROVE  d.taint = ""
      <4>1. d \in Declaration
        BY <1>1, LedgerAssumption DEF TypeOK
      <4>2. taint_rank[d.taint] <= taint_rank[""]
        BY <3>2, <3>3 DEF Remembers
      <4> QED BY <4>1, <4>2, TaintRank DEF Declaration
    <3>5. \A d \in log[c].declared :
            d.existence_licensed /\ d.source_kinds \cap TerraformSources = {}
      BY <3>2, <3>3 DEF Remembers
    <3>6. /\ log[c].drops = 0
          /\ \E d \in log[c].declared : d.scope = "complete" /\ d.emitted
      <4>1. log[c].drops = 0
        BY <3>2, <3>3 DEF Remembers
      <4>2. PICK d \in log[c].declared : d.scope = "complete"
        BY <3>2, <3>3 DEF Remembers
      <4>3. ClaimsWhatItEmits(d)
        BY <1>1, <2>2, <4>2, LedgerAssumption DEF TypeOK
      <4>4. d.emitted
        BY <4>2, <4>3 DEF ClaimsWhatItEmits
      <4> QED BY <4>1, <4>2, <4>4
    <3> QED BY <3>4, <3>5, <3>6
  <2> QED BY <2>1, <2>2
<1>6. LedgerLags'
  <2> SUFFICES ASSUME NEW c \in Categories, ledger'[c] # NoEntry
               PROVE  /\ IsDeclared(c)
                      /\ ledger'[c].dropped <= entry[c].dropped
                      /\ taint_rank[ledger'[c].taint] <= taint_rank[entry[c].taint]
                      /\ ledger'[c].source_kinds \subseteq entry[c].source_kinds
                      /\ require_complete(ledger'[c]) = "" =>
                           ledger'[c].source_kinds \cap TerraformSources = {}
    BY DEF Build, LedgerLags, IsDeclared
  <2>1. IsDeclared(c) /\ ledger'[c] = BuiltScope(c)
    BY <1>2
  <2>2. entry[c].dropped \in Nat /\ taint_rank[entry[c].taint] \in 0..3
    BY <1>1, <2>1, TaintRank DEF TypeOK, IsDeclared, Entry
  <2>3. /\ ledger'[c].dropped = entry[c].dropped
        /\ ledger'[c].taint = entry[c].taint
        /\ ledger'[c].source_kinds = entry[c].source_kinds
        /\ require_complete(ledger'[c]) = "" =>
             ledger'[c].source_kinds \cap TerraformSources = {}
    BY <1>1, <2>1, BuiltScopeNarrows
  <2>4. /\ entry[c].dropped <= entry[c].dropped
        /\ taint_rank[entry[c].taint] <= taint_rank[entry[c].taint]
    BY <2>2
  <2> QED BY <2>1, <2>3, <2>4, Zenon
<1> QED BY <1>3, <1>4, <1>5, <1>6 DEF IInv

\* Every builder call preserves the invariant.
LEMMA NextInv == IInv /\ [Next]_vars => IInv'
<1> SUFFICES ASSUME IInv, [Next]_vars PROVE IInv'
  OBVIOUS
<1>1. CASE \E s \in SourceIds, r \in Records : AddSource(s, r)
  BY <1>1, AddSourceInv
<1>2. CASE \E c \in Categories, d \in Declarations : Declare(c, d)
  BY <1>2, DeclareInv
<1>3. CASE \E c \in Categories, n \in 1..MaxDrop : Drop(c, n)
  BY <1>3, DropInv
<1>4. CASE \E c \in Categories, k \in Keys, s \in SourceIds : RecordFact(c, k, s)
  BY <1>4, RecordFactInv
<1>5. CASE \E c \in Categories, k \in Keys, s \in SourceIds : Alternate(c, k, s)
  BY <1>5, AlternateInv
<1>6. CASE Build
  BY <1>6, BuildInv
<1>7. CASE UNCHANGED vars
  <2>1. TypeOK'
    BY <1>7 DEF vars, IInv, TypeOK
  <2> QED BY <1>7, <2>1, Untouched DEF vars
<1> QED BY <1>1, <1>2, <1>3, <1>4, <1>5, <1>6, <1>7 DEF Next

-----------------------------------------------------------------------------
(* The theorems.                                                           *)

\* IInv is inductive, so it holds throughout.
THEOREM Inductive == Spec => []IInv
BY InitInv, NextInv, PTL DEF Spec

\* Every variable keeps its type, whatever is declared in whatever order.
THEOREM TypeCorrect == Spec => []TypeOK
<1>1. IInv => TypeOK
  BY DEF IInv
<1> QED BY <1>1, Inductive, PTL

\* A licence to read absence as non-existence was earned from everything the
\* readers said, and one declaration both emitted the category and called it
\* complete: LedgerBuilder and CategoryScope never widen it.
THEOREM LicenceIsEarned == Spec => []LicenceEarned
<1>1. IInv => LicenceEarned
  BY DEF IInv
<1> QED BY <1>1, Inductive, PTL

\* What a licensed record cannot be.
LEMMA LicensedIsClean ==
  ASSUME NEW r \in Entry, require_complete(r) = "",
         r.source_kinds \cap TerraformSources = {}
  PROVE  ~Blemished(r)
<1>1. ~(r.dropped > 0)
  BY DEF require_complete
<1>2. r.taint = ""
  BY <1>1 DEF require_complete, Entry
<1> QED BY <1>1, <1>2 DEF Blemished

\* Nor does a category nobody declared show anything.
LEMMA UncapturedIsClean == ~Blemished(UNCAPTURED)
BY DEF Blemished, UNCAPTURED

\* One step never turns a refusal for holes, taint or terraform coverage into
\* a licence.
LEMMA RefusalStep ==
  ASSUME IInv, [Next]_vars, IInv', NEW c \in Categories, Blemished(scope_of(c))
  PROVE  require_complete(scope_of(c)') # ""
<1>1. ledger[c] # NoEntry /\ scope_of(c) = ledger[c]
  BY UncapturedIsClean DEF scope_of
<1>2. TypeOK /\ TypeOK' /\ LedgerLags /\ LedgerLags'
  BY DEF IInv
<1>3. ledger[c] \in Entry
  BY <1>1, <1>2 DEF TypeOK
<1>4. CASE ledger'[c] = ledger[c]
  <2>1. scope_of(c)' = ledger[c]
    BY <1>1, <1>4 DEF scope_of
  <2>2. ASSUME require_complete(ledger[c]) = "" PROVE FALSE
    <3>1. ledger[c].source_kinds \cap TerraformSources = {}
      BY <1>1, <1>2, <2>2 DEF LedgerLags
    <3> QED BY <1>1, <1>3, <2>2, <3>1, LicensedIsClean
  <2> QED BY <2>1, <2>2
<1>5. CASE ledger'[c] # ledger[c]
  <2>1. Build
    BY <1>5 DEF Next, vars, AddSource, Declare, Drop, RecordFact, Alternate
  <2>2. /\ IsDeclared(c) /\ ledger[c].dropped <= entry[c].dropped
        /\ taint_rank[ledger[c].taint] <= taint_rank[entry[c].taint]
        /\ ledger[c].source_kinds \subseteq entry[c].source_kinds
    BY <1>1, <1>2 DEF LedgerLags
  <2>3. BuiltScope(c) \in Entry /\ ledger'[c] = BuiltScope(c)
    BY <1>2, <2>1, <2>2, BuiltScopeNarrows DEF Build
  <2>4. scope_of(c)' = BuiltScope(c)
    BY <2>3, LedgerAssumption DEF scope_of
  <2>5. ASSUME require_complete(BuiltScope(c)) = "" PROVE FALSE
    <3>1. /\ entry[c].taint = "" /\ entry[c].dropped = 0
          /\ entry[c].source_kinds \cap TerraformSources = {}
      BY <1>2, <2>2, <2>5, BuiltScopeNarrows
    <3>2. ~(ledger[c].dropped > 0)
      <4>1. ledger[c].dropped \in Nat
        BY <1>3 DEF Entry
      <4>2. ledger[c].dropped <= 0
        BY <2>2, <3>1, Zenon
      <4> QED BY <4>1, <4>2
    <3>3. ledger[c].taint = ""
      <4>1. ledger[c].taint \in Taints
        BY <1>3 DEF Entry
      <4> QED BY <2>2, <3>1, <4>1, TaintRank
    <3>4. ledger[c].source_kinds \cap TerraformSources = {}
      BY <2>2, <3>1
    <3> QED BY <1>1, <3>2, <3>3, <3>4 DEF Blemished
  <2> QED BY <2>4, <2>5
<1> QED BY <1>4, <1>5

\* A known hole, a taint or a terraform contribution is never forgiven by a
\* later build of the same builder.
THEOREM RefusalsStick == Spec => RefusalSticks
<1>1. IInv /\ [Next]_vars /\ IInv' =>
        [\A c \in Categories :
           Blemished(scope_of(c)) => require_complete(scope_of(c)') # ""]_vars
  BY RefusalStep
<1> QED BY <1>1, Inductive, PTL DEF Spec, RefusalSticks

-----------------------------------------------------------------------------
(* The order of the candidates.                                            *)

\* A nonempty set of naturals has a least element.
LEMMA LeastNatural ==
  ASSUME NEW S \in SUBSET Nat, S # {}
  PROVE  \E m \in S : \A n \in S : m <= n
<1> DEFINE L == OpToRel(<, Nat)
<1>1. IsWellFoundedOn(L, Nat)
  BY NatLessThanWellFounded
<1>2. \A x, y \in Nat : <<x, y>> \in L <=> x < y
  BY DEF OpToRel
<1> HIDE DEF L
<1>3. PICK m \in S : \A n \in S : ~(<<n, m>> \in L)
  BY <1>1, WFMin
<1>4. \A n \in S : m <= n
  <2> TAKE n \in S
  <2>1. ~(n < m)
    BY <1>2, <1>3, m \in Nat, n \in Nat
  <2> QED BY <2>1, m \in Nat, n \in Nat
<1> QED BY <1>4

\* The sources that describe a row are declared, and ranked.
LEMMA CandidateTypes ==
  ASSUME in \in Inputs, NEW i \in Targets, NEW s \in Candidates(in.rows[i])
  PROVE  /\ s \in Nat /\ s \in DOMAIN in.sources
         /\ rank(s) \in 0..6
         /\ in.rows[i].records[s].answer \subseteq Statuses
<1>1. WellFormed(in)
  BY EngineAssumption
<1>2. s \in DOMAIN in.sources /\ s \in Nat /\ in.sources[s].kind \in Sources
  BY <1>1 DEF WellFormed, Targets, Candidates
<1>3. \A k \in Sources : fidelity_rank[k] \in 0..6
  BY DEF fidelity_rank
<1> QED BY <1>1, <1>2, <1>3 DEF WellFormed, Targets, Candidates, rank

\* Whoever is asked next is one of those still to be asked.
LEMMA FirstExists ==
  ASSUME in \in Inputs, NEW i \in Targets,
         NEW S \in SUBSET Candidates(in.rows[i]), S # {}
  PROVE  FirstOf(in.rows[i], S) \in S
<1> DEFINE row  == in.rows[i]
           D    == {6 - rank(s) : s \in S}
<1>1. \A s \in S : s \in Nat /\ rank(s) \in 0..6
  BY CandidateTypes
<1>2. \E top \in S : \A s \in S : rank(s) <= rank(top)
  <2>1. D \in SUBSET Nat /\ D # {}
    BY <1>1
  <2>2. PICK d \in D : \A e \in D : d <= e
    BY <2>1, LeastNatural
  <2>3. PICK top \in S : d = 6 - rank(top)
    BY <2>2
  <2>4. \A s \in S : rank(s) <= rank(top)
    <3> TAKE s \in S
    <3>1. 6 - rank(top) <= 6 - rank(s)
      BY <2>2, <2>3
    <3> QED BY <1>1, <3>1
  <2> QED BY <2>4
<1>3. PICK top \in S : \A s \in S : rank(s) <= rank(top)
  BY <1>2
<1> DEFINE T == {s \in S : rank(s) = rank(top)}
<1>4. \E s \in S : \A t \in S \ {s} : Precedes(row, s, t)
  <2>1. CASE row.winner \in T
    <3>1. \A t \in S \ {row.winner} :
            rank(row.winner) > rank(t) \/ rank(row.winner) = rank(t)
      BY <1>1, <1>3, <2>1
    <3> QED BY <2>1, <3>1 DEF Precedes
  <2>2. CASE row.winner \notin T
    <3>1. T \in SUBSET Nat /\ T # {}
      BY <1>1, <1>3
    <3> HIDE DEF T
    <3>2. PICK m \in T : \A n \in T : m <= n
      BY <3>1, LeastNatural
    <3> USE DEF T
    <3>3. ASSUME NEW t \in S \ {m} PROVE Precedes(row, m, t)
      <4>1. CASE t \in T
        <5>1. m <= t /\ m # t /\ m \in Nat /\ t \in Nat
          BY <1>1, <3>2, <3>3, <4>1
        <5>2. m < t
          BY <5>1
        <5>3. rank(m) = rank(t) /\ t # row.winner
          BY <2>2, <3>2, <4>1
        <5> QED BY <5>2, <5>3 DEF Precedes
      <4>2. CASE t \notin T
        <5>1. rank(m) = rank(top) /\ rank(t) <= rank(top) /\ rank(t) # rank(top)
          BY <1>3, <3>2, <3>3, <4>2
        <5>2. rank(t) \in 0..6 /\ rank(top) \in 0..6
          BY <1>1, <3>3
        <5>3. rank(m) > rank(t)
          BY <5>1, <5>2
        <5> QED BY <5>3 DEF Precedes
      <4> QED BY <4>1, <4>2
    <3> QED BY <3>2, <3>3
  <2> QED BY <2>1, <2>2
<1> QED BY <1>4 DEF FirstOf

-----------------------------------------------------------------------------
(* The types, and what the two loops keep.                                 *)

Stages == {"vocabulary", "proposal-tier", "baseline", "proposal-projection",
           "pair-tier", "carry", "compiled-rules", "drift", "sources",
           "downgrade", "provenance", "done"}

IsVerdict(v) ==
  /\ v = Verdict(v.stage, v.entry, v.source, v.kind, v.status)
  /\ v.status \in Statuses

\* The other sources are asked only about a row that was found, and only the
\* sources that describe it.
LoopInv ==
  IF stage = "sources"
  THEN /\ index \in Targets
       /\ in.rows[index].found = "row"
       /\ pending \subseteq Candidates(in.rows[index])
  ELSE pending = {}

PairResultsOK ==
  /\ DOMAIN pair_results \subseteq Targets
  /\ \A i \in DOMAIN pair_results : pair_results[i] \subseteq Statuses

TypeInv ==
  /\ in \in Inputs
  /\ stage \in Stages
  /\ \A v \in report : IsVerdict(v)
  /\ PairResultsOK
  /\ LoopInv
  /\ derived => in.have_state /\ in.auto_baseline

\* A verdict is a verdict, whatever is put in it.
LEMMA VerdictIs ==
  ASSUME NEW st, NEW i, NEW s, NEW kind, NEW status_ \in Statuses
  PROVE  /\ IsVerdict(Verdict(st, i, s, kind, status_))
         /\ IsVerdict(Unverified(st, i, s, kind))
BY DEF IsVerdict, Verdict, Unverified, Statuses

\* The rewrite answers with one of the four statuses.
LEMMA SoundnessStatus ==
  ASSUME NEW mode, NEW scope, NEW st \in Statuses
  PROVE  soundness(mode, scope, st) \in Statuses
BY DEF soundness, Statuses

LEMMA PairStatuses ==
  ASSUME NEW row, NEW doc, NEW scope, doc.answer \subseteq Statuses
  PROVE  pair_statuses(row, doc, scope) \subseteq Statuses
<1>1. Answer(doc) \subseteq Statuses
  BY DEF Answer, Statuses
<1> QED BY <1>1, SoundnessStatus DEF pair_statuses, apply_baseline_soundness

LEMMA DeriveVerdictsAre ==
  \A v \in DeriveVerdicts : IsVerdict(v)
<1>1. "unverified" \in Statuses
  BY DEF Statuses
<1>2. \A st, i, s, kind : IsVerdict(Unverified(st, i, s, kind))
  BY <1>1, VerdictIs
<1> QED BY <1>2 DEF DeriveVerdicts, StatusVerdicts, StaleVerdicts, key_mismatch_verdicts

\* Adding verdicts leaves verdicts.
LEMMA SayVerdicts ==
  ASSUME TypeInv, NEW V, \A v \in V : IsVerdict(v), Say(V)
  PROVE  \A v \in report' : IsVerdict(v)
BY DEF Say, TypeInv

\* The type invariant says what the run checks.
LEMMA TypeInvTypes == TypeInv => EngineTypeOK
BY DEF TypeInv, EngineTypeOK, IsVerdict, LoopInv, PairResultsOK

LEMMA TypeInit == EngineInit => TypeInv
BY DEF EngineInit, TypeInv, Stages, PairResultsOK, LoopInv

\* The stages before the loops.
LEMMA TypePrologue ==
  ASSUME TypeInv, Vocabulary \/ ProposalTier \/ Baseline \/ Project
  PROVE  TypeInv'
<1> USE DEF TypeInv
<1>1. CASE Vocabulary
  <2>1. \A v \in report' : IsVerdict(v)
    <3>1. \A v \in {Unverified(stage, 0, 0, "no-snapshot")} : IsVerdict(v)
      BY VerdictIs DEF Statuses
    <3> QED BY <1>1, <3>1 DEF Vocabulary, Say
  <2> QED BY <1>1, <2>1 DEF Vocabulary, Goto, Stages, PairResultsOK, LoopInv, Targets
<1>2. CASE ProposalTier
  <2>1. in.claims \subseteq Statuses
    BY EngineAssumption DEF WellFormed
  <2>2. \A v \in report' : IsVerdict(v)
    <3>1. \A v \in {Verdict(stage, 0, 0, "claim", st) : st \in in.claims} : IsVerdict(v)
      BY <2>1, VerdictIs
    <3>2. IsVerdict(Unverified(stage, 0, 0, "unresolved"))
      BY VerdictIs DEF Statuses
    <3> QED BY <1>2, <3>1, <3>2 DEF ProposalTier, Say
  <2> QED BY <1>2, <2>2 DEF ProposalTier, Goto, Stages, PairResultsOK, LoopInv, Targets
<1>3. CASE Baseline
  <2>1. \A v \in report' : IsVerdict(v)
    <3>1. IsVerdict(Unverified(stage, 0, 0, "tier-input"))
      BY VerdictIs DEF Statuses
    <3> QED BY <1>3, <3>1, DeriveVerdictsAre DEF Baseline, Say
  <2> QED BY <1>3, <2>1 DEF Baseline, Goto, Stages, PairResultsOK, LoopInv, Targets
<1>4. CASE Project
  BY <1>4 DEF Project, Goto, Stages, PairResultsOK, LoopInv, Targets
<1> QED BY <1>1, <1>2, <1>3, <1>4

\* The pair tier and the compiled rules.
LEMMA TypePairTier ==
  ASSUME TypeInv, PairEntry \/ PairDone \/ Carry \/ Rule \/ RulesDone
  PROVE  TypeInv'
<1> USE DEF TypeInv
<1>1. CASE PairEntry
  <2> DEFINE row == in.rows[index]
             got == pair_statuses(row, document(row), entry_scope(row))
  <2>1. index \in Targets /\ row.winner \in Candidates(row)
    BY <1>1, EngineAssumption DEF PairEntry, WellFormed, Targets, Candidates
  <2>2. got \subseteq Statuses
    <3>1. document(row).answer \subseteq Statuses
      BY <2>1, CandidateTypes DEF document
    <3> QED BY <3>1, PairStatuses
  <2>3. \A v \in report' : IsVerdict(v)
    <3>1. \A st \in got : IsVerdict(Verdict(stage, index, chosen(row), "pair", st))
      BY <2>2, VerdictIs
    <3> QED BY <1>1, <3>1 DEF PairEntry, Say
  <2> HIDE DEF got
  <2>4. PairResultsOK'
    BY <1>1, <2>1, <2>2 DEF PairEntry, PairResultsOK, Targets, got
  <2> QED BY <1>1, <2>3, <2>4 DEF PairEntry, Stages, LoopInv
<1>2. CASE PairDone
  BY <1>2 DEF PairDone, Goto, Stages, PairResultsOK, LoopInv, Targets
<1>3. CASE Carry
  <2>1. \A v \in report' : IsVerdict(v)
    <3>1. IsVerdict(Unverified(stage, 0, 0, "compiler"))
      BY VerdictIs DEF Statuses
    <3> QED BY <1>3, <3>1 DEF Carry, Say
  <2> QED BY <1>3, <2>1 DEF Carry, Goto, Stages, PairResultsOK, LoopInv, Targets
<1>4. CASE Rule
  <2>1. rule_status(in.rules[index]) \in Statuses
    <3>1. in.rules[index].answer \in Statuses
      BY <1>4, EngineAssumption DEF Rule, WellFormed
    <3> QED BY <3>1, SoundnessStatus DEF rule_status, Statuses
  <2>2. \A v \in report' : IsVerdict(v)
    <3>1. IsVerdict(Verdict(stage, 0, 0, "rule", rule_status(in.rules[index])))
      BY <2>1, VerdictIs
    <3> QED BY <1>4, <3>1 DEF Rule, Say
  <2> QED BY <1>4, <2>2 DEF Rule, Stages, PairResultsOK, LoopInv, Targets
<1>5. CASE RulesDone
  BY <1>5 DEF RulesDone, Goto, Stages, PairResultsOK, LoopInv, Targets
<1> QED BY <1>1, <1>2, <1>3, <1>4, <1>5

\* The drift stage and the sources it asks.
LEMMA TypeDrift ==
  ASSUME TypeInv, Undisputed \/ Disputed \/ AskSource \/ AllAsked \/ DriftDone
  PROVE  TypeInv'
<1> USE DEF TypeInv
<1>1. CASE Undisputed
  BY <1>1 DEF Undisputed, Stages, PairResultsOK, LoopInv, Targets
<1>2. CASE Disputed
  <2> DEFINE row == in.rows[index]
  <2>1. \A v \in report' : IsVerdict(v)
    <3>1. IsVerdict(Verdict(stage, index, 0, "material",
                            IF in.block THEN "contradicted" ELSE "unverified"))
      BY VerdictIs DEF Statuses
    <3> QED BY <1>2, <3>1 DEF Disputed, Say
  <2>2. LoopInv'
    <3>1. /\ in' = in /\ index \in Targets
          /\ pending' = ToAsk(row, Reported(index))
          /\ IF comparable(row) THEN stage' = "sources" /\ index' = index
             ELSE stage' = "drift"
      BY <1>2 DEF Disputed, Entries
    <3>2. CASE comparable(row)
      BY <3>1, <3>2 DEF LoopInv, ToAsk, others, comparable, Targets
    <3>3. CASE ~comparable(row)
      BY <3>1, <3>3 DEF LoopInv, ToAsk
    <3> QED BY <3>2, <3>3
  <2>3. stage' \in Stages
    BY <1>2 DEF Disputed, Stages
  <2> QED BY <1>2, <2>1, <2>2, <2>3 DEF Disputed, PairResultsOK, Targets
<1>3. CASE AskSource
  <2> DEFINE row == in.rows[index]
             s   == FirstOf(row, pending)
             doc == row.records[s]
             got == IF doc.form THEN pair_statuses(row, doc, source_scope(row, s))
                    ELSE {"unverified"}
  <2>1. /\ index \in Targets /\ pending # {}
        /\ pending \in SUBSET Candidates(row)
    BY <1>3 DEF AskSource, LoopInv
  <2>2. s \in Candidates(row)
    BY <2>1, FirstExists
  <2>3. doc.answer \subseteq Statuses
    BY <2>1, <2>2, CandidateTypes
  <2>4. got \subseteq Statuses
    BY <2>3, PairStatuses DEF Statuses
  <2>5. \A v \in report' : IsVerdict(v)
    <3>1. \A kind : \A st \in got : IsVerdict(Verdict("drift", index, s, kind, st))
      BY <2>4, VerdictIs
    <3> HIDE DEF got, doc, s
    <3>2. report' = report \cup
            {Verdict("drift", index, s, IF doc.form THEN "pair" ELSE "formless", st) : st \in got}
      BY <1>3 DEF AskSource, Say, got, doc, s
    <3> QED BY <3>1, <3>2
  <2>6. pending' \subseteq pending /\ UNCHANGED <<in, stage, derived, index, pair_results>>
    BY <1>3 DEF AskSource
  <2> HIDE DEF got, doc, s
  <2>7. stage = "sources"
    BY <1>3 DEF AskSource
  <2>8. PairResultsOK'
    BY <2>6 DEF PairResultsOK, Targets
  <2>9. LoopInv'
    BY <2>6, <2>7 DEF LoopInv, Targets
  <2> QED BY <2>5, <2>6, <2>8, <2>9
<1>4. CASE AllAsked
  <2>1. \A v \in report' : IsVerdict(v)
    <3>1. IsVerdict(Unverified("drift", index, 0, "two-answers"))
      BY VerdictIs DEF Statuses
    <3> QED BY <1>4, <3>1 DEF AllAsked, Say
  <2> QED BY <1>4, <2>1 DEF AllAsked, Stages, PairResultsOK, LoopInv, Targets
<1>5. CASE DriftDone
  BY <1>5 DEF DriftDone, Goto, Stages, PairResultsOK, LoopInv, Targets
<1> QED BY <1>1, <1>2, <1>3, <1>4, <1>5

\* Where the evaluation goes on after a stage that raised.
LEMMA AfterStage ==
  ASSUME stage \in Stages \ {"vocabulary", "carry", "downgrade", "done"}
  PROVE  /\ After(stage) \in Stages \ {"sources", "provenance", "vocabulary"}
         /\ After(stage) = "done" => stage = "provenance"
BY DEF After, Stages

\* The last stages, and the stages that raise.
LEMMA TypeEpilogue ==
  ASSUME TypeInv, Downgrade \/ Provenance_rows \/ StageRaises \/ EvaluationRaises
  PROVE  TypeInv'
<1> USE DEF TypeInv
<1>1. CASE Downgrade
  <2>1. \A v \in report' : IsVerdict(v)
    <3>1. ASSUME NEW v \in report PROVE IsVerdict(Downgraded(v))
      BY <3>1 DEF Downgraded, IsVerdict, Verdict, Statuses
    <3> QED BY <1>1, <3>1 DEF Downgrade
  <2> QED BY <1>1, <2>1 DEF Downgrade, Goto, Stages, PairResultsOK, LoopInv, Targets
<1>2. CASE Provenance_rows
  BY <1>2 DEF Provenance_rows, Goto, Stages, PairResultsOK, LoopInv, Targets
<1>3. CASE StageRaises
  <2>1. \A v \in report' : IsVerdict(v)
    <3>1. \A st : IsVerdict(Crashed(st))
      BY VerdictIs DEF Crashed, Statuses
    <3> QED BY <1>3, <3>1 DEF StageRaises, Remaining
  <2>2. stage' \in Stages /\ stage' # "sources" /\ pending' = {}
    BY <1>3, AfterStage DEF StageRaises, Goto
  <2>3. PairResultsOK'
    BY <1>3 DEF StageRaises, PairResultsOK, Targets
  <2> QED BY <1>3, <2>1, <2>2, <2>3 DEF StageRaises, LoopInv
<1>4. CASE EvaluationRaises
  <2>1. \A v \in report' : IsVerdict(v)
    <3>1. \A st : IsVerdict(Crashed(st))
      BY VerdictIs DEF Crashed, Statuses
    <3> QED BY <1>4, <3>1 DEF EvaluationRaises, Say
  <2> QED BY <1>4, <2>1 DEF EvaluationRaises, Goto, Stages, PairResultsOK, LoopInv, Targets
<1> QED BY <1>1, <1>2, <1>3, <1>4

LEMMA TypeStep == TypeInv /\ [EngineNext]_engineVars => TypeInv'
<1>1. ASSUME TypeInv, EngineNext PROVE TypeInv'
  BY <1>1, TypePrologue, TypePairTier, TypeDrift, TypeEpilogue DEF EngineNext
<1>2. ASSUME TypeInv, UNCHANGED engineVars PROVE TypeInv'
  BY <1>2 DEF engineVars, TypeInv, PairResultsOK, LoopInv, Targets
<1> QED BY <1>1, <1>2

\* Every verdict of an evaluation has one of the four statuses, whatever is
\* asked and whichever stages raise: none is invisible to ok and counts.
THEOREM EngineTypeCorrect == EngineSpec => []EngineTypeOK
<1>1. EngineSpec => []TypeInv
  BY TypeInit, TypeStep, PTL DEF EngineSpec
<1> QED BY <1>1, TypeInvTypes, PTL

-----------------------------------------------------------------------------
(* Findings stick.                                                         *)

\* No step takes a verdict out of the report, but for a clean one that the
\* unresolved document no longer earns.
LEMMA ReportGrows ==
  ASSUME [EngineNext]_engineVars
  PROVE  \A v \in report : Persists(v)
<1>1. CASE report \subseteq report'
  BY <1>1 DEF Persists
<1>2. CASE Downgrade
  <2> SUFFICES ASSUME NEW v \in report PROVE Persists(v)
    OBVIOUS
  <2>1. Downgraded(v) \in report'
    BY <1>2 DEF Downgrade
  <2> QED BY <2>1 DEF Persists, Downgraded
<1>3. EngineNext => report \subseteq report' \/ Downgrade
  BY DEF EngineNext, Vocabulary, ProposalTier, Baseline, Project, PairEntry, PairDone,
         Carry, Rule, RulesDone, Undisputed, Disputed, AskSource, AllAsked, DriftDone,
         Provenance_rows, StageRaises, EvaluationRaises, Say, Remaining
<1> QED BY <1>1, <1>2, <1>3 DEF engineVars

\* A finding in the report is never taken back, by a later stage or by one
\* that raises, for every input.
THEOREM EngineFindingsStick == EngineSpec => FindingsStick
<1>1. [EngineNext]_engineVars => [\A v \in report : Persists(v)]_engineVars
  BY ReportGrows
<1> QED BY <1>1, PTL DEF EngineSpec, FindingsStick

-----------------------------------------------------------------------------
(* What a pair check is entitled to say.                                   *)

\* One verdict of the pair check, at either stage.
Earned(v) ==
  v.kind = "pair" =>
    /\ v.status = "contradicted" /\ in.rows[v.entry].mode = "requires_complete" => Vouched(v)
    /\ v.status = "grounded" /\ in.rows[v.entry].mode = "subset_safe" => Vouched(v)

\* Nothing is clean once the unresolved document has been taken into account.
NothingClean ==
  stage \in {"provenance", "done"} /\ in.unresolved =>
    \A v \in report : v.status # "grounded"

EarnedInv ==
  /\ TypeInv
  /\ \A v \in report : Earned(v)
  /\ NothingClean
  /\ stage = "vocabulary" => report = {}

\* What a verdict had to earn depends on the input alone.
LEMMA SameInput ==
  ASSUME in' = in
  PROVE  \A v : Earned(v)' <=> Earned(v)
<1>1. \A row : coverage_of(row)' = coverage_of(row)
  BY DEF coverage_of, demote_stale
<1>2. \A row, s : SawEverything(row, s)' <=> SawEverything(row, s)
  BY <1>1 DEF SawEverything
<1>3. \A v : Speaker(v)' = Speaker(v)
  BY DEF Speaker
<1>4. \A row : TurnedRound(row)' <=> TurnedRound(row)
  BY DEF TurnedRound, chosen, FirstOf, Precedes, rank, Candidates
<1>5. ASSUME NEW v PROVE Vouched(v)' <=> Vouched(v)
  <2>1. in.rows[v.entry]' = in.rows[v.entry]
    OBVIOUS
  <2> QED BY <1>2, <1>3, <1>4, <2>1 DEF Vouched
<1> QED BY <1>5 DEF Earned

\* An answer the rewrite let stand was given over a complete scope.
LEMMA StandingAnswer ==
  ASSUME NEW row, NEW doc, NEW scope, NEW st \in pair_statuses(row, doc, scope),
         \/ st = "contradicted" /\ row.mode = "requires_complete"
         \/ st = "grounded" /\ row.mode = "subset_safe"
  PROVE  scope = "complete"
<1>1. PICK a \in Answer(doc) : st = soundness(row.mode, scope, a)
  BY DEF pair_statuses, apply_baseline_soundness
<1> QED BY <1>1 DEF soundness

\* The source an entry names describes it, and is declared.
LEMMA NamedSource ==
  ASSUME TypeInv, NEW i \in Targets
  PROVE  /\ chosen(in.rows[i]) \in Candidates(in.rows[i])
         /\ chosen(in.rows[i]) \in DOMAIN in.sources
<1>1. in.rows[i].winner \in Candidates(in.rows[i])
  BY EngineAssumption DEF TypeInv, WellFormed, Targets, Candidates
<1>2. chosen(in.rows[i]) \in Candidates(in.rows[i])
  BY <1>1, FirstExists DEF TypeInv, chosen
<1> QED BY <1>2, CandidateTypes DEF TypeInv

\* The scope an entry is graded by is complete only on the word of the merged
\* category or of the source the entry names.
LEMMA EntryScope ==
  ASSUME TypeInv, NEW i \in Targets, entry_scope(in.rows[i]) = "complete",
         chosen(in.rows[i]) \in DOMAIN in.sources
  PROVE  \/ coverage_of(in.rows[i]).scope = "complete"
         \/ in.sources[chosen(in.rows[i])].scope = "complete"
<1> DEFINE c == coverage_of(in.rows[i])
           r == in.sources[chosen(in.rows[i])]
<1>1. WellFormed(in)
  BY EngineAssumption DEF TypeInv
<1>2. r.scope \in Scopes
  BY <1>1 DEF WellFormed
<1>3. c.scope \in Scopes
  <2>1. in.tables[in.rows[i].table].category \in Category
    BY <1>1 DEF WellFormed, Targets
  <2> QED BY <2>1 DEF coverage_of, demote_stale, Category, Scopes
<1> HIDE DEF c, r
<1>4. MaxScope({c.scope, r.scope}) \in {c.scope, r.scope}
  <2>1. {c.scope, r.scope} \in SUBSET Scopes /\ {c.scope, r.scope} # {}
    BY <1>2, <1>3
  <2> QED BY <2>1, MaxScopeExists
<1>5. c.scope = "complete" \/ r.scope = "complete"
  BY <1>4 DEF entry_scope, c, r
<1> QED BY <1>5 DEF c, r

\* The answers about an entry's own document.
LEMMA PairEntryEarned ==
  ASSUME TypeInv, PairEntry, NEW v \in report' \ report
  PROVE  Earned(v)
<1> DEFINE row == in.rows[index]
           got == pair_statuses(row, document(row), entry_scope(row))
<1>1. PICK st \in got : v = Verdict("pair-tier", index, chosen(row), "pair", st)
  BY DEF PairEntry, Say
<1>2. index \in Targets
  BY DEF PairEntry
<1>3. chosen(row) \in DOMAIN in.sources
  BY <1>2, NamedSource
<1>4. Speaker(v) = row.winner
  BY <1>1 DEF Speaker, Verdict
<1>5. v.stage = "pair-tier" /\ v.source = chosen(row) /\ v.entry = index /\ v.status = st
  BY <1>1 DEF Verdict
<1>6. ASSUME entry_scope(row) = "complete"
      PROVE  Vouched(v)
  <2>1. \/ coverage_of(row).scope = "complete"
        \/ in.sources[chosen(row)].scope = "complete"
    BY <1>2, <1>3, <1>6, EntryScope
  <2>2. CASE coverage_of(row).scope = "complete"
    <3>1. SawEverything(row, Speaker(v))
      BY <1>4, <2>2 DEF SawEverything
    <3> QED BY <1>5, <3>1 DEF Vouched
  <2>3. CASE in.sources[chosen(row)].scope = "complete"
    <3>1. SawEverything(row, v.source)
      BY <1>5, <2>3 DEF SawEverything
    <3>2. TurnedRound(row) \/ Speaker(v) = v.source
      BY <1>4, <1>5 DEF TurnedRound
    <3> QED BY <1>5, <3>1, <3>2 DEF Vouched
  <2> QED BY <2>1, <2>2, <2>3
<1>7. ASSUME \/ st = "contradicted" /\ row.mode = "requires_complete"
             \/ st = "grounded" /\ row.mode = "subset_safe"
      PROVE  entry_scope(row) = "complete"
  BY <1>7, StandingAnswer
<1> HIDE DEF row, got
<1> QED BY <1>5, <1>6, <1>7 DEF Earned, row

\* The answers about another source's document.
LEMMA AskSourceEarned ==
  ASSUME AskSource, NEW v \in report' \ report
  PROVE  Earned(v)
<1> DEFINE row == in.rows[index]
           s   == FirstOf(row, pending)
           doc == row.records[s]
           got == pair_statuses(row, doc, source_scope(row, s))
<1>1. CASE doc.form
  <2>1. PICK st \in got : v = Verdict("drift", index, s, "pair", st)
    BY <1>1 DEF AskSource, Say
  <2>2. Speaker(v) = s
    BY <2>1 DEF Speaker, Verdict
  <2>3. ASSUME \/ st = "contradicted" /\ row.mode = "requires_complete"
               \/ st = "grounded" /\ row.mode = "subset_safe"
        PROVE  source_scope(row, s) = "complete"
    BY <2>3, StandingAnswer
  <2> HIDE DEF row, s, doc, got
  <2>4. v.entry = index /\ v.status = st
    BY <2>1 DEF Verdict
  <2> QED BY <2>2, <2>3, <2>4 DEF Earned, Vouched, SawEverything, source_scope, row
<1>2. CASE ~doc.form
  <2>1. v.kind = "formless"
    BY <1>2 DEF AskSource, Say, Verdict
  <2> QED BY <2>1 DEF Earned
<1> QED BY <1>1, <1>2

\* Nobody else speaks for the pair check.
LEMMA OthersEarned ==
  ASSUME EngineNext, ~PairEntry, ~AskSource, ~Downgrade, NEW v \in report' \ report
  PROVE  Earned(v)
<1>1. v.kind # "pair" \/ v.status = "unverified"
  BY DEF EngineNext, Vocabulary, ProposalTier, Baseline, Project, PairDone, Carry, Rule,
         RulesDone, Undisputed, Disputed, AllAsked, DriftDone, Provenance_rows, StageRaises,
         EvaluationRaises, Say, Remaining, Crashed, Verdict, Unverified,
         DeriveVerdicts, StatusVerdicts, StaleVerdicts, key_mismatch_verdicts
<1> QED BY <1>1 DEF Earned

\* Taking back a clean answer leaves an earned one.
LEMMA DowngradedEarned ==
  ASSUME NEW v, IsVerdict(v), Earned(v)
  PROVE  Earned(Downgraded(v))
<1>1. CASE Downgraded(v) = v
  BY <1>1
<1>2. CASE Downgraded(v) = [v EXCEPT !.status = "unverified"]
  <2>1. Downgraded(v).status = "unverified"
    BY <1>2 DEF IsVerdict, Verdict
  <2> QED BY <2>1 DEF Earned
<1> QED BY <1>1, <1>2 DEF Downgraded

LEMMA EarnedStep == EarnedInv /\ [EngineNext]_engineVars => EarnedInv'
<1>1. ASSUME EarnedInv, EngineNext PROVE EarnedInv'
  <2> USE <1>1 DEF EarnedInv
  <2>1. TypeInv'
    BY TypeStep
  <2>2. in' = in
    BY DEF EngineNext, Vocabulary, ProposalTier, Baseline, Project, PairEntry, PairDone,
           Carry, Rule, RulesDone, Undisputed, Disputed, AskSource, AllAsked, DriftDone,
           Downgrade, Provenance_rows, StageRaises, EvaluationRaises
  <2>3. \A v \in report' : Earned(v)
    <3> SUFFICES ASSUME NEW v \in report' PROVE Earned(v)
      OBVIOUS
    <3>1. CASE Downgrade
      <4>1. PICK w \in report : v = Downgraded(w)
        BY <3>1 DEF Downgrade
      <4> QED BY <4>1, DowngradedEarned DEF TypeInv
    <3>2. CASE ~Downgrade
      BY <3>2, PairEntryEarned, AskSourceEarned, OthersEarned
    <3> QED BY <3>1, <3>2
  <2>4. NothingClean'
    <3>1. CASE Downgrade
      <4> SUFFICES ASSUME NEW w \in report, in.unresolved
                   PROVE  Downgraded(w).status # "grounded"
        BY <2>2, <3>1 DEF NothingClean, Downgrade
      <4> QED BY DEF TypeInv, IsVerdict, Verdict, Downgraded
    <3>2. CASE Provenance_rows
      BY <3>2 DEF NothingClean, Provenance_rows, Goto
    <3>3. CASE StageRaises
      <4>1. CASE stage = "provenance"
        BY <3>3, <4>1 DEF NothingClean, StageRaises, Remaining, Crashed, Unverified, Verdict
      <4>2. CASE stage # "provenance"
        <5>1. stage' \notin {"provenance", "done"}
          BY <3>3, <4>2, AfterStage DEF StageRaises, Goto, TypeInv
        <5> QED BY <5>1 DEF NothingClean
      <4> QED BY <4>1, <4>2
    <3>4. CASE EvaluationRaises
      BY <3>4 DEF NothingClean, EvaluationRaises, Say, Crashed, Unverified, Verdict
    <3>5. CASE ~(Downgrade \/ Provenance_rows \/ StageRaises \/ EvaluationRaises)
      <4>1. stage' \notin {"provenance", "done"}
        BY <3>5 DEF EngineNext, Vocabulary, ProposalTier, Baseline, Project, PairEntry,
             PairDone, Carry, Rule, RulesDone, Undisputed, Disputed, AskSource, AllAsked,
             DriftDone, Goto
      <4> QED BY <4>1 DEF NothingClean
    <3> QED BY <3>1, <3>2, <3>3, <3>4, <3>5
  <2>5. stage' # "vocabulary"
    BY AfterStage DEF EngineNext, Vocabulary, ProposalTier, Baseline, Project, PairEntry,
         PairDone, Carry, Rule, RulesDone, Undisputed, Disputed, AskSource, AllAsked,
         DriftDone, Downgrade, Provenance_rows, StageRaises, EvaluationRaises, Goto, TypeInv
  <2> QED BY <2>1, <2>2, <2>3, <2>4, <2>5, SameInput DEF EarnedInv
<1>2. ASSUME EarnedInv, UNCHANGED engineVars PROVE EarnedInv'
  <2>1. TypeInv' /\ in' = in /\ report' = report /\ stage' = stage
    BY <1>2, TypeStep DEF EarnedInv, engineVars
  <2> QED BY <1>2, <2>1, SameInput DEF EarnedInv, NothingClean
<1> QED BY <1>1, <1>2

LEMMA EarnedInit == EngineInit => EarnedInv
BY TypeInit DEF EngineInit, EarnedInv, NothingClean

LEMMA EarnedInductive == EngineSpec => []EarnedInv
<1>1. EngineInit => EarnedInv
  BY EarnedInit
<1>2. EarnedInv /\ [EngineNext]_engineVars => EarnedInv'
  BY EarnedStep
<1> QED BY <1>1, <1>2, PTL DEF EngineSpec

\* Whichever source won a row and whatever the policies of precedence, no check
\* that reasons from what a baseline lacks blocks at either stage unless the
\* source whose record was compared saw everything or, where a policy gave the
\* row to a source other than the one the entry names, that named one did.
THEOREM BlocksAreEarned == EngineSpec => []NoPhantomBlock
<1>1. EarnedInv => NoPhantomBlock
  BY DEF EarnedInv, Earned, NoPhantomBlock, PairVerdicts
<1> QED BY <1>1, EarnedInductive, PTL

\* With the same reservation no witness search passes over a subset, and once a
\* document with unresolved attributes is judged nothing about it is clean.
THEOREM PassesAreEarned == EngineSpec => []NoUnearnedPass
<1>1. EarnedInv => NoUnearnedPass
  BY DEF EarnedInv, Earned, NothingClean, NoUnearnedPass, PairVerdicts
<1> QED BY <1>1, EarnedInductive, PTL

-----------------------------------------------------------------------------
(* Everyone entitled to be heard is heard.                                 *)

Ran(st) == derived /\ projected /\ in.pair_tier /\ ~crashed(st)

\* The entries a stage is through with.
PairTierPast(i) ==
  \/ stage = "pair-tier" /\ i < index
  \/ stage \in {"carry", "compiled-rules", "drift", "sources", "downgrade",
                "provenance", "done"}
DriftPast(i) ==
  \/ stage \in {"drift", "sources"} /\ i < index
  \/ stage \in {"downgrade", "provenance", "done"}

\* A winner that the entry names is heard where its own record is compared.
WinnersHeard ==
  Ran("pair-tier") => \A i \in Entries :
    /\ PairTierPast(i) /\ comparable(in.rows[i]) /\ ~TurnedRound(in.rows[i])
    /\ Due(i, in.rows[i].winner)
    => Heard(i, in.rows[i].winner)

Asked(i, s) ==
  \/ DriftPast(i)
  \/ stage = "sources" /\ i = index /\ s \notin pending

OthersHeard ==
  Ran("drift") => \A i \in Entries : \A s \in others(in.rows[i]) :
    Contested(i) /\ Due(i, s) /\ Asked(i, s) => Heard(i, s)

\* Before the baseline stage ends nothing has been derived.
Derivation ==
  /\ derived => stage \notin {"vocabulary", "proposal-tier", "baseline"}
  /\ index \in Nat \ {0}
  /\ \A i \in Targets : stage = "sources" /\ i = index =>
       Contested(i) /\ pending \subseteq others(in.rows[i])

HeardInv == TypeInv /\ WinnersHeard /\ OthersHeard /\ Derivation

\* The status of a row that was found is the first of its flags.
FirstFlag(F) ==
  IF F = {} THEN "resolved"
  ELSE FLAG_ORDER[CHOOSE n \in DOMAIN FLAG_ORDER :
                    /\ FLAG_ORDER[n] \in F
                    /\ \A m \in 1..(n - 1) : FLAG_ORDER[m] \notin F]

\* What is due, and of whom, depends on the input alone.
LEMMA DueStands ==
  ASSUME in' = in
  PROVE  /\ \A i, s : Due(i, s)' <=> Due(i, s)
         /\ \A i : Contested(i)' <=> Contested(i)
         /\ \A i : comparable(in.rows[i])' <=> comparable(in.rows[i])
         /\ \A i : others(in.rows[i])' = others(in.rows[i])
         /\ \A i : TurnedRound(in.rows[i])' <=> TurnedRound(in.rows[i])
         /\ Targets' = Targets /\ Entries' = Entries
<1>1. \A row : coverage_of(row)' = coverage_of(row)
  BY DEF coverage_of, demote_stale
<1>2. \A row : taint_of(row)' = taint_of(row)
  BY <1>1 DEF taint_of
<1>3. \A row : flags(row)' = flags(row)
  BY <1>2 DEF flags, conflicted, document
<1>4. ASSUME NEW row PROVE RowStatus(row)' = RowStatus(row)
  <2>1. RowStatus(row) = FirstFlag(flags(row)) /\ RowStatus(row)' = FirstFlag(flags(row)')
    BY Zenon DEF RowStatus, FirstFlag
  <2>2. flags(row)' = flags(row)
    BY <1>3
  <2> QED BY <2>1, <2>2
<1>5. \A row : MissStatus(row)' = MissStatus(row)
  BY <1>1 DEF MissStatus, covered
<1>6. \A row : status(row)' = status(row)
  BY <1>4, <1>5 DEF status
<1>7. \A i : others(in.rows[i])' = others(in.rows[i])
  BY DEF others, chosen, FirstOf, Precedes, rank, Candidates
<1>8. \A i : comparable(in.rows[i])' <=> comparable(in.rows[i])
  BY DEF comparable, document
<1>9. \A i : status(in.rows[i])' = status(in.rows[i])
  BY <1>6
<1>10. \A i : coverage_of(in.rows[i])' = coverage_of(in.rows[i])
  BY <1>1
<1>11. \A i, s : Due(i, s)' <=> Due(i, s)
  <2>1. \A i : chosen(in.rows[i])' = chosen(in.rows[i])
    BY DEF chosen, FirstOf, Precedes, rank, Candidates
  <2> QED BY <1>10, <2>1 DEF Due
<1>12. \A i : Contested(i)' <=> Contested(i)
  BY <1>8, <1>9 DEF Contested
<1>13. \A i : TurnedRound(in.rows[i])' <=> TurnedRound(in.rows[i])
  BY DEF TurnedRound, chosen, FirstOf, Precedes, rank, Candidates
<1>14. Entries' = Entries
  <2>1. \A i : changes_the_row(in.rows[i])' = changes_the_row(in.rows[i])
    BY <1>9 DEF changes_the_row
  <2>2. \A i : scoped(in.rows[i])' <=> scoped(in.rows[i])
    BY <2>1 DEF scoped
  <2> QED BY <2>2 DEF Entries, Targets
<1> QED BY <1>7, <1>8, <1>11, <1>12, <1>13, <1>14 DEF Targets

\* Who has been heard stays heard, and a stage that crashed has crashed.
LEMMA HeardStands ==
  ASSUME [EngineNext]_engineVars, in' = in
  PROVE  /\ \A i, s : Heard(i, s) => Heard(i, s)'
         /\ \A st : crashed(st) => crashed(st)'
<1>1. ASSUME NEW i, NEW s, Heard(i, s)  PROVE Heard(i, s)'
  <2>1. PICK v \in PairVerdicts : v.entry = i /\ Speaker(v) = s /\ v.status = "contradicted"
    BY <1>1 DEF Heard
  <2>2. v \in report /\ v.kind = "pair"
    BY DEF PairVerdicts
  <2>3. v \in report'
    BY <2>1, <2>2, ReportGrows DEF Persists
  <2>4. Speaker(v)' = Speaker(v)
    BY DEF Speaker
  <2>5. v \in PairVerdicts'
    BY <2>2, <2>3 DEF PairVerdicts
  <2> QED BY <2>1, <2>4, <2>5 DEF Heard
<1>2. ASSUME NEW st, crashed(st)  PROVE crashed(st)'
  <2>1. Crashed(st) \in report /\ Crashed(st).status = "unverified"
    BY <1>2 DEF crashed, Crashed, Unverified, Verdict
  <2>2. Crashed(st) \in report'
    BY <2>1, ReportGrows DEF Persists
  <2> QED BY <2>2 DEF crashed
<1> QED BY <1>1, <1>2

\* An input never changes.
LEMMA InputStands == [EngineNext]_engineVars => in' = in
BY DEF EngineNext, Vocabulary, ProposalTier, Baseline, Project, PairEntry, PairDone,
       Carry, Rule, RulesDone, Undisputed, Disputed, AskSource, AllAsked, DriftDone,
       Downgrade, Provenance_rows, StageRaises, EvaluationRaises, engineVars

\* A contradiction over a complete scope is left to stand.
LEMMA CompleteStands ==
  ASSUME NEW row, NEW doc, "contradicted" \in doc.answer, projected
  PROVE  "contradicted" \in pair_statuses(row, doc, "complete")
<1>1. "contradicted" \in Answer(doc)
  BY DEF Answer
<1>2. soundness(row.mode, "complete", "contradicted") = "contradicted"
  BY DEF soundness
<1> QED BY <1>1, <1>2 DEF pair_statuses, apply_baseline_soundness

\* No scope is stronger than complete.
LEMMA CompleteIsMost ==
  ASSUME NEW a \in Scopes
  PROVE  MaxScope({a, "complete"}) = "complete"
<1>1. {a, "complete"} \in SUBSET Scopes /\ {a, "complete"} # {}
  BY DEF Scopes
<1>2. /\ MaxScope({a, "complete"}) \in {a, "complete"}
      /\ scope_rank["complete"] <= scope_rank[MaxScope({a, "complete"})]
  BY <1>1, MaxScopeExists
<1> QED BY <1>1, <1>2, ScopeRank DEF Scopes

\* The entry's own document is graded by its source's word.
LEMMA OwnScope ==
  ASSUME TypeInv, NEW i \in Targets, Due(i, chosen(in.rows[i])),
         chosen(in.rows[i]) \in DOMAIN in.sources
  PROVE  entry_scope(in.rows[i]) = "complete"
<1> DEFINE c == coverage_of(in.rows[i])
           r == in.sources[chosen(in.rows[i])]
<1>1. WellFormed(in)
  BY EngineAssumption DEF TypeInv
<1>2. c.boundary = r.boundary /\ r.scope = "complete"
  BY DEF Due
<1>3. c.scope \in Scopes
  <2>1. in.tables[in.rows[i].table].category \in Category
    BY <1>1 DEF WellFormed, Targets
  <2> QED BY <2>1 DEF coverage_of, demote_stale, Category, Scopes
<1> HIDE DEF c, r
<1>4. MaxScope({c.scope, r.scope}) = "complete"
  BY <1>2, <1>3, CompleteIsMost
<1> QED BY <1>2, <1>4 DEF entry_scope, c, r

\* The targets are counted from one, so a loop whose index is none of them has
\* been through all of them.
LEMMA TargetsCount ==
  ASSUME TypeInv
  PROVE  /\ \A i \in Targets : i \in Nat /\ 1 <= i
         /\ \A n \in Nat \ {0} : n \notin Targets => \A i \in Targets : i < n
<1>1. in.rows \in Seq({in.rows[n] : n \in DOMAIN in.rows})
  BY EngineAssumption DEF TypeInv, WellFormed
<1>2. Targets = 1..Len(in.rows) /\ Len(in.rows) \in Nat
  BY <1>1 DEF Targets
<1> HIDE DEF Targets
<1> QED BY <1>2

\* What a stage produced stays produced, and nothing unsays that it crashed.
LEMMA RanStands ==
  ASSUME [EngineNext]_engineVars, in' = in, NEW st, Ran(st)'
  PROVE  /\ ~crashed(st) /\ in.pair_tier
         /\ derived \/ Baseline
         /\ projected \/ Project
<1>1. ~crashed(st)
  BY HeardStands DEF Ran
<1>2. derived' = derived \/ Baseline
  BY DEF EngineNext, Vocabulary, ProposalTier, Project, PairEntry, PairDone, Carry, Rule,
         RulesDone, Undisputed, Disputed, AskSource, AllAsked, DriftDone, Downgrade,
         Provenance_rows, StageRaises, EvaluationRaises, engineVars
<1>3. projected' = projected \/ Project
  BY DEF EngineNext, Vocabulary, ProposalTier, Baseline, PairEntry, PairDone, Carry, Rule,
         RulesDone, Undisputed, Disputed, AskSource, AllAsked, DriftDone, Downgrade,
         Provenance_rows, StageRaises, EvaluationRaises, engineVars
<1> QED BY <1>1, <1>2, <1>3 DEF Ran

LEMMA DerivationStep ==
  ASSUME HeardInv, [EngineNext]_engineVars
  PROVE  Derivation'
<1> USE DEF HeardInv
<1>1. in' = in
  BY InputStands
<1>2. /\ \A i : Contested(i)' <=> Contested(i)
      /\ \A i : others(in.rows[i])' = others(in.rows[i])
      /\ Targets' = Targets
  BY <1>1, DueStands
<1>3. (derived => stage \notin {"vocabulary", "proposal-tier", "baseline"})'
  <2>1. CASE StageRaises
    <3>1. stage' = After(stage) /\ derived' = derived
      BY <2>1 DEF StageRaises, Goto
    <3>2. stage # "proposal-tier" => After(stage) \notin {"vocabulary", "proposal-tier", "baseline"}
      BY <2>1 DEF After, TypeInv, Stages, StageRaises
    <3> QED BY <3>1, <3>2 DEF Derivation
  <2>2. CASE ~StageRaises
    BY <2>2 DEF Derivation, EngineNext, Vocabulary, ProposalTier, Baseline, Project,
         PairEntry, PairDone, Carry, Rule, RulesDone, Undisputed, Disputed, AskSource,
         AllAsked, DriftDone, Downgrade, Provenance_rows, EvaluationRaises, Goto, engineVars
  <2> QED BY <2>1, <2>2
<1>4. index' \in Nat \ {0}
  <2>1. index' \in {1, index, index + 1}
    BY DEF EngineNext, Vocabulary, ProposalTier, Baseline, Project, PairEntry, PairDone,
           Carry, Rule, RulesDone, Undisputed, Disputed, AskSource, AllAsked, DriftDone,
           Downgrade, Provenance_rows, StageRaises, EvaluationRaises, Goto, engineVars
  <2>2. index \in Nat \ {0}
    BY DEF Derivation
  <2> QED BY <2>1, <2>2
<1>5. ASSUME NEW i \in Targets, stage' = "sources", i = index'
      PROVE  Contested(i)' /\ pending' \subseteq others(in.rows[i])'
  <2>1. CASE Disputed
    <3>1. /\ status(in.rows[index]) = "conflict"
          /\ pending' = ToAsk(in.rows[index], Reported(index))
          /\ IF comparable(in.rows[index]) THEN stage' = "sources" /\ index' = index
             ELSE stage' = stage /\ stage = "drift"
      BY <2>1 DEF Disputed
    <3>2. comparable(in.rows[index])
      BY <1>5, <3>1
    <3>3. i = index /\ pending' = others(in.rows[i]) /\ Contested(i)
      BY <1>5, <3>1, <3>2 DEF ToAsk, Contested
    <3> QED BY <1>2, <3>3
  <2>2. CASE AskSource
    <3>1. stage = "sources" /\ index' = index /\ pending' \subseteq pending
      BY <2>2 DEF AskSource
    <3>2. Contested(i) /\ pending \subseteq others(in.rows[i])
      BY <1>5, <3>1 DEF Derivation
    <3> QED BY <1>2, <3>1, <3>2
  <2>3. CASE StageRaises
    <3>1. stage' = After(stage) /\ After(stage) # "sources"
      BY <2>3, AfterStage DEF StageRaises, Goto, TypeInv
    <3> QED BY <1>5, <3>1
  <2>4. CASE ~Disputed /\ ~AskSource /\ ~StageRaises
    <3>1. UNCHANGED <<stage, index, pending>>
      BY <1>5, <2>4 DEF EngineNext, Vocabulary, ProposalTier, Baseline, Project,
         PairEntry, PairDone, Carry, Rule, RulesDone, Undisputed,
         AllAsked, DriftDone, Downgrade, Provenance_rows, EvaluationRaises, Goto, engineVars
    <3>2. Contested(i) /\ pending \subseteq others(in.rows[i])
      BY <1>5, <3>1 DEF Derivation
    <3> QED BY <1>2, <3>1, <3>2
  <2> QED BY <2>1, <2>2, <2>3, <2>4
<1> QED BY <1>2, <1>3, <1>4, <1>5 DEF Derivation

\* One iteration of the pair tier hears the winner it compared.
LEMMA WinnerSpeaks ==
  ASSUME TypeInv, PairEntry, projected, NEW i \in Entries, i = index,
         comparable(in.rows[i]), ~TurnedRound(in.rows[i]), Due(i, in.rows[i].winner)
  PROVE  Heard(i, in.rows[i].winner)'
<1> DEFINE row == in.rows[i]
           got == pair_statuses(row, document(row), entry_scope(row))
<1>1. i \in Targets /\ chosen(row) = row.winner
  BY DEF PairEntry, TurnedRound
<1>2. chosen(row) \in DOMAIN in.sources
  BY <1>1, EngineAssumption DEF TypeInv, WellFormed, Targets
<1>3. entry_scope(row) = "complete"
  BY <1>1, <1>2, OwnScope
<1>4. "contradicted" \in document(row).answer
  BY DEF Due, document
<1>5. "contradicted" \in got
  BY <1>3, <1>4, CompleteStands
<1>6. PICK v : v = Verdict("pair-tier", i, chosen(row), "pair", "contradicted")
  OBVIOUS
<1>7. v \in report'
  BY <1>5, <1>6 DEF PairEntry, Say
<1>8. /\ v.entry = i /\ v.kind = "pair" /\ v.status = "contradicted"
      /\ v.stage = "pair-tier"
  BY <1>6 DEF Verdict
<1>9. v \in PairVerdicts'
  BY <1>7, <1>8 DEF PairVerdicts
<1>10. in' = in
  BY DEF PairEntry
<1>11. Speaker(v)' = (in.rows[i].winner)'
  BY <1>8 DEF Speaker
<1> QED BY <1>8, <1>9, <1>11 DEF Heard

\* A source that is asked is heard.
LEMMA SourceSpeaks ==
  ASSUME AskSource, projected, NEW i, i = index, NEW s,
         s = FirstOf(in.rows[i], pending), Due(i, s)
  PROVE  Heard(i, s)'
<1> DEFINE row == in.rows[i]
           doc == row.records[s]
<1>1. doc.form /\ "contradicted" \in doc.answer /\ source_scope(row, s) = "complete"
  BY DEF Due, source_scope
<1>2. "contradicted" \in pair_statuses(row, doc, source_scope(row, s))
  BY <1>1, CompleteStands
<1>3. PICK v : v = Verdict("drift", i, s, "pair", "contradicted")
  OBVIOUS
<1>4. v \in report'
  BY <1>1, <1>2, <1>3 DEF AskSource, Say
<1>5. /\ v.entry = i /\ v.kind = "pair" /\ v.status = "contradicted"
      /\ v.stage = "drift" /\ v.source = s
  BY <1>3 DEF Verdict
<1>6. v \in PairVerdicts'
  BY <1>4, <1>5 DEF PairVerdicts
<1>7. Speaker(v)' = s
  BY <1>5 DEF Speaker
<1> QED BY <1>5, <1>6, <1>7 DEF Heard

LEMMA WinnersStep ==
  ASSUME HeardInv, [EngineNext]_engineVars
  PROVE  WinnersHeard'
<1> USE DEF HeardInv
<1>1. in' = in
  BY InputStands
<1>2. /\ \A i, s : Due(i, s)' <=> Due(i, s)
      /\ \A i : comparable(in.rows[i])' <=> comparable(in.rows[i])
      /\ \A i : TurnedRound(in.rows[i])' <=> TurnedRound(in.rows[i])
      /\ Entries' = Entries
  BY <1>1, DueStands
<1> SUFFICES ASSUME Ran("pair-tier")', NEW i \in Entries, PairTierPast(i)',
                    comparable(in.rows[i]), ~TurnedRound(in.rows[i]),
                    Due(i, in.rows[i].winner)
             PROVE  Heard(i, in.rows[i].winner)'
  BY <1>1, <1>2 DEF WinnersHeard
<1>3. /\ ~crashed("pair-tier") /\ in.pair_tier
      /\ derived \/ Baseline
      /\ projected \/ Project
  BY <1>1, RanStands
<1>4. i \in Targets /\ i \in Nat /\ 1 <= i /\ index \in Nat
  BY TargetsCount DEF Derivation, Entries
<1>5. ~Baseline
  BY <1>4 DEF Baseline, Goto, PairTierPast, Ran
<1>6. ~Project
  BY <1>4 DEF Project, Goto, PairTierPast
<1>7. Ran("pair-tier")
  BY <1>3, <1>5, <1>6 DEF Ran
<1>8. CASE PairTierPast(i)
  <2>1. Heard(i, in.rows[i].winner)
    BY <1>7, <1>8 DEF WinnersHeard
  <2> QED BY <1>1, <2>1, HeardStands
<1>9. CASE ~PairTierPast(i)
  <2>1. CASE PairEntry
    <3>1. i = index
      BY <1>4, <1>9, <2>1 DEF PairEntry, PairTierPast
    <3> QED BY <1>7, <2>1, <3>1, WinnerSpeaks DEF Ran
  <2>2. CASE PairDone
    <3>1. index \notin Targets /\ stage = "pair-tier"
      BY <1>3, <2>2 DEF PairDone
    <3>2. i < index
      BY <1>4, <3>1, TargetsCount DEF Derivation
    <3> QED BY <1>9, <3>1, <3>2 DEF PairTierPast
  <2>3. CASE StageRaises
    <3>1. stage # "pair-tier"
      <4>1. stage = "pair-tier" => Crashed("pair-tier") \in report'
        BY <2>3 DEF StageRaises
      <4> QED BY <4>1 DEF Ran, crashed
    <3>2. stage' = After(stage) /\ index' = 1 /\ stage \notin {"baseline", "proposal-tier"}
      BY <1>7, <2>3 DEF StageRaises, Goto, Derivation, Ran
    <3>3. stage' = "pair-tier" \/ PairTierPast(i)
      BY <2>3, <3>1, <3>2 DEF After, PairTierPast, StageRaises, TypeInv, Stages
    <3> QED BY <1>4, <1>9, <3>2, <3>3 DEF PairTierPast
  <2>4. CASE ~PairEntry /\ ~PairDone /\ ~StageRaises
    BY <1>5, <1>6, <1>7, <1>9, <2>4
    DEF EngineNext, Vocabulary, ProposalTier, Carry, Rule, RulesDone, Undisputed, Disputed,
        AskSource, AllAsked, DriftDone, Downgrade, Provenance_rows, EvaluationRaises, Goto,
        PairTierPast, Derivation, Ran, engineVars
  <2> QED BY <2>1, <2>2, <2>3, <2>4
<1> QED BY <1>8, <1>9

LEMMA OthersStep ==
  ASSUME HeardInv, [EngineNext]_engineVars
  PROVE  OthersHeard'
<1> USE DEF HeardInv
<1>1. in' = in
  BY InputStands
<1>2. /\ \A i, s : Due(i, s)' <=> Due(i, s)
      /\ \A i : Contested(i)' <=> Contested(i)
      /\ \A i : others(in.rows[i])' = others(in.rows[i])
      /\ Entries' = Entries
  BY <1>1, DueStands
<1> SUFFICES ASSUME Ran("drift")', NEW i \in Entries, NEW s \in others(in.rows[i]),
                    Contested(i), Due(i, s), Asked(i, s)'
             PROVE  Heard(i, s)'
  BY <1>1, <1>2 DEF OthersHeard
<1>3. /\ ~crashed("drift") /\ in.pair_tier
      /\ derived \/ Baseline
      /\ projected \/ Project
  BY <1>1, RanStands
<1>4. i \in Targets /\ i \in Nat /\ 1 <= i /\ index \in Nat
  BY TargetsCount DEF Derivation, Entries
<1>5. ~Baseline /\ ~Project
  BY <1>4 DEF Baseline, Project, Goto, Asked, DriftPast
<1>6. Ran("drift")
  BY <1>3, <1>5 DEF Ran
<1>7. CASE Asked(i, s)
  <2>1. Heard(i, s)
    BY <1>6, <1>7 DEF OthersHeard
  <2> QED BY <1>1, <2>1, HeardStands
<1>8. CASE ~Asked(i, s)
  <2>1. CASE Undisputed
    <3>1. stage = "drift" /\ stage' = "drift" /\ index' = index + 1
          /\ (index \notin Entries \/ status(in.rows[index]) # "conflict")
      BY <2>1 DEF Undisputed
    <3>2. i # index
      BY <3>1 DEF Contested
    <3> QED BY <1>4, <1>8, <3>1, <3>2 DEF Asked, DriftPast
  <2>2. CASE Disputed
    <3>1. /\ stage = "drift"
          /\ pending' = ToAsk(in.rows[index], Reported(index))
          /\ IF comparable(in.rows[index]) THEN stage' = "sources" /\ index' = index
             ELSE stage' = "drift" /\ index' = index + 1
      BY <2>2 DEF Disputed
    <3>2. CASE comparable(in.rows[index])
      <4>1. stage' = "sources" /\ index' = index /\ pending' = others(in.rows[index])
        BY <3>1, <3>2 DEF ToAsk
      <4> QED BY <1>4, <1>8, <3>1, <4>1 DEF Asked, DriftPast
    <3>3. CASE ~comparable(in.rows[index])
      <4>1. i # index
        BY <3>3 DEF Contested
      <4> QED BY <1>4, <1>8, <3>1, <3>3, <4>1 DEF Asked, DriftPast
    <3> QED BY <3>2, <3>3
  <2>3. CASE AskSource
    <3>1. /\ stage = "sources" /\ stage' = "sources" /\ index' = index
          /\ pending' = pending \ {FirstOf(in.rows[index], pending)}
      BY <2>3 DEF AskSource
    <3>2. i = index /\ s = FirstOf(in.rows[index], pending)
      BY <1>4, <1>8, <3>1 DEF Asked, DriftPast
    <3> QED BY <1>6, <2>3, <3>2, SourceSpeaks DEF Ran
  <2>4. CASE AllAsked
    <3>1. /\ stage = "sources" /\ pending = {} /\ stage' = "drift" /\ index' = index + 1
      BY <2>4 DEF AllAsked
    <3> QED BY <1>4, <1>8, <3>1 DEF Asked, DriftPast
  <2>5. CASE DriftDone
    <3>1. index \notin Targets /\ stage = "drift"
      BY <1>3, <2>5 DEF DriftDone
    <3>2. i < index
      BY <1>4, <3>1, TargetsCount DEF Derivation
    <3> QED BY <1>8, <3>1, <3>2 DEF Asked, DriftPast
  <2>6. CASE StageRaises
    <3>1. stage \notin {"drift", "sources"}
      <4>1. stage \in {"drift", "sources"} => Crashed("drift") \in report'
        BY <2>6 DEF StageRaises
      <4> QED BY <4>1 DEF Ran, crashed
    <3>2. stage' = After(stage) /\ index' = 1
      BY <2>6 DEF StageRaises, Goto
    <3>3. stage' \in {"baseline", "carry", "pair-tier", "drift"} \/ DriftPast(i)
      BY <1>6, <2>6, <3>1, <3>2 DEF After, Asked, DriftPast, StageRaises, TypeInv, Stages, Ran
    <3> QED BY <1>4, <1>8, <3>2, <3>3 DEF Asked, DriftPast
  <2>7. CASE RulesDone
    <3>1. stage' = "drift" /\ index' = 1
      BY <1>6, <2>7 DEF RulesDone, Goto, Ran
    <3> QED BY <1>4, <3>1 DEF Asked, DriftPast
  <2>8. CASE ~(Undisputed \/ Disputed \/ AskSource \/ AllAsked \/ DriftDone
               \/ StageRaises \/ RulesDone)
    BY <1>5, <1>6, <1>8, <2>8
    DEF EngineNext, Vocabulary, ProposalTier, PairEntry, PairDone, Carry, Rule, Downgrade,
        Provenance_rows, EvaluationRaises, Goto, Asked, DriftPast, Derivation, Ran, engineVars
  <2> QED BY <2>1, <2>2, <2>3, <2>4, <2>5, <2>6, <2>7, <2>8
<1> QED BY <1>7, <1>8

-----------------------------------------------------------------------------
(* What was said on the claim of another source is answered.               *)

\* The pair tier's answer about an entry, on record for the drift stage; a
\* verdict of the pair tier is about an entry that tier is through with.
OnRecord(v) ==
  /\ v.entry \in Targets /\ PairTierPast(v.entry)
  /\ v.status = "contradicted" =>
       /\ "contradicted" \in Reported(v.entry)
       /\ "contradicted" \in document(in.rows[v.entry]).answer

Recorded ==
  ~crashed("pair-tier") =>
    \A v \in PairVerdicts : v.stage = "pair-tier" => OnRecord(v)

\* An entry found against on its winner's record, which does not bear it out.
Lent(i) ==
  /\ TurnedRound(in.rows[i]) /\ in.rows[i].mode = "requires_complete"
  /\ ~SawEverything(in.rows[i], in.rows[i].winner)
  /\ "contradicted" \in document(in.rows[i]).answer

\* The answers gathered about the entry the drift stage is at.
Gathered ==
  stage = "sources" =>
    /\ statuses \subseteq Statuses
    /\ Reported(index) \subseteq statuses
    /\ Lent(index) /\ in.rows[index].winner \notin pending => "unverified" \in statuses

TwoAnswers(i) == Unverified("drift", i, 0, "two-answers") \in report

Answered ==
  Ran("drift") => \A i \in Entries :
    Contested(i) /\ Lent(i) /\ "contradicted" \in Reported(i) /\ DriftPast(i) => TwoAnswers(i)

LentInv == EarnedInv /\ HeardInv /\ Recorded /\ Gathered /\ Answered

\* A finding is left standing only where the document gave it.
LEMMA FindingIsAnswered ==
  ASSUME NEW row, NEW doc, NEW scope, "contradicted" \in pair_statuses(row, doc, scope)
  PROVE  "contradicted" \in doc.answer
<1>1. PICK a \in Answer(doc) : soundness(row.mode, scope, a) = "contradicted"
  BY DEF pair_statuses, apply_baseline_soundness
<1>2. a = "contradicted"
  BY <1>1 DEF soundness
<1> QED BY <1>1, <1>2 DEF Answer

\* Over less than a complete scope it is taken back, or was not given.
LEMMA TakenBack ==
  ASSUME NEW row, NEW doc, NEW scope, scope # "complete", row.mode = "requires_complete",
         "contradicted" \in doc.answer
  PROVE  "unverified" \in pair_statuses(row, doc, scope)
<1>1. CASE projected
  <2>1. soundness(row.mode, scope, "contradicted") = "unverified"
    BY DEF soundness
  <2>2. "contradicted" \in Answer(doc)
    BY <1>1 DEF Answer
  <2> QED BY <2>1, <2>2 DEF pair_statuses, apply_baseline_soundness
<1>2. CASE ~projected
  <2>1. soundness(row.mode, scope, "unverified") = "unverified"
    BY DEF soundness
  <2>2. "unverified" \in Answer(doc)
    BY <1>2 DEF Answer
  <2> QED BY <2>1, <2>2 DEF pair_statuses, apply_baseline_soundness
<1> QED BY <1>1, <1>2

\* Two of the four statuses are more than one.
LEMMA TwoAreMore ==
  ASSUME NEW S \in SUBSET Statuses, "contradicted" \in S, "unverified" \in S
  PROVE  Cardinality(S) > 1
<1> DEFINE one == {"contradicted"}
           two == one \cup {"unverified"}
<1>1. IsFiniteSet(Statuses)
  <2>1. IsFiniteSet({"grounded"})
    BY FS_Singleton
  <2>2. IsFiniteSet({"grounded"} \cup {"ungrounded"})
    BY <2>1, FS_AddElement
  <2>3. IsFiniteSet(({"grounded"} \cup {"ungrounded"}) \cup {"contradicted"})
    BY <2>2, FS_AddElement
  <2>4. IsFiniteSet((({"grounded"} \cup {"ungrounded"}) \cup {"contradicted"})
                      \cup {"unverified"})
    BY <2>3, FS_AddElement
  <2>5. Statuses = (({"grounded"} \cup {"ungrounded"}) \cup {"contradicted"})
                     \cup {"unverified"}
    BY DEF Statuses
  <2> QED BY <2>4, <2>5
<1>2. IsFiniteSet(S)
  BY <1>1, FS_Subset
<1>3. IsFiniteSet(one) /\ Cardinality(one) = 1
  BY FS_Singleton
<1>4. Cardinality(two) = 2
  <2>1. "unverified" \notin one
    OBVIOUS
  <2>2. Cardinality(one \cup {"unverified"}) = Cardinality(one) + 1
    BY <1>3, <2>1, FS_AddElement
  <2> QED BY <1>3, <2>2
<1>5. Cardinality(two) <= Cardinality(S)
  <2>1. two \subseteq S
    OBVIOUS
  <2> HIDE DEF two
  <2> QED BY <1>2, <2>1, FS_Subset
<1>6. Cardinality(S) \in Nat
  BY <1>2, FS_CardinalityType
<1> HIDE DEF two, one
<1> QED BY <1>4, <1>5, <1>6

\* Whether a finding is lent depends on the input alone.
LEMMA LentStands ==
  ASSUME in' = in
  PROVE  \A i : Lent(i)' <=> Lent(i)
<1>1. \A row : coverage_of(row)' = coverage_of(row)
  BY DEF coverage_of, demote_stale
<1>2. \A row, s : SawEverything(row, s)' <=> SawEverything(row, s)
  BY <1>1 DEF SawEverything
<1>3. \A i : TurnedRound(in.rows[i])' <=> TurnedRound(in.rows[i])
  BY DueStands
<1>4. \A i : SawEverything(in.rows[i], in.rows[i].winner)'
               <=> SawEverything(in.rows[i], in.rows[i].winner)
  BY <1>2
<1> QED BY <1>3, <1>4 DEF Lent, document

\* The pair tier's answers stay as they are once it is through, unless it
\* raised.
LEMMA PairResultsStand ==
  ASSUME [EngineNext]_engineVars
  PROVE  \/ pair_results' = pair_results
         \/ PairEntry
         \/ StageRaises /\ stage = "pair-tier" /\ crashed("pair-tier")'
<1>1. ASSUME StageRaises
      PROVE  \/ pair_results' = pair_results
             \/ stage = "pair-tier" /\ crashed("pair-tier")'
  <2>1. CASE stage = "pair-tier"
    <3>1. Crashed("pair-tier") \in report'
      BY <1>1, <2>1 DEF StageRaises
    <3> QED BY <2>1, <3>1 DEF crashed
  <2>2. CASE stage # "pair-tier"
    <3>1. pair_results' = IF stage = "pair-tier" THEN <<>> ELSE pair_results
      BY <1>1 DEF StageRaises
    <3> QED BY <2>2, <3>1, Zenon
  <2> QED BY <2>1, <2>2
<1> QED BY <1>1 DEF EngineNext, Vocabulary, ProposalTier, Baseline, Project, PairDone,
       Carry, Rule, RulesDone, Undisputed, Disputed, AskSource, AllAsked, DriftDone,
       Downgrade, Provenance_rows, EvaluationRaises, engineVars

\* The stages only advance.
LEMMA PastStands ==
  ASSUME HeardInv, [EngineNext]_engineVars, NEW i \in Targets, PairTierPast(i)
  PROVE  PairTierPast(i)'
<1>1. i \in Nat /\ index \in Nat
  BY TargetsCount DEF HeardInv, Derivation
<1>2. CASE StageRaises
  <2>1. stage' = After(stage) /\ stage' \in {"carry", "downgrade", "drift", "done"}
    BY <1>2 DEF StageRaises, Goto, After, PairTierPast
  <2> QED BY <2>1 DEF PairTierPast
<1>3. CASE ~StageRaises
  BY <1>1, <1>3
  DEF EngineNext, Vocabulary, ProposalTier, Baseline, Project, PairEntry, PairDone, Carry,
      Rule, RulesDone, Undisputed, Disputed, AskSource, AllAsked, DriftDone, Downgrade,
      Provenance_rows, EvaluationRaises, Goto, PairTierPast, engineVars
<1> QED BY <1>2, <1>3

LEMMA RecordedStep ==
  ASSUME LentInv, [EngineNext]_engineVars
  PROVE  Recorded'
<1> USE DEF LentInv
<1>1. in' = in /\ Targets' = Targets
  BY InputStands DEF Targets
<1> SUFFICES ASSUME ~crashed("pair-tier")', NEW v \in report', v.kind = "pair",
                    v.stage = "pair-tier"
             PROVE  OnRecord(v)'
  BY DEF Recorded, PairVerdicts
<1>2. ~crashed("pair-tier")
  BY <1>1, HeardStands
<1>3. document(in.rows[v.entry])' = document(in.rows[v.entry])
  BY <1>1 DEF document
<1>4. CASE v \in report
  <2>1. OnRecord(v)
    BY <1>2, <1>4 DEF Recorded, PairVerdicts
  <2>2. v.entry \in Targets /\ PairTierPast(v.entry)'
    BY <2>1, PastStands DEF OnRecord
  <2>3. Reported(v.entry)' = Reported(v.entry)
    <3>1. CASE PairEntry
      <4>1. v.entry # index
        <5>1. v.entry \in Nat /\ index \in Nat /\ stage = "pair-tier"
          BY <2>1, <3>1, TargetsCount DEF OnRecord, PairEntry, HeardInv, Derivation
        <5> QED BY <2>1, <5>1 DEF OnRecord, PairTierPast
      <4>2. \/ pair_results' = pair_results
            \/ \E got : pair_results' = [i \in DOMAIN pair_results \cup {index} |->
                                           IF i = index THEN got ELSE pair_results[i]]
        BY <3>1 DEF PairEntry
      <4> QED BY <4>1, <4>2 DEF Reported
    <3>2. CASE pair_results' = pair_results
      BY <3>2 DEF Reported
    <3> QED BY <3>1, <3>2, PairResultsStand
  <2> QED BY <1>1, <1>3, <2>1, <2>2, <2>3 DEF OnRecord
<1>5. CASE v \notin report
  <2>1. CASE PairEntry
    <3>1. PICK k \in Targets : k = index
      BY <2>1 DEF PairEntry
    <3> DEFINE row == in.rows[k]
               got == pair_statuses(row, document(row), entry_scope(row))
    <3>2. k \in Entries /\ comparable(row)
      BY <1>5, <2>1, <3>1 DEF PairEntry
    <3>3. PICK st \in got : v = Verdict("pair-tier", k, chosen(row), "pair", st)
      BY <1>5, <2>1, <3>1 DEF PairEntry, Say
    <3>4. v.entry = k /\ v.status = st
      BY <3>3 DEF Verdict
    <3>5. stage' = "pair-tier" /\ index' = k + 1 /\ k \in Nat
      BY <2>1, <3>1 DEF PairEntry, HeardInv, Derivation
    <3>6. PairTierPast(k)'
      BY <3>5 DEF PairTierPast
    <3>7. st = "contradicted" => "contradicted" \in document(row).answer
      BY <3>3, FindingIsAnswered
    <3>8. pair_results' = [i \in DOMAIN pair_results \cup {k} |->
                             IF i = k THEN got ELSE pair_results[i]]
      BY <2>1, <3>1, <3>2 DEF PairEntry
    <3> HIDE DEF got
    <3>9. Reported(k)' = got
      BY <3>8 DEF Reported
    <3> HIDE DEF row
    <3>10. document(in.rows[k])' = document(row)
      BY <1>1 DEF document, row
    <3> QED BY <1>1, <3>3, <3>4, <3>6, <3>7, <3>9, <3>10 DEF OnRecord
  <2>2. CASE Downgrade
    <3>1. PICK w \in report : v = Downgraded(w)
      BY <2>2 DEF Downgrade
    <3>2. w.kind = "pair" /\ w.stage = "pair-tier" /\ w.entry = v.entry
      BY <3>1 DEF Downgraded, EarnedInv, TypeInv, IsVerdict, Verdict
    <3>3. OnRecord(w)
      BY <1>2, <3>2 DEF Recorded, PairVerdicts
    <3>4. v.status # "contradicted"
      BY <1>5, <3>1 DEF Downgraded, EarnedInv, TypeInv, IsVerdict, Verdict
    <3>5. v.entry \in Targets /\ PairTierPast(v.entry)'
      BY <3>2, <3>3, PastStands DEF OnRecord
    <3> QED BY <1>1, <3>4, <3>5 DEF OnRecord
  <2>3. CASE ~PairEntry /\ ~Downgrade
    <3>1. v.kind # "pair" \/ v.stage = "drift"
      BY <1>5, <2>3
      DEF EngineNext, Vocabulary, ProposalTier, Baseline, Project, PairDone, Carry, Rule,
          RulesDone, Undisputed, Disputed, AskSource, AllAsked, DriftDone, Provenance_rows,
          StageRaises, EvaluationRaises, Say, Remaining, Crashed, Verdict, Unverified,
          DeriveVerdicts, StatusVerdicts, StaleVerdicts, key_mismatch_verdicts, engineVars
    <3> QED BY <3>1
  <2> QED BY <2>1, <2>2, <2>3
<1> QED BY <1>4, <1>5

LEMMA GatheredStep ==
  ASSUME LentInv, [EngineNext]_engineVars
  PROVE  Gathered'
<1> USE DEF LentInv
<1>1. in' = in
  BY InputStands
<1>2. \A i : Lent(i)' <=> Lent(i)
  BY <1>1, LentStands
<1>3. CASE Disputed
  <2>1. index \in Targets /\ pair_results' = pair_results /\ statuses' = Reported(index)
    BY <1>3 DEF Disputed, Entries
  <2> SUFFICES ASSUME stage' = "sources" PROVE Gathered'
    BY DEF Gathered
  <2>2. comparable(in.rows[index]) /\ index' = index
    BY <1>3 DEF Disputed
  <2>3. pending' = others(in.rows[index])
    BY <1>3, <2>2 DEF Disputed, ToAsk
  <2>4. Reported(index) \subseteq Statuses
    BY DEF EarnedInv, TypeInv, PairResultsOK, Reported
  <2>5. Reported(index)' = Reported(index)
    BY <2>1, <2>2 DEF Reported
  <2>6. Lent(index) => in.rows[index].winner \in pending'
    <3>1. in.rows[index].winner \in Candidates(in.rows[index])
      BY <2>1, EngineAssumption DEF EarnedInv, TypeInv, WellFormed, Targets, Candidates
    <3> QED BY <2>3, <3>1 DEF Lent, TurnedRound, others
  <2>7. Lent(index)' <=> Lent(index)
    BY <1>2, <2>2
  <2> QED BY <1>1, <2>1, <2>2, <2>4, <2>5, <2>6, <2>7 DEF Gathered
<1>4. CASE AskSource
  <2> DEFINE row == in.rows[index]
             s   == FirstOf(row, pending)
             doc == row.records[s]
             got == IF doc.form THEN pair_statuses(row, doc, source_scope(row, s))
                    ELSE {"unverified"}
  <2>1. /\ stage = "sources" /\ index' = index /\ pair_results' = pair_results
        /\ statuses' = statuses \cup got /\ pending' = pending \ {s}
    BY <1>4 DEF AskSource
  <2>2. index \in Targets /\ pending \in SUBSET Candidates(row) /\ pending # {}
    BY <1>4, <2>1 DEF AskSource, EarnedInv, TypeInv, LoopInv
  <2>3. s \in Candidates(row)
    BY <2>2, FirstExists DEF EarnedInv, TypeInv
  <2>4. doc.answer \subseteq Statuses
    BY <2>2, <2>3, CandidateTypes DEF EarnedInv, TypeInv
  <2>5. got \subseteq Statuses
    BY <2>4, PairStatuses DEF Statuses
  <2>6. ASSUME Lent(index), s = row.winner PROVE "unverified" \in got
    <3>1. Contested(index)
      BY <2>1, <2>2 DEF HeardInv, Derivation
    <3>2. doc.form /\ "contradicted" \in doc.answer
      BY <2>6, <3>1 DEF Contested, comparable, document, Lent
    <3>3. source_scope(row, s) # "complete" /\ row.mode = "requires_complete"
      BY <2>6 DEF Lent, SawEverything, source_scope
    <3> QED BY <3>2, <3>3, TakenBack
  <2> HIDE DEF got, doc, s
  <2>7. Reported(index)' = Reported(index)
    BY <2>1 DEF Reported
  <2>8. Lent(index)' <=> Lent(index)
    BY <1>2, <2>1
  <2>9. /\ statuses \subseteq Statuses
        /\ Reported(index) \subseteq statuses
        /\ Lent(index) /\ row.winner \notin pending => "unverified" \in statuses
    BY <2>1 DEF Gathered
  <2>10. Lent(index) /\ row.winner \notin pending' => "unverified" \in statuses'
    BY <2>1, <2>6, <2>9
  <2>11. in.rows[index]' = row
    BY <1>1, <2>1
  <2> HIDE DEF row
  <2> QED BY <2>1, <2>5, <2>7, <2>8, <2>9, <2>10, <2>11 DEF Gathered
<1>5. CASE UNCHANGED engineVars
  BY <1>1, <1>2, <1>5 DEF Gathered, engineVars, Reported
<1>6. CASE EngineNext /\ ~Disputed /\ ~AskSource
  <2>1. CASE StageRaises
    <3>1. stage' = After(stage) /\ After(stage) # "sources"
      BY <2>1, AfterStage DEF StageRaises, Goto, EarnedInv, TypeInv
    <3> QED BY <3>1 DEF Gathered
  <2>2. CASE ~StageRaises
    <3>1. stage' # "sources"
      BY <1>6, <2>2
      DEF EngineNext, Vocabulary, ProposalTier, Baseline, Project, PairEntry, PairDone,
          Carry, Rule, RulesDone, Undisputed, AllAsked, DriftDone, Downgrade,
          Provenance_rows, EvaluationRaises, Goto
    <3> QED BY <3>1 DEF Gathered
  <2> QED BY <2>1, <2>2
<1> QED BY <1>3, <1>4, <1>5, <1>6

\* What the report says of two answers it keeps saying.
LEMMA TwoAnswersStand ==
  ASSUME [EngineNext]_engineVars, NEW i, TwoAnswers(i)
  PROVE  TwoAnswers(i)'
<1> DEFINE v == Unverified("drift", i, 0, "two-answers")
<1>1. v \in report /\ v.status = "unverified"
  BY DEF TwoAnswers, Unverified, Verdict
<1>2. v \in report'
  BY <1>1, ReportGrows DEF Persists
<1> QED BY <1>2 DEF TwoAnswers

LEMMA AnsweredStep ==
  ASSUME LentInv, [EngineNext]_engineVars
  PROVE  Answered'
<1> USE DEF LentInv, HeardInv
<1>1. in' = in
  BY InputStands
<1>2. /\ \A i : Contested(i)' <=> Contested(i)
      /\ Entries' = Entries
  BY <1>1, DueStands
<1>3. \A i : Lent(i)' <=> Lent(i)
  BY <1>1, LentStands
<1> SUFFICES ASSUME Ran("drift")', NEW i \in Entries, Contested(i), Lent(i),
                    "contradicted" \in Reported(i)', DriftPast(i)'
             PROVE  TwoAnswers(i)'
  BY <1>2, <1>3 DEF Answered
<1>4. /\ ~crashed("drift") /\ in.pair_tier
      /\ derived \/ Baseline
      /\ projected \/ Project
  BY <1>1, RanStands
<1>5. i \in Targets /\ i \in Nat /\ 1 <= i /\ index \in Nat
  BY TargetsCount DEF Derivation, Entries
<1>6. ~Baseline /\ ~Project /\ ~PairEntry
  BY <1>5 DEF Baseline, Project, PairEntry, Goto, DriftPast
<1>7. Ran("drift")
  BY <1>4, <1>6 DEF Ran
<1>8. "contradicted" \in Reported(i)
  <2>1. ~(StageRaises /\ stage = "pair-tier")
    BY DEF StageRaises, Goto, After, DriftPast
  <2> QED BY <1>6, <2>1, PairResultsStand DEF Reported
<1>9. CASE DriftPast(i)
  <2>1. TwoAnswers(i)
    BY <1>7, <1>8, <1>9 DEF Answered
  <2> QED BY <2>1, TwoAnswersStand
<1>10. CASE ~DriftPast(i)
  <2>1. CASE AllAsked
    <3>1. /\ stage = "sources" /\ pending = {} /\ stage' = "drift" /\ index' = index + 1
      BY <2>1 DEF AllAsked
    <3>2. i = index
      BY <1>5, <1>10, <3>1 DEF DriftPast
    <3>3. /\ statuses \in SUBSET Statuses
          /\ "contradicted" \in statuses /\ "unverified" \in statuses
      BY <1>8, <3>1, <3>2 DEF Gathered
    <3>4. Cardinality(statuses) > 1
      BY <3>3, TwoAreMore
    <3> QED BY <2>1, <3>2, <3>4 DEF AllAsked, Say, TwoAnswers
  <2>2. CASE Undisputed
    <3>1. stage = "drift" /\ stage' = "drift" /\ index' = index + 1
          /\ (index \notin Entries \/ status(in.rows[index]) # "conflict")
      BY <2>2 DEF Undisputed
    <3>2. i # index
      BY <3>1 DEF Contested
    <3> QED BY <1>5, <1>10, <3>1, <3>2 DEF DriftPast
  <2>3. CASE Disputed
    <3>1. /\ stage = "drift"
          /\ IF comparable(in.rows[index]) THEN stage' = "sources" /\ index' = index
             ELSE stage' = "drift" /\ index' = index + 1
      BY <2>3 DEF Disputed
    <3>2. ~comparable(in.rows[index]) => i # index
      BY DEF Contested
    <3> QED BY <1>5, <1>10, <3>1, <3>2 DEF DriftPast
  <2>4. CASE DriftDone
    <3>1. index \notin Targets /\ stage = "drift"
      BY <1>4, <2>4 DEF DriftDone
    <3>2. i < index
      BY <1>5, <3>1, TargetsCount DEF Derivation
    <3> QED BY <1>10, <3>1, <3>2 DEF DriftPast
  <2>5. CASE StageRaises
    <3>1. stage \notin {"drift", "sources"}
      <4>1. stage \in {"drift", "sources"} => Crashed("drift") \in report'
        BY <2>5 DEF StageRaises
      <4> QED BY <4>1 DEF Ran, crashed
    <3>2. stage' = After(stage) /\ index' = 1
      BY <2>5 DEF StageRaises, Goto
    <3>3. stage' \in {"baseline", "carry", "pair-tier", "drift"} \/ DriftPast(i)
      BY <1>7, <2>5, <3>1, <3>2 DEF After, DriftPast, StageRaises, TypeInv, Stages, Ran
    <3> QED BY <1>5, <1>10, <3>2, <3>3 DEF DriftPast
  <2>6. CASE RulesDone
    <3>1. stage' = "drift" /\ index' = 1
      BY <1>7, <2>6 DEF RulesDone, Goto, Ran
    <3> QED BY <1>5, <3>1 DEF DriftPast
  <2>7. CASE ~(AllAsked \/ Undisputed \/ Disputed \/ DriftDone \/ StageRaises \/ RulesDone)
    BY <1>6, <1>7, <1>10, <2>7
    DEF EngineNext, Vocabulary, ProposalTier, PairDone, Carry, Rule, AskSource, Downgrade,
        Provenance_rows, EvaluationRaises, Goto, DriftPast, Derivation, Ran, engineVars
  <2> QED BY <2>1, <2>2, <2>3, <2>4, <2>5, <2>6, <2>7
<1> QED BY <1>9, <1>10

LEMMA HeardInit == EngineInit => HeardInv
<1>1. EngineInit => TypeInv
  BY TypeInit
<1> QED BY <1>1 DEF EngineInit, HeardInv, WinnersHeard, OthersHeard, Derivation, Ran

LEMMA HeardStep == HeardInv /\ [EngineNext]_engineVars => HeardInv'
<1> SUFFICES ASSUME HeardInv, [EngineNext]_engineVars PROVE HeardInv'
  OBVIOUS
<1>1. TypeInv'
  BY TypeStep DEF HeardInv
<1> QED BY <1>1, WinnersStep, OthersStep, DerivationStep DEF HeardInv

LEMMA LentInit == EngineInit => LentInv
<1> SUFFICES ASSUME EngineInit PROVE LentInv
  OBVIOUS
<1>1. report = {} /\ stage = "vocabulary" /\ ~derived
  BY DEF EngineInit
<1>2. Recorded /\ Gathered /\ Answered
  BY <1>1 DEF Recorded, PairVerdicts, Gathered, Answered, Ran
<1> QED BY <1>2, EarnedInit, HeardInit DEF LentInv

LEMMA LentStep == LentInv /\ [EngineNext]_engineVars => LentInv'
<1> SUFFICES ASSUME LentInv, [EngineNext]_engineVars PROVE LentInv'
  OBVIOUS
<1>1. EarnedInv' /\ HeardInv'
  BY EarnedStep, HeardStep DEF LentInv
<1> QED BY <1>1, RecordedStep, GatheredStep, AnsweredStep DEF LentInv

LEMMA LentInductive == EngineSpec => []LentInv
<1>1. EngineInit => LentInv
  BY LentInit
<1>2. LentInv /\ [EngineNext]_engineVars => LentInv'
  BY LentStep
<1> QED BY <1>1, <1>2, PTL DEF EngineSpec

\* Whatever the policies of precedence, every source that describes a disputed
\* row in scope and found against the change, over a complete view of its own,
\* is heard once the stages ran: a winner the entry names in the pair tier, all
\* the others in the drift stage; a named source that lost the merge is the one
\* exception.  And a finding on the winner's record that only the named source's
\* claim bore out is answered by the winner's own, which the report says.
THEOREM AnswersAreHeard == EngineSpec => []EveryAnswerIsHeard
<1>1. ASSUME LentInv PROVE EveryAnswerIsHeard
  <2> SUFFICES ASSUME PairTierRan, NEW i \in Entries, Contested(i)
               PROVE  /\ \A s \in Candidates(in.rows[i]) :
                           Due(i, s) /\ ~Heard(i, s)
                           => s = chosen(in.rows[i]) /\ TurnedRound(in.rows[i])
                      /\ (\E v \in PairVerdicts : v.entry = i /\ Borrowed(v)) =>
                           TwoAnswers(i)
    BY DEF EveryAnswerIsHeard, TwoAnswers
  <2>1. /\ stage = "done" /\ Ran("pair-tier") /\ Ran("drift") /\ comparable(in.rows[i])
        /\ ~crashed("pair-tier")
    BY DEF PairTierRan, done, Ran, Contested
  <2>2. ASSUME NEW s \in Candidates(in.rows[i]), Due(i, s), ~Heard(i, s)
        PROVE  s = chosen(in.rows[i]) /\ TurnedRound(in.rows[i])
    <3>1. s \notin others(in.rows[i])
      BY <1>1, <2>1, <2>2 DEF LentInv, HeardInv, OthersHeard, Asked, DriftPast
    <3>2. s = chosen(in.rows[i])
      BY <3>1 DEF others
    <3>3. ASSUME ~TurnedRound(in.rows[i]) PROVE FALSE
      <4>1. s = in.rows[i].winner
        BY <3>2, <3>3 DEF TurnedRound
      <4> QED BY <1>1, <2>1, <2>2, <3>3, <4>1 DEF LentInv, HeardInv, WinnersHeard, PairTierPast
    <3> QED BY <3>2, <3>3
  <2>3. ASSUME NEW v \in PairVerdicts, v.entry = i, Borrowed(v)
        PROVE  TwoAnswers(i)
    <3>1. v.stage = "pair-tier" /\ v.status = "contradicted" /\ v.kind = "pair" /\ v \in report
      BY <2>3 DEF Borrowed, PairVerdicts
    <3>2. OnRecord(v)
      BY <1>1, <2>1, <3>1 DEF LentInv, Recorded, PairVerdicts
    <3>3. Vouched(v)
      BY <1>1, <2>3, <3>1 DEF LentInv, EarnedInv, Earned, Borrowed
    <3>4. Speaker(v) = in.rows[i].winner
      BY <2>3, <3>1 DEF Speaker
    <3>5. Lent(i) /\ "contradicted" \in Reported(i)
      BY <2>3, <3>1, <3>2, <3>3, <3>4 DEF Lent, Borrowed, Vouched, OnRecord
    <3> QED BY <1>1, <2>1, <3>5 DEF LentInv, Answered, DriftPast
  <2> QED BY <2>2, <2>3
<1> QED BY <1>1, LentInductive, PTL
=============================================================================
