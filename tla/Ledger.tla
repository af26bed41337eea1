------------------------------- MODULE Ledger -------------------------------
(***************************************************************************)
(* The provenance ledger of gcp_grounding/provenance.py: a LedgerBuilder   *)
(* that readers and mappers call in whatever order their artifacts come    *)
(* in, and the SourceLedger that build() freezes out of it.                *)
(*                                                                         *)
(* One action per builder method.  The builder is not consumed by build(): *)
(* the ledger is a photograph and the builder may go on.  `log' is the     *)
(* history of the calls made for each category; no code reads it, the      *)
(* properties do.                                                          *)
(*                                                                         *)
(* Abstracted: locators, notes, drop reasons and records; the disputes,    *)
(* artifacts and census lists, which build() only copies.                  *)
(***************************************************************************)
EXTENDS Provenance, FiniteSets

CONSTANTS Categories,    \* estate categories
          Keys,          \* record keys within a category
          SourceIds,     \* ids of contributing sources
          Boundaries,    \* boundary names, "" among them
          Records,       \* the SourceRecords that may be declared
          Declarations,  \* the declare() calls that may be made
          MaxDrop        \* bound on a category's drop count
CONSTANTS NoEntry, NoSource  \* "not in the dict"

Declaration ==
  [scope : Scopes, boundary : Boundaries, taint : Taints, keys : Nat,
   source_kinds : SUBSET Sources, existence_licensed : BOOLEAN,
   emitted : BOOLEAN]

Entry ==
  [scope : Scopes, boundary : Boundaries, taint : Taints, keys : Nat,
   source_kinds : SUBSET Sources, existence_licensed : BOOLEAN,
   emitted : BOOLEAN, dropped : Nat]

\* Both callers that declare a category nobody emitted declare it uncaptured
\* (estate.py and the command line's own view).
ClaimsWhatItEmits(d) == d.emitted \/ d.scope = "uncaptured"

ASSUME LedgerAssumption ==
  /\ "" \in Boundaries
  /\ Declarations \subseteq {d \in Declaration : ClaimsWhatItEmits(d)}
  /\ Records \subseteq [kind : Sources, scope : Scopes]
  /\ MaxDrop \in Nat
  /\ NoEntry \notin Entry
  /\ NoSource \notin SourceIds
  /\ NoSource \notin [kind : Sources, scope : Scopes]
  /\ IsFiniteSet(Keys)

VARIABLES sources,     \* _sources: id -> SourceRecord
          entry,       \* _categories: category -> accumulated entry
          facts,       \* _facts: category -> key -> winning source id
          alternates,  \* _alternates: (category, key, source id) kept as losers
          ledger,      \* the categories of the SourceLedger last built
          built,       \* ghost: `log' as it was at that build
          log          \* ghost: per category, the calls made so far

vars == <<sources, entry, facts, alternates, ledger, built, log>>

-----------------------------------------------------------------------------
(* Helpers.                                                                *)

IsDeclared(c) == entry[c] # NoEntry
FactKeys(c)   == {k \in Keys : facts[c][k] # NoSource}

Larger(a, b) == IF a >= b THEN a ELSE b

\* The first declare() of a category stores it as given.
Fresh(d) == [scope |-> d.scope, boundary |-> d.boundary, taint |-> d.taint,
             keys |-> d.keys, source_kinds |-> d.source_kinds,
             existence_licensed |-> d.existence_licensed,
             emitted |-> d.emitted, dropped |-> 0]

\* Mutants of Folded: contributing kinds replaced instead of united; the
\* entry's own boundary kept; the drop count reset by a re-declaration.
FoldedReplacingKinds(e, d) ==
  LET both == compose_scope({Contribution(e.scope, e.boundary),
                             Contribution(d.scope, d.boundary)})
  IN  [e EXCEPT !.scope = both.scope, !.boundary = both.boundary,
                !.source_kinds = d.source_kinds]
FoldedResettingDrops(e, d) == Fresh(d)

\* A later one is folded into what is there, two contributions at a time.
Folded(e, d) ==
  LET both == compose_scope({Contribution(e.scope, e.boundary),
                             Contribution(d.scope, d.boundary)})
  IN  [scope |-> both.scope, boundary |-> both.boundary,
       taint |-> compose_taint(e.taint, d.taint),
       keys |-> Larger(e.keys, d.keys),
       source_kinds |-> e.source_kinds \cup d.source_kinds,
       existence_licensed |-> e.existence_licensed /\ d.existence_licensed,
       emitted |-> e.emitted \/ d.emitted, dropped |-> e.dropped]

\* What build() makes of one category.
BuiltScope(c) ==
  CategoryScope([entry[c] EXCEPT
                   !.keys = Larger(entry[c].keys, Cardinality(FactKeys(c)))])

\* SourceLedger.scope_of: total, an undeclared category is UNCAPTURED.
scope_of(c) == IF ledger[c] = NoEntry THEN UNCAPTURED ELSE ledger[c]

-----------------------------------------------------------------------------
(* The builder's methods.                                                  *)

Init ==
  /\ sources    = [s \in SourceIds |-> NoSource]
  /\ entry      = [c \in Categories |-> NoEntry]
  /\ facts      = [c \in Categories |-> [k \in Keys |-> NoSource]]
  /\ alternates = {}
  /\ ledger     = [c \in Categories |-> NoEntry]
  /\ log        = [c \in Categories |-> [declared |-> {}, drops |-> 0]]
  /\ built      = log

\* source / add_source: declare, or silently re-declare, a source.
AddSource(s, r) ==
  /\ sources' = [sources EXCEPT ![s] = SourceRecord(r.kind, r.scope)]
  /\ UNCHANGED <<entry, facts, alternates, ledger, built, log>>

Declare(c, d) ==
  /\ entry' = [entry EXCEPT ![c] = IF IsDeclared(c) THEN Folded(@, d)
                                                    ELSE Fresh(d)]
  /\ log' = [log EXCEPT ![c].declared = @ \cup {d}]
  /\ UNCHANGED <<sources, facts, alternates, ledger, built>>

\* drop: raises on a category nobody declared.
Drop(c, count) ==
  /\ IsDeclared(c)
  /\ entry[c].dropped + count <= MaxDrop
  /\ entry' = [entry EXCEPT ![c].dropped = @ + count]
  /\ log' = [log EXCEPT ![c].drops = @ + count]
  /\ UNCHANGED <<sources, facts, alternates, ledger, built>>

\* fact: raises on an undeclared category and on an unknown source; a second
\* call for the key replaces the origin.
RecordFact(c, k, s) ==
  /\ IsDeclared(c)
  /\ sources[s] # NoSource
  /\ facts' = [facts EXCEPT ![c][k] = s]
  /\ UNCHANGED <<sources, entry, alternates, ledger, built, log>>

\* alternate: the losing record is kept; its source need not be known.
Alternate(c, k, s) ==
  /\ IsDeclared(c)
  /\ alternates' = alternates \cup {<<c, k, s>>}
  /\ UNCHANGED <<sources, entry, facts, ledger, built, log>>

Build ==
  /\ ledger' = [c \in Categories |-> IF IsDeclared(c) THEN BuiltScope(c)
                                                      ELSE NoEntry]
  /\ built' = log
  /\ UNCHANGED <<sources, entry, facts, alternates, log>>

Next ==
  \/ \E s \in SourceIds, r \in Records : AddSource(s, r)
  \/ \E c \in Categories, d \in Declarations : Declare(c, d)
  \/ \E c \in Categories, n \in 1..MaxDrop : Drop(c, n)
  \/ \E c \in Categories, k \in Keys, s \in SourceIds : RecordFact(c, k, s)
  \/ \E c \in Categories, k \in Keys, s \in SourceIds : Alternate(c, k, s)
  \/ Build

Spec == Init /\ [][Next]_vars

-----------------------------------------------------------------------------
(* Properties.                                                             *)

TypeOK ==
  /\ sources \in [SourceIds -> [kind : Sources, scope : Scopes] \cup {NoSource}]
  /\ entry \in [Categories -> Entry \cup {NoEntry}]
  /\ facts \in [Categories -> [Keys -> SourceIds \cup {NoSource}]]
  /\ alternates \subseteq Categories \X Keys \X SourceIds
  /\ ledger \in [Categories -> Entry \cup {NoEntry}]
  /\ log \in [Categories -> [declared : SUBSET Declarations, drops : Nat]]
  /\ built \in [Categories -> [declared : SUBSET Declarations, drops : Nat]]
\* A category whose absences a built ledger lets a check read as
\* non-existence (require_complete returns None) earned it from everything
\* that was said about it before that build: no record was dropped, no call
\* tainted it or withheld the licence, no terraform artifact contributed,
\* and somebody emitted it and called it complete in one declaration.
LicenceEarned ==
  \A c \in Categories : require_complete(scope_of(c)) = "" =>
    /\ built[c].drops = 0
    /\ \A d \in built[c].declared :
         /\ d.taint = "" /\ d.existence_licensed
         /\ d.source_kinds \cap TerraformSources = {}
    /\ \E d \in built[c].declared : d.scope = "complete" /\ d.emitted

\* A record that shows a known hole, a taint or a terraform contribution.
Blemished(r) ==
  r.dropped > 0 \/ r.taint # "" \/ r.source_kinds \cap TerraformSources # {}

\* Nothing the builder is told later undoes a known hole, a taint or a
\* terraform contribution: once a built ledger shows one, no later ledger of
\* the same builder licenses an absence in that category.
RefusalSticks ==
  [][\A c \in Categories :
       Blemished(scope_of(c)) => require_complete(scope_of(c)') # ""]_vars
=============================================================================
