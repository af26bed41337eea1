------------------------- MODULE CurrentState_proof -------------------------
(***************************************************************************)
(* Proofs about the merge engine (Merge) and the assembly of the current   *)
(* state around it (CurrentState), for every set of facts, sources, keys,  *)
(* policies and configurations.                                            *)
(***************************************************************************)
EXTENDS CurrentState, Provenance_proof, FiniteSetTheorems, SequenceTheorems,
        WellFoundedInduction

-----------------------------------------------------------------------------
(* Choices of a smallest member.                                           *)

\* A nonempty set of natural numbers has a smallest member.
LEMMA Smallest ==
  ASSUME NEW T \in SUBSET Nat, T # {}
  PROVE  \E m \in T : \A n \in T : m <= n
<1> DEFINE R == StrictSubsetOrdering(Nat)
           Below(m) == {n \in T : n <= m}
           B == {Below(m) : m \in T}
<1>1. IsWellFoundedOn(R, FiniteSubsetsOf(Nat))
  BY FS_StrictSubsetOrderingWellFounded
<1>2. B \subseteq FiniteSubsetsOf(Nat)
  <2>1. ASSUME NEW m \in T  PROVE IsFiniteSet(Below(m))
    BY FS_BoundedSetOfNaturals
  <2> QED BY <2>1 DEF FiniteSubsetsOf
<1>3. PICK U \in B : \A V \in B : ~(<<V, U>> \in R)
  <2>1. B # {}
    OBVIOUS
  <2> HIDE DEF R, B
  <2> QED BY <1>1, <1>2, <2>1, WFMin
<1>4. PICK m \in T : U = Below(m)
  OBVIOUS
<1>5. ASSUME NEW n \in T, ~(m <= n)  PROVE FALSE
  <2>0. m \in Nat /\ n \in Nat /\ n < m
    BY <1>5
  <2>1. Below(n) \subseteq U /\ m \in U /\ m \notin Below(n)
    <3>1. ASSUME NEW x \in T, x <= n  PROVE x <= m
      BY <2>0, <3>1
    <3>2. m <= m /\ ~(m <= n)
      BY <2>0
    <3> QED BY <1>4, <3>1, <3>2
  <2>2. <<Below(n), U>> \in R
    BY <2>1, <1>4 DEF StrictSubsetOrdering
  <2> QED BY <2>2, <1>3
<1> QED BY <1>5

\* So a measure has a minimum, and a set is never without a least element.
LEMMA SmallestBy ==
  ASSUME NEW S, S # {}, NEW m \in [S -> Nat]
  PROVE  \E x \in S : \A y \in S : m[x] <= m[y]
<1>1. {m[x] : x \in S} \in SUBSET Nat /\ {m[x] : x \in S} # {}
  OBVIOUS
<1>2. PICK b \in {m[x] : x \in S} : \A n \in {m[x] : x \in S} : b <= n
  <2> DEFINE I == {m[x] : x \in S}
  <2>1. I \in SUBSET Nat /\ I # {}
    BY <1>1
  <2> HIDE DEF I
  <2>2. \E b \in I : \A n \in I : b <= n
    BY <2>1, Smallest
  <2> QED BY <2>2 DEF I
<1> QED BY <1>2

-----------------------------------------------------------------------------
(* The merge engine.  Accounted and DisagreementIsReported speak of the    *)
(* end of a call; what carries them there says, at every step, what kept   *)
(* and dropped hold, that the groups of the kept facts are resolved or     *)
(* withheld but never both, what a resolution holds, and that what is      *)
(* resolved so far is reported so far.                                     *)

RecordsOf(c, k) == [s \in Origins(Group(c, k)) |-> assemble(OfSource(Group(c, k), s))]
WinnerOf(c, k) == First(Origins(Group(c, k)), in.policy[c])
RecordOf(c, k) ==
  backfill(RecordsOf(c, k), WinnerOf(c, k), OfSource(Group(c, k), WinnerOf(c, k)),
           in.policy[c])
FoundFor(c, k) ==
  PairDisputes(c, k, WinnerOf(c, k), RecordsOf(c, k), RecordOf(c, k))

Withheld == UNION {Group(g[1], g[2]) : g \in declared_not_applied}

\* Which facts take part, and which do not.
Partitioned ==
  /\ pc \in {"partition", "canonicalise", "resolve", "mismatch", "compose", "done"}
  /\ pc = "partition" => kept = {} /\ dropped = {}
  /\ pc # "partition" => /\ kept = {f \in in.facts : ~never_current(f)}
                         /\ dropped = (in.facts \ kept) \cup Withheld

\* Which groups are settled, and which way.
Grouped ==
  /\ pc \in {"partition", "canonicalise"} => DOMAIN pending = {} /\ declared_not_applied = {}
  /\ DOMAIN pending \cup declared_not_applied \subseteq Groups
  /\ DOMAIN pending \cap declared_not_applied = {}
  /\ pc \in {"mismatch", "compose", "done"} =>
       Groups \subseteq DOMAIN pending \cup declared_not_applied
  /\ \A g \in declared_not_applied :
       g[1] \in FlatCategories /\ emitting(Group(g[1], g[2])) = {}

\* What a resolution holds.
Resolution(p) ==
  /\ pending[p] = [record |-> pending[p].record, source_id |-> pending[p].source_id,
                   contributors |-> Group(p[1], p[2]), taint |-> pending[p].taint]
  /\ pending[p].taint \in Taints
  /\ p[1] \in Categories
  /\ p[1] \in TableCategories => pending[p].record = RecordOf(p[1], p[2])

\* What is reported about a disagreement over p.
Disagree(p, s, t, n) ==
  LET a == SourceRecordAt(p, s)[n]   b == SourceRecordAt(p, t)[n]
      r == pending[p].record[n]
  IN  /\ Stated(a) /\ Stated(b) /\ r # Missing
      /\ IF n \in ListFields
         THEN Stated(r) /\ \E i \in r \ a, j \in a \ r : slot[i] = slot[j]
         ELSE a # b
Tainted(p) == pending[p].taint # ""
Serious(d) == d.severity \in {"material", "unmergeable"}
ReportedAt(p) ==
  p[1] \in TableCategories =>
    \A s, t \in Sources_of(p), n \in MaterialFields :
      Disagree(p, s, t, n) => Tainted(p) /\ \E d \in DisputesAt(p) : Serious(d)

Resolved == \A p \in DOMAIN pending : Resolution(p)
Reported == \A p \in DOMAIN pending : ReportedAt(p)

\* Step 10, as one value.
ComposedScopes ==
  [c \in {d \in Categories : sources_over(d) # {}} |->
     LET claims == {Contribution(scope_of(s, c), in.sources[s].boundary) :
                      s \in sources_over(c)}
     IN  Contribution(CapTerraform({kind(s) : s \in sources_over(c)},
                                   ComposedScope(claims)),
                      ComposedBoundary(claims))]
Scoped == pc = "done" => scopes = ComposedScopes

EngineInv == Partitioned /\ Grouped /\ Resolved /\ Reported /\ Scoped

\* A taint composed with another is no milder than either.
LEMMA TaintStays ==
  ASSUME NEW t \in Taints, NEW w \in Taints, t # "" \/ w # ""
  PROVE  compose_taint(t, w) \in Taints /\ compose_taint(t, w) # ""
<1>1. /\ compose_taint(t, w) \in Taints
      /\ taint_rank[t] <= taint_rank[compose_taint(t, w)]
      /\ taint_rank[w] <= taint_rank[compose_taint(t, w)]
  BY ComposeTaint
<1>2. ASSUME compose_taint(t, w) = ""  PROVE t = "" /\ w = ""
  BY <1>1, <1>2, TaintRank
<1> QED BY <1>1, <1>2

\* The taint of a set of disputes is a taint.
LEMMA TaintFromIsTaint == \A D : TaintFrom(D) \in Taints
BY DEF TaintFrom, Taints

\* Every group is named by the category and the canonical key of its facts.
LEMMA GroupIsItsName ==
  ASSUME NEW g \in Groups
  PROVE  /\ g = <<g[1], g[2]>>
         /\ \E f \in Group(g[1], g[2]) : f.category = g[1] /\ KeyOf(f) = g[2]
         /\ \A f \in Group(g[1], g[2]) : g = <<f.category, KeyOf(f)>> /\ f \in kept
BY DEF Groups, Group

\* A call begins with nothing resolved.
LEMMA EngineStarts ==
  ASSUME pc = "partition", kept = {}, dropped = {}, pending = <<>>,
         declared_not_applied = {}
  PROVE  EngineInv
<1>1. DOMAIN pending = {}
  OBVIOUS
<1>2. Partitioned /\ Grouped /\ Scoped
  BY <1>1 DEF Partitioned, Grouped, Scoped
<1>3. Resolved /\ Reported
  BY <1>1 DEF Resolved, Reported
<1> QED BY <1>2, <1>3 DEF EngineInv

\* What is said of the kept facts stands for as long as they and the
\* arguments of the call do.
LEMMA GroupsStand ==
  ASSUME UNCHANGED <<in, kept>>
  PROVE  /\ Groups' = Groups
         /\ \A c, k : Group(c, k)' = Group(c, k)
         /\ \A G : emitting(G)' = emitting(G)
         /\ \A s, c : contributed(s, c)' = contributed(s, c)
         /\ \A s : kind(s)' = kind(s)
BY DEF Groups, Group, emitting, Observes, kind, contributed

LEMMA FirstStands ==
  ASSUME UNCHANGED <<in, kept>>
  PROVE  \A S, mode : First(S, mode)' = First(S, mode)
<1>1. \A s, t, mode : Precedes(s, t, mode)' = Precedes(s, t, mode)
  BY DEF Precedes, kind
<1> QED BY <1>1 DEF First

LEMMA RecordStands ==
  ASSUME UNCHANGED <<in, kept>>, NEW c, NEW k
  PROVE  RecordOf(c, k)' = RecordOf(c, k)
<1>1. Group(c, k)' = Group(c, k)
  BY GroupsStand
<1>2. WinnerOf(c, k)' = WinnerOf(c, k)
  BY <1>1, FirstStands DEF WinnerOf
<1>3. RecordsOf(c, k)' = RecordsOf(c, k)
  BY <1>1 DEF RecordsOf
<1> QED BY <1>1, <1>2, <1>3, FirstStands DEF RecordOf, backfill

\* A resolution that keeps its record, its contributors and its taint is
\* reported on as long as no dispute is withdrawn.
LEMMA ReportStands ==
  ASSUME NEW p, ReportedAt(p),
         pending'[p].record = pending[p].record,
         pending'[p].contributors = pending[p].contributors,
         Tainted(p) => Tainted(p)', disputes \subseteq disputes'
  PROVE  ReportedAt(p)'
<1>1. Sources_of(p)' = Sources_of(p)
  BY DEF Sources_of
<1>2. ASSUME NEW s, NEW t, NEW n
      PROVE  Disagree(p, s, t, n)' <=> Disagree(p, s, t, n)
  BY DEF Disagree, SourceRecordAt
<1>3. DisputesAt(p) \subseteq DisputesAt(p)'
  BY DEF DisputesAt
<1> QED BY <1>1, <1>2, <1>3 DEF ReportedAt, Serious

\* Steps that leave the kept facts and the resolutions alone.
LEMMA ResolutionsStand ==
  ASSUME Resolved, UNCHANGED <<in, kept, pending>>
  PROVE  Resolved'
<1>1. ASSUME NEW p \in DOMAIN pending  PROVE Resolution(p)'
  <2>1. Group(p[1], p[2])' = Group(p[1], p[2])
    BY GroupsStand
  <2>2. RecordOf(p[1], p[2])' = RecordOf(p[1], p[2])
    BY RecordStands
  <2> QED BY <2>1, <2>2 DEF Resolved, Resolution
<1> QED BY <1>1 DEF Resolved

LEMMA ReportsStand ==
  ASSUME Reported, UNCHANGED pending, disputes \subseteq disputes'
  PROVE  Reported'
<1>1. ASSUME NEW p \in DOMAIN pending  PROVE ReportedAt(p)'
  <2>1. Tainted(p)' <=> Tainted(p)
    BY DEF Tainted
  <2> QED BY <2>1, ReportStands DEF Reported
<1> QED BY <1>1 DEF Reported

\* Steps 1 and 2.
LEMMA PartitionKeepsInv == ASSUME EngineInv, Partition PROVE EngineInv'
<1>1. DOMAIN pending = {} /\ declared_not_applied = {}
  BY DEF EngineInv, Grouped, Partition
<1>2. DOMAIN pending' = {} /\ declared_not_applied' = {}
  BY <1>1 DEF Partition
<1>3. Withheld' = {}
  BY <1>2 DEF Withheld
<1>4. Partitioned'
  BY <1>3 DEF Partition, Partitioned
<1>5. Grouped' /\ Resolved' /\ Reported' /\ Scoped'
  BY <1>2 DEF Grouped, Resolved, Reported, Scoped, Partition
<1> QED BY <1>4, <1>5 DEF EngineInv

LEMMA CanonicaliseKeepsInv == ASSUME EngineInv, Canonicalise PROVE EngineInv'
<1>1. /\ DOMAIN pending = {} /\ declared_not_applied = {}
      /\ pc = "canonicalise" /\ pc' = "resolve"
      /\ UNCHANGED <<in, kept, dropped, pending, declared_not_applied, scopes>>
  BY DEF EngineInv, Grouped, Canonicalise
<1>2. Withheld' = {} /\ Withheld = {}
  BY <1>1 DEF Withheld
<1>3. Partitioned'
  BY <1>1, <1>2 DEF EngineInv, Partitioned
<1>4. Grouped' /\ Resolved' /\ Reported' /\ Scoped'
  BY <1>1 DEF Grouped, Resolved, Reported, Scoped
<1> QED BY <1>3, <1>4 DEF EngineInv

-----------------------------------------------------------------------------
(* Steps 4 to 7: a disagreement is found whoever wins.                     *)

\* Two records that differ in a security field compare as different there, or
\* as a whole.
LEMMA ComparisonFinds ==
  ASSUME NEW left, NEW right, NEW n \in MaterialFields,
         left[n] # Missing, right[n] # Missing, Differ(n, left[n], right[n])
  PROVE  \E e \in compare(left, right) : e[2] \in {"material", "unmergeable"}
<1>1. CASE Incomparable(left) \/ Incomparable(right)
  <2>1. \E x : compare(left, right) = {<<x, "unmergeable">>}
    BY <1>1 DEF compare
  <2> QED BY <2>1
<1>2. CASE ~(Incomparable(left) \/ Incomparable(right))
  <2>1. left # right
    BY DEF Differ
  <2>2. compare(left, right) =
          {<<m, severity_of(m)>> : m \in {m \in Fields :
                   /\ left[m] # Missing /\ right[m] # Missing
                   /\ Differ(m, left[m], right[m]) \/ severity_of(m) = "unmergeable"}}
    BY <1>2, <2>1 DEF compare
  <2>3. n \in Fields /\ severity_of(n) = "material"
    BY MergeAssumption DEF severity_of
  <2>4. <<n, severity_of(n)>> \in compare(left, right)
    BY <2>2, <2>3
  <2> QED BY <2>3, <2>4
<1> QED BY <1>1, <1>2

\* What the winner states it keeps: only what it left open is filled in.
LEMMA WinnerKeepsItsWord ==
  ASSUME NEW c, NEW k, NEW n \in Fields,
         Stated(RecordsOf(c, k)[WinnerOf(c, k)][n])
  PROVE  RecordOf(c, k)[n] = RecordsOf(c, k)[WinnerOf(c, k)][n]
<1>1. ~needs_backfill(RecordsOf(c, k)[WinnerOf(c, k)],
                      OfSource(Group(c, k), WinnerOf(c, k)), n)
  BY DEF needs_backfill, Stated
<1> QED BY <1>1 DEF RecordOf, backfill

\* So a contributor whose stated value is not the resolution's lost, and the
\* comparison with it finds the field.
LEMMA LoserIsReported ==
  ASSUME NEW c, NEW k, NEW s \in Origins(Group(c, k)), NEW n \in MaterialFields,
         Stated(RecordsOf(c, k)[s][n]), RecordOf(c, k)[n] # Missing,
         Differ(n, RecordOf(c, k)[n], RecordsOf(c, k)[s][n])
  PROVE  \E d \in FoundFor(c, k) : d.category = c /\ d.key = k /\ Serious(d)
<1> DEFINE left == RecordOf(c, k)   right == RecordsOf(c, k)[s]
<1>1. n \in Fields
  BY MergeAssumption
<1>2. left[n] # right[n]
  BY DEF Differ
<1>3. s # WinnerOf(c, k)
  BY <1>1, <1>2, WinnerKeepsItsWord
<1>4. PICK e \in compare(left, right) : e[2] \in {"material", "unmergeable"}
  BY ComparisonFinds DEF Stated
<1>5. s \in DOMAIN RecordsOf(c, k) \ {WinnerOf(c, k)}
  BY <1>3 DEF RecordsOf
<1>6. Dispute(c, k, e[1], e[2], WinnerOf(c, k), s) \in FoundFor(c, k)
  <2> HIDE DEF left, right
  <2>1. e \in compare(RecordOf(c, k), RecordsOf(c, k)[s])
    BY <1>4 DEF left, right
  <2> QED BY <1>5, <2>1 DEF FoundFor, PairDisputes
<1> QED BY <1>4, <1>6 DEF Dispute, Serious

-----------------------------------------------------------------------------
(* One group settled.                                                      *)

AliasTaint(c, k) == IF UnresolvedAlias(c, k) THEN "unmergeable" ELSE ""

\* Steps that settle one group with a resolution that reports.
LEMMA SettledKeepsInv ==
  ASSUME EngineInv, NEW c, NEW k, <<c, k>> \in Unresolved, c \in Categories,
         NEW rec, NEW source_id, NEW taint \in Taints,
         c \in TableCategories => rec = RecordOf(c, k),
         pc = "resolve",
         UNCHANGED <<in, pc, kept, dropped, declared_not_applied, scopes>>,
         disputes \subseteq disputes',
         pending' = [p \in DOMAIN pending \cup {<<c, k>>} |->
           IF p # <<c, k>> THEN pending[p]
           ELSE [record |-> rec, source_id |-> source_id,
                 contributors |-> Group(c, k), taint |-> taint]],
         ReportedAt(<<c, k>>)'
  PROVE  EngineInv'
<1>1. /\ DOMAIN pending' = DOMAIN pending \cup {<<c, k>>}
      /\ <<c, k>> \notin DOMAIN pending /\ <<c, k>> \notin declared_not_applied
      /\ <<c, k>> \in Groups
      /\ \A p \in DOMAIN pending : pending'[p] = pending[p]
  BY DEF Unresolved
<1>2. Partitioned' /\ Scoped'
  <2>1. Withheld' = Withheld
    BY GroupsStand DEF Withheld
  <2> QED BY <2>1 DEF EngineInv, Partitioned, Scoped
<1>3. Grouped'
  <2>1. \A g : emitting(Group(g[1], g[2]))' = emitting(Group(g[1], g[2]))
    BY GroupsStand
  <2> QED BY <1>1, <2>1, GroupsStand DEF EngineInv, Grouped
<1>4. Resolved'
  <2>1. ASSUME NEW p \in DOMAIN pending'  PROVE Resolution(p)'
    <3>1. Group(p[1], p[2])' = Group(p[1], p[2]) /\ RecordOf(p[1], p[2])' = RecordOf(p[1], p[2])
      BY GroupsStand, RecordStands
    <3>2. CASE p \in DOMAIN pending
      <4>1. pending'[p] = pending[p] /\ Resolution(p)
        BY <1>1, <3>2 DEF EngineInv, Resolved
      <4> QED BY <3>1, <4>1 DEF Resolution
    <3>3. CASE p = <<c, k>>
      <4>1. pending'[p] = [record |-> rec, source_id |-> source_id,
                           contributors |-> Group(c, k), taint |-> taint]
        BY <3>3
      <4> QED BY <3>1, <3>3, <4>1 DEF Resolution
    <3> QED BY <1>1, <3>2, <3>3
  <2> QED BY <2>1 DEF Resolved
<1>5. Reported'
  <2>1. ASSUME NEW p \in DOMAIN pending'  PROVE ReportedAt(p)'
    <3>1. CASE p = <<c, k>>
      BY <3>1
    <3>2. CASE p \in DOMAIN pending
      <4>1. pending'[p] = pending[p] /\ ReportedAt(p)
        BY <1>1, <3>2 DEF EngineInv, Reported
      <4>2. Tainted(p)' <=> Tainted(p)
        BY <4>1 DEF Tainted
      <4> QED BY <4>1, <4>2, ReportStands
    <3> QED BY <1>1, <3>1, <3>2
  <2> QED BY <2>1 DEF Reported
<1> QED BY <1>2, <1>3, <1>4, <1>5 DEF EngineInv

\* Disputes that include a serious one taint.
LEMMA SeriousTaints ==
  ASSUME NEW D, \E d \in D : Serious(d)
  PROVE  TaintFrom(D) # ""
BY DEF TaintFrom, Serious

LEMMA ResolveTableKeepsInv ==
  ASSUME EngineInv, NEW c, NEW k, ResolveTable(c, k)
  PROVE  EngineInv'
<1> DEFINE taint == compose_taint(TaintFrom(FoundFor(c, k)), AliasTaint(c, k))
<1>1. /\ pc = "resolve" /\ <<c, k>> \in Unresolved /\ c \in TableCategories
      /\ UNCHANGED <<in, pc, kept, dropped, declared_not_applied, scopes>>
      /\ disputes' = disputes \cup FoundFor(c, k)
  BY DEF ResolveTable, RecordOf, RecordsOf, WinnerOf, FoundFor
<1>2. pending' = [p \in DOMAIN pending \cup {<<c, k>>} |->
           IF p # <<c, k>> THEN pending[p]
           ELSE [record |-> RecordOf(c, k), source_id |-> WinnerOf(c, k),
                 contributors |-> Group(c, k), taint |-> taint]]
  BY DEF ResolveTable, RecordOf, RecordsOf, WinnerOf, FoundFor, AliasTaint
<1>3. AliasTaint(c, k) \in Taints /\ TaintFrom(FoundFor(c, k)) \in Taints
  BY TaintFromIsTaint DEF AliasTaint, Taints
<1>4. taint \in Taints
  BY <1>3, ComposeTaint
<1>5. /\ pending'[<<c, k>>].record = RecordOf(c, k)
      /\ pending'[<<c, k>>].contributors = Group(c, k)
      /\ pending'[<<c, k>>].taint = taint
  <2> HIDE DEF taint
  <2> QED BY <1>2
<1>6. ReportedAt(<<c, k>>)'
  <2> DEFINE p == <<c, k>>
  <2>1. Sources_of(p)' = Origins(Group(c, k))
    BY <1>5 DEF Sources_of
  <2>2. ASSUME NEW s \in Origins(Group(c, k))
        PROVE  SourceRecordAt(p, s)' = RecordsOf(c, k)[s]
    BY <1>5 DEF SourceRecordAt, RecordsOf
  <2>3. ASSUME NEW s \in Origins(Group(c, k)), NEW t \in Origins(Group(c, k)),
               NEW n \in MaterialFields, Disagree(p, s, t, n)'
        PROVE  \E d \in FoundFor(c, k) : d.category = c /\ d.key = k /\ Serious(d)
    <3> DEFINE a == RecordsOf(c, k)[s][n]   b == RecordsOf(c, k)[t][n]
               r == RecordOf(c, k)[n]
    <3>1. /\ Stated(a) /\ Stated(b) /\ r # Missing
          /\ IF n \in ListFields
             THEN Stated(r) /\ \E i \in r \ a, j \in a \ r : slot[i] = slot[j]
             ELSE a # b
      BY <1>5, <2>2, <2>3 DEF Disagree
    <3>2. CASE Differ(n, r, a)
      <4> HIDE DEF b
      <4> QED BY <3>1, <3>2, LoserIsReported
    <3>3. CASE Differ(n, r, b)
      <4> HIDE DEF a
      <4> QED BY <3>1, <3>3, LoserIsReported
    <3>4. Differ(n, r, a) \/ Differ(n, r, b)
      <4> HIDE DEF a, b, r
      <4> QED BY <3>1 DEF Differ
    <3> QED BY <3>2, <3>3, <3>4
  <2>4. (\E d \in FoundFor(c, k) : Serious(d)) => Tainted(p)'
    <3>1. ASSUME \E d \in FoundFor(c, k) : Serious(d)  PROVE taint # ""
      BY <1>3, <3>1, SeriousTaints, TaintStays
    <3> QED BY <1>5, <3>1 DEF Tainted
  <2>5. \A d \in FoundFor(c, k) : d.category = c /\ d.key = k => d \in DisputesAt(p)'
    BY <1>1 DEF DisputesAt
  <2> QED BY <2>1, <2>3, <2>4, <2>5 DEF ReportedAt, Serious
<1>7. c \in Categories
  BY <1>1 DEF Categories
<1> HIDE DEF taint
<1> QED BY <1>1, <1>2, <1>4, <1>6, <1>7, SettledKeepsInv

LEMMA EmitFlatKeepsInv ==
  ASSUME EngineInv, NEW c, NEW k, EmitFlat(c, k)
  PROVE  EngineInv'
<1> DEFINE source_id == First(emitting(Group(c, k)), "highest-fidelity-wins")
<1>1. /\ pc = "resolve" /\ <<c, k>> \in Unresolved /\ c \in FlatCategories
      /\ UNCHANGED <<in, pc, kept, dropped, declared_not_applied, scopes, disputes>>
  BY DEF EmitFlat
<1>2. pending' = [p \in DOMAIN pending \cup {<<c, k>>} |->
           IF p # <<c, k>> THEN pending[p]
           ELSE [record |-> NoRecord, source_id |-> source_id,
                 contributors |-> Group(c, k), taint |-> AliasTaint(c, k)]]
  BY DEF EmitFlat, AliasTaint
<1>3. AliasTaint(c, k) \in Taints
  BY DEF AliasTaint, Taints
<1>4. c \in Categories /\ c \notin TableCategories
  BY <1>1, MergeAssumption DEF Categories
<1>5. ReportedAt(<<c, k>>)'
  BY <1>4 DEF ReportedAt
<1> HIDE DEF source_id
<1> QED BY <1>1, <1>2, <1>3, <1>4, <1>5, SettledKeepsInv

LEMMA WithholdFlatKeepsInv ==
  ASSUME EngineInv, NEW c, NEW k, WithholdFlat(c, k)
  PROVE  EngineInv'
<1>1. /\ pc = "resolve" /\ <<c, k>> \in Unresolved /\ c \in FlatCategories
      /\ emitting(Group(c, k)) = {}
      /\ declared_not_applied' = declared_not_applied \cup {<<c, k>>}
      /\ dropped' = dropped \cup Group(c, k)
      /\ UNCHANGED <<in, pc, kept, pending, disputes, scopes>>
  BY DEF WithholdFlat
<1>2. Withheld' = Withheld \cup Group(c, k)
  BY <1>1, GroupsStand DEF Withheld
<1>3. Partitioned' /\ Scoped'
  BY <1>1, <1>2 DEF EngineInv, Partitioned, Scoped
<1>4. Grouped'
  <2>1. \A g : emitting(Group(g[1], g[2]))' = emitting(Group(g[1], g[2]))
    BY <1>1, GroupsStand
  <2> QED BY <1>1, <2>1, GroupsStand DEF EngineInv, Grouped, Unresolved
<1>5. Resolved' /\ Reported'
  BY <1>1, ResolutionsStand, ReportsStand DEF EngineInv
<1> QED BY <1>3, <1>4, <1>5 DEF EngineInv

\* Step 8 adds disputes and raises taints.
LEMMA ExistenceKeepsInv == ASSUME EngineInv, Existence PROVE EngineInv'
<1> DEFINE found(p) == existence_disputes(p[1], p[2])
<1>1. /\ pc = "resolve" /\ pc' = "mismatch" /\ Unresolved = {}
      /\ disputes \subseteq disputes'
      /\ UNCHANGED <<in, kept, dropped, declared_not_applied, scopes>>
      /\ pending' = [p \in DOMAIN pending |->
           [pending[p] EXCEPT !.taint = compose_taint(@, TaintFrom(found(p)))]]
  BY DEF Existence
<1>2. ASSUME NEW p \in DOMAIN pending
      PROVE  pending'[p] = [record |-> pending[p].record,
                            source_id |-> pending[p].source_id,
                            contributors |-> Group(p[1], p[2]),
                            taint |-> compose_taint(pending[p].taint, TaintFrom(found(p)))]
  <2>1. pending[p] = [record |-> pending[p].record, source_id |-> pending[p].source_id,
                      contributors |-> Group(p[1], p[2]), taint |-> pending[p].taint]
    BY DEF EngineInv, Resolved, Resolution
  <2> HIDE DEF found
  <2> QED BY <1>1, <2>1
<1>3. DOMAIN pending' = DOMAIN pending
  <2> HIDE DEF found
  <2> QED BY <1>1
<1>4. Partitioned' /\ Scoped'
  <2>1. Withheld' = Withheld
    BY <1>1, GroupsStand DEF Withheld
  <2> QED BY <1>1, <2>1 DEF EngineInv, Partitioned, Scoped
<1>5. Grouped'
  <2>1. \A g : emitting(Group(g[1], g[2]))' = emitting(Group(g[1], g[2]))
    BY <1>1, GroupsStand
  <2>2. Groups \subseteq DOMAIN pending \cup declared_not_applied
    BY <1>1 DEF Unresolved
  <2> QED BY <1>1, <1>3, <2>1, <2>2, GroupsStand DEF EngineInv, Grouped
<1>6. ASSUME NEW p \in DOMAIN pending  PROVE Resolution(p)' /\ ReportedAt(p)'
  <2>1. Resolution(p) /\ ReportedAt(p)
    BY DEF EngineInv, Resolved, Reported
  <2>2. pending[p].taint \in Taints /\ TaintFrom(found(p)) \in Taints
    BY <2>1, TaintFromIsTaint DEF Resolution
  <2>3. /\ pending'[p].record = pending[p].record
        /\ pending'[p].contributors = Group(p[1], p[2])
        /\ pending[p].contributors = Group(p[1], p[2])
        /\ pending'[p].source_id = pending[p].source_id
        /\ pending'[p].taint = compose_taint(pending[p].taint, TaintFrom(found(p)))
    <3> DEFINE taint == compose_taint(pending[p].taint, TaintFrom(found(p)))
               old == pending[p]
    <3>1. pending'[p] = [record |-> old.record, source_id |-> old.source_id,
                         contributors |-> Group(p[1], p[2]), taint |-> taint]
      BY <1>2
    <3>2. old.contributors = Group(p[1], p[2])
      BY <2>1 DEF Resolution
    <3>3. pending[p] = old
      OBVIOUS
    <3>4. taint = compose_taint(pending[p].taint, TaintFrom(found(p)))
      OBVIOUS
    <3> HIDE DEF found, taint, old
    <3> QED BY <3>1, <3>2, <3>3, <3>4
  <2>4. Group(p[1], p[2])' = Group(p[1], p[2]) /\ RecordOf(p[1], p[2])' = RecordOf(p[1], p[2])
    BY <1>1, GroupsStand, RecordStands
  <2>5. compose_taint(pending[p].taint, TaintFrom(found(p))) \in Taints
    BY <2>2, ComposeTaint
  <2>6. Resolution(p)'
    <3> HIDE DEF found
    <3> QED BY <1>2, <2>1, <2>3, <2>4, <2>5 DEF Resolution
  <2>7. Tainted(p) => Tainted(p)'
    BY <2>2, <2>3, TaintStays DEF Tainted
  <2>8. ReportedAt(p)'
    <3> HIDE DEF found
    <3> QED BY <1>1, <2>1, <2>3, <2>7, ReportStands
  <2> QED BY <2>6, <2>8
<1>7. Resolved' /\ Reported'
  BY <1>3, <1>6 DEF Resolved, Reported
<1> QED BY <1>4, <1>5, <1>7 DEF EngineInv

\* Steps 9a and 10 read what was resolved.
LEMMA LastStepsKeepInv ==
  ASSUME EngineInv, KeyMismatch \/ ComposeScopes
  PROVE  EngineInv'
<1>1. /\ pc \in {"mismatch", "compose"} /\ pc' \in {"compose", "done"}
      /\ UNCHANGED <<in, kept, dropped, pending, disputes, declared_not_applied>>
  BY DEF KeyMismatch, ComposeScopes
<1>2. Scoped'
  <2>1. CASE KeyMismatch
    BY <2>1 DEF KeyMismatch, Scoped
  <2>2. CASE ComposeScopes
    <3>1. ComposedScopes' = ComposedScopes
      BY <1>1 DEF ComposedScopes, sources_over, scope_of, ClaimedScope, contributed, kind
    <3>2. scopes' = ComposedScopes
      BY <2>2 DEF ComposeScopes, ComposedScopes
    <3> QED BY <3>1, <3>2 DEF Scoped
  <2> QED BY <2>1, <2>2
<1>3. Partitioned'
  <2>1. Withheld' = Withheld
    BY <1>1, GroupsStand DEF Withheld
  <2> QED BY <1>1, <2>1 DEF EngineInv, Partitioned
<1>4. Grouped'
  <2>1. \A g : emitting(Group(g[1], g[2]))' = emitting(Group(g[1], g[2]))
    BY <1>1, GroupsStand
  <2> QED BY <1>1, <2>1, GroupsStand DEF EngineInv, Grouped
<1>5. Resolved' /\ Reported'
  BY <1>1, ResolutionsStand, ReportsStand DEF EngineInv
<1> QED BY <1>2, <1>3, <1>4, <1>5 DEF EngineInv

LEMMA EngineStep == ASSUME EngineInv, [Next]_vars PROVE EngineInv'
<1>1. CASE Partition
  BY <1>1, PartitionKeepsInv
<1>2. CASE Canonicalise
  BY <1>2, CanonicaliseKeepsInv
<1>3. ASSUME NEW c \in Categories, NEW k \in Keys, ResolveTable(c, k)  PROVE EngineInv'
  BY <1>3, ResolveTableKeepsInv
<1>4. ASSUME NEW c \in Categories, NEW k \in Keys, WithholdFlat(c, k)  PROVE EngineInv'
  BY <1>4, WithholdFlatKeepsInv
<1>5. ASSUME NEW c \in Categories, NEW k \in Keys, EmitFlat(c, k)  PROVE EngineInv'
  BY <1>5, EmitFlatKeepsInv
<1>6. CASE Existence
  BY <1>6, ExistenceKeepsInv
<1>7. CASE KeyMismatch \/ ComposeScopes
  BY <1>7, LastStepsKeepInv
<1>8. CASE UNCHANGED vars
  <2>1. UNCHANGED <<in, pc, kept, dropped, pending, disputes, declared_not_applied, scopes>>
    BY <1>8 DEF vars
  <2>2. Withheld' = Withheld /\ ComposedScopes' = ComposedScopes
    BY <2>1, GroupsStand DEF Withheld, ComposedScopes, sources_over, scope_of,
                             ClaimedScope, contributed, kind
  <2>3. \A g : emitting(Group(g[1], g[2]))' = emitting(Group(g[1], g[2]))
    BY <2>1, GroupsStand
  <2>4. Partitioned' /\ Scoped'
    BY <2>1, <2>2 DEF EngineInv, Partitioned, Scoped
  <2>5. Grouped'
    BY <2>1, <2>3, GroupsStand DEF EngineInv, Grouped
  <2> QED BY <2>1, <2>4, <2>5, ResolutionsStand, ReportsStand DEF EngineInv
<1> QED BY <1>1, <1>2, <1>3, <1>4, <1>5, <1>6, <1>7, <1>8 DEF Next

\* No fact of a call is lost or used twice: at its end each fact is in the
\* contributors of exactly one resolution, or dropped (merge.py,
\* _check_accounting).
THEOREM NothingEvaporates == Spec => []Accounted
<1>1. Init => EngineInv
  BY EngineStarts DEF Init
<1>2. EngineInv => Accounted
  <2> SUFFICES ASSUME EngineInv, Done, NEW f \in in.facts
               PROVE  LET uses == {p \in DOMAIN pending : f \in pending[p].contributors}
                      IN  IF f \in dropped THEN uses = {} ELSE Cardinality(uses) = 1
    BY DEF Accounted
  <2> DEFINE g == <<f.category, KeyOf(f)>>
             uses == {p \in DOMAIN pending : f \in pending[p].contributors}
  <2>1. /\ kept = {h \in in.facts : ~never_current(h)}
        /\ dropped = (in.facts \ kept) \cup Withheld
        /\ Groups = DOMAIN pending \cup declared_not_applied
        /\ DOMAIN pending \cap declared_not_applied = {}
    BY DEF EngineInv, Partitioned, Grouped, Done
  <2>2. \A p \in Groups : f \in Group(p[1], p[2]) => p = g /\ f \in kept
    BY GroupIsItsName
  <2>3. \A p \in DOMAIN pending : pending[p].contributors = Group(p[1], p[2])
    BY DEF EngineInv, Resolved, Resolution
  <2>4. \A p \in uses : p = g /\ f \in kept
    BY <2>1, <2>2, <2>3
  <2>5. CASE f \in dropped
    <3>1. ASSUME NEW p \in uses  PROVE FALSE
      <4>1. p = g /\ f \in kept /\ p \in DOMAIN pending
        BY <2>4
      <4>2. PICK q \in declared_not_applied : f \in Group(q[1], q[2])
        BY <2>1, <2>5, <4>1 DEF Withheld
      <4>3. q = g
        BY <2>1, <2>2, <4>2
      <4> QED BY <2>1, <4>1, <4>3
    <3> QED BY <2>5, <3>1
  <2>6. CASE f \notin dropped
    <3>1. f \in kept /\ g \in Groups /\ f \in Group(g[1], g[2])
      BY <2>1, <2>6 DEF Groups, Group
    <3>2. g \notin declared_not_applied
      BY <2>1, <2>6, <3>1 DEF Withheld
    <3>3. g \in uses
      BY <2>1, <2>3, <3>1, <3>2
    <3>4. uses = {g}
      <4> HIDE DEF uses, g
      <4> QED BY <2>4, <3>3
    <3>5. Cardinality(uses) = 1
      <4> HIDE DEF uses, g
      <4> QED BY <3>4, FS_Singleton
    <3> QED BY <2>6, <3>5
  <2> QED BY <2>5, <2>6
<1> QED BY <1>1, <1>2, EngineStep, PTL DEF Spec

\* Whatever the precedence mode, a stated security field on which two sources
\* disagree is disputed and tainted, or the key as a whole is.
THEOREM DisagreementsSurface == Spec => []DisagreementIsReported
<1>1. Init => EngineInv
  BY EngineStarts DEF Init
<1>2. EngineInv => DisagreementIsReported
  BY DEF EngineInv, Reported, ReportedAt, Disagree, Tainted, Serious, DisagreementIsReported
<1> QED BY <1>1, <1>2, EngineStep, PTL DEF Spec

-----------------------------------------------------------------------------
(* The order of the sources always has a first one.                        *)

LEMMA FidelityRank ==
  /\ \A k \in Sources : fidelity_rank[k] \in 0..6
  /\ \A k \in Sources \ {"fixture"} :
       fidelity_rank[k] <= fidelity_rank["tfstate"] => k \in TerraformSources
  /\ \A k \in TerraformSources : fidelity_rank[k] <= fidelity_rank["tfstate"]
  /\ TerraformSources \subseteq Sources /\ "unattributed" \in Sources
  /\ fidelity_rank["tfstate"] = 3
BY DEF fidelity_rank, Sources, TerraformSources

LEMMA Tiers == \A k, mode : tier(k, mode) \in 0..3
BY DEF tier

\* Of a nonempty set of sources of known kinds one precedes all the others.
LEMMA FirstIsMember ==
  ASSUME NEW S \in SUBSET Nat, S # {}, \A s \in S : kind(s) \in Sources, NEW mode
  PROVE  First(S, mode) \in S
<1> DEFINE T(s) == tier(kind(s), mode)
           F(s) == fidelity_rank[kind(s)]
           low  == [s \in S |-> 3 - T(s)]
           S1   == {s \in S : \A t \in S : low[s] <= low[t]}
           weak == [s \in S1 |-> 6 - F(s)]
           S2   == {s \in S1 : \A t \in S1 : weak[s] <= weak[t]}
<1>1. \A s \in S : T(s) \in 0..3 /\ F(s) \in 0..6
  BY Tiers, FidelityRank
<1> HIDE DEF T, F
<1>2. S1 # {}
  <2>1. low \in [S -> Nat]
    BY <1>1
  <2> HIDE DEF low
  <2> QED BY <2>1, SmallestBy
<1>3. S2 # {}
  <2>1. weak \in [S1 -> Nat]
    <3>1. ASSUME NEW y \in S1  PROVE 6 - F(y) \in Nat
      BY <1>1
    <3> HIDE DEF S1
    <3> QED BY <3>1
  <2> HIDE DEF weak, S1
  <2> QED BY <1>2, <2>1, SmallestBy
<1>4. PICK x \in S2 : \A y \in S2 : x <= y
  <2>1. S2 \in SUBSET Nat
    OBVIOUS
  <2> HIDE DEF S2
  <2> QED BY <1>3, <2>1, Smallest
<1>5. x \in S /\ x \in S1
  OBVIOUS
<1>6. ASSUME NEW t \in S \ {x}  PROVE Precedes(x, t, mode)
  <2>1. T(t) <= T(x)
    <3>1. low[x] <= low[t]
      BY <1>5
    <3> QED BY <1>1, <1>5, <3>1
  <2>2. CASE T(x) > T(t)
    BY <2>2 DEF Precedes, T
  <2>3. CASE T(x) = T(t)
    <3>1. t \in S1
      <4>1. \A y \in S : low[x] <= low[y]
        BY <1>5
      <4>2. low[t] = low[x]
        BY <2>3, <1>5
      <4> QED BY <4>1, <4>2
    <3>2. F(t) <= F(x)
      <4>1. weak[x] <= weak[t]
        BY <3>1
      <4> QED BY <1>1, <1>5, <3>1, <4>1
    <3>3. CASE F(x) > F(t)
      BY <2>3, <3>3 DEF Precedes, T, F
    <3>4. CASE F(x) = F(t)
      <4>1. t \in S2
        <5>1. \A y \in S1 : weak[x] <= weak[y]
          OBVIOUS
        <5>2. weak[t] = weak[x]
          BY <3>4, <1>5, <3>1
        <5> QED BY <3>1, <5>1, <5>2
      <4>2. x <= t /\ x # t /\ x \in Nat /\ t \in Nat
        <5> HIDE DEF S2
        <5> QED BY <1>4, <1>5, <4>1
      <4>3. x < t
        BY <4>2
      <4> QED BY <2>3, <3>4, <4>3 DEF Precedes, T, F
    <3> QED BY <1>1, <1>5, <3>2, <3>3, <3>4
  <2> QED BY <1>1, <1>5, <2>1, <2>2, <2>3
<1> HIDE DEF S2, S1
<1> QED BY <1>5, <1>6 DEF First

\* The weakest kind and the weakest scope of a source's ledger exist; a source
\* with a terraform artifact behind it counts as one.
LEMMA WeakestWord ==
  ASSUME NEW s, \A i \in DOMAIN s.sources : DeclaredOK(s.sources[i])
  PROVE  /\ fidelity(s) \in Sources
         /\ TerraformIn(s) => fidelity(s) \in TerraformSources
         /\ declared_scope(s) \in Scopes
<1>1. Kinds(s) \subseteq Sources \ {"fixture"}
  BY DEF Kinds, DeclaredOK
<1>2. ASSUME Kinds(s) = {}
      PROVE  fidelity(s) \in Sources /\ ~TerraformIn(s)
  BY <1>2, FidelityRank DEF fidelity, TerraformIn
<1>3. ASSUME Kinds(s) # {}
      PROVE  /\ fidelity(s) \in Sources
             /\ TerraformIn(s) => fidelity(s) \in TerraformSources
  <2> DEFINE m == [k \in Kinds(s) |-> fidelity_rank[k]]
             w == CHOOSE k \in Kinds(s) : \A l \in Kinds(s) : fidelity_rank[k] <= fidelity_rank[l]
  <2>1. \E k \in Kinds(s) : \A l \in Kinds(s) : fidelity_rank[k] <= fidelity_rank[l]
    <3>1. m \in [Kinds(s) -> Nat]
      BY <1>1, FidelityRank
    <3>2. \E k \in Kinds(s) : \A l \in Kinds(s) : m[k] <= m[l]
      <4> HIDE DEF m
      <4> QED BY <1>3, <3>1, SmallestBy
    <3> QED BY <3>2
  <2>2. fidelity(s) = w
    BY <1>3 DEF fidelity
  <2>3. w \in Kinds(s) /\ \A l \in Kinds(s) : fidelity_rank[w] <= fidelity_rank[l]
    BY <2>1
  <2> HIDE DEF w
  <2>4. ASSUME TerraformIn(s)  PROVE w \in TerraformSources
    <3>1. PICK l \in Kinds(s) : l \in TerraformSources
      BY <2>4 DEF TerraformIn
    <3>2. /\ fidelity_rank[w] <= fidelity_rank[l]
          /\ fidelity_rank[l] <= fidelity_rank["tfstate"]
          /\ fidelity_rank[w] \in 0..6 /\ fidelity_rank[l] \in 0..6
          /\ fidelity_rank["tfstate"] = 3
      BY <1>1, <2>3, <3>1, FidelityRank
    <3>3. fidelity_rank[w] <= fidelity_rank["tfstate"]
      BY <3>2
    <3> QED BY <1>1, <2>3, <3>3, FidelityRank
  <2> QED BY <1>1, <2>2, <2>3, <2>4
<1>4. declared_scope(s) \in Scopes
  <2> DEFINE claims == {s.sources[i].scope : i \in DOMAIN s.sources}
             m == [c \in claims |-> scope_rank[c]]
  <2>1. claims \subseteq Scopes
    BY DEF DeclaredOK
  <2>2. CASE claims = {}
    BY <2>2 DEF declared_scope, Scopes
  <2>3. CASE claims # {}
    <3>1. \E c \in claims : \A d \in claims : scope_rank[c] <= scope_rank[d]
      <4>1. m \in [claims -> Nat]
        BY <2>1, ScopeRank
      <4>2. \E c \in claims : \A d \in claims : m[c] <= m[d]
        <5> HIDE DEF m, claims
        <5> QED BY <2>3, <4>1, SmallestBy
      <4> QED BY <4>2
    <3>2. declared_scope(s) = CHOOSE c \in claims : \A d \in claims : scope_rank[c] <= scope_rank[d]
      BY <2>3 DEF declared_scope
    <3> QED BY <2>1, <3>1, <3>2
  <2> QED BY <2>2, <2>3
<1> QED BY <1>2, <1>3, <1>4

-----------------------------------------------------------------------------
(* Category records.                                                       *)

LEMMA Uncaptured ==
  /\ DOMAIN UNCAPTURED = {"scope", "boundary", "taint", "keys", "dropped",
                          "source_kinds", "existence_licensed", "emitted"}
  /\ UNCAPTURED.scope = "uncaptured"
  /\ ~UNCAPTURED.existence_licensed /\ ~UNCAPTURED.emitted
<1>1. \A blank : LET r == [scope |-> "uncaptured", boundary |-> blank, taint |-> blank,
                           keys |-> 0, dropped |-> 0, source_kinds |-> {},
                           existence_licensed |-> FALSE, emitted |-> FALSE]
                 IN  /\ DOMAIN r = {"scope", "boundary", "taint", "keys", "dropped",
                                    "source_kinds", "existence_licensed", "emitted"}
                     /\ r.scope = "uncaptured"
                     /\ ~r.existence_licensed /\ ~r.emitted
  OBVIOUS
<1> QED BY <1>1 DEF UNCAPTURED

\* What may be concluded from a record at all.
LEMMA LicenceNeeds ==
  ASSUME NEW r, r.scope \in Scopes, require_complete(r) = ""
  PROVE  r.scope # "uncaptured" /\ r.existence_licensed
BY DEF require_complete, Scopes

\* A category record never claims more than the entry it is made from.
LEMMA CategoryScopeOf ==
  ASSUME NEW e, DOMAIN e = DOMAIN UNCAPTURED, e.scope \in Scopes
  PROVE  LET r == CategoryScope(e)
         IN  /\ DOMAIN r = DOMAIN UNCAPTURED /\ r.scope \in Scopes
             /\ r.source_kinds = e.source_kinds
             /\ r.existence_licensed => e.existence_licensed
             /\ ~e.emitted \/ e.scope = "uncaptured" => r.scope = "uncaptured"
             /\ r.scope = "complete" =>
                  e.scope = "complete" /\ e.source_kinds \cap TerraformSources = {}
<1> DEFINE capped == CapTerraform(e.source_kinds, e.scope)
           holed  == IF e.dropped > 0 THEN MinScope(capped, "partial") ELSE capped
           scope  == IF e.emitted THEN holed ELSE "uncaptured"
           q      == [e EXCEPT !.scope = scope, !.keys  = IF e.emitted THEN e.keys ELSE 0]
           r      == CategoryScope(e)
<1>1. MinScope("uncaptured", "partial") = "uncaptured"
  BY ScopeRank DEF MinScope
<1>2. /\ capped \in Scopes
      /\ e.scope = "uncaptured" => capped = "uncaptured"
      /\ capped = "complete" =>
           e.scope = "complete" /\ e.source_kinds \cap TerraformSources = {}
  BY <1>1, AtMostPartial DEF CapTerraform
<1>3. /\ holed \in Scopes
      /\ capped = "uncaptured" => holed = "uncaptured"
      /\ holed = "complete" => capped = "complete"
  <2> HIDE DEF capped
  <2> QED BY <1>1, <1>2, AtMostPartial
<1>4. /\ scope \in Scopes
      /\ ~e.emitted \/ e.scope = "uncaptured" => scope = "uncaptured"
      /\ scope = "complete" =>
           e.scope = "complete" /\ e.source_kinds \cap TerraformSources = {}
  <2> HIDE DEF capped, holed
  <2> QED BY <1>2, <1>3 DEF Scopes
<1>5. r = [q EXCEPT !.existence_licensed = e.existence_licensed /\ can_license(q)]
  BY DEF CategoryScope
<1>6. /\ DOMAIN q = DOMAIN UNCAPTURED /\ q.scope = scope
      /\ q.source_kinds = e.source_kinds
  <2> HIDE DEF scope
  <2> QED BY Uncaptured
<1>7. /\ DOMAIN r = DOMAIN UNCAPTURED /\ r.scope = scope
      /\ r.source_kinds = e.source_kinds
      /\ r.existence_licensed => e.existence_licensed
  <2> HIDE DEF q, r, scope
  <2> QED BY <1>5, <1>6, Uncaptured
<1> HIDE DEF scope, q, r, capped, holed
<1> QED BY <1>4, <1>7 DEF r

-----------------------------------------------------------------------------
(* freshness.evaluate on a view that is one source's, or a merged one.     *)

HasRows(s, c) == \E p \in DOMAIN s.rows : p[1] = c

\* What a merge promises of a category facts speak for.
MergedCategory(view, c) ==
  LET r == view.categories[c]
  IN  /\ DOMAIN r = DOMAIN UNCAPTURED /\ r.scope \in Scopes
      /\ ~r.existence_licensed
      /\ r.scope = "complete" =>
           /\ \E s \in LoadedSet : Claim(s, c) = "complete"
           /\ \A s \in LoadedSet : HasRows(s, c) => ~TerraformIn(s)
      /\ \A s \in LoadedSet : HasRows(s, c) =>
           /\ s.id \in DOMAIN view.sources /\ view.sources[s.id].old = s.old
           /\ r.scope # "uncaptured" => view.sources[s.id].kind \in r.source_kinds

Unaged(view) ==
  /\ DOMAIN view = DOMAIN Nothing
  /\ IF Len(loaded) = 1
     THEN LoadedSet = {view} /\ view = loaded[1] /\ FileOK(view)
     ELSE /\ KeepsRows(view.rows)
          /\ \A c \in DOMAIN view.categories \cap Categories : MergedCategory(view, c)

Demoted(r) == CategoryScope([r EXCEPT !.scope = "uncaptured", !.boundary = "",
                               !.taint = compose_taint(@, "stale"),
                               !.existence_licensed = FALSE])
Affected(view) == UNION {sourced_categories(view, i) : i \in stale_sources(view)}

LEMMA DemotedIsUncaptured ==
  ASSUME NEW r, DOMAIN r = DOMAIN UNCAPTURED
  PROVE  Demoted(r).scope = "uncaptured"
<1>1. \A b, t : CategoryScope([r EXCEPT !.scope = "uncaptured", !.boundary = b, !.taint = t,
                                !.existence_licensed = FALSE]).scope = "uncaptured"
  <2> TAKE b, t
  <2> DEFINE e == [r EXCEPT !.scope = "uncaptured", !.boundary = b, !.taint = t,
                            !.existence_licensed = FALSE]
  <2>1. DOMAIN e = DOMAIN UNCAPTURED /\ e.scope = "uncaptured"
    BY Uncaptured
  <2>2. "uncaptured" \in Scopes
    BY DEF Scopes
  <2>3. e.scope \in Scopes
    BY <2>1, <2>2
  <2> HIDE DEF e
  <2>4. CategoryScope(e).scope = "uncaptured"
    BY <2>1, <2>3, CategoryScopeOf
  <2> QED BY <2>4 DEF e
<1> QED BY <1>1 DEF Demoted

LEMMA DemotedView ==
  ASSUME NEW view, DOMAIN view = DOMAIN Nothing
  PROVE  LET aged == demote_stale(view)
         IN  /\ aged.rows = view.rows /\ DOMAIN aged.categories = DOMAIN view.categories
             /\ \A c \in DOMAIN view.categories :
                  aged.categories[c] = IF c \notin Affected(view) THEN view.categories[c]
                                       ELSE Demoted(view.categories[c])
<1>1. demote_stale(view) =
        [view EXCEPT !.categories =
           [c \in DOMAIN view.categories |->
              IF c \notin Affected(view) THEN view.categories[c]
              ELSE Demoted(view.categories[c])]]
  BY DEF demote_stale, Affected, Demoted
<1>2. "categories" \in DOMAIN view
  <2>1. \A b : DOMAIN [id |-> 0, rows |-> b, carried |-> b, categories |-> b,
            sources |-> b, origin |-> b, disputes |-> {}, old |-> FALSE,
            notes |-> {}] = {"id", "rows", "carried", "categories", "sources", "origin",
                             "disputes", "old", "notes"}
    OBVIOUS
  <2> QED BY <2>1 DEF Nothing
<1> QED BY <1>1, <1>2

\* Ageing leaves the rows, and takes every category a stale source has rows in.
LEMMA AgedView ==
  ASSUME NEW view, Unaged(view)
  PROVE  KeepsRows(demote_stale(view).rows) /\ InventsNoAbsence(demote_stale(view))
<1> DEFINE aged == demote_stale(view)
<1>1. /\ aged.rows = view.rows /\ DOMAIN aged.categories = DOMAIN view.categories
      /\ \A c \in DOMAIN view.categories :
           aged.categories[c] = IF c \notin Affected(view) THEN view.categories[c]
                                ELSE Demoted(view.categories[c])
  BY DemotedView DEF Unaged
<1> HIDE DEF aged
<1>2. KeepsRows(aged.rows)
  <2>1. CASE Len(loaded) = 1
    BY <1>1, <2>1 DEF Unaged, KeepsRows
  <2>2. CASE Len(loaded) # 1
    BY <1>1, <2>2 DEF Unaged
  <2> QED BY <2>1, <2>2
<1>3. ASSUME NEW c \in DOMAIN aged.categories \cap Categories
      PROVE  /\ require_complete(aged.categories[c]) = "" =>
                  Len(loaded) = 1 /\ require_complete(loaded[1].categories[c]) = ""
             /\ aged.categories[c].scope = "complete" =>
                  /\ \E s \in LoadedSet : Claim(s, c) = "complete"
                  /\ Len(loaded) > 1 => \A s \in LoadedSet : HasRows(s, c) => ~TerraformIn(s)
             /\ \A s \in LoadedSet :
                  /\ s.old /\ DOMAIN s.sources # {} /\ (\A i \in DOMAIN s.sources : s.sources[i].old)
                  /\ HasRows(s, c)
                  => aged.categories[c].scope = "uncaptured"
  <2> DEFINE r == view.categories[c]   a == aged.categories[c]
  <2>1. DOMAIN r = DOMAIN UNCAPTURED /\ r.scope \in Scopes
    BY <1>1, <1>3 DEF Unaged, FileOK, MergedCategory
  <2>2. a = r \/ a.scope = "uncaptured"
    BY <1>1, <1>3, <2>1, DemotedIsUncaptured
  <2>3. a.scope \in Scopes
    BY <2>1, <2>2 DEF Scopes
  <2>4. require_complete(a) = "" => a = r /\ r.existence_licensed
    BY <2>2, <2>3, LicenceNeeds
  <2>5. a.scope = "complete" => a = r
    BY <2>2
  <2>6. ASSUME c \in Affected(view)  PROVE a.scope = "uncaptured"
    BY <1>1, <1>3, <2>1, <2>6, DemotedIsUncaptured
  <2>7. CASE Len(loaded) = 1
    <3>1. LoadedSet = {view} /\ view = loaded[1] /\ FileOK(view)
      BY <2>7 DEF Unaged
    <3>2. a.scope = "complete" => Claim(view, c) = "complete"
      BY <1>1, <1>3, <2>5 DEF Claim
    <3>3. ASSUME DOMAIN view.sources # {}, \A i \in DOMAIN view.sources : view.sources[i].old
          PROVE  a.scope = "uncaptured"
      <4>1. CASE r.scope = "uncaptured"
        BY <2>2, <4>1
      <4>2. CASE r.scope # "uncaptured"
        <5>1. PICK i \in DOMAIN view.sources : view.sources[i].kind \in r.source_kinds
          BY <1>1, <1>3, <3>1, <3>3, <4>2 DEF FileOK
        <5>2. i \in stale_sources(view) /\ c \in sourced_categories(view, i)
          BY <1>1, <1>3, <3>3, <5>1 DEF stale_sources, sourced_categories
        <5> QED BY <2>6, <5>2 DEF Affected
      <4> QED BY <4>1, <4>2
    <3> HIDE DEF a, r
    <3>4. ~(Len(loaded) > 1)
      BY <2>7
    <3>5. require_complete(a) = "" => require_complete(loaded[1].categories[c]) = ""
      BY <2>4, <3>1 DEF r
    <3> QED BY <2>7, <3>1, <3>2, <3>3, <3>4, <3>5 DEF a
  <2>8. CASE Len(loaded) # 1
    <3>1. MergedCategory(view, c)
      BY <1>1, <1>3, <2>8 DEF Unaged
    <3>2. /\ ~r.existence_licensed
          /\ r.scope = "complete" =>
               /\ \E s \in LoadedSet : Claim(s, c) = "complete"
               /\ \A s \in LoadedSet : HasRows(s, c) => ~TerraformIn(s)
      BY <3>1 DEF MergedCategory
    <3>3. ASSUME NEW s \in LoadedSet, s.old, HasRows(s, c)
          PROVE  a.scope = "uncaptured"
      <4>1. /\ s.id \in DOMAIN view.sources /\ view.sources[s.id].old = s.old
            /\ r.scope # "uncaptured" => view.sources[s.id].kind \in r.source_kinds
        BY <3>1, <3>3 DEF MergedCategory
      <4>2. CASE r.scope = "uncaptured"
        BY <2>2, <4>2
      <4>3. CASE r.scope # "uncaptured"
        <5>1. s.id \in stale_sources(view) /\ c \in sourced_categories(view, s.id)
          BY <1>1, <1>3, <3>3, <4>1, <4>3 DEF stale_sources, sourced_categories
        <5> QED BY <2>6, <5>1 DEF Affected
      <4> QED BY <4>2, <4>3
    <3> QED BY <2>4, <2>5, <3>2, <3>3
  <2> QED BY <2>7, <2>8
<1>4. InventsNoAbsence(aged)
  BY <1>3 DEF InventsNoAbsence, HasRows
<1> QED BY <1>2, <1>4 DEF aged

-----------------------------------------------------------------------------
(* estate.build at the end of a call of the engine.                        *)

\* The call's sources are typed, and every fact and scope is one of theirs.
TypedCall ==
  /\ \A f \in in.facts : f.origin \in DOMAIN in.sources
  /\ DOMAIN in.sources \subseteq SourceIds
  /\ \A i \in DOMAIN in.sources : in.sources[i].kind \in Sources /\ in.sources[i].scope \in Scopes
  /\ \A x \in DOMAIN in.category_scopes : in.category_scopes[x] \in Scopes

LEMMA KeptFacts ==
  ASSUME EngineInv
  PROVE  kept \subseteq in.facts
BY DEF EngineInv, Partitioned

LEMMA ScopesAreTyped ==
  ASSUME EngineInv, TypedCall, NEW c, NEW s \in sources_over(c)
  PROVE  /\ scope_of(s, c) \in Scopes
         /\ scope_of(s, c) = "complete" => ClaimedScope(s, c) = "complete"
<1>1. ClaimedScope(s, c) \in Scopes
  <2>1. CASE <<s, c>> \in DOMAIN in.category_scopes
    BY <2>1 DEF ClaimedScope, TypedCall
  <2>2. CASE <<s, c>> \notin DOMAIN in.category_scopes
    <3>1. PICK f \in kept : f.origin = s
      BY <2>2 DEF sources_over, contributed
    <3>2. s \in DOMAIN in.sources
      BY <3>1, KeptFacts DEF TypedCall
    <3>3. in.sources[s].scope \in Scopes
      BY <3>2 DEF TypedCall
    <3> QED BY <2>2, <3>3 DEF ClaimedScope, Scopes
  <2> QED BY <2>1, <2>2
<1> QED BY <1>1, AtMostPartial DEF scope_of, CapTerraform

\* A category's composed scope is complete only where a source's is, and no
\* kind of its sources is terraform's.
LEMMA ComposedIsClaimed ==
  ASSUME EngineInv, TypedCall, pc = "done", NEW c \in Categories, sources_over(c) # {}
  PROVE  /\ scopes[c].scope \in Scopes
         /\ scopes[c].scope = "complete" =>
              \E s \in sources_over(c) : scope_of(s, c) = "complete"
<1> DEFINE claims == {Contribution(scope_of(s, c), in.sources[s].boundary) :
                        s \in sources_over(c)}
           K == {kind(s) : s \in sources_over(c)}
           B == {in.sources[s].boundary : s \in SourceIds} \cup {""}
<1>1. scopes[c].scope = CapTerraform(K, ComposedScope(claims))
  <2>1. scopes = ComposedScopes
    BY DEF EngineInv, Scoped
  <2>2. scopes[c] = Contribution(CapTerraform(K, ComposedScope(claims)), ComposedBoundary(claims))
    BY <2>1 DEF ComposedScopes
  <2> HIDE DEF claims, K
  <2> QED BY <2>2 DEF Contribution
<1>2. /\ ComposedScope(claims) \in Scopes
      /\ ComposedScope(claims) = "complete" => \E k \in claims : k.scope = "complete"
  <2>1. "" \in B /\ \A s \in SourceIds : in.sources[s].boundary \in B
    OBVIOUS
  <2> HIDE DEF B
  <2>2. \A s \in sources_over(c) : s \in SourceIds /\ in.sources[s].boundary \in B
    BY <2>1 DEF sources_over
  <2>3. \A s \in sources_over(c) :
          Contribution(scope_of(s, c), in.sources[s].boundary) \in [scope : Scopes, boundary : B]
    BY <2>2, ScopesAreTyped DEF Contribution
  <2>4. claims \in SUBSET [scope : Scopes, boundary : B]
    BY <2>3
  <2> HIDE DEF claims
  <2>5. /\ compose_scope(claims).scope \in Scopes
        /\ compose_scope(claims).scope = "complete" => \E k \in claims : k.scope = "complete"
    BY <2>1, <2>4, ComposeScope
  <2>6. compose_scope(claims).scope = ComposedScope(claims)
    BY DEF compose_scope, Contribution
  <2> QED BY <2>5, <2>6
<1>3. /\ CapTerraform(K, ComposedScope(claims)) \in Scopes
      /\ CapTerraform(K, ComposedScope(claims)) = "complete" =>
           ComposedScope(claims) = "complete"
  BY <1>2, AtMostPartial DEF CapTerraform
<1>4. (\E k \in claims : k.scope = "complete") =>
        \E s \in sources_over(c) : scope_of(s, c) = "complete"
  BY DEF Contribution
<1> HIDE DEF claims, K
<1> QED BY <1>1, <1>2, <1>3, <1>4

\* So is the record that estate.build makes of it, with nothing licensed.
LEMMA BuiltCategoryOf ==
  ASSUME EngineInv, TypedCall, pc = "done", NEW c
  PROVE  LET r == BuiltCategory(c, in.sources)
             K == {kind(s) : s \in sources_over(c)}
         IN  /\ DOMAIN r = DOMAIN UNCAPTURED /\ r.scope \in Scopes
             /\ ~r.existence_licensed
             /\ r.scope # "uncaptured" =>
                  r.source_kinds = K /\ \E p \in Surviving : p[1] = c
             /\ r.scope = "complete" =>
                  /\ K \cap TerraformSources = {}
                  /\ \E s \in sources_over(c) : scope_of(s, c) = "complete"
<1> DEFINE K == {kind(s) : s \in sources_over(c)}
           rows   == {p \in Surviving : p[1] = c}
           killed == {p \in DOMAIN pending \ Surviving : p[1] = c}
           dropped_ == Cardinality(killed)
           kinds  == {in.sources[i].kind : i \in DOMAIN in.sources}
           entry  == [UNCAPTURED EXCEPT !.dropped = dropped_, !.source_kinds = kinds]
           full   == [entry EXCEPT !.scope = scopes[c].scope, !.boundary = scopes[c].boundary,
                           !.keys = Cardinality(rows), !.emitted = TRUE, !.source_kinds = K]
           r      == BuiltCategory(c, in.sources)
<1>1. r = CategoryScope(IF rows = {} THEN entry ELSE full)
  BY DEF BuiltCategory
<1>2. /\ DOMAIN entry = DOMAIN UNCAPTURED /\ entry.scope = "uncaptured"
      /\ ~entry.existence_licensed /\ ~entry.emitted
  <2> HIDE DEF dropped_, kinds
  <2> QED BY Uncaptured
<1>3. /\ DOMAIN full = DOMAIN UNCAPTURED /\ full.scope = scopes[c].scope
      /\ ~full.existence_licensed /\ full.source_kinds = K
  <2> HIDE DEF entry, K, rows
  <2> QED BY <1>2, Uncaptured
<1>4. "uncaptured" \in Scopes
  BY DEF Scopes
<1>5. CASE rows = {}
  <2> HIDE DEF entry, full, r, rows, K
  <2>1. r = CategoryScope(entry)
    BY <1>1, <1>5
  <2>2. /\ DOMAIN r = DOMAIN UNCAPTURED /\ r.scope \in Scopes
        /\ r.existence_licensed => entry.existence_licensed
        /\ r.scope = "uncaptured"
    BY <1>2, <1>4, <2>1, CategoryScopeOf
  <2> QED BY <1>2, <2>2 DEF r
<1>6. CASE rows # {}
  <2>1. PICK p \in Surviving : p[1] = c
    BY <1>6
  <2>2. c \in Categories /\ sources_over(c) # {}
    <3>1. p \in DOMAIN pending /\ p \in Groups
      BY DEF Surviving, EngineInv, Grouped
    <3>2. c \in Categories
      BY <2>1, <3>1 DEF EngineInv, Resolved, Resolution
    <3>3. PICK f \in kept : f.category = c
      BY <2>1, <3>1 DEF Groups
    <3>4. f.origin \in SourceIds
      BY <3>3, KeptFacts DEF TypedCall
    <3>5. f.origin \in sources_over(c)
      BY <3>3, <3>4 DEF sources_over, contributed
    <3> QED BY <3>2, <3>5
  <2>3. /\ scopes[c].scope \in Scopes
        /\ scopes[c].scope = "complete" =>
              \E s \in sources_over(c) : scope_of(s, c) = "complete"
    BY <2>2, ComposedIsClaimed
  <2> HIDE DEF entry, full, r, rows, K
  <2>4. r = CategoryScope(full)
    BY <1>1, <1>6
  <2>5. /\ DOMAIN r = DOMAIN UNCAPTURED /\ r.scope \in Scopes
        /\ r.source_kinds = K
        /\ r.existence_licensed => full.existence_licensed
        /\ r.scope = "complete" =>
             full.scope = "complete" /\ full.source_kinds \cap TerraformSources = {}
    BY <1>3, <2>3, <2>4, CategoryScopeOf
  <2> QED BY <1>3, <2>1, <2>3, <2>5 DEF r, K
<1> QED BY <1>5, <1>6

LEMMA ViewFields ==
  DOMAIN Nothing = {"id", "rows", "carried", "categories", "sources", "origin",
                    "disputes", "old", "notes"}
BY DEF Nothing

LEMMA BuiltView ==
  ASSUME NEW emit, NEW sources
  PROVE  LET b == build(emit, sources)
         IN  /\ DOMAIN b = DOMAIN Nothing
             /\ b.rows = [p \in {q \in Surviving : q[1] \in emit} |-> pending[p].record]
             /\ b.sources = sources
             /\ b.categories = [c \in emit |-> BuiltCategory(c, sources)]
<1> DEFINE rows == {p \in Surviving : p[1] \in emit}
           R == [p \in rows |-> pending[p].record]
           C == [c \in emit |-> BuiltCategory(c, sources)]
           O == [p \in rows |-> pending[p].source_id]
           D == \E i \in DOMAIN sources : sources[i].old
<1>1. build(emit, sources) =
        [Nothing EXCEPT !.rows = R, !.categories = C, !.sources = sources,
                        !.origin = O, !.disputes = disputes, !.old = D]
  BY DEF build
<1> HIDE DEF R, C, O, D
<1>2. LET b == build(emit, sources)
      IN  /\ DOMAIN b = DOMAIN Nothing
          /\ b.rows = R /\ b.sources = sources /\ b.categories = C
  BY <1>1, ViewFields
<1> QED BY <1>2 DEF R, C

\* Every resolution goes back to a fact of its category and key.
LEMMA ResolutionsHaveFacts ==
  ASSUME EngineInv, NEW p \in DOMAIN pending
  PROVE  /\ p = <<p[1], p[2]>> /\ p[1] \in Categories
         /\ \E f \in Group(p[1], p[2]) : f \in kept /\ f.category = p[1] /\ KeyOf(f) = p[2]
<1>1. p \in Groups /\ p[1] \in Categories
  BY DEF EngineInv, Grouped, Resolved, Resolution
<1> QED BY <1>1, GroupIsItsName

\* A captured directory loads as a source like a file does.
LEMMA CapturedIsOK ==
  ASSUME EngineInv, TypedCall, pc = "done", in.facts \subseteq Facts,
         \A i \in DOMAIN in.sources : DeclaredOK(in.sources[i]),
         NEW id, NEW lines
  PROVE  LET v == [build(CaptureEmit, in.sources) EXCEPT !.id = id, !.notes = lines]
         IN  FileOK(v) /\ v.id = id
<1> DEFINE b == build(CaptureEmit, in.sources)
           v == [b EXCEPT !.id = id, !.notes = lines]
<1>1. /\ DOMAIN b = DOMAIN Nothing
      /\ b.rows = [p \in {q \in Surviving : q[1] \in CaptureEmit} |-> pending[p].record]
      /\ b.sources = in.sources
      /\ b.categories = [c \in CaptureEmit |-> BuiltCategory(c, in.sources)]
  BY BuiltView
<1>2. /\ DOMAIN v = DOMAIN Nothing /\ v.id = id
      /\ v.rows = b.rows /\ v.sources = b.sources /\ v.categories = b.categories
  <2> HIDE DEF b
  <2> QED BY <1>1, ViewFields
<1> HIDE DEF v
<1>3. DOMAIN v.rows \subseteq Categories \X Keys
  <2>1. ASSUME NEW p \in DOMAIN pending  PROVE p \in Categories \X Keys
    <3>1. /\ p = <<p[1], p[2]>> /\ p[1] \in Categories
          /\ \E f \in Group(p[1], p[2]) : f \in kept /\ f.category = p[1] /\ KeyOf(f) = p[2]
      BY ResolutionsHaveFacts
    <3>2. PICK f \in kept : KeyOf(f) = p[2]
      BY <3>1
    <3>3. f.key \in Keys
      BY <3>2, KeptFacts DEF Facts
    <3>4. KeyOf(f) \in Keys
      BY <3>3, MergeAssumption DEF KeyOf, Canonical
    <3> QED BY <3>1, <3>2, <3>4
  <2> HIDE DEF b
  <2> QED BY <1>1, <1>2, <2>1 DEF Surviving
<1>4. ASSUME NEW p \in DOMAIN v.rows, p[1] \in TableCategories
      PROVE  ~Incomparable(v.rows[p])
  <2>1. p \in Surviving /\ v.rows[p] = pending[p].record
    <3> HIDE DEF b
    <3> QED BY <1>1, <1>2, <1>4
  <2>2. p[1] \notin FlatCategories
    BY <1>4, MergeAssumption
  <2> QED BY <2>1, <2>2 DEF Surviving
<1>5. ASSUME NEW c \in DOMAIN v.categories
      PROVE  LET r == v.categories[c]
             IN  /\ DOMAIN r = DOMAIN UNCAPTURED /\ r.scope \in Scopes
                 /\ DOMAIN v.sources # {} /\ r.scope # "uncaptured" =>
                      \E i \in DOMAIN v.sources : v.sources[i].kind \in r.source_kinds
  <2> DEFINE K == {kind(s) : s \in sources_over(c)}
             r == v.categories[c]
  <2>1. r = BuiltCategory(c, in.sources)
    <3> HIDE DEF b
    <3> QED BY <1>1, <1>2, <1>5
  <2>2. /\ DOMAIN r = DOMAIN UNCAPTURED /\ r.scope \in Scopes
        /\ r.scope # "uncaptured" =>
             r.source_kinds = K /\ \E p \in Surviving : p[1] = c
    BY <2>1, BuiltCategoryOf
  <2>3. ASSUME r.scope # "uncaptured"
        PROVE  \E i \in DOMAIN v.sources : v.sources[i].kind \in r.source_kinds
    <3>1. PICK p \in Surviving : p[1] = c
      BY <2>2, <2>3
    <3>2. p \in DOMAIN pending
      BY DEF Surviving
    <3>3. PICK f \in kept : f.category = c
      BY <3>1, <3>2, ResolutionsHaveFacts
    <3>4. f.origin \in DOMAIN in.sources /\ f.origin \in SourceIds
      BY <3>3, KeptFacts DEF TypedCall
    <3>5. kind(f.origin) \in K
      BY <3>3, <3>4 DEF sources_over, contributed
    <3>6. in.sources[f.origin].kind \in r.source_kinds
      <4> HIDE DEF K, r
      <4> QED BY <2>2, <2>3, <3>5 DEF kind
    <3> HIDE DEF r, b
    <3> QED BY <1>1, <1>2, <3>4, <3>6
  <2> QED BY <2>2, <2>3
<1>6. \A i \in DOMAIN v.sources : DeclaredOK(v.sources[i])
  <2> HIDE DEF b
  <2> QED BY <1>1, <1>2
<1>7. FileOK(v)
  BY <1>2, <1>3, <1>4, <1>5, <1>6 DEF FileOK
<1> QED BY <1>2, <1>7 DEF v, b

-----------------------------------------------------------------------------
(* The call of the engine that merges the loaded sources.                  *)

LoadedOK ==
  /\ \A s \in LoadedSet : FileOK(s) /\ s.id \in SourceIds
  /\ \A s, t \in LoadedSet : s.id = t.id => s = t

MergeOfLoaded ==
  /\ LoadedOK
  /\ in.facts = UNION {snapshot_facts(s) : s \in LoadedSet}
  /\ in.sources = [i \in {s.id : s \in LoadedSet} |->
                     record(CHOOSE s \in LoadedSet : s.id = i)]
  /\ in.category_scopes = category_scopes(LoadedSet)

Fact(s, p) ==
  [category |-> p[1], key |-> p[2], origin |-> s.id, source |-> fidelity(s),
   address |-> 0, fragment |-> FALSE, record |-> s.rows[p], unresolved |-> {}]

LEMMA SourcesOfLoaded ==
  ASSUME MergeOfLoaded, NEW s \in LoadedSet
  PROVE  /\ s.id \in DOMAIN in.sources
         /\ in.sources[s.id].kind = fidelity(s) /\ kind(s.id) = fidelity(s)
         /\ in.sources[s.id].old = s.old
         /\ in.sources[s.id].scope = CapTerraform({fidelity(s)}, declared_scope(s))
<1>1. record(s) = in.sources[s.id] /\ s.id \in DOMAIN in.sources
  <2>1. (CHOOSE t \in LoadedSet : t.id = s.id) = s
    BY DEF MergeOfLoaded, LoadedOK
  <2> QED BY <2>1, ZenonT(40) DEF MergeOfLoaded
<1>2. /\ record(s).kind = fidelity(s) /\ record(s).old = s.old
      /\ record(s).scope = SourceRecord(fidelity(s), declared_scope(s)).scope
  <2>1. \A k, scope, blank, old :
          LET r == [kind |-> k, scope |-> scope, boundary |-> blank, old |-> old,
                    superseded |-> FALSE]
          IN  r.kind = k /\ r.scope = scope /\ r.old = old
    OBVIOUS
  <2> QED BY <2>1 DEF record
<1>3. SourceRecord(fidelity(s), declared_scope(s)).scope
        = CapTerraform({fidelity(s)}, declared_scope(s))
  BY DEF SourceRecord
<1> QED BY <1>1, <1>2, <1>3 DEF kind

\* The facts are the rows, and all of them take part.
LEMMA FactsAreRows ==
  ASSUME MergeOfLoaded, EngineInv, pc # "partition"
  PROVE  /\ \A f \in kept : \E s \in LoadedSet : \E p \in DOMAIN s.rows : f = Fact(s, p)
         /\ \A s \in LoadedSet : \A p \in DOMAIN s.rows : Fact(s, p) \in kept
<1>1. in.facts = UNION {snapshot_facts(s) : s \in LoadedSet}
  BY DEF MergeOfLoaded
<1>2. \A s : snapshot_facts(s) = {Fact(s, p) : p \in DOMAIN s.rows}
  BY DEF snapshot_facts, Fact
<1>3. ASSUME NEW s \in LoadedSet, NEW p \in DOMAIN s.rows
      PROVE  Fact(s, p) \in kept
  <2>1. Fact(s, p) \in in.facts
    BY <1>1, <1>2
  <2>2. fidelity(s) \in Sources
    BY WeakestWord DEF MergeOfLoaded, LoadedOK, FileOK
  <2>3. Fact(s, p).source = fidelity(s)
    BY DEF Fact
  <2>4. ~never_current(Fact(s, p))
    BY <2>2, <2>3 DEF never_current, PROPOSED_SOURCES, Sources
  <2> QED BY <2>1, <2>4 DEF EngineInv, Partitioned
<1> QED BY <1>1, <1>2, <1>3, KeptFacts

LEMMA FactFields ==
  ASSUME NEW s, NEW p
  PROVE  /\ Fact(s, p).category = p[1] /\ Fact(s, p).key = p[2]
         /\ Fact(s, p).origin = s.id /\ Fact(s, p).source = fidelity(s)
         /\ Fact(s, p).address = 0 /\ Fact(s, p).fragment = FALSE
         /\ Fact(s, p).record = s.rows[p]
BY DEF Fact

LEMMA ScopesOfLoaded ==
  ASSUME MergeOfLoaded
  PROVE  /\ \A s \in LoadedSet : \A c \in DOMAIN s.categories \cap Categories :
              /\ <<s.id, c>> \in DOMAIN in.category_scopes
              /\ in.category_scopes[<<s.id, c>>] = s.categories[c].scope
         /\ \A x \in DOMAIN in.category_scopes :
              \E s \in LoadedSet : \E c \in DOMAIN s.categories \cap Categories : x = <<s.id, c>>
<1> DEFINE D == UNION {{s.id} \X (DOMAIN s.categories \cap Categories) : s \in LoadedSet}
<1>1. in.category_scopes =
        [x \in D |-> (CHOOSE s \in LoadedSet : s.id = x[1]).categories[x[2]].scope]
  BY DEF MergeOfLoaded, category_scopes
<1>2. ASSUME NEW s \in LoadedSet, NEW c \in DOMAIN s.categories \cap Categories
      PROVE  <<s.id, c>> \in D
  OBVIOUS
<1>3. ASSUME NEW x \in D
      PROVE  \E s \in LoadedSet : \E c \in DOMAIN s.categories \cap Categories : x = <<s.id, c>>
  OBVIOUS
<1> HIDE DEF D
<1>4. ASSUME NEW s \in LoadedSet, NEW c \in DOMAIN s.categories \cap Categories
      PROVE  in.category_scopes[<<s.id, c>>] = s.categories[c].scope
  <2>1. (CHOOSE t \in LoadedSet : t.id = s.id) = s
    BY DEF MergeOfLoaded, LoadedOK
  <2> QED BY <1>1, <1>2, <2>1
<1>5. DOMAIN in.category_scopes = D
  BY <1>1
<1> QED BY <1>2, <1>3, <1>4, <1>5

LEMMA MergeIsTyped ==
  ASSUME MergeOfLoaded
  PROVE  TypedCall
<1>1. DOMAIN in.sources = {s.id : s \in LoadedSet}
  BY DEF MergeOfLoaded
<1>2. ASSUME NEW s \in LoadedSet
      PROVE  /\ s.id \in SourceIds /\ in.sources[s.id].kind \in Sources
             /\ in.sources[s.id].scope \in Scopes
  <2>1. fidelity(s) \in Sources /\ declared_scope(s) \in Scopes /\ s.id \in SourceIds
    BY WeakestWord DEF MergeOfLoaded, LoadedOK, FileOK
  <2>2. CapTerraform({fidelity(s)}, declared_scope(s)) \in Scopes
    BY <2>1, AtMostPartial DEF CapTerraform
  <2> QED BY <2>1, <2>2, SourcesOfLoaded
<1>3. ASSUME NEW f \in in.facts  PROVE f.origin \in DOMAIN in.sources
  <2>1. PICK s \in LoadedSet : f \in snapshot_facts(s)
    BY DEF MergeOfLoaded
  <2>2. f.origin = s.id
    BY <2>1 DEF snapshot_facts
  <2> QED BY <1>1, <2>2
<1>4. ASSUME NEW x \in DOMAIN in.category_scopes  PROVE in.category_scopes[x] \in Scopes
  <2>0. PICK s \in LoadedSet : \E c \in DOMAIN s.categories \cap Categories : x = <<s.id, c>>
    BY ScopesOfLoaded
  <2>1. PICK c \in DOMAIN s.categories \cap Categories : x = <<s.id, c>>
    BY <2>0
  <2>2. in.category_scopes[x] = s.categories[c].scope
    BY <2>1, ScopesOfLoaded
  <2>3. s.categories[c].scope \in Scopes
    BY DEF MergeOfLoaded, LoadedOK, FileOK
  <2> QED BY <2>2, <2>3
<1> QED BY <1>1, <1>2, <1>3, <1>4 DEF TypedCall

\* A source with rows in a category contributes to it, under its own kind.
LEMMA RowsContribute ==
  ASSUME MergeOfLoaded, EngineInv, pc # "partition",
         NEW s \in LoadedSet, NEW c, HasRows(s, c)
  PROVE  s.id \in sources_over(c) /\ kind(s.id) = fidelity(s)
<1>1. PICK p \in DOMAIN s.rows : p[1] = c
  BY DEF HasRows
<1>2. Fact(s, p) \in kept /\ Fact(s, p).origin = s.id /\ Fact(s, p).category = c
  <2>1. Fact(s, p) \in kept
    BY FactsAreRows
  <2> QED BY <1>1, <2>1, FactFields DEF Fact
<1>3. contributed(s.id, c)
  BY <1>2 DEF contributed
<1>4. s.id \in SourceIds
  BY DEF MergeOfLoaded, LoadedOK
<1> QED BY <1>3, <1>4, SourcesOfLoaded DEF sources_over

\* A source whose claim the engine takes for complete claims it.
LEMMA CompleteIsClaimed ==
  ASSUME MergeOfLoaded, EngineInv, pc # "partition", NEW c \in Categories,
         NEW i \in sources_over(c), scope_of(i, c) = "complete"
  PROVE  \E s \in LoadedSet : Claim(s, c) = "complete"
<1>1. ClaimedScope(i, c) = "complete"
  BY MergeIsTyped, ScopesAreTyped
<1>2. CASE <<i, c>> \in DOMAIN in.category_scopes
  <2>1. PICK s \in LoadedSet : \E d \in DOMAIN s.categories \cap Categories :
               <<i, c>> = <<s.id, d>>
    BY <1>2, ScopesOfLoaded
  <2>2. i = s.id /\ c \in DOMAIN s.categories \cap Categories
    BY <2>1
  <2>3. in.category_scopes[<<i, c>>] = s.categories[c].scope
    BY <2>2, ScopesOfLoaded
  <2>4. s.categories[c].scope = "complete"
    BY <1>1, <1>2, <2>3 DEF ClaimedScope
  <2> QED BY <2>2, <2>4 DEF Claim
<1>3. CASE <<i, c>> \notin DOMAIN in.category_scopes
  <2>1. PICK f \in kept : f.origin = i /\ f.category = c
    BY <1>3 DEF sources_over, contributed
  <2>2. PICK s \in LoadedSet : \E p \in DOMAIN s.rows : f = Fact(s, p)
    BY FactsAreRows
  <2>3. PICK p \in DOMAIN s.rows : f = Fact(s, p)
    BY <2>2
  <2>4. i = s.id /\ p[1] = c
    BY <2>1, <2>3, FactFields DEF Fact
  <2>5. c \notin DOMAIN s.categories
    BY <1>3, <2>4, ScopesOfLoaded
  <2>6. contributed(i, c)
    BY <2>1 DEF contributed
  <2>7. in.sources[i].scope = "complete"
    BY <1>1, <1>3, <2>6 DEF ClaimedScope
  <2>8. CapTerraform({fidelity(s)}, declared_scope(s)) = "complete"
    BY <2>4, <2>7, SourcesOfLoaded
  <2>9. declared_scope(s) \in Scopes
    BY WeakestWord DEF MergeOfLoaded, LoadedOK, FileOK
  <2>10. declared_scope(s) = "complete"
    BY <2>8, <2>9, AtMostPartial DEF CapTerraform
  <2>11. Claim(s, c) = declared_scope(s)
    BY <2>3, <2>4, <2>5 DEF Claim
  <2> QED BY <2>10, <2>11
<1> QED BY <1>2, <1>3

LEMMA MergedCategoryOf ==
  ASSUME MergeOfLoaded, EngineInv, pc = "done", NEW c \in Categories,
         NEW view, view.sources = in.sources,
         view.categories[c] = BuiltCategory(c, in.sources)
  PROVE  MergedCategory(view, c)
<1> DEFINE r == view.categories[c]
           K == {kind(s) : s \in sources_over(c)}
<1>1. /\ DOMAIN r = DOMAIN UNCAPTURED /\ r.scope \in Scopes
      /\ ~r.existence_licensed
      /\ r.scope # "uncaptured" => r.source_kinds = K
      /\ r.scope = "complete" =>
           /\ K \cap TerraformSources = {}
           /\ \E i \in sources_over(c) : scope_of(i, c) = "complete"
  BY MergeIsTyped, BuiltCategoryOf
<1>2. ASSUME NEW s \in LoadedSet, HasRows(s, c)
      PROVE  fidelity(s) \in K /\ (TerraformIn(s) => fidelity(s) \in TerraformSources)
  <2>1. s.id \in sources_over(c) /\ kind(s.id) = fidelity(s)
    BY <1>2, RowsContribute
  <2>2. TerraformIn(s) => fidelity(s) \in TerraformSources
    BY WeakestWord DEF MergeOfLoaded, LoadedOK, FileOK
  <2> QED BY <2>1, <2>2
<1> HIDE DEF K, r
<1>3. ASSUME r.scope = "complete"
      PROVE  /\ \E s \in LoadedSet : Claim(s, c) = "complete"
             /\ \A s \in LoadedSet : HasRows(s, c) => ~TerraformIn(s)
  <2>1. \E s \in LoadedSet : Claim(s, c) = "complete"
    BY <1>1, <1>3, CompleteIsClaimed
  <2> QED BY <1>1, <1>2, <1>3, <2>1
<1>4. ASSUME NEW s \in LoadedSet, HasRows(s, c)
      PROVE  /\ s.id \in DOMAIN view.sources /\ view.sources[s.id].old = s.old
             /\ r.scope # "uncaptured" => view.sources[s.id].kind \in r.source_kinds
  <2>1. /\ s.id \in DOMAIN in.sources /\ in.sources[s.id].old = s.old
        /\ in.sources[s.id].kind = fidelity(s)
    BY SourcesOfLoaded
  <2> QED BY <1>1, <1>2, <1>4, <2>1
<1> QED BY <1>1, <1>3, <1>4 DEF MergedCategory, r

-----------------------------------------------------------------------------
(* The rows of a merge.                                                    *)

\* One source's record for a key is one of its rows.
LEMMA AssembledIsARow ==
  ASSUME NEW G, G # {}, \A f \in G : ~f.fragment /\ f.address = 0
  PROVE  \E f \in G : assemble(G) = [n \in Fields |-> f.record[n]]
<1>1. {f \in G : ~f.fragment} = G
  OBVIOUS
<1>2. PICK f \in G : BaseRecord(G) = f.record
  <2> DEFINE b == CHOOSE f \in G : \A g \in G : f.address <= g.address
  <2>1. \E f \in G : \A g \in G : f.address <= g.address
    OBVIOUS
  <2>2. b \in G
    BY <2>1
  <2>3. BaseRecord(G) = b.record
    BY <1>1 DEF BaseRecord
  <2> HIDE DEF b
  <2> QED BY <2>2, <2>3
<1>3. \A n : {g \in G : g.fragment /\ g.record[n] \notin {Missing, Marker}} = {}
  OBVIOUS
<1>4. assemble(G) = [n \in Fields |-> BaseRecord(G)[n]]
  BY <1>3 DEF assemble
<1> QED BY <1>2, <1>4

\* The resolution of a key states, in every field, what some row states.
LEMMA RecordIsOfRows ==
  ASSUME NEW c, NEW k, NEW n \in Fields, Group(c, k) # {},
         \A f \in Group(c, k) : /\ ~f.fragment /\ f.address = 0 /\ f.origin \in Nat
                                /\ kind(f.origin) \in Sources
  PROVE  \E f \in Group(c, k) : RecordOf(c, k)[n] = f.record[n]
<1> DEFINE S == Origins(Group(c, k))
           R == RecordsOf(c, k)
           W == WinnerOf(c, k)
           mode == in.policy[c]
           able == {s \in S \ {W} : Stated(R[s][n])}
<1>1. S \in SUBSET Nat /\ S # {} /\ \A s \in S : kind(s) \in Sources
  BY DEF Origins
<1>2. ASSUME NEW s \in S  PROVE \E f \in Group(c, k) : R[s][n] = f.record[n]
  <2>1. /\ OfSource(Group(c, k), s) # {} /\ OfSource(Group(c, k), s) \subseteq Group(c, k)
    BY DEF OfSource, Origins
  <2>2. PICK f \in OfSource(Group(c, k), s) :
               assemble(OfSource(Group(c, k), s)) = [m \in Fields |-> f.record[m]]
    BY <2>1, AssembledIsARow
  <2>3. R[s] = assemble(OfSource(Group(c, k), s))
    BY DEF RecordsOf
  <2> HIDE DEF S, R
  <2> QED BY <2>1, <2>2, <2>3
<1>3. W \in S
  <2> HIDE DEF S
  <2>1. First(S, mode) \in S
    BY <1>1, FirstIsMember
  <2> QED BY <2>1 DEF S, WinnerOf
<1>4. able # {} => First(able, mode) \in S
  <2>1. able \in SUBSET Nat /\ able \subseteq S /\ \A s \in able : kind(s) \in Sources
    BY <1>1
  <2> HIDE DEF able
  <2>2. ASSUME able # {}  PROVE First(able, mode) \in able
    BY <2>1, <2>2, FirstIsMember
  <2> QED BY <2>1, <2>2
<1>5. \E s \in S : RecordOf(c, k)[n] = R[s][n]
  <2>1. DOMAIN R = S
    BY DEF RecordsOf
  <2>2. RecordOf(c, k)[n] =
          IF needs_backfill(R[W], OfSource(Group(c, k), W), n) /\ able # {}
          THEN R[First(able, mode)][n] ELSE R[W][n]
    BY <2>1 DEF RecordOf, backfill
  <2> HIDE DEF able, S, R, W
  <2> QED BY <1>3, <1>4, <2>2
<1> HIDE DEF S, R
<1> QED BY <1>2, <1>5

\* The group of a key holds the rows stored under it, each as it stands in
\* its source.
RowOf(f, c, k) ==
  \E s \in LoadedSet : \E q \in DOMAIN s.rows :
    /\ f = Fact(s, q) /\ q[1] = c /\ Canonical(q[2]) = k

LEMMA GroupOfRows ==
  ASSUME MergeOfLoaded, EngineInv, pc = "done", NEW c, NEW k, NEW f \in Group(c, k)
  PROVE  /\ ~f.fragment /\ f.address = 0 /\ f.origin \in Nat /\ kind(f.origin) \in Sources
         /\ RowOf(f, c, k)
         /\ c \in TableCategories => ~Incomparable(f.record)
<1>1. f \in kept /\ f.category = c /\ Canonical(f.key) = k
  BY DEF Group, KeyOf
<1>2. PICK s \in LoadedSet : \E q \in DOMAIN s.rows : f = Fact(s, q)
  BY <1>1, FactsAreRows
<1>3. PICK q \in DOMAIN s.rows : f = Fact(s, q)
  BY <1>2
<1>4. /\ f.category = q[1] /\ f.key = q[2] /\ f.origin = s.id
      /\ f.address = 0 /\ f.fragment = FALSE /\ f.record = s.rows[q]
  BY <1>3 DEF Fact
<1>5. FileOK(s) /\ s.id \in SourceIds
  BY DEF MergeOfLoaded, LoadedOK
<1>6. f.origin \in Nat /\ kind(f.origin) \in Sources
  <2>1. fidelity(s) \in Sources
    BY <1>5, WeakestWord DEF FileOK
  <2> QED BY <1>4, <1>5, <2>1, SourcesOfLoaded, MergeAssumption
<1>7. RowOf(f, c, k)
  BY <1>1, <1>3, <1>4 DEF RowOf
<1>8. c \in TableCategories => ~Incomparable(f.record)
  <2>1. \A p \in DOMAIN s.rows : p[1] \in TableCategories => ~Incomparable(s.rows[p])
    BY <1>5 DEF FileOK
  <2> QED BY <1>1, <1>4, <2>1
<1> QED BY <1>4, <1>6, <1>7, <1>8

\* A merged table row states, field by field, what one of those rows states;
\* so it holds no value that was never resolved.
LEMMA MergedRecord ==
  ASSUME MergeOfLoaded, EngineInv, pc = "done", NEW p \in DOMAIN pending,
         p[1] \in TableCategories
  PROVE  /\ \A n \in Fields : \E f \in Group(p[1], p[2]) : pending[p].record[n] = f.record[n]
         /\ ~Incomparable(pending[p].record)
<1>1. Group(p[1], p[2]) # {}
  BY ResolutionsHaveFacts
<1>2. pending[p].record = RecordOf(p[1], p[2])
  BY DEF EngineInv, Resolved, Resolution
<1>3. ASSUME NEW n \in Fields
      PROVE  \E f \in Group(p[1], p[2]) : RecordOf(p[1], p[2])[n] = f.record[n]
  <2>1. \A f \in Group(p[1], p[2]) : /\ ~f.fragment /\ f.address = 0 /\ f.origin \in Nat
                                     /\ kind(f.origin) \in Sources
    BY GroupOfRows
  <2> QED BY <1>1, <2>1, RecordIsOfRows
<1>4. ASSUME NEW n \in Fields  PROVE pending[p].record[n] # Marker
  <2>1. PICK f \in Group(p[1], p[2]) : pending[p].record[n] = f.record[n]
    BY <1>2, <1>3
  <2>2. ~Incomparable(f.record)
    BY GroupOfRows
  <2> QED BY <2>1, <2>2 DEF Incomparable
<1> QED BY <1>2, <1>3, <1>4 DEF Incomparable

\* A name the engine withholds is one that configuration alone mentions.
LEMMA WithheldIsWeak ==
  ASSUME MergeOfLoaded, EngineInv, pc = "done", NEW s \in LoadedSet, NEW p \in DOMAIN s.rows,
         <<p[1], Canonical(p[2])>> \in declared_not_applied
  PROVE  /\ p[1] \in FlatCategories
         /\ fidelity_rank[fidelity(s)] < fidelity_rank["tfstate"]
<1> DEFINE k == Canonical(p[2])
<1>1. p[1] \in FlatCategories /\ emitting(Group(p[1], k)) = {}
  <2>1. \A g \in declared_not_applied :
          g[1] \in FlatCategories /\ emitting(Group(g[1], g[2])) = {}
    BY DEF EngineInv, Grouped
  <2> DEFINE g == <<p[1], k>>
  <2>2. g[1] = p[1] /\ g[2] = k
    OBVIOUS
  <2> HIDE DEF g, k
  <2>3. g \in declared_not_applied
    BY DEF g, k
  <2> QED BY <2>1, <2>2, <2>3
<1>2. Fact(s, p) \in Group(p[1], k)
  <2>1. Fact(s, p) \in kept
    BY FactsAreRows
  <2> QED BY <2>1 DEF Fact, Group, KeyOf
<1>3. ~Observes(s.id)
  <2>1. Fact(s, p).origin = s.id
    BY DEF Fact
  <2> QED BY <1>1, <1>2, <2>1 DEF emitting, Origins
<1>4. /\ ~(fidelity_rank[fidelity(s)] >= fidelity_rank["tfstate"])
  BY <1>3, SourcesOfLoaded DEF Observes, EMIT_FIDELITY_FLOOR
<1>5. fidelity(s) \in Sources /\ "tfstate" \in Sources
  BY WeakestWord DEF MergeOfLoaded, LoadedOK, FileOK, Sources
<1> QED BY <1>1, <1>4, <1>5, FidelityRank

\* So the merge keeps what every source says, and adds nothing to it.
LEMMA MergedRows ==
  ASSUME MergeOfLoaded, EngineInv, pc = "done", Len(loaded) # 1,
         NEW rows, DOMAIN rows = Surviving,
         \A p \in Surviving : rows[p] = pending[p].record
  PROVE  KeepsRows(rows)
<1>1. ASSUME NEW s \in LoadedSet, NEW p \in DOMAIN s.rows
      PROVE  \/ <<p[1], Canonical(p[2])>> \in DOMAIN rows
             \/ /\ p[1] \in FlatCategories
                /\ fidelity_rank[fidelity(s)] < fidelity_rank["tfstate"]
  <2> DEFINE g == <<p[1], Canonical(p[2])>>
  <2>0. g[1] = p[1] /\ g[2] = Canonical(p[2])
    OBVIOUS
  <2>1. g \in Groups
    <3>1. Fact(s, p) \in kept
      BY FactsAreRows
    <3> QED BY <3>1 DEF Fact, Groups, KeyOf
  <2>2. g \in DOMAIN pending \cup declared_not_applied
    BY <2>1 DEF EngineInv, Grouped
  <2>3. ASSUME g \in declared_not_applied
        PROVE  /\ p[1] \in FlatCategories
               /\ fidelity_rank[fidelity(s)] < fidelity_rank["tfstate"]
    BY <2>3, WithheldIsWeak
  <2> HIDE DEF g
  <2>4. ASSUME g \in DOMAIN pending  PROVE g \in Surviving
    <3>1. g[1] \in Categories
      BY <2>4, ResolutionsHaveFacts
    <3>2. CASE g[1] \in FlatCategories
      BY <2>4, <3>2 DEF Surviving
    <3>3. CASE g[1] \in TableCategories
      BY <2>4, <3>3, MergedRecord DEF Surviving
    <3> QED BY <3>1, <3>2, <3>3 DEF Categories
  <2> QED BY <2>2, <2>3, <2>4 DEF g
<1>2. ASSUME NEW p \in DOMAIN rows
      PROVE  LET At(s) == {s.rows[q] : q \in {r \in DOMAIN s.rows :
                             r[1] = p[1] /\ Canonical(r[2]) = p[2]}}
                 stated == UNION {At(s) : s \in LoadedSet}
             IN  /\ stated # {}
                 /\ p[1] \in TableCategories =>
                      \A n \in Fields : \E r \in stated : rows[p][n] = r[n]
  <2> DEFINE At(s) == {s.rows[q] : q \in {r \in DOMAIN s.rows :
                         r[1] = p[1] /\ Canonical(r[2]) = p[2]}}
             stated == UNION {At(s) : s \in LoadedSet}
  <2>1. p \in DOMAIN pending
    BY DEF Surviving
  <2>2. ASSUME NEW f \in Group(p[1], p[2])  PROVE f.record \in stated
    <3>1. RowOf(f, p[1], p[2])
      BY GroupOfRows
    <3>2. PICK s \in LoadedSet : \E q \in DOMAIN s.rows :
                 f = Fact(s, q) /\ q[1] = p[1] /\ Canonical(q[2]) = p[2]
      BY <3>1 DEF RowOf
    <3>3. PICK q \in DOMAIN s.rows :
                 f = Fact(s, q) /\ q[1] = p[1] /\ Canonical(q[2]) = p[2]
      BY <3>2
    <3>4. f.record = s.rows[q]
      BY <3>3 DEF Fact
    <3>5. s.rows[q] \in At(s)
      BY <3>3
    <3> QED BY <3>4, <3>5
  <2> HIDE DEF stated
  <2>3. stated # {}
    BY <2>1, <2>2, ResolutionsHaveFacts
  <2>4. ASSUME p[1] \in TableCategories, NEW n \in Fields
        PROVE  \E r \in stated : rows[p][n] = r[n]
    <3>1. PICK f \in Group(p[1], p[2]) : pending[p].record[n] = f.record[n]
      BY <2>1, <2>4, MergedRecord
    <3>2. rows[p] = pending[p].record
      OBVIOUS
    <3> QED BY <2>2, <3>1, <3>2
  <2> QED BY <2>3, <2>4 DEF stated
<1> QED BY <1>1, <1>2 DEF KeepsRows

\* The vocabularies that are carried over are none of those facts speak for.
LEMMA CarriedOver ==
  ASSUME NEW view, DOMAIN view = DOMAIN Nothing
  PROVE  LET v == carry_over(view)
         IN  /\ DOMAIN v = DOMAIN Nothing /\ v.rows = view.rows /\ v.sources = view.sources
             /\ \A c \in DOMAIN v.categories \cap Categories :
                  c \in DOMAIN view.categories /\ v.categories[c] = view.categories[c]
<1> DEFINE over == {c \in CARRIED_CATEGORIES : Captured(c) # {}}
           R == [c \in over |-> Carrier(c).carried[c]]
           C == [c \in DOMAIN view.categories \cup over |->
                   IF c \in over THEN scope_of_source(Carrier(c), c) ELSE view.categories[c]]
           v == carry_over(view)
<1>1. v = [view EXCEPT !.carried = R, !.categories = C]
  BY DEF carry_over
<1>2. \A c \in DOMAIN C \cap Categories : c \in DOMAIN view.categories /\ C[c] = view.categories[c]
  BY ConfigurationAssumption
<1> HIDE DEF R, C, v
<1>3. /\ DOMAIN v = DOMAIN Nothing /\ v.rows = view.rows /\ v.sources = view.sources
      /\ v.categories = C
  BY <1>1, ViewFields
<1> QED BY <1>2, <1>3 DEF v

\* What a merge of several sources hands on.
LEMMA MergedView ==
  ASSUME MergeOfLoaded, EngineInv, pc = "done", Len(loaded) # 1
  PROVE  Unaged(carry_over(build({p[1] : p \in DOMAIN pending}, in.sources)))
<1> DEFINE emit == {p[1] : p \in DOMAIN pending}
           b == build(emit, in.sources)
           v == carry_over(b)
<1>1. /\ DOMAIN b = DOMAIN Nothing
      /\ b.rows = [p \in {q \in Surviving : q[1] \in emit} |-> pending[p].record]
      /\ b.sources = in.sources
      /\ b.categories = [c \in emit |-> BuiltCategory(c, in.sources)]
  <2> HIDE DEF emit
  <2> QED BY BuiltView
<1>2. {q \in Surviving : q[1] \in emit} = Surviving
  BY DEF Surviving
<1> HIDE DEF b
<1>3. /\ DOMAIN v = DOMAIN Nothing /\ v.rows = b.rows /\ v.sources = b.sources
      /\ \A c \in DOMAIN v.categories \cap Categories :
           c \in DOMAIN b.categories /\ v.categories[c] = b.categories[c]
  BY <1>1, CarriedOver
<1> HIDE DEF v, emit
<1>4. KeepsRows(v.rows)
  <2>1. DOMAIN v.rows = Surviving /\ \A p \in Surviving : v.rows[p] = pending[p].record
    BY <1>1, <1>2, <1>3
  <2> QED BY <2>1, MergedRows
<1>5. ASSUME NEW c \in DOMAIN v.categories \cap Categories
      PROVE  MergedCategory(v, c)
  <2>1. v.sources = in.sources /\ v.categories[c] = BuiltCategory(c, in.sources)
    BY <1>1, <1>3
  <2> QED BY <2>1, MergedCategoryOf
<1> QED BY <1>3, <1>4, <1>5 DEF Unaged, v, b, emit

-----------------------------------------------------------------------------
(* load_current.  The two properties speak of its answer; what carries     *)
(* them there says, at every stage, what has loaded, that each call of the *)
(* engine is a call it is made for and keeps its own invariant, and what   *)
(* the view under construction holds.                                      *)

\* What loaded is well formed, each under the id of an earlier source.
Placed ==
  /\ configured \in Configurations /\ next \in Nat \ {0}
  /\ loaded \in Seq(LoadedSet)
  /\ \A i \in 1..Len(loaded) :
       /\ FileOK(loaded[i])
       /\ \E j \in 1..Len(configured) : j < next /\ loaded[i].id = configured[j].id
  /\ \A i, j \in 1..Len(loaded) : loaded[i].id = loaded[j].id => i = j

\* A call of the engine inside a capture.
CaptureCall ==
  /\ EngineInv /\ TypedCall /\ in.facts \subseteq Facts
  /\ \A i \in DOMAIN in.sources : DeclaredOK(in.sources[i])

Staged ==
  /\ stage \in {"load", "capture", "merge", "age", "report", "ended"}
  /\ stage = "capture" => next <= Len(configured) /\ CaptureCall
  /\ stage = "merge"  => Len(loaded) > 1 /\ EngineInv /\ MergeOfLoaded
  /\ stage = "age"    => Unaged(current)
  /\ stage = "report" => KeepsRows(current.rows) /\ InventsNoAbsence(current)
  /\ Reconciled       => KeepsRows(View.rows) /\ InventsNoAbsence(View)

LoadInv == Placed /\ Staged

\* The next source is well formed, and its id is new.
LEMMA SourceIsConfigured ==
  ASSUME Placed, next <= Len(configured)
  PROVE  /\ Source \in Configured /\ Source.id \in SourceIds
         /\ next \in 1..Len(configured) /\ Source = configured[next]
         /\ IF IsDirectory(Source) THEN DirectoryOK(Source) ELSE FileOK(Source)
         /\ \A i \in 1..Len(loaded) : loaded[i].id # Source.id
<1>1. configured \in Seq(Configured) /\ Len(configured) \in Nat
  BY ConfigurationAssumption, LenProperties DEF Placed
<1>2. next \in 1..Len(configured)
  BY <1>1 DEF Placed
<1>3. Source \in Configured
  BY <1>1, <1>2, ElementOfSeq DEF Source
<1>4. ASSUME NEW i \in 1..Len(loaded), loaded[i].id = Source.id  PROVE FALSE
  <2>1. PICK j \in 1..Len(configured) : j < next /\ loaded[i].id = configured[j].id
    BY DEF Placed
  <2>2. j = next
    BY <1>2, <1>4, <2>1, ConfigurationAssumption DEF Placed, Source
  <2> QED BY <1>2, <2>1, <2>2
<1> QED BY <1>2, <1>3, <1>4, ConfigurationAssumption DEF Source

LEMMA LoadedIsOK ==
  ASSUME Placed
  PROVE  /\ LoadedOK /\ Len(loaded) \in Nat
         /\ LoadedSet = {loaded[i] : i \in 1..Len(loaded)}
<1>1. Len(loaded) \in Nat /\ DOMAIN loaded = 1..Len(loaded)
  BY LenProperties DEF Placed
<1>2. LoadedSet = {loaded[i] : i \in 1..Len(loaded)}
  BY <1>1 DEF LoadedSet
<1>3. ASSUME NEW i \in 1..Len(loaded)  PROVE loaded[i].id \in SourceIds
  <2>1. PICK j \in 1..Len(configured) : loaded[i].id = configured[j].id
    BY DEF Placed
  <2>2. configured \in Seq(Configured)
    BY ConfigurationAssumption DEF Placed
  <2>3. configured[j] \in Configured
    BY <2>2, ElementOfSeq
  <2> QED BY <2>1, <2>3, ConfigurationAssumption
<1>4. ASSUME NEW s \in LoadedSet  PROVE FileOK(s) /\ s.id \in SourceIds
  BY <1>2, <1>3 DEF Placed
<1>5. ASSUME NEW s \in LoadedSet, NEW t \in LoadedSet, s.id = t.id  PROVE s = t
  BY <1>2, <1>5 DEF Placed
<1> QED BY <1>1, <1>2, <1>4, <1>5 DEF LoadedOK

\* What is said of a view stands for as long as the loaded sources do.
LEMMA ViewStands ==
  ASSUME UNCHANGED loaded, NEW view
  PROVE  /\ KeepsRows(view.rows)' <=> KeepsRows(view.rows)
         /\ InventsNoAbsence(view)' <=> InventsNoAbsence(view)
         /\ Unaged(view)' <=> Unaged(view)
<1>1. LoadedSet' = LoadedSet
  BY DEF LoadedSet
<1>2. KeepsRows(view.rows)' <=> KeepsRows(view.rows)
  BY <1>1 DEF KeepsRows
<1>3. InventsNoAbsence(view)' <=> InventsNoAbsence(view)
  BY <1>1 DEF InventsNoAbsence
<1>4. \A c : MergedCategory(view, c)' <=> MergedCategory(view, c)
  BY <1>1 DEF MergedCategory
<1> QED BY <1>1, <1>2, <1>3, <1>4 DEF Unaged

LEMMA PlacedStands ==
  ASSUME Placed, UNCHANGED <<configured, loaded, next>>
  PROVE  Placed'
<1>1. LoadedSet' = LoadedSet
  BY DEF LoadedSet
<1> QED BY <1>1 DEF Placed

\* A new call of the engine begins with nothing resolved.
LEMMA EngineRestarts ==
  ASSUME NEW facts, NEW sources, NEW table, Resolve(facts, sources, table)
  PROVE  /\ EngineInv'
         /\ in'.facts = facts /\ in'.sources = sources /\ in'.category_scopes = table
<1>1. pc' = "partition" /\ kept' = {} /\ dropped' = {} /\ DOMAIN pending' = {}
      /\ declared_not_applied' = {}
  BY DEF Resolve
<1>2. Partitioned' /\ Grouped' /\ Scoped'
  BY <1>1 DEF Partitioned, Grouped, Scoped
<1>3. Resolved' /\ Reported'
  BY <1>1 DEF Resolved, Reported
<1>4. in' = [facts |-> facts, sources |-> sources, policy |-> in.policy,
             category_scopes |-> table]
  BY DEF Resolve
<1> QED BY <1>2, <1>3, <1>4 DEF EngineInv

\* A source that loads under the id it is configured by keeps its place.
LEMMA LoadsKeepsPlace ==
  ASSUME Placed, next <= Len(configured), NEW s, FileOK(s), s.id = Source.id, Loads(s)
  PROVE  Placed' /\ stage' = "load"
<1>1. loaded' = Append(loaded, s) /\ next' = next + 1 /\ configured' = configured
      /\ stage' = "load"
  BY DEF Loads
<1> DEFINE T == LoadedSet \cup {s}
           n == Len(loaded)
<1>2. loaded \in Seq(T)
  BY SeqMonotonic DEF Placed
<1>3. /\ loaded' \in Seq(T) /\ Len(loaded') = n + 1 /\ n \in Nat
      /\ \A i \in 1..n : loaded'[i] = loaded[i]
      /\ loaded'[n + 1] = s
  <2> HIDE DEF T
  <2>1. s \in T
    BY DEF T
  <2> QED BY <1>1, <1>2, <2>1, AppendProperties, LenProperties
<1>4. \A i \in 1..Len(loaded') : i \in 1..n \/ i = n + 1
  BY <1>3
<1>5. LoadedSet' = T
  <2>1. LoadedSet = {loaded[i] : i \in 1..n}
    BY LoadedIsOK
  <2>2. LoadedSet' = {loaded'[i] : i \in 1..Len(loaded')}
    <3>1. DOMAIN loaded' = 1..Len(loaded')
      <4> HIDE DEF T
      <4> QED BY <1>3, LenProperties
    <3> QED BY <3>1 DEF LoadedSet
  <2>3. \A i \in 1..n : i \in 1..Len(loaded')
    BY <1>3
  <2>4. n + 1 \in 1..Len(loaded')
    BY <1>3
  <2> QED BY <1>3, <1>4, <2>1, <2>2, <2>3, <2>4
<1> HIDE DEF T
<1>6. /\ next \in 1..Len(configured)
      /\ \A i \in 1..n : loaded[i].id # Source.id
      /\ Source = configured[next]
  BY SourceIsConfigured
<1>7. next' \in Nat \ {0} /\ next \in Nat
  BY <1>1 DEF Placed
<1>8. ASSUME NEW i \in 1..Len(loaded')
      PROVE  /\ FileOK(loaded'[i])
             /\ \E j \in 1..Len(configured') : j < next' /\ loaded'[i].id = configured'[j].id
  <2>1. CASE i \in 1..n
    <3>1. /\ FileOK(loaded[i])
          /\ \E j \in 1..Len(configured) : j < next /\ loaded[i].id = configured[j].id
      BY <2>1 DEF Placed
    <3>2. PICK j \in 1..Len(configured) : j < next /\ loaded[i].id = configured[j].id
      BY <3>1
    <3>3. j < next'
      BY <1>1, <1>7, <3>2
    <3> QED BY <1>1, <1>3, <2>1, <3>1, <3>2, <3>3
  <2>2. CASE i = n + 1
    <3>1. next < next'
      BY <1>1, <1>7
    <3> QED BY <1>1, <1>3, <1>6, <2>2, <3>1
  <2> QED BY <1>4, <2>1, <2>2
<1>9. ASSUME NEW i \in 1..Len(loaded'), NEW j \in 1..Len(loaded'),
             loaded'[i].id = loaded'[j].id
      PROVE  i = j
  <2>1. CASE i \in 1..n /\ j \in 1..n
    BY <1>3, <1>9, <2>1 DEF Placed
  <2>2. CASE i = n + 1 /\ j \in 1..n
    BY <1>3, <1>6, <1>9, <2>2
  <2>3. CASE i \in 1..n /\ j = n + 1
    BY <1>3, <1>6, <1>9, <2>3
  <2> QED BY <1>4, <2>1, <2>2, <2>3
<1> QED BY <1>1, <1>3, <1>5, <1>7, <1>8, <1>9 DEF Placed

\* One that fails is passed over.
LEMMA FailsKeepsPlace ==
  ASSUME Placed, Fails
  PROVE  Placed' /\ stage' = "load"
<1>1. next' = next + 1 /\ stage' = "load" /\ UNCHANGED <<configured, loaded>>
  BY DEF Fails
<1>2. LoadedSet' = LoadedSet
  BY <1>1 DEF LoadedSet
<1>3. next' \in Nat \ {0} /\ next \in Nat
  BY <1>1 DEF Placed
<1>4. ASSUME NEW i \in 1..Len(loaded)
      PROVE  /\ FileOK(loaded[i])
             /\ \E j \in 1..Len(configured) : j < next' /\ loaded[i].id = configured[j].id
  <2>1. /\ FileOK(loaded[i])
        /\ \E j \in 1..Len(configured) : j < next /\ loaded[i].id = configured[j].id
    BY DEF Placed
  <2>2. PICK j \in 1..Len(configured) : j < next /\ loaded[i].id = configured[j].id
    BY <2>1
  <2>3. j < next'
    BY <1>1, <1>3, <2>2
  <2> QED BY <2>1, <2>2, <2>3
<1> QED BY <1>1, <1>2, <1>3, <1>4 DEF Placed

\* While sources load, nothing is under construction.
LEMMA LoadingIsStaged ==
  ASSUME stage' = "load"
  PROVE  Staged'
<1>1. ~Reconciled'
  BY DEF Reconciled, Ended
<1> QED BY <1>1 DEF Staged

LEMMA CaptureIsACall ==
  ASSUME LoadInv, StartCapture
  PROVE  LoadInv'
<1>1. /\ Placed /\ stage = "load" /\ next <= Len(configured) /\ IsDirectory(Source)
      /\ stage' = "capture" /\ UNCHANGED <<configured, next, loaded>>
  BY DEF LoadInv, StartCapture
<1>2. Placed'
  BY <1>1, PlacedStands
<1>3. DirectoryOK(Source) /\ Source \in Configured
  BY <1>1, SourceIsConfigured
<1>4. PICK read \in SUBSET DOMAIN Source.artifacts : \E mapped \in SUBSET read :
        Resolve({f \in Source.facts : f.origin \in mapped},
                [i \in read |-> Source.artifacts[i]], <<>>)
  BY DEF StartCapture
<1>5. PICK mapped \in SUBSET read :
        Resolve({f \in Source.facts : f.origin \in mapped},
                [i \in read |-> Source.artifacts[i]], <<>>)
  BY <1>4
<1>6. /\ EngineInv'
      /\ in'.facts = {f \in Source.facts : f.origin \in mapped}
      /\ in'.sources = [i \in read |-> Source.artifacts[i]]
      /\ in'.category_scopes = <<>>
  BY <1>5, EngineRestarts
<1>7. /\ DOMAIN in'.sources = read /\ read \subseteq DOMAIN Source.artifacts
      /\ \A i \in read : in'.sources[i] = Source.artifacts[i]
      /\ \A f \in in'.facts : f \in Source.facts /\ f.origin \in read
      /\ DOMAIN in'.category_scopes = {}
  BY <1>6
<1>8. ASSUME NEW i \in DOMAIN in'.sources
      PROVE  DeclaredOK(in'.sources[i]) /\ i \in SourceIds
  BY <1>3, <1>7 DEF DirectoryOK
<1>9. TypedCall'
  <2>1. \A i \in DOMAIN in'.sources :
           in'.sources[i].kind \in Sources /\ in'.sources[i].scope \in Scopes
    BY <1>8 DEF DeclaredOK
  <2> QED BY <1>7, <1>8, <2>1 DEF TypedCall
<1>10. in'.facts \subseteq Facts
  BY <1>3, <1>7 DEF DirectoryOK
<1>11. CaptureCall'
  BY <1>6, <1>8, <1>9, <1>10 DEF CaptureCall
<1>12. ~Reconciled'
  BY <1>1 DEF Reconciled, Ended
<1> QED BY <1>1, <1>2, <1>11, <1>12 DEF LoadInv, Staged

LEMMA CaptureEnds ==
  ASSUME LoadInv, FinishCapture
  PROVE  LoadInv'
<1> DEFINE v == [build(CaptureEmit, in.sources) EXCEPT !.id = Source.id, !.notes = lost]
<1>1. Placed /\ next <= Len(configured) /\ CaptureCall /\ pc = "done"
  BY DEF LoadInv, Staged, FinishCapture
<1>2. FileOK(v) /\ v.id = Source.id
  BY <1>1, CapturedIsOK DEF CaptureCall
<1>3. Fails \/ Loads(v)
  BY DEF FinishCapture
<1> HIDE DEF v
<1>4. Placed' /\ stage' = "load"
  BY <1>1, <1>2, <1>3, LoadsKeepsPlace, FailsKeepsPlace
<1> QED BY <1>4, LoadingIsStaged DEF LoadInv

LEMMA SnapshotLoads ==
  ASSUME LoadInv, LoadSnapshot
  PROVE  LoadInv'
<1>1. /\ Placed /\ next <= Len(configured) /\ ~IsDirectory(Source)
      /\ Loads(Source) \/ Fails
  BY DEF LoadInv, LoadSnapshot
<1>2. FileOK(Source)
  BY <1>1, SourceIsConfigured
<1>3. Placed' /\ stage' = "load"
  BY <1>1, <1>2, LoadsKeepsPlace, FailsKeepsPlace
<1> QED BY <1>3, LoadingIsStaged DEF LoadInv

LEMMA AssembleKeepsInv ==
  ASSUME LoadInv, Assemble
  PROVE  LoadInv'
<1>1. /\ Placed /\ UNCHANGED <<configured, next, loaded>>
      /\ CASE loaded = <<>> -> stage' = "ended" /\ state' = [NoState EXCEPT !.notes = notes]
           [] Len(loaded) = 1 -> stage' = "age" /\ current' = loaded[1]
           [] OTHER -> /\ stage' = "merge"
                       /\ Resolve(UNION {snapshot_facts(s) : s \in LoadedSet},
                                  [i \in {s.id : s \in LoadedSet} |->
                                     record(CHOOSE s \in LoadedSet : s.id = i)],
                                  category_scopes(LoadedSet))
  BY DEF LoadInv, Assemble
<1>2. Placed' /\ LoadedSet' = LoadedSet
  BY <1>1, PlacedStands DEF LoadedSet
<1>3. LoadedOK /\ Len(loaded) \in Nat /\ LoadedSet = {loaded[i] : i \in 1..Len(loaded)}
  BY <1>1, LoadedIsOK
<1>4. CASE loaded = <<>>
  <2>1. stage' = "ended" /\ ~state'.reconciled
    BY <1>1, <1>4 DEF NoState
  <2> QED BY <1>2, <2>1 DEF LoadInv, Staged, Reconciled
<1>5. CASE loaded # <<>> /\ Len(loaded) = 1
  <2>1. stage' = "age" /\ current' = loaded[1]
    BY <1>1, <1>5
  <2>2. LoadedSet = {loaded[1]} /\ FileOK(loaded[1])
    <3>1. \A i : i \in 1..1 <=> i = 1
      OBVIOUS
    <3> QED BY <1>1, <1>3, <1>5, <3>1 DEF Placed
  <2>3. Unaged(loaded[1])
    BY <1>5, <2>2 DEF Unaged, FileOK
  <2>4. Unaged(current)'
    <3> DEFINE v == loaded[1]
    <3> HIDE DEF v
    <3>1. Unaged(v) /\ current' = v
      BY <2>1, <2>3 DEF v
    <3> QED BY <1>1, <3>1, ViewStands
  <2>5. ~Reconciled'
    BY <2>1 DEF Reconciled, Ended
  <2> QED BY <1>2, <2>1, <2>4, <2>5 DEF LoadInv, Staged
<1>6. CASE loaded # <<>> /\ Len(loaded) # 1
  <2>1. Len(loaded) > 1
    <3>1. loaded \in Seq(LoadedSet)
      BY <1>1 DEF Placed
    <3>2. Len(loaded) \in Nat \ {0}
      <4>1. \A S : \A seq \in Seq(S) : seq # <<>> => Len(seq) \in Nat \ {0}
        BY EmptySeq, Zenon
      <4> QED BY <1>6, <3>1, <4>1
    <3>3. \A n \in Nat \ {0} : n # 1 => n > 1
      OBVIOUS
    <3> QED BY <1>6, <3>2, <3>3
  <2>2. /\ stage' = "merge"
        /\ Resolve(UNION {snapshot_facts(s) : s \in LoadedSet},
                   [i \in {s.id : s \in LoadedSet} |->
                      record(CHOOSE s \in LoadedSet : s.id = i)],
                   category_scopes(LoadedSet))
    BY <1>1, <1>6
  <2>3. /\ EngineInv'
        /\ in'.facts = UNION {snapshot_facts(s) : s \in LoadedSet}
        /\ in'.sources = [i \in {s.id : s \in LoadedSet} |->
                            record(CHOOSE s \in LoadedSet : s.id = i)]
        /\ in'.category_scopes = category_scopes(LoadedSet)
    BY <2>2, EngineRestarts
  <2>4. LoadedOK'
    BY <1>2, <1>3 DEF LoadedOK
  <2>5. MergeOfLoaded'
    BY <1>2, <2>3, <2>4 DEF MergeOfLoaded
  <2>6. ~Reconciled'
    BY <2>2 DEF Reconciled, Ended
  <2> QED BY <1>1, <1>2, <2>1, <2>2, <2>3, <2>5, <2>6 DEF LoadInv, Staged
<1> QED BY <1>4, <1>5, <1>6

LEMMA MergingKeepsInv ==
  ASSUME LoadInv, Merging
  PROVE  LoadInv'
<1>1. /\ stage \in {"capture", "merge"} /\ Next
      /\ UNCHANGED <<configured, next, loaded, stage>>
  BY DEF Merging, pipeline
<1>2. in' = in
  <2>1. ASSUME NEW c, NEW k, ResolveTable(c, k) \/ WithholdFlat(c, k) \/ EmitFlat(c, k)
        PROVE  in' = in
    BY <2>1 DEF ResolveTable, WithholdFlat, EmitFlat
  <2>2. ASSUME Partition \/ Canonicalise \/ Existence \/ KeyMismatch \/ ComposeScopes
        PROVE  in' = in
    BY <2>2 DEF Partition, Canonicalise, Existence, KeyMismatch, ComposeScopes
  <2> QED BY <1>1, <2>1, <2>2 DEF Next
<1>3. EngineInv => EngineInv'
  BY <1>1, EngineStep
<1>4. Placed' /\ LoadedSet' = LoadedSet
  BY <1>1, PlacedStands DEF LoadInv, LoadedSet
<1>5. CASE stage = "capture"
  <2>1. CaptureCall' /\ next' <= Len(configured')
    BY <1>1, <1>2, <1>3, <1>5 DEF LoadInv, Staged, CaptureCall, TypedCall
  <2>2. ~Reconciled'
    BY <1>1, <1>5 DEF Reconciled, Ended
  <2> QED BY <1>1, <1>4, <1>5, <2>1, <2>2 DEF LoadInv, Staged
<1>6. CASE stage = "merge"
  <2>1. MergeOfLoaded' /\ EngineInv' /\ Len(loaded') > 1
    BY <1>1, <1>2, <1>3, <1>4, <1>6 DEF LoadInv, Staged, MergeOfLoaded, LoadedOK
  <2>2. ~Reconciled'
    BY <1>1, <1>6 DEF Reconciled, Ended
  <2> QED BY <1>1, <1>4, <1>6, <2>1, <2>2 DEF LoadInv, Staged
<1> QED BY <1>1, <1>5, <1>6

LEMMA MergeEnds ==
  ASSUME LoadInv, FinishMerge
  PROVE  LoadInv'
<1> DEFINE v == carry_over(build({p[1] : p \in DOMAIN pending}, in.sources))
<1>1. /\ stage = "merge" /\ pc = "done" /\ current' = v /\ stage' = "age"
      /\ UNCHANGED <<configured, next, loaded>>
  BY DEF FinishMerge
<1>2. /\ Placed /\ Placed' /\ Len(loaded) > 1 /\ EngineInv /\ MergeOfLoaded
  BY <1>1, PlacedStands DEF LoadInv, Staged
<1>3. Unaged(v)
  <2>1. Len(loaded) \in Nat
    BY <1>2, LoadedIsOK
  <2>2. \A n \in Nat : n > 1 => n # 1
    OBVIOUS
  <2>3. Len(loaded) # 1
    BY <1>2, <2>1, <2>2
  <2> QED BY <1>1, <1>2, <2>3, MergedView
<1> HIDE DEF v
<1>4. Unaged(current)'
  BY <1>1, <1>3, ViewStands
<1>5. ~Reconciled'
  BY <1>1 DEF Reconciled, Ended
<1> QED BY <1>1, <1>2, <1>4, <1>5 DEF LoadInv, Staged

LEMMA AgeKeepsInv ==
  ASSUME LoadInv, Age
  PROVE  LoadInv'
<1> DEFINE v == demote_stale(current)
<1>1. /\ stage = "age" /\ current' = v /\ stage' = "report"
      /\ UNCHANGED <<configured, next, loaded>>
  BY DEF Age
<1>2. Placed' /\ Unaged(current)
  BY <1>1, PlacedStands DEF LoadInv, Staged
<1>3. KeepsRows(v.rows) /\ InventsNoAbsence(v)
  BY <1>2, AgedView
<1> HIDE DEF v
<1>4. (KeepsRows(current.rows) /\ InventsNoAbsence(current))'
  BY <1>1, <1>3, ViewStands
<1>5. ~Reconciled'
  BY <1>1 DEF Reconciled, Ended
<1> QED BY <1>1, <1>2, <1>4, <1>5 DEF LoadInv, Staged

LEMMA EndKeepsInv ==
  ASSUME LoadInv, Reconcile \/ StepRaises
  PROVE  LoadInv'
<1>1. Placed /\ stage' = "ended" /\ UNCHANGED <<configured, next, loaded>>
  BY DEF LoadInv, Reconcile, StepRaises
<1>2. Placed'
  BY <1>1, PlacedStands
<1>3. CASE Reconcile
  <2>1. stage = "report" /\ state'.view = current
    BY <1>3 DEF Reconcile
  <2>2. KeepsRows(current.rows) /\ InventsNoAbsence(current)
    BY <2>1 DEF LoadInv, Staged
  <2>3. (KeepsRows(View.rows) /\ InventsNoAbsence(View))'
    BY <1>1, <2>1, <2>2, ViewStands DEF View
  <2> QED BY <1>1, <1>2, <2>3 DEF LoadInv, Staged
<1>4. CASE StepRaises
  <2>1. ~state'.reconciled
    BY <1>4 DEF StepRaises
  <2> QED BY <1>1, <1>2, <2>1 DEF LoadInv, Staged, Reconciled
<1> QED BY <1>3, <1>4

LEMMA LoadStarts == ASSUME LoadInit PROVE LoadInv
<1>1. /\ configured \in Configurations /\ next = 1 /\ loaded = <<>> /\ stage = "load"
  BY DEF LoadInit
<1>2. loaded \in Seq(LoadedSet) /\ Len(loaded) = 0
  BY <1>1, EmptySeq
<1>3. Placed
  BY <1>1, <1>2 DEF Placed
<1>4. ~Reconciled
  BY <1>1 DEF Reconciled, Ended
<1> QED BY <1>1, <1>3, <1>4 DEF LoadInv, Staged

LEMMA LoadStep ==
  ASSUME LoadInv, [LoadNext]_<<pipeline, engine>>
  PROVE  LoadInv'
<1>1. CASE CaptureRaises
  <2>1. Placed /\ Fails
    BY <1>1 DEF LoadInv, CaptureRaises
  <2> QED BY <2>1, FailsKeepsPlace, LoadingIsStaged DEF LoadInv
<1>2. CASE UNCHANGED <<pipeline, engine>>
  <2>1. /\ UNCHANGED <<configured, next, loaded, stage, current, state>>
        /\ UNCHANGED vars
    BY <1>2 DEF pipeline, engine, vars
  <2>2. Placed' /\ LoadedSet' = LoadedSet /\ in' = in
    BY <2>1, PlacedStands DEF LoadInv, LoadedSet, vars
  <2>3. EngineInv => EngineInv'
    BY <2>1, EngineStep
  <2>4. CaptureCall => CaptureCall'
    BY <2>2, <2>3 DEF CaptureCall, TypedCall
  <2>5. MergeOfLoaded => MergeOfLoaded'
    BY <2>2 DEF MergeOfLoaded, LoadedOK
  <2>6. /\ Unaged(current) => Unaged(current)'
        /\ KeepsRows(current.rows) /\ InventsNoAbsence(current)
             => (KeepsRows(current.rows) /\ InventsNoAbsence(current))'
        /\ KeepsRows(View.rows) /\ InventsNoAbsence(View)
             => (KeepsRows(View.rows) /\ InventsNoAbsence(View))'
    BY <2>1, ViewStands DEF View
  <2>7. Reconciled' <=> Reconciled
    BY <2>1 DEF Reconciled, Ended
  <2> QED BY <2>1, <2>2, <2>3, <2>4, <2>5, <2>6, <2>7 DEF LoadInv, Staged
<1> QED BY <1>1, <1>2, SnapshotLoads, CaptureIsACall, CaptureEnds, AssembleKeepsInv,
           MergingKeepsInv, MergeEnds, AgeKeepsInv, EndKeepsInv DEF LoadNext

\* Reconciling the loaded sources keeps what each of them knows and adds
\* nothing to it, whatever the configuration, the policy and the steps that
\* fail on the way (sources.load_current, merge.py, estate.build).
THEOREM RowsAreKept == LoadSpec => []RowsSurvive
<1>1. LoadInv => RowsSurvive
  BY DEF LoadInv, Staged, RowsSurvive
<1> QED BY LoadStarts, LoadStep, <1>1, PTL DEF LoadSpec

\* Nor does it create the right to conclude that something is absent: the
\* scope of a reconciled category is earned by some source's own claim, never
\* by the merge, and is gone once a stale source has a part in the category
\* (freshness.evaluate).
THEOREM AbsenceStaysEarned == LoadSpec => []AbsenceIsNeverInvented
<1>1. LoadInv => AbsenceIsNeverInvented
  BY DEF LoadInv, Staged, AbsenceIsNeverInvented
<1> QED BY LoadStarts, LoadStep, <1>1, PTL DEF LoadSpec
=============================================================================
