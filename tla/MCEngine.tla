------------------------------ MODULE MCEngine ------------------------------
(***************************************************************************)
(* Two API captures, of which one is complete within a boundary, a state   *)
(* capture and an anonymous snapshot describe one or two targets.          *)
(***************************************************************************)
EXTENDS Engine, TLC

Declared(k, scope, boundary) == [kind |-> k, scope |-> scope, boundary |-> boundary]
MCSources == 1 :> Declared("api", "complete", "") @@ 2 :> Declared("tfstate", "partial", "")
             @@ 3 :> Declared("api", "complete", "org") @@ 4 :> Declared("unattributed", "undeclared", "")

Doc(answer) == [form |-> TRUE, answer |-> answer]
Formless == [form |-> FALSE, answer |-> {}]
Documents == {Doc({"grounded"}), Doc({"contradicted"}), Doc({"grounded", "contradicted"}),
              Formless}
Plain == {Doc({"grounded"}), Doc({"contradicted"}), Formless}

Covers(scope, boundary) ==
  CategoryScope([UNCAPTURED EXCEPT !.scope = scope, !.boundary = boundary,
                                   !.source_kinds = {"api"}, !.emitted = TRUE,
                                   !.existence_licensed = TRUE])
Table(category, aged) == [category |-> category, held |-> TRUE, aged |-> aged]
Full    == Covers("complete", "")
Within  == Covers("complete", "org")
Part    == Covers("partial", "")
Holed   == CategoryScope([Full EXCEPT !.dropped = 1, !.existence_licensed = TRUE])

Row == [table |-> "t", found |-> "row", winner |-> 1, records |-> 1 :> Doc({"contradicted"}),
        disputes |-> {}, taint |-> "", unresolved |-> FALSE, empty |-> FALSE,
        mode |-> "requires_complete", differs |-> "yes", declared |-> FALSE]
Quiet == [have_state |-> TRUE, auto_baseline |-> TRUE, pair_tier |-> TRUE, block |-> FALSE,
          unresolved |-> FALSE, claims |-> {"grounded"}, sources |-> MCSources,
          tables |-> "t" :> Table(Full, FALSE), rows |-> <<Row>>, rules |-> <<>>,
          configuration |-> FALSE, declares |-> FALSE, carried |-> FALSE]

\* One disputed row, two or three sources, every answer each could give, any
\* of them the winner.
Records ==
  [{1, 2} -> Documents] \cup [{1, 3} -> Documents] \cup [{1, 2, 4} -> Plain]
DisputedRows ==
  {[Row EXCEPT !.records = r, !.winner = w, !.taint = "disputed",
               !.disputes = {"material"}, !.mode = m] :
     r \in Records, w \in 1..4, m \in {"requires_complete", "subset_safe"}}
DisputedInputs ==
  {[Quiet EXCEPT !.rows = <<r>>, !.tables = "t" :> t, !.unresolved = u] :
     r \in {d \in DisputedRows : d.winner \in DOMAIN d.records},
     t \in {Table(Full, FALSE), Table(Part, FALSE), Table(Within, FALSE), Table(Full, TRUE)},
     u \in BOOLEAN}

\* Two targets of one table or of two, each resolved its own way.
Ways ==
  {Row, [Row EXCEPT !.found = "miss"], [Row EXCEPT !.found = "ambiguous"],
   [Row EXCEPT !.unresolved = TRUE, !.records = 1 :> Doc({"grounded"})],
   [Row EXCEPT !.empty = TRUE], [Row EXCEPT !.records = 1 :> Formless],
   [Row EXCEPT !.taint = "unmergeable"],
   [Row EXCEPT !.winner = 2, !.records = 2 :> Doc({"grounded", "contradicted"})],
   [Row EXCEPT !.taint = "disputed", !.disputes = {"material"},
               !.records = 1 :> Doc({"grounded"}) @@ 2 :> Doc({"contradicted"})]}
Tables ==
  {"t" :> Table(c, a) @@ "u" :> Table(Full, FALSE) : c \in {Full, Part, Holed}, a \in BOOLEAN}
PairInputs ==
  {[Quiet EXCEPT !.rows = <<r, [s EXCEPT !.table = t]>>, !.tables = ts, !.block = b] :
     r \in Ways, s \in Ways, t \in {"t", "u"}, ts \in Tables, b \in BOOLEAN}

\* A configuration that names two rows of one table, of which it
\* changes some, with and without a declared row.
Named ==
  {[r EXCEPT !.differs = d] :
     r \in {Row, [Row EXCEPT !.found = "miss"], [Row EXCEPT !.empty = TRUE],
            [Row EXCEPT !.taint = "disputed", !.disputes = {"material"}, !.winner = 2,
                        !.records = 1 :> Doc({"contradicted"}) @@ 2 :> Doc({"contradicted"})]},
     d \in {"yes", "no", "unknown"}}
FirstRowRule == <<[tier |-> "pair", answer |-> "contradicted", mode |-> "requires_complete"]>>
ConfigurationInputs ==
  {[Quiet EXCEPT !.rows = <<[r EXCEPT !.declared = (o = "first")], s>>,
                 !.configuration = TRUE, !.declares = (o # "none"),
                 !.tables = "t" :> t, !.rules = FirstRowRule] :
     r \in Named, s \in Named, o \in {"none", "first", "elsewhere"},
     t \in {Table(Full, FALSE), Table(Part, FALSE), Table(Full, TRUE)}}

\* The rules, and the inputs some tier does without.
Rules == {<<>>, <<[tier |-> "pair", answer |-> "contradicted", mode |-> "requires_complete"],
                  [tier |-> "proposal", answer |-> "grounded", mode |-> "requires_complete"]>>,
          <<[tier |-> "pair", answer |-> "grounded", mode |-> "subset_safe"]>>}
OptionInputs ==
  {[Quiet EXCEPT !.have_state = h, !.auto_baseline = a, !.pair_tier = p, !.unresolved = u,
                 !.rules = rs, !.carried = rs # <<>>, !.claims = c, !.rows = <<r>>,
                 !.tables = "t" :> Table(t, FALSE)] :
     h \in BOOLEAN, a \in BOOLEAN, p \in BOOLEAN, u \in BOOLEAN, rs \in Rules,
     c \in {{"ungrounded"}, {"grounded", "contradicted"}}, r \in {Row, [Row EXCEPT !.found = "miss"]},
     t \in {Full, Part}}

MCInputs == DisputedInputs \cup PairInputs \cup ConfigurationInputs \cup OptionInputs
=============================================================================
