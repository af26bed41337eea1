------------------------------ MODULE MCChecks ------------------------------
(***************************************************************************)
(* Two tables with two names each.  The merged view holds any one row, or  *)
(* one table, in question; a vocabulary carried over with its licence      *)
(* (Whole) stands beside tables no source licensed, as the merge builds    *)
(* them, and a view of one capture is licensed throughout and undisputed.  *)
(***************************************************************************)
EXTENDS Checks, TLC

MCKeys == {"k", "l"}

Scope(scope, taint, licensed) ==
  CategoryScope([UNCAPTURED EXCEPT !.scope = scope, !.taint = taint, !.emitted = TRUE,
                                   !.source_kinds = {"api"}, !.existence_licensed = licensed])
Licensed == Scope("complete", "", TRUE)
Merged   == Scope("complete", "", FALSE)
Part     == Scope("partial", "", FALSE)
Aged     == Scope("uncaptured", "stale", FALSE)

Dispute(c, k, severity, field, complete) ==
  [category |-> c, key |-> k, severity |-> severity, field |-> field, complete |-> complete]

Existence(c, k) ==
  [tier |-> "existence", category |-> c, key |-> k, check |-> FALSE, builtin |-> FALSE,
   complete |-> FALSE, sweeps |-> {}, exempt |-> FALSE]
Check(tier) == [Existence("", "") EXCEPT !.tier = tier, !.check = tier # "rule"]

View == [reconciled |-> TRUE, policy |-> "annotate",
         scopes |-> "a" :> Merged @@ "b" :> Licensed,
         names |-> "a" :> {"k"} @@ "b" :> {"k", "l"}, provable |-> {"a", "b"},
         taints |-> <<>>, disputes |-> {}, withheld |-> {},
         tasks |-> <<>>]

\* Where the view is in question, and how.
Questions ==
  {[taints |-> <<>>, disputes |-> {}],
   [taints |-> <<"a", "k">> :> "disputed",
    disputes |-> {Dispute("a", "k", "material", TRUE, TRUE)}],
   [taints |-> <<"a", "k">> :> "disputed",
    disputes |-> {Dispute("a", "k", "material", FALSE, TRUE)}],
   [taints |-> <<"a", "k">> :> "unmergeable",
    disputes |-> {Dispute("a", "k", "unmergeable", FALSE, FALSE)}],
   [taints |-> <<>>, disputes |-> {Dispute("a", "k", "unmanaged", FALSE, FALSE)}],
   [taints |-> <<>>, disputes |-> {Dispute("a", "l", "material", FALSE, FALSE)}]}
With(v, q) == [v EXCEPT !.taints = q.taints, !.disputes = q.disputes]

Plain == [View EXCEPT !.reconciled = FALSE, !.scopes = <<>>]
Captured == [View EXCEPT !.scopes = "a" :> Licensed @@ "b" :> Licensed]
Views ==
  {With([View EXCEPT !.policy = p], q) : p \in {"annotate", "abstain"}, q \in Questions}
  \cup {[View EXCEPT !.scopes["a"] = s] : s \in {Part, Aged}}
  \cup {Plain, Captured, [Plain EXCEPT !.provable = {"b"}, !.names["a"] = {}]}

SingleChecks ==
  {Check("pair"), [Check("document") EXCEPT !.sweeps = {"a", "b"}],
   [Check("document") EXCEPT !.category = "a", !.sweeps = {"a"}],
   [Check("document") EXCEPT !.category = "a", !.complete = TRUE, !.sweeps = {"a"}],
   [Check("document") EXCEPT !.exempt = TRUE],
   Check("claim"), [Check("claim") EXCEPT !.builtin = TRUE],
   [Check("claim") EXCEPT !.check = FALSE],
   [Check("claim") EXCEPT !.check = FALSE, !.builtin = TRUE]}
  \cup {[Check("rule") EXCEPT !.sweeps = S] : S \in SUBSET {"a", "b"}}

Ask(v, tasks) == [v EXCEPT !.tasks = tasks]

\* One check over every view; names over every view and the scopes that bear
\* on an absence; two checks in a row over the views that tell them apart.
CheckInputs == {Ask(v, <<t>>) : v \in Views, t \in SingleChecks}
NameViews ==
  {With([View EXCEPT !.scopes["a"] = s, !.withheld = w], q) :
     s \in {Merged, Part, Aged}, w \in {{}, {<<"a", "l">>}}, q \in Questions}
  \cup {Plain, [Plain EXCEPT !.provable = {"b"}, !.names["a"] = {}]}
NameInputs ==
  {Ask(v, <<Existence("a", "k"), Existence("a", "l")>>) : v \in NameViews}
InARow(v) ==
  {Ask(v, <<Existence("a", "k"), Check("claim"), [Check("rule") EXCEPT !.sweeps = {"b"}]>>),
   Ask(v, <<[Check("claim") EXCEPT !.check = FALSE], Check("document")>>)}
RowInputs ==
  UNION {InARow(With(View, q)) : q \in {r \in Questions : DOMAIN r.taints # {}}}
  \cup {Ask([View EXCEPT !.taints = <<"a", "k">> :> "disputed"], <<Check("claim"), Check("pair")>>)}

MCInputs == CheckInputs \cup NameInputs \cup RowInputs
=============================================================================
