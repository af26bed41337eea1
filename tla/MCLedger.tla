------------------------------ MODULE MCLedger ------------------------------
(***************************************************************************)
(* Instance of Ledger for TLC: one category (categories share nothing but  *)
(* the sources), one key, one source id, and the declare() calls whose   *)
(* combinations matter: two named boundaries and none, a terraform and an  *)
(* API contributor, a tainted one, one that withholds its licence and one  *)
(* that emitted nothing.                                                   *)
(***************************************************************************)
EXTENDS Ledger

Decl(scope, boundary, kind) ==
  [scope |-> scope, boundary |-> boundary, taint |-> "", keys |-> 0,
   source_kinds |-> {kind}, existence_licensed |-> TRUE, emitted |-> TRUE]

MCBoundaries == {"", "A", "B"}

MCRecords == {[kind |-> "api", scope |-> "complete"],
              [kind |-> "tfstate", scope |-> "complete"]}

MCDeclarations ==
  {Decl("complete", "A", "api"), Decl("complete", "", "api"),
   Decl("partial", "B", "api"), Decl("partial", "A", "tfstate"),
   [Decl("complete", "A", "api") EXCEPT !.taint = "stale"],
   [Decl("undeclared", "A", "api") EXCEPT !.existence_licensed = FALSE],
   [Decl("uncaptured", "B", "api") EXCEPT !.emitted = FALSE]}
=============================================================================
