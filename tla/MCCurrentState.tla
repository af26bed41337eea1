--------------------------- MODULE MCCurrentState ---------------------------
(***************************************************************************)
(* Snapshot files and one terraform directory, in every order of two and   *)
(* in a few of three.  One table category, one flat one that a terraform   *)
(* capture does not emit by default, one carried vocabulary.               *)
(***************************************************************************)
EXTENDS CurrentState, TLC

MCKeys == {"k1", "k1-alias", "k2", "raw"}
MCcanonical_key == [k \in MCKeys \ AmbiguousKeys |-> IF k = "k1-alias" THEN "k1" ELSE k]
MCSourceIds == 1..13
MCFields == {"ports", "description"}
MCslot == [i \in Items |-> 0]
X == [n \in MCFields |-> {"x"}]
Y == [X EXCEPT !["ports"] = {"y"}]

Declared(k, scope, old) ==
  [kind |-> k, scope |-> scope, boundary |-> "", old |-> old, superseded |-> FALSE]
Covers(scope, boundary, kinds) ==
  [UNCAPTURED EXCEPT !.scope = scope, !.boundary = boundary, !.keys = 1,
                     !.source_kinds = kinds, !.existence_licensed = scope = "complete",
                     !.emitted = TRUE]

\* A snapshot file with one declared source, as a sidecar describes it.
File(i, rows, categories, source) ==
  [Nothing EXCEPT !.id = i, !.rows = rows, !.categories = categories,
                  !.sources = i :> source, !.origin = [p \in DOMAIN rows |-> i],
                  !.old = source.old]

\* Two API captures of different projects, and one that is partial in the
\* category its source record calls complete.
Api(i, boundary, old, scope) ==
  File(i, (<<"table", "k1">> :> X) @@ (<<"flat", IF i = 1 THEN "k1" ELSE "k2">> :> NoRecord),
       ("table" :> Covers("complete", boundary, {"api"}))
         @@ ("flat" :> Covers(scope, boundary, {"api"})),
       Declared("api", "complete", old))

\* A vocabulary with no sidecar, and a fuller one that an API capture wrote.
Vocabulary(i, k, scope, old) ==
  [File(i, <<>>, "permissions" :> Covers(scope, "", {k}), Declared(k, scope, old))
     EXCEPT !.carried = "permissions" :> i]

\* A snapshot captured from a state file, which may have been applied since.
Captured_tfstate(old, superseded) ==
  [File(5, (<<"table", "k1-alias">> :> Y),
        "table" :> Covers("partial", "", {"tfstate"}), Declared("tfstate", "partial", old))
     EXCEPT !.sources = 9 :> [Declared("tfstate", "partial", old) EXCEPT !.superseded = superseded],
            !.origin = <<"table", "k1-alias">> :> 9]

\* A sidecar that names no source.
Anonymous ==
  [File(6, <<"table", "k2">> :> X, "table" :> Covers("undeclared", "", {}),
        Declared("api", "complete", FALSE))
     EXCEPT !.sources = <<>>, !.origin = <<>>]

\* Flat names known from configuration alone, in a snapshot that emitted them.
Configuration ==
  File(7, (<<"flat", "k1">> :> NoRecord) @@ (<<"flat", "k2">> :> NoRecord),
       "flat" :> Covers("partial", "", {"hcl"}), Declared("hcl", "partial", FALSE))

\* A snapshot beside a sidecar that says nothing of one of its categories.
Silent ==
  File(12, (<<"table", "k1">> :> X) @@ (<<"table", "raw">> :> Y) @@ (<<"flat", "k2">> :> NoRecord),
       "flat" :> Covers("partial", "", {"api"}), Declared("api", "complete", FALSE))

\* State and configuration that disagree on k1.
Directory ==
  LET fact(i, k, key, r) ==
        [category |-> "table", key |-> key, origin |-> i, source |-> k, address |-> 1,
         fragment |-> FALSE, record |-> r, unresolved |-> {}]
  IN  [id |-> 8,
       artifacts |-> (10 :> Declared("tfstate", "partial", FALSE))
                     @@ (11 :> Declared("hcl", "partial", TRUE)),
       facts |-> {fact(10, "tfstate", "k1", X), fact(11, "hcl", "k1", Y),
                  fact(11, "hcl", "k2", [X EXCEPT !["ports"] = Marker])}]

Pool ==
  {Api(1, "a", old, "complete") : old \in BOOLEAN}
  \cup {Api(2, "b", FALSE, scope) : scope \in {"complete", "partial"}}
  \cup {Vocabulary(3, "unattributed", "complete", old) : old \in BOOLEAN}
  \cup {Vocabulary(4, "api", "partial", FALSE)}
  \cup {Captured_tfstate(old, superseded) : old, superseded \in BOOLEAN}
  \cup {Anonymous, Configuration, Silent, Directory}

Distinct(q) == \A i, j \in DOMAIN q : i # j => q[i].id # q[j].id
MCConfigurations ==
  {<<>>} \cup {<<s>> : s \in Pool}
  \cup {q \in Pool \X Pool : Distinct(q)}
  \cup {q \in {Api(1, "a", old, "complete") : old \in BOOLEAN}
              \X {Vocabulary(3, "unattributed", "complete", FALSE), Captured_tfstate(TRUE, FALSE)}
              \X {Directory, Vocabulary(4, "api", "partial", FALSE), Api(2, "b", FALSE, "partial")} :
          Distinct(q)}

MCFactSets == {{}}
MCSourceLists == {[s \in MCSourceIds |-> Declared("api", "undeclared", FALSE)]}
MCScopeTables == {<<>>}
MCPolicies == {[c \in Categories |-> mode] : mode \in {"api-wins", "terraform-wins"}}
=============================================================================
