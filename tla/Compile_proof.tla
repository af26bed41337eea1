--------------------------- MODULE Compile_proof ---------------------------
(***************************************************************************)
(* Proofs about the requirements compiler, for any number of documents,    *)
(* drafts, proposals and edits and for every nature of the formulas: what  *)
(* is enforced was admitted, and compiling again changes nothing.          *)
(***************************************************************************)
EXTENDS Compile, SequenceTheorems, WellFoundedInduction, TLAPS

-----------------------------------------------------------------------------
(* The documents still to be compiled.                                     *)

\* The first of some positions is one of them.
LEMMA FirstIsOne ==
  ASSUME NEW S \in SUBSET Nat, S # {}
  PROVE  Min(S) \in S
<1> DEFINE L == OpToRel(<, Nat)
<1>1. IsWellFoundedOn(L, Nat)
  BY NatLessThanWellFounded
<1>2. \A x, y \in Nat : <<x, y>> \in L <=> x < y
  BY DEF OpToRel
<1> HIDE DEF L
<1>3. PICK m \in S : \A n \in S : ~(<<n, m>> \in L)
  BY <1>1, WFMin
<1>4. ASSUME NEW n \in S PROVE m <= n
  <2>1. ~(n < m)
    BY <1>2, <1>3, m \in Nat, n \in Nat
  <2> QED BY <2>1, m \in Nat, n \in Nat
<1> QED BY <1>4 DEF Min

Positions == DOMAIN Docs

LEMMA FirstDocument ==
  ASSUME run.queue \subseteq Positions, run.queue # {}
  PROVE  Min(run.queue) \in run.queue /\ Doc \in DocSet
<1>1. Positions \subseteq Nat
  BY CompileAssumption DEF Positions
<1>2. Min(run.queue) \in run.queue
  BY <1>1, FirstIsOne
<1> QED BY <1>2 DEF Doc, DocSet, Range, Positions

-----------------------------------------------------------------------------
(* What a document says, and what the parser makes of it.                  *)

\* What the parser reads out of a document, candidate by candidate.
LEMMA Parsed ==
  ASSUME NEW text, TextOK(text)
  PROVE  /\ DOMAIN ParseText(text) = 1..Len(text.blocks)
         /\ Len(ParseText(text)) = Len(text.blocks)
         /\ Len(text.blocks) \in Nat
         /\ \A i \in 1..Len(text.blocks) :
              LET c == ParseText(text)[i]
                  b == text.blocks[i]
              IN  /\ c.id = b.id /\ c.ast = b.ast /\ c.mode = b.mode
                  /\ c.mode \in Modes
                  /\ c.error = "none" => b.fault = "none" /\ ~b.marked
<1> DEFINE n     == Len(text.blocks)
           cands == [i \in 1..n |-> Candidate(text.blocks[i])]
<1>1. n \in Nat /\ text.blocks \in Seq(Range(text.blocks))
  BY DEF TextOK, BlocksOK
<1>2. \A i \in 1..n : text.blocks[i] \in Range(text.blocks)
  BY <1>1 DEF Range
<1>3. \A i \in 1..n : BlockOK(text.blocks[i])
  BY <1>2 DEF TextOK, BlocksOK
<1> DEFINE C == {cands[i] : i \in 1..n}
<1>4. cands \in Seq(C) /\ Len(cands) = n
  BY <1>1, SMTT(30)
<1>5. ASSUME NEW i \in 1..n
      PROVE  /\ cands[i] = Candidate(text.blocks[i])
             /\ cands[i].id = text.blocks[i].id
             /\ cands[i].ast = text.blocks[i].ast
             /\ cands[i].mode = text.blocks[i].mode
             /\ cands[i].error = "none" =>
                  text.blocks[i].fault = "none" /\ text.blocks[i].marked # TRUE
  BY <1>5 DEF Candidate
<1> DEFINE flagged(i) ==
             IF cands[i].error = "none" /\ \E j \in 1..n : j # i /\ cands[j].id = cands[i].id
             THEN [cands[i] EXCEPT !.error = "duplicate-id"] ELSE cands[i]
           F == [i \in 1..n |-> flagged(i)]
<1>6. ParseText(text) = F
  BY <1>4 DEF ParseText, FlagDuplicates
<1>7. ASSUME NEW i \in 1..n
      PROVE  /\ F[i].id = cands[i].id /\ F[i].ast = cands[i].ast
             /\ F[i].mode = cands[i].mode
             /\ F[i].error = "none" => cands[i].error = "none"
  BY <1>5, <1>7 DEF Candidate
<1> HIDE DEF flagged, cands
<1>8. F \in Seq({F[i] : i \in 1..n}) /\ Len(F) = n /\ DOMAIN F = 1..n
  BY <1>1
<1> HIDE DEF F
<1>9. \A i \in 1..n : text.blocks[i].mode \in Modes /\ text.blocks[i].marked \in BOOLEAN
  BY <1>3 DEF BlockOK
<1> QED BY <1>1, <1>5, <1>6, <1>7, <1>8, <1>9

-----------------------------------------------------------------------------
(* What a compile makes of one candidate.                                  *)

IsPromise(p) ==
  p = [id |-> p.id, mode |-> p.mode, status |-> p.status, reason |-> p.reason,
       ast |-> p.ast, sexpr |-> p.sexpr, witness |-> p.witness]

\* Only the status and its reason tell two promises apart.
Alike(p, q) ==
  /\ p.id = q.id /\ p.mode = q.mode /\ p.ast = q.ast /\ p.sexpr = q.sexpr
  /\ p.witness = q.witness

\* Decided before the witnesses are looked at.
Closed(c) ==
  \/ c.error # "none"
  \/ Nature[c.ast] \in {"unknown-collection", "ungrounded", "wrong-tier", "unsupported",
                        "unsatisfiable", "tautology"}

\* And how, whatever the previous artifact holds.
ClosedAs(c) ==
  Promise(c, IF c.error # "none" \/ Nature[c.ast] \in {"unknown-collection", "unsupported"}
             THEN "unverified" ELSE "rejected",
          IF c.error # "none" THEN c.error ELSE Nature[c.ast], NoWitness)

\* Decided by the witnesses.
OpenAs(c, w) ==
  IF Classifies(w, c.ast, c.mode) THEN Promise(c, "compiled", "none", w)
  ELSE Promise(c, "rejected", "witness-drift", w)

LEMMA PromiseIs ==
  ASSUME NEW c, NEW status, NEW reason, NEW w
  PROVE  /\ IsPromise(Promise(c, status, reason, w))
         /\ Promise(c, status, reason, w).id = c.id
         /\ Promise(c, status, reason, w).mode = c.mode
         /\ Promise(c, status, reason, w).status = status
         /\ Promise(c, status, reason, w).reason = reason
         /\ Promise(c, status, reason, w).witness = w
         /\ c.error = "none" /\ reason # "unknown-collection" =>
              /\ Promise(c, status, reason, w).ast = c.ast
              /\ Promise(c, status, reason, w).sexpr = c.ast
BY DEF Promise, IsPromise

\* Unless the solver gave up, a candidate is closed or stands by witnesses, which
\* are new only where the previous artifact holds none to keep.
LEMMA Judged ==
  ASSUME NEW c, NEW prev, NEW z3, c.mode \in Modes, NEW j \in Judge(c, prev, z3), ~j.gaveUp
  PROVE  \/ Closed(c) /\ j.promise = ClosedAs(c)
         \/ /\ ~Closed(c)
            /\ \E w : /\ w # NoWitness /\ j.promise = OpenAs(c, w)
                      /\ \/ Reusable(c, prev) = {} /\ w.ast = c.ast /\ w.mode = c.mode
                         \/ \E p \in Reusable(c, prev) : w = p.witness
<1>1. ASSUME NEW status, NEW reason, NEW w, j \in Settled(c, status, reason, w)
      PROVE  j.promise = Promise(c, status, reason, w)
  BY <1>1 DEF Settled
<1>2. ASSUME NEW w PROVE j \notin GivenUp(c, w)
  <2>1. \A p : j # [promise |-> p, gaveUp |-> TRUE]
    OBVIOUS
  <2> QED BY <2>1, Zenon DEF GivenUp
<1>3. CASE c.error # "none"
  BY <1>1, <1>3 DEF Judge, Closed, ClosedAs
<1>4. CASE c.error = "none" /\ Nature[c.ast] \in {"unknown-collection", "ungrounded", "wrong-tier"}
  <2>1. j.promise = Promise(c, IF Nature[c.ast] = "unknown-collection" THEN "unverified"
                               ELSE "rejected", Nature[c.ast], NoWitness)
    BY <1>1, <1>4 DEF Judge
  <2> QED BY <1>4, <2>1 DEF Closed, ClosedAs
<1>5. CASE c.error = "none" /\ Nature[c.ast] \notin {"unknown-collection", "ungrounded", "wrong-tier"}
  <2>1. j \in EncodeProbeAndWitness(c, prev)
    BY <1>2, <1>5 DEF Judge
  <2>2. CASE Nature[c.ast] = "unsupported"
    BY <1>1, <1>5, <2>1, <2>2 DEF EncodeProbeAndWitness, Closed, ClosedAs
  <2>3. CASE Nature[c.ast] \in {"unsatisfiable", "tautology"}
    BY <1>1, <1>2, <1>5, <2>1, <2>3 DEF EncodeProbeAndWitness, Closed, ClosedAs
  <2>4. CASE Nature[c.ast] \notin {"unsupported", "unsatisfiable", "tautology"}
    <3>1. ~Closed(c)
      BY <1>5, <2>4 DEF Closed
    <3>2. CASE Reusable(c, prev) = {}
      <4>1. PICK m \in Models :
              j \in Settled(c, "compiled", "none",
                           [ast |-> c.ast, mode |-> c.mode, model |-> m])
        BY <1>2, <2>1, <2>4, <3>2 DEF EncodeProbeAndWitness
      <4> DEFINE w == [ast |-> c.ast, mode |-> c.mode, model |-> m]
      <4>2. j.promise = Promise(c, "compiled", "none", w)
        BY <1>1, <4>1
      <4>3. w.ast = c.ast /\ w.mode = c.mode /\ w # NoWitness
        BY DEF NoWitness, Modes
      <4>4. j.promise = OpenAs(c, w)
        BY <4>2, <4>3 DEF OpenAs, Classifies
      <4> QED BY <3>1, <3>2, <4>3, <4>4
    <3>3. CASE Reusable(c, prev) # {}
      <4>1. PICK p \in Reusable(c, prev) :
              IF Classifies(p.witness, c.ast, c.mode)
              THEN j \in Settled(c, "compiled", "none", p.witness)
              ELSE j \in Settled(c, "rejected", "witness-drift", p.witness)
        BY <1>2, <2>1, <2>4, <3>3 DEF EncodeProbeAndWitness
      <4>2. j.promise = OpenAs(c, p.witness)
        BY <1>1, <4>1 DEF OpenAs
      <4>3. p.witness # NoWitness
        BY <4>1 DEF Reusable
      <4> QED BY <3>1, <4>1, <4>2, <4>3
    <3> QED BY <3>2, <3>3
  <2> QED BY <2>2, <2>3, <2>4
<1> QED BY <1>3, <1>4, <1>5

\* A promise that compiles is its candidate's, in its formula and its mode,
\* and witnesses minted for that formula were minted for that mode.
LEMMA Compiled ==
  ASSUME NEW c, NEW prev, NEW z3, c.mode \in Modes, NEW j \in Judge(c, prev, z3)
  PROVE  /\ IsPromise(j.promise) /\ j.promise.id = c.id /\ j.gaveUp \in BOOLEAN
         /\ j.promise.status = "compiled" =>
              /\ c.error = "none"
              /\ j.promise.mode = c.mode /\ j.promise.ast = c.ast
              /\ j.promise.sexpr = c.ast
              /\ j.promise.witness.ast = c.ast => j.promise.witness.mode = c.mode
<1>1. \/ \E st, reason, w : j = [promise |-> Promise(c, st, reason, w), gaveUp |-> FALSE]
      \/ \E w : j = [promise |-> Promise(c, "unverified", "gave-up", w), gaveUp |-> TRUE]
  <2>1. CASE j \in EncodeProbeAndWitness(c, prev)
    BY <2>1, Zenon DEF EncodeProbeAndWitness, Settled, GivenUp
  <2>2. CASE j \notin EncodeProbeAndWitness(c, prev)
    BY <2>2, Zenon DEF Judge, Settled, GivenUp
  <2> QED BY <2>1, <2>2
<1>2. IsPromise(j.promise) /\ j.promise.id = c.id /\ j.gaveUp \in BOOLEAN
  <2>1. CASE \E st, reason, w : j = [promise |-> Promise(c, st, reason, w), gaveUp |-> FALSE]
    <3>1. PICK st, reason, w : j = [promise |-> Promise(c, st, reason, w), gaveUp |-> FALSE]
      BY <2>1
    <3>2. j.promise = Promise(c, st, reason, w) /\ j.gaveUp = FALSE
      BY <3>1
    <3>3. IsPromise(Promise(c, st, reason, w)) /\ Promise(c, st, reason, w).id = c.id
      BY PromiseIs
    <3> QED BY <3>2, <3>3
  <2>2. CASE \E w : j = [promise |-> Promise(c, "unverified", "gave-up", w), gaveUp |-> TRUE]
    <3>1. PICK w : j = [promise |-> Promise(c, "unverified", "gave-up", w), gaveUp |-> TRUE]
      BY <2>2
    <3>2. j.promise = Promise(c, "unverified", "gave-up", w) /\ j.gaveUp = TRUE
      BY <3>1
    <3>3. IsPromise(Promise(c, "unverified", "gave-up", w)) /\ Promise(c, "unverified", "gave-up", w).id = c.id
      BY PromiseIs
    <3> QED BY <3>2, <3>3
  <2> QED BY <1>1, <2>1, <2>2
<1>3. ASSUME j.promise.status = "compiled"
      PROVE  /\ c.error = "none"
             /\ j.promise.mode = c.mode /\ j.promise.ast = c.ast
             /\ j.promise.sexpr = c.ast
             /\ j.promise.witness.ast = c.ast => j.promise.witness.mode = c.mode
  <2>1. ~j.gaveUp
    <3>1. ASSUME NEW w, j = [promise |-> Promise(c, "unverified", "gave-up", w), gaveUp |-> TRUE]
          PROVE  FALSE
      <4>1. j.promise = Promise(c, "unverified", "gave-up", w)
        BY <3>1
      <4>2. Promise(c, "unverified", "gave-up", w).status = "unverified"
        BY PromiseIs
      <4> QED BY <1>3, <4>1, <4>2
    <3>2. PICK st, reason, w : j = [promise |-> Promise(c, st, reason, w), gaveUp |-> FALSE]
      BY <1>1, <3>1, Zenon
    <3> QED BY <3>2
  <2>2. CASE Closed(c) /\ j.promise = ClosedAs(c)
    <3>1. ASSUME NEW st, NEW reason, st # "compiled",
                 j.promise = Promise(c, st, reason, NoWitness)
          PROVE  FALSE
      <4>1. Promise(c, st, reason, NoWitness).status = st
        BY PromiseIs
      <4> QED BY <1>3, <3>1, <4>1
    <3> QED BY <2>2, <3>1 DEF ClosedAs
  <2>3. CASE ~Closed(c) /\ \E w : j.promise = OpenAs(c, w)
    <3>1. PICK w : j.promise = OpenAs(c, w)
      BY <2>3
    <3>2. j.promise # Promise(c, "rejected", "witness-drift", w)
      <4>1. Promise(c, "rejected", "witness-drift", w).status = "rejected"
        BY PromiseIs
      <4> QED BY <1>3, <4>1
    <3>3. (w.ast = c.ast => w.mode = c.mode) /\ j.promise = Promise(c, "compiled", "none", w)
      BY <3>1, <3>2 DEF OpenAs, Classifies
    <3>4. c.error = "none"
      BY <2>3 DEF Closed
    <3> QED BY <3>3, <3>4 DEF Promise
  <2> QED BY <2>1, <2>2, <2>3, Judged
<1> QED BY <1>2, <1>3

\* One judgement per candidate.
Choice(f, cands, prev, z3) ==
  \A i \in 1..Len(cands) : f[i] \in Judge(cands[i], prev, z3)
PromisesOf(f, cands) == {f[i].promise : i \in 1..Len(cands)}

\* A judgement of a whole document is one of every candidate, with the rivals
\* among them rejected unless the solver gave up on a pair.
LEMMA Judgement ==
  ASSUME NEW cands, NEW prev, NEW z3, NEW j \in Judgements(cands, prev, z3)
  PROVE  \E f : /\ Choice(f, cands, prev, z3)
                /\ j.gaveUp \in BOOLEAN
                /\ \/ j.promises = PromisesOf(f, cands)
                   \/ j.promises = Independence(PromisesOf(f, cands))
                /\ ~j.gaveUp => /\ j.promises = Independence(PromisesOf(f, cands))
                                /\ \A i \in 1..Len(cands) : ~f[i].gaveUp
<1> DEFINE all(f)   == PromisesOf(f, cands)
           given(f) == \E i \in 1..Len(cands) : f[i].gaveUp
<1>1. PICK f : /\ Choice(f, cands, prev, z3)
               /\ \/ j = [promises |-> Independence(all(f)), gaveUp |-> given(f)]
                  \/ j = [promises |-> all(f), gaveUp |-> TRUE]
  BY Zenon DEF Judgements, Choice, PromisesOf
<1> HIDE DEF all
<1>2. CASE j = [promises |-> Independence(all(f)), gaveUp |-> given(f)]
  <2>1. j.promises = Independence(all(f)) /\ j.gaveUp = given(f)
    BY <1>2
  <2> QED BY <1>1, <2>1 DEF all
<1>3. CASE j = [promises |-> all(f), gaveUp |-> TRUE]
  <2>1. j.promises = all(f) /\ j.gaveUp = TRUE
    BY <1>3
  <2> QED BY <1>1, <2>1 DEF all
<1> QED BY <1>1, <1>2, <1>3

LEMMA RestatusAlike ==
  ASSUME NEW q, IsPromise(q), NEW status, NEW reason
  PROVE  LET p == [q EXCEPT !.status = status, !.reason = reason]
         IN  IsPromise(p) /\ Alike(p, q) /\ p.status = status
<1> DEFINE p == [q EXCEPT !.status = status, !.reason = reason]
<1>1. PICK i, m, s, y, a, x, w :
        q = [id |-> i, mode |-> m, status |-> s, reason |-> y, ast |-> a, sexpr |-> x,
             witness |-> w]
  BY Zenon DEF IsPromise
<1>2. p = [id |-> i, mode |-> m, status |-> status, reason |-> reason, ast |-> a, sexpr |-> x,
           witness |-> w]
  <2> DEFINE s1 == [q EXCEPT !.status = status]
  <2>1. s1 = [id |-> i, mode |-> m, status |-> status, reason |-> y, ast |-> a, sexpr |-> x,
              witness |-> w]
    BY <1>1
  <2>2. p = [s1 EXCEPT !.reason = reason]
    BY <1>1
  <2> HIDE DEF s1, p
  <2> QED BY <2>1, <2>2
<1> HIDE DEF p
<1>3. IsPromise(p) /\ Alike(p, q) /\ p.status = status
  BY <1>1, <1>2 DEF IsPromise, Alike
<1> QED BY <1>3 DEF p

\* Rejecting rivals changes no more than their status.
LEMMA IndependenceAlike ==
  ASSUME NEW all, \A q \in all : IsPromise(q)
  PROVE  /\ \A p \in Independence(all) :
              /\ IsPromise(p)
              /\ \E q \in all : Alike(p, q) /\ (p.status = "compiled" => p = q)
         /\ \A q \in all : \E p \in Independence(all) : Alike(p, q)
<1> DEFINE out(q) == [q EXCEPT !.status = "rejected", !.reason = "conflict"]
<1>1. ASSUME NEW q \in all
      PROVE  IsPromise(out(q)) /\ Alike(out(q), q) /\ out(q).status = "rejected"
  BY RestatusAlike
<1>2. \A q \in all : Alike(q, q)
  BY DEF Alike
<1>3. Independence(all) = {out(q) : q \in {r \in all : Rivals(r, all) # {}}}
                            \cup {r \in all : Rivals(r, all) = {}}
  BY DEF Independence
<1> HIDE DEF out
<1> QED BY <1>1, <1>2, <1>3

\* Nor does the review.
LEMMA ReviewedAlike ==
  ASSUME NEW out, NEW marked, out = [kind |-> out.kind, promises |-> out.promises],
         \A q \in out.promises : IsPromise(q)
  PROVE  /\ Reviewed(out, marked) = [kind |-> out.kind,
                                     promises |-> Reviewed(out, marked).promises]
         /\ \A p \in Reviewed(out, marked).promises :
              /\ IsPromise(p)
              /\ \E q \in out.promises : Alike(p, q) /\ (p.status = "compiled" => p = q)
         /\ \A q \in out.promises : \E p \in Reviewed(out, marked).promises : Alike(p, q)
<1> DEFINE held(q) == [q EXCEPT !.status = "unverified", !.reason = "awaiting-review"]
           to(q)   == IF q.id \in marked THEN held(q) ELSE q
<1>1. ASSUME NEW q \in out.promises
      PROVE  IsPromise(held(q)) /\ Alike(held(q), q) /\ held(q).status = "unverified"
  BY RestatusAlike
<1>2. \A q \in out.promises : Alike(q, q)
  BY DEF Alike
<1> HIDE DEF held
<1>3. \A q \in out.promises : /\ IsPromise(to(q)) /\ Alike(to(q), q)
                              /\ to(q).status = "compiled" => to(q) = q
  BY <1>1, <1>2
<1>4. Reviewed(out, marked) = [out EXCEPT !.promises = {to(q) : q \in out.promises}]
  BY Zenon DEF Reviewed, to, held
<1> HIDE DEF to
<1>5. /\ Reviewed(out, marked).promises = {to(q) : q \in out.promises}
      /\ Reviewed(out, marked) = [kind |-> out.kind, promises |-> {to(q) : q \in out.promises}]
  BY <1>4
<1> QED BY <1>3, <1>5

-----------------------------------------------------------------------------
(* Judging again what was judged.                                          *)

\* No two candidates of a document share an identifier.
Distinct(cands) ==
  \A a, b \in 1..Len(cands) : cands[a].id = cands[b].id => a = b

\* What a compile in which the solver never gave up makes of a document.
Fixed(cands, promises) ==
  /\ Distinct(cands)
  /\ \A i \in 1..Len(cands) : cands[i].mode \in Modes
  /\ \E prev, z3, f :
       /\ Choice(f, cands, prev, z3)
       /\ \A i \in 1..Len(cands) : ~f[i].gaveUp
       /\ promises = Independence(PromisesOf(f, cands))

\* A promise an open candidate was given keeps its formula and its witnesses.
LEMMA OpenKeeps ==
  ASSUME NEW c, ~Closed(c), NEW w
  PROVE  OpenAs(c, w).id = c.id /\ OpenAs(c, w).ast = c.ast /\ OpenAs(c, w).witness = w
<1>1. c.error = "none"
  BY DEF Closed
<1>2. \A status : \A reason : reason # "unknown-collection" =>
        /\ Promise(c, status, reason, w).id = c.id
        /\ Promise(c, status, reason, w).ast = c.ast
        /\ Promise(c, status, reason, w).witness = w
  BY <1>1, PromiseIs
<1> QED BY <1>2 DEF OpenAs

\* Judged again, with what the first judgement gave as the previous artifact,
\* whatever became of the promises' status, a document is given the same
\* promises: a witness is kept, and it decides the same.
LEMMA Stability ==
  ASSUME NEW cands, Distinct(cands), \A i \in 1..Len(cands) : cands[i].mode \in Modes,
         NEW prev1, NEW z1, NEW f1, Choice(f1, cands, prev1, z1),
         NEW prev2, NEW z2, NEW f2, Choice(f2, cands, prev2, z2),
         \A i \in 1..Len(cands) : ~f1[i].gaveUp /\ ~f2[i].gaveUp,
         \A p \in prev2.promises : \E q \in PromisesOf(f1, cands) : Alike(p, q),
         \A q \in PromisesOf(f1, cands) : \E p \in prev2.promises : Alike(p, q)
  PROVE  PromisesOf(f2, cands) = PromisesOf(f1, cands)
<1>1. ASSUME NEW i \in 1..Len(cands)  PROVE f2[i].promise = f1[i].promise
  <2> DEFINE c == cands[i]
  <2>1. /\ f1[i] \in Judge(c, prev1, z1) /\ ~f1[i].gaveUp
        /\ f2[i] \in Judge(c, prev2, z2) /\ ~f2[i].gaveUp
        /\ c.mode \in Modes
    BY DEF Choice
  <2>2. CASE Closed(c)
    BY <2>1, <2>2, Judged
  <2>3. CASE ~Closed(c)
    <3> HIDE DEF c
    <3>1. PICK w1 : w1 # NoWitness /\ f1[i].promise = OpenAs(c, w1)
      BY <2>1, <2>3, Judged
    <3>2. /\ f1[i].promise.id = c.id /\ f1[i].promise.ast = c.ast
          /\ f1[i].promise.witness = w1
      BY <2>3, <3>1, OpenKeeps
    <3>3. PICK p \in prev2.promises : Alike(p, f1[i].promise)
      BY DEF PromisesOf
    <3>4. p \in Reusable(c, prev2)
      BY <3>1, <3>2, <3>3 DEF Reusable, Alike
    <3>5. PICK r \in Reusable(c, prev2) : f2[i].promise = OpenAs(c, r.witness)
      BY <2>1, <2>3, <3>4, Judged
    <3>6. r \in prev2.promises /\ r.id = c.id
      BY <3>5 DEF Reusable
    <3>7. PICK k \in 1..Len(cands) : Alike(r, f1[k].promise)
      BY <3>6 DEF PromisesOf
    <3>8. f1[k].promise.id = cands[k].id
      BY Compiled DEF Choice
    <3>9. k = i
      <4>1. r.id = f1[k].promise.id
        BY <3>7 DEF Alike
      <4>2. cands[k].id = cands[i].id
        BY <3>6, <3>8, <4>1 DEF c
      <4> QED BY <4>2 DEF Distinct
    <3>10. r.witness = w1
      BY <3>2, <3>7, <3>9 DEF Alike
    <3> QED BY <3>1, <3>5, <3>10
  <2> QED BY <2>2, <2>3
<1> QED BY <1>1 DEF PromisesOf

\* What was given to a document that is judged again, with no give-up, is given
\* to it once more.
LEMMA FixedAgain ==
  ASSUME NEW cands, NEW promises, Fixed(cands, promises),
         NEW marked, NEW prev, prev = Reviewed([kind |-> "whole", promises |-> promises], marked),
         NEW z3, NEW j \in Judgements(cands, prev, z3), ~j.gaveUp
  PROVE  j.promises = promises
<1>1. PICK prev1, z1, f1 :
        /\ Choice(f1, cands, prev1, z1)
        /\ \A i \in 1..Len(cands) : ~f1[i].gaveUp
        /\ promises = Independence(PromisesOf(f1, cands))
  BY DEF Fixed
<1>2. PICK f2 : /\ Choice(f2, cands, prev, z3)
                /\ \A i \in 1..Len(cands) : ~f2[i].gaveUp
                /\ j.promises = Independence(PromisesOf(f2, cands))
  BY Judgement
<1>3. \A q \in PromisesOf(f1, cands) : IsPromise(q)
  BY <1>1, Compiled DEF PromisesOf, Choice, Fixed
<1>4. /\ \A p \in promises : IsPromise(p) /\ \E q \in PromisesOf(f1, cands) : Alike(p, q)
      /\ \A q \in PromisesOf(f1, cands) : \E p \in promises : Alike(p, q)
  BY <1>1, <1>3, IndependenceAlike
<1> DEFINE out == [kind |-> "whole", promises |-> promises]
<1>5. out.promises = promises /\ out = [kind |-> out.kind, promises |-> out.promises]
  OBVIOUS
<1> HIDE DEF out
<1>6. /\ \A p \in prev.promises : \E q \in promises : Alike(p, q)
      /\ \A q \in promises : \E p \in prev.promises : Alike(p, q)
  <2>1. prev = Reviewed(out, marked)
    BY DEF out
  <2> QED BY <1>4, <1>5, <2>1, ReviewedAlike
<1>7. \A p, q, r : Alike(p, q) /\ Alike(q, r) => Alike(p, r)
  BY DEF Alike
<1>8. /\ \A p \in prev.promises : \E q \in PromisesOf(f1, cands) : Alike(p, q)
      /\ \A q \in PromisesOf(f1, cands) : \E p \in prev.promises : Alike(p, q)
  BY <1>4, <1>6, <1>7
<1>9. PromisesOf(f2, cands) = PromisesOf(f1, cands)
  BY <1>1, <1>2, <1>8, Stability DEF Fixed
<1> QED BY <1>1, <1>2, <1>9

-----------------------------------------------------------------------------
(* What is admitted, and what is enforced.                                 *)

RunFields == {"stage", "queue", "check", "review", "marked", "fresh", "prev", "out", "gaveUp",
              "calm", "failed", "promised", "drifted", "raised"}

\* The compile works on documents of the directory.
RunOK ==
  /\ DOMAIN run = RunFields
  /\ run.queue \subseteq Positions
  /\ run.stage \notin {"idle", "document"} => run.queue # {}
  /\ run.stage \in {"replace", "again", "replace-again"} => ~run.check
  /\ run.check \in BOOLEAN /\ run.review \in BOOLEAN /\ run.calm \in BOOLEAN
  /\ run.gaveUp \in BOOLEAN /\ run.drifted \in BOOLEAN

\* Every document is a text, and so is what an annotation is made of.
TextsOK ==
  /\ DOMAIN doc = DocSet
  /\ \A d \in DocSet : TextOK(doc[d])
  /\ ann = [stage |-> ann.stage, doc |-> ann.doc, base |-> ann.base, out |-> ann.out]
  /\ ann.stage = "asking" => ann.doc \in DocSet /\ BlocksOK(ann.base) /\ BlocksOK(ann.out)

IsArtifact(a) ==
  /\ a = [kind |-> a.kind, promises |-> a.promises]
  /\ \A p \in a.promises : IsPromise(p)

\* Every artifact, and the one a compile is about to write, holds promises.
ArtifactsOK ==
  /\ DOMAIN artifact = DocSet
  /\ \A d \in DocSet : IsArtifact(artifact[d])
  /\ IsArtifact(run.out)

TypeInv == RunOK /\ TextsOK /\ ArtifactsOK

\* Every block that stands without the model's marker was admitted by a person.
Vetted(blocks) ==
  \A b \in Range(blocks) : b.fault = "none" /\ ~b.marked => Key(b) \in admitted

\* The documents are vetted, and so is what an annotation will write.
DocsVetted ==
  /\ \A d \in DocSet : Vetted(doc[d].blocks)
  /\ ann.stage = "asking" => Vetted(ann.base) /\ Vetted(ann.out)

\* A candidate the parser accepts was admitted, even if its document has been
\* edited since.
CandidatesVetted ==
  run.stage = "judge" =>
    \A i \in 1..Len(run.fresh) :
      /\ run.fresh[i].mode \in Modes
      /\ run.fresh[i].error = "none" => Key(run.fresh[i]) \in admitted

\* A compiled promise by witnesses of the formula it is rendered in comes from
\* what was admitted and passed, or was forged: an edit by hand of its formula or
\* its mode alone changes neither its rendering nor its witnesses.
Vouched(p) ==
  p.status = "compiled" /\ p.sexpr = p.witness.ast =>
    Origin(p) \in (admitted \cap passed) \cup forged

PromisesVouched ==
  /\ \A d \in DocSet : \A p \in artifact[d].promises : Vouched(p)
  /\ \A p \in run.out.promises : Vouched(p)

AdmissionInv == TypeInv /\ DocsVetted /\ CandidatesVetted /\ PromisesVouched

\* The initial state.
LEMMA AdmissionInit == Init => AdmissionInv
<1> SUFFICES ASSUME Init PROVE AdmissionInv
  OBVIOUS
<1>1. RunOK
  BY DEF Init, Idle, RunOK, RunFields
<1>2. TextsOK
  <2>1. \A d \in DocSet : TextOK(doc[d])
    BY CompileAssumption DEF Init, DocSet
  <2> QED BY <2>1 DEF Init, Quiet, TextsOK
<1>3. ArtifactsOK
  BY DEF Init, Idle, None, ArtifactsOK, IsArtifact
<1>4. DocsVetted
  BY DEF Init, Quiet, DocsVetted, Vetted, Unmarked
<1>5. CandidatesVetted
  BY DEF Init, Idle, CandidatesVetted
<1>6. PromisesVouched
  BY DEF Init, Idle, None, PromisesVouched
<1> QED BY <1>1, <1>2, <1>3, <1>4, <1>5, <1>6 DEF AdmissionInv, TypeInv

\* A sequence is one of what it holds.
LEMMA OwnRange ==
  ASSUME NEW S, NEW s \in Seq(S)
  PROVE  s \in Seq(Range(s))
<1>1. Len(s) \in Nat /\ DOMAIN s = 1..Len(s) /\ s = [i \in 1..Len(s) |-> s[i]]
  OBVIOUS
<1>2. \A i \in 1..Len(s) : s[i] \in Range(s)
  BY <1>1 DEF Range
<1>3. [i \in 1..Len(s) |-> s[i]] \in Seq(Range(s))
  BY <1>1, <1>2
<1> QED BY <1>1, <1>3

\* A person's edit, and the admission of a proposal, leave a text.
LEMMA EditedText ==
  ASSUME TextsOK, NEW d \in DocSet, NEW i \in 1..Len(doc[d].blocks)
  PROVE  TextOK([doc[d] EXCEPT !.blocks[i].marked = FALSE])
<1> DEFINE old  == doc[d].blocks
           b    == [old[i] EXCEPT !.marked = FALSE]
           new  == [old EXCEPT ![i] = b]
           text == [doc[d] EXCEPT !.blocks = new]
<1>1. TextOK(doc[d]) /\ old \in Seq(Range(old)) /\ \A c \in Range(old) : BlockOK(c)
  BY DEF TextsOK, TextOK, BlocksOK
<1>2. old[i] \in Range(old)
  BY <1>1 DEF Range
<1>3. BlockOK(b)
  <2>1. PICK x : x = old[i]
    OBVIOUS
  <2>2. b = [x EXCEPT !.marked = FALSE] /\ BlockOK(x)
    BY <1>1, <1>2, <2>1
  <2> HIDE DEF b
  <2> QED BY <2>2 DEF BlockOK
<1> HIDE DEF b
<1>4. new \in Seq(Range(old) \cup {b}) /\ DOMAIN new = DOMAIN old
      /\ \A k \in DOMAIN old : new[k] \in Range(old) \cup {b}
  BY <1>1, <1>2 DEF Range
<1> HIDE DEF new
<1>5. new \in Seq(Range(new)) /\ Range(new) \subseteq Range(old) \cup {b}
  <2>1. new \in Seq(Range(new))
    BY <1>4, OwnRange
  <2>2. ASSUME NEW c \in Range(new) PROVE c \in Range(old) \cup {b}
    <3>1. PICK k \in DOMAIN new : c = new[k]
      BY DEF Range
    <3> QED BY <1>4, <3>1
  <2> QED BY <2>1, <2>2
<1>6. BlocksOK(new)
  BY <1>1, <1>3, <1>5 DEF BlocksOK
<1>7. TextOK(text)
  <2>1. PICK x : x = doc[d]
    OBVIOUS
  <2>2. text = [x EXCEPT !.blocks = new] /\ TextOK(x)
    BY <1>1, <2>1
  <2> HIDE DEF text
  <2> QED BY <1>6, <2>2 DEF TextOK
<1>8. text = [doc[d] EXCEPT !.blocks[i].marked = FALSE]
  BY Zenon DEF text, new, b
<1> QED BY <1>7, <1>8

\* What passing to the next document does to the run.
LEMMA Passing ==
  ASSUME NEW r, DOMAIN r = RunFields, NEW n, n = NextDocument(r)
  PROVE  /\ DOMAIN n = RunFields
         /\ n.stage = "document" /\ n.queue = r.queue \ {Min(r.queue)}
         /\ n.check = r.check /\ n.review = r.review /\ n.calm = r.calm
         /\ n.gaveUp = r.gaveUp /\ n.drifted = r.drifted
         /\ n.marked = {} /\ n.out = None
BY DEF NextDocument, RunFields

\* A run that has ended, and one that begins.
LEMMA AtRest ==
  /\ DOMAIN Idle = RunFields /\ Idle.stage = "idle" /\ Idle.queue = {}
  /\ Idle.check = FALSE /\ Idle.review = FALSE /\ Idle.calm = FALSE
  /\ Idle.gaveUp = FALSE /\ Idle.drifted = FALSE /\ Idle.out = None
  /\ None.promises = {} /\ IsArtifact(None)
BY DEF Idle, RunFields, None, IsArtifact

\* A run that ends leaves nothing to be put out.
LEMMA Ending ==
  ASSUME AdmissionInv, DOMAIN run' = RunFields, run'.stage = "idle", run'.queue = {},
         run'.check = FALSE, run'.review = FALSE, run'.calm = FALSE, run'.gaveUp = FALSE,
         run'.drifted = FALSE, run'.out = None,
         UNCHANGED <<doc, artifact, ann, admitted, passed, forged>>
  PROVE  AdmissionInv'
<1>1. RunOK'
  BY DEF RunOK
<1>2. TextsOK'
  BY DEF AdmissionInv, TypeInv, TextsOK
<1>3. ArtifactsOK'
  BY AtRest DEF AdmissionInv, TypeInv, ArtifactsOK
<1>4. DocsVetted'
  BY DEF AdmissionInv, DocsVetted, Vetted
<1>5. CandidatesVetted'
  BY DEF CandidatesVetted
<1>6. PromisesVouched'
  BY AtRest DEF AdmissionInv, PromisesVouched, Vouched
<1> QED BY <1>1, <1>2, <1>3, <1>4, <1>5, <1>6 DEF AdmissionInv, TypeInv

\* A step that only moves the compile along, and puts out nothing new.
LEMMA Moving ==
  ASSUME AdmissionInv, RunOK', CandidatesVetted', run'.out \in {run.out, None},
         UNCHANGED <<doc, artifact, ann, admitted, passed, forged>>
  PROVE  AdmissionInv'
<1>1. TextsOK'
  BY DEF AdmissionInv, TypeInv, TextsOK
<1>2. ArtifactsOK'
  BY AtRest DEF AdmissionInv, TypeInv, ArtifactsOK
<1>3. DocsVetted'
  BY DEF AdmissionInv, DocsVetted, Vetted
<1>4. PromisesVouched'
  BY AtRest DEF AdmissionInv, PromisesVouched, Vouched
<1> QED BY <1>1, <1>2, <1>3, <1>4 DEF AdmissionInv, TypeInv

LEMMA AdmissionBegin ==
  ASSUME AdmissionInv, NEW check \in BOOLEAN, NEW review \in BOOLEAN, BeginCompile(check, review)
  PROVE  AdmissionInv'
<1> DEFINE quiet == ~check \/ settled = (IF review THEN "reviewed" ELSE "plain")
<1>1. run' = [Idle EXCEPT !.stage = "document", !.queue = Present, !.check = check,
                          !.review = review, !.calm = quiet]
  BY DEF BeginCompile
<1>2. Present \subseteq Positions
  BY DEF Present, Positions
<1>3. quiet \in BOOLEAN
  OBVIOUS
<1> HIDE DEF quiet
<1>4. /\ DOMAIN run' = RunFields /\ run'.stage = "document" /\ run'.queue = Present
      /\ run'.check = check /\ run'.review = review /\ run'.calm = quiet
      /\ run'.gaveUp = FALSE /\ run'.drifted = FALSE /\ run'.out = None
  BY <1>1, AtRest DEF RunFields
<1>5. RunOK'
  BY <1>2, <1>3, <1>4 DEF RunOK
<1>6. CandidatesVetted'
  BY <1>4 DEF CandidatesVetted
<1> QED BY <1>4, <1>5, <1>6, Moving DEF BeginCompile, Rest

LEMMA AdmissionScan ==
  ASSUME AdmissionInv, ScanMarkers
  PROVE  AdmissionInv'
<1> DEFINE m == IF run.review THEN {b.id : b \in {c \in Range(doc[Doc].blocks) : c.marked}} ELSE {}
<1>1. run' = [run EXCEPT !.stage = "parse", !.marked = m]
  BY DEF ScanMarkers
<1> HIDE DEF m
<1>2. RunOK
  BY DEF AdmissionInv, TypeInv
<1>3. /\ DOMAIN run' = RunFields /\ run'.stage = "parse" /\ run'.queue = run.queue
      /\ run'.check = run.check /\ run'.review = run.review /\ run'.calm = run.calm
      /\ run'.gaveUp = run.gaveUp /\ run'.drifted = run.drifted /\ run'.out = run.out
  BY <1>1, <1>2 DEF RunOK, RunFields
<1>4. RunOK'
  BY <1>2, <1>3 DEF RunOK, ScanMarkers
<1>5. CandidatesVetted'
  BY <1>3 DEF CandidatesVetted
<1> QED BY <1>3, <1>4, <1>5, Moving DEF ScanMarkers, Rest

\* Passing to the next document keeps what is admitted.
LEMMA AdmissionPassing ==
  ASSUME AdmissionInv, NEW drift \in BOOLEAN,
         \/ run' = NextDocument(run)
         \/ run' = [NextDocument(run) EXCEPT !.drifted = drift],
         UNCHANGED <<doc, artifact, ann, admitted, passed, forged>>
  PROVE  AdmissionInv'
<1>1. PICK n : n = NextDocument(run)
  OBVIOUS
<1>2. RunOK
  BY DEF AdmissionInv, TypeInv
<1>3. /\ DOMAIN n = RunFields
      /\ n.stage = "document" /\ n.queue = run.queue \ {Min(run.queue)}
      /\ n.check = run.check /\ n.review = run.review /\ n.calm = run.calm
      /\ n.gaveUp = run.gaveUp /\ n.drifted = run.drifted /\ n.out = None
  BY <1>1, <1>2, Passing DEF RunOK
<1>4. /\ DOMAIN run' = RunFields
      /\ run'.stage = "document" /\ run'.queue = n.queue
      /\ run'.check = run.check /\ run'.review = run.review /\ run'.calm = run.calm
      /\ run'.gaveUp = run.gaveUp /\ run'.drifted \in BOOLEAN /\ run'.out = None
  BY <1>1, <1>2, <1>3 DEF RunOK, RunFields
<1>5. RunOK'
  BY <1>2, <1>3, <1>4 DEF RunOK
<1>6. CandidatesVetted'
  BY <1>4 DEF CandidatesVetted
<1> QED BY <1>4, <1>5, <1>6, Moving

LEMMA AdmissionParse ==
  ASSUME AdmissionInv, Parse
  PROVE  AdmissionInv'
<1>1. RunOK /\ TextsOK
  BY DEF AdmissionInv, TypeInv
<1>2. CASE ~doc[Doc].there \/ doc[Doc].broken
  <2>1. run' = NextDocument(run)
    BY <1>2 DEF Parse
  <2> QED BY <2>1, AdmissionPassing DEF Parse, Rest
<1>3. CASE doc[Doc].there /\ ~doc[Doc].broken
  <2> DEFINE fresh == ParseText(doc[Doc])
             prev  == IF artifact[Doc].kind = "whole" THEN artifact[Doc] ELSE None
  <2>1. run' = [run EXCEPT !.stage = "judge", !.fresh = fresh, !.prev = prev]
    BY <1>3 DEF Parse
  <2> HIDE DEF fresh, prev
  <2>2. /\ DOMAIN run' = RunFields /\ run'.stage = "judge" /\ run'.queue = run.queue
        /\ run'.check = run.check /\ run'.review = run.review /\ run'.calm = run.calm
        /\ run'.gaveUp = run.gaveUp /\ run'.drifted = run.drifted /\ run'.out = run.out
        /\ run'.fresh = fresh
    BY <1>1, <2>1 DEF RunOK, RunFields
  <2>3. run.queue # {}
    BY <1>1 DEF RunOK, Parse
  <2>4. RunOK'
    BY <1>1, <2>2, <2>3 DEF RunOK
  <2>5. Doc \in DocSet
    BY <1>1, <2>3, FirstDocument DEF RunOK
  <2>6. PICK text : text = doc[Doc] /\ TextOK(text) /\ Vetted(text.blocks)
    BY <1>1, <2>5 DEF TextsOK, AdmissionInv, DocsVetted
  <2>7. ASSUME NEW i \in 1..Len(fresh)
        PROVE  /\ fresh[i].mode \in Modes
               /\ fresh[i].error = "none" => Key(fresh[i]) \in admitted
    <3>1. fresh = ParseText(text)
      BY <2>6 DEF fresh
    <3>2. i \in 1..Len(text.blocks)
      BY <2>6, <3>1, Parsed
    <3>3. PICK b : b = text.blocks[i]
      OBVIOUS
    <3>4. b \in Range(text.blocks)
      BY <2>6, <3>2, <3>3 DEF TextOK, BlocksOK, Range
    <3>5. /\ fresh[i].id = b.id /\ fresh[i].ast = b.ast /\ fresh[i].mode = b.mode
          /\ fresh[i].mode \in Modes
          /\ fresh[i].error = "none" => b.fault = "none" /\ ~b.marked
      BY <2>6, <3>1, <3>2, <3>3, Parsed
    <3>6. Key(fresh[i]) = Key(b)
      BY <3>5 DEF Key
    <3> QED BY <2>6, <3>4, <3>5, <3>6 DEF Vetted
  <2>8. CandidatesVetted'
    BY <2>2, <2>7 DEF CandidatesVetted, Parse, Rest
  <2> QED BY <2>2, <2>4, <2>8, Moving DEF Parse, Rest
<1> QED BY <1>2, <1>3

\* What a compile puts out it vouches for.
LEMMA JudgedIsVouched ==
  ASSUME AdmissionInv, run.stage = "judge", NEW z3,
         NEW j \in Judgements(run.fresh, run.prev, z3), NEW p \in j.promises
  PROVE  /\ IsPromise(p)
         /\ p.status = "compiled" /\ p.sexpr = p.witness.ast =>
              Origin(p) \in admitted /\ Origin(p) = Key(p)
<1>1. PICK f : /\ Choice(f, run.fresh, run.prev, z3)
               /\ \/ j.promises = PromisesOf(f, run.fresh)
                  \/ j.promises = Independence(PromisesOf(f, run.fresh))
  BY Judgement
<1>2. CandidatesVetted
  BY DEF AdmissionInv
<1>3. ASSUME NEW q \in PromisesOf(f, run.fresh)
      PROVE  /\ IsPromise(q)
             /\ q.status = "compiled" /\ q.sexpr = q.witness.ast =>
                  Origin(q) \in admitted /\ Origin(q) = Key(q)
  <2>1. PICK i \in 1..Len(run.fresh) : q = f[i].promise
    BY DEF PromisesOf
  <2>2. PICK c : c = run.fresh[i]
    OBVIOUS
  <2>3. /\ f[i] \in Judge(c, run.prev, z3) /\ c.mode \in Modes
        /\ c.error = "none" => Key(c) \in admitted
    BY <1>1, <1>2, <2>2 DEF Choice, CandidatesVetted
  <2>4. /\ IsPromise(q) /\ q.id = c.id
        /\ q.status = "compiled" =>
             /\ c.error = "none" /\ q.mode = c.mode /\ q.ast = c.ast
             /\ q.sexpr = c.ast /\ (q.witness.ast = c.ast => q.witness.mode = c.mode)
    BY <2>1, <2>3, Compiled
  <2>5. q.status = "compiled" /\ q.sexpr = q.witness.ast => Origin(q) = Key(c) /\ Key(q) = Key(c)
    BY <2>4 DEF Origin, Key
  <2> QED BY <2>3, <2>4, <2>5
<1>4. CASE j.promises = PromisesOf(f, run.fresh)
  BY <1>3, <1>4
<1>5. CASE j.promises = Independence(PromisesOf(f, run.fresh))
  <2>1. IsPromise(p) /\ (p.status = "compiled" => p \in PromisesOf(f, run.fresh))
    BY <1>3, <1>5, IndependenceAlike
  <2> QED BY <1>3, <2>1
<1> QED BY <1>1, <1>4, <1>5

LEMMA AdmissionAssemble ==
  ASSUME AdmissionInv, Assemble
  PROVE  AdmissionInv'
<1>1. RunOK /\ TextsOK
  BY DEF AdmissionInv, TypeInv
<1>2. CASE run' = [Idle EXCEPT !.raised = TRUE] /\ UNCHANGED passed
  <2>1. /\ DOMAIN run' = RunFields /\ run'.stage = "idle" /\ run'.queue = {}
        /\ run'.check = FALSE /\ run'.review = FALSE /\ run'.calm = FALSE
        /\ run'.gaveUp = FALSE /\ run'.drifted = FALSE /\ run'.out = None
    BY <1>2 DEF Idle, RunFields
  <2> QED BY <1>2, <2>1, Ending DEF Assemble, Rest
<1>3. CASE ~(run' = [Idle EXCEPT !.raised = TRUE] /\ UNCHANGED passed)
  <2> DEFINE outcome(j) ==
          /\ run' = [run EXCEPT !.stage = "emit",
                                !.out = [kind |-> "whole", promises |-> j.promises],
                                !.gaveUp = @ \/ j.gaveUp, !.promised = @ \/ j.promises # {},
                                !.failed = @ \/ \E p \in j.promises : p.status = "rejected"]
          /\ passed' = passed \cup {Key(p) : p \in {q \in j.promises : q.status = "compiled"}}
  <2> PICK z3 \in BOOLEAN : \E j \in Judgements(run.fresh, run.prev, z3) : outcome(j)
    BY <1>3, Zenon DEF Assemble
  <2>1. PICK j \in Judgements(run.fresh, run.prev, z3) : outcome(j)
    OBVIOUS
  <2>2. PICK out : out = [kind |-> "whole", promises |-> j.promises]
    OBVIOUS
  <2>3. PICK g : g = (run.gaveUp \/ j.gaveUp)
    OBVIOUS
  <2>4. PICK pr : pr = (run.promised \/ j.promises # {})
    OBVIOUS
  <2>5. PICK fl : fl = (run.failed \/ \E p \in j.promises : p.status = "rejected")
    OBVIOUS
  <2>6. run' = [run EXCEPT !.stage = "emit", !.out = out, !.gaveUp = g, !.promised = pr,
                           !.failed = fl]
    BY <2>1, <2>2, <2>3, <2>4, <2>5, Zenon
  <2>7. /\ DOMAIN run' = RunFields /\ run'.stage = "emit" /\ run'.queue = run.queue
        /\ run'.check = run.check /\ run'.review = run.review /\ run'.calm = run.calm
        /\ run'.gaveUp = g /\ run'.drifted = run.drifted /\ run'.out = out
    BY <1>1, <2>6 DEF RunOK, RunFields
  <2>8. RunOK'
    <3>1. g \in BOOLEAN
      BY <2>3
    <3> QED BY <1>1, <2>7, <3>1 DEF RunOK, Assemble
  <2>9. UNCHANGED <<doc, artifact, ann, admitted, forged>> /\ run.stage = "judge"
    BY DEF Assemble, Rest
  <2>10. TextsOK'
    BY <1>1, <2>9 DEF TextsOK
  <2>11. \A p \in j.promises : /\ IsPromise(p)
                               /\ p.status = "compiled" /\ p.sexpr = p.witness.ast =>
                                    Origin(p) \in admitted /\ Origin(p) = Key(p)
    BY <2>9, JudgedIsVouched
  <2>12. out.promises = j.promises /\ out = [kind |-> out.kind, promises |-> out.promises]
    BY <2>2
  <2>13. ArtifactsOK'
    BY <2>7, <2>9, <2>11, <2>12 DEF AdmissionInv, TypeInv, ArtifactsOK, IsArtifact
  <2>14. DocsVetted'
    BY <2>9 DEF AdmissionInv, DocsVetted, Vetted
  <2>15. CandidatesVetted'
    BY <2>7 DEF CandidatesVetted
  <2>16. PromisesVouched'
    <3>1. \A p \in j.promises : p.status = "compiled" => Key(p) \in passed'
      BY <2>1
    <3>2. \A p \in j.promises : Vouched(p)'
      BY <2>9, <2>11, <3>1 DEF Vouched
    <3>3. passed \subseteq passed'
      BY <2>1
    <3>4. \A d \in DocSet : \A p \in artifact[d].promises : Vouched(p)'
      BY <2>9, <3>3 DEF AdmissionInv, PromisesVouched, Vouched
    <3> QED BY <2>7, <2>9, <2>12, <3>2, <3>4 DEF PromisesVouched
  <2> QED BY <2>8, <2>10, <2>13, <2>14, <2>15, <2>16 DEF AdmissionInv, TypeInv
<1> QED BY <1>2, <1>3

LEMMA AdmissionCheck ==
  ASSUME AdmissionInv, CheckDocument
  PROVE  AdmissionInv'
<1> DEFINE drift == run.drifted \/ artifact[Doc] # Reviewed(run.out, run.marked)
<1>1. PICK n : n = NextDocument(run)
  OBVIOUS
<1>2. n.drifted = run.drifted
  BY <1>1, Passing DEF AdmissionInv, TypeInv, RunOK
<1>3. drift \in BOOLEAN
  OBVIOUS
<1>4. run' = [n EXCEPT !.drifted = @ \/ artifact[Doc] # Reviewed(run.out, run.marked)]
  BY <1>1, Zenon DEF CheckDocument
<1>5. run' = [n EXCEPT !.drifted = drift]
  BY <1>2, <1>4, Zenon
<1> HIDE DEF drift
<1>6. run' = [NextDocument(run) EXCEPT !.drifted = drift]
  BY <1>1, <1>5
<1>7. UNCHANGED <<doc, artifact, ann, admitted, passed, forged>>
  BY DEF CheckDocument, Rest
<1> QED BY <1>3, <1>6, <1>7, AdmissionPassing

LEMMA AdmissionOpen ==
  ASSUME AdmissionInv, OpenTmp
  PROVE  AdmissionInv'
<1>1. PICK s : s = IF run.stage = "emit" THEN "replace" ELSE "replace-again"
  OBVIOUS
<1>2. RunOK /\ run' = [run EXCEPT !.stage = s]
  BY <1>1 DEF OpenTmp, AdmissionInv, TypeInv
<1>3. /\ DOMAIN run' = RunFields /\ run'.stage = s /\ run'.queue = run.queue
      /\ run'.check = run.check /\ run'.review = run.review /\ run'.calm = run.calm
      /\ run'.gaveUp = run.gaveUp /\ run'.drifted = run.drifted /\ run'.out = run.out
  BY <1>2 DEF RunOK, RunFields
<1>4. RunOK'
  BY <1>2, <1>3 DEF RunOK, OpenTmp
<1>5. CandidatesVetted'
  BY <1>1, <1>3 DEF CandidatesVetted
<1> QED BY <1>3, <1>4, <1>5, Moving DEF OpenTmp, Rest

\* Reviewing leaves an artifact, and vouches for nothing more.
LEMMA ReviewedIsVouched ==
  ASSUME NEW out, IsArtifact(out), NEW marked, \A p \in out.promises : Vouched(p)
  PROVE  /\ IsArtifact(Reviewed(out, marked))
         /\ \A p \in Reviewed(out, marked).promises : Vouched(p)
<1>1. /\ Reviewed(out, marked) = [kind |-> out.kind, promises |-> Reviewed(out, marked).promises]
      /\ \A p \in Reviewed(out, marked).promises :
           /\ IsPromise(p)
           /\ \E q \in out.promises : Alike(p, q) /\ (p.status = "compiled" => p = q)
  BY ReviewedAlike DEF IsArtifact
<1>2. Reviewed(out, marked).kind = out.kind
  BY <1>1
<1> QED BY <1>1, <1>2 DEF IsArtifact, Vouched

LEMMA AdmissionReplace ==
  ASSUME AdmissionInv, ReplaceArtifact
  PROVE  AdmissionInv'
<1>1. RunOK /\ TextsOK /\ ArtifactsOK /\ PromisesVouched
  BY DEF AdmissionInv, TypeInv
<1>2. PICK a : a = IF run.stage = "replace" THEN run.out ELSE Reviewed(run.out, run.marked)
  OBVIOUS
<1>3. IsArtifact(a) /\ \A p \in a.promises : Vouched(p)
  BY <1>1, <1>2, ReviewedIsVouched DEF ArtifactsOK, PromisesVouched
<1>4. artifact' = [artifact EXCEPT ![Doc] = a]
  BY <1>2 DEF ReplaceArtifact
<1>5. UNCHANGED <<doc, ann, admitted, passed, forged>>
  BY DEF ReplaceArtifact, Rest
<1>6. run.queue # {} /\ Doc \in DocSet
  BY <1>1, FirstDocument DEF RunOK, ReplaceArtifact
<1>7. RunOK' /\ CandidatesVetted' /\ run'.out \in {run.out, None}
  <2>1. CASE run' = [run EXCEPT !.stage = "again"]
    <3>1. /\ DOMAIN run' = RunFields /\ run'.stage = "again" /\ run'.queue = run.queue
          /\ run'.check = run.check /\ run'.review = run.review /\ run'.calm = run.calm
          /\ run'.gaveUp = run.gaveUp /\ run'.drifted = run.drifted /\ run'.out = run.out
      BY <1>1, <2>1 DEF RunOK, RunFields
    <3>2. ~run.check
      BY <1>1 DEF RunOK, ReplaceArtifact
    <3> QED BY <1>1, <1>6, <3>1, <3>2 DEF RunOK, CandidatesVetted
  <2>2. CASE run' = NextDocument(run)
    <3>1. PICK n : n = NextDocument(run)
      OBVIOUS
    <3>2. /\ DOMAIN n = RunFields
          /\ n.stage = "document" /\ n.queue = run.queue \ {Min(run.queue)}
          /\ n.check = run.check /\ n.review = run.review /\ n.calm = run.calm
          /\ n.gaveUp = run.gaveUp /\ n.drifted = run.drifted /\ n.out = None
      BY <1>1, <3>1, Passing DEF RunOK
    <3> QED BY <1>1, <2>2, <3>1, <3>2 DEF RunOK, CandidatesVetted
  <2> QED BY <2>1, <2>2 DEF ReplaceArtifact
<1>8. TextsOK'
  BY <1>1, <1>5 DEF TextsOK
<1>9. \A d \in DocSet : artifact'[d] = IF d = Doc THEN a ELSE artifact[d]
  BY <1>1, <1>4, <1>6 DEF ArtifactsOK
<1>10. ArtifactsOK'
  <2>1. DOMAIN artifact' = DocSet
    BY <1>1, <1>4 DEF ArtifactsOK
  <2>2. \A d \in DocSet : IsArtifact(artifact'[d])
    BY <1>1, <1>3, <1>9 DEF ArtifactsOK
  <2>3. IsArtifact(run'.out)
    BY <1>1, <1>7, AtRest DEF ArtifactsOK
  <2> QED BY <2>1, <2>2, <2>3 DEF ArtifactsOK
<1>11. DocsVetted'
  BY <1>5 DEF AdmissionInv, DocsVetted, Vetted
<1>12. PromisesVouched'
  <2>1. \A p : Vouched(p) => Vouched(p)'
    BY <1>5 DEF Vouched
  <2>2. \A d \in DocSet : \A p \in artifact'[d].promises : Vouched(p)
    BY <1>1, <1>3, <1>9 DEF PromisesVouched
  <2>3. \A p \in run'.out.promises : Vouched(p)
    BY <1>1, <1>7, AtRest DEF PromisesVouched
  <2> QED BY <2>1, <2>2, <2>3 DEF PromisesVouched
<1> QED BY <1>7, <1>8, <1>10, <1>11, <1>12 DEF AdmissionInv, TypeInv

LEMMA AdmissionEnd ==
  ASSUME AdmissionInv, WriteFails \/ Kill \/ FinishCompile
  PROVE  AdmissionInv'
<1>1. UNCHANGED <<doc, artifact, ann, admitted, passed, forged>>
  BY DEF WriteFails, Kill, FinishCompile, Rest
<1>2. CASE run' = Idle
  BY <1>1, <1>2, AtRest, Ending
<1>3. CASE FinishCompile
  <2>1. PICK fl : fl = (run.failed \/ run.drifted \/ ~run.promised \/ Orphans # {})
    OBVIOUS
  <2>2. run' = [Idle EXCEPT !.failed = fl]
    BY <1>3, <2>1 DEF FinishCompile
  <2>3. /\ DOMAIN run' = RunFields /\ run'.stage = "idle" /\ run'.queue = {}
        /\ run'.check = FALSE /\ run'.review = FALSE /\ run'.calm = FALSE
        /\ run'.gaveUp = FALSE /\ run'.drifted = FALSE /\ run'.out = None
    BY <2>2 DEF Idle, RunFields
  <2> QED BY <1>1, <2>3, Ending
<1> QED BY <1>2, <1>3 DEF WriteFails, Kill

\* A block added to some is one of them.
LEMMA Added ==
  ASSUME NEW blocks, BlocksOK(blocks), NEW b, BlockOK(b)
  PROVE  /\ BlocksOK(Append(blocks, b))
         /\ Range(Append(blocks, b)) \subseteq Range(blocks) \cup {b}
<1> DEFINE new == Append(blocks, b)
<1>1. blocks \in Seq(Range(blocks)) /\ \A c \in Range(blocks) : BlockOK(c)
  BY DEF BlocksOK
<1>2. PICK S : S = Range(blocks) \cup {b}
  OBVIOUS
<1>3. blocks \in Seq(S) /\ b \in S
  BY <1>1, <1>2
<1>4. new \in Seq(S)
  BY <1>3
<1>5. \A i \in DOMAIN new : new[i] \in S
  BY <1>4
<1> HIDE DEF new
<1>6. new \in Seq(Range(new))
  BY <1>4, OwnRange
<1>7. ASSUME NEW c \in Range(new) PROVE c \in S
  <2>1. PICK k \in DOMAIN new : c = new[k]
    BY DEF Range
  <2> QED BY <1>5, <2>1
<1>8. \A c \in Range(new) : BlockOK(c)
  BY <1>1, <1>2, <1>7
<1> QED BY <1>2, <1>6, <1>7, <1>8 DEF BlocksOK, new

LEMMA MarkedBlock ==
  ASSUME NEW b, BlockOK(b)
  PROVE  BlockOK(WithMarker(b)) /\ WithMarker(b).marked
<1>1. PICK i, a, m, f, k : b = [id |-> i, ast |-> a, mode |-> m, fault |-> f, marked |-> k]
  BY Zenon DEF BlockOK
<1>2. PICK n : n = WithMarker(b)
  OBVIOUS
<1>3. n = [id |-> i, ast |-> a, mode |-> m, fault |-> f, marked |-> TRUE]
  BY <1>1, <1>2 DEF WithMarker
<1>4. b.mode = m
  BY <1>1
<1> QED BY <1>2, <1>3, <1>4 DEF BlockOK

\* Nobody but the compile writes what it is compiling.
LEMMA Aside ==
  ASSUME AdmissionInv, UNCHANGED <<run, artifact, passed, forged>>, admitted \subseteq admitted'
  PROVE  RunOK' /\ ArtifactsOK' /\ CandidatesVetted' /\ PromisesVouched'
<1>1. RunOK'
  BY DEF AdmissionInv, TypeInv, RunOK
<1>2. ArtifactsOK'
  BY DEF AdmissionInv, TypeInv, ArtifactsOK
<1>3. CandidatesVetted'
  BY DEF AdmissionInv, CandidatesVetted
<1>4. PromisesVouched'
  BY DEF AdmissionInv, PromisesVouched, Vouched
<1> QED BY <1>1, <1>2, <1>3, <1>4

LEMMA AdmissionAnnotate ==
  ASSUME AdmissionInv, NEW d \in DocSet, Annotate(d)
  PROVE  AdmissionInv'
<1>1. UNCHANGED <<doc, artifact, run, admitted, passed, forged>>
  BY DEF Annotate
<1>2. PICK base : base = doc[d].blocks
  OBVIOUS
<1>3. BlocksOK(base) /\ Vetted(base)
  BY <1>2 DEF AdmissionInv, TypeInv, TextsOK, TextOK, DocsVetted
<1>4. BlocksOK(<<>>) /\ Range(<<>>) = {}
  <2>1. Range(<<>>) = {}
    BY DEF Range
  <2> QED BY <2>1 DEF BlocksOK
<1>5. ann' = [stage |-> "asking", doc |-> d, base |-> base, out |-> <<>>]
  BY <1>2 DEF Annotate
<1>6. /\ ann'.stage = "asking" /\ ann'.doc = d /\ ann'.base = base /\ ann'.out = <<>>
      /\ ann' = [stage |-> ann'.stage, doc |-> ann'.doc, base |-> ann'.base, out |-> ann'.out]
  BY <1>5
<1>7. TextsOK'
  BY <1>1, <1>3, <1>4, <1>6 DEF AdmissionInv, TypeInv, TextsOK
<1>8. Vetted(<<>>)
  BY <1>4 DEF Vetted
<1>9. \A blocks : Vetted(blocks) => Vetted(blocks)'
  BY <1>1 DEF Vetted
<1>10. DocsVetted'
  BY <1>1, <1>3, <1>6, <1>8, <1>9 DEF AdmissionInv, DocsVetted
<1> QED BY <1>1, <1>7, <1>10, Aside DEF AdmissionInv, TypeInv

LEMMA AdmissionAsk ==
  ASSUME AdmissionInv, Ask
  PROVE  AdmissionInv'
<1>1. UNCHANGED <<doc, artifact, run, admitted, passed, forged>> /\ ann.stage = "asking"
  BY DEF Ask
<1>2. PICK st, d, base, out : ann = [stage |-> st, doc |-> d, base |-> base, out |-> out]
  BY Zenon DEF AdmissionInv, TypeInv, TextsOK
<1>3. ann.stage = st /\ ann.doc = d /\ ann.base = base /\ ann.out = out
  BY <1>2
<1>4. d \in DocSet /\ BlocksOK(base) /\ BlocksOK(out) /\ Vetted(base) /\ Vetted(out)
  BY <1>1, <1>3 DEF AdmissionInv, TypeInv, TextsOK, DocsVetted
<1>5. PICK b : b = base[Len(out) + 1]
  OBVIOUS
<1>6. b \in Range(base)
  <2>1. Len(base) \in Nat /\ Len(out) \in Nat /\ DOMAIN base = 1..Len(base)
    BY <1>4 DEF BlocksOK
  <2>2. Len(out) < Len(base)
    BY <1>3 DEF Ask
  <2>3. Len(out) + 1 \in DOMAIN base
    BY <2>1, <2>2
  <2> QED BY <1>5, <2>3 DEF Range
<1>7. PICK a \in {b} \cup {WithMarker(p) : p \in Proposals} : ann' = [ann EXCEPT !.out = Append(@, a)]
  BY <1>3, <1>5 DEF Ask
<1>8. BlockOK(a) /\ (a.fault = "none" /\ ~a.marked => Key(a) \in admitted)
  <2>1. CASE a = b
    BY <1>4, <1>6, <2>1 DEF BlocksOK, Vetted
  <2>2. ASSUME NEW p \in Proposals, a = WithMarker(p) PROVE BlockOK(a) /\ a.marked
    BY <2>2, MarkedBlock, CompileAssumption
  <2> QED BY <1>7, <2>1, <2>2
<1>9. PICK new : new = Append(out, a)
  OBVIOUS
<1>10. BlocksOK(new) /\ Range(new) \subseteq Range(out) \cup {a}
  BY <1>4, <1>8, <1>9, Added
<1>11. Vetted(new)
  BY <1>4, <1>8, <1>10 DEF Vetted
<1>12. ann' = [stage |-> st, doc |-> d, base |-> base, out |-> new]
  BY <1>2, <1>7, <1>9
<1>13. ann'.doc = d /\ ann'.base = base /\ ann'.out = new
       /\ ann' = [stage |-> ann'.stage, doc |-> ann'.doc, base |-> ann'.base, out |-> ann'.out]
  BY <1>12
<1>14. TextsOK'
  BY <1>1, <1>4, <1>10, <1>13 DEF AdmissionInv, TypeInv, TextsOK
<1>15. \A blocks : Vetted(blocks) => Vetted(blocks)'
  BY <1>1 DEF Vetted
<1>16. DocsVetted'
  BY <1>1, <1>4, <1>11, <1>13, <1>15 DEF AdmissionInv, DocsVetted
<1> QED BY <1>1, <1>14, <1>16, Aside DEF AdmissionInv, TypeInv

\* What a disturbance does to the run: it is no longer calm.
LEMMA Disturbing ==
  ASSUME RunOK, run' = [run EXCEPT !.calm = FALSE]
  PROVE  /\ DOMAIN run' = RunFields /\ run'.stage = run.stage /\ run'.queue = run.queue
         /\ run'.check = run.check /\ run'.review = run.review /\ run'.calm = FALSE
         /\ run'.gaveUp = run.gaveUp /\ run'.drifted = run.drifted
         /\ run'.marked = run.marked /\ run'.fresh = run.fresh /\ run'.prev = run.prev
         /\ run'.out = run.out
BY DEF RunOK, RunFields

LEMMA Beside ==
  ASSUME AdmissionInv, run' = [run EXCEPT !.calm = FALSE], admitted \subseteq admitted',
         UNCHANGED passed, forged \subseteq forged'
  PROVE  /\ RunOK' /\ CandidatesVetted' /\ IsArtifact(run'.out)
         /\ \A p \in run'.out.promises : Vouched(p)'
         /\ UNCHANGED artifact => ArtifactsOK' /\ PromisesVouched'
<1>1. RunOK
  BY DEF AdmissionInv, TypeInv
<1>2. /\ DOMAIN run' = RunFields /\ run'.stage = run.stage /\ run'.queue = run.queue
      /\ run'.check = run.check /\ run'.review = run.review /\ run'.calm = FALSE
      /\ run'.gaveUp = run.gaveUp /\ run'.drifted = run.drifted
      /\ run'.fresh = run.fresh /\ run'.out = run.out
  BY <1>1, Disturbing
<1>3. RunOK'
  BY <1>1, <1>2 DEF RunOK
<1>4. CandidatesVetted'
  BY <1>2 DEF AdmissionInv, CandidatesVetted
<1>5. IsArtifact(run'.out)
  BY <1>2 DEF AdmissionInv, TypeInv, ArtifactsOK
<1>6. \A p : Vouched(p) => Vouched(p)'
  BY DEF Vouched
<1>7. \A p \in run'.out.promises : Vouched(p)'
  BY <1>2, <1>6 DEF AdmissionInv, PromisesVouched
<1>8. UNCHANGED artifact => ArtifactsOK' /\ PromisesVouched'
  BY <1>5, <1>6, <1>7 DEF AdmissionInv, TypeInv, ArtifactsOK, PromisesVouched
<1> QED BY <1>3, <1>4, <1>5, <1>7, <1>8

LEMMA AdmissionSave ==
  ASSUME AdmissionInv, SaveAnnotated
  PROVE  AdmissionInv'
<1>1. UNCHANGED <<artifact, admitted, passed, forged>> /\ ann.stage = "asking" /\ ann' = Quiet
  BY DEF SaveAnnotated
<1>2. TextsOK /\ DocsVetted
  BY DEF AdmissionInv, TypeInv
<1>3. ann' = [stage |-> ann'.stage, doc |-> ann'.doc, base |-> ann'.base, out |-> ann'.out]
      /\ ann'.stage # "asking"
  BY <1>1 DEF Quiet
<1>4. \A blocks : Vetted(blocks) => Vetted(blocks)'
  BY <1>1 DEF Vetted
<1>5. CASE UNCHANGED <<doc, run>>
  <2>1. TextsOK'
    BY <1>2, <1>3, <1>5 DEF TextsOK
  <2>2. DocsVetted'
    BY <1>2, <1>3, <1>4, <1>5 DEF DocsVetted
  <2> QED BY <1>1, <1>5, <2>1, <2>2, Aside DEF AdmissionInv, TypeInv
<1>6. CASE ~UNCHANGED <<doc, run>>
  <2>1. PICK t : t = [there |-> TRUE, broken |-> FALSE, blocks |-> ann.out]
    OBVIOUS
  <2>2. doc' = [doc EXCEPT ![ann.doc] = t] /\ run' = [run EXCEPT !.calm = FALSE]
    BY <1>6, <2>1 DEF SaveAnnotated, Disturbed
  <2>3. TextOK(t) /\ Vetted(t.blocks)
    <3>1. t.blocks = ann.out /\ BlocksOK(ann.out) /\ Vetted(ann.out)
      BY <1>1, <1>2, <2>1 DEF TextsOK, DocsVetted
    <3>2. t.there = TRUE /\ t.broken = FALSE
          /\ t = [there |-> t.there, broken |-> t.broken, blocks |-> t.blocks]
      BY <2>1
    <3> QED BY <3>1, <3>2 DEF TextOK
  <2>4. DOMAIN doc' = DocSet /\ \A d \in DocSet : doc'[d] \in {doc[d], t}
    BY <1>2, <2>2 DEF TextsOK
  <2>5. TextsOK'
    BY <1>2, <1>3, <2>3, <2>4 DEF TextsOK
  <2>6. DocsVetted'
    BY <1>2, <1>3, <1>4, <2>3, <2>4 DEF DocsVetted
  <2> QED BY <1>1, <2>2, <2>5, <2>6, Beside DEF AdmissionInv, TypeInv
<1> QED BY <1>5, <1>6

LEMMA AdmissionEdit ==
  ASSUME AdmissionInv, NEW d \in DocSet, Edit(d)
  PROVE  AdmissionInv'
<1>1. UNCHANGED <<artifact, ann, passed, forged>> /\ run' = [run EXCEPT !.calm = FALSE]
  BY DEF Edit, Disturbed
<1>2. TextsOK /\ DocsVetted
  BY DEF AdmissionInv, TypeInv
<1>3. PICK text \in Drafts[d] \cup {[doc[d] EXCEPT !.blocks[i].marked = FALSE] :
                                      i \in 1..Len(doc[d].blocks)} :
        doc' = [doc EXCEPT ![d] = text] /\ admitted' = admitted \cup Unmarked(text)
  BY Zenon DEF Edit
<1>4. TextOK(text)
  <2>1. CASE text \in Drafts[d]
    BY <2>1, CompileAssumption DEF DocSet
  <2>2. ASSUME NEW i \in 1..Len(doc[d].blocks), text = [doc[d] EXCEPT !.blocks[i].marked = FALSE]
        PROVE  TextOK(text)
    BY <1>2, <2>2, EditedText
  <2> QED BY <1>3, <2>1, <2>2, Zenon
<1>5. \A b \in Range(text.blocks) : b.fault = "none" /\ ~b.marked => Key(b) \in admitted'
  BY <1>3 DEF Unmarked
<1>6. \A blocks : Vetted(blocks) => Vetted(blocks)'
  BY <1>3 DEF Vetted
<1>7. DOMAIN doc' = DocSet /\ \A e \in DocSet : doc'[e] \in {doc[e], text}
  BY <1>2, <1>3 DEF TextsOK
<1>8. TextsOK'
  BY <1>1, <1>2, <1>4, <1>7 DEF TextsOK
<1>9. DocsVetted'
  <2>1. Vetted(text.blocks)'
    BY <1>5 DEF Vetted
  <2> QED BY <1>1, <1>2, <1>6, <1>7, <2>1 DEF DocsVetted
<1>10. admitted \subseteq admitted'
  BY <1>3
<1> QED BY <1>1, <1>8, <1>9, <1>10, Beside DEF AdmissionInv, TypeInv

\* An edit by hand of one field leaves a promise, of the same origin.
LEMMA TamperedPromise ==
  ASSUME NEW p, IsPromise(p), Vouched(p), NEW q, q \in FieldEdits(p)
  PROVE  IsPromise(q) /\ Vouched(q)
<1>1. PICK i, m, s, y, a, x, w :
        p = [id |-> i, mode |-> m, status |-> s, reason |-> y, ast |-> a, sexpr |-> x,
             witness |-> w]
  BY Zenon DEF IsPromise
<1>2. PICK n, b :
        q = [id |-> i, mode |-> n, status |-> s, reason |-> y, ast |-> b, sexpr |-> x,
             witness |-> w]
  <2>1. CASE \E k : q = [p EXCEPT !.mode = k]
    BY <1>1, <2>1
  <2>2. CASE \E k : q = [p EXCEPT !.ast = k]
    BY <1>1, <2>2
  <2> QED BY <2>1, <2>2, Zenon DEF FieldEdits
<1>3. IsPromise(q)
  BY <1>2 DEF IsPromise
<1>4. Origin(q) = Origin(p) /\ q.status = p.status
      /\ q.sexpr = p.sexpr /\ q.witness = p.witness
  BY <1>1, <1>2 DEF Origin
<1> QED BY <1>3, <1>4 DEF Vouched

\* Whatever is forged is a promise too.
LEMMA ForgedPromise ==
  ASSUME NEW p, IsPromise(p), NEW q, q \in Forgeries(p)
  PROVE  IsPromise(q)
<1>1. PICK i, m, s, y, a, x, w :
        p = [id |-> i, mode |-> m, status |-> s, reason |-> y, ast |-> a, sexpr |-> x,
             witness |-> w]
  BY Zenon DEF IsPromise
<1>2. CASE \E k : q = [p EXCEPT !.id = k]
  BY <1>1, <1>2 DEF IsPromise
<1>3. ASSUME NEW f, q = [p EXCEPT !.ast = f, !.sexpr = f] PROVE IsPromise(q)
  <2>1. q = [id |-> i, mode |-> m, status |-> s, reason |-> y, ast |-> f, sexpr |-> f,
             witness |-> w]
    BY <1>1, <1>3
  <2> QED BY <2>1 DEF IsPromise
<1>4. CASE q = [p EXCEPT !.status = "compiled", !.reason = "none"]
  BY <1>4, RestatusAlike
<1> QED BY <1>2, <1>3, <1>4, Zenon DEF Forgeries

\* One promise of an artifact rewritten for another that is vouched for.
LEMMA AdmissionRewrite ==
  ASSUME AdmissionInv, NEW d \in DocSet, NEW p \in artifact[d].promises, NEW q,
         Rewrite(d, p, q), IsPromise(q), Vouched(q)', forged \subseteq forged'
  PROVE  AdmissionInv'
<1>1. /\ UNCHANGED <<doc, ann, admitted, passed>> /\ run' = [run EXCEPT !.calm = FALSE]
      /\ artifact' = [artifact EXCEPT ![d].promises = (@ \ {p}) \cup {q}]
  BY DEF Rewrite, Disturbed
<1>2. ArtifactsOK /\ PromisesVouched /\ TextsOK /\ DocsVetted
  BY DEF AdmissionInv, TypeInv
<1>3. \A r : Vouched(r) => Vouched(r)'
  BY <1>1 DEF Vouched
<1>6. PICK k, ps : artifact[d] = [kind |-> k, promises |-> ps]
  <2>1. IsArtifact(artifact[d])
    BY <1>2 DEF ArtifactsOK
  <2> QED BY <2>1, Zenon DEF IsArtifact
<1>7. PICK new : new = [kind |-> k, promises |-> (ps \ {p}) \cup {q}]
  OBVIOUS
<1>8. artifact' = [artifact EXCEPT ![d] = new]
  <2>1. PICK old : old = artifact[d]
    OBVIOUS
  <2>2. new = [old EXCEPT !.promises = (@ \ {p}) \cup {q}]
    BY <1>6, <1>7, <2>1
  <2>3. artifact' = [artifact EXCEPT ![d] = [artifact[d] EXCEPT !.promises = (@ \ {p}) \cup {q}]]
    BY <1>1, Zenon
  <2> QED BY <2>1, <2>2, <2>3, Zenon
<1>9. IsArtifact(new) /\ \A r \in new.promises : Vouched(r)'
  <2>1. new.promises = (ps \ {p}) \cup {q} /\ new.kind = k
    BY <1>7
  <2>2. artifact[d].promises = ps
    BY <1>6
  <2>3. \A r \in new.promises : IsPromise(r) /\ Vouched(r)'
    BY <1>2, <1>3, <2>1, <2>2 DEF ArtifactsOK, IsArtifact, PromisesVouched
  <2>4. new = [kind |-> new.kind, promises |-> new.promises]
    BY <1>7
  <2> QED BY <2>3, <2>4 DEF IsArtifact
<1>10. DOMAIN artifact' = DocSet /\ \A e \in DocSet : artifact'[e] \in {artifact[e], new}
  BY <1>2, <1>8 DEF ArtifactsOK
<1>11. /\ RunOK' /\ CandidatesVetted' /\ IsArtifact(run'.out)
       /\ \A r \in run'.out.promises : Vouched(r)'
  BY <1>1, Beside
<1>12. ArtifactsOK'
  BY <1>2, <1>9, <1>10, <1>11 DEF ArtifactsOK
<1>13. PromisesVouched'
  BY <1>2, <1>3, <1>9, <1>10, <1>11 DEF PromisesVouched
<1>14. TextsOK'
  BY <1>1, <1>2 DEF TextsOK
<1>15. DocsVetted'
  BY <1>1, <1>2 DEF DocsVetted, Vetted
<1> QED BY <1>11, <1>12, <1>13, <1>14, <1>15 DEF AdmissionInv, TypeInv

LEMMA AdmissionTamper ==
  ASSUME AdmissionInv, NEW d \in DocSet, Tamper(d)
  PROVE  AdmissionInv'
<1>1. PICK p \in artifact[d].promises : \E q \in FieldEdits(p) : Rewrite(d, p, q)
  BY Zenon DEF Tamper
<1>2. PICK q \in FieldEdits(p) : Rewrite(d, p, q)
  BY <1>1
<1>3. IsPromise(p) /\ Vouched(p)
  BY DEF AdmissionInv, TypeInv, ArtifactsOK, IsArtifact, PromisesVouched
<1>4. IsPromise(q) /\ Vouched(q)
  BY <1>3, TamperedPromise
<1>5. UNCHANGED <<admitted, passed, forged>>
  BY <1>2 DEF Tamper, Rewrite
<1>6. Vouched(q)'
  BY <1>4, <1>5 DEF Vouched
<1> QED BY <1>2, <1>4, <1>5, <1>6, AdmissionRewrite

LEMMA AdmissionForge ==
  ASSUME AdmissionInv, NEW d \in DocSet, Forge(d)
  PROVE  AdmissionInv'
<1>1. PICK p \in artifact[d].promises :
        \E q \in Forgeries(p) : Rewrite(d, p, q) /\ forged' = forged \cup {Origin(q)}
  BY Zenon DEF Forge
<1>2. PICK q \in Forgeries(p) : Rewrite(d, p, q) /\ forged' = forged \cup {Origin(q)}
  BY <1>1
<1>3. IsPromise(p)
  BY DEF AdmissionInv, TypeInv, ArtifactsOK, IsArtifact
<1>4. IsPromise(q)
  BY <1>3, ForgedPromise
<1>5. forged \subseteq forged' /\ Origin(q) \in forged'
  BY <1>2
<1>6. Vouched(q)'
  BY <1>5 DEF Vouched
<1> QED BY <1>2, <1>4, <1>5, <1>6, AdmissionRewrite

LEMMA AdmissionStep == AdmissionInv /\ [Next]_vars => AdmissionInv'
<1> SUFFICES ASSUME AdmissionInv, [Next]_vars PROVE AdmissionInv'
  OBVIOUS
<1>1. CASE \E check, review \in BOOLEAN : BeginCompile(check, review)
  BY <1>1, AdmissionBegin
<1>2. CASE CompileStep
  BY <1>2, AdmissionScan, AdmissionParse, AdmissionAssemble, AdmissionCheck, AdmissionOpen,
     AdmissionReplace, AdmissionEnd DEF CompileStep
<1>3. CASE WriteFails \/ Kill
  BY <1>3, AdmissionEnd
<1>4. CASE \E d \in DocSet : Annotate(d) \/ Edit(d) \/ Tamper(d) \/ Forge(d)
  BY <1>4, AdmissionAnnotate, AdmissionEdit, AdmissionTamper, AdmissionForge
<1>5. CASE Ask \/ SaveAnnotated
  BY <1>5, AdmissionAsk, AdmissionSave
<1>6. CASE UNCHANGED vars
  <2>1. RunOK'
    BY <1>6 DEF vars, AdmissionInv, TypeInv, RunOK
  <2>2. CandidatesVetted'
    BY <1>6 DEF vars, AdmissionInv, CandidatesVetted
  <2> QED BY <1>6, <2>1, <2>2, Moving DEF vars
<1> QED BY <1>1, <1>2, <1>3, <1>4, <1>5, <1>6 DEF Next

LEMMA AdmissionHolds == Spec => []AdmissionInv
BY AdmissionInit, AdmissionStep, PTL DEF Spec

\* A rule that is loaded without a note, by witnesses minted for its formula,
\* says what a person admitted and a compile proved well-formed, in that formula
\* and that mode, or what a hand forged, whatever is edited, drafted, killed or
\* loaded between the steps of a compile (sec_rules.py:918): the loader's two
\* comparisons, of the rendering with the formula and of the witnesses with the
\* mode, leave of a promise edited in one of these fields only what it was
\* compiled from.
THEOREM OnlyAdmittedIsEnforced == Spec => []EnforcedIsAdmitted
<1>1. AdmissionInv => EnforcedIsAdmitted
  <2> SUFFICES ASSUME AdmissionInv, NEW r \in LoadRules(TRUE), r.how = "quiet",
                      r.pinned = r.ast
               PROVE  Key(r) \in (admitted \cap passed) \cup forged
    BY DEF EnforcedIsAdmitted
  <2> DEFINE loaded(p) == {[id |-> p.id, ast |-> p.ast, mode |-> p.mode, how |-> how,
                            pinned |-> p.witness.ast] :
                             how \in Admit(p, TRUE) \ {"refused"}}
             own(d)    == {q \in artifact[d].promises : q.status = "compiled" /\ ~Shared(q, d)}
             from(d)   == UNION {loaded(p) : p \in own(d)}
  <2>1. LoadRules(TRUE) = UNION {from(d) : d \in DocSet}
    BY DEF LoadRules
  <2> HIDE DEF from
  <2> PICK d \in DocSet : r \in from(d)
    BY <2>1
  <2> HIDE DEF loaded, own
  <2> PICK p \in own(d) : r \in loaded(p)
    BY DEF from
  <2>2. p \in artifact[d].promises /\ p.status = "compiled"
    BY DEF own
  <2> USE DEF loaded
  <2>3. PICK how \in Admit(p, TRUE) : r = [id |-> p.id, ast |-> p.ast, mode |-> p.mode, how |-> how,
                                         pinned |-> p.witness.ast]
    OBVIOUS
  <2>4. r.id = p.id /\ r.ast = p.ast /\ r.mode = p.mode /\ r.pinned = p.witness.ast
        /\ "quiet" \in Admit(p, TRUE)
    BY <2>3
  <2>5. p.sexpr = p.ast /\ p.witness.ast = p.ast /\ p.witness.mode = p.mode
    BY <2>4 DEF Admit, Classifies
  <2>6. Key(r) = Origin(p)
    BY <2>4, <2>5 DEF Key, Origin
  <2>7. Vouched(p) /\ p.status = "compiled"
    BY <2>2 DEF AdmissionInv, PromisesVouched
  <2> QED BY <2>5, <2>6, <2>7 DEF Vouched
<1> QED BY <1>1, AdmissionHolds, PTL

-----------------------------------------------------------------------------
(* What is committed is stable.                                            *)

\* The promises of a document the model's marker stands over, under review.
MarkedIn(d, review) ==
  IF review THEN {b.id : b \in {c \in Range(doc[d].blocks) : c.marked}} ELSE {}

Kept(promises, marked) == Reviewed([kind |-> "whole", promises |-> promises], marked)

\* The artifact of a document is what a compile that never gave up makes of it.
Stands(d, review) ==
  doc[d].there /\ ~doc[d].broken =>
    \E promises : /\ Fixed(ParseText(doc[d]), promises)
                  /\ artifact[d] = Kept(promises, MarkedIn(d, review))

Mode(review) == IF review THEN "reviewed" ELSE "plain"

\* What was written undisturbed still stands, and nothing is settled while a
\* compile writes.
Settledness ==
  /\ \A review \in BOOLEAN : settled = Mode(review) => \A d \in DocSet : Stands(d, review)
  /\ run.stage # "idle" /\ ~run.check => settled = "no"

Pending(d) == \E i \in run.queue : Docs[i] = d

Emitting == run.stage \in {"emit", "replace", "again", "replace-again"}

\* While nothing disturbs a compile, what it has read is what is there.
Reading ==
  run.calm =>
    /\ run.stage \in {"parse", "judge"} \/ Emitting => run.marked = MarkedIn(Doc, run.review)
    /\ run.stage = "judge" => /\ run.fresh = ParseText(doc[Doc])
                              /\ doc[Doc].there /\ ~doc[Doc].broken

\* A compile that writes, undisturbed and with no give-up, leaves standing what
\* it has passed, and is about to write what will stand.
Writing ==
  run.calm /\ ~run.check /\ ~run.gaveUp =>
    /\ \A d \in DocSet : Pending(d) \/ Stands(d, run.review)
    /\ Emitting => /\ Fixed(ParseText(doc[Doc]), run.out.promises)
                   /\ run.out = [kind |-> "whole", promises |-> run.out.promises]

\* A compile that checks, undisturbed and with no give-up, finds what stands.
Checking ==
  run.calm /\ run.check /\ ~run.gaveUp =>
    /\ settled = Mode(run.review) /\ ~run.drifted
    /\ run.stage = "judge" => run.prev = artifact[Doc]
    /\ Emitting => artifact[Doc] = Reviewed(run.out, run.marked)

StabilityInv == AdmissionInv /\ Settledness /\ Reading /\ Writing /\ Checking /\ CommittedIsStable

LEMMA StabilityInit == Init => StabilityInv
<1> SUFFICES ASSUME Init PROVE StabilityInv
  OBVIOUS
<1>1. AdmissionInv
  BY AdmissionInit
<1>2. Settledness
  BY AtRest DEF Init, Settledness, Mode
<1>3. Reading /\ Writing /\ Checking
  BY AtRest DEF Init, Reading, Writing, Checking
<1>4. CommittedIsStable
  BY DEF Init, CommittedIsStable
<1> QED BY <1>1, <1>2, <1>3, <1>4 DEF StabilityInv

\* A step after which nothing is calm and nothing is settled.
LEMMA Unsettled ==
  ASSUME AdmissionInv', run'.calm = FALSE, settled' = "no", CommittedIsStable'
  PROVE  StabilityInv'
<1>1. Settledness'
  BY DEF Settledness, Mode
<1> QED BY <1>1 DEF StabilityInv, Reading, Writing, Checking

\* A step that reads and writes none of it.
LEMMA Untouched ==
  ASSUME StabilityInv, AdmissionInv', UNCHANGED <<doc, artifact, run, settled, checked>>
  PROVE  StabilityInv'
<1>1. Settledness'
  BY DEF StabilityInv, Settledness, Stands, MarkedIn
<1>2. Reading'
  BY DEF StabilityInv, Reading, Emitting, MarkedIn, Doc
<1>3. Writing'
  BY DEF StabilityInv, Writing, Emitting, MarkedIn, Doc, Stands, Pending
<1>4. Checking'
  BY DEF StabilityInv, Checking, Emitting, Doc
<1>5. CommittedIsStable'
  BY DEF StabilityInv, CommittedIsStable
<1> QED BY <1>1, <1>2, <1>3, <1>4, <1>5 DEF StabilityInv

\* A run that has ended is not calm.
LEMMA StabilityRest ==
  ASSUME StabilityInv, AdmissionInv', run'.stage = "idle", run'.calm = FALSE,
         UNCHANGED <<doc, artifact, settled, checked>>
  PROVE  StabilityInv'
<1>1. Settledness'
  BY DEF StabilityInv, Settledness, Stands, MarkedIn
<1>2. CommittedIsStable'
  BY DEF StabilityInv, CommittedIsStable
<1> QED BY <1>1, <1>2 DEF StabilityInv, Reading, Writing, Checking

\* What the checks below say of a step of the compile that writes no artifact.
LEMMA StabilityMove ==
  ASSUME StabilityInv, AdmissionInv', Reading', Writing', Checking',
         run.stage # "idle", run'.check = run.check,
         UNCHANGED <<doc, artifact, settled, checked>>
  PROVE  StabilityInv'
<1>1. Settledness'
  BY DEF StabilityInv, Settledness, Stands, MarkedIn
<1>2. CommittedIsStable'
  BY DEF StabilityInv, CommittedIsStable
<1> QED BY <1>1, <1>2 DEF StabilityInv

LEMMA StabilityBegin ==
  ASSUME StabilityInv, AdmissionInv', NEW check \in BOOLEAN, NEW review \in BOOLEAN,
         BeginCompile(check, review)
  PROVE  StabilityInv'
<1> DEFINE quiet == ~check \/ settled = (IF review THEN "reviewed" ELSE "plain")
<1>1. run' = [Idle EXCEPT !.stage = "document", !.queue = Present, !.check = check,
                          !.review = review, !.calm = quiet]
  BY DEF BeginCompile
<1>2. quiet <=> ~check \/ settled = Mode(review)
  BY DEF Mode
<1>3. quiet \in BOOLEAN
  OBVIOUS
<1> HIDE DEF quiet
<1>4. /\ run'.stage = "document" /\ run'.queue = Present /\ run'.check = check
      /\ run'.review = review /\ run'.calm = quiet
      /\ run'.gaveUp = FALSE /\ run'.drifted = FALSE
  BY <1>1, AtRest DEF RunFields
<1>5. UNCHANGED <<doc, artifact>> /\ settled' = (IF check THEN settled ELSE "no")
      /\ checked' = [calm |-> FALSE, drifted |-> FALSE]
  BY DEF BeginCompile
<1>6. Settledness'
  <2>1. CASE check
    BY <1>4, <1>5, <2>1, ZenonT(40) DEF StabilityInv, Settledness, Stands, MarkedIn
  <2>2. CASE ~check
    BY <1>4, <1>5, <2>2 DEF Settledness, Mode
  <2> QED BY <2>1, <2>2
<1>7. Reading'
  BY <1>4 DEF Reading, Emitting
<1>8. Writing'
  <2>1. ASSUME NEW d \in DocSet, ~Pending(d)' PROVE Stands(d, review)'
    <3>1. PICK i \in DOMAIN Docs : Docs[i] = d
      BY DEF DocSet, Range
    <3>2. i \notin Present
      BY <1>4, <2>1, <3>1 DEF Pending
    <3>3. ~doc[d].there
      BY <3>1, <3>2 DEF Present
    <3> QED BY <1>5, <3>3 DEF Stands
  <2> QED BY <1>4, <2>1 DEF Writing, Emitting
<1>9. Checking'
  BY <1>2, <1>4, <1>5 DEF Checking, Emitting
<1>10. CommittedIsStable'
  BY <1>5 DEF CommittedIsStable
<1> QED BY <1>6, <1>7, <1>8, <1>9, <1>10 DEF StabilityInv

LEMMA StabilityScan ==
  ASSUME StabilityInv, AdmissionInv', ScanMarkers
  PROVE  StabilityInv'
<1> DEFINE m == IF run.review THEN {b.id : b \in {c \in Range(doc[Doc].blocks) : c.marked}} ELSE {}
<1>1. run' = [run EXCEPT !.stage = "parse", !.marked = m]
  BY DEF ScanMarkers
<1>2. m = MarkedIn(Doc, run.review)
  BY DEF MarkedIn
<1> HIDE DEF m
<1>3. RunOK
  BY DEF StabilityInv, AdmissionInv, TypeInv
<1>4. /\ run'.stage = "parse" /\ run'.queue = run.queue /\ run'.marked = m
      /\ run'.check = run.check /\ run'.review = run.review /\ run'.calm = run.calm
      /\ run'.gaveUp = run.gaveUp /\ run'.drifted = run.drifted
  BY <1>1, <1>3 DEF RunOK, RunFields
<1>5. UNCHANGED <<doc, artifact, settled, checked>> /\ run.stage = "document" /\ Doc' = Doc
  BY <1>4 DEF ScanMarkers, Doc
<1>6. Reading'
  <2>1. MarkedIn(Doc, run.review)' = MarkedIn(Doc, run.review)
    BY <1>4, <1>5 DEF MarkedIn
  <2> QED BY <1>2, <1>4, <2>1 DEF Reading, Emitting
<1>7. Writing'
  BY <1>4, <1>5 DEF StabilityInv, Writing, Emitting, Pending, Stands, MarkedIn
<1>8. Checking'
  BY <1>4, <1>5 DEF StabilityInv, Checking, Emitting
<1> QED BY <1>4, <1>5, <1>6, <1>7, <1>8, StabilityMove

\* A whole artifact stays whole, and where nothing is marked it stays as it is.
LEMMA KeptIs ==
  ASSUME NEW promises, NEW marked
  PROVE  Kept(promises, marked).kind = "whole" /\ Kept(promises, {}) = [kind |-> "whole", promises |-> promises]
<1> DEFINE out == [kind |-> "whole", promises |-> promises]
           to(p, ms) == IF p.id \in ms
                        THEN [p EXCEPT !.status = "unverified", !.reason = "awaiting-review"]
                        ELSE p
<1>1. \A ms : Kept(promises, ms) = [out EXCEPT !.promises = {to(p, ms) : p \in @}]
  BY Zenon DEF Kept, Reviewed
<1>2. \A p : to(p, {}) = p
  OBVIOUS
<1> HIDE DEF to
<1>3. ASSUME NEW ms
      PROVE  Kept(promises, ms) = [kind |-> "whole", promises |-> {to(p, ms) : p \in promises}]
  BY <1>1
<1>4. {to(p, {}) : p \in promises} = promises
  BY <1>2
<1>5. Kept(promises, {}) = [kind |-> "whole", promises |-> promises]
  BY <1>3, <1>4, Zenon
<1>6. PICK ps : Kept(promises, marked) = [kind |-> "whole", promises |-> ps]
  BY <1>3, Zenon
<1> QED BY <1>5, <1>6

\* Passing to the next document, once the first one stands or is not compiled.
LEMMA StabilityPassing ==
  ASSUME StabilityInv, AdmissionInv', NEW here, here = Doc, NEW review, review = run.review,
         run.stage # "idle", run.queue # {},
         run'.stage = "document", run'.queue = run.queue \ {Min(run.queue)},
         run'.check = run.check, run'.review = review, run'.calm = run.calm,
         run'.gaveUp = run.gaveUp, UNCHANGED <<doc, settled, checked>>,
         \A d \in DocSet : d # here => artifact'[d] = artifact[d],
         run.check => artifact' = artifact,
         run.calm /\ ~run.check /\ ~run.gaveUp => Stands(here, review)',
         run.calm /\ run.check /\ ~run.gaveUp => ~run'.drifted
  PROVE  StabilityInv'
<1>1. RunOK
  BY DEF StabilityInv, AdmissionInv, TypeInv
<1>2. Settledness'
  <2>1. CASE run.check
    <3>1. \A d, m : Stands(d, m) => Stands(d, m)'
      BY <2>1 DEF Stands, MarkedIn
    <3> QED BY <2>1, <3>1 DEF StabilityInv, Settledness
  <2>2. CASE ~run.check
    BY <2>2 DEF StabilityInv, Settledness, Mode
  <2> QED BY <2>1, <2>2
<1>3. Reading'
  BY DEF Reading, Emitting
<1>4. Writing'
  <2> SUFFICES ASSUME run.calm, ~run.check, ~run.gaveUp
               PROVE  \A d \in DocSet : Pending(d)' \/ Stands(d, review)'
    BY DEF Writing, Emitting
  <2>1. \A i \in run.queue : i \in run'.queue \/ Docs[i] = here
    BY DEF Doc
  <2>2. ASSUME NEW d \in DocSet, ~Pending(d)' PROVE Stands(d, review)'
    <3>1. CASE Pending(d)
      <4>1. d = here
        BY <2>1, <2>2, <3>1 DEF Pending
      <4> QED BY <4>1
    <3>2. CASE ~Pending(d) /\ d # here
      <4>1. Stands(d, review)
        BY <3>2 DEF StabilityInv, Writing
      <4> QED BY <3>2, <4>1 DEF Stands, MarkedIn
    <3>3. CASE d = here
      BY <3>3
    <3> QED BY <3>1, <3>2, <3>3
  <2> QED BY <2>2
<1>5. Checking'
  BY <1>1 DEF StabilityInv, Checking, Emitting, RunOK
<1>6. CommittedIsStable'
  BY DEF StabilityInv, CommittedIsStable
<1> QED BY <1>2, <1>3, <1>4, <1>5, <1>6 DEF StabilityInv

LEMMA StabilityParse ==
  ASSUME StabilityInv, AdmissionInv', Parse
  PROVE  StabilityInv'
<1>1. RunOK /\ TextsOK
  BY DEF StabilityInv, AdmissionInv, TypeInv
<1>2. UNCHANGED <<doc, artifact, settled, checked>> /\ run.stage = "parse"
  BY DEF Parse
<1>3. run.queue # {} /\ Doc \in DocSet
  BY <1>1, <1>2, FirstDocument DEF RunOK
<1>4. PICK here, review : here = Doc /\ review = run.review
  OBVIOUS
<1>5. CASE ~doc[here].there \/ doc[here].broken
  <2>1. run' = NextDocument(run)
    BY <1>4, <1>5 DEF Parse
  <2>2. PICK n : n = NextDocument(run)
    OBVIOUS
  <2>3. /\ n.stage = "document" /\ n.queue = run.queue \ {Min(run.queue)}
        /\ n.check = run.check /\ n.review = run.review /\ n.calm = run.calm
        /\ n.gaveUp = run.gaveUp /\ n.drifted = run.drifted
    BY <1>1, <2>2, Passing DEF RunOK
  <2>4. run' = n
    BY <2>1, <2>2
  <2>5. Stands(here, review)'
    BY <1>2, <1>5 DEF Stands
  <2>6. run.calm /\ run.check /\ ~run.gaveUp => ~run.drifted
    BY DEF StabilityInv, Checking
  <2> QED BY <1>2, <1>3, <1>4, <2>3, <2>4, <2>5, <2>6, StabilityPassing
<1>6. CASE doc[here].there /\ ~doc[here].broken
  <2> DEFINE fresh == ParseText(doc[Doc])
             prev  == IF artifact[Doc].kind = "whole" THEN artifact[Doc] ELSE None
  <2>1. run' = [run EXCEPT !.stage = "judge", !.fresh = fresh, !.prev = prev]
    BY <1>4, <1>6 DEF Parse
  <2>2. run.calm /\ run.check /\ ~run.gaveUp => prev = artifact[Doc]
    <3> SUFFICES ASSUME run.calm, run.check, ~run.gaveUp PROVE prev = artifact[Doc]
      OBVIOUS
    <3>1. settled = Mode(review) /\ review \in BOOLEAN
      BY <1>1, <1>4 DEF StabilityInv, Checking, RunOK
    <3>2. Stands(here, review)
      BY <1>3, <1>4, <3>1 DEF StabilityInv, Settledness
    <3>3. PICK promises : artifact[here] = Kept(promises, MarkedIn(here, review))
      BY <1>6, <3>2 DEF Stands
    <3>4. artifact[here].kind = "whole"
      BY <3>3, KeptIs
    <3> QED BY <1>4, <3>4
  <2>3. fresh = ParseText(doc[here])
    BY <1>4
  <2> HIDE DEF fresh, prev
  <2>4. /\ run'.stage = "judge" /\ run'.queue = run.queue /\ run'.marked = run.marked
        /\ run'.check = run.check /\ run'.review = run.review /\ run'.calm = run.calm
        /\ run'.gaveUp = run.gaveUp /\ run'.drifted = run.drifted
        /\ run'.fresh = fresh /\ run'.prev = prev
    BY <1>1, <2>1 DEF RunOK, RunFields
  <2>5. Doc' = Doc
    BY <2>4 DEF Doc
  <2>6. Reading'
    BY <1>2, <1>4, <1>6, <2>3, <2>4, <2>5 DEF StabilityInv, Reading, Emitting, MarkedIn
  <2>7. Writing'
    BY <1>2, <2>4, <2>5 DEF StabilityInv, Writing, Emitting, Pending, Stands, MarkedIn
  <2>8. Checking'
    BY <1>2, <2>2, <2>4, <2>5 DEF StabilityInv, Checking, Emitting
  <2> QED BY <1>2, <2>4, <2>6, <2>7, <2>8, StabilityMove
<1> QED BY <1>5, <1>6

LEMMA StabilityAssemble ==
  ASSUME StabilityInv, AdmissionInv', Assemble
  PROVE  StabilityInv'
<1>1. RunOK /\ TextsOK /\ CandidatesVetted
  BY DEF StabilityInv, AdmissionInv, TypeInv
<1>2. UNCHANGED <<doc, artifact, settled, checked>> /\ run.stage = "judge"
  BY DEF Assemble
<1>3. run.queue # {} /\ Doc \in DocSet
  BY <1>1, <1>2, FirstDocument DEF RunOK
<1> DEFINE doubled == \E a, b \in 1..Len(run.fresh) : a # b /\ run.fresh[a].id = run.fresh[b].id
<1>4. CASE doubled
  <2>1. run' = [Idle EXCEPT !.raised = TRUE]
    BY <1>4, Zenon DEF Assemble
  <2>2. run'.stage = "idle" /\ run'.calm = FALSE
    BY <2>1 DEF Idle
  <2> QED BY <1>2, <2>2, StabilityRest
<1>5. CASE ~doubled
  <2>1. Distinct(run.fresh)
    BY <1>5 DEF Distinct
  <2> DEFINE outcome(j) ==
          run' = [run EXCEPT !.stage = "emit",
                             !.out = [kind |-> "whole", promises |-> j.promises],
                             !.gaveUp = @ \/ j.gaveUp, !.promised = @ \/ j.promises # {},
                             !.failed = @ \/ \E p \in j.promises : p.status = "rejected"]
  <2> PICK z3 \in BOOLEAN : \E j \in Judgements(run.fresh, run.prev, z3) : outcome(j)
    BY <1>5, Zenon DEF Assemble
  <2> HIDE DEF doubled
  <2>2. PICK j \in Judgements(run.fresh, run.prev, z3) : outcome(j)
    OBVIOUS
  <2>3. PICK out : out = [kind |-> "whole", promises |-> j.promises]
    OBVIOUS
  <2>4. PICK g : g = (run.gaveUp \/ j.gaveUp)
    OBVIOUS
  <2>5. PICK pr : pr = (run.promised \/ j.promises # {})
    OBVIOUS
  <2>6. PICK fl : fl = (run.failed \/ \E p \in j.promises : p.status = "rejected")
    OBVIOUS
  <2>7. run' = [run EXCEPT !.stage = "emit", !.out = out, !.gaveUp = g, !.promised = pr,
                           !.failed = fl]
    BY <2>2, <2>3, <2>4, <2>5, <2>6, Zenon
  <2> HIDE DEF outcome
  <2>8. /\ run'.stage = "emit" /\ run'.queue = run.queue /\ run'.marked = run.marked
        /\ run'.check = run.check /\ run'.review = run.review /\ run'.calm = run.calm
        /\ run'.gaveUp = g /\ run'.drifted = run.drifted /\ run'.out = out
    BY <1>1, <2>7 DEF RunOK, RunFields
  <2>9. Doc' = Doc
    BY <2>8 DEF Doc
  <2>10. out.promises = j.promises /\ out = [kind |-> "whole", promises |-> out.promises]
    BY <2>3
  <2>11. PICK f : /\ Choice(f, run.fresh, run.prev, z3)
                  /\ j.gaveUp \in BOOLEAN
                  /\ ~j.gaveUp => /\ j.promises = Independence(PromisesOf(f, run.fresh))
                                  /\ \A i \in 1..Len(run.fresh) : ~f[i].gaveUp
    BY Judgement
  <2>12. ~g => ~run.gaveUp /\ ~j.gaveUp
    BY <2>4
  <2>13. ~j.gaveUp => Fixed(run.fresh, j.promises)
    BY <1>1, <1>2, <2>1, <2>11 DEF Fixed, CandidatesVetted
  <2>14. Reading'
    <3>1. run.calm => run.marked = MarkedIn(Doc, run.review)
      BY <1>2 DEF StabilityInv, Reading
    <3> QED BY <1>2, <2>8, <2>9, <3>1 DEF Reading, Emitting, MarkedIn
  <2>15. Writing'
    <3> SUFFICES ASSUME run.calm, ~run.check, ~g PROVE Writing'
      BY <2>8 DEF Writing
    <3>1. \A d \in DocSet : Pending(d) \/ Stands(d, run.review)
      BY <2>12 DEF StabilityInv, Writing
    <3>2. (\A d \in DocSet : Pending(d) \/ Stands(d, run.review))'
      BY <1>2, <2>8, <3>1 DEF Pending, Stands, MarkedIn
    <3>3. Fixed(ParseText(doc[Doc]), j.promises)
      BY <1>2, <2>12, <2>13 DEF StabilityInv, Reading
    <3> QED BY <1>2, <2>8, <2>9, <2>10, <3>2, <3>3 DEF Writing
  <2>16. Checking'
    <3> SUFFICES ASSUME run.calm, run.check, ~g PROVE Checking'
      BY <2>8 DEF Checking
    <3>1. /\ settled = Mode(run.review) /\ ~run.drifted /\ run.prev = artifact[Doc]
          /\ run.marked = MarkedIn(Doc, run.review) /\ run.fresh = ParseText(doc[Doc])
          /\ doc[Doc].there /\ ~doc[Doc].broken
      BY <1>2, <2>12 DEF StabilityInv, Checking, Reading
    <3>2. Stands(Doc, run.review)
      BY <1>1, <1>3, <3>1 DEF StabilityInv, Settledness, RunOK
    <3>3. PICK promises : /\ Fixed(run.fresh, promises)
                          /\ artifact[Doc] = Kept(promises, run.marked)
      BY <3>1, <3>2 DEF Stands
    <3>4. j.promises = promises
      BY <2>12, <3>1, <3>3, FixedAgain DEF Kept
    <3>5. artifact[Doc] = Reviewed(out, run.marked)
      BY <2>3, <3>3, <3>4 DEF Kept
    <3> QED BY <1>2, <2>8, <2>9, <3>1, <3>5 DEF Checking
  <2> QED BY <1>2, <2>8, <2>14, <2>15, <2>16, StabilityMove
<1> QED BY <1>4, <1>5

LEMMA StabilityCheck ==
  ASSUME StabilityInv, AdmissionInv', CheckDocument
  PROVE  StabilityInv'
<1> DEFINE drift == run.drifted \/ artifact[Doc] # Reviewed(run.out, run.marked)
<1>1. RunOK
  BY DEF StabilityInv, AdmissionInv, TypeInv
<1>2. UNCHANGED <<doc, artifact, settled, checked>> /\ run.stage = "emit" /\ run.check
  BY DEF CheckDocument
<1>3. run.queue # {}
  BY <1>1, <1>2 DEF RunOK
<1>4. PICK n : n = NextDocument(run)
  OBVIOUS
<1>5. /\ DOMAIN n = RunFields
      /\ n.stage = "document" /\ n.queue = run.queue \ {Min(run.queue)}
      /\ n.check = run.check /\ n.review = run.review /\ n.calm = run.calm
      /\ n.gaveUp = run.gaveUp /\ n.drifted = run.drifted
  BY <1>1, <1>4, Passing DEF RunOK
<1>6. run' = [n EXCEPT !.drifted = @ \/ artifact[Doc] # Reviewed(run.out, run.marked)]
  BY <1>4, Zenon DEF CheckDocument
<1>7. run' = [n EXCEPT !.drifted = drift]
  BY <1>5, <1>6, Zenon
<1>8. run.calm /\ run.check /\ ~run.gaveUp => ~drift
  BY <1>2 DEF StabilityInv, Checking, Emitting
<1> HIDE DEF drift
<1>9. /\ run'.stage = "document" /\ run'.queue = n.queue
      /\ run'.check = run.check /\ run'.review = run.review /\ run'.calm = run.calm
      /\ run'.gaveUp = run.gaveUp /\ run'.drifted = drift
  BY <1>5, <1>7 DEF RunFields
<1>10. PICK here, review : here = Doc /\ review = run.review
  OBVIOUS
<1> QED BY <1>2, <1>3, <1>5, <1>8, <1>9, <1>10, StabilityPassing

LEMMA StabilityOpen ==
  ASSUME StabilityInv, AdmissionInv', OpenTmp
  PROVE  StabilityInv'
<1>1. PICK s : s = IF run.stage = "emit" THEN "replace" ELSE "replace-again"
  OBVIOUS
<1>2. RunOK /\ run' = [run EXCEPT !.stage = s]
  BY <1>1 DEF OpenTmp, StabilityInv, AdmissionInv, TypeInv
<1>3. /\ run'.stage = s /\ run'.queue = run.queue /\ run'.marked = run.marked
      /\ run'.check = run.check /\ run'.review = run.review /\ run'.calm = run.calm
      /\ run'.gaveUp = run.gaveUp /\ run'.drifted = run.drifted /\ run'.out = run.out
  BY <1>2 DEF RunOK, RunFields
<1>4. /\ UNCHANGED <<doc, artifact, settled, checked>> /\ Doc' = Doc
      /\ Emitting /\ run.stage # "idle"
      /\ s \notin {"idle", "judge"} /\ ~run.check
  BY <1>1, <1>3 DEF OpenTmp, Emitting, Doc
<1>5. Reading'
  BY <1>3, <1>4 DEF StabilityInv, Reading, MarkedIn
<1>6. Writing'
  BY <1>3, <1>4 DEF StabilityInv, Writing, Pending, Stands, MarkedIn
<1>7. Checking'
  BY <1>3, <1>4 DEF Checking
<1> QED BY <1>3, <1>4, <1>5, <1>6, <1>7, StabilityMove

LEMMA StabilityReplace ==
  ASSUME StabilityInv, AdmissionInv', ReplaceArtifact
  PROVE  StabilityInv'
<1>1. RunOK /\ TextsOK /\ ArtifactsOK
  BY DEF StabilityInv, AdmissionInv, TypeInv
<1>2. /\ UNCHANGED <<doc, settled, checked>> /\ run.stage \in {"replace", "replace-again"}
      /\ Emitting /\ run.stage # "idle" /\ ~run.check
  BY <1>1 DEF ReplaceArtifact, Emitting, RunOK
<1>3. PICK here, review : here = Doc /\ review = run.review
  OBVIOUS
<1>4. run.queue # {} /\ here \in DocSet
  BY <1>1, <1>2, <1>3, FirstDocument DEF RunOK
<1>5. PICK a : a = IF run.stage = "replace" THEN run.out ELSE Reviewed(run.out, run.marked)
  OBVIOUS
<1>6. artifact' = [artifact EXCEPT ![here] = a]
  BY <1>3, <1>5 DEF ReplaceArtifact
<1>7. artifact'[here] = a /\ \A d \in DocSet : d # here => artifact'[d] = artifact[d]
  BY <1>1, <1>4, <1>6 DEF ArtifactsOK
<1>8. CASE run.stage = "replace" /\ run.marked # {}
  <2>1. run' = [run EXCEPT !.stage = "again"]
    BY <1>8 DEF ReplaceArtifact
  <2>2. /\ run'.stage = "again" /\ run'.queue = run.queue /\ run'.marked = run.marked
        /\ run'.check = run.check /\ run'.review = run.review /\ run'.calm = run.calm
        /\ run'.gaveUp = run.gaveUp /\ run'.drifted = run.drifted /\ run'.out = run.out
    BY <1>1, <2>1 DEF RunOK, RunFields
  <2>3. Doc' = Doc /\ run'.stage # "judge"
    BY <2>2 DEF Doc
  <2>4. Settledness'
    BY <1>2, <2>2 DEF StabilityInv, Settledness, Mode
  <2>5. Reading'
    BY <1>2, <2>2, <2>3 DEF StabilityInv, Reading, MarkedIn
  <2>6. Writing'
    <3> SUFFICES ASSUME run.calm, ~run.gaveUp PROVE Writing'
      BY <2>2 DEF Writing
    <3>1. here = Docs[Min(run.queue)] /\ Min(run.queue) \in run.queue
      BY <1>1, <1>3, <1>4, FirstDocument DEF Doc, RunOK
    <3>2. Pending(here)
      BY <3>1 DEF Pending
    <3>3. \A d \in DocSet : Pending(d) \/ Stands(d, review)
      BY <1>2, <1>3 DEF StabilityInv, Writing
    <3>4. \A d \in DocSet : Pending(d)' \/ Stands(d, review)'
      <4> SUFFICES ASSUME NEW d \in DocSet PROVE Pending(d)' \/ Stands(d, review)'
        OBVIOUS
      <4>1. Pending(d)' <=> Pending(d)
        BY <2>2 DEF Pending
      <4>2. ASSUME ~Pending(d) PROVE Stands(d, review)'
        <5>1. artifact'[d] = artifact[d] /\ doc' = doc
          BY <1>2, <1>7, <3>2, <4>2
        <5>2. Stands(d, review)
          BY <3>3, <4>2
        <5> QED BY <5>1, <5>2 DEF Stands, MarkedIn
      <4> QED BY <4>1, <4>2
    <3>5. /\ Fixed(ParseText(doc[Doc]), run.out.promises)
          /\ run.out = [kind |-> "whole", promises |-> run.out.promises]
      BY <1>2 DEF StabilityInv, Writing
    <3> QED BY <1>2, <1>3, <2>2, <2>3, <3>4, <3>5 DEF Writing
  <2>7. Checking'
    BY <1>2, <2>2 DEF Checking
  <2>8. CommittedIsStable'
    BY <1>2 DEF StabilityInv, CommittedIsStable
  <2> QED BY <2>4, <2>5, <2>6, <2>7, <2>8 DEF StabilityInv
<1>9. CASE ~(run.stage = "replace" /\ run.marked # {})
  <2>1. run' = NextDocument(run)
    BY <1>9 DEF ReplaceArtifact
  <2>2. PICK n : n = NextDocument(run)
    OBVIOUS
  <2>3. /\ n.stage = "document" /\ n.queue = run.queue \ {Min(run.queue)}
        /\ n.check = run.check /\ n.review = run.review /\ n.calm = run.calm
        /\ n.gaveUp = run.gaveUp
    BY <1>1, <2>2, Passing DEF RunOK
  <2>4. run' = n
    BY <2>1, <2>2
  <2>5. ASSUME run.calm, ~run.check, ~run.gaveUp PROVE Stands(here, review)'
    <3>1. /\ Fixed(ParseText(doc[here]), run.out.promises)
          /\ run.out = [kind |-> "whole", promises |-> run.out.promises]
          /\ run.marked = MarkedIn(here, review)
      BY <1>2, <1>3, <2>5 DEF StabilityInv, Writing, Reading
    <3>2. PICK ps, ms : ps = run.out.promises /\ ms = run.marked
      OBVIOUS
    <3>3. a = Kept(ps, ms)
      <4>1. CASE run.stage = "replace"
        BY <1>5, <1>9, <3>1, <3>2, <4>1, KeptIs
      <4>2. CASE run.stage = "replace-again"
        BY <1>5, <3>1, <3>2, <4>2 DEF Kept
      <4> QED BY <1>2, <4>1, <4>2
    <3>4. artifact'[here] = Kept(ps, MarkedIn(here, review)) /\ Fixed(ParseText(doc[here]), ps)
      BY <1>7, <3>1, <3>2, <3>3
    <3> QED BY <1>2, <3>4 DEF Stands, MarkedIn
  <2> QED BY <1>2, <1>3, <1>4, <1>7, <2>3, <2>4, <2>5, StabilityPassing
<1> QED BY <1>8, <1>9

LEMMA StabilityFinish ==
  ASSUME StabilityInv, AdmissionInv', FinishCompile
  PROVE  StabilityInv'
<1>1. RunOK
  BY DEF StabilityInv, AdmissionInv, TypeInv
<1>2. PICK fl : fl = (run.failed \/ run.drifted \/ ~run.promised \/ Orphans # {})
  OBVIOUS
<1>3. run' = [Idle EXCEPT !.failed = fl] /\ UNCHANGED <<doc, artifact>>
  BY <1>2 DEF FinishCompile
<1>4. run'.stage = "idle" /\ run'.calm = FALSE
  BY <1>3 DEF Idle
<1>5. run.queue = {} /\ run.stage = "document"
  BY DEF FinishCompile
<1>6. \A d, m : Stands(d, m) => Stands(d, m)'
  BY <1>3 DEF Stands, MarkedIn
<1>7. Settledness'
  <2>1. CASE run.check
    <3>1. settled' = settled
      BY <2>1 DEF FinishCompile
    <3> QED BY <1>4, <1>6, <3>1 DEF StabilityInv, Settledness
  <2>2. CASE ~run.check
    <3>1. settled' = IF run.calm /\ ~run.gaveUp THEN Mode(run.review) ELSE "no"
      BY <2>2 DEF FinishCompile, Mode
    <3>2. ASSUME run.calm, ~run.gaveUp PROVE \A d \in DocSet : Stands(d, run.review)
      BY <1>5, <2>2, <3>2 DEF StabilityInv, Writing, Pending
    <3>3. \A r \in BOOLEAN : settled' = Mode(r) => run.calm /\ ~run.gaveUp /\ r = run.review
      BY <1>1, <3>1 DEF Mode, RunOK
    <3> QED BY <1>4, <1>6, <3>2, <3>3 DEF Settledness
  <2> QED BY <2>1, <2>2
<1>8. CommittedIsStable'
  <2>1. CASE run.check
    <3>1. PICK c : c = (run.calm /\ ~run.gaveUp)
      OBVIOUS
    <3>2. checked' = [calm |-> c, drifted |-> run.drifted]
      BY <2>1, <3>1 DEF FinishCompile
    <3>3. checked'.calm = c /\ checked'.drifted = run.drifted
      BY <3>2
    <3>4. c => ~run.drifted
      BY <2>1, <3>1 DEF StabilityInv, Checking
    <3> QED BY <3>3, <3>4 DEF CommittedIsStable
  <2>2. CASE ~run.check
    BY <2>2 DEF FinishCompile, StabilityInv, CommittedIsStable
  <2> QED BY <2>1, <2>2
<1> QED BY <1>4, <1>7, <1>8 DEF StabilityInv, Reading, Writing, Checking

\* A person, or the assist, who writes something unsettles it.
LEMMA StabilityDisturbed ==
  ASSUME StabilityInv, AdmissionInv', Disturbed, UNCHANGED checked
  PROVE  StabilityInv'
<1>1. RunOK
  BY DEF StabilityInv, AdmissionInv, TypeInv
<1>2. run'.calm = FALSE /\ settled' = "no"
  BY <1>1, Disturbing DEF Disturbed
<1>3. CommittedIsStable'
  BY DEF StabilityInv, CommittedIsStable
<1> QED BY <1>2, <1>3, Unsettled

LEMMA StabilityStep == StabilityInv /\ [Next]_vars => StabilityInv'
<1> SUFFICES ASSUME StabilityInv, [Next]_vars PROVE StabilityInv'
  OBVIOUS
<1>1. AdmissionInv'
  BY AdmissionStep DEF StabilityInv
<1>2. CASE \E check, review \in BOOLEAN : BeginCompile(check, review)
  BY <1>1, <1>2, StabilityBegin
<1>3. CASE CompileStep
  BY <1>1, <1>3, StabilityScan, StabilityParse, StabilityAssemble, StabilityCheck, StabilityOpen,
     StabilityReplace, StabilityFinish DEF CompileStep
<1>4. CASE WriteFails \/ Kill
  <2>1. UNCHANGED <<doc, artifact, settled, checked>> /\ run' = Idle
    BY <1>4 DEF WriteFails, Kill
  <2> QED BY <1>1, <2>1, AtRest, StabilityRest
<1>5. CASE Ask \/ \E d \in DocSet : Annotate(d)
  <2>1. UNCHANGED <<doc, artifact, run, settled, checked>>
    BY <1>5 DEF Ask, Annotate
  <2> QED BY <1>1, <2>1, Untouched
<1>6. CASE SaveAnnotated \/ \E d \in DocSet : Edit(d) \/ Tamper(d) \/ Forge(d)
  <2>1. UNCHANGED checked
    BY <1>6 DEF SaveAnnotated, Edit, Tamper, Forge, Rewrite
  <2>2. CASE Disturbed
    BY <1>1, <2>1, <2>2, StabilityDisturbed
  <2>3. CASE ~Disturbed
    <3>1. UNCHANGED <<doc, run, settled, artifact>>
      BY <1>6, <2>3 DEF SaveAnnotated, Edit, Tamper, Forge, Rewrite
    <3> QED BY <1>1, <2>1, <3>1, Untouched
  <2> QED BY <2>2, <2>3
<1>7. CASE UNCHANGED vars
  BY <1>1, <1>7, Untouched DEF vars
<1> QED BY <1>2, <1>3, <1>4, <1>5, <1>6, <1>7 DEF Next

\* Compiling is idempotent: what a compile wrote, a check of the same documents
\* does not call drifted, however arbitrary the solver's models, unless the
\* solver gave up or somebody edited something (sec_compile.py:26).
THEOREM CompilingIsIdempotent == Spec => []CommittedIsStable
<1>1. StabilityInv => CommittedIsStable
  BY DEF StabilityInv
<1> QED BY <1>1, StabilityInit, StabilityStep, PTL DEF Spec
=============================================================================
