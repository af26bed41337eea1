------------------------------ MODULE Compile ------------------------------
(***************************************************************************)
(* The requirements compiler (sec_parse.py, sec_vocab.py, sec_probes.py,   *)
(* sec_compile.py, sec_artifact.py), the language-model assist that drafts *)
(* promises (sec_llm.py), the loader that turns the committed artifacts    *)
(* into rules (sec_rules.py) and the people who edit the documents and the *)
(* artifacts between any two of their steps.                               *)
(*                                                                         *)
(* A promise is an identifier, a formula and a mode.  What the solver      *)
(* would say of a formula is its Nature; the solver may give up whenever   *)
(* it is asked.  A pair of pinned witnesses is the formula and the mode    *)
(* they were minted for and which model of the solver they are: the model  *)
(* is arbitrary, and so is what a pair says of a formula it was not minted *)
(* for.                                                                    *)
(***************************************************************************)
EXTENDS Naturals, Sequences, FiniteSetsExt, Functions

CONSTANTS
    Docs,        \* the requirement documents, in the order they are compiled
    Drafts,      \* what people write in each document
    Proposals,   \* the blocks the model may answer with
    Nature,      \* formula -> what is wrong with it, or "sound"
    Clashes,     \* pairs of formulas that no single record satisfies
    Fits,        \* formula and mode of a pair -> another formula and mode that
                 \* it happens to classify as well: a set of pairs
    Models,      \* the models a solver may pin as witnesses
    MaxEdits,    \* edits of documents and artifacts explored
    MaxCompiles, \* compiles explored
    MaxCrashes   \* kills explored

Modes == {"refute", "assert_satisfiable"}

(* A section: a promise's block, what is wrong with how it is written, and *)
(* whether the model's marker stands over it.                              *)
BlockOK(b) ==
    /\ b = [id |-> b.id, ast |-> b.ast, mode |-> b.mode, fault |-> b.fault,
            marked |-> b.marked]
    /\ b.mode \in Modes
    /\ b.marked \in BOOLEAN
BlocksOK(blocks) == /\ blocks \in Seq(Range(blocks))
                    /\ \A b \in Range(blocks) : BlockOK(b)
TextOK(t) == /\ t = [there |-> t.there, broken |-> t.broken, blocks |-> t.blocks]
             /\ t.there \in BOOLEAN /\ t.broken \in BOOLEAN
             /\ BlocksOK(t.blocks)

ASSUME CompileAssumption ==
    /\ Docs \in Seq(Range(Docs))
    /\ \A d \in Range(Docs) : \A t \in Drafts[d] : TextOK(t)
    /\ \A b \in Proposals : BlockOK(b)

VARIABLES
    doc,         \* document -> its text
    artifact,    \* document -> its committed artifact
    tmp,         \* document -> what its temporary sibling holds
    run,         \* the compile in progress
    ann,         \* the annotation in progress
    edits, compiles, crashes,
    \* observers
    admitted,    \* promises a person ever left unmarked in a document
    passed,      \* promises a compile ever judged sound
    forged,      \* promises a hand ever gave another name, status or formula
    settled,     \* "no", or how the artifacts were last written undisturbed
    checked      \* what the last check found

vars == <<doc, artifact, tmp, run, ann, edits, compiles, crashes,
          admitted, passed, forged, settled, checked>>

DocSet == Range(Docs)
NoDoc == [there |-> FALSE, broken |-> FALSE, blocks |-> <<>>]
None == [kind |-> "none", promises |-> {}]
Torn == [kind |-> "torn", promises |-> {}]
Quiet == [stage |-> "idle", doc |-> "none", base |-> <<>>, out |-> <<>>]

NoWitness == [ast |-> "none", mode |-> "none", model |-> 0]

(* A section holds one block, or only prose (fault "prose").               *)
IsBlock(b) == b.fault # "prose"
Key(b) == [id |-> b.id, ast |-> b.ast, mode |-> b.mode]
Unmarked(text) == {Key(b) : b \in {c \in Range(text.blocks) :
                                      c.fault = "none" /\ ~c.marked}}

Idle == [stage |-> "idle", queue |-> {}, check |-> FALSE, review |-> FALSE,
         marked |-> {}, fresh |-> <<>>, prev |-> None, out |-> None,
         gaveUp |-> FALSE, calm |-> FALSE, failed |-> FALSE, promised |-> FALSE,
         drifted |-> FALSE, raised |-> FALSE]

Init ==
    /\ doc \in [DocSet -> UNION {Drafts[d] : d \in DocSet}]
    /\ \A d \in DocSet : doc[d] \in Drafts[d]
    /\ artifact = [d \in DocSet |-> None] /\ tmp = [d \in DocSet |-> None]
    /\ run = Idle /\ ann = Quiet
    /\ edits = 0 /\ compiles = 0 /\ crashes = 0
    /\ admitted = UNION {Unmarked(doc[d]) : d \in DocSet}
    /\ passed = {} /\ forged = {}
    /\ settled = "no" /\ checked = [calm |-> FALSE, drifted |-> FALSE]

-----------------------------------------------------------------------------
(* The front end: a document becomes candidates (sec_parse.py).            *)

(* Mutant: the parser skips comment lines, the marker among them. *)
CandidateSkipsComments(b) ==
    [id |-> b.id, ast |-> b.ast, mode |-> b.mode,
     error |-> b.fault]
(* A section without a block is a candidate too, untranslated; and a       *)
(* marker is an unknown header key, so a marked block is an error.         *)
Candidate(b) ==
    [id |-> b.id, ast |-> b.ast, mode |-> b.mode,
     error |-> IF b.fault = "none" /\ b.marked THEN "unknown-header-key" ELSE b.fault]

FlagDuplicates(cands) ==
    [i \in 1..Len(cands) |->
        IF cands[i].error = "none" /\ \E j \in 1..Len(cands) :
                                     j # i /\ cands[j].id = cands[i].id
        THEN [cands[i] EXCEPT !.error = "duplicate-id"] ELSE cands[i]]

ParseText(text) ==
    FlagDuplicates([i \in 1..Len(text.blocks) |-> Candidate(text.blocks[i])])

-----------------------------------------------------------------------------
(* Judging one candidate.  Each judgement is a promise and whether the     *)
(* solver gave up on the way.                                              *)

(* What a promise carries, and what the artifact gives back of it.         *)
Promise(c, status, reason, w) ==
    [id |-> c.id, mode |-> c.mode, status |-> status, reason |-> reason,
     ast |-> IF c.error # "none" \/ reason = "unknown-collection" THEN "none" ELSE c.ast,
     sexpr |-> IF c.error # "none" \/ reason = "unknown-collection" THEN "none" ELSE c.ast,
     witness |-> w]
Settled(c, status, reason, w) ==
    {[promise |-> Promise(c, status, reason, w), gaveUp |-> FALSE]}
GivenUp(c, w) ==
    {[promise |-> Promise(c, "unverified", "gave-up", w), gaveUp |-> TRUE]}

(* A pinned pair still classifies its own formula iff it was minted for    *)
(* the same mode: the other negates the obligation and swaps the sides.    *)
Classifies(w, ast, mode) ==
    IF w.ast = ast THEN w.mode = mode
    ELSE <<[ast |-> w.ast, mode |-> w.mode], [ast |-> ast, mode |-> mode]>> \in Fits

(* Mutant: the pinned witnesses are never reused. *)
ReusableNever(c, prev) == {}
(* The promises of the previous artifact whose witnesses are kept.         *)
Reusable(c, prev) ==
    {p \in prev.promises : p.id = c.id /\ p.ast = c.ast /\ p.witness # NoWitness}

(* The probe may give up before the witnesses are looked at, which then    *)
(* are not carried over; and again over them.                              *)
EncodeProbeAndWitness(c, prev) ==
    CASE Nature[c.ast] = "unsupported" -> Settled(c, "unverified", "unsupported", NoWitness)
      [] Nature[c.ast] \in {"unsatisfiable", "tautology"} ->
            Settled(c, "rejected", Nature[c.ast], NoWitness) \cup GivenUp(c, NoWitness)
      [] OTHER ->
            GivenUp(c, NoWitness) \cup
            IF Reusable(c, prev) = {}
            THEN UNION {Settled(c, "compiled", "none",
                                [ast |-> c.ast, mode |-> c.mode, model |-> m]) : m \in Models}
            ELSE UNION {IF Classifies(p.witness, c.ast, c.mode)
                        THEN Settled(c, "compiled", "none", p.witness) \cup GivenUp(c, p.witness)
                        ELSE Settled(c, "rejected", "witness-drift", p.witness)
                               \cup GivenUp(c, p.witness) : p \in Reusable(c, prev)}

(* The stages in order: what the parser could not read, a collection       *)
(* nobody registered, a name the snapshot does not know, a tier the        *)
(* formula does not have, no solver, and then the solver.                  *)
Judge(c, prev, z3) ==
    IF c.error # "none" THEN Settled(c, "unverified", c.error, NoWitness)
    ELSE IF Nature[c.ast] = "unknown-collection"
         THEN Settled(c, "unverified", "unknown-collection", NoWitness)
    ELSE IF Nature[c.ast] \in {"ungrounded", "wrong-tier"}
         THEN Settled(c, "rejected", Nature[c.ast], NoWitness)
    ELSE IF ~z3 THEN GivenUp(c, NoWitness)
    ELSE EncodeProbeAndWitness(c, prev)

(* Two compiled promises no record can satisfy together reject each other, *)
(* unless the solver gave up on the pair.                                  *)
Rivals(p, all) == {q \in all : /\ q # p /\ p.status = "compiled" /\ q.status = "compiled"
                               /\ {p.ast, q.ast} \in Clashes}
Independence(all) ==
    {[p EXCEPT !.status = "rejected", !.reason = "conflict"] :
        p \in {q \in all : Rivals(q, all) # {}}}
    \cup {p \in all : Rivals(p, all) = {}}

(* Every outcome of judging a whole document.                              *)
Judgements(cands, prev, z3) ==
    LET choices == {f \in [1..Len(cands) ->
                              UNION {Judge(cands[i], prev, z3) : i \in 1..Len(cands)}] :
                       \A i \in 1..Len(cands) : f[i] \in Judge(cands[i], prev, z3)}
    IN UNION {LET all == {f[i].promise : i \in 1..Len(cands)}
                  gaveUp == \E i \in 1..Len(cands) : f[i].gaveUp
              IN {[promises |-> Independence(all), gaveUp |-> gaveUp]}
                 \cup IF \E p \in all : Rivals(p, all) # {}
                      THEN {[promises |-> all, gaveUp |-> TRUE]} ELSE {}
              : f \in choices}

-----------------------------------------------------------------------------
(* One compile: the documents of the directory in order.                   *)

Busy == run.stage # "idle"
Doc == Docs[Min(run.queue)]
Present == {i \in DOMAIN Docs : doc[Docs[i]].there}

Rest == <<ann, edits, crashes, admitted, forged>>

BeginCompile(check, review) ==
    /\ ~Busy /\ compiles < MaxCompiles
    /\ compiles' = compiles + 1
    /\ run' = [Idle EXCEPT !.stage = "document", !.queue = Present, !.check = check,
                           !.review = review,
                           !.calm = ~check \/ settled = IF review THEN "reviewed" ELSE "plain"]
    /\ settled' = IF check THEN settled ELSE "no"
    /\ checked' = [calm |-> FALSE, drifted |-> FALSE]
    /\ UNCHANGED <<doc, artifact, tmp, passed>> /\ UNCHANGED Rest

(* The marker is looked for in a text that is then read again to be        *)
(* compiled.                                                               *)
ScanMarkers ==
    /\ run.stage = "document" /\ run.queue # {}
    /\ run' = [run EXCEPT !.stage = "parse",
                          !.marked = IF run.review
                                     THEN {b.id : b \in {c \in Range(doc[Doc].blocks) : c.marked}}
                                     ELSE {}]
    /\ UNCHANGED <<doc, artifact, tmp, compiles, passed, settled, checked>>
    /\ UNCHANGED Rest

(* A document that cannot be read at all is one abstention.                *)
NextDocument(r) == [r EXCEPT !.stage = "document", !.queue = @ \ {Min(@)}, !.marked = {},
                             !.fresh = <<>>, !.prev = None, !.out = None]

Parse ==
    /\ run.stage = "parse"
    /\ run' = IF ~doc[Doc].there \/ doc[Doc].broken THEN NextDocument(run)
              ELSE [run EXCEPT !.stage = "judge", !.fresh = ParseText(doc[Doc]),
                               !.prev = IF artifact[Doc].kind = "whole"
                                        THEN artifact[Doc] ELSE None]
    /\ UNCHANGED <<doc, artifact, tmp, compiles, passed, settled, checked>>
    /\ UNCHANGED Rest

(* A document of two promises with one identifier cannot be put together:  *)
(* the exception ends the whole compile.                                   *)
Assemble ==
    /\ run.stage = "judge"
    /\ \E z3 \in BOOLEAN : \E j \in Judgements(run.fresh, run.prev, z3) :
          IF \E a, b \in 1..Len(run.fresh) : a # b /\ run.fresh[a].id = run.fresh[b].id
          THEN run' = [Idle EXCEPT !.raised = TRUE] /\ UNCHANGED passed
          ELSE /\ run' = [run EXCEPT !.stage = "emit",
                             !.out = [kind |-> "whole", promises |-> j.promises],
                             !.gaveUp = @ \/ j.gaveUp, !.promised = @ \/ j.promises # {},
                             !.failed = @ \/ \E p \in j.promises : p.status = "rejected"]
               /\ passed' = passed \cup {Key(p) : p \in {q \in j.promises : q.status = "compiled"}}
    /\ UNCHANGED <<doc, artifact, tmp, compiles, settled, checked>>
    /\ UNCHANGED Rest

(* Every marked promise is overridden.                                     *)
Reviewed(out, marked) ==
    [out EXCEPT !.promises =
        {IF p.id \in marked
         THEN [p EXCEPT !.status = "unverified", !.reason = "awaiting-review"]
         ELSE p : p \in @}]

(* In check mode the artifact is only compared, under review the           *)
(* corrected one.                                                          *)
CheckDocument ==
    /\ run.stage = "emit" /\ run.check
    /\ LET text == Reviewed(run.out, run.marked)
       IN run' = [NextDocument(run) EXCEPT !.drifted = @ \/ artifact[Doc] # text]
    /\ UNCHANGED <<doc, artifact, tmp, compiles, passed, settled, checked>>
    /\ UNCHANGED Rest
(* The text goes to a sibling, which then replaces the artifact.           *)
OpenTmp ==
    /\ run.stage \in {"emit", "again"} /\ ~run.check
    /\ run' = [run EXCEPT !.stage = IF @ = "emit" THEN "replace" ELSE "replace-again"]
    /\ tmp' = [tmp EXCEPT ![Doc] = Torn]
    /\ UNCHANGED <<doc, artifact, compiles, passed, settled, checked>>
    /\ UNCHANGED Rest

ReplaceArtifact ==
    /\ run.stage \in {"replace", "replace-again"}
    /\ artifact' = [artifact EXCEPT ![Doc] =
                       IF run.stage = "replace" THEN run.out
                       ELSE Reviewed(run.out, run.marked)]
    /\ tmp' = [tmp EXCEPT ![Doc] = None]
    /\ run' = IF run.stage = "replace" /\ run.marked # {}
              THEN [run EXCEPT !.stage = "again"] ELSE NextDocument(run)
    /\ UNCHANGED <<doc, compiles, passed, settled, checked>> /\ UNCHANGED Rest

(* A write that fails takes its sibling away again and ends the compile.   *)
WriteFails ==
    /\ run.stage \in {"replace", "replace-again"} /\ crashes < MaxCrashes
    /\ tmp' = [tmp EXCEPT ![Doc] = None]
    /\ run' = Idle /\ crashes' = crashes + 1
    /\ UNCHANGED <<doc, artifact, ann, edits, compiles, admitted, passed, forged,
                   settled, checked>>

(* A compile that yields no promise fails, and so does one that leaves an  *)
(* artifact whose document is gone.                                        *)
Orphans == {d \in DocSet : artifact[d].kind # "none" /\ ~doc[d].there}

FinishCompile ==
    /\ run.stage = "document" /\ run.queue = {}
    /\ run' = [Idle EXCEPT !.failed = run.failed \/ run.drifted \/ ~run.promised
                                        \/ Orphans # {}]
    /\ IF run.check
       THEN /\ checked' = [calm |-> run.calm /\ ~run.gaveUp, drifted |-> run.drifted]
            /\ UNCHANGED settled
       ELSE /\ settled' = IF run.calm /\ ~run.gaveUp
                          THEN IF run.review THEN "reviewed" ELSE "plain" ELSE "no"
            /\ UNCHANGED checked
    /\ UNCHANGED <<doc, artifact, tmp, compiles, passed>> /\ UNCHANGED Rest

(* A kill leaves the sibling behind.                                       *)
Kill ==
    /\ Busy /\ crashes < MaxCrashes
    /\ run' = Idle /\ crashes' = crashes + 1
    /\ UNCHANGED <<doc, artifact, tmp, ann, edits, compiles, admitted, passed, forged,
                   settled, checked>>

-----------------------------------------------------------------------------
(* The assist: one question per section that has only prose.               *)

Annotate(d) ==
    /\ ann.stage = "idle" /\ doc[d].there /\ ~doc[d].broken
    /\ \E b \in Range(doc[d].blocks) : ~IsBlock(b)
    /\ ann' = [stage |-> "asking", doc |-> d, base |-> doc[d].blocks, out |-> <<>>]
    /\ UNCHANGED <<doc, artifact, tmp, run, edits, compiles, crashes, admitted,
                   passed, forged, settled, checked>>
WithMarker(b) == [b EXCEPT !.marked = TRUE]

(* Exactly one fenced block is an answer; a timeout, a failed command,     *)
(* none, several or an unterminated one leave the section as it was.       *)
Ask ==
    /\ ann.stage = "asking" /\ Len(ann.out) < Len(ann.base)
    /\ LET b == ann.base[Len(ann.out) + 1]
       IN \E answer \in {b} \cup IF IsBlock(b) THEN {}
                                 ELSE {WithMarker(p) : p \in Proposals} :
             ann' = [ann EXCEPT !.out = Append(@, answer)]
    /\ UNCHANGED <<doc, artifact, tmp, run, edits, compiles, crashes, admitted,
                   passed, forged, settled, checked>>

Disturbed == /\ run' = [run EXCEPT !.calm = FALSE]
             /\ settled' = "no"

(* The document is rewritten from the text read before the questions.      *)
SaveAnnotated ==
    /\ ann.stage = "asking" /\ Len(ann.out) = Len(ann.base)
    /\ ann' = Quiet
    /\ IF ann.out = ann.base THEN UNCHANGED <<doc, run, settled>>
       ELSE /\ doc' = [doc EXCEPT ![ann.doc] =
                          [there |-> TRUE, broken |-> FALSE, blocks |-> ann.out]]
            /\ Disturbed
    /\ UNCHANGED <<artifact, tmp, edits, compiles, crashes, admitted, passed, forged,
                   checked>>

-----------------------------------------------------------------------------
(* People.                                                                 *)

(* Anything a person may write, or the admission of what was proposed.     *)
Edit(d) ==
    /\ edits < MaxEdits /\ edits' = edits + 1
    /\ \E text \in Drafts[d] \cup
                   {[doc[d] EXCEPT !.blocks[i].marked = FALSE] : i \in 1..Len(doc[d].blocks)} :
          /\ text # doc[d]
          /\ doc' = [doc EXCEPT ![d] = text]
          /\ admitted' = admitted \cup Unmarked(text)
    /\ Disturbed
    /\ UNCHANGED <<artifact, tmp, ann, compiles, crashes, passed, forged, checked>>

(* What the pair of a promise was minted for, under its identifier.        *)
Origin(p) == [id |-> p.id, ast |-> p.witness.ast, mode |-> p.witness.mode]

(* A committed promise is edited by hand, in one of the fields that have   *)
(* to agree with another: its formula or its mode.                         *)
FieldEdits(p) == {[p EXCEPT !.mode = m] : m \in Modes \ {p.mode}}
                 \cup {[p EXCEPT !.ast = f] : f \in DOMAIN Nature \ {p.ast}}
(* Or in a way that leaves nothing to disagree: another identifier, the    *)
(* formula together with its rendering, or the status of one that did not  *)
(* compile, its reason cleared.                                            *)
Forgeries(p) ==
    {[p EXCEPT !.id = b.id] : b \in Proposals}
    \cup {[p EXCEPT !.ast = f, !.sexpr = f] : f \in DOMAIN Nature \ {p.ast}}
    \cup {[p EXCEPT !.status = "compiled", !.reason = "none"]}

Rewrite(d, p, q) ==
    /\ artifact' = [artifact EXCEPT ![d].promises = (@ \ {p}) \cup {q}]
    /\ edits < MaxEdits /\ edits' = edits + 1
    /\ Disturbed
    /\ UNCHANGED <<doc, tmp, ann, compiles, crashes, admitted, passed, checked>>

Tamper(d) ==
    /\ artifact[d].kind = "whole"
    /\ \E p \in artifact[d].promises : \E q \in FieldEdits(p) :
          p.status = "compiled" /\ Rewrite(d, p, q)
    /\ UNCHANGED forged
(* An artifact that uses an identifier twice, or says compiled of a        *)
(* promise with no witnesses, cannot be read: such edits end in nothing.   *)
Forge(d) ==
    /\ artifact[d].kind = "whole"
    /\ \E p \in artifact[d].promises : \E q \in Forgeries(p) :
          /\ p.witness # NoWitness /\ q # p
          /\ \A o \in artifact[d].promises \ {p} : o.id # q.id
          /\ Rewrite(d, p, q)
          /\ forged' = forged \cup {Origin(q)}

-----------------------------------------------------------------------------
(* The loader.  A rule is registered quietly, or with a note that its      *)
(* integrity was not verified.                                             *)
(* The rendering is compared first, and costs no solver; the witnesses are *)
(* classified again, on which the solver may give up.                      *)
Admit(p, z3) ==
    IF ~z3 \/ Nature[p.ast] = "unsupported" THEN {"noted"}
    ELSE IF p.sexpr # p.ast THEN {"refused"}
    ELSE IF Classifies(p.witness, p.ast, p.mode) THEN {"quiet", "noted"}
    ELSE {"refused", "noted"}

Shared(p, d) == \E e \in DocSet \ {d} : \E q \in artifact[e].promises : q.id = p.id

(* What a load may register from the artifacts as they stand: an           *)
(* identifier two artifacts use is registered from neither, and an         *)
(* artifact that cannot be read keeps none of the others out.              *)
LoadRules(z3) ==
    UNION {UNION {{[id |-> p.id, ast |-> p.ast, mode |-> p.mode, how |-> how,
                    pinned |-> p.witness.ast] : how \in Admit(p, z3) \ {"refused"}} :
                  p \in {q \in artifact[d].promises :
                            q.status = "compiled" /\ ~Shared(q, d)}} : d \in DocSet}

-----------------------------------------------------------------------------
CompileStep == ScanMarkers \/ Parse \/ Assemble \/ CheckDocument \/ OpenTmp
               \/ ReplaceArtifact \/ FinishCompile

Next ==
    \/ \E check, review \in BOOLEAN : BeginCompile(check, review)
    \/ CompileStep \/ WriteFails \/ Kill
    \/ \E d \in DocSet : Annotate(d) \/ Edit(d) \/ Tamper(d) \/ Forge(d)
    \/ Ask \/ SaveAnnotated

Spec == Init /\ [][Next]_vars

-----------------------------------------------------------------------------
(* Properties                                                              *)

(* A rule that is loaded without a note, by witnesses minted for its       *)
(* formula, says what a person admitted and a compile proved well-formed,  *)
(* in that formula and that mode, or what a hand forged (sec_rules.py:918, *)
(* sec_llm.py:565).  A block the model drafted and nobody admitted does    *)
(* not become a rule, nor does a promise whose mode or formula alone was   *)
(* edited in the artifact, whatever is edited, killed or loaded between    *)
(* the steps of a compile.  An identifier or a status written by hand does,*)
(* and so does a formula whose rendering was rewritten with it where the   *)
(* witnesses of the old one happen to fit.                                 *)
EnforcedIsAdmitted ==
    \A r \in LoadRules(TRUE) :
        r.how = "quiet" /\ r.pinned = r.ast =>
            Key(r) \in (admitted \cap passed) \cup forged

(* Compiling is idempotent: what a compile wrote, a check of the same      *)
(* documents does not call drifted, however arbitrary the solver's models, *)
(* unless the solver gave up or somebody edited something                  *)
(* (sec_compile.py:26).                                                    *)
CommittedIsStable == checked.calm => ~checked.drifted
=============================================================================
