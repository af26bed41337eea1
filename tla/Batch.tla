------------------------------- MODULE Batch -------------------------------
(***************************************************************************)
(* What a batch runner promises, apart from how it judges anything: the    *)
(* items of a call are taken in order, each distinct item is answered once *)
(* and for good, no answer depends on another item's having crashed, and   *)
(* the call closes with a summary that is the worst of its answers.        *)
(* The edit gate is shown to implement it (Gate).                          *)
(***************************************************************************)
EXTENDS Naturals, Sequences, SequencesExt

CONSTANTS
    Items,      \* what a call may be asked about
    Answers,    \* what an item may be answered
    Bad,        \* the answers that fail the whole call
    Batches,    \* the sequences of items a call may be given
    MaxCalls    \* how many calls are explored

VARIABLES
    todo,       \* the items of the call still to be taken, in order
    answers,    \* item and answer, in the order they were given
    verdict,    \* "none" before the first call, "open", then "passed"/"failed"
    calls       \* calls begun

vars == <<todo, answers, verdict, calls>>

Answered(item) == \E i \in 1..Len(answers) : answers[i].item = item

Init == todo = <<>> /\ answers = <<>> /\ verdict = "none" /\ calls = 0

Open == /\ verdict # "open" /\ calls < MaxCalls
        /\ todo' \in Batches
        /\ answers' = <<>> /\ verdict' = "open" /\ calls' = calls + 1

(* A repeated item is taken once. *)
Skip == /\ verdict = "open" /\ todo # <<>> /\ Answered(Head(todo))
        /\ todo' = Tail(todo)
        /\ UNCHANGED <<answers, verdict, calls>>

Answer == /\ verdict = "open" /\ todo # <<>> /\ ~Answered(Head(todo))
          /\ \E a \in Answers :
                answers' = Append(answers, [item |-> Head(todo), answer |-> a])
          /\ todo' = Tail(todo)
          /\ UNCHANGED <<verdict, calls>>

Close == /\ verdict = "open" /\ todo = <<>>
         /\ verdict' = IF \E i \in 1..Len(answers) : answers[i].answer \in Bad
                       THEN "failed" ELSE "passed"
         /\ UNCHANGED <<todo, answers, calls>>

Next == Open \/ Skip \/ Answer \/ Close

(* The runner works on while a call is open; nobody owes it a new call. *)
Spec == Init /\ [][Next]_vars /\ WF_vars(Skip \/ Answer \/ Close)
=============================================================================
