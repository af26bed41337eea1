------------------------------- MODULE Asking -------------------------------
(***************************************************************************)
(* The checks are functions: a document, an estate and what a solver can   *)
(* do go in, verdicts come out and nothing is kept.  Their modules         *)
(* therefore share one variable, the question last put to a check together *)
(* with its answer, and each adds the questions that can be asked of it.   *)
(***************************************************************************)
VARIABLE asked

Nothing == [of |-> "nothing"]
Unasked == asked = Nothing
=============================================================================
