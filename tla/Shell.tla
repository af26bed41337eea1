------------------------------- MODULE Shell --------------------------------
(***************************************************************************)
(* The shell-command classifier (bash_mutation.py): a command is cut at    *)
(* its unquoted separators, and each segment is classified on its own.     *)
(* A command is a sequence of words; a word stands for what the classifier *)
(* tells apart.                                                            *)
(***************************************************************************)
EXTENDS Naturals, Sequences, SequencesExt

Separators == {";", "&&"}               \* ; | && || and newline
Quotes == {"'", "dquote"}
Mutating == {"delete", "create"}        \* MUTATING_LEAF_VERBS
ReadOnly == {"list", "describe"}        \* READ_ONLY_LEAF_VERBS
Wrappers == {"sudo", "VAR=1"}           \* a wrapper, or an assignment
Clis == {"gcloud", "terraform"}         \* KNOWN_CLIS but the http clients
HttpClis == {"curl"}
Flags == {"--flag", "-XPOST", "-XGET", "-XTRACE", "--data"}
Methods == {"-XPOST", "-XGET", "-XTRACE"}
Host == "googleapis.com"

-----------------------------------------------------------------------------
(* A separator inside quotes does not separate; a quote closes only its own *)
(* kind.                                                                   *)
SplitSegments(command) ==
    LET Step(s, c) ==
          CASE s.quote # "" -> [s EXCEPT !.buf = Append(@, c),
                                         !.quote = IF c = s.quote THEN "" ELSE @]
            [] c \in Quotes -> [s EXCEPT !.buf = Append(@, c), !.quote = c]
            [] c \in Separators -> [s EXCEPT !.done = Append(@, s.buf), !.buf = <<>>]
            [] OTHER -> [s EXCEPT !.buf = Append(@, c)]
        end == FoldLeft(Step, [done |-> <<>>, buf |-> <<>>, quote |-> ""], command)
    IN Append(end.done, end.buf)
Untokenizable == <<"<unbalanced>">>

(* What the shell's own tokenizer makes of a segment (shlex): a quoted run *)
(* is one word, the word it quotes when that is a single one.              *)
Tokens(segment) ==
    LET Step(s, c) ==
          CASE s.quote = "" /\ c \in Quotes -> [s EXCEPT !.quote = c, !.run = <<>>]
            [] s.quote = "" -> [s EXCEPT !.out = Append(@, c)]
            [] c = s.quote -> [s EXCEPT !.quote = "",
                                  !.out = Append(@, IF Len(s.run) = 1 THEN s.run[1]
                                                    ELSE "text")]
            [] OTHER -> [s EXCEPT !.run = Append(@, c)]
        end == FoldLeft(Step, [out |-> <<>>, run |-> <<>>, quote |-> ""], segment)
    IN IF end.quote = "" THEN end.out ELSE Untokenizable

(* Leading assignments and wrappers are looked through, in any order. *)
StripWrappers(tokens) ==
    LET kept == {i \in 1..Len(tokens) : tokens[i] \notin Wrappers}
    IN IF kept = {} THEN <<>>
       ELSE SubSeq(tokens, CHOOSE i \in kept : \A j \in kept : i <= j, Len(tokens))

(* The words before the first flag; the first of them that is a known verb *)
(* is the leaf, else the last.                                             *)
ScanCli(argv) ==
    LET flags == {i \in 2..Len(argv) : argv[i] \in Flags}
        end == IF flags = {} THEN Len(argv)
               ELSE (CHOOSE i \in flags : \A j \in flags : i <= j) - 1
        leading == SubSeq(argv, 2, end)
        verbs == {i \in 1..Len(leading) : leading[i] \in Mutating \cup ReadOnly}
        leaf == IF verbs = {} THEN leading[Len(leading)]
                ELSE leading[CHOOSE i \in verbs : \A j \in verbs : i <= j]
    IN CASE leading = <<>> -> "none"
         [] leading # <<>> /\ leaf \in ReadOnly -> "none"
         [] leading # <<>> /\ leaf \in Mutating -> "mutating"
         [] OTHER -> "unrecognized"

(* A call to the cloud's own endpoint: data, or a writing method, mutates; *)
(* the last method given counts.                                           *)
ScanHttp(argv, segment) ==
    LET given == SelectSeq(argv, LAMBDA t : t \in Methods)
        method == IF given = <<>> THEN "none" ELSE given[Len(given)]
        data == \E i \in 1..Len(argv) : argv[i] = "--data"
    IN CASE ~(\E i \in 1..Len(segment) : segment[i] = Host) -> "none"
         [] data \/ method = "-XPOST" -> "mutating"
         [] method \in {"none", "-XGET"} -> "none"
         [] OTHER -> "unrecognized"

ScanSegment(segment) ==
    LET tokens == Tokens(segment)
        argv == StripWrappers(tokens)
    IN CASE segment = <<>> -> "none"
         [] segment # <<>> /\ tokens = Untokenizable -> "unrecognized"
         [] argv = <<>> -> "none"
         [] argv # <<>> /\ argv[1] \in Clis -> ScanCli(argv)
         [] argv # <<>> /\ argv[1] \in HttpClis -> ScanHttp(argv, segment)
         [] OTHER -> "none"

(* Each segment answers for itself: the findings, in order. *)
ScanCommand(command) ==
    SelectSeq([i \in 1..Len(SplitSegments(command)) |->
                  ScanSegment(SplitSegments(command)[i])],
              LAMBDA finding : finding # "none")
=============================================================================
