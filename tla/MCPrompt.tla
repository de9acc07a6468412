------------------------------ MODULE MCPrompt ------------------------------
(***************************************************************************)
(* Instances of Prompt for TLC.                                            *)
(***************************************************************************)
EXTENDS Prompt

CONSTANTS
  MaxCalls   \* bound on the guest's system calls

(* A read asks for one character, which splits the longer lines, or for    *)
(* more than a line has.                                                   *)
MCPrograms == UNION {[1 .. n -> {0, 1, 4}] : n \in 1 .. MaxCalls}
MCLines == {<<"newline">>, <<"y", "newline">>, <<"q", "newline">>,
            <<"y", "q", "newline">>}

=============================================================================
