------------------------------- MODULE Native -------------------------------
(***************************************************************************)
(* The machine a guest program expects: its instructions take effect one   *)
(* after the other, each exactly once, until the program or its host stops *)
(* it.  The run loop of Hvexec (Vcpu) implements it for the instructions   *)
(* it supports.                                                            *)
(***************************************************************************)
EXTENDS Integers, Sequences

VARIABLES
  prog,    \* the program, a sequence of instructions
  trace,   \* positions of the instructions that took effect, in order
  over     \* no further instruction will take effect

vars == <<prog, trace, over>>

Init ==
  /\ trace = <<>>
  /\ over = FALSE

Execute ==
  /\ ~over
  /\ Len(trace) < Len(prog)
  /\ trace' = Append(trace, Len(trace) + 1)
  /\ UNCHANGED <<prog, over>>

Stop ==
  /\ ~over
  /\ over' = TRUE
  /\ UNCHANGED <<prog, trace>>

Next == Execute \/ Stop

Spec == Init /\ [][Next]_vars

=============================================================================
