------------------------------- MODULE Prompt -------------------------------
(***************************************************************************)
(* Interactive mode (-i): each system call of the guest waits in getchar   *)
(* for the user before it is answered.  getchar reads standard input       *)
(* through a buffer that takes a line at a time from the terminal; a read  *)
(* call of the guest on descriptor 0 takes its characters from the same    *)
(* terminal past that buffer, and may leave the rest of a line there.      *)
(*                                                                         *)
(* The user types lines whenever he likes, asked or not, or ends the       *)
(* input.                                                                  *)
(***************************************************************************)
EXTENDS Integers, Sequences

CONSTANTS
  Programs,   \* the guest's system calls: how many characters each asks of
              \*   standard input, 0 for one that does not read it
  Lines,      \* lines a user may type: characters, the last one a newline
  Ahead       \* bound on the characters in the terminal when a line is typed

Characters == {"y", "q", "newline"}

ASSUME PromptAssumption ==
  /\ Programs \subseteq Seq(Nat) /\ Ahead \in Nat
  /\ \A l \in Lines : l \in Seq(Characters) /\ l # <<>>
                      /\ \A k \in 1 .. Len(l) :
                           l[k] = "newline" <=> k = Len(l)

VARIABLES
  prog,    \* the guest's system calls
  event,   \* number of the call that is handled or comes next
  stage,   \* "guest" on the way to the call, "prompt" in getchar, "call"
           \*   answering, "done" or "quit"
  tty,     \* characters typed and not read yet
  buffer,  \* stdin's buffer
  eof,     \* the user has ended the input
  typed    \* ghost: number of characters typed

vars == <<prog, event, stage, tty, buffer, eof, typed>>

-----------------------------------------------------------------------------
(* The user (external).                                                    *)

user_types ==
  /\ stage \notin {"done", "quit"} /\ ~eof
  /\ \/ /\ Len(tty) <= Ahead
        /\ \E l \in Lines : tty' = tty \o l /\ typed' = typed + Len(l)
        /\ UNCHANGED eof
     \/ eof' = TRUE /\ UNCHANGED <<tty, typed>>
  /\ UNCHANGED <<prog, event, stage, buffer>>

(* The terminal (external) hands out no more than a line at a time.        *)
FirstLine(n) == tty[n] = "newline" /\ \A k \in 1 .. n - 1 : tty[k] # "newline"

-----------------------------------------------------------------------------

(* The guest comes to its next system call, and a handler to its getchar.  *)
reach_prompt ==
  /\ stage = "guest"
  /\ stage' = "prompt"
  /\ UNCHANGED <<prog, event, tty, buffer, eof, typed>>

(* input = getchar(); 'q' ends the run loop before anything was done, any  *)
(* other character and the end of the input, which is none, go on.         *)
Answered(ch) == stage' = IF ch = "q" THEN "quit" ELSE "call"

(* Variant: the end of the input is asked for again.                       *)
getchar_eof_again ==
  /\ eof /\ tty = <<>>
  /\ UNCHANGED <<stage, tty, buffer>>

getchar_eof ==
  /\ eof /\ tty = <<>>
  /\ Answered("eof")
  /\ UNCHANGED <<tty, buffer>>

(* Variant: a character read stays in the buffer.                          *)
Consume_none(line) == line
Consume(line) == Tail(line)

getchar ==
  /\ stage = "prompt"
  /\ \/ /\ buffer # <<>>
        /\ Answered(Head(buffer))
        /\ buffer' = Consume(buffer) /\ UNCHANGED tty
     \/ /\ buffer = <<>>
        /\ \E n \in 1 .. Len(tty) :
             /\ FirstLine(n)
             /\ Answered(tty[1])
             /\ buffer' = Consume(SubSeq(tty, 1, n))
             /\ tty' = SubSeq(tty, n + 1, Len(tty))
     \/ buffer = <<>> /\ getchar_eof
  /\ UNCHANGED <<prog, event, eof, typed>>

(* read on descriptor 0 waits for the terminal, whatever the buffer still  *)
(* holds, and takes the line or as much of it as was asked for.            *)
read_stdin(nbyte) ==
  \/ \E n \in 1 .. Len(tty) :
       /\ FirstLine(n)
       /\ tty' = SubSeq(tty, (IF nbyte < n THEN nbyte ELSE n) + 1, Len(tty))
  \/ eof /\ tty = <<>> /\ UNCHANGED tty

(* The call is answered, by the plugin or by the host, and the guest runs  *)
(* on to the next.                                                         *)
answer ==
  /\ stage = "call"
  /\ \/ prog[event] = 0 /\ UNCHANGED tty
     \/ prog[event] > 0 /\ read_stdin(prog[event])
  /\ event' = event + 1
  /\ stage' = IF event = Len(prog) THEN "done" ELSE "guest"
  /\ UNCHANGED <<prog, buffer, eof, typed>>

-----------------------------------------------------------------------------

Init ==
  /\ prog \in Programs /\ prog # <<>>
  /\ event = 1 /\ stage = "guest"
  /\ tty = <<>> /\ buffer = <<>> /\ eof = FALSE
  /\ typed = 0

Over == stage \in {"done", "quit"} /\ UNCHANGED vars

Hvexec == reach_prompt \/ getchar \/ answer

Next == user_types \/ Hvexec \/ Over

(* hvexec takes its steps; nothing is assumed of the user.                 *)
Spec == Init /\ [][Next]_vars /\ WF_vars(Hvexec)

-----------------------------------------------------------------------------

(* -i pauses for input on each interposition event: when a handler comes   *)
(* to its getchar, no character is left from what answered an earlier one. *)
(* (Lines that were typed ahead and wait in the terminal, which keeps them *)
(* for any program, are left out of account; they are no pause either.)    *)
PausesForInput == [][stage = "guest" /\ stage' = "prompt" => buffer = <<>>]_vars

(* Prompts that have let the guest go on, or ended the run.                *)
Passed == IF stage \in {"call", "quit"} THEN event ELSE event - 1

(* However the user types, ahead of the prompts or several characters in a *)
(* line, and whatever the guest reads of it itself: as long as the input   *)
(* has not ended each call costs a character of its own.  No character     *)
(* answers two prompts, through stdin's buffer or past it, so that a user  *)
(* who has typed n characters has let through n calls at the most.         *)
CallsPaidFor == ~eof => Passed <= typed

(* hvexec waits for the user, with nothing typed that it could take.       *)
UserTurn == /\ \/ stage = "prompt" /\ buffer = <<>>
               \/ stage = "call" /\ prog[event] > 0
            /\ tty = <<>> /\ ~eof

(* Again and again the user is asked, or all calls are answered, or the    *)
(* user has quit: hvexec itself never stalls, and the end of the input     *)
(* never blocks a prompt or a read.                                        *)
Settles == []<>(UserTurn \/ stage \in {"done", "quit"})

=============================================================================
