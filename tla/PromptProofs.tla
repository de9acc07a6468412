---------------------------- MODULE PromptProofs ----------------------------
(***************************************************************************)
(* Proof, for every program of system calls, every set of lines and every  *)
(* way of typing them, that each call that a prompt lets through has cost  *)
(* the user a character.                                                   *)
(***************************************************************************)
EXTENDS Prompt, TLAPS

(* The characters that are still to be read are accounted for as well:     *)
(* without them, what is left in the buffer could answer any number of     *)
(* prompts.                                                                *)
PaidInv ==
  /\ prog \in Seq(Nat)
  /\ event \in Nat \ {0} /\ typed \in Nat
  /\ stage # "done" => event \in 1 .. Len(prog)
  /\ stage \in {"guest", "prompt", "call", "done", "quit"}
  /\ tty \in Seq(Characters) /\ buffer \in Seq(Characters)
  /\ eof \in BOOLEAN
  /\ ~eof => Passed + Len(buffer) + Len(tty) <= typed

LEMMA PaidInit == Init => PaidInv
  <1> SUFFICES ASSUME Init PROVE PaidInv
    OBVIOUS
  <1>1. /\ event = 1 /\ stage = "guest" /\ tty = <<>> /\ buffer = <<>>
        /\ eof = FALSE /\ typed = 0
    BY DEF Init
  <1>2. Passed = 0
    BY <1>1 DEF Passed
  <1>3. /\ tty \in Seq(Characters) /\ buffer \in Seq(Characters)
        /\ Len(tty) = 0 /\ Len(buffer) = 0
    BY <1>1
  <1>4. Passed + Len(buffer) + Len(tty) <= typed
    BY <1>1, <1>2, <1>3
  <1>5. prog \in Seq(Nat)
    BY PromptAssumption DEF Init
  <1>6. event \in 1 .. Len(prog)
    BY <1>1, <1>5 DEF Init
  <1>7. event \in Nat \ {0} /\ typed \in Nat
    BY <1>1
  <1> QED
    BY <1>1, <1>3, <1>4, <1>5, <1>6, <1>7 DEF PaidInv

LEMMA PaidStep == PaidInv /\ [Next]_vars => PaidInv'
  <1> SUFFICES ASSUME PaidInv, [Next]_vars
               PROVE  PaidInv'
    OBVIOUS
  <1>0. Passed \in Nat /\ Len(buffer) \in Nat /\ Len(tty) \in Nat
    BY DEF PaidInv, Passed
  <1>1. CASE user_types
    <2>1. UNCHANGED <<prog, event, stage, buffer>> /\ Passed' = Passed
      BY <1>1 DEF user_types, Passed
    <2>2. CASE UNCHANGED <<tty, typed>> /\ eof' = TRUE
      BY <2>1, <2>2 DEF PaidInv
    <2>3. ASSUME NEW l \in Lines, tty' = tty \o l, typed' = typed + Len(l),
                 UNCHANGED eof
          PROVE  PaidInv'
      <3>1. l \in Seq(Characters) /\ Len(l) \in Nat
        BY PromptAssumption
      <3>2. tty' \in Seq(Characters) /\ Len(tty') = Len(tty) + Len(l)
        BY <2>3, <3>1 DEF PaidInv
      <3>3. ~eof' => Passed' + Len(buffer') + Len(tty') <= typed'
        BY <1>0, <2>1, <2>3, <3>1, <3>2 DEF PaidInv
      <3>4. typed' \in Nat
        BY <2>3, <3>1 DEF PaidInv
      <3> QED
        BY <2>1, <2>3, <3>2, <3>3, <3>4 DEF PaidInv
    <2> QED
      BY <1>1, <2>2, <2>3 DEF user_types
  <1>2. CASE reach_prompt
    <2>1. Passed' = Passed
      BY <1>2 DEF reach_prompt, Passed
    <2> QED
      BY <1>2, <2>1 DEF reach_prompt, PaidInv
  <1>3. CASE getchar
    <2>1. /\ stage = "prompt" /\ stage' \in {"quit", "call"}
          /\ UNCHANGED <<prog, event, eof, typed>>
      BY <1>3 DEF getchar, getchar_eof, Answered
    <2>2. Passed = event - 1 /\ Passed' = Passed + 1
      BY <2>1 DEF Passed, PaidInv
    <2>3. CASE buffer # <<>> /\ buffer' = Tail(buffer) /\ UNCHANGED tty
      <3>1. buffer' \in Seq(Characters) /\ Len(buffer') = Len(buffer) - 1
        BY <2>3 DEF PaidInv
      <3>2. ~eof' => Passed' + Len(buffer') + Len(tty') <= typed'
        BY <1>0, <2>1, <2>2, <2>3, <3>1 DEF PaidInv
      <3> QED
        BY <2>1, <2>3, <3>1, <3>2 DEF PaidInv
    <2>4. ASSUME buffer = <<>>, NEW n \in 1 .. Len(tty),
                 buffer' = Tail(SubSeq(tty, 1, n)),
                 tty' = SubSeq(tty, n + 1, Len(tty))
          PROVE  PaidInv'
      <3>1. SubSeq(tty, 1, n) \in Seq(Characters) /\ Len(SubSeq(tty, 1, n)) = n
        BY <1>0, <2>4 DEF PaidInv
      <3>2. SubSeq(tty, 1, n) # <<>>
        BY <1>0, <2>4, <3>1
      <3>3. buffer' \in Seq(Characters) /\ Len(buffer') = n - 1
        BY <2>4, <3>1, <3>2
      <3>4. tty' \in Seq(Characters) /\ Len(tty') = Len(tty) - n
        BY <1>0, <2>4 DEF PaidInv
      <3>5. Len(buffer) = 0
        BY <2>4
      <3>6. ~eof' => Passed' + Len(buffer') + Len(tty') <= typed'
        BY <1>0, <2>1, <2>2, <3>3, <3>4, <3>5 DEF PaidInv
      <3> QED
        BY <2>1, <3>3, <3>4, <3>6 DEF PaidInv
    <2>5. CASE eof /\ UNCHANGED <<tty, buffer>>
      BY <2>1, <2>5 DEF PaidInv
    <2> QED
      BY <1>3, <2>3, <2>4, <2>5 DEF getchar, getchar_eof, Consume
  <1>4. CASE answer
    <2>1. /\ stage = "call" /\ stage' \in {"done", "guest"}
          /\ event' = event + 1 /\ UNCHANGED <<buffer, eof, typed>>
      BY <1>4 DEF answer
    <2>2. Passed' = Passed
      BY <2>1 DEF Passed, PaidInv
    <2>3. tty' \in Seq(Characters) /\ Len(tty') <= Len(tty)
      <3>1. CASE UNCHANGED tty
        BY <1>0, <3>1 DEF PaidInv
      <3>2. ASSUME NEW n \in 1 .. Len(tty), prog[event] > 0,
                   tty' = SubSeq(tty, (IF prog[event] < n THEN prog[event]
                                       ELSE n) + 1, Len(tty))
            PROVE  tty' \in Seq(Characters) /\ Len(tty') <= Len(tty)
        <4>1. prog[event] \in Nat
          BY <2>1 DEF PaidInv
        <4>2. PICK m : m = IF prog[event] < n THEN prog[event] ELSE n
          OBVIOUS
        <4>3. m \in 1 .. Len(tty)
          BY <1>0, <3>2, <4>1, <4>2
        <4>4. tty' = SubSeq(tty, m + 1, Len(tty))
          BY <3>2, <4>2
        <4> QED
          BY <1>0, <4>3, <4>4 DEF PaidInv
      <3> QED
        BY <1>4, <3>1, <3>2 DEF answer, read_stdin
    <2>4. ~eof' => Passed' + Len(buffer') + Len(tty') <= typed'
      BY <1>0, <2>1, <2>2, <2>3 DEF PaidInv
    <2>5. stage' # "done" => event' \in 1 .. Len(prog')
      BY <1>4, <2>1 DEF answer, PaidInv
    <2> QED
      BY <1>4, <2>1, <2>3, <2>4, <2>5 DEF answer, PaidInv
  <1>5. CASE Over \/ UNCHANGED vars
    BY <1>5 DEF Over, vars, PaidInv, Passed
  <1> QED
    BY <1>1, <1>2, <1>3, <1>4, <1>5 DEF Next, Hvexec

(* In interactive mode each call that a prompt has let through has cost a  *)
(* character of its own, as long as the input has not ended: for any       *)
(* number of calls, any lines, typed ahead or when asked, and with guests  *)
(* that read standard input themselves, whole lines or parts of them       *)
(* (emu_syscall.c, the getchar calls of the four handlers).                *)
THEOREM OneCharacterPerCall == Spec => []CallsPaidFor
  <1>1. PaidInv => CallsPaidFor
    <2> SUFFICES ASSUME PaidInv, ~eof
                 PROVE  Passed <= typed
      BY DEF CallsPaidFor
    <2>1. Passed \in Nat /\ Len(buffer) \in Nat /\ Len(tty) \in Nat
      BY DEF PaidInv, Passed
    <2> QED
      BY <2>1 DEF PaidInv
  <1> QED
    BY <1>1, PaidInit, PaidStep, PTL DEF Spec

=============================================================================
