----------------------------- MODULE VcpuProofs -----------------------------
(***************************************************************************)
(* Proofs about the run loop, for guest programs of any length, every set  *)
(* of hooked calls and every order of exits and interrupts.                *)
(***************************************************************************)
EXTENDS Vcpu, TLAPS

Registers == [rax : Rax, rcx : Nat, rdx : {"zero", "efer", "long_mode"},
              buf : {"ok", "bad"}]
Answered == [at : Nat, call : Calls, by : Seq({"plugin", "declined", "host"})]
Made(n) == [at : 1 .. n, call : Rax]

(* Records have the fields they are used with; the configuration is the    *)
(* one chosen at the start.                                                *)
ShapeInv ==
  /\ conf \in [prog : Programs, hooks : Hooks, interactive : BOOLEAN]
  /\ rip \in [at : Nat, off : BOOLEAN]
  /\ regs \in Registers
  /\ vmcs = [efer |-> vmcs.efer, cr0 |-> vmcs.cr0, shadow |-> vmcs.shadow,
             lma |-> vmcs.lma]
  /\ vmcs.lma \in BOOLEAN
  /\ trace \in Seq(Nat)
  /\ calls \in Seq(Answered)

(* rip and rcx point into the program; only inside the last instruction    *)
(* can rip be behind it.                                                   *)
RangeInv ==
  /\ mode \in {"host", "guest", "exit", "stopped"}
  /\ rip.at \in 1 .. Len(conf.prog) + 1
  /\ rip.at = Len(conf.prog) + 1 => rip.off
  /\ regs.rcx \in 0 .. Len(conf.prog)
  /\ resident \subseteq 1 .. Len(conf.prog)
  /\ \A k \in DOMAIN trace : trace[k] \in 1 .. Len(conf.prog)
  /\ made \in Seq(Made(Len(conf.prog)))

(* An exit that a handler takes for an instruction's is that of the        *)
(* instruction at rip.                                                     *)
ExitInv ==
  mode = "exit" =>
    \/ exit.reason \in {"IRQ", "EXC_NMI", "TRIPLE_FAULT"}
    \/ /\ ~rip.off /\ Cur.op \notin {"mov", "mov_rcx"}
       /\ exit.reason = Reason(Cur.op)

VInv == ShapeInv /\ RangeInv /\ ExitInv

-----------------------------------------------------------------------------
(* Programs and positions.                                                 *)

LEMMA ProgramType ==
  ASSUME ShapeInv
  PROVE  /\ conf.prog \in Programs /\ conf.prog \in Seq(Instructions)
         /\ Len(conf.prog) \in Nat \ {0}
         /\ conf.prog[Len(conf.prog)].op = "hlt"
         /\ conf.hooks \subseteq Calls /\ conf.interactive \in BOOLEAN
  <1>1. /\ conf.prog \in Programs /\ conf.hooks \in Hooks
        /\ conf.interactive \in BOOLEAN
    BY DEF ShapeInv
  <1>2. conf.prog \in Seq(Instructions) /\ conf.prog # <<>>
    BY <1>1, VcpuAssumption
  <1>3. Len(conf.prog) \in Nat \ {0}
    BY <1>2
  <1> QED
    BY <1>1, <1>2, <1>3, VcpuAssumption

LEMMA InstructionType ==
  ASSUME NEW c \in Instructions
  PROVE  /\ c.op \in Ops
         /\ c.op = "mov" => c.rax \in Rax /\ c.buf \in {"ok", "bad"}
         /\ c.op = "mov_cr0" => c.rex \in BOOLEAN
  BY DEF Instructions, Ops

LEMMA LengthType ==
  ASSUME NEW c \in Instructions
  PROVE  Length(c) \in 1 .. 7 /\ (c.op = "hlt" => Length(c) = 1)
  BY InstructionType DEF Ops, Length

(* The instruction at a rip that does not lie inside one.                  *)
LEMMA CurType ==
  ASSUME ShapeInv, RangeInv, ~rip.off
  PROVE  /\ rip.at \in 1 .. Len(conf.prog) /\ Cur \in Instructions
         /\ Cur.op \in Ops /\ Length(Cur) \in 1 .. 7
         /\ Cur.op # "hlt" => rip.at < Len(conf.prog)
  <1>1. /\ rip.at \in 1 .. Len(conf.prog) + 1 /\ rip.at # Len(conf.prog) + 1
        /\ Len(conf.prog) \in Nat /\ conf.prog \in Seq(Instructions)
    BY ProgramType DEF RangeInv
  <1>2. rip.at \in 1 .. Len(conf.prog)
    BY <1>1
  <1>3. Cur \in Instructions
    BY <1>1, <1>2 DEF Cur
  <1>4. Cur.op # "hlt" => rip.at # Len(conf.prog)
    BY ProgramType DEF Cur
  <1> QED
    BY <1>1, <1>2, <1>3, <1>4, InstructionType, LengthType

(* Adding to rip the bytes of an instruction other than hlt, or two bytes  *)
(* to any, leaves it in range.                                             *)
LEMMA PlusType ==
  ASSUME ShapeInv, RangeInv, ~rip.off, NEW n \in Nat,
         Cur.op # "hlt" \/ n = 2
  PROVE  /\ Plus(n) \in [at : Nat, off : BOOLEAN]
         /\ Plus(n).at \in 1 .. Len(conf.prog) + 1
         /\ Plus(n).at = Len(conf.prog) + 1 => Plus(n).off
  <1>1. /\ rip.at \in 1 .. Len(conf.prog) /\ Length(Cur) \in 1 .. 7
        /\ Cur.op # "hlt" => rip.at < Len(conf.prog)
        /\ Cur.op = "hlt" => Length(Cur) = 1 /\ Len(conf.prog) \in Nat
        /\ Len(conf.prog) \in Nat
    BY CurType, LengthType, ProgramType
  <1>2. /\ Plus(n).at = IF n < Length(Cur) THEN rip.at ELSE rip.at + 1
        /\ Plus(n).off = (n # Length(Cur))
    BY DEF Plus
  <1>3. Plus(n).at \in 1 .. Len(conf.prog) + 1
    BY <1>1, <1>2
  <1>4. Plus(n) \in [at : Nat, off : BOOLEAN]
    <2>1. Plus(n).at \in Nat
      BY <1>1, <1>3
    <2>2. Plus(n) = [at |-> Plus(n).at, off |-> (n # Length(Cur))]
      BY <1>2 DEF Plus
    <2>3. \A a \in Nat, b \in BOOLEAN :
            [at |-> a, off |-> b] \in [at : Nat, off : BOOLEAN]
      OBVIOUS
    <2>4. (n # Length(Cur)) \in BOOLEAN
      OBVIOUS
    <2> QED
      BY <2>1, <2>2, <2>3, <2>4, Zenon
  <1>5. CASE Cur.op = "hlt"
    <2>1. n # Length(Cur)
      BY <1>1, <1>5
    <2> QED
      BY <1>2, <1>3, <1>4, <2>1
  <1>6. CASE Cur.op # "hlt"
    <2>1. Plus(n).at # Len(conf.prog) + 1
      BY <1>1, <1>2, <1>6
    <2> QED
      BY <1>3, <1>4, <2>1
  <1> QED
    BY <1>5, <1>6

(* The instruction an exit of one of these kinds is about.                 *)
LEMMA HandledOp ==
  ASSUME VInv, mode = "exit",
         exit.reason \in {"RDMSR", "WRMSR", "MOV_CR", "CPUID", "VMCALL", "HLT"}
  PROVE  /\ ~rip.off
         /\ exit.reason = "RDMSR" => Cur.op = "rdmsr"
         /\ exit.reason = "WRMSR" => Cur.op = "wrmsr"
         /\ exit.reason = "MOV_CR" => Cur.op \in {"mov_cr0", "lmsw", "mov_cr4", "mov_cr8"}
         /\ exit.reason = "CPUID" => Cur.op = "cpuid"
         /\ exit.reason = "VMCALL" => Cur.op = "vmcall"
         /\ exit.reason = "HLT" => Cur.op = "hlt"
  <1>1. /\ ~rip.off /\ exit.reason = Reason(Cur.op)
        /\ Cur.op \notin {"mov", "mov_rcx"}
    BY DEF VInv, ExitInv
  <1>2. Cur.op \in Ops \ {"mov", "mov_rcx"}
    BY <1>1, CurType DEF VInv
  <1>3. ASSUME NEW op \in Ops \ {"mov", "mov_rcx"}
        PROVE  /\ Reason(op) = "RDMSR" => op = "rdmsr"
               /\ Reason(op) = "WRMSR" => op = "wrmsr"
               /\ Reason(op) = "MOV_CR"
                    => op \in {"mov_cr0", "lmsw", "mov_cr4", "mov_cr8"}
               /\ Reason(op) = "CPUID" => op = "cpuid"
               /\ Reason(op) = "VMCALL" => op = "vmcall"
               /\ Reason(op) = "HLT" => op = "hlt"
    BY DEF Reason, Ops
  <1> QED
    BY <1>1, <1>2, <1>3, Zenon

(* Of those who are asked for an answer the last gives it.                 *)
LEMMA AnswerShape ==
  ASSUME NEW call, NEW a \in Answers(call)
  PROVE  a \in Seq({"plugin", "declined", "host"}) /\ Once(a)
  <1>1. CASE a = <<"plugin">>
    <2>1. DOMAIN a = {1} /\ a[1] = "plugin"
      BY <1>1
    <2> QED
      BY <1>1, <2>1 DEF Once
  <1>2. CASE a = <<"host">>
    <2>1. DOMAIN a = {1} /\ a[1] = "host"
      BY <1>2
    <2> QED
      BY <1>2, <2>1 DEF Once
  <1>3. CASE a = <<"declined", "host">>
    <2>1. DOMAIN a = {1, 2} /\ a[1] = "declined" /\ a[2] = "host"
      BY <1>3
    <2>2. \A j \in DOMAIN a : a[j] # "declined" <=> j = 2
      BY <2>1
    <2>3. Once(a)
      BY <2>1, <2>2 DEF Once
    <2> QED
      BY <1>3, <2>3
  <1> QED
    BY <1>1, <1>2, <1>3 DEF Answers

-----------------------------------------------------------------------------

LEMMA VInit == Init => VInv
  <1> SUFFICES ASSUME Init PROVE VInv
    OBVIOUS
  <1>1. /\ conf \in [prog : Programs, hooks : Hooks, interactive : BOOLEAN]
        /\ mode = "host" /\ resident = {} /\ trace = <<>>
        /\ made = <<>> /\ calls = <<>>
        /\ rip = [at |-> 1, off |-> FALSE]
        /\ regs = [rax |-> "zero", rcx |-> 0, rdx |-> "zero", buf |-> "ok"]
    BY DEF Init, vcpu_setup_ia32
  <1>2. /\ rip \in [at : Nat, off : BOOLEAN] /\ rip.at = 1
        /\ regs \in Registers /\ regs.rcx = 0
    BY <1>1 DEF Registers, Rax
  <1>3. /\ vmcs = [efer |-> vmcs.efer, cr0 |-> vmcs.cr0,
                   shadow |-> vmcs.shadow, lma |-> vmcs.lma]
        /\ vmcs.lma \in BOOLEAN
    BY DEF Init, vcpu_setup_ia32, vmcs_setup
  <1>4. /\ trace \in Seq(Nat) /\ calls \in Seq(Answered) /\ DOMAIN trace = {}
        /\ made \in Seq(Made(Len(conf.prog)))
    BY <1>1
  <1>5. ShapeInv
    BY <1>1, <1>2, <1>3, <1>4 DEF ShapeInv
  <1>6. Len(conf.prog) \in Nat \ {0}
    BY <1>5, ProgramType
  <1>7. RangeInv
    BY <1>1, <1>2, <1>4, <1>6 DEF RangeInv
  <1>8. ExitInv
    BY <1>1 DEF ExitInv
  <1> QED
    BY <1>5, <1>7, <1>8 DEF VInv

LEMMA AppendTrace ==
  ASSUME VInv, UNCHANGED conf, NEW k \in 1 .. Len(conf.prog),
         trace' = Append(trace, k)
  PROVE  /\ trace' \in Seq(Nat)
         /\ \A j \in DOMAIN trace' : trace'[j] \in 1 .. Len(conf.prog)
  <1>1. trace \in Seq(Nat) /\ k \in Nat
    BY ProgramType DEF VInv, ShapeInv
  <1>2. /\ trace' \in Seq(Nat) /\ DOMAIN trace' = 1 .. Len(trace) + 1
        /\ DOMAIN trace = 1 .. Len(trace)
    BY <1>1
  <1>3. \A j \in 1 .. Len(trace) + 1 :
          trace'[j] = IF j = Len(trace) + 1 THEN k ELSE trace[j]
    BY <1>1
  <1>4. \A j \in 1 .. Len(trace) + 1 : j = Len(trace) + 1 \/ j \in 1 .. Len(trace)
    BY <1>1
  <1> QED
    BY <1>2, <1>3, <1>4 DEF VInv, RangeInv

(* What a step must see to: types and ranges of what it writes.            *)
LEMMA StepKeeps ==
  ASSUME VInv, UNCHANGED conf,
         mode' \in {"host", "guest", "exit", "stopped"},
         rip' \in [at : Nat, off : BOOLEAN],
         rip'.at \in 1 .. Len(conf.prog) + 1,
         rip'.at = Len(conf.prog) + 1 => rip'.off,
         regs' \in Registers, regs'.rcx \in 0 .. Len(conf.prog),
         vmcs' = [efer |-> vmcs'.efer, cr0 |-> vmcs'.cr0,
                  shadow |-> vmcs'.shadow, lma |-> vmcs'.lma],
         vmcs'.lma \in BOOLEAN,
         resident' \subseteq 1 .. Len(conf.prog),
         \/ UNCHANGED trace
         \/ \E k \in 1 .. Len(conf.prog) : trace' = Append(trace, k),
         made' \in Seq(Made(Len(conf.prog))),
         calls' \in Seq(Answered)
  PROVE  ShapeInv' /\ RangeInv'
  <1>1. /\ trace' \in Seq(Nat)
        /\ \A j \in DOMAIN trace' : trace'[j] \in 1 .. Len(conf.prog)
    <2>1. CASE UNCHANGED trace
      BY <2>1 DEF VInv, ShapeInv, RangeInv
    <2>2. CASE \E k \in 1 .. Len(conf.prog) : trace' = Append(trace, k)
      BY <2>2, AppendTrace
    <2> QED
      BY <2>1, <2>2
  <1>2. ShapeInv'
    BY <1>1 DEF VInv, ShapeInv
  <1>3. RangeInv'
    BY <1>1 DEF RangeInv
  <1> QED
    BY <1>2, <1>3

(* Every step of the guest's, of an interrupt and of the loop's keeps the  *)
(* invariant.                                                              *)
LEMMA VStep == VInv /\ Next => VInv'
  <1> SUFFICES ASSUME VInv, Next PROVE VInv'
    OBVIOUS
  <1> DEFINE N == Len(conf.prog)
             RipOK(r) == /\ r \in [at : Nat, off : BOOLEAN]
                         /\ r.at \in 1 .. N + 1
                         /\ r.at = N + 1 => r.off
             RegsOK(r) == r \in Registers /\ r.rcx \in 0 .. N
             VmcsOK(v) == /\ v = [efer |-> v.efer, cr0 |-> v.cr0,
                                  shadow |-> v.shadow, lma |-> v.lma]
                          /\ v.lma \in BOOLEAN
             TraceOK == \/ UNCHANGED trace
                        \/ \E k \in 1 .. N : trace' = Append(trace, k)
  <1>0. ShapeInv /\ RangeInv /\ N \in Nat
    BY ProgramType DEF VInv
  <1>1. /\ RipOK(rip) /\ RegsOK(regs) /\ VmcsOK(vmcs)
        /\ resident \subseteq 1 .. N /\ calls \in Seq(Answered)
        /\ made \in Seq(Made(N))
    BY <1>0 DEF ShapeInv, RangeInv
  (* A handler's step.                                                     *)
  <1>2. ASSUME mode' \in {"host", "stopped"}, UNCHANGED <<conf, resident>>,
               RipOK(rip'), RegsOK(regs'), VmcsOK(vmcs'), TraceOK,
               UNCHANGED made, calls' \in Seq(Answered)
        PROVE  VInv'
    <2>1. ShapeInv' /\ RangeInv'
      BY <1>1, <1>2, StepKeeps
    <2>2. ExitInv'
      BY <1>2 DEF ExitInv
    <2> QED
      BY <2>1, <2>2 DEF VInv
  (* Adding to rip at an instruction that is not hlt, and taking effect.   *)
  <1>3. ASSUME ~rip.off, Cur.op # "hlt", NEW n \in Nat
        PROVE  RipOK(Plus(n)) /\ (Retire => TraceOK)
    <2>1. RipOK(Plus(n))
      BY <1>0, <1>3, PlusType
    <2>2. Retire => TraceOK
      BY <1>0, <1>3, CurType DEF Retire
    <2> QED
      BY <2>1, <2>2
  <1> HIDE DEF RipOK, RegsOK, VmcsOK, TraceOK, N
  <1>4. CASE RunsOn
    <2>1. /\ mode = "guest" /\ ~rip.off /\ UNCHANGED <<conf, mode, vmcs, exit, resident, made, calls>>
          /\ rip' = Plus(Length(Cur)) /\ Retire
          /\ Cur.op \in {"mov", "mov_cr0", "lmsw", "mov_rcx", "touch"}
      BY <1>4 DEF RunsOn
    <2>2. Length(Cur) \in Nat /\ Cur \in Instructions
      BY <1>0, <2>1, CurType
    <2>3. RipOK(rip') /\ TraceOK
      BY <1>3, <2>1, <2>2
    <2>4. RegsOK(regs')
      <3>1. \/ /\ Cur.op = "mov"
               /\ regs' = [regs EXCEPT !.rax = Cur.rax, !.buf = Cur.buf]
            \/ regs' = [regs EXCEPT !.rcx = 0]
            \/ regs' = regs
        BY <1>4 DEF RunsOn
      <3>2. Cur.op = "mov" => Cur.rax \in Rax /\ Cur.buf \in {"ok", "bad"}
        BY <2>2, InstructionType
      <3>3. ASSUME NEW r \in Rax, NEW b \in {"ok", "bad"}
            PROVE  RegsOK([regs EXCEPT !.rax = r, !.buf = b])
        BY <1>1 DEF RegsOK, Registers
      <3>4. RegsOK([regs EXCEPT !.rcx = 0])
        BY <1>0, <1>1 DEF RegsOK, Registers
      <3> QED
        BY <1>1, <3>1, <3>2, <3>3, <3>4
    <2>5. ShapeInv' /\ RangeInv'
      BY <1>0, <1>1, <2>1, <2>3, <2>4, StepKeeps
      DEF RipOK, RegsOK, VmcsOK, TraceOK, N
    <2>6. ExitInv'
      BY <2>1 DEF ExitInv
    <2> QED
      BY <2>5, <2>6 DEF VInv
  <1>5. CASE Exits
    <2>1. /\ mode = "guest" /\ ~rip.off /\ mode' = "exit"
          /\ Cur.op \notin {"mov", "mov_rcx"}
          /\ UNCHANGED <<conf, rip, vmcs, trace, calls>>
          /\ exit'.reason = Reason(Cur.op)
      BY <1>5 DEF Exits
    <2>2. /\ rip.at \in 1 .. N /\ Cur.op \in Ops
          /\ Cur.op # "hlt" => rip.at < N
      BY <1>0, <2>1, CurType DEF N
    <2>3. resident' \subseteq 1 .. N
      BY <1>1, <1>5, <2>2 DEF Exits
    <2>4. RegsOK(regs')
      <3>1. SyscallOn => rip.at + 1 \in 0 .. N /\ rip.at + 1 \in Nat
        BY <1>0, <2>2 DEF SyscallOn
      <3>2. \/ SyscallOn /\ regs' = [regs EXCEPT !.rcx = rip.at + 1]
            \/ regs' = [regs EXCEPT !.rcx = 0]
            \/ regs' = [regs EXCEPT !.rcx = @]
        BY <1>5 DEF Exits
      <3> QED
        BY <1>0, <1>1, <3>1, <3>2 DEF RegsOK, Registers
    <2>5. made' \in Seq(Made(N))
      <3>1. regs.rax \in Rax
        BY <1>1 DEF RegsOK, Registers
      <3>2. [at |-> rip.at, call |-> regs.rax] \in Made(N)
        BY <2>2, <3>1 DEF Made
      <3>3. made' = made \/ made' = Append(made, [at |-> rip.at, call |-> regs.rax])
        BY <1>5 DEF Exits
      <3> QED
        BY <1>1, <3>2, <3>3
    <2>6. ShapeInv' /\ RangeInv'
      BY <1>0, <1>1, <2>1, <2>3, <2>4, <2>5, StepKeeps
      DEF RipOK, RegsOK, VmcsOK, TraceOK, N
    <2>7. ExitInv'
      BY <2>1 DEF ExitInv, Cur
    <2> QED
      BY <2>6, <2>7 DEF VInv
  <1>6. CASE Derailed
    <2>1. /\ mode = "guest" /\ UNCHANGED <<conf, regs, vmcs, resident, trace, made, calls>>
          /\ \/ exit'.reason = "TRIPLE_FAULT" /\ mode' = "exit" /\ rip' = rip
             \/ /\ \E k \in rip.at + 1 .. N : rip' = [at |-> k, off |-> FALSE]
                /\ mode' = "guest"
      BY <1>6 DEF Derailed, N
    <2>2. RipOK(rip')
      <3>1. ASSUME NEW k \in rip.at + 1 .. N PROVE RipOK([at |-> k, off |-> FALSE])
        <4>1. k \in Nat /\ k \in 1 .. N + 1 /\ k # N + 1
          BY <1>0, <1>1 DEF RipOK
        <4> QED
          BY <4>1 DEF RipOK
      <3> QED
        BY <1>1, <2>1, <3>1
    <2>3. ShapeInv' /\ RangeInv'
      BY <1>0, <1>1, <2>1, <2>2, StepKeeps
      DEF RipOK, RegsOK, VmcsOK, TraceOK, N
    <2>4. ExitInv'
      BY <2>1 DEF ExitInv
    <2> QED
      BY <2>3, <2>4 DEF VInv
  <1>7. CASE Interrupted
    <2>1. /\ exit'.reason \in {"IRQ", "EXC_NMI"} /\ mode' = "exit"
          /\ UNCHANGED <<conf, rip, regs, vmcs, resident, trace, made, calls>>
      BY <1>7 DEF Interrupted
    <2>2. ShapeInv' /\ RangeInv'
      BY <1>0, <1>1, <2>1, StepKeeps DEF RipOK, RegsOK, VmcsOK, TraceOK, N
    <2>3. ExitInv'
      BY <2>1 DEF ExitInv
    <2> QED
      BY <2>2, <2>3 DEF VInv
  <1>8. CASE hv_vcpu_run
    <2>1. /\ mode' \in {"guest", "stopped"}
          /\ UNCHANGED <<conf, rip, regs, vmcs, exit, resident, trace, made, calls>>
      BY <1>8 DEF hv_vcpu_run
    <2>2. ShapeInv' /\ RangeInv'
      BY <1>0, <1>1, <2>1, StepKeeps DEF RipOK, RegsOK, VmcsOK, TraceOK, N
    <2>3. ExitInv'
      BY <2>1 DEF ExitInv
    <2> QED
      BY <2>2, <2>3 DEF VInv
  <1>9. CASE vmx_exc_nmi
    <2>1. /\ mode' \in {"host", "stopped"} /\ (rip' = rip \/ rip' = Skip2)
          /\ UNCHANGED <<conf, resident, regs, vmcs, trace, made, calls>>
      BY <1>9 DEF vmx_exc_nmi, Resume, StopLoop
    <2>2. RipOK(Skip2)
      BY <1>0, <1>1, PlusType DEF Skip2, RipOK, N
    <2> QED
      BY <1>1, <1>2, <2>1, <2>2 DEF TraceOK
  <1>10. CASE vmx_irq_or_ept \/ vmx_hlt \/ vmx_unhandled
    <2>1. /\ mode' \in {"host", "stopped"}
          /\ UNCHANGED <<conf, resident, rip, regs, vmcs, trace, made, calls>>
      BY <1>10 DEF vmx_irq_or_ept, vmx_hlt, vmx_unhandled, Resume, StopLoop
    <2> QED
      BY <1>1, <1>2, <2>1 DEF TraceOK
  <1>11. CASE vmx_vmcall
    <2>1. /\ mode = "exit" /\ exit.reason = "VMCALL" /\ mode' = "host"
          /\ rip' = Plus(Length(Cur)) /\ Retire
          /\ UNCHANGED <<conf, resident, regs, vmcs, made, calls>>
      BY <1>11 DEF vmx_vmcall, Handles, Resume
    <2>2. ~rip.off /\ Cur.op = "vmcall"
      BY <2>1, HandledOp
    <2>3. Length(Cur) \in Nat /\ Cur.op # "hlt"
      BY <1>0, <2>2, CurType
    <2>4. RipOK(rip') /\ TraceOK
      BY <1>3, <2>1, <2>2, <2>3
    <2> QED
      BY <1>1, <1>2, <2>1, <2>4
  <1>12. CASE emu_rdmsr
    <2>1. /\ mode = "exit" /\ exit.reason = "RDMSR" /\ mode' \in {"host", "stopped"}
          /\ \/ /\ regs' = [regs EXCEPT !.rax = "efer", !.rdx = "efer"]
                /\ rip' = Plus(2) /\ Retire
             \/ UNCHANGED <<rip, regs, trace>>
          /\ UNCHANGED <<conf, resident, vmcs, made, calls>>
      BY <1>12 DEF emu_rdmsr, Handles, Resume, StopLoop
    <2>2. ~rip.off /\ Cur.op = "rdmsr"
      BY <2>1, HandledOp
    <2>3. RipOK(rip') /\ TraceOK
      BY <1>1, <1>3, <2>1, <2>2 DEF TraceOK
    <2>4. RegsOK(regs')
      BY <1>1, <2>1 DEF RegsOK, Registers, Rax
    <2> QED
      BY <1>1, <1>2, <2>1, <2>3, <2>4
  <1>13. CASE emu_wrmsr
    <2>1. /\ mode = "exit" /\ exit.reason = "WRMSR" /\ mode' \in {"host", "stopped"}
          /\ \/ /\ vmcs' = [vmcs EXCEPT !.efer = Cur.bits]
                /\ rip' = Plus(2) /\ Retire
             \/ UNCHANGED <<rip, vmcs, trace>>
          /\ UNCHANGED <<conf, resident, regs, made, calls>>
      BY <1>13 DEF emu_wrmsr, wrmsr_efer, Handles, Resume, StopLoop
    <2>2. ~rip.off /\ Cur.op = "wrmsr"
      BY <2>1, HandledOp
    <2>3. RipOK(rip') /\ TraceOK
      BY <1>1, <1>3, <2>1, <2>2 DEF TraceOK
    <2>4. VmcsOK(vmcs')
      BY <1>1, <2>1 DEF VmcsOK
    <2> QED
      BY <1>1, <1>2, <2>1, <2>3, <2>4
  <1>14. CASE emu_mov_cr
    <2>1. /\ mode = "exit" /\ exit.reason = "MOV_CR" /\ mode' = "host"
          /\ \/ /\ vmcs' = mov_to_cr0(Cur.bits)
                /\ rip' = Plus(3) /\ Retire
             \/ UNCHANGED <<rip, vmcs, trace>>
          /\ UNCHANGED <<conf, resident, regs, made, calls>>
      BY <1>14 DEF emu_mov_cr, Handles, Resume
    <2>2. ~rip.off /\ Cur.op # "hlt"
      BY <2>1, HandledOp
    <2>3. RipOK(rip') /\ TraceOK
      BY <1>1, <1>3, <2>1, <2>2 DEF TraceOK
    <2>4. VmcsOK(mov_to_cr0(Cur.bits))
      BY <1>1 DEF VmcsOK, mov_to_cr0
    <2> QED
      BY <1>1, <1>2, <2>1, <2>3, <2>4
  <1>15. CASE emu_cpuid
    <2>1. /\ mode = "exit" /\ exit.reason = "CPUID" /\ mode' = "host"
          /\ rip' = Plus(2) /\ Retire
          /\ UNCHANGED <<conf, resident, vmcs, made, calls>>
          /\ \/ regs' = [regs EXCEPT !.rax = "leaf_1"]
             \/ regs' = [regs EXCEPT !.rdx = "long_mode"]
             \/ regs' = regs
      BY <1>15 DEF emu_cpuid, Handles, Resume
    <2>2. ~rip.off /\ Cur.op = "cpuid"
      BY <2>1, HandledOp
    <2>3. RipOK(rip') /\ TraceOK
      BY <1>3, <2>1, <2>2
    <2>4. RegsOK(regs')
      BY <1>1, <2>1 DEF RegsOK, Registers, Rax
    <2> QED
      BY <1>1, <1>2, <2>1, <2>3, <2>4
  <1>16. ASSUME SyscallFound
         PROVE  /\ RipOK(AfterSyscall) /\ regs.rcx - 1 \in 1 .. N
                /\ regs.rcx - 1 \in Nat
    <2>1. regs.rcx \in 2 .. N
      BY <1>0, <1>1, <1>16 DEF SyscallFound, RegsOK
    <2>2. regs.rcx \in Nat /\ regs.rcx \in 1 .. N + 1 /\ regs.rcx # N + 1
          /\ regs.rcx - 1 \in 1 .. N /\ regs.rcx - 1 \in Nat
      BY <1>0, <2>1
    <2> QED
      BY <2>2 DEF RipOK, AfterSyscall
  <1>17. CASE emu_syscall_refused
    <2>1. /\ mode' = "stopped" /\ SyscallFound /\ rip' = AfterSyscall
          /\ UNCHANGED <<conf, resident, regs, vmcs, trace, made, calls>>
      BY <1>17 DEF emu_syscall_refused, StopLoop
    <2> QED
      BY <1>1, <1>2, <1>16, <2>1 DEF TraceOK
  <1>18. CASE emu_syscall
    <2>1. /\ mode' = "host" /\ SyscallFound /\ rip' = AfterSyscall
          /\ trace' = Append(trace, regs.rcx - 1)
          /\ regs' = [regs EXCEPT !.rax = "result"]
          /\ UNCHANGED <<conf, resident, vmcs, made>>
      BY <1>18 DEF emu_syscall, Resume
    <2>2. TraceOK
      BY <1>16, <2>1 DEF TraceOK
    <2>3. RegsOK(regs')
      BY <1>1, <2>1 DEF RegsOK, Registers, Rax
    <2>4. calls' \in Seq(Answered)
      <3>1. PICK a \in Answers(regs.rax) :
              calls' = Append(calls, [at |-> regs.rcx - 1, call |-> regs.rax,
                                      by |-> a])
        BY <1>18 DEF emu_syscall
      <3>2. a \in Seq({"plugin", "declined", "host"})
        BY <3>1, AnswerShape
      <3>3. regs.rax \in Calls /\ regs.rcx - 1 \in Nat
        BY <1>16, <1>18, <2>1 DEF emu_syscall, Accepted
      <3>4. [at |-> regs.rcx - 1, call |-> regs.rax, by |-> a] \in Answered
        BY <3>2, <3>3 DEF Answered
      <3> QED
        BY <1>1, <3>1, <3>4
    <2> QED
      BY <1>1, <1>2, <1>16, <2>1, <2>2, <2>3, <2>4
  <1>19. CASE Returned
    BY <1>19 DEF Returned, vars, VInv, ShapeInv, RangeInv, ExitInv, Cur
  <1> QED
    BY <1>4, <1>5, <1>6, <1>7, <1>8, <1>9, <1>10, <1>11, <1>12, <1>13, <1>14,
       <1>15, <1>17, <1>18, <1>19 DEF Next, Guest, Host

LEMMA VAlways == Spec => []VInv
  <1>1. VInv /\ UNCHANGED vars => VInv'
    BY DEF vars, VInv, ShapeInv, RangeInv, ExitInv, Cur
  <1>2. VInv /\ [Next]_vars => VInv'
    BY <1>1, VStep
  <1> QED
    BY <1>2, VInit, PTL DEF Spec

(* The VCPU's state keeps its types: rip and rcx stay within the program,  *)
(* also when a machine check in the delivery of an event, or an emulation  *)
(* with the wrong length, leaves rip inside an instruction.                *)
THEOREM LoopTypes == Spec => []TypeOK
  <1>1. VInv => TypeOK
    <2> SUFFICES ASSUME VInv PROVE TypeOK
      OBVIOUS
    <2>1. conf.hooks \subseteq Calls /\ conf.interactive \in BOOLEAN
      BY ProgramType DEF VInv
    <2>2. rip.off \in BOOLEAN /\ regs.rax \in Rax
          /\ regs.rdx \in {"zero", "efer", "long_mode"}
          /\ regs.buf \in {"ok", "bad"}
      BY DEF VInv, ShapeInv, Registers
    <2>3. DOMAIN vmcs = {"efer", "cr0", "shadow", "lma"} /\ vmcs.lma \in BOOLEAN
      BY DEF VInv, ShapeInv
    <2>4. \A k \in DOMAIN calls : calls[k].call \in Calls
      <3>1. \A k \in DOMAIN calls : calls[k] \in Answered
        BY DEF VInv, ShapeInv
      <3> QED
        BY <3>1 DEF Answered
    <2>5. \A k \in DOMAIN made : made[k].at \in 1 .. Len(conf.prog)
      <3>1. \A k \in DOMAIN made : made[k] \in Made(Len(conf.prog))
        BY DEF VInv, RangeInv
      <3> QED
        BY <3>1 DEF Made
    <2> QED
      BY <2>1, <2>2, <2>3, <2>4, <2>5 DEF VInv, RangeInv, TypeOK
  <1> QED
    BY <1>1, VAlways, PTL

(* A handler that stops the loop has written no register, no control and   *)
(* no system call's effect: no program, plugin or exit can stop it         *)
(* half-way.                                                               *)
THEOREM StopsClean == Spec => StopIsClean
  <1>1. [Next]_vars =>
          [mode = "exit" /\ mode' = "stopped" =>
             UNCHANGED <<regs, vmcs, trace, made, calls>>]_vars
    <2> SUFFICES ASSUME Next, mode = "exit", mode' = "stopped"
                 PROVE  UNCHANGED <<regs, vmcs, trace, made, calls>>
      OBVIOUS
    <2>1. ~Guest /\ ~Interrupted /\ ~Returned /\ ~hv_vcpu_run
      BY DEF Guest, RunsOn, Exits, Derailed, Interrupted, Returned, hv_vcpu_run
    <2>2. ~vmx_irq_or_ept /\ ~vmx_vmcall /\ ~emu_mov_cr /\ ~emu_cpuid
          /\ ~emu_syscall
      BY DEF vmx_irq_or_ept, vmx_vmcall, emu_mov_cr, emu_cpuid, emu_syscall,
             Resume
    <2>3. vmx_exc_nmi \/ vmx_hlt \/ vmx_unhandled \/ emu_syscall_refused
            => UNCHANGED <<regs, vmcs, trace, made, calls>>
      BY DEF vmx_exc_nmi, vmx_hlt, vmx_unhandled, emu_syscall_refused
    <2>4. emu_rdmsr \/ emu_wrmsr => UNCHANGED <<regs, vmcs, trace, made, calls>>
      BY DEF emu_rdmsr, emu_wrmsr, Resume
    <2> QED
      BY <2>1, <2>2, <2>3, <2>4 DEF Next, Host
  <1> QED
    BY <1>1, PTL DEF Spec, StopIsClean

-----------------------------------------------------------------------------
(* Instructions take effect in order.                                      *)

(* As long as the loop runs, rip is at the instruction after the last that *)
(* took effect; the exit a syscall instruction makes finds rcx just behind *)
(* it, or zero while SCE is off.                                           *)
OrderInv ==
  /\ mode # "stopped" =>
       /\ ~rip.off /\ rip.at = Len(trace) + 1
       /\ "SCE" \in vmcs.efer =>
            \E i \in 1 .. Len(conf.prog) :
              i < rip.at /\ TurnsOnCalls(conf.prog[i])
       /\ regs.rcx # 0 => "SCE" \in vmcs.efer
  /\ mode = "exit" /\ exit.reason = "EXC_NMI" => exit.vector = 0
  /\ mode = "exit" /\ exit.reason = "TRIPLE_FAULT" =>
       Cur.op = "syscall" /\ regs.rcx \in {0, rip.at + 1}

LEMMA OrderInit == Init => OrderInv
  <1> SUFFICES ASSUME Init PROVE OrderInv
    OBVIOUS
  <1>1. /\ mode = "host" /\ trace = <<>>
        /\ rip = [at |-> 1, off |-> FALSE]
        /\ regs = [rax |-> "zero", rcx |-> 0, rdx |-> "zero", buf |-> "ok"]
    BY DEF Init, vcpu_setup_ia32
  <1>2. vmcs.efer = {}
    BY DEF Init, vcpu_setup_ia32, vmcs_setup
  <1>3. rip.at = 1 /\ ~rip.off /\ regs.rcx = 0 /\ Len(trace) = 0
    BY <1>1
  <1> QED
    BY <1>1, <1>2, <1>3 DEF OrderInv

(* Emulation adds the length of the instruction where it is supported.     *)
LEMMA PlusNext ==
  ASSUME ShapeInv, RangeInv, ~rip.off, NEW n, n = Length(Cur)
  PROVE  Plus(n) = [at |-> rip.at + 1, off |-> FALSE]
  <1>1. Length(Cur) \in 1 .. 7
    BY CurType
  <1>2. ~(n < Length(Cur)) /\ (n # Length(Cur)) = FALSE
    BY <1>1
  <1> QED
    BY <1>2 DEF Plus

(* The ways in which trace and the loop's position can change.             *)
Executes == /\ mode # "stopped" /\ mode' # "stopped"
            /\ trace' = Append(trace, rip.at)
            /\ rip' = [at |-> rip.at + 1, off |-> FALSE]
            /\ rip.at \in 1 .. Len(conf.prog)
Holds == mode # "stopped" /\ mode' # "stopped" /\ UNCHANGED <<rip, trace>>
Stops == mode # "stopped" /\ mode' = "stopped" /\ UNCHANGED trace

LEMMA StepKinds ==
  ASSUME VInv, OrderInv, Next, Transparent(conf.prog)
  PROVE  UNCHANGED conf /\ (Executes \/ Holds \/ Stops \/ UNCHANGED vars)
  <1> DEFINE Goal == Executes \/ Holds \/ Stops \/ UNCHANGED vars
  <1>0. UNCHANGED conf
    BY DEF Next, Guest, Host, Returned, RunsOn, Exits, Derailed, Interrupted,
           hv_vcpu_run, vmx_exc_nmi, vmx_irq_or_ept, vmx_vmcall, vmx_hlt,
           emu_rdmsr, emu_wrmsr, emu_mov_cr, emu_cpuid, vmx_unhandled,
           emu_syscall_refused, emu_syscall, Resume, StopLoop, vars
  <1>1. ShapeInv /\ RangeInv
    BY DEF VInv
  <1>2. ASSUME mode \in {"guest", "exit"}, mode' = "host" \/ mode' = mode,
               rip' = Plus(Length(Cur)), Retire
        PROVE  Goal
    <2>1. ~rip.off
      BY <1>2 DEF OrderInv
    <2>2. rip' = [at |-> rip.at + 1, off |-> FALSE] /\ rip.at \in 1 .. Len(conf.prog)
      BY <1>1, <1>2, <2>1, PlusNext, CurType
    <2> QED
      BY <1>2, <2>2 DEF Executes, Retire, Goal
  <1> HIDE DEF Goal
  <1>3. ASSUME RunsOn PROVE Goal
    BY <1>2, <1>3 DEF RunsOn
  <1>4. ASSUME Exits \/ Interrupted \/ vmx_irq_or_ept
        PROVE  Goal
    BY <1>4 DEF Exits, Interrupted, vmx_irq_or_ept, Handles, Resume, Holds, Goal
  <1>5. ASSUME Derailed
        PROVE  Goal
    BY <1>5 DEF Derailed, OrderInv
  <1>6. ASSUME hv_vcpu_run
        PROVE  Goal
    BY <1>6 DEF hv_vcpu_run, Holds, Stops, Goal
  <1>7. ASSUME vmx_exc_nmi
        PROVE  Goal
    BY <1>7 DEF vmx_exc_nmi, Handles, OrderInv, StopLoop, Stops, Goal
  <1>8. ASSUME vmx_hlt \/ vmx_unhandled \/ emu_syscall_refused
        PROVE  Goal
    BY <1>8 DEF vmx_hlt, vmx_unhandled, emu_syscall_refused, Handles, StopLoop,
                Stops, Goal
  <1>9. ASSUME vmx_vmcall
        PROVE  Goal
    BY <1>2, <1>9 DEF vmx_vmcall, Handles, Resume
  <1>10. ASSUME emu_rdmsr \/ emu_wrmsr \/ emu_cpuid
         PROVE  Goal
    <2>1. /\ mode = "exit" /\ exit.reason \in {"RDMSR", "WRMSR", "CPUID"}
          /\ \/ mode' = "host" /\ rip' = Plus(2) /\ Retire
             \/ mode' = "stopped" /\ UNCHANGED trace
      BY <1>10 DEF emu_rdmsr, emu_wrmsr, emu_cpuid, Handles, Resume, StopLoop
    <2>2. Cur.op \in {"rdmsr", "wrmsr", "cpuid"}
      BY <2>1, HandledOp
    <2>3. Length(Cur) = 2
      BY <2>2 DEF Length
    <2> QED
      BY <1>2, <2>1, <2>3 DEF Stops, Goal
  <1>11. ASSUME emu_mov_cr
         PROVE  Goal
    <2>1. /\ mode = "exit" /\ exit.reason = "MOV_CR" /\ mode' = "host"
          /\ \/ Cur.op = "mov_cr0" /\ rip' = Plus(3) /\ Retire
             \/ UNCHANGED <<rip, trace>>
      BY <1>11 DEF emu_mov_cr, Handles, Resume
    <2>2. Cur.op = "mov_cr0" => Length(Cur) = 3
      <3>1. ~rip.off
        BY <2>1 DEF OrderInv
      <3>2. rip.at \in 1 .. Len(conf.prog)
        BY <1>1, <3>1, CurType
      <3>3. Cur.op = "mov_cr0" => ~Cur.rex
        BY <3>2 DEF Transparent, Cur
      <3> QED
        BY <3>3 DEF Length
    <2> QED
      BY <1>2, <2>1, <2>2 DEF Holds, Goal
  <1>12. ASSUME emu_syscall
         PROVE  Goal
    <2>1. /\ mode = "exit" /\ exit.reason = "TRIPLE_FAULT" /\ mode' = "host"
          /\ SyscallFound /\ rip' = AfterSyscall
          /\ trace' = Append(trace, regs.rcx - 1)
      BY <1>12 DEF emu_syscall, Handles, Resume
    <2>2. regs.rcx = rip.at + 1 /\ ~rip.off
      BY <2>1 DEF OrderInv, SyscallFound
    <2>3. rip.at \in 1 .. Len(conf.prog) /\ Len(conf.prog) \in Nat
      BY <1>1, <2>2, CurType, ProgramType
    <2>4. regs.rcx - 1 = rip.at
      BY <2>2, <2>3
    <2> QED
      BY <2>1, <2>2, <2>3, <2>4 DEF Executes, AfterSyscall, Goal
  <1>13. ASSUME Returned
         PROVE  Goal
    BY <1>13 DEF Returned, Goal
  <1> QED
    BY <1>0, <1>3, <1>4, <1>5, <1>6, <1>7, <1>8, <1>9, <1>10, <1>11, <1>12,
       <1>13 DEF Next, Guest, Host, Goal

(* Only the emulation of wrmsr and mov to cr0 writes the controls, and     *)
(* only a syscall instruction sets rcx to anything but zero.               *)
LEMMA ControlKinds ==
  ASSUME VInv, OrderInv, Next, Transparent(conf.prog)
  PROVE  /\ \/ UNCHANGED vmcs
            \/ /\ Executes /\ Cur.op = "wrmsr" /\ mode = "exit"
               /\ vmcs' = [vmcs EXCEPT !.efer = Cur.bits]
               /\ UNCHANGED regs
            \/ /\ Executes /\ Cur.op = "mov_cr0" /\ mode = "exit"
               /\ vmcs' = mov_to_cr0(Cur.bits)
               /\ UNCHANGED regs
         /\ \/ regs'.rcx = regs.rcx \/ regs'.rcx = 0
            \/ "SCE" \in vmcs.efer /\ UNCHANGED vmcs
  <1> DEFINE G == /\ \/ UNCHANGED vmcs
                     \/ /\ Executes /\ Cur.op = "wrmsr" /\ mode = "exit"
                        /\ vmcs' = [vmcs EXCEPT !.efer = Cur.bits]
                        /\ UNCHANGED regs
                     \/ /\ Executes /\ Cur.op = "mov_cr0" /\ mode = "exit"
                        /\ vmcs' = mov_to_cr0(Cur.bits)
                        /\ UNCHANGED regs
                  /\ \/ regs'.rcx = regs.rcx \/ regs'.rcx = 0
                     \/ "SCE" \in vmcs.efer /\ UNCHANGED vmcs
  <1>0. regs \in Registers
    BY DEF VInv, ShapeInv
  <1>1. CASE RunsOn
    <2>1. UNCHANGED vmcs
      BY <1>1 DEF RunsOn
    <2>2. regs'.rcx = regs.rcx \/ regs'.rcx = 0
      BY <1>0, <1>1 DEF RunsOn, Registers
    <2> QED
      BY <2>1, <2>2
  <1>2. CASE Exits
    <2>1. UNCHANGED vmcs
      BY <1>2 DEF Exits
    <2>2. \/ regs' = [regs EXCEPT !.rcx = 0] \/ regs' = [regs EXCEPT !.rcx = @]
          \/ SyscallOn
      BY <1>2 DEF Exits
    <2>3. regs'.rcx = regs.rcx \/ regs'.rcx = 0 \/ "SCE" \in vmcs.efer
      BY <1>0, <2>2 DEF SyscallOn, Registers
    <2> QED
      BY <2>1, <2>3
  <1>3. CASE emu_wrmsr
    <2>1. /\ mode = "exit" /\ exit.reason = "WRMSR" /\ UNCHANGED regs
          /\ \/ UNCHANGED vmcs
             \/ vmcs' = [vmcs EXCEPT !.efer = Cur.bits] /\ mode' = "host"
                /\ Retire
      BY <1>3 DEF emu_wrmsr, wrmsr_efer, Handles, Resume
    <2>2. Cur.op = "wrmsr"
      BY <2>1, HandledOp
    <2>3. Retire => trace' # trace
      BY DEF Retire, VInv, ShapeInv
    <2>4. mode' = "host" /\ Retire => Executes
      BY <2>1, <2>3, StepKinds DEF Holds, Stops, vars
    <2> QED
      BY <2>1, <2>2, <2>4
  <1>4. CASE emu_mov_cr
    <2>1. /\ mode = "exit" /\ UNCHANGED regs
          /\ \/ UNCHANGED vmcs
             \/ /\ Cur.op = "mov_cr0" /\ vmcs' = mov_to_cr0(Cur.bits)
                /\ mode' = "host" /\ Retire
      BY <1>4 DEF emu_mov_cr, Handles, Resume
    <2>3. Retire => trace' # trace
      BY DEF Retire, VInv, ShapeInv
    <2>4. mode' = "host" /\ Retire => Executes
      BY <2>1, <2>3, StepKinds DEF Holds, Stops, vars
    <2> QED
      BY <2>1, <2>4
  <1>5. CASE emu_rdmsr \/ emu_cpuid \/ emu_syscall
    <2>1. UNCHANGED vmcs
      BY <1>5 DEF emu_rdmsr, emu_cpuid, emu_syscall
    <2>2. \/ regs' = regs
          \/ regs' = [regs EXCEPT !.rax = "efer", !.rdx = "efer"]
          \/ regs' = [regs EXCEPT !.rax = "leaf_1"]
          \/ regs' = [regs EXCEPT !.rdx = "long_mode"]
          \/ regs' = [regs EXCEPT !.rax = "result"]
      BY <1>5 DEF emu_rdmsr, emu_cpuid, emu_syscall
    <2>3. regs'.rcx = regs.rcx
      BY <1>0, <2>2 DEF Registers
    <2> QED
      BY <2>1, <2>3
  <1>6. CASE UNCHANGED <<regs, vmcs>>
    BY <1>6
  <1> HIDE DEF G
  <1>7. G
    BY <1>1, <1>2, <1>3, <1>4, <1>5, <1>6
    DEF Next, Guest, Host, Returned, Derailed, Interrupted, hv_vcpu_run,
        vmx_exc_nmi, vmx_irq_or_ept, vmx_vmcall, vmx_hlt, vmx_unhandled,
        emu_syscall_refused, vars, G
  <1> QED
    BY <1>7 DEF G

LEMMA OrderStep ==
  ASSUME VInv, OrderInv, Next, Orderly
  PROVE  OrderInv'
  <1> Transparent(conf.prog) /\ Vectors(conf.prog) \subseteq {0}
    BY DEF Orderly
  <1>0. /\ ShapeInv /\ RangeInv /\ UNCHANGED conf
        /\ Executes \/ Holds \/ Stops \/ UNCHANGED vars
    BY StepKinds DEF VInv
  <1>1. trace \in Seq(Nat) /\ Len(trace) \in Nat /\ rip.at \in Nat
    BY <1>0 DEF ShapeInv
  <1>2. mode' # "stopped" =>
          /\ ~rip'.off /\ rip'.at = Len(trace') + 1
          /\ mode # "stopped" /\ rip'.at >= rip.at
    <2>1. CASE Executes
      <3>1. rip'.at = rip.at + 1 /\ ~rip'.off
        BY <2>1 DEF Executes
      <3>2. Len(trace') = Len(trace) + 1 /\ rip.at = Len(trace) + 1
        BY <1>1, <2>1 DEF Executes, OrderInv
      <3> QED
        BY <1>1, <2>1, <3>1, <3>2 DEF Executes
    <2>2. CASE Holds
      BY <1>1, <2>2 DEF Holds, OrderInv
    <2>3. CASE Stops
      BY <2>3 DEF Stops
    <2>4. CASE UNCHANGED vars
      BY <1>1, <2>4 DEF vars, OrderInv
    <2> QED
      BY <1>0, <2>1, <2>2, <2>3, <2>4
  <1>3. ASSUME mode' # "stopped"
        PROVE  /\ "SCE" \in vmcs'.efer =>
                    \E i \in 1 .. Len(conf.prog) :
                      i < rip'.at /\ TurnsOnCalls(conf.prog[i])
               /\ regs'.rcx # 0 => "SCE" \in vmcs'.efer
    <2>0. /\ mode # "stopped" /\ rip'.at >= rip.at /\ rip'.at \in Nat
          /\ "SCE" \in vmcs.efer =>
               \E i \in 1 .. Len(conf.prog) :
                 i < rip.at /\ TurnsOnCalls(conf.prog[i])
          /\ regs.rcx # 0 => "SCE" \in vmcs.efer
      <3>1. /\ mode # "stopped" /\ rip'.at >= rip.at
        BY <1>2, <1>3
      <3>2. rip'.at \in Nat
        BY <1>0, VStep DEF VInv, ShapeInv
      <3> QED
        BY <3>1, <3>2 DEF OrderInv
    <2>1. CASE UNCHANGED vmcs
      <3>1. \A i \in 1 .. Len(conf.prog) : i < rip.at => i < rip'.at
        BY <1>1, <2>0
      <3>2. regs'.rcx = regs.rcx \/ regs'.rcx = 0 \/ "SCE" \in vmcs.efer
        BY ControlKinds
      <3> QED
        BY <2>0, <2>1, <3>1, <3>2, Zenon
    <2>2. ASSUME Executes
          PROVE  /\ rip.at \in 1 .. Len(conf.prog) /\ rip.at < rip'.at
                 /\ Cur = conf.prog[rip.at]
      BY <1>1, <2>2 DEF Executes, Cur
    <2>3. CASE /\ Executes /\ Cur.op = "wrmsr"
               /\ vmcs' = [vmcs EXCEPT !.efer = Cur.bits] /\ UNCHANGED regs
      <3>1. vmcs'.efer = Cur.bits
        BY <1>0, <2>3 DEF ShapeInv
      <3>2. CASE "SCE" \in Cur.bits
        BY <2>2, <2>3, <3>1, <3>2 DEF TurnsOnCalls
      <3>3. CASE "SCE" \notin Cur.bits
        <4>1. \A i \in 1 .. Len(conf.prog) :
                i < rip.at => ~TurnsOnCalls(conf.prog[i])
          BY <2>2, <2>3, <3>3 DEF Transparent
        <4> QED
          BY <2>0, <2>3, <3>1, <3>3, <4>1
      <3> QED
        BY <3>2, <3>3
    <2>4. CASE /\ Executes /\ Cur.op = "mov_cr0"
               /\ vmcs' = mov_to_cr0(Cur.bits) /\ UNCHANGED regs
      <3>1. "SCE" \in vmcs.efer => "SCE" \in vmcs'.efer
        BY <1>0, <2>4 DEF ShapeInv, mov_to_cr0, LongMode
      <3> QED
        BY <2>0, <2>2, <2>4, <3>1 DEF TurnsOnCalls
    <2> QED
      BY <2>1, <2>3, <2>4, ControlKinds
  <1>4. ASSUME mode' = "exit"
        PROVE  /\ exit'.reason = "EXC_NMI" => exit'.vector = 0
               /\ exit'.reason = "TRIPLE_FAULT" =>
                    Cur'.op = "syscall" /\ regs'.rcx \in {0, rip'.at + 1}
    <2>1. Exits \/ Derailed \/ Interrupted
      BY <1>4
      DEF Next, Guest, Host, Returned, RunsOn, hv_vcpu_run, vmx_exc_nmi,
          vmx_irq_or_ept, vmx_vmcall, vmx_hlt, emu_rdmsr, emu_wrmsr,
          emu_mov_cr, emu_cpuid, vmx_unhandled, emu_syscall_refused,
          emu_syscall, Resume, StopLoop, vars
    <2>2. CASE Interrupted
      <3>1. \/ exit'.reason = "IRQ"
            \/ exit'.reason = "EXC_NMI" /\ exit'.vector \in Vectors(conf.prog)
        BY <2>2 DEF Interrupted
      <3> QED
        BY <3>1
    <2>3. CASE Derailed
      BY <2>3 DEF Derailed, OrderInv
    <2>4. CASE Exits
      <3>1. /\ exit'.reason = Reason(Cur.op) /\ ~rip.off /\ Cur' = Cur
            /\ rip' = rip /\ mode = "guest"
            /\ Cur.op \notin {"mov", "mov_rcx"}
        BY <1>0, <2>4 DEF Exits, Cur
      <3>2. Cur.op \in Ops \ {"mov", "mov_rcx"} /\ rip.at \in 1 .. Len(conf.prog)
        BY <1>0, <3>1, CurType
      <3>3. Cur.op # "fault"
        BY <3>2 DEF Transparent, Cur
      <3>4. /\ Reason(Cur.op) # "EXC_NMI"
            /\ Reason(Cur.op) = "TRIPLE_FAULT" => Cur.op = "syscall"
        BY <3>2, <3>3 DEF Reason, Ops
      <3>5. Cur.op = "syscall" => regs'.rcx \in {0, rip.at + 1}
        <4>1. CASE SyscallOn
          <5>1. regs' = [regs EXCEPT !.rcx = rip.at + 1]
            BY <2>4, <4>1 DEF Exits, SyscallOn
          <5> QED
            BY <1>0, <5>1 DEF ShapeInv, Registers
        <4>2. CASE Cur.op = "syscall" /\ ~SyscallOn
          <5>1. regs' = [regs EXCEPT !.rcx = @]
            BY <2>4, <4>2 DEF Exits
          <5>2. regs.rcx = 0
            BY <3>1, <4>2 DEF SyscallOn, OrderInv
          <5> QED
            BY <1>0, <5>1, <5>2 DEF ShapeInv, Registers
        <4> QED
          BY <4>1, <4>2
      <3> QED
        BY <3>1, <3>4, <3>5
    <2> QED
      BY <2>1, <2>2, <2>3, <2>4
  <1> QED
    BY <1>0, <1>2, <1>3, <1>4 DEF OrderInv

LEMMA ConfFixed ==
  ASSUME [Next]_vars
  PROVE  UNCHANGED conf /\ (Orderly' <=> Orderly)
  <1>1. UNCHANGED conf
    BY DEF Next, Guest, Host, Returned, RunsOn, Exits, Derailed, Interrupted,
           hv_vcpu_run, vmx_exc_nmi, vmx_irq_or_ept, vmx_vmcall, vmx_hlt,
           emu_rdmsr, emu_wrmsr, emu_mov_cr, emu_cpuid, vmx_unhandled,
           emu_syscall_refused, emu_syscall, Resume, StopLoop, vars
  <1> QED
    BY <1>1, Zenon DEF Orderly, Transparent, TurnsOnCalls

OrderlyInv == Orderly => OrderInv

LEMMA OrderAlways == Spec => [](VInv /\ OrderlyInv)
  <1>1. VInv /\ OrderInv /\ UNCHANGED vars => OrderInv'
    BY DEF vars, OrderInv, Cur
  <1>2. VInv /\ OrderlyInv /\ [Next]_vars => OrderlyInv'
    BY <1>1, ConfFixed, OrderStep DEF OrderlyInv
  <1>3. Init => OrderlyInv
    BY OrderInit DEF OrderlyInv
  <1> QED
    BY <1>2, <1>3, VAlways, PTL DEF Spec

(* The loop is invisible to a guest program that keeps to what Hvexec      *)
(* supports, whatever its length: exits, retries, time slices, the         *)
(* emulation of instructions and system calls and the plugins' callbacks   *)
(* together implement a machine on which each instruction takes effect     *)
(* exactly once and in order.                                              *)
THEOREM RunsAsNative == Spec => ImplementsNative
  <1>1. Init => Machine!Init
    BY Zenon DEF Init, Machine!Init
  <1>2. ASSUME VInv, OrderlyInv, [Next]_vars
        PROVE  [Machine!Next]_(Machine!vars)
    <2>0. UNCHANGED conf /\ (Orderly' <=> Orderly)
      BY <1>2, ConfFixed
    <2>1. CASE UNCHANGED vars
      <3>1. UNCHANGED <<conf, mode, trace>>
        BY <2>1 DEF vars
      <3> QED
        BY <2>0, <3>1, Zenon DEF Machine!vars
    <2>2. CASE Next /\ Orderly
      <3>0. conf.prog \in Programs /\ Len(conf.prog) \in Nat
        BY <1>2, ProgramType DEF VInv
      <3>1. UNCHANGED conf /\ (Executes \/ Holds \/ Stops \/ UNCHANGED vars)
        BY <1>2, <2>2, <3>0, StepKinds DEF OrderlyInv, Orderly
      <3>2. CASE Executes
        <4>1. /\ rip.at = Len(trace) + 1 /\ rip.at \in 1 .. Len(conf.prog)
              /\ Len(trace) \in Nat /\ Len(conf.prog) \in Nat
          BY <1>2, <2>2, <3>0, <3>2 DEF Executes, OrderlyInv, OrderInv, VInv,
                                        ShapeInv
        <4>2. Len(trace) < Len(conf.prog)
          BY <4>1
        <4>3. Machine!Execute
          BY <2>0, <2>2, <3>1, <3>2, <4>1, <4>2, Zenon
          DEF Machine!Execute, Executes
        <4> QED
          BY <4>3 DEF Machine!Next
      <3>3. CASE Holds
        BY <2>0, <3>1, <3>3, Zenon DEF Holds, Machine!vars
      <3>4. CASE Stops
        <4>1. Machine!Stop
          BY <2>0, <3>1, <3>4, Zenon DEF Stops, Machine!Stop
        <4> QED
          BY <4>1 DEF Machine!Next
      <3> QED
        BY <2>1, <3>1, <3>2, <3>3, <3>4
    <2>3. CASE Next /\ ~Orderly
      <3>1. mode = "stopped" => mode' = "stopped"
        BY <2>3
        DEF Next, Guest, Host, Returned, RunsOn, Exits, Derailed, Interrupted,
            hv_vcpu_run, vmx_exc_nmi, vmx_irq_or_ept, vmx_vmcall, vmx_hlt,
            emu_rdmsr, emu_wrmsr, emu_mov_cr, emu_cpuid, vmx_unhandled,
            emu_syscall_refused, emu_syscall, Handles, vars
      <3>2. CASE mode # "stopped" /\ mode' = "stopped"
        <4>1. Machine!Stop
          BY <2>0, <2>3, <3>2, Zenon DEF Machine!Stop
        <4> QED
          BY <4>1 DEF Machine!Next
      <3>3. CASE (mode = "stopped") <=> (mode' = "stopped")
        BY <2>0, <2>3, <3>3, Zenon DEF Machine!vars
      <3> QED
        BY <3>1, <3>2, <3>3
    <2> QED
      BY <1>2, <2>1, <2>2, <2>3
  <1> QED
    BY <1>1, <1>2, OrderAlways, PTL DEF Spec, ImplementsNative, Machine!Spec

-----------------------------------------------------------------------------
(* System calls are answered once.                                         *)

(* The exit at hand is that of a syscall instruction.                      *)
Pending == mode = "exit" /\ exit.by = "syscall"

(* Every call executed is answered before the guest runs on; the one that  *)
(* is not answered yet is that of the exit at hand, and without one rcx is *)
(* zero where an exit comes to the default case.                           *)
CallInv ==
  /\ Len(calls) <= Len(made)
  /\ \A k \in 1 .. Len(calls) : /\ calls[k].at = made[k].at
                                /\ calls[k].call = made[k].call
                                /\ Once(calls[k].by)
  /\ mode = "stopped" => Len(made) <= Len(calls) + 1
  /\ mode # "stopped" /\ ~Pending => Len(made) = Len(calls)
  /\ Pending => /\ Len(made) = Len(calls) + 1
                /\ made[Len(made)] = [at |-> rip.at, call |-> regs.rax]
                /\ exit.reason = "TRIPLE_FAULT" /\ regs.rcx # 0
  /\ mode = "exit" /\ exit.reason = "TRIPLE_FAULT" /\ ~Pending => regs.rcx = 0

LEMMA CallInit == Init => CallInv
  <1> SUFFICES ASSUME Init PROVE CallInv
    OBVIOUS
  <1>1. made = <<>> /\ calls = <<>> /\ mode = "host"
    BY DEF Init
  <1>2. Len(made) = 0 /\ Len(calls) = 0
    BY <1>1
  <1> QED
    BY <1>1, <1>2 DEF CallInv, Pending

LEMMA CallStep ==
  ASSUME VInv, OrderInv, CallInv, Next, Transparent(conf.prog)
  PROVE  CallInv'
  <1>0. /\ ShapeInv /\ RangeInv
        /\ Len(made) \in Nat /\ Len(calls) \in Nat
    BY DEF VInv, ShapeInv, RangeInv
  (* Nothing is executed or answered.                                      *)
  <1>1. ASSUME UNCHANGED <<made, calls>>, mode # "stopped", ~Pending,
               ~Pending',
               mode' = "exit" /\ exit'.reason = "TRIPLE_FAULT" => regs'.rcx = 0
        PROVE  CallInv'
    BY <1>0, <1>1 DEF CallInv
  <1>2. CASE RunsOn \/ hv_vcpu_run \/ Interrupted
    <2>1. /\ UNCHANGED <<made, calls>> /\ mode \in {"guest", "host"}
          /\ ~Pending'
          /\ mode' = "exit" => exit'.reason # "TRIPLE_FAULT"
      BY <1>2 DEF RunsOn, hv_vcpu_run, Interrupted, Pending
    <2> QED
      BY <1>1, <2>1 DEF Pending
  <1>3. CASE Derailed
    BY <1>3 DEF Derailed, OrderInv
  <1>4. CASE Exits
    <2>1. /\ mode = "guest" /\ mode' = "exit" /\ ~rip.off
          /\ UNCHANGED <<conf, rip, calls>>
          /\ exit'.reason = Reason(Cur.op)
          /\ exit'.by = IF Cur.op = "syscall" /\ ~SyscallOn
                        THEN "fault" ELSE Cur.op
          /\ Cur.op \notin {"mov", "mov_rcx"}
      BY <1>4 DEF Exits
    <2>2. Cur.op \in Ops /\ rip.at \in 1 .. Len(conf.prog) /\ rip.at \in Nat
      BY <1>0, <2>1, CurType DEF ShapeInv
    <2>3. Len(made) = Len(calls) /\ regs \in Registers
      BY <1>0, <2>1 DEF CallInv, Pending, ShapeInv
    <2>4. CASE SyscallOn
      <3>1. /\ made' = Append(made, [at |-> rip.at, call |-> regs.rax])
            /\ regs' = [regs EXCEPT !.rcx = rip.at + 1]
            /\ Cur.op = "syscall"
        BY <1>4, <2>4 DEF Exits, SyscallOn
      <3>2. /\ Len(made') = Len(made) + 1
            /\ made'[Len(made')] = [at |-> rip.at, call |-> regs.rax]
            /\ \A k \in 1 .. Len(made) : made'[k] = made[k]
        BY <1>0, <3>1 DEF RangeInv
      <3>3. regs'.rcx # 0 /\ regs'.rax = regs.rax
        BY <2>2, <2>3, <3>1 DEF Registers
      <3>4. Pending' /\ exit'.reason = "TRIPLE_FAULT"
        BY <2>1, <2>4, <3>1 DEF Pending, Reason
      <3>5. \A k \in 1 .. Len(calls') : /\ calls'[k].at = made'[k].at
                                        /\ calls'[k].call = made'[k].call
                                        /\ Once(calls'[k].by)
        BY <2>1, <2>3, <3>2 DEF CallInv
      <3>6. Len(calls') <= Len(made') /\ Len(made') = Len(calls') + 1
        BY <1>0, <2>1, <2>3, <3>2
      <3> QED
        BY <2>1, <3>2, <3>3, <3>4, <3>5, <3>6, Zenon DEF CallInv
    <2>5. CASE ~SyscallOn
      <3>1. /\ UNCHANGED made
            /\ Cur.op = "syscall" => regs' = [regs EXCEPT !.rcx = @]
        BY <1>4, <2>5 DEF Exits
      <3>2. ~Pending'
        BY <2>1, <2>5 DEF Pending
      <3>3. Cur.op # "fault"
        BY <2>2 DEF Transparent, Cur
      <3>4. exit'.reason = "TRIPLE_FAULT" => Cur.op = "syscall"
        BY <2>1, <2>2, <3>3 DEF Reason, Ops
      <3>5. Cur.op = "syscall" => regs.rcx = 0
        BY <2>1, <2>5 DEF SyscallOn, OrderInv
      <3>6. exit'.reason = "TRIPLE_FAULT" => regs'.rcx = 0
        BY <2>3, <3>1, <3>4, <3>5 DEF Registers
      <3> QED
        BY <1>1, <2>1, <3>1, <3>2, <3>6 DEF Pending
    <2> QED
      BY <2>4, <2>5
  <1>5. CASE \/ vmx_exc_nmi \/ vmx_irq_or_ept \/ vmx_vmcall \/ vmx_hlt
             \/ emu_rdmsr \/ emu_wrmsr \/ emu_mov_cr \/ emu_cpuid
    <2>1. /\ mode = "exit" /\ exit.reason # "TRIPLE_FAULT"
          /\ mode' \in {"host", "stopped"} /\ UNCHANGED <<made, calls>>
      BY <1>5 DEF vmx_exc_nmi, vmx_irq_or_ept, vmx_vmcall, vmx_hlt, emu_rdmsr,
                  emu_wrmsr, emu_mov_cr, emu_cpuid, Handles, Resume, StopLoop
    <2> QED
      BY <1>1, <2>1 DEF CallInv, Pending
  <1>6. CASE vmx_unhandled \/ emu_syscall_refused
    <2>1. /\ mode = "exit" /\ mode' = "stopped" /\ UNCHANGED <<made, calls>>
      BY <1>6 DEF vmx_unhandled, emu_syscall_refused, Handles, StopLoop
    <2>2. Len(made) <= Len(calls) + 1
      BY <1>0, <2>1 DEF CallInv
    <2> QED
      BY <2>1, <2>2 DEF CallInv, Pending
  <1>7. CASE emu_syscall
    <2>1. PICK a \in Answers(regs.rax) :
            calls' = Append(calls, [at |-> regs.rcx - 1, call |-> regs.rax,
                                    by |-> a])
      BY <1>7 DEF emu_syscall
    <2>2. /\ mode = "exit" /\ exit.reason = "TRIPLE_FAULT" /\ mode' = "host"
          /\ regs.rcx > 1 /\ UNCHANGED made
      BY <1>7 DEF emu_syscall, Handles, Resume, SyscallFound
    <2>3. regs.rcx = rip.at + 1 /\ rip.at \in Nat
      BY <1>0, <2>2 DEF OrderInv, ShapeInv
    <2>4. Pending /\ regs.rcx - 1 = rip.at
      BY <2>2, <2>3 DEF CallInv
    <2>5. PICK n : n = Len(calls)
      OBVIOUS
    <2>6. /\ n \in Nat /\ Len(calls') = n + 1
          /\ calls'[n + 1] = [at |-> rip.at, call |-> regs.rax, by |-> a]
          /\ \A k \in 1 .. n : calls'[k] = calls[k]
      BY <1>0, <2>1, <2>4, <2>5 DEF ShapeInv
    <2>7. /\ Len(made) = n + 1 /\ made[n + 1].at = rip.at
          /\ made[n + 1].call = regs.rax
      <3>1. Len(made) = n + 1
        BY <2>4, <2>5 DEF CallInv
      <3>2. made[n + 1] = [at |-> rip.at, call |-> regs.rax]
        BY <2>4, <3>1 DEF CallInv
      <3> QED
        BY <3>1, <3>2
    <2>8. /\ calls'[n + 1].at = rip.at /\ calls'[n + 1].call = regs.rax
          /\ Once(calls'[n + 1].by)
      BY <2>6, AnswerShape
    <2>9. \A k \in 1 .. n + 1 : k = n + 1 \/ k \in 1 .. n
      BY <2>6
    <2>10. \A k \in 1 .. Len(calls') : /\ calls'[k].at = made'[k].at
                                       /\ calls'[k].call = made'[k].call
                                       /\ Once(calls'[k].by)
      BY <2>2, <2>5, <2>6, <2>7, <2>8, <2>9, Zenon DEF CallInv
    <2>11. Len(calls') <= Len(made') /\ Len(made') = Len(calls') /\ ~Pending'
      BY <2>2, <2>6, <2>7 DEF Pending
    <2> QED
      BY <2>2, <2>10, <2>11 DEF CallInv
  <1>8. CASE Returned
    BY <1>8 DEF Returned, vars, CallInv, Pending
  <1> QED
    BY <1>2, <1>3, <1>4, <1>5, <1>6, <1>7, <1>8 DEF Next, Guest, Host

(* The loop answers the system calls that the guest executes, each once,   *)
(* in their order and with the number it was made with, by the plugin or   *)
(* by the host, and the guest does not run on before: for transparent      *)
(* programs of any length, however the guest is interrupted (vcpu.c, the   *)
(* default case; emu_syscall.c).                                           *)
THEOREM CallsAnsweredOnce == Spec => []OneAnswer
  <1> DEFINE C == Orderly => CallInv
  <1>1. CallInv /\ UNCHANGED vars => CallInv'
    BY DEF vars, CallInv, Pending
  <1>2. VInv /\ OrderlyInv /\ C /\ [Next]_vars => C'
    <2> SUFFICES ASSUME VInv, OrderlyInv, C, [Next]_vars, Orderly
                 PROVE  CallInv'
      BY ConfFixed
    <2>1. OrderInv /\ CallInv /\ Transparent(conf.prog)
      BY DEF OrderlyInv, Orderly
    <2> QED
      BY <1>1, <2>1, CallStep
  <1>3. VInv /\ C => OneAnswer
    <2> SUFFICES ASSUME VInv, CallInv
                 PROVE  OneAnswer
      BY DEF OneAnswer
    <2>1. Len(made) \in Nat /\ Len(calls) \in Nat
      BY DEF VInv, ShapeInv, RangeInv
    <2>2. Len(calls) < Len(made) =>
            /\ Len(made) = Len(calls) + 1
            /\ mode = "stopped" \/ (mode = "exit" /\ exit.by = "syscall")
      BY <2>1 DEF CallInv, Pending
    <2> QED
      BY <2>2 DEF CallInv, OneAnswer
  <1>4. Init => C
    BY CallInit
  <1> HIDE DEF C
  <1> QED
    BY <1>2, <1>3, <1>4, OrderAlways, PTL DEF Spec

-----------------------------------------------------------------------------
(* The guest can be entered.                                               *)

(* Paging has been turned on by an instruction in front of rip, so that by *)
(* LongModeOrder no further write to EFER is to come.                      *)
EntryInv ==
  mode # "stopped" =>
    /\ EntryValid
    /\ "PG" \in vmcs.cr0 =>
         \E i \in 1 .. Len(conf.prog) :
           i < rip.at /\ conf.prog[i].op = "mov_cr0" /\ "PG" \in conf.prog[i].bits

LEMMA EntryInit == Init => EntryInv
  <1> SUFFICES ASSUME Init PROVE EntryInv
    OBVIOUS
  <1>1. /\ vmcs.efer = {} /\ vmcs.lma = FALSE /\ "PG" \notin vmcs.cr0
        /\ "NE" \in vmcs.cr0
    BY DEF Init, vcpu_setup_ia32, vmcs_setup
  <1> QED
    BY <1>1, Zenon DEF EntryInv, EntryValid

LEMMA EntryStep ==
  ASSUME VInv, OrderInv, EntryInv, Next, Transparent(conf.prog),
         LongModeOrder(conf.prog), OrderInv'
  PROVE  EntryInv'
  <1> SUFFICES ASSUME mode' # "stopped"
               PROVE  /\ EntryValid'
                      /\ "PG" \in vmcs'.cr0 =>
                           \E i \in 1 .. Len(conf.prog) :
                             /\ i < rip'.at /\ conf.prog[i].op = "mov_cr0"
                             /\ "PG" \in conf.prog[i].bits
    BY StepKinds DEF EntryInv
  <1>0. /\ ShapeInv /\ RangeInv /\ UNCHANGED conf
        /\ Executes \/ Holds \/ Stops \/ UNCHANGED vars
    BY StepKinds DEF VInv
  <1>1. /\ mode # "stopped" /\ rip.at \in Nat /\ rip'.at \in Nat
        /\ rip'.at >= rip.at
    <2>1. mode # "stopped" /\ (rip'.at = rip.at + 1 \/ rip'.at = rip.at)
      BY <1>0 DEF Executes, Holds, Stops, vars
    <2>2. rip.at \in Nat
      BY <1>0 DEF ShapeInv
    <2> QED
      BY <2>1, <2>2
  <1>2. /\ EntryValid
        /\ "PG" \in vmcs.cr0 =>
             \E i \in 1 .. Len(conf.prog) :
               i < rip.at /\ conf.prog[i].op = "mov_cr0" /\ "PG" \in conf.prog[i].bits
    BY <1>1 DEF EntryInv
  <1>3. CASE UNCHANGED vmcs
    <2>1. \A i \in 1 .. Len(conf.prog) : i < rip.at => i < rip'.at
      BY <1>1
    <2> QED
      BY <1>2, <1>3, <2>1, Zenon DEF EntryValid
  <1>4. ASSUME Executes
        PROVE  /\ rip.at \in 1 .. Len(conf.prog) /\ rip.at < rip'.at
               /\ Cur = conf.prog[rip.at]
    BY <1>1, <1>4 DEF Executes, Cur
  <1>5. vmcs.lma \in BOOLEAN
    BY <1>0 DEF ShapeInv
  <1>6. CASE /\ Executes /\ Cur.op = "wrmsr"
             /\ vmcs' = [vmcs EXCEPT !.efer = Cur.bits]
    <2>1. "PG" \notin vmcs.cr0 /\ "LMA" \notin Cur.bits
      BY <1>2, <1>4, <1>6 DEF LongModeOrder
    <2>2. vmcs'.efer = Cur.bits /\ vmcs'.cr0 = vmcs.cr0 /\ vmcs'.lma = vmcs.lma
      BY <1>0, <1>6 DEF ShapeInv
    <2> QED
      BY <1>2, <2>1, <2>2, Zenon DEF EntryValid
  <1>7. CASE /\ Executes /\ Cur.op = "mov_cr0"
             /\ vmcs' = mov_to_cr0(Cur.bits)
    <2>0. /\ "NE" \in Cur.bits
          /\ "PG" \in Cur.bits => "PE" \in Cur.bits
      BY <1>4, <1>7 DEF LongModeOrder
    <2>1. "PG" \in vmcs.cr0 => "PG" \in Cur.bits
      BY <1>2, <1>4, <1>7 DEF LongModeOrder
    <2>2. "PG" \in Cur.bits =>
            \E i \in 1 .. Len(conf.prog) :
              i < rip'.at /\ conf.prog[i].op = "mov_cr0" /\ "PG" \in conf.prog[i].bits
      BY <1>4, <1>7
    <2>3. CASE "PG" \in Cur.bits /\ "LME" \in vmcs.efer
      <3>1. vmcs'.efer = LongMode(vmcs.efer) /\ vmcs'.cr0 = Cur.bits
            /\ vmcs'.lma = TRUE
        BY <1>7, <2>3 DEF mov_to_cr0
      <3>2. "LMA" \in vmcs'.efer /\ "LME" \in vmcs'.efer
        BY <2>3, <3>1 DEF LongMode
      <3> QED
        BY <2>0, <2>2, <2>3, <3>1, <3>2, Zenon DEF EntryValid
    <2>4. CASE ~("PG" \in Cur.bits /\ "LME" \in vmcs.efer)
      <3>1. vmcs' = [vmcs EXCEPT !.cr0 = Cur.bits, !.shadow = Cur.bits]
        BY <1>7, <2>4 DEF mov_to_cr0
      <3>2. /\ vmcs'.efer = vmcs.efer /\ vmcs'.cr0 = Cur.bits
            /\ vmcs'.lma = vmcs.lma
        BY <1>0, <3>1 DEF ShapeInv
      <3> QED
        BY <1>2, <2>0, <2>1, <2>2, <2>4, <3>2, Zenon DEF EntryValid
    <2> QED
      BY <2>3, <2>4
  <1> QED
    BY <1>3, <1>6, <1>7, ControlKinds

(* A guest that enters long mode in the order of boot.asm passes the       *)
(* checks of VM entry at every iteration of the loop, for programs of any  *)
(* length: emu_wrmsr and emu_mov_cr keep EFER, CR0 and the entry controls  *)
(* consistent.                                                             *)
THEOREM EntriesAreValid == Spec => []EntriesValid
  <1> DEFINE Ordered == Orderly /\ LongModeOrder(conf.prog)
             E == Ordered => EntryInv
  <1>1. VInv /\ OrderInv /\ EntryInv /\ UNCHANGED vars => EntryInv'
    BY DEF vars, EntryInv, EntryValid
  <1>2. ASSUME [Next]_vars
        PROVE  Ordered' <=> Ordered
    <2>1. UNCHANGED conf /\ (Orderly' <=> Orderly)
      BY <1>2, ConfFixed
    <2> QED
      BY <2>1, Zenon DEF LongModeOrder
  <1>3. VInv /\ OrderlyInv /\ OrderlyInv' /\ E /\ [Next]_vars => E'
    <2> SUFFICES ASSUME VInv, OrderlyInv, OrderlyInv', E, [Next]_vars, Ordered
                 PROVE  EntryInv'
      BY <1>2
    <2>1. OrderInv /\ OrderInv' /\ EntryInv /\ Transparent(conf.prog)
      BY ConfFixed DEF OrderlyInv, Orderly
    <2> QED
      BY <1>1, <2>1, EntryStep
  <1>4. E => EntriesValid
    BY DEF EntryInv, EntriesValid
  <1>5. Init => E
    BY EntryInit
  <1> HIDE DEF E, Ordered
  <1> QED
    BY <1>3, <1>4, <1>5, OrderAlways, PTL DEF Spec

=============================================================================
