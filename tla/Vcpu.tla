-------------------------------- MODULE Vcpu --------------------------------
(***************************************************************************)
(* The run loop of Hvexec: vcpu_run, the handlers of emu.c it dispatches   *)
(* to, the system calls of emu_syscall.c with their plugin callbacks, and  *)
(* a guest program for them to serve.                                      *)
(*                                                                         *)
(* A program is a sequence of instructions and rip a position in it.  An   *)
(* instruction has the length its encoding has; a handler adds the number  *)
(* of bytes the code adds, and where the two differ rip is left inside an  *)
(* instruction (off).  Register values are abstracted to what the handlers *)
(* look at: rax a system call number, a CPUID leaf or another value, rcx   *)
(* the position after a syscall instruction or 0 for any other value, buf  *)
(* whether rsi and rdx name a buffer that vm_mem_verify accepts.           *)
(***************************************************************************)
EXTENDS Sequences, FiniteSets, Vmcs

CONSTANTS
  Programs,   \* guest programs
  Hooks,      \* sets of system calls a plugin may have hooked
  Vectors(_)  \* for a program, the IDT vector numbers that an NMI or a
              \*   machine check may report while it runs

Calls == {"read", "write", "open", "close"}

(* Bytes of an instruction's encoding.  A mov to cr0 from r8 - r15 takes a *)
(* REX prefix, which 64-bit mode has; so does every access to cr8.         *)
Length(instr) ==
  CASE instr.op = "hlt" -> 1
    [] instr.op \in {"rdmsr", "wrmsr", "cpuid", "syscall", "fault"} -> 2
    [] instr.op \in {"vmcall", "lmsw", "mov_cr4"} -> 3
    [] instr.op = "mov_cr0" -> IF instr.rex THEN 4 ELSE 3
    [] instr.op = "mov_cr8" -> 4
    [] instr.op \in {"mov", "mov_rcx", "touch", "touch_absent"} -> 7

Ops == {"mov", "mov_rcx", "touch", "touch_absent", "rdmsr", "wrmsr", "mov_cr0",
        "lmsw", "mov_cr4", "mov_cr8", "cpuid", "vmcall", "syscall",
        "fault", "hlt"}

Rax == Calls \cup {"zero", "efer", "leaf_max", "leaf_1", "result", "other"}
Bits == {"PE", "ET", "NE", "CD", "PG", "LME", "LMA", "NXE", "SCE"}

Instructions ==
  [op : Ops \ {"mov", "rdmsr", "wrmsr", "mov_cr0"}]
    \cup [op : {"mov"}, rax : Rax, buf : {"ok", "bad"}]
    \cup [op : {"rdmsr"}, msr : {"EFER", "other"}]
    \cup [op : {"wrmsr"}, msr : {"EFER", "other"}, bits : SUBSET Bits]
    \cup [op : {"mov_cr0"}, bits : SUBSET Bits, rex : BOOLEAN]

ASSUME VcpuAssumption ==
  /\ Programs \subseteq Seq(Instructions)
  /\ \A p \in Programs : p # <<>> /\ p[Len(p)].op = "hlt"
  /\ \A h \in Hooks : h \subseteq Calls
  /\ \A p \in Programs : Vectors(p) \subseteq Nat

VARIABLES
  conf,      \* program, hooked calls, interactive flag: fixed at the start
  mode,      \* "host" before hv_vcpu_run, "guest", "exit" or "stopped"
  rip,       \* position of the next instruction; off when inside one
  regs,      \* rax, rcx, rdx and the buffer in rsi
  exit,      \* reason of the last exit and what brought it about
  resident,  \* positions whose memory operand has been paged in
  trace,     \* ghost: positions of the instructions that took effect
  made,      \* ghost: the system calls that the guest has executed
  calls      \* ghost: the calls that were answered, and who was asked

vars == <<conf, mode, rip, regs, vmcs, exit, resident, trace, made, calls>>

Cur == conf.prog[rip.at]

(* Where rip comes to lie when n bytes are added to it.                    *)
Plus(n) == [at  |-> IF n < Length(Cur) THEN rip.at ELSE rip.at + 1,
            off |-> n # Length(Cur)]

(* The instruction at rip takes effect.                                    *)
Retire == trace' = Append(trace, rip.at)

-----------------------------------------------------------------------------
(* The processor (external).                                               *)

(* A write to CR0 exits when it changes a bit that CR0_MASK keeps for the  *)
(* host, seen against the shadow; the bits modelled are such bits, and     *)
(* lmsw can set PE only.                                                   *)
Cr0Exits ==
  \/ Cur.op = "mov_cr0" /\ Cur.bits # vmcs.shadow
  \/ Cur.op = "lmsw" /\ "PE" \notin vmcs.shadow

(* The instructions that run without an exit.                              *)
RunsOn ==
  /\ mode = "guest" /\ ~rip.off
  /\ \/ /\ Cur.op = "mov"
        /\ regs' = [regs EXCEPT !.rax = Cur.rax, !.buf = Cur.buf]
     \/ /\ Cur.op \in {"mov_cr0", "lmsw"} /\ ~Cr0Exits
        /\ UNCHANGED regs
     \/ /\ Cur.op = "mov_rcx"
        /\ regs' = [regs EXCEPT !.rcx = 0]
     \/ /\ Cur.op = "touch" /\ rip.at \in resident
        /\ UNCHANGED regs
  /\ rip' = Plus(Length(Cur))
  /\ Retire
  /\ UNCHANGED <<conf, mode, vmcs, exit, resident, made, calls>>

Reason(op) == CASE op \in {"touch", "touch_absent"} -> "EPT_VIOLATION"
                [] op = "rdmsr" -> "RDMSR"
                [] op = "wrmsr" -> "WRMSR"
                [] op \in {"mov_cr0", "lmsw", "mov_cr4", "mov_cr8"}
                     -> "MOV_CR"
                [] op = "cpuid" -> "CPUID"
                [] op = "vmcall" -> "VMCALL"
                [] op = "hlt" -> "HLT"
                [] op \in {"syscall", "fault"} -> "TRIPLE_FAULT"

(* syscall is an instruction only once EFER.SCE is set.                    *)
SyscallOn == Cur.op = "syscall" /\ "SCE" \in vmcs.efer

(* The instructions that exit.  syscall stores the address of the next     *)
(* instruction in rcx before its handler faults; rdmsr and wrmsr have the  *)
(* register's number in rcx.                                               *)
Exits ==
  /\ mode = "guest" /\ ~rip.off
  /\ Cur.op \notin {"mov", "mov_rcx"}
  /\ Cur.op = "touch" => rip.at \notin resident
  /\ Cur.op \in {"mov_cr0", "lmsw"} => Cr0Exits
  /\ regs' = [regs EXCEPT !.rcx = CASE SyscallOn -> rip.at + 1
                                    [] Cur.op \in {"rdmsr", "wrmsr"} -> 0
                                    [] OTHER -> @]
  /\ resident' = IF Cur.op = "touch" THEN resident \cup {rip.at} ELSE resident
  /\ exit' = [reason |-> Reason(Cur.op), vector |-> 0,
              by |-> IF Cur.op = "syscall" /\ ~SyscallOn
                     THEN "fault" ELSE Cur.op]
  /\ mode' = "exit"
  /\ made' = IF SyscallOn
             THEN Append(made, [at |-> rip.at, call |-> regs.rax]) ELSE made
  /\ UNCHANGED <<conf, rip, vmcs, trace, calls>>

(* A time slice ends; a machine check or NMI arrives, during the delivery  *)
(* of an event (vector # 0) or not.                                        *)
Interrupted ==
  /\ mode = "guest"
  /\ \/ exit' = [reason |-> "IRQ", by |-> "event", vector |-> 0]
     \/ \E v \in Vectors(conf.prog) :
           exit' = [reason |-> "EXC_NMI", by |-> "event", vector |-> v]
  /\ mode' = "exit"
  /\ UNCHANGED <<conf, rip, regs, vmcs, resident, trace, made, calls>>

(* Inside an instruction the bytes mean something else: the guest faults   *)
(* or falls into step again further on.                                    *)
Derailed ==
  /\ mode = "guest" /\ rip.off
  /\ \/ /\ exit' = [reason |-> "TRIPLE_FAULT", by |-> "fault", vector |-> 0]
        /\ mode' = "exit"
        /\ UNCHANGED rip
     \/ /\ \E i \in rip.at + 1 .. Len(conf.prog) :
              rip' = [at |-> i, off |-> FALSE]
        /\ UNCHANGED <<mode, exit>>
  /\ UNCHANGED <<conf, regs, vmcs, resident, trace, made, calls>>

-----------------------------------------------------------------------------
(* vcpu_run, lines 262-269: the framework enters the guest, or it reports  *)
(* an error, as it must when the entry checks fail.                        *)
hv_vcpu_run ==
  /\ mode = "host"
  /\ \/ EntryValid /\ mode' = "guest"
     \/ mode' = "stopped"
  /\ UNCHANGED <<conf, rip, regs, vmcs, exit, resident, trace, made, calls>>

(* Variant: an IRQ exit falls through to the default case.                 *)
Handles_no_irq(reason) ==
  mode = "exit" /\ reason = IF exit.reason = "IRQ" THEN "TRIPLE_FAULT"
                            ELSE exit.reason

Handles(reason) == mode = "exit" /\ exit.reason = reason

(* A handler that goes on with the loop, and one that sets stop.           *)
Resume == mode' = "host" /\ UNCHANGED <<conf, exit, resident>>
StopLoop == mode' = "stopped" /\ UNCHANGED <<conf, exit, resident>>

(* Lines 289-305: rip is moved on by two bytes whatever it points to.      *)
Skip2 == IF rip.off THEN rip ELSE Plus(2)

vmx_exc_nmi ==
  /\ Handles("EXC_NMI")
  /\ \/ exit.vector = 0 /\ StopLoop /\ UNCHANGED rip
     \/ exit.vector # 0 /\ Resume /\ rip' = Skip2
  /\ UNCHANGED <<regs, vmcs, trace, made, calls>>

(* Lines 306-310 and 328-331: nothing is done; the instruction is retried. *)
vmx_irq_or_ept ==
  /\ Handles("IRQ") \/ Handles("EPT_VIOLATION")
  /\ Resume
  /\ UNCHANGED <<rip, regs, vmcs, trace, made, calls>>

(* Variant: rip stays at the vmcall.                                       *)
vmx_vmcall_in_place ==
  /\ Handles("VMCALL")
  /\ Resume /\ Retire
  /\ UNCHANGED <<rip, regs, vmcs, made, calls>>

(* Lines 311-323: rip moves by the instruction length the framework gives. *)
vmx_vmcall ==
  /\ Handles("VMCALL")
  /\ Resume
  /\ rip' = Plus(Length(Cur))
  /\ Retire
  /\ UNCHANGED <<regs, vmcs, made, calls>>

(* Variant: hlt does not set stop.                                         *)
vmx_hlt_goes_on ==
  /\ Handles("HLT")
  /\ Resume
  /\ UNCHANGED <<rip, regs, vmcs, trace, made, calls>>

vmx_hlt ==
  /\ Handles("HLT")
  /\ StopLoop
  /\ UNCHANGED <<rip, regs, vmcs, trace, made, calls>>

emu_rdmsr ==
  /\ Handles("RDMSR")
  /\ \/ /\ Cur.msr = "EFER"
        /\ regs' = [regs EXCEPT !.rax = "efer", !.rdx = "efer"]
        /\ rip' = Plus(2)
        /\ Resume /\ Retire
     \/ /\ Cur.msr # "EFER"
        /\ StopLoop
        /\ UNCHANGED <<rip, regs, trace>>
  /\ UNCHANGED <<vmcs, made, calls>>

emu_wrmsr ==
  /\ Handles("WRMSR")
  /\ \/ /\ Cur.msr = "EFER"
        /\ vmcs' = wrmsr_efer(Cur.bits)
        /\ rip' = Plus(2)
        /\ Resume /\ Retire
     \/ /\ Cur.msr # "EFER"
        /\ StopLoop
        /\ UNCHANGED <<rip, vmcs, trace>>
  /\ UNCHANGED <<regs, made, calls>>

emu_mov_cr ==
  /\ Handles("MOV_CR")
  /\ Resume
  /\ \/ /\ Cur.op = "mov_cr0"
        /\ vmcs' = mov_to_cr0(Cur.bits)
        /\ rip' = Plus(3)
        /\ Retire
     \/ /\ Cur.op \in {"lmsw", "mov_cr4", "mov_cr8"}
        /\ UNCHANGED <<rip, vmcs, trace>>
  /\ UNCHANGED <<regs, made, calls>>

emu_cpuid ==
  /\ Handles("CPUID")
  /\ regs' = CASE regs.rax = "leaf_max" -> [regs EXCEPT !.rax = "leaf_1"]
               [] regs.rax = "leaf_1"   -> [regs EXCEPT !.rdx = "long_mode"]
               [] OTHER                 -> regs
  /\ rip' = Plus(2)
  /\ Resume /\ Retire
  /\ UNCHANGED <<vmcs, made, calls>>

(* vcpu_run, lines 348-378: rcx stands behind a syscall instruction.       *)
SyscallFound == regs.rcx > 1 /\ conf.prog[regs.rcx - 1].op = "syscall"

AfterSyscall == [at |-> regs.rcx, off |-> FALSE]

vmx_unhandled ==
  /\ Handles("TRIPLE_FAULT")
  /\ ~SyscallFound
  /\ StopLoop
  /\ UNCHANGED <<rip, regs, vmcs, trace, made, calls>>

(* emu_syscall: an unsupported number, a buffer vm_mem_verify rejects, or  *)
(* the user's q ends the run; rip has been set already.                    *)
Refused ==
  \/ regs.rax \notin Calls
  \/ regs.rax \in {"read", "write"} /\ regs.buf = "bad"
  \/ conf.interactive

(* Variant: the host's call is made before the checks.                     *)
emu_syscall_refused_late ==
  /\ Handles("TRIPLE_FAULT")
  /\ SyscallFound
  /\ Refused
  /\ rip' = AfterSyscall
  /\ calls' = Append(calls, [at |-> regs.rcx - 1, call |-> regs.rax,
                            by |-> <<"host">>])
  /\ StopLoop
  /\ UNCHANGED <<regs, vmcs, trace, made>>

emu_syscall_refused ==
  /\ Handles("TRIPLE_FAULT")
  /\ SyscallFound
  /\ Refused
  /\ rip' = AfterSyscall
  /\ StopLoop
  /\ UNCHANGED <<regs, vmcs, trace, made, calls>>

(* The plugin's callback answers, or there is none, or it declines and the *)
(* host's own system call answers.                                         *)
Answers(call) == IF call \in conf.hooks
                 THEN {<<"plugin">>, <<"declined", "host">>} ELSE {<<"host">>}

Accepted ==
  /\ regs.rax \in Calls
  /\ regs.rax \in {"read", "write"} => regs.buf = "ok"

(* Variant: the result goes to rdx.                                        *)
emu_syscall_rdx ==
  /\ Handles("TRIPLE_FAULT")
  /\ SyscallFound
  /\ Accepted
  /\ regs' = [regs EXCEPT !.rdx = "result"]
  /\ rip' = AfterSyscall
  /\ trace' = Append(trace, regs.rcx - 1)
  /\ Resume
  /\ UNCHANGED <<vmcs, made, calls>>

emu_syscall ==
  /\ Handles("TRIPLE_FAULT")
  /\ SyscallFound
  /\ Accepted
  /\ \E a \in Answers(regs.rax) :
        calls' = Append(calls, [at |-> regs.rcx - 1, call |-> regs.rax,
                                by |-> a])
  /\ regs' = [regs EXCEPT !.rax = "result"]
  /\ rip' = AfterSyscall
  /\ trace' = Append(trace, regs.rcx - 1)
  /\ Resume
  /\ UNCHANGED <<vmcs, made>>

-----------------------------------------------------------------------------
(* vcpu_setup_ia32: the registers and controls before the first entry.     *)
vcpu_setup_ia32 ==
  /\ rip = [at |-> 1, off |-> FALSE]
  /\ regs = [rax |-> "zero", rcx |-> 0, rdx |-> "zero", buf |-> "ok"]
  /\ vmcs_setup

Init ==
  /\ conf \in [prog : Programs, hooks : Hooks, interactive : BOOLEAN]
  /\ vcpu_setup_ia32
  /\ mode = "host"
  /\ exit = [reason |-> "none", by |-> "none", vector |-> 0]
  /\ resident = {}
  /\ trace = <<>> /\ made = <<>> /\ calls = <<>>

Guest == RunsOn \/ Exits \/ Derailed

Host ==
  \/ hv_vcpu_run
  \/ vmx_exc_nmi \/ vmx_irq_or_ept \/ vmx_vmcall \/ vmx_hlt
  \/ emu_rdmsr \/ emu_wrmsr \/ emu_mov_cr \/ emu_cpuid
  \/ vmx_unhandled \/ emu_syscall_refused \/ emu_syscall

(* The loop has ended and vcpu_run has returned.                           *)
Returned == mode = "stopped" /\ UNCHANGED vars

Next == Guest \/ Interrupted \/ Host \/ Returned

(* The host's thread keeps running its loop; a guest that is entered again *)
(* and again gets, at some time, to its next instruction before the slice  *)
(* ends.                                                                   *)
Spec == Init /\ [][Next]_vars /\ WF_vars(Host) /\ SF_vars(Guest)

-----------------------------------------------------------------------------
(* Types.                                                                  *)
TypeOK ==
  /\ conf.hooks \subseteq Calls /\ conf.interactive \in BOOLEAN
  /\ mode \in {"host", "guest", "exit", "stopped"}
  /\ rip.at \in 1 .. Len(conf.prog) + 1 /\ rip.off \in BOOLEAN
  /\ regs.rax \in Rax
  /\ regs.rcx \in 0 .. Len(conf.prog)
  /\ regs.rdx \in {"zero", "efer", "long_mode"}
  /\ regs.buf \in {"ok", "bad"}
  /\ DOMAIN vmcs = {"efer", "cr0", "shadow", "lma"} /\ vmcs.lma \in BOOLEAN
  /\ resident \subseteq 1 .. Len(conf.prog)
  /\ \A i \in DOMAIN trace : trace[i] \in 1 .. Len(conf.prog)
  /\ \A i \in DOMAIN made : made[i].at \in 1 .. Len(conf.prog)
  /\ \A i \in DOMAIN calls : calls[i].call \in Calls

(* A handler that stops the loop has done nothing for the guest: no system *)
(* call is answered half-way, no register or control is written.           *)
StopIsClean ==
  [][mode = "exit" /\ mode' = "stopped" =>
       UNCHANGED <<regs, vmcs, trace, made, calls>>]_vars

(* Programs that Hvexec runs as the processor would: no fault, which a     *)
(* stale rcx would turn into a system call; no mov to cr0 longer than the  *)
(* three bytes that emu_mov_cr adds; and SCE, which turning on paging sets *)
(* as well, stays on.                                                      *)
TurnsOnCalls(instr) ==
  instr.op = "mov_cr0" \/ (instr.op = "wrmsr" /\ "SCE" \in instr.bits)

Transparent(p) ==
  /\ \A i \in 1 .. Len(p) :
       p[i].op # "fault" /\ (p[i].op = "mov_cr0" => ~p[i].rex)
  /\ \A i, j \in 1 .. Len(p) :
       i < j /\ TurnsOnCalls(p[i]) /\ p[j].op = "wrmsr" => "SCE" \in p[j].bits

(* Programs that enter long mode the way boot.asm does, EFER before        *)
(* paging, leave LMA to the processor, paging on, and the bits of CR0      *)
(* alone that VM entry insists on.                                         *)
LongModeOrder(p) ==
  /\ \A i \in 1 .. Len(p) :
       /\ p[i].op = "wrmsr" => "LMA" \notin p[i].bits
       /\ p[i].op = "mov_cr0" =>
            "NE" \in p[i].bits /\ ("PG" \in p[i].bits => "PE" \in p[i].bits)
  /\ \A i, j \in 1 .. Len(p) :
       i < j /\ p[i].op = "mov_cr0" =>
         /\ p[j].op # "wrmsr"
         /\ p[j].op = "mov_cr0" /\ "PG" \in p[i].bits => "PG" \in p[j].bits

(* Programs without an instruction that exits again for ever: no memory is *)
(* absent, and no control register is written that emu_mov_cr leaves alone *)
(* (lmsw exits only once PE is clear).                                     *)
Completes(p) ==
  \A i \in 1 .. Len(p) :
    /\ p[i].op \notin {"touch_absent", "mov_cr4", "mov_cr8"}
    /\ p[i].op = "mov_cr0" => "PE" \in p[i].bits

(* A guest that is not derailed: its program is transparent, and no event  *)
(* moves rip on by two bytes.                                              *)
Orderly == Vectors(conf.prog) \subseteq {0} /\ Transparent(conf.prog)

(* For the instructions Hvexec supports the loop, its exits, retries and   *)
(* plugins are invisible: every instruction takes effect exactly once and  *)
(* in order.  Nothing is said of a guest that is not orderly.              *)
Machine == INSTANCE Native WITH prog <- conf.prog, over <- mode = "stopped",
                                trace <- IF Orderly THEN trace ELSE <<>>

ImplementsNative == Machine!Spec

(* A program that ends in hlt makes the loop terminate, however often the  *)
(* guest is interrupted.                                                   *)
Terminates == Orderly /\ Completes(conf.prog) => <>(mode = "stopped")

(* A guest that sets EFER.LME before it turns paging on can be entered at  *)
(* every iteration: EFER, CR0 and the entry controls stay consistent.      *)
EntriesValid ==
  Orderly /\ LongModeOrder(conf.prog) /\ mode = "host" => EntryValid

(* Of those asked to answer a call one does; the others decline.           *)
Once(by) == \E k \in DOMAIN by : \A j \in DOMAIN by : by[j] # "declined" <=> j = k

(* The system calls that the loop answers are those which the guest has    *)
(* executed, in their order and with the number each had in rax, and each  *)
(* is answered once, by the plugin or by the host: rcx, which outlives its *)
(* call, makes none be answered again, at the next interrupt, page-in or   *)
(* call, and none is left out.  Only the call that is being handled, or    *)
(* with which the loop has ended, may be unanswered.                       *)
OneAnswer ==
  Orderly =>
    /\ Len(calls) <= Len(made)
    /\ \A k \in 1 .. Len(calls) : /\ calls[k].at = made[k].at
                                  /\ calls[k].call = made[k].call
                                  /\ Once(calls[k].by)
    /\ Len(calls) < Len(made) =>
         /\ Len(made) = Len(calls) + 1
         /\ mode = "stopped" \/ (mode = "exit" /\ exit.by = "syscall")

(* An exit of the default case that no syscall caused ends the loop.       *)
TripleFaultStops ==
  [][mode = "exit" /\ exit.reason = "TRIPLE_FAULT" /\ exit.by = "fault"
       => mode' = "stopped"]_vars

(* A handler that goes on after an emulated instruction has moved rip to   *)
(* the next instruction.                                                   *)
EmulatedAdvances ==
  [][mode = "exit" /\ mode' = "host" /\ exit.reason \in
       {"VMCALL", "RDMSR", "WRMSR", "MOV_CR", "CPUID"}
       => rip' = [at |-> rip.at + 1, off |-> FALSE]]_vars

=============================================================================
