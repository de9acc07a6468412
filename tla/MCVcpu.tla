------------------------------- MODULE MCVcpu -------------------------------
(***************************************************************************)
(* Instances of Vcpu for TLC: all programs of up to MaxLen instructions    *)
(* from an alphabet, followed by hlt.                                      *)
(***************************************************************************)
EXTENDS Vcpu

CONSTANTS
  MaxLen,   \* bound on the length of the programs of supported
            \*   instructions, their hlt not counted
  AllLen,   \* the same for programs of all instructions
  CallLen   \* length of the programs that make several calls

Instr(op) == [op |-> op]
Mov(rax, buf) == [op |-> "mov", rax |-> rax, buf |-> buf]

Write(bits) == [op |-> "mov_cr0", bits |-> bits, rex |-> FALSE]

Supported ==
  {Mov("write", "ok"), Mov("open", "ok"), Mov("leaf_max", "ok"),
   Instr("mov_rcx"), Instr("touch"), Instr("cpuid"), Instr("vmcall"),
   Instr("syscall"), Instr("lmsw"),
   [op |-> "rdmsr", msr |-> "EFER"],
   [op |-> "wrmsr", msr |-> "EFER", bits |-> {"LME"}],
   Write({"PE", "NE", "PG"})}

Refusable ==
  {Mov("read", "bad"), Mov("close", "ok"), Mov("leaf_1", "ok"),
   Mov("other", "ok"),
   [op |-> "rdmsr", msr |-> "other"],
   [op |-> "wrmsr", msr |-> "other", bits |-> {}]}

(* The mov to cr4 sets VMXE, which exits; Write({"NE"}) clears PE, after   *)
(* which lmsw exits.                                                       *)
Unsupported ==
  {Instr("fault"), Instr("touch_absent"), Instr("mov_cr4"), Write({"NE"})}

(* Instructions of 64-bit mode only.                                       *)
Wide ==
  {Instr("mov_cr8"),
   [op |-> "mov_cr0", bits |-> {"PE", "NE", "PG", "CD"}, rex |-> TRUE]}

Ended(alphabet, max) ==
  {Append(p, Instr("hlt")) : p \in UNION {[1 .. n -> alphabet] : n \in 0 .. max}}

(* Long mode is entered the way boot.asm does: EFER before paging.         *)
Boot == <<[op |-> "wrmsr", msr |-> "EFER", bits |-> {"LME"}],
          Write({"PE", "NE", "PG"})>>

InLongMode(progs) == {Boot \o p : p \in progs}

(* Longer programs that make several calls.                                *)
Calling == {Append(p, Instr("hlt")) :
              p \in [1 .. CallLen -> {Mov("write", "ok"), Mov("open", "ok"),
                                      Instr("syscall"), Instr("touch")}]}

MCSupported ==
  {p \in Ended(Supported, MaxLen) \cup InLongMode(Ended(Supported, MaxLen)) :
     Transparent(p) /\ LongModeOrder(p)} \cup InLongMode(Calling)
MCAll == MCSupported \cup
         Ended(Supported \cup Refusable \cup Unsupported, AllLen) \cup
         InLongMode(Ended(Supported \cup Refusable \cup Unsupported
                            \cup Wide, AllLen))
MCFault == InLongMode({<<Mov("write", "ok"), Instr("syscall"),
                         Mov("write", "ok"), Instr("fault"), Instr("hlt")>>})
MCMovCr == InLongMode({<<Instr("vmcall"), Instr("mov_cr8"), Instr("hlt")>>})

(* NMIs during the delivery of an event come to the other programs only.   *)
MCVectors(p) == IF p \in MCSupported THEN {0} ELSE {0, 1}

MCHooks == {{}, {"write", "close"}}

=============================================================================
