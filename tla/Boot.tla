-------------------------------- MODULE Boot --------------------------------
(***************************************************************************)
(* The boot kernel, boot.asm, run by vcpu_run on the VM that main has set  *)
(* up (Launch) and on the control state that emu.c keeps for it (Vmcs):    *)
(* from the start-up stack through paging and long mode to the main of the *)
(* application.                                                            *)
(*                                                                         *)
(* An action is a group of instructions up to the next one that exits.  A  *)
(* file that is shorter than the kernel, or a kernel or page tables that   *)
(* main has overwritten or not completed, execute as something else: the   *)
(* guest is lost and nothing further is said about it, nor about one that  *)
(* vcpu_run has moved on by two bytes at an NMI or machine check: it is    *)
(* astray.                                                                 *)
(***************************************************************************)
EXTENDS Launch, Vmcs

CONSTANTS
  BootLen,  \* cells of the assembled kernel, with its variables
  TssLen    \* cells of the task segment at TSS_BASE, which is StackAddr

ASSUME BootAssumption ==
  /\ BootLen \in Nat \ {0} /\ StartAddr + BootLen <= TableAddr
  /\ TssLen \in Nat /\ TssLen >= 2 /\ StackAddr + TssLen <= ArgvAddr

VARIABLES
  at,       \* position in boot.asm
  entered,  \* the guest runs; otherwise the loop of vcpu_run does
  saved,    \* app_entry, app_argc, app_argv, in halves, as popped
  cpu,      \* eax, cr3, cr4, and what the application starts with
  sp0       \* ghost: the stack pointer at the first instruction

bootVars == <<at, entered, saved, cpu, sp0>>
allVars == <<vars, vmcs, bootVars>>

Guest(label) == pc = "run" /\ entered /\ at = label
Exit == entered' = FALSE          \* the handler resumes the guest
NoExit == entered' = entered

CodeIntact == \A k \in 1 .. BootLen : mem[StartAddr + k - 1] = <<"kernel", k>>

(* Translation as the processor does it once paging is on.                 *)
PagingWorks == cpu.cr3 = <<"lo", TableAddr>> /\ TablesIntact
Runs == CodeIntact /\ ("PG" \in vmcs.cr0 => PagingWorks)

(* What the guest's instructions leave alone of main.                      *)
MainWaits == UNCHANGED <<pc, cmd, i, opt, log, ret, hv, args, entry, plugin,
                         torn, errors, failed>>

-----------------------------------------------------------------------------
(* The instructions of boot.asm.                                           *)

(* Variant: one word of the last number stays on the stack.                *)
pop_words_five ==
  /\ Guest("words") /\ Runs
  /\ saved' = Append(saved, mem[rsp])
  /\ rsp' = rsp + 1
  /\ at' = IF Len(saved) = 4 THEN "cr3" ELSE "words"
  /\ NoExit /\ MainWaits /\ UNCHANGED <<mem, vmcs, cpu, sp0>>

(* pop eax; mov [app_...], eax: six words.                                 *)
pop_words ==
  /\ Guest("words") /\ Runs
  /\ saved' = Append(saved, mem[rsp])
  /\ rsp' = rsp + 1
  /\ at' = IF Len(saved) = 5 THEN "cr3" ELSE "words"
  /\ NoExit /\ MainWaits /\ UNCHANGED <<mem, vmcs, cpu, sp0>>

(* pop eax; mov cr3, eax; push eax; and PGE and PAE into CR4, which does   *)
(* not exit: the host keeps VMXE only.                                     *)
load_cr3 ==
  /\ Guest("cr3") /\ Runs
  /\ cpu' = [cpu EXCEPT !.cr3 = mem[rsp], !.cr4 = @ \cup {"PGE", "PAE"}]
  /\ at' = "rdmsr"
  /\ NoExit /\ MainWaits /\ UNCHANGED <<mem, rsp, vmcs, saved, sp0>>

(* rdmsr and wrmsr of EFER exit to emu_rdmsr and emu_wrmsr.                *)
rdmsr ==
  /\ Guest("rdmsr") /\ Runs
  /\ cpu' = [cpu EXCEPT !.eax = vmcs.efer]
  /\ at' = "wrmsr"
  /\ Exit /\ MainWaits /\ UNCHANGED <<mem, rsp, vmcs, saved, sp0>>

wrmsr ==
  /\ Guest("wrmsr") /\ Runs
  /\ vmcs' = wrmsr_efer(cpu.eax \cup {"LME"})
  /\ at' = "paging"
  /\ Exit /\ MainWaits /\ UNCHANGED <<mem, rsp, saved, cpu, sp0>>

(* mov eax, cr0 reads the shadow; setting PG exits to emu_mov_cr.          *)
enable_paging ==
  /\ Guest("paging") /\ Runs
  /\ vmcs' = mov_to_cr0(vmcs.shadow \cup {"PG", "MP"})
  /\ at' = "segments"
  /\ Exit /\ MainWaits /\ UNCHANGED <<mem, rsp, saved, cpu, sp0>>

(* Variant: the segment is taken for one word longer than it is.           *)
Tss_long == [k \in 1 .. TssLen + 1 |-> IF k = 2 THEN mem[rsp] ELSE <<"zero", 0>>]

(* The task segment: zero but for RSP0, which gets the word on the stack.  *)
Tss == [k \in 1 .. TssLen |-> IF k = 2 THEN mem[rsp] ELSE <<"zero", 0>>]

(* lgdt, lidt, segment registers, task segment, and the far jump into      *)
(* 64-bit code.                                                            *)
load_segments ==
  /\ Guest("segments") /\ Runs
  /\ mem' = vm_mem_write(mem, StackAddr, Tss)
  /\ rsp' = rsp + 1
  /\ at' = "long"
  /\ NoExit /\ MainWaits /\ UNCHANGED <<vmcs, saved, cpu, sp0>>

Halt == <<<<"halt", 1>>, <<"halt", 2>>>>

(* push halt; push [app_entry]; rdi, rsi; ret.                             *)
jump_to_app ==
  /\ Guest("long") /\ Runs
  /\ mem' = vm_mem_write(mem, rsp - 4, SubSeq(saved, 1, 2) \o Halt)
  /\ rsp' = rsp - 2
  /\ cpu' = [cpu EXCEPT !.rip = SubSeq(saved, 1, 2),
                        !.rdi = SubSeq(saved, 3, 4),
                        !.rsi = SubSeq(saved, 5, 6)]
  /\ at' = IF SubSeq(saved, 1, 2) = Number(EntryGva) THEN "app" ELSE "lost"
  /\ NoExit /\ MainWaits /\ UNCHANGED <<vmcs, saved, sp0>>

(* The application's main returns (external); the stack is as it found it. *)
app_returns ==
  /\ Guest("app")
  /\ rsp' = rsp + 2
  /\ at' = IF <<mem[rsp], mem[rsp + 1]>> = Halt
           THEN "halt" ELSE "lost"
  /\ NoExit /\ MainWaits /\ UNCHANGED <<mem, vmcs, saved, cpu, sp0>>

(* Not the instructions of boot.asm any more.                              *)
derail ==
  /\ pc = "run" /\ entered /\ at \notin {"app", "halt", "lost", "astray"}
  /\ ~Runs
  /\ at' = "lost"
  /\ NoExit /\ MainWaits /\ UNCHANGED <<mem, rsp, vmcs, saved, cpu, sp0>>

(* Variant: the loop resumes a guest that halted.                          *)
halt_resumes ==
  /\ Guest("halt")
  /\ Exit /\ UNCHANGED <<vars, vmcs, at, saved, cpu, sp0>>

(* hlt ends the loop, and vcpu_run returns to main.                        *)
halt ==
  /\ Guest("halt")
  /\ at' = "halted" /\ Exit
  /\ vcpu_run
  /\ UNCHANGED <<vmcs, saved, cpu, sp0>>

(* A guest that is lost or astray may come to an exit that ends the loop,  *)
(* or never do so.                                                         *)
lost_stops ==
  /\ \/ Guest("lost") /\ at' = "stopped"
     \/ Guest("astray") /\ at' = "nmi"
  /\ Exit
  /\ vcpu_run
  /\ UNCHANGED <<vmcs, saved, cpu, sp0>>

-----------------------------------------------------------------------------
(* The loop of vcpu_run.                                                   *)

(* VM entry (external) also wants PAE for a guest in IA-32e mode.          *)
Enterable == EntryValid /\ (vmcs.lma => "PAE" \in cpu.cr4)

(* The guest is entered, unless the entry checks refuse it; the framework  *)
(* may report an error at any time.                                        *)
hv_vcpu_run ==
  /\ pc = "run" /\ ~entered
  /\ \/ /\ Enterable /\ entered' = TRUE
        /\ sp0' = IF at = "words" /\ saved = <<>> THEN rsp ELSE sp0
        /\ UNCHANGED <<vars, at>>
     \/ /\ at' = IF Enterable THEN "error" ELSE "refused"
        /\ vcpu_run /\ UNCHANGED <<entered, sp0>>
  /\ UNCHANGED <<vmcs, saved, cpu>>

(* The end of a time slice exits and is resumed.                           *)
irq ==
  /\ pc = "run" /\ entered
  /\ Exit
  /\ UNCHANGED <<vars, vmcs, at, saved, cpu, sp0>>

(* An NMI or machine check ends the loop, or, when it comes during the     *)
(* delivery of an event, moves rip on by two bytes, whatever they are.     *)
exc_nmi ==
  /\ pc = "run" /\ entered
  /\ Exit
  /\ \/ at' = "nmi" /\ vcpu_run
     \/ at' = (IF at = "lost" THEN at ELSE "astray") /\ UNCHANGED vars
  /\ UNCHANGED <<vmcs, saved, cpu, sp0>>

-----------------------------------------------------------------------------

NoWords == <<<<"zero", 0>>, <<"zero", 0>>>>

(* The VMCS has the values of vcpu_setup_ia32; nobody looks at it before.  *)
BootInit ==
  /\ Init /\ vmcs_setup
  /\ at = "words" /\ entered = FALSE /\ saved = <<>> /\ sp0 = 0
  /\ cpu = [eax |-> {}, cr3 |-> <<"zero", 0>>, cr4 |-> {"VMXE"},
            rip |-> NoWords, rdi |-> NoWords, rsi |-> NoWords]

Main == (SetUp \/ CleanUp \/ Over) /\ UNCHANGED <<vmcs, bootVars>>

Instructions ==
  \/ pop_words \/ load_cr3 \/ rdmsr \/ wrmsr \/ enable_paging
  \/ load_segments \/ jump_to_app \/ derail \/ halt

BootNext == \/ Main \/ hv_vcpu_run \/ irq \/ exc_nmi
            \/ Instructions \/ app_returns \/ lost_stops

(* The host takes its steps; the guest completes an instruction at some    *)
(* time although slices end.                                               *)
BootSpec == /\ BootInit /\ [][BootNext]_allVars
            /\ WF_allVars(Main \/ hv_vcpu_run) /\ SF_allVars(Instructions)

-----------------------------------------------------------------------------

(* What main has to have got right before the guest starts: everything     *)
(* fits, the page tables and the kernel are whole, the application names   *)
(* its entry point, the three pushes worked.                               *)
Prepared == /\ Fits /\ ~torn /\ cmd.kernel >= BootLen /\ cmd.main
            /\ sp0 = StackAddr - 7

(* The application's main starts with the arguments of the command line:   *)
(* at the entry point, argc and argv in rdi and rsi, the table and the     *)
(* strings as given, in long mode on the host's tables, with a return      *)
(* address on the stack that halts the VM.                                 *)
StartState ==
  at = "app" /\ pc = "run" /\ Prepared =>
    /\ cpu.rip = Number(EntryGva)
    /\ cpu.rdi = Number(Len(cmd.args)) /\ cpu.rsi = Number(ArgvAddr)
    /\ ArgsIntact /\ Runs /\ Holds(rsp, Halt)
    /\ {"LME", "LMA", "SCE"} \subseteq vmcs.efer /\ "PG" \in vmcs.cr0
    /\ "PAE" \in cpu.cr4

(* A VM that main prepared reaches the application, through any number of  *)
(* time slices, unless the framework reports an error or an NMI or machine *)
(* check arrives, which vcpu_run does not hide from the guest.             *)
BootReachesApp ==
  (pc = "run" /\ Prepared)
    ~> (at \in {"app", "halt", "halted", "error", "nmi", "astray"})

(* When the application returns, hvexec ends, unless vcpu_run skips the    *)
(* hlt for an NMI or machine check.                                        *)
ReturnEnds == (at = "halt") ~> (pc = "exit" \/ at = "astray")

(* A guest that was properly started and is not sent astray never runs     *)
(* anything but boot.asm and the application, and when the application     *)
(* returns the VM halts; without an entry point, or with a push that       *)
(* failed, no application is started.                                      *)
NeverLost ==
  /\ Prepared => at \notin {"lost", "stopped", "refused"}
  /\ at = "app" => cmd.main /\ sp0 = StackAddr - 7

=============================================================================
