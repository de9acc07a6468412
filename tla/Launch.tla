------------------------------- MODULE Launch -------------------------------
(***************************************************************************)
(* main of hvexec.c from the command line to the exit status: options,     *)
(* set-up in order, the boot kernel (load_raw), the plugin (load_plugin),  *)
(* the application (load_mach_obj), the arguments and the start-up stack   *)
(* in guest memory, and the labels of the clean-up.                        *)
(*                                                                         *)
(* Guest memory is counted in cells of four bytes, the unit boot.asm pops, *)
(* from guest-physical address 0: the sixteen low pages and behind them    *)
(* the page tables.  A cell holds what was last put there: half of a       *)
(* 64-bit number, a piece of the descriptor table, of the kernel, of an    *)
(* argument, or of a page table that map_gva built (GuestPaging).  A       *)
(* string takes whole cells.  Calls to the system may fail at any time.    *)
(* A table that map_gva could not allocate is missed in torn only: its     *)
(* cells are there all the same, and what map_gva then writes through an   *)
(* address it never got is left to GuestPaging.                            *)
(***************************************************************************)
EXTENDS Integers, Sequences, FiniteSets, SequencesExt

CONSTANTS
  Commands,   \* command lines: options, lengths of the arguments in cells,
              \*   size of the kernel file, whether the application has LC_MAIN
  GdtLen,     \* cells of the descriptor table at 0
  StackAddr,  \* CONF_STACK_ADDR
  ArgvAddr,   \* CONF_ARGV_ADDR
  ArgsAddr,   \* CONF_ARGS_ADDR
  StartAddr,  \* CONF_START_ADDR
  TableAddr,  \* end of the CONF_INIT_NUM_PAGES low pages, address of the pml4
  LowTables,  \* cells of the tables that map the low pages
  AppTables,  \* cells of the tables that map the application
  EntryGva,   \* the application's entry point
  Residue     \* what an uninitialized stack word of main can hold

Levels == <<"DEBUG", "INFO", "WARN", "ERROR", "SILENT">>

(* A file's name is not empty: no file has the empty name.                 *)
Options == [o : {"i"}, v : {""}]
             \cup [o : {"l"}, v : Range(Levels) \cup {"other"}]
             \cup [o : {"o", "k", "s"}, v : STRING \ {""}]
             \cup [o : {"?"}, v : {""}]

ASSUME LaunchAssumption ==
  /\ {GdtLen, StackAddr, ArgvAddr, ArgsAddr, StartAddr, TableAddr, LowTables,
      AppTables, EntryGva} \subseteq Nat
  /\ Residue \subseteq Nat /\ Residue # {}
  /\ GdtLen + 7 <= StackAddr   \* room for the root's address and three pushes
  /\ StackAddr < ArgvAddr /\ ArgvAddr < ArgsAddr /\ ArgsAddr < StartAddr
  /\ StartAddr < TableAddr /\ LowTables > 0
  /\ \A c \in Commands : /\ c.opts \in Seq(Options) /\ c.args \in Seq(Nat \ {0})
                         /\ c.kernel \in Nat /\ c.main \in BOOLEAN

VARIABLES
  pc,      \* position in main
  cmd,     \* the command line and the files it names
  i,       \* options parsed so far; then arguments laid out so far
  opt,     \* interactive, level, output, kernel, plugin as parsed
  log,     \* _log_level and _log_fildes
  ret,     \* ret_val
  hv,      \* what exists in Hypervisor.framework: vm, vcpu
  mem,     \* guest-physical memory, a function on 0 .. its size - 1
  rsp,     \* the VCPU's stack pointer
  args,    \* args_addr: where the next string goes
  entry,   \* entry_gva
  plugin,  \* is the library open, and which callbacks are in _ops
  torn,    \* map_gva has gone on without one of the tables
  errors,  \* ghost: files that have an ERROR line
  failed   \* ghost: positions whose call has failed and was noticed

vars == <<pc, cmd, i, opt, log, ret, hv, mem, rsp, args, entry, plugin,
          torn, errors, failed>>

-----------------------------------------------------------------------------
(* Logging.                                                                *)

Rank(level) == CHOOSE n \in 1 .. Len(Levels) : Levels[n] = level

(* Variant: a message of the chosen level itself is left out.              *)
LOG_strict(level) ==
  errors' = IF level = "ERROR" /\ Rank(log.level) < Rank(level)
            THEN errors \cup {log.file} ELSE errors

LOG(level) ==
  errors' = IF level = "ERROR" /\ Rank(log.level) <= Rank(level)
            THEN errors \cup {log.file} ELSE errors

(* ELOG, ret_val and goto: how every failed call in main ends.             *)
Fail(status, label) ==
  /\ LOG("ERROR")
  /\ ret' = status
  /\ failed' = failed \cup {pc}
  /\ pc' = label

Proceed(label) == pc' = label /\ UNCHANGED <<ret, errors, failed>>

-----------------------------------------------------------------------------
(* Guest memory.                                                           *)

Size == Cardinality(DOMAIN mem)   \* memory is contiguous from 0

(* The two halves of a 64-bit number, low one first.                       *)
Number(v) == <<<<"lo", v>>, <<"hi", v>>>>

(* vm_mem_write stores until it meets an address that is not mapped, and   *)
(* returns how far it came.                                                *)
vm_mem_write(m, a, cells) ==
  [c \in DOMAIN m |-> IF c - a + 1 \in 1 .. Len(cells)
                      THEN cells[c - a + 1] ELSE m[c]]
Complete(m, a, cells) == \A k \in 1 .. Len(cells) : a + k - 1 \in DOMAIN m

Tables(from, n) == [c \in from .. from + n - 1 |-> <<"table", c>>]
Extend(m, t) == [c \in DOMAIN m \cup DOMAIN t |->
                   IF c \in DOMAIN t THEN t[c] ELSE m[c]]

-----------------------------------------------------------------------------
(* Options.                                                                *)

Usage == pc' = "exit" /\ ret' = 1 /\ UNCHANGED <<errors, failed>>

(* One turn of the getopt loop; fopen may fail.                            *)
getopt ==
  /\ pc = "options" /\ i < Len(cmd.opts)
  /\ i' = i + 1
  /\ LET c == cmd.opts[i + 1] IN
       \/ /\ c.o = "i" /\ opt' = [opt EXCEPT !.interactive = TRUE]
          /\ Proceed("options")
       \/ /\ c.o = "l" /\ c.v # "other" /\ opt' = [opt EXCEPT !.level = c.v]
          /\ Proceed("options")
       \/ /\ c.o = "o" /\ opt' = [opt EXCEPT !.output = c.v]
          /\ Proceed("options")
       \/ /\ c.o = "k" /\ opt' = [opt EXCEPT !.kernel = c.v]
          /\ Proceed("options")
       \/ /\ c.o = "s" /\ opt' = [opt EXCEPT !.plugin = c.v]
          /\ Proceed("options")
       \/ /\ c.o \in {"o", "?"} \/ c = [o |-> "l", v |-> "other"]
          /\ Usage /\ UNCHANGED opt
  /\ UNCHANGED <<cmd, log, hv, mem, rsp, args, entry, plugin, torn>>

init_logging(level, file) == log' = [level |-> level, file |-> file]

(* A kernel and an executable are required; then logging starts.           *)
main_options_done ==
  /\ pc = "options" /\ i = Len(cmd.opts)
  /\ i' = 0
  /\ IF opt.kernel = "" \/ cmd.args = <<>>
     THEN Usage /\ UNCHANGED log
     ELSE /\ init_logging(opt.level, opt.output)
          /\ Proceed("vm")
  /\ UNCHANGED <<cmd, opt, hv, mem, rsp, args, entry, plugin, torn>>

-----------------------------------------------------------------------------
(* Set-up.                                                                 *)

hv_vm_create ==
  /\ pc = "vm"
  /\ \/ hv' = [hv EXCEPT !.vm = TRUE] /\ Proceed("mem")
     \/ Fail(1, "vm_destroy") /\ UNCHANGED hv
  /\ UNCHANGED <<cmd, i, opt, log, mem, rsp, args, entry, plugin, torn>>

(* The low pages, their contents zero, and the tables that map them.       *)
LowPages == [c \in 0 .. TableAddr - 1 |-> <<"zero", 0>>]

(* map_gva reports success when it has all its tables, and also when       *)
(* vm_mem_alloc, which logs it, has given none below the root.             *)
Mapped(label) ==
  \/ Proceed(label) /\ UNCHANGED torn
  \/ LOG("ERROR") /\ torn' = TRUE /\ pc' = label /\ UNCHANGED <<ret, failed>>

vm_mem_init ==
  /\ pc = "mem"
  /\ \/ /\ mem' = Extend(LowPages, Tables(TableAddr, LowTables))
        /\ Mapped("vcpu")
     \/ mem' \in {mem, LowPages} /\ Fail(1, "vm_destroy") /\ UNCHANGED torn
  /\ UNCHANGED <<cmd, i, opt, log, hv, rsp, args, entry, plugin>>

hv_vcpu_create ==
  /\ pc = "vcpu"
  /\ \/ hv' = [hv EXCEPT !.vcpu = TRUE] /\ Proceed("setup")
     \/ Fail(1, "vcpu_destroy") /\ UNCHANGED hv
  /\ UNCHANGED <<cmd, i, opt, log, mem, rsp, args, entry, plugin, torn>>

Gdt == [k \in 1 .. GdtLen |-> <<"gdt", k>>]

(* The descriptor table, and the low word of the root's address as the     *)
(* first thing on the stack.  Both are written also when an MSR cannot be  *)
(* enabled, which is what makes the call fail.                             *)
vcpu_setup_ia32 ==
  /\ pc = "setup"
  /\ mem' = vm_mem_write(vm_mem_write(mem, 0, Gdt),
                         StackAddr - 1, <<<<"lo", TableAddr>>>>)
  /\ rsp' = StackAddr - 1
  /\ Proceed("kernel") \/ Fail(1, "vcpu_destroy")
  /\ UNCHANGED <<cmd, i, opt, log, hv, args, entry, plugin, torn>>

Kernel == [k \in 1 .. cmd.kernel |-> <<"kernel", k>>]

(* Variant: a kernel that cannot be loaded skips the VCPU's clean-up.      *)
load_raw_skips ==
  /\ pc = "kernel"
  /\ \/ mem' = mem /\ Fail(ret, "vm_destroy")
     \/ /\ mem' = vm_mem_write(mem, StartAddr, Kernel)
        /\ IF Complete(mem, StartAddr, Kernel) THEN Proceed("plugin")
           ELSE Fail(ret, "vm_destroy")
  /\ UNCHANGED <<cmd, i, opt, log, hv, rsp, args, entry, plugin, torn>>

(* load_raw: open or stat fails; or mmap fails, which it always does for   *)
(* an empty file.  A failed mmap is not NULL and goes unnoticed: with      *)
(* nothing to copy the call succeeds, otherwise the copy reads from an     *)
(* invalid address and the process dies.  A file that runs past the mapped *)
(* memory has been written as far as it goes.                              *)
load_raw ==
  /\ pc = "kernel"
  /\ \/ mem' = mem /\ Fail(ret, "vcpu_destroy")
     \/ /\ cmd.kernel > 0
        /\ mem' = mem /\ pc' = "crashed" /\ UNCHANGED <<ret, errors, failed>>
     \/ /\ mem' = vm_mem_write(mem, StartAddr, Kernel)
        /\ IF Complete(mem, StartAddr, Kernel) THEN Proceed("plugin")
           ELSE Fail(ret, "vcpu_destroy")
  /\ UNCHANGED <<cmd, i, opt, log, hv, rsp, args, entry, plugin, torn>>

Callbacks == {"cb_write", "cb_read", "cb_open", "cb_close"}

(* Variant: the result of load_plugin is logged and not acted upon.        *)
load_plugin_goes_on ==
  /\ pc = "plugin"
  /\ \/ opt.plugin = "" /\ plugin' = plugin /\ Proceed("app")
     \/ /\ opt.plugin # ""
        /\ \/ plugin' = plugin /\ Fail(ret, "app")
           \/ \E set \in {{}, {"cb_write"}, Callbacks} :
                \/ plugin' = [open |-> FALSE, ops |-> set] /\ Fail(ret, "app")
                \/ plugin' = [open |-> TRUE, ops |-> set] /\ Proceed("app")
  /\ UNCHANGED <<cmd, i, opt, log, hv, mem, rsp, args, entry, torn>>

(* load_plugin: the library cannot be opened or has no plugin_init; or     *)
(* plugin_init fills in some callbacks and fails, and the library is       *)
(* closed with the callbacks left in _ops; or it succeeds.                 *)
load_plugin ==
  /\ pc = "plugin"
  /\ \/ opt.plugin = "" /\ plugin' = plugin /\ Proceed("app")
     \/ /\ opt.plugin # ""
        /\ \/ plugin' = plugin /\ Fail(ret, "vcpu_destroy")
           \/ \E set \in {{}, {"cb_write"}, Callbacks} :
                \/ /\ plugin' = [open |-> FALSE, ops |-> set]
                   /\ Fail(ret, "vcpu_destroy")
                \/ /\ plugin' = [open |-> TRUE, ops |-> set]
                   /\ Proceed("app")
  /\ UNCHANGED <<cmd, i, opt, log, hv, mem, rsp, args, entry, torn>>

(* load_mach_obj: without an LC_MAIN command *entryoff is not assigned,    *)
(* and the call succeeds all the same.  The tables that map the file lie   *)
(* behind the earlier ones.                                                *)
load_mach_obj ==
  /\ pc = "app"
  /\ entry' = IF cmd.main THEN EntryGva ELSE entry
  /\ \/ mem' = Extend(mem, Tables(Size, AppTables)) /\ Mapped("args")
     \/ mem' = mem /\ Fail(ret, "vcpu_destroy") /\ UNCHANGED torn
  /\ UNCHANGED <<cmd, i, opt, log, hv, rsp, args, plugin>>

-----------------------------------------------------------------------------
(* Arguments and stack.                                                    *)

String(k) == [j \in 1 .. cmd.args[k] |-> <<"arg", k, j>>]

(* Variant: the terminating zero is not counted.                           *)
Advance_short(s) == Len(s) - 1
Advance(s) == Len(s)

(* One turn of the loop over the arguments: the string's address into the  *)
(* argv table, then the string.                                            *)
main_arg ==
  /\ pc = "args" /\ i < Len(cmd.args)
  /\ i' = i + 1
  /\ LET slot == ArgvAddr + 2 * i
         m    == vm_mem_write(mem, slot, Number(args))
         s    == String(i + 1)
     IN IF ~Complete(mem, slot, Number(args))
        THEN mem' = m /\ args' = args /\ Fail(ret, "vcpu_destroy")
        ELSE /\ mem' = vm_mem_write(m, args, s)
             /\ IF Complete(m, args, s)
                THEN args' = args + Advance(s) /\ Proceed("args")
                ELSE args' = args /\ Fail(ret, "vcpu_destroy")
  /\ UNCHANGED <<cmd, opt, log, hv, rsp, entry, plugin, torn>>

main_args_done ==
  /\ pc = "args" /\ i = Len(cmd.args)
  /\ Proceed("push_argv")
  /\ UNCHANGED <<cmd, i, opt, log, hv, mem, rsp, args, entry, plugin, torn>>

(* push64, whose result main ignores.  The stack pointer cannot be read,   *)
(* and nothing is stored; or it cannot be written, and the next push       *)
(* stores over this one.                                                   *)
push64(v) ==
  \/ UNCHANGED <<mem, rsp>> /\ LOG("ERROR")
  \/ /\ mem' = vm_mem_write(mem, rsp - 2, Number(v))
     /\ rsp' \in {rsp, rsp - 2}
     /\ UNCHANGED errors

main_push ==
  /\ \/ pc = "push_argv" /\ push64(ArgvAddr) /\ pc' = "push_argc"
     \/ pc = "push_argc" /\ push64(Len(cmd.args)) /\ pc' = "push_entry"
     \/ pc = "push_entry" /\ push64(entry) /\ pc' = "run"
  /\ UNCHANGED <<cmd, i, opt, log, ret, hv, args, entry, plugin, torn, failed>>

(* The run loop (Vcpu, Boot) reports nothing to main.                      *)
vcpu_run ==
  /\ pc = "run"
  /\ Proceed("vcpu_destroy")
  /\ UNCHANGED <<cmd, i, opt, log, hv, mem, rsp, args, entry, plugin, torn>>

-----------------------------------------------------------------------------
(* Clean-up.  Destroying what does not exist fails (external).             *)

(* Variant: every failed call counts.                                      *)
hv_vcpu_destroy_counts ==
  /\ pc = "vcpu_destroy"
  /\ \/ /\ hv.vcpu /\ hv' = [hv EXCEPT !.vcpu = FALSE]
        /\ Proceed("vm_destroy")
     \/ Fail(ret + 1, "vm_destroy") /\ UNCHANGED hv
  /\ UNCHANGED <<cmd, i, opt, log, mem, rsp, args, entry, plugin, torn>>

hv_vcpu_destroy ==
  /\ pc = "vcpu_destroy"
  /\ \/ /\ hv.vcpu /\ hv' = [hv EXCEPT !.vcpu = FALSE]
        /\ Proceed("vm_destroy")
     \/ Fail(1, "vm_destroy") /\ UNCHANGED hv
  /\ UNCHANGED <<cmd, i, opt, log, mem, rsp, args, entry, plugin, torn>>

(* Variant: the status is not set.                                         *)
hv_vm_destroy_quiet ==
  /\ pc = "vm_destroy"
  /\ \/ hv.vm /\ hv' = [hv EXCEPT !.vm = FALSE] /\ Proceed("exit")
     \/ Fail(ret, "exit") /\ UNCHANGED hv
  /\ UNCHANGED <<cmd, i, opt, log, mem, rsp, args, entry, plugin, torn>>

(* vm_mem_destroy, in front of it, is empty.                               *)
hv_vm_destroy ==
  /\ pc = "vm_destroy"
  /\ \/ hv.vm /\ hv' = [hv EXCEPT !.vm = FALSE] /\ Proceed("exit")
     \/ Fail(1, "exit") /\ UNCHANGED hv
  /\ UNCHANGED <<cmd, i, opt, log, mem, rsp, args, entry, plugin, torn>>

-----------------------------------------------------------------------------

Init ==
  /\ pc = "options" /\ cmd \in Commands /\ i = 0
  /\ opt = [interactive |-> FALSE, level |-> "DEBUG", output |-> "stdout",
            kernel |-> "", plugin |-> ""]
  /\ log = [level |-> "DEBUG", file |-> ""]
  /\ ret = 0
  /\ hv = [vm |-> FALSE, vcpu |-> FALSE]
  /\ mem = [c \in {} |-> <<"zero", 0>>] /\ rsp = 0 /\ args = ArgsAddr
  /\ entry \in Residue
  /\ plugin = [open |-> FALSE, ops |-> {}]
  /\ torn = FALSE /\ errors = {} /\ failed = {}

SetUp ==
  \/ getopt \/ main_options_done
  \/ hv_vm_create \/ vm_mem_init \/ hv_vcpu_create \/ vcpu_setup_ia32
  \/ load_raw \/ load_plugin \/ load_mach_obj
  \/ main_arg \/ main_args_done \/ main_push

CleanUp == hv_vcpu_destroy \/ hv_vm_destroy

Over == pc \in {"exit", "crashed"} /\ UNCHANGED vars

Next == SetUp \/ vcpu_run \/ CleanUp \/ Over

Spec == Init /\ [][Next]_vars

-----------------------------------------------------------------------------

Labels == {"options", "vm", "mem", "vcpu", "setup", "kernel", "plugin", "app",
           "args", "push_argv", "push_argc", "push_entry", "run",
           "vcpu_destroy", "vm_destroy", "exit", "crashed"}

(* The variables of main have their types; ret_val is 0 or 1.              *)
TypeOK ==
  /\ pc \in Labels /\ cmd \in Commands
  /\ i \in Nat /\ ret \in {0, 1} /\ failed \subseteq Labels
  /\ opt.interactive \in BOOLEAN /\ opt.level \in Range(Levels)
  /\ log.level \in Range(Levels)
  /\ hv \in [vm : BOOLEAN, vcpu : BOOLEAN]
  /\ rsp \in Nat /\ args \in Nat /\ entry \in Nat
  /\ plugin \in [open : BOOLEAN, ops : SUBSET Callbacks]

(* The exit status is 1 exactly for a usage error, for a failure up to the *)
(* set-up of the VCPU and for one in the clean-up, in any combination; a   *)
(* kernel, plugin, application or argument that cannot be set up leaves it *)
(* as it is, so the status does not tell such a run from a finished one.   *)
StatusTells ==
  pc = "exit" =>
    (ret = 1 <=> \/ log.file = ""
                 \/ failed \cap {"vm", "mem", "vcpu", "setup",
                                "vcpu_destroy", "vm_destroy"} # {})

(* Whatever fails, and wherever main jumps, an exit with status 0 leaves   *)
(* neither a VM nor a VCPU behind.                                         *)
NothingLeft == pc = "exit" /\ ret = 0 => ~hv.vm /\ ~hv.vcpu

(* A failure that main notices leaves an ERROR line in the file that the   *)
(* last -o names, at every level but SILENT, and none is written before    *)
(* logging is set up.  (A table that map_gva goes on without is none that  *)
(* main notices.)                                                          *)
FailureVisible ==
  /\ failed # {} /\ opt.level # "SILENT" => opt.output \in errors
  /\ "" \notin errors

(* The guest never runs with a callback into a library that was closed.    *)
NoDanglingCallback == pc = "run" /\ plugin.ops # {} => plugin.open

(* The memory layout of boot.asm as it has to be when the guest starts:    *)
(* string k lies behind the cells of the strings in front of it.           *)
Strings(n) == UNION {{k} \X (1 .. cmd.args[k]) : k \in 1 .. n}
Before(k) == ArgsAddr + Cardinality(Strings(k - 1))
Holds(a, cells) == \A k \in 1 .. Len(cells) : mem[a + k - 1] = cells[k]

ArgsIntact ==
  \A k \in 1 .. Len(cmd.args) : /\ Holds(ArgvAddr + 2 * (k - 1), Number(Before(k)))
                                /\ Holds(Before(k), String(k))
TablesIntact == ~torn /\ \A c \in TableAddr .. Size - 1 : mem[c] = <<"table", c>>
LayoutIntact == /\ Holds(0, Gdt) /\ Holds(StartAddr, Kernel)
                /\ ArgsIntact /\ TablesIntact

Fits == /\ 2 * Len(cmd.args) <= ArgsAddr - ArgvAddr
        /\ Before(Len(cmd.args) + 1) <= StartAddr
        /\ StartAddr + cmd.kernel <= TableAddr

(* The guest starts with everything in place exactly when the argument     *)
(* table, the strings and the kernel each fit in front of what follows     *)
(* them and no table is missing: nothing else that main writes disturbs    *)
(* the layout, and main has no check of its own that would stop a command  *)
(* line that does not fit, or tables that are not whole.                   *)
LayoutLimits ==
  pc = "run" /\ cmd.kernel > 0 => (LayoutIntact <=> Fits /\ ~torn)

=============================================================================
