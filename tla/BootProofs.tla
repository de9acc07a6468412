----------------------------- MODULE BootProofs -----------------------------
(***************************************************************************)
(* Proofs about main and the guest it starts, for every command line,      *)
(* every layout of the guest's memory and every combination of failed      *)
(* calls: first for the steps of main alone, then for main while boot.asm  *)
(* and the application run, wherever the loop of vcpu_run ends.            *)
(***************************************************************************)
EXTENDS Boot, TLAPS

(* Types; opt is a record of its five fields.                              *)
TypeInv ==
  /\ TypeOK
  /\ opt = [interactive |-> opt.interactive, level |-> opt.level,
            output |-> opt.output, kernel |-> opt.kernel, plugin |-> opt.plugin]

(* Until logging is set up nothing can have failed; from then on the log   *)
(* is the one that the options name.                                       *)
LogInv ==
  /\ opt.output # ""
  /\ log.file = "" => /\ pc \in {"options", "exit"} /\ failed = {}
                      /\ pc = "exit" => ret = 1
                      /\ pc = "options" => ret = 0
  /\ log.file # "" => /\ pc # "options"
                      /\ log.level = opt.level /\ log.file = opt.output
  /\ failed # {} /\ opt.level # "SILENT" => opt.output \in errors
  /\ "" \notin errors

Reported == {"vm", "mem", "vcpu", "setup", "vcpu_destroy", "vm_destroy"}

(* The status follows the reported failures at every position.             *)
StatusInv == log.file # "" => (ret = 1 <=> failed \cap Reported # {})

(* What exists in the framework at each position: a VCPU that is not on    *)
(* its way to hv_vcpu_destroy has gone through it, and if it is still      *)
(* there the status says so; the same for the VM.                          *)
HvInv ==
  /\ pc \in {"options", "vm"} => ~hv.vm
  /\ pc \in {"options", "vm", "mem", "vcpu"} => ~hv.vcpu
  /\ pc \in {"vm_destroy", "exit"} /\ ret = 0 => ~hv.vcpu
  /\ pc = "exit" /\ ret = 0 => ~hv.vm

(* Callbacks of a closed library exist only on the way out.                *)
PluginInv ==
  plugin.ops # {} /\ ~plugin.open => pc \in {"vcpu_destroy", "vm_destroy", "exit"}

(* Three numbers at most are on the stack above the root's address.        *)
StackInv ==
  /\ pc \in {"kernel", "plugin", "app", "args", "push_argv"}
       => rsp >= StackAddr - 1
  /\ pc = "push_argc" => rsp >= StackAddr - 3
  /\ pc = "push_entry" => rsp >= StackAddr - 5

MainInv == TypeInv /\ LogInv /\ StatusInv /\ HvInv /\ PluginInv /\ StackInv

-----------------------------------------------------------------------------

LEMMA LevelSet ==
  Range(Levels) = {"DEBUG", "INFO", "WARN", "ERROR", "SILENT"}
  <1>1. DOMAIN Levels = 1 .. 5
    BY DEF Levels
  <1>2. \A n \in 1 .. 5 : n = 1 \/ n = 2 \/ n = 3 \/ n = 4 \/ n = 5
    OBVIOUS
  <1>3. /\ Levels[1] = "DEBUG" /\ Levels[2] = "INFO" /\ Levels[3] = "WARN"
        /\ Levels[4] = "ERROR" /\ Levels[5] = "SILENT"
    BY DEF Levels
  <1>4. Range(Levels) = {Levels[n] : n \in 1 .. 5}
    BY <1>1 DEF Range
  <1> QED
    BY <1>2, <1>3, <1>4

(* An ERROR line is written at every level but SILENT.                     *)
LEMMA ErrorIsWritten ==
  ASSUME NEW level \in Range(Levels)
  PROVE  Rank(level) <= Rank("ERROR") <=> level # "SILENT"
  <1>1. /\ Levels[1] = "DEBUG" /\ Levels[2] = "INFO" /\ Levels[3] = "WARN"
        /\ Levels[4] = "ERROR" /\ Levels[5] = "SILENT" /\ Len(Levels) = 5
    BY DEF Levels
  <1>2. /\ Rank("DEBUG") = 1 /\ Rank("INFO") = 2 /\ Rank("WARN") = 3
        /\ Rank("ERROR") = 4 /\ Rank("SILENT") = 5
    <2>1. ASSUME NEW n \in 1 .. 5
          PROVE  Rank(Levels[n]) = n
      <3>1. \A m \in 1 .. 5 : Levels[m] = Levels[n] => m = n
        BY <1>1
      <3> QED
        BY <1>1, <3>1 DEF Rank
    <2> QED
      BY <1>1, <2>1
  <1> QED
    BY <1>2, LevelSet

LEMMA Layout ==
  /\ GdtLen \in Nat /\ StackAddr \in Nat /\ ArgvAddr \in Nat /\ ArgsAddr \in Nat
  /\ StartAddr \in Nat /\ TableAddr \in Nat /\ LowTables \in Nat
  /\ AppTables \in Nat /\ EntryGva \in Nat
  /\ GdtLen + 7 <= StackAddr /\ StackAddr < ArgvAddr /\ ArgvAddr < ArgsAddr
  /\ ArgsAddr < StartAddr /\ StartAddr < TableAddr /\ LowTables > 0
  BY LaunchAssumption

LEMMA CommandType ==
  ASSUME NEW c \in Commands
  PROVE  /\ c.opts \in Seq(Options) /\ c.args \in Seq(Nat \ {0})
         /\ c.kernel \in Nat /\ c.main \in BOOLEAN
  BY LaunchAssumption

LEMMA MainInit == Init => MainInv
  <1> SUFFICES ASSUME Init PROVE MainInv
    OBVIOUS
  <1>1. /\ i \in Nat /\ ret \in {0, 1} /\ rsp \in Nat /\ args \in Nat
        /\ entry \in Nat
    BY LaunchAssumption DEF Init
  <1>2. /\ opt = [interactive |-> opt.interactive, level |-> opt.level,
                  output |-> opt.output, kernel |-> opt.kernel,
                  plugin |-> opt.plugin]
        /\ opt.interactive \in BOOLEAN
        /\ opt.level \in Range(Levels) /\ opt.output # ""
    BY LevelSet, Zenon DEF Init
  <1>3. log.level \in Range(Levels) /\ log.file = ""
    BY LevelSet, Zenon DEF Init
  <1>4. /\ hv \in [vm : BOOLEAN, vcpu : BOOLEAN] /\ ~hv.vm /\ ~hv.vcpu
        /\ plugin \in [open : BOOLEAN, ops : SUBSET Callbacks]
        /\ plugin.ops = {}
    BY Zenon DEF Init
  <1>5. pc \in Labels /\ pc = "options" /\ failed = {} /\ errors = {}
        /\ cmd \in Commands /\ ret = 0
    BY Zenon DEF Init, Labels
  <1>6. TypeInv
    BY <1>1, <1>2, <1>3, <1>4, <1>5, Zenon DEF TypeInv, TypeOK
  <1> QED
    BY <1>2, <1>3, <1>4, <1>5, <1>6
    DEF MainInv, LogInv, StatusInv, HvInv, PluginInv, StackInv

-----------------------------------------------------------------------------
(* What the two ways of leaving a call do to the log and to the status.    *)

LEMMA FailLogs ==
  ASSUME MainInv, NEW s, NEW label, Fail(s, label), UNCHANGED <<opt, log>>,
         pc \notin {"options", "exit"}, label # "options"
  PROVE  LogInv'
  <1>1. log.file # "" /\ log.level = opt.level /\ log.file = opt.output
    BY Zenon DEF MainInv, LogInv
  <1>2. opt.level \in Range(Levels)
    BY DEF MainInv, TypeInv, TypeOK
  <1>3. /\ opt.level # "SILENT" => errors' = errors \cup {opt.output}
        /\ errors' \in {errors, errors \cup {opt.output}}
    BY <1>1, <1>2, ErrorIsWritten DEF Fail, LOG
  <1>4. pc' = label /\ failed' # {}
    BY DEF Fail
  <1> QED
    BY <1>1, <1>3, <1>4 DEF MainInv, LogInv

LEMMA ProceedLogs ==
  ASSUME MainInv, NEW label, Proceed(label), UNCHANGED <<opt, log>>,
         pc \notin {"options", "exit"}, label # "options"
  PROVE  LogInv'
  BY DEF MainInv, LogInv, Proceed

LEMMA FailStatus ==
  ASSUME MainInv, NEW s, NEW label, Fail(s, label), UNCHANGED log,
         \/ s = 1 /\ pc \in Reported
         \/ s = ret /\ pc \notin Reported
  PROVE  StatusInv'
  BY DEF MainInv, StatusInv, Fail

LEMMA ProceedStatus ==
  ASSUME MainInv, NEW label, Proceed(label), UNCHANGED log
  PROVE  StatusInv'
  BY DEF MainInv, StatusInv, Proceed

(* map_gva leaves the status alone, with all its tables or without some.   *)
LEMMA MappedKeeps ==
  ASSUME MainInv, NEW label, Mapped(label), UNCHANGED <<opt, log>>,
         pc \notin {"options", "exit"}, label # "options"
  PROVE  /\ LogInv' /\ StatusInv'
         /\ pc' = label /\ UNCHANGED <<ret, failed>>
  <1>1. pc' = label /\ UNCHANGED <<ret, failed>>
    BY Zenon DEF Mapped, Proceed
  <1>2. log.file # "" /\ log.level = opt.level /\ log.file = opt.output
    BY Zenon DEF MainInv, LogInv
  <1>3. errors' = errors \/ errors' = errors \cup {opt.output}
    BY <1>2, Zenon DEF Mapped, Proceed, LOG
  <1>4. LogInv'
    BY <1>1, <1>2, <1>3 DEF MainInv, LogInv
  <1> QED
    BY <1>1, <1>4, Zenon DEF MainInv, StatusInv

-----------------------------------------------------------------------------

(* The invariant looks at main's variables only.                           *)
LEMMA MainStutters == MainInv /\ UNCHANGED vars => MainInv'
  <1> SUFFICES ASSUME MainInv, UNCHANGED vars PROVE MainInv'
    OBVIOUS
  <1>1. UNCHANGED <<pc, cmd, i, opt, log, ret, hv, rsp, args, entry, plugin,
                    errors, failed>>
    BY DEF vars
  <1>2. TypeInv'
    BY <1>1 DEF MainInv, TypeInv, TypeOK
  <1>3. LogInv' /\ StatusInv'
    BY <1>1 DEF MainInv, LogInv, StatusInv
  <1>4. HvInv' /\ PluginInv' /\ StackInv'
    BY <1>1 DEF MainInv, HvInv, PluginInv, StackInv
  <1> QED
    BY <1>2, <1>3, <1>4 DEF MainInv

(* Every step of main, from one position to the next or to a label of the  *)
(* clean-up, keeps the invariant.                                          *)
LEMMA MainStep == MainInv /\ Next => MainInv'
  <1> SUFFICES ASSUME MainInv, Next PROVE MainInv'
    OBVIOUS
  <1> USE DEF MainInv
  <1>1. CASE hv_vm_create
    <2>1. /\ pc = "vm"
          /\ UNCHANGED <<cmd, i, opt, log, mem, rsp, args, entry, plugin>>
      BY <1>1 DEF hv_vm_create
    <2>2. \/ hv' = [hv EXCEPT !.vm = TRUE] /\ Proceed("mem")
          \/ Fail(1, "vm_destroy") /\ UNCHANGED hv
      BY <1>1 DEF hv_vm_create
    <2>3. LogInv' /\ StatusInv'
      BY <2>1, <2>2, FailLogs, ProceedLogs, FailStatus, ProceedStatus
      DEF Reported
    <2>4. TypeInv'
      BY <2>1, <2>2 DEF TypeInv, TypeOK, Labels, Proceed, Fail
    <2>5. HvInv'
      BY <2>1, <2>2 DEF TypeInv, TypeOK, HvInv, Proceed, Fail
    <2>6. PluginInv' /\ StackInv'
      BY <2>1, <2>2 DEF TypeInv, TypeOK, PluginInv, StackInv, Proceed, Fail
    <2> QED
      BY <2>3, <2>4, <2>5, <2>6
  <1>2. CASE vm_mem_init
    <2>1. /\ pc = "mem"
          /\ UNCHANGED <<cmd, i, opt, log, hv, rsp, args, entry, plugin>>
      BY <1>2 DEF vm_mem_init
    <2>2. Mapped("vcpu") \/ Fail(1, "vm_destroy")
      BY <1>2, Zenon DEF vm_mem_init
    <2>3. LogInv' /\ StatusInv'
      BY <2>1, <2>2, FailLogs, FailStatus, MappedKeeps DEF Reported
    <2>7. \/ pc' = "vcpu" /\ UNCHANGED <<ret, failed>>
          \/ Fail(1, "vm_destroy")
      BY <2>1, <2>2, MappedKeeps
    <2>4. TypeInv'
      BY <2>1, <2>7 DEF TypeInv, TypeOK, Labels, Fail
    <2>5. HvInv'
      BY <2>1, <2>7 DEF TypeInv, TypeOK, HvInv, Fail
    <2>6. PluginInv' /\ StackInv'
      BY <2>1, <2>7 DEF TypeInv, TypeOK, PluginInv, StackInv, Fail
    <2> QED
      BY <2>3, <2>4, <2>5, <2>6
  <1>3. CASE hv_vcpu_create
    <2>1. /\ pc = "vcpu"
          /\ UNCHANGED <<cmd, i, opt, log, mem, rsp, args, entry, plugin>>
      BY <1>3 DEF hv_vcpu_create
    <2>2. \/ hv' = [hv EXCEPT !.vcpu = TRUE] /\ Proceed("setup")
          \/ Fail(1, "vcpu_destroy") /\ UNCHANGED hv
      BY <1>3 DEF hv_vcpu_create
    <2>3. LogInv' /\ StatusInv'
      BY <2>1, <2>2, FailLogs, ProceedLogs, FailStatus, ProceedStatus
      DEF Reported
    <2>4. TypeInv'
      BY <2>1, <2>2 DEF TypeInv, TypeOK, Labels, Proceed, Fail
    <2>5. HvInv'
      BY <2>1, <2>2 DEF TypeInv, TypeOK, HvInv, Proceed, Fail
    <2>6. PluginInv' /\ StackInv'
      BY <2>1, <2>2 DEF TypeInv, TypeOK, PluginInv, StackInv, Proceed, Fail
    <2> QED
      BY <2>3, <2>4, <2>5, <2>6
  <1>4. CASE vcpu_setup_ia32
    <2>1. /\ pc = "setup"
          /\ UNCHANGED <<cmd, i, opt, log, hv, args, entry, plugin>>
      BY <1>4 DEF vcpu_setup_ia32
    <2>2. /\ Proceed("kernel") \/ Fail(1, "vcpu_destroy")
          /\ rsp' = StackAddr - 1 /\ rsp' \in Nat
      <3>1. rsp' = StackAddr - 1
        BY <1>4 DEF vcpu_setup_ia32
      <3>2. rsp' \in Nat
        BY <3>1, Layout
      <3> QED
        BY <1>4, <3>1, <3>2, Zenon DEF vcpu_setup_ia32
    <2>3. LogInv' /\ StatusInv'
      BY <2>1, <2>2, FailLogs, ProceedLogs, FailStatus, ProceedStatus
      DEF Reported
    <2>4. TypeInv'
      BY <2>1, <2>2 DEF TypeInv, TypeOK, Labels, Proceed, Fail
    <2>5. HvInv'
      BY <2>1, <2>2 DEF TypeInv, TypeOK, HvInv, Proceed, Fail
    <2>6. PluginInv' /\ StackInv'
      BY <2>1, <2>2 DEF TypeInv, TypeOK, PluginInv, StackInv, Proceed, Fail
    <2> QED
      BY <2>3, <2>4, <2>5, <2>6
  <1>5. CASE load_raw
    <2>1. /\ pc = "kernel"
          /\ UNCHANGED <<cmd, i, opt, log, hv, rsp, args, entry, plugin>>
      BY <1>5 DEF load_raw
    <2>2. Proceed("plugin") \/ Proceed("crashed") \/ Fail(ret, "vcpu_destroy")
      BY <1>5, Zenon DEF load_raw, Proceed
    <2>3. LogInv' /\ StatusInv'
      BY <2>1, <2>2, FailLogs, ProceedLogs, FailStatus, ProceedStatus
      DEF Reported
    <2>4. TypeInv'
      BY <2>1, <2>2 DEF TypeInv, TypeOK, Labels, Proceed, Fail
    <2>5. HvInv'
      BY <2>1, <2>2 DEF TypeInv, TypeOK, HvInv, Proceed, Fail
    <2>6. PluginInv' /\ StackInv'
      BY <2>1, <2>2 DEF TypeInv, TypeOK, PluginInv, StackInv, Proceed, Fail
    <2> QED
      BY <2>3, <2>4, <2>5, <2>6
  <1>6. CASE load_plugin
    <2>1. /\ pc = "plugin"
          /\ UNCHANGED <<cmd, i, opt, log, hv, mem, rsp, args, entry>>
      BY <1>6 DEF load_plugin
    <2>2. \/ plugin' = plugin /\ Proceed("app")
          \/ plugin' = plugin /\ Fail(ret, "vcpu_destroy")
          \/ \E set \in SUBSET Callbacks :
               \/ /\ plugin' = [open |-> FALSE, ops |-> set]
                  /\ Fail(ret, "vcpu_destroy")
               \/ /\ plugin' = [open |-> TRUE, ops |-> set]
                  /\ Proceed("app")
      <3>1. \A set \in {{}, {"cb_write"}, Callbacks} : set \in SUBSET Callbacks
        BY Zenon DEF Callbacks
      <3> QED
        BY <1>6, <3>1, Zenon DEF load_plugin
    <2>3. LogInv' /\ StatusInv'
      BY <2>1, <2>2, FailLogs, ProceedLogs, FailStatus, ProceedStatus
      DEF Reported
    <2>4. TypeInv'
      <3>1. plugin' \in [open : BOOLEAN, ops : SUBSET Callbacks]
        <4>1. \A set \in SUBSET Callbacks, b \in BOOLEAN :
                [open |-> b, ops |-> set] \in [open : BOOLEAN, ops : SUBSET Callbacks]
          OBVIOUS
        <4>2. plugin \in [open : BOOLEAN, ops : SUBSET Callbacks]
          BY DEF TypeInv, TypeOK
        <4> QED
          BY <2>2, <4>1, <4>2, Zenon
      <3> QED
        BY <2>1, <2>2, <3>1 DEF TypeInv, TypeOK, Labels, Proceed, Fail
    <2>5. HvInv'
      BY <2>1, <2>2 DEF TypeInv, TypeOK, HvInv, Proceed, Fail
    <2>6. PluginInv' /\ StackInv'
      BY <2>1, <2>2 DEF TypeInv, TypeOK, PluginInv, StackInv, Proceed, Fail
    <2> QED
      BY <2>3, <2>4, <2>5, <2>6
  <1>7. CASE load_mach_obj
    <2>1. /\ pc = "app"
          /\ UNCHANGED <<cmd, i, opt, log, hv, rsp, args, plugin>>
      BY <1>7 DEF load_mach_obj
    <2>2. /\ Mapped("args") \/ Fail(ret, "vcpu_destroy")
          /\ entry' \in Nat
      <3>1. entry' \in Nat
        BY <1>7, Layout DEF load_mach_obj, TypeInv, TypeOK
      <3> QED
        BY <1>7, <3>1, Zenon DEF load_mach_obj
    <2>3. LogInv' /\ StatusInv'
      BY <2>1, <2>2, FailLogs, FailStatus, MappedKeeps DEF Reported
    <2>7. \/ pc' = "args" /\ UNCHANGED <<ret, failed>>
          \/ Fail(ret, "vcpu_destroy")
      BY <2>1, <2>2, MappedKeeps
    <2>4. TypeInv'
      BY <2>1, <2>2, <2>7 DEF TypeInv, TypeOK, Labels, Fail
    <2>5. HvInv'
      BY <2>1, <2>2, <2>7 DEF TypeInv, TypeOK, HvInv, Fail
    <2>6. PluginInv' /\ StackInv'
      BY <2>1, <2>2, <2>7 DEF TypeInv, TypeOK, PluginInv, StackInv, Fail
    <2> QED
      BY <2>3, <2>4, <2>5, <2>6
  <1>8. CASE main_arg
    <2>1. /\ pc = "args"
          /\ UNCHANGED <<cmd, opt, log, hv, rsp, entry, plugin>>
      BY <1>8 DEF main_arg
    <2>2. /\ Proceed("args") \/ Fail(ret, "vcpu_destroy")
          /\ i' \in Nat /\ args' \in Nat
      <3>1. i' \in Nat
        BY <1>8 DEF main_arg, TypeInv, TypeOK
      <3>2. cmd.args \in Seq(Nat \ {0}) /\ i + 1 \in 1 .. Len(cmd.args)
        BY <1>8, CommandType DEF main_arg, TypeInv, TypeOK
      <3>3. Len(String(i + 1)) \in Nat
        BY <3>2 DEF String
      <3>4. args' = args \/ args' = args + Len(String(i + 1))
        BY <1>8, Zenon DEF main_arg, Advance
      <3>5. args' \in Nat
        BY <3>3, <3>4 DEF TypeInv, TypeOK
      <3> QED
        BY <1>8, <3>1, <3>5, Zenon DEF main_arg
    <2>3. LogInv' /\ StatusInv'
      BY <2>1, <2>2, FailLogs, ProceedLogs, FailStatus, ProceedStatus
      DEF Reported
    <2>4. TypeInv'
      BY <2>1, <2>2 DEF TypeInv, TypeOK, Labels, Proceed, Fail
    <2>5. HvInv'
      BY <2>1, <2>2 DEF TypeInv, TypeOK, HvInv, Proceed, Fail
    <2>6. PluginInv' /\ StackInv'
      BY <2>1, <2>2 DEF TypeInv, TypeOK, PluginInv, StackInv, Proceed, Fail
    <2> QED
      BY <2>3, <2>4, <2>5, <2>6
  <1>9. CASE main_args_done
    <2>1. /\ pc = "args"
          /\ UNCHANGED <<cmd, i, opt, log, hv, mem, rsp, args, entry, plugin>>
      BY <1>9 DEF main_args_done
    <2>2. Proceed("push_argv")
      BY <1>9 DEF main_args_done
    <2>3. LogInv' /\ StatusInv'
      BY <2>1, <2>2, FailLogs, ProceedLogs, FailStatus, ProceedStatus
      DEF Reported
    <2>4. TypeInv'
      BY <2>1, <2>2 DEF TypeInv, TypeOK, Labels, Proceed, Fail
    <2>5. HvInv'
      BY <2>1, <2>2 DEF TypeInv, TypeOK, HvInv, Proceed, Fail
    <2>6. PluginInv' /\ StackInv'
      BY <2>1, <2>2 DEF TypeInv, TypeOK, PluginInv, StackInv, Proceed, Fail
    <2> QED
      BY <2>3, <2>4, <2>5, <2>6
  <1>10. CASE vcpu_run
    <2>1. /\ pc = "run"
          /\ UNCHANGED <<cmd, i, opt, log, hv, mem, rsp, args, entry, plugin>>
      BY <1>10 DEF vcpu_run
    <2>2. Proceed("vcpu_destroy")
      BY <1>10 DEF vcpu_run
    <2>3. LogInv' /\ StatusInv'
      BY <2>1, <2>2, FailLogs, ProceedLogs, FailStatus, ProceedStatus
      DEF Reported
    <2>4. TypeInv'
      BY <2>1, <2>2 DEF TypeInv, TypeOK, Labels, Proceed, Fail
    <2>5. HvInv'
      BY <2>1, <2>2 DEF TypeInv, TypeOK, HvInv, Proceed, Fail
    <2>6. PluginInv' /\ StackInv'
      BY <2>1, <2>2 DEF TypeInv, TypeOK, PluginInv, StackInv, Proceed, Fail
    <2> QED
      BY <2>3, <2>4, <2>5, <2>6
  <1>11. CASE hv_vcpu_destroy
    <2>1. /\ pc = "vcpu_destroy"
          /\ UNCHANGED <<cmd, i, opt, log, mem, rsp, args, entry, plugin>>
      BY <1>11 DEF hv_vcpu_destroy
    <2>2. \/ /\ hv.vcpu /\ hv' = [hv EXCEPT !.vcpu = FALSE]
             /\ Proceed("vm_destroy")
          \/ Fail(1, "vm_destroy") /\ UNCHANGED hv
      BY <1>11 DEF hv_vcpu_destroy
    <2>3. LogInv' /\ StatusInv'
      BY <2>1, <2>2, FailLogs, ProceedLogs, FailStatus, ProceedStatus
      DEF Reported
    <2>4. TypeInv'
      BY <2>1, <2>2 DEF TypeInv, TypeOK, Labels, Proceed, Fail
    <2>5. HvInv'
      BY <2>1, <2>2 DEF TypeInv, TypeOK, HvInv, Proceed, Fail
    <2>6. PluginInv' /\ StackInv'
      BY <2>1, <2>2 DEF TypeInv, TypeOK, PluginInv, StackInv, Proceed, Fail
    <2> QED
      BY <2>3, <2>4, <2>5, <2>6
  <1>12. CASE hv_vm_destroy
    <2>1. /\ pc = "vm_destroy"
          /\ UNCHANGED <<cmd, i, opt, log, mem, rsp, args, entry, plugin>>
      BY <1>12 DEF hv_vm_destroy
    <2>2. \/ hv.vm /\ hv' = [hv EXCEPT !.vm = FALSE] /\ Proceed("exit")
          \/ Fail(1, "exit") /\ UNCHANGED hv
      BY <1>12 DEF hv_vm_destroy
    <2>3. LogInv' /\ StatusInv'
      BY <2>1, <2>2, FailLogs, ProceedLogs, FailStatus, ProceedStatus
      DEF Reported
    <2>4. TypeInv'
      BY <2>1, <2>2 DEF TypeInv, TypeOK, Labels, Proceed, Fail
    <2>5. HvInv'
      BY <2>1, <2>2 DEF TypeInv, TypeOK, HvInv, Proceed, Fail
    <2>6. PluginInv' /\ StackInv'
      BY <2>1, <2>2 DEF TypeInv, TypeOK, PluginInv, StackInv, Proceed, Fail
    <2> QED
      BY <2>3, <2>4, <2>5, <2>6
  <1>13. CASE Over
    <2>1. UNCHANGED vars
      BY <1>13 DEF Over
    <2> QED
      BY <2>1, MainStutters
  <1>14. CASE getopt
    <2> DEFINE c == cmd.opts[i + 1]
    <2>1. /\ pc = "options" /\ i' = i + 1
          /\ UNCHANGED <<cmd, log, hv, mem, rsp, args, entry, plugin>>
      BY <1>14 DEF getopt
    <2>2. c \in Options
      <3>1. cmd.opts \in Seq(Options) /\ i + 1 \in 1 .. Len(cmd.opts)
        BY <1>14, CommandType DEF getopt, TypeInv, TypeOK
      <3> QED
        BY <3>1
    <2>3. \/ opt' = [opt EXCEPT !.interactive = TRUE] /\ Proceed("options")
          \/ /\ c.v \in Range(Levels) /\ opt' = [opt EXCEPT !.level = c.v]
             /\ Proceed("options")
          \/ /\ c.v # "" /\ opt' = [opt EXCEPT !.output = c.v]
             /\ Proceed("options")
          \/ opt' = [opt EXCEPT !.kernel = c.v] /\ Proceed("options")
          \/ opt' = [opt EXCEPT !.plugin = c.v] /\ Proceed("options")
          \/ Usage /\ UNCHANGED opt
      <3>1. c.o = "l" /\ c.v # "other" => c.v \in Range(Levels)
        BY <2>2 DEF Options
      <3>2. c.o = "o" => c.v # ""
        BY <2>2 DEF Options
      <3> QED
        BY <1>14, <3>1, <3>2, Zenon DEF getopt
    <2>4. TypeInv'
      <3>1. i' \in Nat
        BY <2>1 DEF TypeInv, TypeOK
      <3>2. pc' \in Labels /\ ret' \in {0, 1} /\ UNCHANGED failed
        BY <2>1, <2>3 DEF TypeInv, TypeOK, Labels, Proceed, Usage
      <3>3. /\ opt'.interactive \in BOOLEAN /\ opt'.level \in Range(Levels)
            /\ opt' = [interactive |-> opt'.interactive, level |-> opt'.level,
                       output |-> opt'.output, kernel |-> opt'.kernel,
                       plugin |-> opt'.plugin]
        BY <2>3 DEF TypeInv, TypeOK
      <3> QED
        BY <2>1, <3>1, <3>2, <3>3 DEF TypeInv, TypeOK
    <2>5. LogInv' /\ StatusInv'
      BY <2>1, <2>3 DEF TypeInv, TypeOK, LogInv, StatusInv, Proceed, Usage
    <2>6. HvInv' /\ PluginInv' /\ StackInv'
      BY <2>1, <2>3 DEF LogInv, HvInv, PluginInv, StackInv, Proceed, Usage
    <2> QED
      BY <2>4, <2>5, <2>6
  <1>15. CASE main_options_done
    <2>1. /\ pc = "options" /\ i' = 0
          /\ UNCHANGED <<cmd, opt, hv, mem, rsp, args, entry, plugin>>
          /\ \/ Usage /\ UNCHANGED log
             \/ /\ log' = [level |-> opt.level, file |-> opt.output]
                /\ Proceed("vm")
      BY <1>15, Zenon DEF main_options_done, init_logging
    <2>2. log.file = "" /\ failed = {} /\ ret = 0
      BY <2>1 DEF LogInv
    <2>3. TypeInv'
      BY <2>1 DEF TypeInv, TypeOK, Labels, Proceed, Usage
    <2>4. LogInv' /\ StatusInv'
      <3>1. CASE Usage /\ UNCHANGED log
        BY <2>1, <2>2, <3>1 DEF LogInv, StatusInv, Usage
      <3>2. CASE /\ log' = [level |-> opt.level, file |-> opt.output]
                 /\ Proceed("vm")
        <4>1. log'.level = opt.level /\ log'.file = opt.output
          BY <3>2
        <4>2. /\ pc' = "vm" /\ failed' = {} /\ opt' = opt /\ ret' = ret
              /\ UNCHANGED errors /\ opt.output # "" /\ "" \notin errors
          BY <2>1, <2>2, <3>2, Zenon DEF LogInv, Proceed
        <4>3. ret' # 1
          <5>1. ret = 0 => ret # 1
            OBVIOUS
          <5> QED
            BY <2>2, <4>2, <5>1, Zenon
        <4> QED
          BY <4>1, <4>2, <4>3, Zenon DEF LogInv, StatusInv
      <3> QED
        BY <2>1, <3>1, <3>2
    <2>5. HvInv' /\ PluginInv' /\ StackInv'
      BY <2>1 DEF HvInv, PluginInv, StackInv, Proceed, Usage
    <2> QED
      BY <2>3, <2>4, <2>5
  <1>16. CASE main_push
    <2>1. /\ UNCHANGED <<cmd, i, opt, log, ret, hv, args, entry, plugin, failed>>
          /\ \/ pc = "push_argv" /\ pc' = "push_argc"
             \/ pc = "push_argc" /\ pc' = "push_entry"
             \/ pc = "push_entry" /\ pc' = "run"
      BY <1>16 DEF main_push
    <2>2. /\ rsp' = rsp \/ rsp' = rsp - 2
          /\ errors' = errors \/ errors' = errors \cup {log.file}
      BY <1>16, Zenon DEF main_push, push64, LOG
    <2>3. StackInv' /\ rsp' \in Nat
      BY <2>1, <2>2, Layout DEF TypeInv, TypeOK, StackInv
    <2>4. TypeInv'
      BY <2>1, <2>3 DEF TypeInv, TypeOK, Labels
    <2>5. LogInv' /\ StatusInv'
      BY <2>1, <2>2 DEF LogInv, StatusInv
    <2>6. HvInv' /\ PluginInv'
      BY <2>1 DEF HvInv, PluginInv
    <2> QED
      BY <2>3, <2>4, <2>5, <2>6
  <1> QED
    BY <1>1, <1>2, <1>3, <1>4, <1>5, <1>6, <1>7, <1>8, <1>9, <1>10, <1>11,
       <1>12, <1>13, <1>14, <1>15, <1>16 DEF Next, SetUp, CleanUp

LEMMA MainAlways == Spec => []MainInv
  <1>1. MainInv /\ [Next]_vars => MainInv'
    BY MainStutters, MainStep
  <1> QED
    BY <1>1, MainInit, PTL DEF Spec

(* What the invariant says at the end of main, and where the guest runs.   *)
LEMMA MainInvImplies ==
  MainInv => /\ TypeOK /\ NothingLeft /\ StatusTells /\ FailureVisible
             /\ NoDanglingCallback
  <1> SUFFICES ASSUME MainInv
               PROVE  /\ TypeOK /\ NothingLeft /\ StatusTells /\ FailureVisible
                      /\ NoDanglingCallback
    OBVIOUS
  <1>1. TypeOK /\ FailureVisible
    BY DEF MainInv, TypeInv, LogInv, FailureVisible
  <1>2. NothingLeft /\ NoDanglingCallback
    BY DEF MainInv, HvInv, PluginInv, NothingLeft, NoDanglingCallback
  <1>3. StatusTells
    BY Zenon DEF MainInv, LogInv, StatusInv, StatusTells, Reported
  <1> QED
    BY <1>1, <1>2, <1>3

-----------------------------------------------------------------------------
(* main with its guest.                                                    *)

Starting == {"options", "vm", "mem", "vcpu", "setup", "kernel", "plugin",
             "app", "args", "push_argv", "push_argc", "push_entry"}

(* The guest has not begun before main calls vcpu_run, and its pops and    *)
(* pushes keep the stack pointer off zero.                                 *)
GuestInv ==
  /\ pc \in Starting => at = "words" /\ saved = <<>>
  /\ saved \in Seq(Range(saved))
  /\ at = "words" => Len(saved) <= 5 /\ rsp >= Len(saved)
  /\ at \in {"cr3", "rdmsr", "wrmsr", "paging", "segments", "long"} => rsp >= 6

BootMainInv == MainInv /\ GuestInv

LEMMA BootInitInv == BootInit => BootMainInv
  <1> SUFFICES ASSUME BootInit PROVE BootMainInv
    OBVIOUS
  <1>1. MainInv
    BY MainInit DEF BootInit
  <1>2. at = "words" /\ saved = <<>> /\ rsp \in Nat
    BY <1>1 DEF BootInit, MainInv, TypeInv, TypeOK
  <1>3. Len(saved) = 0 /\ saved \in Seq(Range(saved))
    BY <1>2
  <1> QED
    BY <1>1, <1>2, <1>3 DEF BootMainInv, GuestInv

(* A step of the guest's disturbs of main's state the memory and the stack *)
(* pointer only.                                                           *)
LEMMA MainIsKept ==
  ASSUME MainInv, MainWaits, rsp' \in Nat, pc = "run"
  PROVE  MainInv'
  <1>1. TypeInv'
    BY DEF MainWaits, MainInv, TypeInv, TypeOK
  <1>2. LogInv' /\ StatusInv'
    BY DEF MainWaits, MainInv, LogInv, StatusInv
  <1>3. HvInv' /\ PluginInv' /\ StackInv'
    BY DEF MainWaits, MainInv, HvInv, PluginInv, StackInv
  <1> QED
    BY <1>1, <1>2, <1>3 DEF MainInv

LEMMA AppendSaved ==
  ASSUME NEW s, s \in Seq(Range(s)), NEW e
  PROVE  /\ Append(s, e) \in Seq(Range(Append(s, e)))
         /\ Len(Append(s, e)) = Len(s) + 1 /\ Len(s) \in Nat
  <1>1. /\ Len(Append(s, e)) = Len(s) + 1 /\ Len(s) \in Nat
        /\ DOMAIN Append(s, e) = 1 .. Len(s) + 1
        /\ Append(s, e) = [k \in 1 .. Len(s) + 1 |-> Append(s, e)[k]]
    <2> DEFINE S == Range(s) \cup {e}
    <2>1. s \in Seq(S) /\ e \in S
      OBVIOUS
    <2> HIDE DEF S
    <2>2. Append(s, e) \in Seq(S) /\ Len(Append(s, e)) = Len(s) + 1
          /\ Len(s) \in Nat
      BY <2>1
    <2>3. \A t \in Seq(S) : DOMAIN t = 1 .. Len(t)
                             /\ t = [k \in 1 .. Len(t) |-> t[k]]
      OBVIOUS
    <2> QED
      BY <2>2, <2>3, Zenon
  <1>2. \A k \in 1 .. Len(s) + 1 : Append(s, e)[k] \in Range(Append(s, e))
    BY <1>1 DEF Range
  <1> QED
    BY <1>1, <1>2

LEMMA BootStep == BootMainInv /\ BootNext => BootMainInv'
  <1> SUFFICES ASSUME BootMainInv, BootNext PROVE BootMainInv'
    OBVIOUS
  <1> USE DEF BootMainInv
  <1>0. rsp \in Nat
    BY DEF MainInv, TypeInv, TypeOK
  <1>1. CASE Main
    <2>1. MainInv'
      BY <1>1, MainStep DEF Main, Next
    <2>2. UNCHANGED <<at, saved>> /\ rsp' \in Nat
      BY <1>1, <2>1 DEF Main, bootVars, MainInv, TypeInv, TypeOK
    <2>3. CASE pc \in Starting
      <3>1. saved' = <<>> /\ at' = "words" /\ Len(saved') = 0
        BY <2>2, <2>3 DEF GuestInv
      <3> QED
        BY <2>1, <2>2, <3>1 DEF GuestInv
    <2>4. CASE pc \notin Starting
      <3>1. pc' \notin Starting /\ rsp' = rsp
        <4>1. CASE SetUp
          BY <2>4, <4>1
          DEF SetUp, Starting, getopt, main_options_done, hv_vm_create,
              vm_mem_init, hv_vcpu_create, vcpu_setup_ia32, load_raw,
              load_plugin, load_mach_obj, main_arg, main_args_done, main_push
        <4>2. CASE CleanUp
          BY <4>2 DEF CleanUp, Starting, hv_vcpu_destroy, hv_vm_destroy,
                      Proceed, Fail
        <4>3. CASE Over
          BY <2>4, <4>3 DEF Over, vars
        <4> QED
          BY <1>1, <4>1, <4>2, <4>3 DEF Main
      <3> QED
        BY <2>1, <2>2, <3>1 DEF GuestInv
    <2> QED
      BY <2>3, <2>4
  <1>2. ASSUME vcpu_run, UNCHANGED saved,
               at' \in {"error", "refused", "halted", "stopped", "nmi"}
        PROVE  BootMainInv'
    <2>1. MainInv'
      BY <1>2, MainStep DEF Next
    <2>2. pc' \notin Starting /\ rsp' = rsp
      BY <1>2 DEF vcpu_run, Proceed, Starting
    <2> QED
      BY <1>2, <2>1, <2>2 DEF GuestInv
  <1>3. ASSUME UNCHANGED <<vars, at, saved>>
        PROVE  BootMainInv'
    <2>1. MainInv'
      BY <1>3, MainStutters
    <2> QED
      BY <1>3, <2>1 DEF vars, GuestInv
  <1>4. ASSUME pc = "run", MainWaits, rsp' \in Nat, UNCHANGED saved,
               at' # "words",
               rsp' >= 6 \/ at' \notin {"cr3", "rdmsr", "wrmsr", "paging",
                                        "segments", "long"}
        PROVE  BootMainInv'
    <2>1. MainInv' /\ pc' \notin Starting
      BY <1>4, MainIsKept DEF MainWaits, Starting
    <2> QED
      BY <1>4, <2>1 DEF GuestInv
  <1>5. CASE hv_vcpu_run
    BY <1>2, <1>3, <1>5 DEF hv_vcpu_run
  <1>6. CASE irq
    BY <1>3, <1>6 DEF irq
  <1>7. CASE pop_words
    <2>1. /\ pc = "run" /\ MainWaits /\ at = "words" /\ rsp' = rsp + 1
          /\ saved' = Append(saved, mem[rsp])
          /\ at' = IF Len(saved) = 5 THEN "cr3" ELSE "words"
      BY <1>7 DEF pop_words, Guest
    <2>2. /\ saved' \in Seq(Range(saved')) /\ Len(saved') = Len(saved) + 1
          /\ Len(saved) \in Nat
      BY <2>1, AppendSaved DEF GuestInv
    <2>3. /\ rsp' \in Nat /\ rsp' >= Len(saved')
          /\ at' = "words" => Len(saved') <= 5
          /\ at' # "words" => at' = "cr3" /\ rsp' >= 6
      <3>1. Len(saved) <= 5 /\ rsp >= Len(saved)
        BY <2>1 DEF GuestInv
      <3>2. /\ rsp' = rsp + 1 /\ Len(saved') = Len(saved) + 1
            /\ Len(saved) = 5 => at' = "cr3"
            /\ Len(saved) # 5 => at' = "words"
        BY <2>1, <2>2, Zenon
      <3>3. /\ rsp' \in Nat /\ rsp' >= Len(saved')
            /\ Len(saved) # 5 => Len(saved') <= 5
            /\ Len(saved) = 5 => rsp' >= 6
        <4>1. \A n, r \in Nat : n <= 5 /\ r >= n =>
                /\ r + 1 \in Nat /\ r + 1 >= n + 1
                /\ n # 5 => n + 1 <= 5
                /\ n = 5 => r + 1 >= 6
          OBVIOUS
        <4> QED
          BY <1>0, <2>2, <3>1, <3>2, <4>1, Zenon
      <3> QED
        BY <3>2, <3>3, Zenon
    <2>4. MainInv' /\ pc' \notin Starting
      BY <2>1, <2>3, MainIsKept DEF MainWaits, Starting
    <2> QED
      BY <2>1, <2>2, <2>3, <2>4 DEF GuestInv
  <1>8. CASE load_cr3 \/ rdmsr \/ wrmsr \/ enable_paging
    <2>1. /\ pc = "run" /\ MainWaits /\ rsp' = rsp /\ UNCHANGED saved
          /\ at \in {"cr3", "rdmsr", "wrmsr", "paging"}
          /\ at' \in {"rdmsr", "wrmsr", "paging", "segments"}
      BY <1>8 DEF load_cr3, rdmsr, wrmsr, enable_paging, Guest
    <2>2. rsp >= 6 /\ at' # "words"
      BY <2>1 DEF GuestInv
    <2> QED
      BY <1>0, <1>4, <2>1, <2>2
  <1>9. CASE load_segments
    <2>1. /\ pc = "run" /\ MainWaits /\ rsp' = rsp + 1 /\ UNCHANGED saved
          /\ at = "segments" /\ at' = "long"
      BY <1>9 DEF load_segments, Guest
    <2>2. rsp' \in Nat /\ rsp' >= 6 /\ at' # "words"
      BY <1>0, <2>1 DEF GuestInv
    <2> QED
      BY <1>4, <2>1, <2>2
  <1>10. CASE jump_to_app
    <2>1. /\ pc = "run" /\ MainWaits /\ rsp' = rsp - 2 /\ UNCHANGED saved
          /\ at = "long" /\ at' \in {"app", "lost"}
      BY <1>10 DEF jump_to_app, Guest
    <2>2. rsp' \in Nat /\ at' # "words"
      BY <1>0, <2>1 DEF GuestInv
    <2> QED
      BY <1>4, <2>1, <2>2
  <1>11. CASE app_returns
    <2>1. /\ pc = "run" /\ MainWaits /\ rsp' = rsp + 2 /\ UNCHANGED saved
          /\ at' \in {"halt", "lost"}
      BY <1>11 DEF app_returns, Guest
    <2> QED
      BY <1>0, <1>4, <2>1
  <1>12. CASE derail
    <2>1. /\ pc = "run" /\ MainWaits /\ rsp' = rsp /\ UNCHANGED saved
          /\ at' = "lost"
      BY <1>12 DEF derail
    <2> QED
      BY <1>0, <1>4, <2>1
  <1>13. CASE halt \/ lost_stops
    BY <1>2, <1>13 DEF halt, lost_stops
  <1>14. CASE exc_nmi
    <2>1. /\ pc = "run" /\ UNCHANGED saved
          /\ \/ at' = "nmi" /\ vcpu_run
             \/ at' \in {"lost", "astray"} /\ UNCHANGED vars
      BY <1>14 DEF exc_nmi
    <2>2. CASE at' = "nmi" /\ vcpu_run
      BY <1>2, <2>1, <2>2
    <2>3. CASE at' \in {"lost", "astray"} /\ UNCHANGED vars
      <3>1. MainWaits /\ UNCHANGED rsp
        BY <2>3 DEF vars, MainWaits
      <3> QED
        BY <1>0, <1>4, <2>1, <2>3, <3>1
    <2> QED
      BY <2>1, <2>2, <2>3
  <1> QED
    BY <1>1, <1>5, <1>6, <1>7, <1>8, <1>9, <1>10, <1>11, <1>12, <1>13,
       <1>14 DEF BootNext, Instructions

LEMMA BootAlways == BootSpec => []BootMainInv
  <1>1. BootMainInv /\ UNCHANGED allVars => BootMainInv'
    <2> SUFFICES ASSUME BootMainInv, UNCHANGED allVars PROVE BootMainInv'
      OBVIOUS
    <2>1. MainInv'
      BY MainStutters DEF allVars, BootMainInv
    <2>2. GuestInv'
      BY DEF allVars, vars, bootVars, BootMainInv, GuestInv
    <2> QED
      BY <2>1, <2>2 DEF BootMainInv
  <1>2. BootMainInv /\ [BootNext]_allVars => BootMainInv'
    BY <1>1, BootStep
  <1> QED
    BY <1>2, BootInitInv, PTL DEF BootSpec

-----------------------------------------------------------------------------

(* main's variables keep their types; ret_val is never anything but 0 or   *)
(* 1, however many calls fail.                                             *)
THEOREM MainTypes == BootSpec => []TypeOK
  <1>1. BootMainInv => TypeOK
    BY MainInvImplies DEF BootMainInv
  <1> QED
    BY <1>1, BootAlways, PTL

(* An exit with status 0 leaves no VM and no VCPU in the framework, for    *)
(* every command line and every combination of failures.                   *)
THEOREM MainLeavesNothing == BootSpec => []NothingLeft
  <1>1. BootMainInv => NothingLeft
    BY MainInvImplies DEF BootMainInv
  <1> QED
    BY <1>1, BootAlways, PTL

(* Exactly which failures the exit status tells of.                        *)
THEOREM MainStatus == BootSpec => []StatusTells
  <1>1. BootMainInv => StatusTells
    BY MainInvImplies DEF BootMainInv
  <1> QED
    BY <1>1, BootAlways, PTL

(* A noticed failure has its ERROR line in the file of the last -o, unless *)
(* the level is SILENT.                                                    *)
THEOREM MainFailureVisible == BootSpec => []FailureVisible
  <1>1. BootMainInv => FailureVisible
    BY MainInvImplies DEF BootMainInv
  <1> QED
    BY <1>1, BootAlways, PTL

(* The guest never runs with callbacks into a library that load_plugin has *)
(* closed.                                                                 *)
THEOREM MainNoDanglingCallback == BootSpec => []NoDanglingCallback
  <1>1. BootMainInv => NoDanglingCallback
    BY MainInvImplies DEF BootMainInv
  <1> QED
    BY <1>1, BootAlways, PTL

=============================================================================
