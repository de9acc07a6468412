-------------------------------- MODULE Vmcs --------------------------------
(***************************************************************************)
(* The control state of the VCPU that decides whether the guest can be     *)
(* entered: EFER, CR0 with its shadow, and the IA-32e bit of the VM-entry  *)
(* controls; and what emu.c does to it.  Vcpu runs any guest on it, Boot   *)
(* the kernel of boot.asm.                                                 *)
(***************************************************************************)
EXTENDS Integers

VARIABLE vmcs  \* EFER, CR0 and its shadow as sets of bits, the LMA entry bit

(* vcpu_setup_ia32: 32-bit protected mode, paging off.                     *)
vmcs_setup == vmcs = [efer |-> {}, cr0 |-> {"PE", "ET", "NE"},
                      shadow |-> {"PE", "NE"}, lma |-> FALSE]

(* VM entry (external) checks that CR0 has NE, and PE with paging, that    *)
(* the guest is in IA-32e mode exactly when the entry controls say so, and *)
(* that LMA is LME with paging on.                                         *)
EntryValid ==
  /\ "NE" \in vmcs.cr0
  /\ "PG" \in vmcs.cr0 => "PE" \in vmcs.cr0
  /\ vmcs.lma <=> "LMA" \in vmcs.efer
  /\ vmcs.lma => "PG" \in vmcs.cr0
  /\ "PG" \in vmcs.cr0 => ("LMA" \in vmcs.efer <=> "LME" \in vmcs.efer)

(* emu_mov_cr on a value with paging switched on turns long mode active.   *)
LongMode(efer) == efer \cup {"LMA", "NXE", "SCE"}

(* Variant: the entry controls are not updated.                            *)
mov_to_cr0_no_entryctls(bits) ==
  IF "PG" \in bits /\ "LME" \in vmcs.efer
  THEN [vmcs EXCEPT !.efer = LongMode(@), !.cr0 = bits, !.shadow = bits]
  ELSE [vmcs EXCEPT !.cr0 = bits, !.shadow = bits]

mov_to_cr0(bits) ==
  IF "PG" \in bits /\ "LME" \in vmcs.efer
  THEN [efer |-> LongMode(vmcs.efer), cr0 |-> bits, shadow |-> bits,
        lma |-> TRUE]
  ELSE [vmcs EXCEPT !.cr0 = bits, !.shadow = bits]

(* emu_wrmsr on EFER stores the guest's value as it is.                    *)
wrmsr_efer(bits) == [vmcs EXCEPT !.efer = bits]

=============================================================================
