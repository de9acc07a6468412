------------------------------ MODULE Buffers -------------------------------
(***************************************************************************)
(* The buffer of a read or write call: verified byte by byte in guest      *)
(* addresses (vm_mem_verify), then used as one contiguous range of host    *)
(* memory that starts where its first byte lies (emu_syscall_write,        *)
(* emu_syscall_read).                                                      *)
(*                                                                         *)
(* Composes GuestPaging with the host blocks behind the pages that         *)
(* MemRegions keeps, and with a running guest that stores into the memory  *)
(* it can reach and may load another page-table root, which does not exit. *)
(***************************************************************************)
EXTENDS GuestPaging

CONSTANTS
  PageBytes,   \* CONF_PAGE_SIZE
  MaxBuffer,   \* bound on the length of a buffer
  MaxStores    \* bound on the guest's stores and loads of CR3

ASSUME BuffersAssumption ==
  PageBytes \in Nat \ {0} /\ MaxBuffer \in Nat /\ MaxStores \in Nat

VARIABLES
  host,    \* guest-physical page -> host block and page within it
  cr3,     \* page of the root table the processor uses, None before it runs
  stores,  \* number of the guest's steps
  strayed  \* ghost: the guest has run on tables other than the host's

bufVars == <<vars, host, cr3, stores, strayed>>

-----------------------------------------------------------------------------
(* Host addresses.                                                         *)

Lowest(S) == CHOOSE p \in S : \A q \in S : p <= q

(* Variant: every page is allocated by itself.                             *)
Block_single(P) == [p \in P |-> [block |-> p, page |-> 0]]

(* The pages P of one call of map_gpa lie in one host block, in order; a   *)
(* block is named by the first page it was mapped at.                      *)
Block(P) == [p \in P |-> [block |-> Lowest(P), page |-> p - Lowest(P)]]

(* A step that maps pages gives them host memory.                          *)
Backed ==
  LET new == phys' \ phys IN
    host' = [p \in phys' |-> IF p \in new THEN Block(new)[p] ELSE host[p]]

(* gpa_to_hva of a byte address.                                           *)
gpa_to_hva(gpa) ==
  [block |-> host[gpa \div PageBytes].block,
   byte  |-> host[gpa \div PageBytes].page * PageBytes + (gpa % PageBytes)]

(* gva_to_gpa of a byte address: the walk's page and the offset.           *)
Translate(gva) == gva_to_gpa(gva \div PageBytes) * PageBytes
                    + (gva % PageBytes)

(* vm_mem_verify of nbyte bytes.                                           *)
VerifyBytes(gva, nbyte) ==
  \A k \in 0 .. nbyte - 1 : vm_mem_verify((gva + k) \div PageBytes, 1)

(* Byte k of the range that the host's read or write is given.             *)
BufferByte(gva, k) ==
  LET buf == gpa_to_hva(Translate(gva)) IN [buf EXCEPT !.byte = @ + k]

-----------------------------------------------------------------------------
(* The guest (external): the pages it reaches with root cr3.               *)

Reachable == {Walk(cr3, g) : g \in Gvas} \ {None}

GuestRuns == phase = "run" /\ stores < MaxStores
             /\ stores' = stores + 1
             /\ UNCHANGED <<phys, pml4, call, phase, mapped, faults, host>>

(* The guest stores a word, here one that a walk would take for an entry.  *)
guest_stores ==
  /\ GuestRuns
  /\ \E p \in Reachable \cap phys, s \in Slots, q \in Pages :
        mem' = [mem EXCEPT ![p][s] = TableEntry(q)]
  /\ UNCHANGED <<cr3, strayed>>

(* mov cr3: no control that vcpu_setup_ia32 sets makes it exit.            *)
guest_mov_cr3 ==
  /\ GuestRuns
  /\ cr3' \in Pages
  /\ strayed' = (strayed \/ cr3' # pml4)
  /\ UNCHANGED mem

(* boot.asm loads the root that vcpu_setup_ia32 put on the stack.          *)
HostStep ==
  /\ Host /\ Backed
  /\ cr3' = IF phase' = "run" THEN pml4' ELSE cr3
  /\ UNCHANGED <<stores, strayed>>

-----------------------------------------------------------------------------

BufInit == Init /\ host = [p \in {} |-> [block |-> 0, page |-> 0]]
           /\ cr3 = None /\ stores = 0 /\ strayed = FALSE

BufOver == Over /\ UNCHANGED <<host, cr3, stores, strayed>>

BufNext == HostStep \/ guest_stores \/ guest_mov_cr3 \/ BufOver

BufSpec == BufInit /\ [][BufNext]_bufVars

-----------------------------------------------------------------------------

GvaBytes == 0 .. Fanout * Fanout * Fanout * Fanout * PageBytes - 1

(* Whatever the guest has stored, as long as it has only run on the host's *)
(* tables (gva_to_gpa starts at the root built at start-up, never at CR3), *)
(* a buffer all of whose bytes it can reach is accepted, and the host's    *)
(* contiguous range consists of exactly the guest's bytes: no buffer runs  *)
(* from one host block over into another.  A guest with tables of its own  *)
(* may rewrite the host's, so that loading pml4 again is not enough.       *)
BufferIsGuests ==
  phase = "run" /\ faults = 0 /\ ~strayed =>
    \A gva \in GvaBytes, nbyte \in 1 .. MaxBuffer :
      LET Page(k) == Walk(cr3, (gva + k) \div PageBytes) IN
      gva + nbyte - 1 \in GvaBytes /\ (\A k \in 0 .. nbyte - 1 : Page(k) # None)
        => /\ VerifyBytes(gva, nbyte)
           /\ \A k \in 0 .. nbyte - 1 :
                BufferByte(gva, k)
                  = gpa_to_hva(Page(k) * PageBytes + ((gva + k) % PageBytes))

=============================================================================
