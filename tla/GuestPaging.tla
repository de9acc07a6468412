---------------------------- MODULE GuestPaging ----------------------------
(***************************************************************************)
(* The guest's page tables as Hvexec builds them before the guest runs:    *)
(* vm_mem_init, the GDT that vcpu_setup_ia32 writes at guest-physical 0,   *)
(* load_mach_obj, and the map_gva they call, one table level at a time;    *)
(* and the host's own walk of the tables, gva_to_gpa and vm_mem_verify.    *)
(*                                                                         *)
(* Guest-physical memory is used through what MemRegions establishes: phys *)
(* is the set of pages that gpa_to_hva translates, vm_mem_alloc takes the  *)
(* lowest free range or fails, and distinct pages are distinct host pages, *)
(* so mem is indexed by guest-physical page.  Addresses are page numbers;  *)
(* a table has Fanout entries where the hardware has 512.                  *)
(***************************************************************************)
EXTENDS Integers, FiniteSets

CONSTANTS
  Fanout,      \* entries of a paging structure
  GpaPages,    \* guest-physical pages the framework accepts
  AddrPages,   \* page numbers an entry can hold
  InitPages,   \* CONF_INIT_NUM_PAGES
  LoadPage,    \* the page of 0x100000000, where the executable is mapped
  MaxImage,    \* bound on the pages of the executable
  Fresh,       \* contents a page from valloc or mmap can have
  MaxFaults,   \* bound on the faults counted below
  Residue,     \* entries an uninitialized stack word can hold
  Gdt          \* the descriptor table as the entries it reads as

Pages == 0 .. GpaPages - 1
Slots == 0 .. Fanout - 1
Gvas  == 0 .. Fanout * Fanout * Fanout * Fanout - 1

(* A table entry: a page number and the PRESENT and WRITE bits.            *)
Entry == [ppn : 0 .. AddrPages - 1, flags : 0 .. 3]
Zero  == [ppn |-> 0, flags |-> 0]

None == -1      \* pml4 == NULL; no translation
LoadedPages(n) == LoadPage .. LoadPage + n - 1

ASSUME PagingAssumption ==
  /\ Fanout \in Nat \ {0, 1}
  /\ GpaPages \in Nat /\ AddrPages \in Nat /\ GpaPages <= AddrPages
  /\ InitPages \in Nat \ {0} /\ InitPages < LoadPage
  /\ LoadPage \in Nat /\ MaxImage \in Nat /\ MaxFaults \in Nat
  /\ LoadPage + MaxImage <= GpaPages
  /\ LoadPage + MaxImage <= Fanout * Fanout * Fanout * Fanout
  /\ Fresh \subseteq [Slots -> Entry]
  /\ Residue \subseteq Entry
  /\ Gdt \in [Slots -> Entry]

VARIABLES
  phys,     \* guest-physical pages that are mapped
  mem,      \* their contents, as far as a table walk can see them
  pml4,     \* page of the root table (pml4_gpa), or None
  call,     \* the map_gva call in progress
  phase,    \* how far main is
  mapped,   \* ghost: the translation each finished map_gva iteration set up
  faults    \* ghost: number of failed vm_mem_alloc calls in map_gva's loop
            \*   and of tables whose page valloc did not return zeroed

vars == <<phys, mem, pml4, call, phase, mapped, faults>>

Idle == [at |-> "idle", gva |-> 0, gpa |-> 0, npages |-> 0,
         level |-> 0, table |-> 0]

Called(gva, npages, gpa) ==
  [Idle EXCEPT !.at = "root", !.gva = gva, !.gpa = gpa, !.npages = npages]

-----------------------------------------------------------------------------
(* decode_gva: the index of gva in the table of a level; 4 is the PML4 and *)
(* 1 the page table.                                                       *)
Span(level) == CASE level = 1 -> 1
                 [] level = 2 -> Fanout
                 [] level = 3 -> Fanout * Fanout
                 [] level = 4 -> Fanout * Fanout * Fanout

decode_gva(gva, level) == (gva \div Span(level)) % Fanout

(* vm_mem_read of one entry: outside mapped memory it stores nothing and   *)
(* the word keeps what it held.                                            *)
vm_mem_read(page, slot, old) == IF page \in phys THEN mem[page][slot] ELSE old

(* vm_mem_write of one entry into contents m: nothing outside mapped       *)
(* memory.                                                                 *)
vm_mem_write(m, page, slot, entry) ==
  IF page \in DOMAIN m THEN [m EXCEPT ![page][slot] = entry] ELSE m

(* vm_mem_alloc: the first page of the lowest free range of npages.        *)
FreeRange(page, npages) ==
  /\ page .. page + npages - 1 \subseteq Pages
  /\ (page .. page + npages - 1) \cap phys = {}

vm_mem_alloc(page, npages) ==
  /\ FreeRange(page, npages)
  /\ \A q \in 0 .. page - 1 : ~FreeRange(q, npages)

Fault == faults < MaxFaults /\ faults' = faults + 1

(* valloc does not clear the page of a new table.                          *)
NewTable(c) == IF \A s \in Slots : c[s] = Zero THEN UNCHANGED faults ELSE Fault

(* Contents once the pages of set P are mapped with contents c.            *)
Filled(P, c) == [p \in phys \cup P |-> IF p \in P THEN c ELSE mem[p]]

-----------------------------------------------------------------------------
(* main calls vm_mem_init (phase "start"), which ends in map_gva.          *)
vm_mem_init ==
  /\ phase = "start"
  /\ \E page \in Pages, c \in Fresh :
        /\ vm_mem_alloc(page, InitPages)
        /\ page = 0
        /\ phys' = phys \cup (page .. page + InitPages - 1)
        /\ mem' = Filled(page .. page + InitPages - 1, c)
        /\ call' = Called(0, InitPages, page)
  /\ phase' = "init"
  /\ UNCHANGED <<pml4, mapped, faults>>

vm_mem_init_fails ==
  /\ phase = "start"
  /\ phase' = "failed"
  /\ UNCHANGED <<phys, mem, pml4, call, mapped, faults>>

(* Variant: the walk starts from the root as it was before the call.       *)
map_gva_root_stale ==
  /\ call.at = "root"
  /\ \/ /\ pml4 # None
        /\ call' = [call EXCEPT !.at = "walk", !.level = 4, !.table = pml4]
        /\ UNCHANGED <<phys, mem, pml4, faults>>
     \/ /\ pml4 = None
        /\ \E page \in Pages, c \in Fresh :
              /\ vm_mem_alloc(page, 1)
              /\ phys' = phys \cup {page}
              /\ mem' = Filled({page}, c)
              /\ pml4' = page
              /\ call' = [call EXCEPT !.at = "walk", !.level = 4,
                                      !.table = pml4]
              /\ NewTable(c)
  /\ UNCHANGED <<phase, mapped>>

(* map_gva, lines 164-177: the root table is allocated once.               *)
map_gva_root ==
  /\ call.at = "root"
  /\ \/ /\ pml4 # None
        /\ call' = [call EXCEPT !.at = "walk", !.level = 4, !.table = pml4]
        /\ UNCHANGED <<phys, mem, pml4, faults>>
     \/ /\ pml4 = None
        /\ \E page \in Pages, c \in Fresh :
              /\ vm_mem_alloc(page, 1)
              /\ phys' = phys \cup {page}
              /\ mem' = Filled({page}, c)
              /\ pml4' = page
              /\ call' = [call EXCEPT !.at = "walk", !.level = 4,
                                      !.table = page]
              /\ NewTable(c)
  /\ UNCHANGED <<phase, mapped>>

map_gva_root_fails ==
  /\ call.at = "root" /\ pml4 = None
  /\ call' = Idle
  /\ phase' = "failed"
  /\ UNCHANGED <<phys, mem, pml4, mapped, faults>>

(* Lines 190-230: read the entry of one of the three upper levels, take or *)
(* allocate the table below it, write the entry back, go down.  A failed   *)
(* vm_mem_alloc goes unnoticed and leaves the table's address              *)
(* uninitialized; so does a read outside mapped memory for the entry.      *)
Slot == decode_gva(call.gva, call.level)

(* Variant: the entry in the table is never looked at.                     *)
EntryRead_never == {Zero}

EntryRead == {vm_mem_read(call.table, Slot, old) : old \in Residue}

TableEntry(page) == [ppn |-> page, flags |-> 3]

Descend(page) == [call EXCEPT !.level = @ - 1, !.table = page]

map_gva_descend ==
  /\ call.at = "walk" /\ call.level > 1
  /\ \E e \in EntryRead :
        \/ /\ e # Zero
           /\ mem' = vm_mem_write(mem, call.table, Slot, TableEntry(e.ppn))
           /\ call' = Descend(e.ppn)
           /\ UNCHANGED <<phys, faults>>
        \/ /\ e = Zero
           /\ \E page \in Pages, c \in Fresh :
                 /\ vm_mem_alloc(page, 1)
                 /\ phys' = phys \cup {page}
                 /\ mem' = vm_mem_write(Filled({page}, c), call.table, Slot,
                                        TableEntry(page))
                 /\ call' = Descend(page)
                 /\ NewTable(c)
        \/ /\ e = Zero
           /\ \E r \in Residue :
                 /\ mem' = vm_mem_write(mem, call.table, Slot,
                                        TableEntry(r.ppn))
                 /\ call' = Descend(r.ppn)
           /\ Fault
           /\ UNCHANGED phys
  /\ UNCHANGED <<pml4, phase, mapped>>

(* Variant: the loop goes on with the same page.                           *)
map_gva_leaf_same_page ==
  /\ call.at = "walk" /\ call.level = 1
  /\ mem' = vm_mem_write(mem, call.table, Slot, TableEntry(call.gpa))
  /\ mapped' = [mapped EXCEPT ![call.gva] = call.gpa]
  /\ call' = [call EXCEPT !.level = 4, !.table = pml4]
  /\ UNCHANGED <<phase, phys, pml4, faults>>

(* Lines 232-239: write the page-table entry, go on with the next page or  *)
(* return 0 to the caller.                                                 *)
map_gva_leaf ==
  /\ call.at = "walk" /\ call.level = 1
  /\ mem' = vm_mem_write(mem, call.table, Slot, TableEntry(call.gpa))
  /\ mapped' = [mapped EXCEPT ![call.gva] = call.gpa]
  /\ IF call.npages > 1
     THEN /\ call' = [call EXCEPT !.gva = @ + 1, !.gpa = @ + 1,
                                  !.npages = @ - 1, !.level = 4,
                                  !.table = pml4]
          /\ UNCHANGED phase
     ELSE /\ call' = Idle
          /\ phase' = IF phase = "init" THEN "setup" ELSE "run"
  /\ UNCHANGED <<phys, pml4, faults>>

(* vcpu_setup_ia32, lines 94-107: the descriptor table goes to page 0.     *)
vcpu_setup_ia32 ==
  /\ phase = "setup"
  /\ mem' = [mem EXCEPT ![0] = Gdt]
  /\ phase' = "load"
  /\ UNCHANGED <<phys, pml4, call, mapped, faults>>

(* Variant: the executable's pages are not entered in the list of regions. *)
load_mach_obj_unlisted(npages) ==
  /\ phase = "load" /\ call.at = "idle"
  /\ FreeRange(LoadPage, npages)
  /\ call' = Called(LoadPage, npages, LoadPage)
  /\ UNCHANGED <<phys, mem, pml4, phase, mapped, faults>>

(* load_mach_obj, lines 96-128: map_gpa of the file, then map_gva.         *)
load_mach_obj(npages) ==
  /\ phase = "load" /\ call.at = "idle"
  /\ FreeRange(LoadPage, npages)
  /\ \E c \in Fresh : mem' = Filled(LoadedPages(npages), c)
  /\ phys' = phys \cup LoadedPages(npages)
  /\ call' = Called(LoadPage, npages, LoadPage)
  /\ UNCHANGED <<pml4, phase, mapped, faults>>

load_mach_obj_fails ==
  /\ phase = "load" /\ call.at = "idle"
  /\ phase' = "failed"
  /\ UNCHANGED <<phys, mem, pml4, call, mapped, faults>>

-----------------------------------------------------------------------------
Init ==
  /\ phys = {}
  /\ mem = [p \in {} |-> [s \in Slots |-> Zero]]
  /\ pml4 = None
  /\ call = Idle
  /\ phase = "start"
  /\ mapped = [g \in Gvas |-> None]
  /\ faults = 0

(* The set-up is over: the guest runs, or main has given up.               *)
Over ==
  /\ phase \in {"run", "failed"}
  /\ UNCHANGED vars

(* main up to vcpu_run, as far as it concerns the tables; load_raw, which  *)
(* stores a kernel that fits in low pages only, is in Launch.              *)
Host ==
  \/ vm_mem_init \/ vm_mem_init_fails
  \/ map_gva_root \/ map_gva_root_fails
  \/ map_gva_descend \/ map_gva_leaf
  \/ vcpu_setup_ia32
  \/ \E npages \in 1 .. MaxImage : load_mach_obj(npages)
  \/ load_mach_obj_fails

Next == Host \/ Over

(* main is straight-line code of one thread: it takes its next step.       *)
Spec == Init /\ [][Next]_vars /\ WF_vars(Host)

-----------------------------------------------------------------------------
(* Variant: the page directory and the page table index swapped.           *)
gva_to_gpa_swapped(gva) ==
  LET e4 == vm_mem_read(pml4, decode_gva(gva, 4), Zero)
      e3 == vm_mem_read(e4.ppn, decode_gva(gva, 3), e4)
      e2 == vm_mem_read(e3.ppn, decode_gva(gva, 1), e3)
      e1 == vm_mem_read(e2.ppn, decode_gva(gva, 2), e2)
  IN  e1.ppn

(* The host's walk: gva_to_gpa looks at no PRESENT bit, and one variable   *)
(* entry serves all four reads, so a read outside memory repeats the last. *)
(* Uninitialized as it is, its first value is never seen: the root's page, *)
(* once there is one, is mapped.                                           *)
gva_to_gpa(gva) ==
  LET e4 == vm_mem_read(pml4, decode_gva(gva, 4), Zero)
      e3 == vm_mem_read(e4.ppn, decode_gva(gva, 3), e4)
      e2 == vm_mem_read(e3.ppn, decode_gva(gva, 2), e3)
      e1 == vm_mem_read(e2.ppn, decode_gva(gva, 1), e2)
  IN  e1.ppn

(* vm_mem_verify: gpa_to_hva must translate every page of the buffer.      *)
vm_mem_verify(gva, npages) ==
  \A g \in gva .. gva + npages - 1 : gva_to_gpa(g) \in phys

(* The processor's walk (external): an entry that is not PRESENT, or a     *)
(* table outside mapped memory, ends it with a fault.                      *)
Present(e) == e.flags % 2 = 1

Walk(root, gva) ==
  LET Below(page, level) ==
        IF page \in phys
        THEN LET e == mem[page][decode_gva(gva, level)]
             IN  IF Present(e) THEN e.ppn ELSE None
        ELSE None
  IN  Below(Below(Below(Below(root, 4), 3), 2), 1)

Mmu(gva) == Walk(pml4, gva)

-----------------------------------------------------------------------------
(* Types.                                                                  *)
TypeOK ==
  /\ phys \subseteq Pages
  /\ mem \in [phys -> [Slots -> Entry]]
  /\ pml4 \in phys \cup {None}
  /\ call.at \in {"idle", "root", "walk"}
  /\ call.gva \in Gvas /\ call.gpa \in Pages
  /\ call.npages \in 0 .. InitPages + MaxImage
  /\ call.level \in 0 .. 4 /\ call.table \in 0 .. AddrPages - 1
  /\ phase \in {"start", "init", "setup", "load", "run", "failed"}
  /\ mapped \in [Gvas -> Pages \cup {None}]
  /\ faults \in 0 .. MaxFaults

(* As long as no allocation failed and tables are zeroed, at every step of *)
(* map_gva the processor translates each page mapped so far to the page it *)
(* was mapped to and faults on every other page: a later page never        *)
(* disturbs an earlier one, whatever the pages it maps contain.            *)
TranslationMatches ==
  faults = 0 /\ pml4 # None => \A g \in Gvas : Mmu(g) = mapped[g]

(* Where the processor translates, the host's walk gives the same page and *)
(* vm_mem_verify accepts it, the zero entries and the GDT notwithstanding. *)
HostWalkMatches ==
  faults = 0 /\ pml4 # None =>
     \A g \in Gvas : Mmu(g) # None => /\ gva_to_gpa(g) = Mmu(g)
                                      /\ vm_mem_verify(g, 1)

(* The pages of the tables reached from the root, level by level.          *)
Targets(S) == {e.ppn : e \in {f \in UNION {{mem[p][s] : s \in Slots} :
                                             p \in S \cap phys} : Present(f)}}
Tables == LET t3 == Targets({pml4})
              t2 == Targets(t3)
          IN  {pml4} \cup t3 \cup t2 \cup Targets(t2)

(* No guest-virtual address leads to a page that holds a paging structure: *)
(* neither the low pages nor the executable share a page with a table.     *)
TablesPrivate ==
  faults = 0 /\ pml4 # None => \A g \in Gvas : Mmu(g) \notin Tables

(* The set-up comes to its end: every map_gva loop terminates.             *)
SetUpEnds == <>(phase \in {"run", "failed"})

(* vm_mem_verify accepts only buffers that the processor can reach: what   *)
(* emulating a write or read relies on before it hands out a host address. *)
VerifiedIsMapped ==
  phase = "run" => \A g \in Gvas : vm_mem_verify(g, 1) => Mmu(g) # None

(* When vm_mem_init and load_mach_obj have both returned 0, every page     *)
(* that their map_gva calls went through is mapped.                        *)
SuccessIsMapped ==
  phase = "run" => \A g \in Gvas : mapped[g] # None => Mmu(g) = mapped[g]

=============================================================================
