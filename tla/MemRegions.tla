----------------------------- MODULE MemRegions -----------------------------
(***************************************************************************)
(* The guest-physical memory map of Hvexec: the list mem_regions of        *)
(* vm_mem.c, the first-fit search, map_gpa and vm_mem_alloc, and the part  *)
(* of load_mach_obj that maps an executable's file.                        *)
(*                                                                         *)
(* The unit of address and of length is the 4 KB page: every address the   *)
(* code stores is masked to a page and every length is a multiple of       *)
(* CONF_PAGE_SIZE, so byte addresses below are page numbers and the        *)
(* uint64_t range is AddrPages = 2^52 pages.  Unsigned additions and       *)
(* subtractions wrap around at AddrPages.                                  *)
(*                                                                         *)
(* External: Hypervisor.framework's second-level table (ept, changed by    *)
(* hv_vm_map and hv_vm_unmap) and the host allocator (heap, changed by     *)
(* valloc, free and mmap); each may refuse any request.                    *)
(***************************************************************************)
EXTENDS Integers, Sequences, SequencesExt

CONSTANTS
  AddrPages,  \* pages in the range of a uint64_t address
  GpaPages,   \* pages hv_vm_map accepts: 0 .. GpaPages - 1
  Blocks,     \* host blocks that valloc and mmap can return
  MaxPages,   \* bound on npages of one request
  NULL        \* the null pointer

Pages == 0 .. GpaPages - 1

HostPages == Blocks \X (0 .. MaxPages)

(* The framework's limit is far below 2^64 bytes, so no mapped region ends *)
(* at the top of the address range; a size_t page count fits the range.    *)
ASSUME ConstAssumption ==
  /\ AddrPages \in Nat
  /\ GpaPages \in Nat \ {0}
  /\ GpaPages < AddrPages
  /\ MaxPages \in Nat
  /\ MaxPages <= AddrPages
  /\ NULL \notin HostPages

VARIABLES
  mem_regions,  \* the linked list, head first
  ept,          \* guest-physical page -> host page, as the guest sees it
  heap,         \* pages owned by each host block, 0 when it is not allocated
  ret           \* result of the last call: 0, or -1 for failure

vars == <<mem_regions, ept, heap, ret>>

Region == [gpa : Pages, npages : 1 .. MaxPages, hva : Blocks]

(* uint64_t addition and subtraction of values below AddrPages.            *)
Add(a, b) == IF a + b < AddrPages THEN a + b ELSE a + b - AddrPages
Sub(a, b) == IF a >= b THEN a - b ELSE a - b + AddrPages

RegionEnd(i) == Add(mem_regions[i].gpa, mem_regions[i].npages)

-----------------------------------------------------------------------------
(* The walks over the list.                                                *)

(* find_free_mem_region: the walk breaks in front of element i, the first  *)
(* that leaves npages free pages behind start, or runs off the list.       *)
StartOf(i) == IF i = 1 THEN 0 ELSE RegionEnd(i - 1)

(* Variant: a gap of exactly npages is passed over.                        *)
Gap_strict(i, npages) == Sub(mem_regions[i].gpa, StartOf(i)) > npages

(* Variant: a gap one page too small is taken.                             *)
Gap_loose(i, npages) == Sub(mem_regions[i].gpa, StartOf(i)) + 1 >= npages

Gap(i, npages) == Sub(mem_regions[i].gpa, StartOf(i)) >= npages

find_free_mem_region(i, npages) ==
  /\ npages >= 1
  /\ \A j \in 1 .. i - 1 : ~Gap(j, npages)
  /\ i <= Len(mem_regions) => Gap(i, npages)

(* map_gpa: p stops at element i, the first that ends above gpa.           *)
WalkStops(i, gpa) ==
  /\ \A j \in 1 .. i - 1 : RegionEnd(j) <= gpa
  /\ i <= Len(mem_regions) => RegionEnd(i) > gpa

(* Variant: the length of the new range is not added.                      *)
Fits_start_only(i, gpa, npages) ==
  i <= Len(mem_regions) => mem_regions[i].gpa >= gpa

Fits(i, gpa, npages) ==
  i <= Len(mem_regions) => mem_regions[i].gpa >= Add(gpa, npages)

(* Variant: the page behind a region counts as part of it.                 *)
Holds_end(i, gpa) == mem_regions[i].gpa <= gpa /\ gpa <= RegionEnd(i)

(* gpa_to_hva: the walk ends at the first element that starts above gpa or *)
(* that holds it.                                                          *)
Holds(i, gpa) == mem_regions[i].gpa <= gpa /\ gpa < RegionEnd(i)

Reaches(i, gpa) ==
  \A j \in 1 .. i - 1 : mem_regions[j].gpa <= gpa /\ ~Holds(j, gpa)

gpa_to_hva(gpa) ==
  IF \E i \in 1 .. Len(mem_regions) : Reaches(i, gpa) /\ Holds(i, gpa)
  THEN LET i == CHOOSE i \in 1 .. Len(mem_regions) :
                  Reaches(i, gpa) /\ Holds(i, gpa)
       IN  <<mem_regions[i].hva, gpa - mem_regions[i].gpa>>
  ELSE NULL

-----------------------------------------------------------------------------
(* Hypervisor.framework: hv_vm_map installs a range that lies inside the   *)
(* guest-physical space, replacing what was there; hv_vm_unmap removes it. *)
hv_vm_map_accepts(gpa, npages) == gpa + npages <= GpaPages

hv_vm_map(gpa, npages, hva) ==
  [p \in Pages |-> IF p \in gpa .. gpa + npages - 1
                   THEN <<hva, p - gpa>> ELSE ept[p]]

hv_vm_unmap(table, gpa, npages) ==
  [p \in Pages |-> IF p \in gpa .. gpa + npages - 1 THEN NULL ELSE table[p]]

-----------------------------------------------------------------------------
(* map_gpa, by its outcomes.  None of them touches the host block.         *)

NewRegion(gpa, npages, hva) == [gpa |-> gpa, npages |-> npages, hva |-> hva]

(* Lines 257-286: no pages, an overlap, or hv_vm_map fails.                *)
map_gpa_refused(gpa, npages) ==
  /\ \/ npages < 1
     \/ \E i \in 1 .. Len(mem_regions) :
           WalkStops(i, gpa) /\ ~Fits(i, gpa, npages)
     \/ \E i \in 1 .. Len(mem_regions) + 1 :
           WalkStops(i, gpa) /\ Fits(i, gpa, npages)  \* hv_vm_map fails
  /\ UNCHANGED <<mem_regions, ept>>

(* Variant: the undo path without hv_vm_unmap.                             *)
map_gpa_no_node_left(gpa, npages, hva) ==
  /\ npages >= 1
  /\ \E i \in 1 .. Len(mem_regions) + 1 :
        WalkStops(i, gpa) /\ Fits(i, gpa, npages)
  /\ hv_vm_map_accepts(gpa, npages)
  /\ ept' = hv_vm_map(gpa, npages, hva)
  /\ UNCHANGED mem_regions

(* Lines 288-304: the list node cannot be allocated, the mapping is undone *)
(* and the link restored.                                                  *)
map_gpa_no_node(gpa, npages, hva) ==
  /\ npages >= 1
  /\ \E i \in 1 .. Len(mem_regions) + 1 :
        WalkStops(i, gpa) /\ Fits(i, gpa, npages)
  /\ hv_vm_map_accepts(gpa, npages)
  /\ ept' = hv_vm_unmap(hv_vm_map(gpa, npages, hva), gpa, npages)
  /\ UNCHANGED mem_regions

(* Variant: without the test of npages.                                    *)
map_gpa_done_empty(gpa, npages, hva) ==
  /\ \E i \in 1 .. Len(mem_regions) + 1 :
        /\ WalkStops(i, gpa) /\ Fits(i, gpa, npages)
        /\ mem_regions' =
             InsertAt(mem_regions, i, NewRegion(gpa, npages, hva))
  /\ hv_vm_map_accepts(gpa, npages)
  /\ ept' = hv_vm_map(gpa, npages, hva)

(* Lines 281-301: mapped and linked in.                                    *)
map_gpa_done(gpa, npages, hva) ==
  /\ npages >= 1
  /\ \E i \in 1 .. Len(mem_regions) + 1 :
        /\ WalkStops(i, gpa) /\ Fits(i, gpa, npages)
        /\ mem_regions' =
             InsertAt(mem_regions, i, NewRegion(gpa, npages, hva))
  /\ hv_vm_map_accepts(gpa, npages)
  /\ ept' = hv_vm_map(gpa, npages, hva)

-----------------------------------------------------------------------------
(* vm_mem_alloc.  gpa is what the first-fit search returned, hva the block *)
(* valloc returned; a failure after valloc frees the block again.          *)

vm_mem_alloc_fails(npages) ==
  /\ \/ /\ npages < 1               \* find_free_mem_region fails
        /\ UNCHANGED <<mem_regions, ept>>
     \/ UNCHANGED <<mem_regions, ept>>  \* valloc returns NULL
     \/ \E i \in 1 .. Len(mem_regions) + 1, hva \in Blocks :
           /\ find_free_mem_region(i, npages)
           /\ heap[hva] = 0
           /\ \/ map_gpa_refused(StartOf(i), npages)
              \/ map_gpa_no_node(StartOf(i), npages, hva)
  /\ ret' = -1
  /\ UNCHANGED heap

(* Variant: success falls through to the free() of the error path.         *)
vm_mem_alloc_done_freed(npages, gpa, hva) ==
  /\ \E i \in 1 .. Len(mem_regions) + 1 :
        find_free_mem_region(i, npages) /\ gpa = StartOf(i)
  /\ heap[hva] = 0
  /\ map_gpa_done(gpa, npages, hva)
  /\ ret' = 0
  /\ UNCHANGED heap

vm_mem_alloc_done(npages, gpa, hva) ==
  /\ \E i \in 1 .. Len(mem_regions) + 1 :
        find_free_mem_region(i, npages) /\ gpa = StartOf(i)
  /\ heap[hva] = 0
  /\ heap' = [heap EXCEPT ![hva] = npages]
  /\ map_gpa_done(gpa, npages, hva)
  /\ ret' = 0

(* load_mach_obj, lines 97-121: mmap the file and map it at gpa.  A failed *)
(* mmap returns MAP_FAILED, which the test against NULL lets through and   *)
(* hv_vm_map refuses; a mapping that map_gpa refuses stays allocated.      *)
load_mach_obj_fails(gpa, npages) ==
  /\ \/ /\ map_gpa_refused(gpa, npages)
        /\ UNCHANGED heap
     \/ \E hva \in Blocks :
           /\ npages >= 1
           /\ heap[hva] = 0
           /\ heap' = [heap EXCEPT ![hva] = npages]
           /\ \/ map_gpa_refused(gpa, npages)
              \/ map_gpa_no_node(gpa, npages, hva)
  /\ ret' = -1

load_mach_obj_maps(gpa, npages, hva) ==
  /\ heap[hva] = 0
  /\ heap' = [heap EXCEPT ![hva] = npages]
  /\ map_gpa_done(gpa, npages, hva)
  /\ ret' = 0

-----------------------------------------------------------------------------
Init ==
  /\ mem_regions = <<>>
  /\ ept = [p \in Pages |-> NULL]
  /\ heap = [b \in Blocks |-> 0]
  /\ ret = 0

Next ==
  \/ \E npages \in 0 .. MaxPages :
        \/ vm_mem_alloc_fails(npages)
        \/ \E gpa \in Pages, hva \in Blocks :
              vm_mem_alloc_done(npages, gpa, hva)
  \/ \E gpa \in 0 .. AddrPages - 1, npages \in 0 .. MaxPages :
        \/ load_mach_obj_fails(gpa, npages)
        \/ \E hva \in Blocks : load_mach_obj_maps(gpa, npages, hva)

Spec == Init /\ [][Next]_vars

-----------------------------------------------------------------------------
(* Types of the list, the framework's table, the heap and the result.      *)
TypeOK ==
  /\ mem_regions \in Seq(Region)
  /\ ept \in [Pages -> HostPages \cup {NULL}]
  /\ heap \in [Blocks -> 0 .. MaxPages]
  /\ ret \in {0, -1}

(* The list is sorted, its regions are disjoint and none reaches past the  *)
(* guest-physical space: what every walk of vm_mem.c relies on.            *)
RegionsOrdered ==
  /\ \A i \in 1 .. Len(mem_regions) :
        mem_regions[i].gpa + mem_regions[i].npages <= GpaPages
  /\ \A i, j \in 1 .. Len(mem_regions) :
        i < j => mem_regions[i].gpa + mem_regions[i].npages
                   <= mem_regions[j].gpa

(* The host's walk and the guest's hardware table give the same host page  *)
(* for every guest-physical page, whatever calls failed half-way: what     *)
(* gpa_to_hva reads or writes is what the guest sees.                      *)
EptAgrees == \A p \in Pages : ept[p] = gpa_to_hva(p)

(* Every region is backed by its own live host block of exactly its size:  *)
(* no region survives the free() of its block and no two share one.        *)
HostBacked ==
  /\ \A i \in 1 .. Len(mem_regions) :
        heap[mem_regions[i].hva] = mem_regions[i].npages
  /\ \A i, j \in 1 .. Len(mem_regions) :
        i # j => mem_regions[i].hva # mem_regions[j].hva

(* Reference definition of a free range, by pages and not by a walk.       *)
Free(gpa, npages) ==
  \A i \in 1 .. Len(mem_regions) :
     \A p \in gpa .. gpa + npages - 1 :
        ~(/\ mem_regions[i].gpa <= p
          /\ p < mem_regions[i].gpa + mem_regions[i].npages)

(* find_free_mem_region returns the lowest free range of npages pages.     *)
FirstFit ==
  \A npages \in 1 .. MaxPages : \A i \in 1 .. Len(mem_regions) + 1 :
     find_free_mem_region(i, npages) =>
        /\ Free(StartOf(i), npages)
        /\ \A g \in 0 .. StartOf(i) - 1 : ~Free(g, npages)

(* The two walks agree: map_gpa never finds an overlap in a range that the *)
(* first-fit search returned, so vm_mem_alloc fails only when the host     *)
(* allocator or the framework does.                                        *)
AllocFits ==
  \A npages \in 1 .. MaxPages : \A i \in 1 .. Len(mem_regions) + 1 :
     find_free_mem_region(i, npages) =>
        \A j \in 1 .. Len(mem_regions) + 1 :
           WalkStops(j, StartOf(i)) => Fits(j, StartOf(i), npages)

(* The list implements the partial map of GuestPhys: a call that returns 0 *)
(* has mapped one free range to an unused block, a call that returns -1    *)
(* has changed no translation.                                             *)
Phys == INSTANCE GuestPhys
          WITH phys <- [p \in Pages |-> gpa_to_hva(p)]

ImplementsGuestPhys == Phys!Spec

=============================================================================
