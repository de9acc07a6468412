--------------------------- MODULE BuffersProofs ---------------------------
(***************************************************************************)
(* Proof, for every layout of memory, every executable and any number of   *)
(* guest stores, that the host reads and writes exactly the buffer that    *)
(* the guest has named.                                                    *)
(***************************************************************************)
EXTENDS Buffers, GuestPagingProofs

(* A page that is handed to the guest: one of the low pages or one of the  *)
(* executable's.                                                           *)
Low(p) == p < InitPages
Given(p) == Low(p) \/ p >= LoadPage

(* Where the host keeps a page that is handed to the guest.                *)
Kept(p) == IF Low(p) THEN [block |-> 0, page |-> p]
           ELSE [block |-> LoadPage, page |-> p - LoadPage]

(* map_gva maps pages to themselves, and the pages in between are never    *)
(* mapped; the pages of the two ranges lie in their blocks in order.       *)
IdentityInv ==
  /\ \A g \in Gvas : mapped[g] # None =>
       mapped[g] = g /\ Given(g) /\ g \in phys /\ host[g] = Kept(g)
  /\ call.at # "idle" =>
       /\ call.gva = call.gpa
       /\ \A p \in call.gpa .. call.gpa + call.npages - 1 :
            Given(p) /\ host[p] = Kept(p)

(* The guest runs on the host's tables until it loads a root of its own;   *)
(* until then the tables stand as map_gva left them.                       *)
RunInv ==
  /\ strayed \in BOOLEAN
  /\ phase # "run" => ~strayed
  /\ phase = "run" => call.at = "idle"
  /\ phase = "run" /\ ~strayed => cr3 = pml4

BInv == Base /\ (~strayed => TreeInv) /\ IdentityInv /\ RunInv

LEMMA BInit == BufInit => BInv
  <1> SUFFICES ASSUME BufInit PROVE BInv
    OBVIOUS
  <1>1. PInv
    BY PInit DEF BufInit
  <1>2. IdentityInv /\ RunInv
    BY DEF BufInit, Init, Idle, IdentityInv, RunInv
  <1> QED
    BY <1>1, <1>2 DEF BInv, PInv, Base

LEMMA LowestIs ==
  ASSUME NEW a \in Nat, NEW n \in Nat \ {0}
  PROVE  Lowest(a .. a + n - 1) = a
  <1>1. a \in a .. a + n - 1 /\ \A q \in a .. a + n - 1 : a <= q
    OBVIOUS
  <1>2. \A p \in a .. a + n - 1 :
          (\A q \in a .. a + n - 1 : p <= q) => p = a
    OBVIOUS
  <1> QED
    BY <1>1, <1>2 DEF Lowest

(* The block of a range that is mapped at once.                            *)
LEMMA RangeBacked ==
  ASSUME Backed, NEW a \in Nat, NEW n \in Nat \ {0},
         phys' = phys \cup (a .. a + n - 1), (a .. a + n - 1) \cap phys = {}
  PROVE  /\ \A p \in phys : host'[p] = host[p]
         /\ \A p \in a .. a + n - 1 : host'[p] = [block |-> a, page |-> p - a]
  <1>1. phys' \ phys = a .. a + n - 1
    OBVIOUS
  <1>2. host' = [p \in phys' |-> IF p \in a .. a + n - 1
                                 THEN Block(a .. a + n - 1)[p] ELSE host[p]]
    BY <1>1 DEF Backed
  <1>3. \A p \in a .. a + n - 1 :
          Block(a .. a + n - 1)[p] = [block |-> a, page |-> p - a]
    BY LowestIs DEF Block
  <1> QED
    BY <1>2, <1>3

LEMMA OldBacked ==
  ASSUME Backed, phys \subseteq phys'
  PROVE  \A p \in phys : host'[p] = host[p]
  BY DEF Backed

(* The host's own steps never take memory away.                            *)
LEMMA HostGrows == Host => phys \subseteq phys'
  BY DEF Host, vm_mem_init, vm_mem_init_fails, map_gva_root,
         map_gva_root_fails, map_gva_descend, map_gva_leaf, vcpu_setup_ia32,
         load_mach_obj, load_mach_obj_fails

(* Steps that map no page: the call keeps its range, or ends.              *)
LEMMA IdentityKept ==
  ASSUME Base, IdentityInv, Host, Backed, UNCHANGED mapped,
         \/ call'.at = "idle"
         \/ /\ call.at # "idle" /\ call'.gva = call.gva
            /\ call'.gpa = call.gpa /\ call'.npages = call.npages
  PROVE  IdentityInv'
  <1>1. phys \subseteq phys' /\ \A p \in phys : host'[p] = host[p]
    BY HostGrows, OldBacked
  <1>2. \A g \in Gvas : mapped'[g] # None =>
          mapped'[g] = g /\ Given(g) /\ g \in phys' /\ host'[g] = Kept(g)
    BY <1>1 DEF IdentityInv
  <1>3. call'.at # "idle" =>
          /\ call'.gva = call'.gpa
          /\ \A p \in call'.gpa .. call'.gpa + call'.npages - 1 :
               Given(p) /\ host'[p] = Kept(p)
    BY <1>1 DEF IdentityInv, Base, CallInv
  <1> QED
    BY <1>2, <1>3 DEF IdentityInv

(* Steps that map a range and hand it to map_gva.                          *)
LEMMA IdentityStarts ==
  ASSUME Base, IdentityInv, Host, Backed, UNCHANGED mapped,
         NEW a \in Nat, NEW n \in Nat \ {0},
         phys' = phys \cup (a .. a + n - 1), (a .. a + n - 1) \cap phys = {},
         call'.gva = a, call'.gpa = a, call'.npages = n,
         (a = 0 /\ n = InitPages) \/ a = LoadPage
  PROVE  IdentityInv'
  <1>1. /\ \A p \in phys : host'[p] = host[p]
        /\ \A p \in a .. a + n - 1 : host'[p] = [block |-> a, page |-> p - a]
    BY RangeBacked
  <1>2. \A g \in Gvas : mapped'[g] # None =>
          mapped'[g] = g /\ Given(g) /\ g \in phys' /\ host'[g] = Kept(g)
    BY <1>1 DEF IdentityInv
  <1>3. \A p \in a .. a + n - 1 : Given(p) /\ host'[p] = Kept(p)
    <2> SUFFICES ASSUME NEW p \in a .. a + n - 1
                 PROVE  Given(p) /\ host'[p] = Kept(p)
      OBVIOUS
    <2>1. CASE a = 0 /\ n = InitPages
      <3>1. Low(p) /\ p - a = p
        BY <2>1, Sizes DEF Low
      <3> QED
        BY <1>1, <2>1, <3>1 DEF Given, Kept
    <2>2. CASE a = LoadPage
      <3>1. ~Low(p) /\ p >= LoadPage
        BY <2>2, Sizes DEF Low
      <3> QED
        BY <1>1, <2>2, <3>1 DEF Given, Kept
    <2> QED
      BY <2>1, <2>2
  <1> QED
    BY <1>2, <1>3 DEF IdentityInv

LEMMA IdentityLeaf ==
  ASSUME Base, IdentityInv, map_gva_leaf, Backed
  PROVE  IdentityInv'
  <1>1. /\ call.at = "walk" /\ UNCHANGED phys
        /\ mapped' = [mapped EXCEPT ![call.gva] = call.gpa]
    BY DEF map_gva_leaf
  <1>2. /\ call \in CallType /\ call.npages >= 1 /\ DOMAIN mapped = Gvas
        /\ call.gva + call.npages <= Top /\ call.gpa + call.npages <= GpaPages
        /\ pml4 \in 0 .. AddrPages - 1
    BY <1>1, EntryFacts DEF Base, TypeInv, TypeOK
  <1>3. \A p \in phys : host'[p] = host[p]
    BY <1>1, OldBacked
  <1>4. call.gpa \in Nat /\ call.npages \in Nat /\ call.gva \in Gvas
    BY <1>2, CallFields DEF Pages
  <1>5. call.gpa \in call.gpa .. call.gpa + call.npages - 1
    BY <1>2, <1>4
  <1>6. /\ call.gva = call.gpa
        /\ call.gpa .. call.gpa + call.npages - 1 \subseteq phys
        /\ \A p \in call.gpa .. call.gpa + call.npages - 1 :
             Given(p) /\ host'[p] = Kept(p)
    BY <1>1, <1>3 DEF IdentityInv, Base, CallInv
  <1>7. ASSUME NEW g \in Gvas, mapped'[g] # None
        PROVE  mapped'[g] = g /\ Given(g) /\ g \in phys' /\ host'[g] = Kept(g)
    <2>1. CASE g = call.gva
      BY <1>1, <1>2, <1>4, <1>5, <1>6, <2>1
    <2>2. CASE g # call.gva
      BY <1>1, <1>2, <1>3, <1>7, <2>2 DEF IdentityInv
    <2> QED
      BY <2>1, <2>2
  <1>8. call'.at # "idle" =>
          /\ call'.gva = call'.gpa
          /\ call'.gpa .. call'.gpa + call'.npages - 1
               \subseteq call.gpa .. call.gpa + call.npages - 1
    <2>1. CASE call.npages > 1
      <3>1. call' = [call EXCEPT !.gva = @ + 1, !.gpa = @ + 1,
                                 !.npages = @ - 1, !.level = 4, !.table = pml4]
        BY <2>1 DEF map_gva_leaf
      <3>2. /\ call'.gva = call.gva + 1 /\ call'.gpa = call.gpa + 1
            /\ call'.npages = call.npages - 1
        BY <1>2, <2>1, <3>1, CallNext
      <3> QED
        BY <1>4, <1>6, <3>2
    <2>2. CASE ~(call.npages > 1)
      BY <2>2 DEF map_gva_leaf, Idle
    <2> QED
      BY <2>1, <2>2
  <1> QED
    BY <1>6, <1>7, <1>8 DEF IdentityInv

LEMMA HostKeepsIdentity == BInv /\ HostStep => IdentityInv'
  <1> SUFFICES ASSUME BInv, HostStep PROVE IdentityInv'
    OBVIOUS
  <1>1. Base /\ IdentityInv /\ Host /\ Backed
    BY DEF BInv, HostStep
  <1>2. CASE vm_mem_init
    <2>1. /\ phys' = phys \cup (0 .. 0 + InitPages - 1)
          /\ (0 .. 0 + InitPages - 1) \cap phys = {}
          /\ call' = Called(0, InitPages, 0) /\ UNCHANGED mapped
          /\ 0 \in Pages
      BY <1>2 DEF vm_mem_init, vm_mem_alloc, FreeRange
    <2>2. 0 \in Gvas /\ InitPages \in 0 .. InitPages + MaxImage
          /\ InitPages \in Nat \ {0} /\ 0 \in Nat
      BY Sizes
    <2>3. call'.gva = 0 /\ call'.gpa = 0 /\ call'.npages = InitPages
      BY <2>1, <2>2, CallStarts
    <2> QED
      BY <1>1, <2>1, <2>2, <2>3, IdentityStarts
  <1>3. CASE \E npages \in 1 .. MaxImage : load_mach_obj(npages)
    <2>1. PICK npages \in 1 .. MaxImage : load_mach_obj(npages)
      BY <1>3
    <2>2. /\ phys' = phys \cup (LoadPage .. LoadPage + npages - 1)
          /\ (LoadPage .. LoadPage + npages - 1) \cap phys = {}
          /\ call' = Called(LoadPage, npages, LoadPage) /\ UNCHANGED mapped
      BY <2>1 DEF load_mach_obj, FreeRange, LoadedPages
    <2>3. /\ LoadPage \in Gvas /\ LoadPage \in Pages /\ LoadPage \in Nat
          /\ npages \in 0 .. InitPages + MaxImage /\ npages \in Nat \ {0}
      BY Sizes DEF Pages
    <2>4. call'.gva = LoadPage /\ call'.gpa = LoadPage /\ call'.npages = npages
      BY <2>2, <2>3, CallStarts
    <2> QED
      BY <1>1, <2>2, <2>3, <2>4, IdentityStarts
  <1>4. CASE map_gva_leaf
    BY <1>1, <1>4, IdentityLeaf
  <1>5. CASE \/ vm_mem_init_fails \/ load_mach_obj_fails \/ vcpu_setup_ia32
             \/ map_gva_root_fails
    <2>1. UNCHANGED mapped /\ call'.at = "idle"
      BY <1>1, <1>5
      DEF vm_mem_init_fails, load_mach_obj_fails, vcpu_setup_ia32,
          map_gva_root_fails, Base, PhaseInv, Idle
    <2> QED
      BY <1>1, <2>1, IdentityKept
  <1>6. CASE map_gva_root \/ map_gva_descend
    <2>1. UNCHANGED mapped /\ call.at # "idle"
      BY <1>6 DEF map_gva_root, map_gva_descend
    <2>2. /\ call'.gva = call.gva /\ call'.gpa = call.gpa
          /\ call'.npages = call.npages
      <3>1. call \in CallType
        BY <1>1 DEF Base, TypeInv
      <3> QED
        BY <1>6, <3>1 DEF map_gva_root, map_gva_descend, Descend, CallType
    <2> QED
      BY <1>1, <2>1, <2>2, IdentityKept
  <1> QED
    BY <1>1, <1>2, <1>3, <1>4, <1>5, <1>6 DEF Host

LEMMA HostKeepsRun == BInv /\ HostStep => RunInv' /\ UNCHANGED strayed /\ ~strayed
  <1> SUFFICES ASSUME BInv, HostStep
               PROVE  RunInv' /\ UNCHANGED strayed /\ ~strayed
    OBVIOUS
  <1>1. /\ Host /\ UNCHANGED strayed
        /\ cr3' = IF phase' = "run" THEN pml4' ELSE cr3
    BY DEF HostStep
  <1>2. phase # "run"
    BY <1>1
    DEF BInv, RunInv, Host, vm_mem_init, vm_mem_init_fails, map_gva_root,
        map_gva_root_fails, map_gva_descend, map_gva_leaf, vcpu_setup_ia32,
        load_mach_obj, load_mach_obj_fails
  <1>3. phase' = "run" => call'.at = "idle"
    <2>1. CASE map_gva_leaf
      BY <1>2, <2>1 DEF map_gva_leaf, Idle
    <2>2. CASE ~map_gva_leaf
      <3>1. phase' \in {phase, "init", "load", "failed"}
        BY <1>1, <2>2, Zenon
        DEF Host, vm_mem_init, vm_mem_init_fails, map_gva_root,
            map_gva_root_fails, map_gva_descend, vcpu_setup_ia32,
            load_mach_obj, load_mach_obj_fails
      <3> QED
        BY <1>2, <3>1
    <2> QED
      BY <2>1, <2>2
  <1>4. strayed \in BOOLEAN /\ ~strayed
    BY <1>2 DEF BInv, RunInv
  <1> QED
    BY <1>1, <1>3, <1>4, Zenon DEF RunInv

(* A step that leaves the tables and the call alone.                       *)
LEMMA TreeUnchanged ==
  TreeInv /\ UNCHANGED <<phys, mem, pml4, call, mapped, faults>> => TreeInv'
  <1> SUFFICES ASSUME TreeInv, faults = 0, pml4 # None,
                      UNCHANGED <<phys, mem, pml4, call, mapped, faults>>
               PROVE  \E tree \in TreeType : Built(tree)'
    BY DEF TreeInv
  <1>1. PICK tree \in TreeType : Built(tree)
    BY DEF TreeInv
  <1>2. Holds(tree)'
    BY <1>1, TablesStand DEF Built
  <1>3. Translates(tree)' /\ Apart(tree)' /\ OnPath(tree)'
    BY <1>1 DEF Built, Translates, Apart, OnPath
  <1> QED
    BY <1>2, <1>3 DEF Built

LEMMA GuestKeeps == BInv /\ (guest_stores \/ guest_mov_cr3) => BInv'
  <1> SUFFICES ASSUME BInv, guest_stores \/ guest_mov_cr3
               PROVE  BInv'
    OBVIOUS
  <1>1. /\ phase = "run" /\ call.at = "idle"
        /\ UNCHANGED <<phys, pml4, call, phase, mapped, faults, host>>
    BY DEF guest_stores, guest_mov_cr3, GuestRuns, BInv, RunInv
  <1>2. IdentityInv'
    BY <1>1 DEF BInv, IdentityInv
  <1>3. PhaseInv' /\ CallInv'
    BY <1>1 DEF BInv, Base, PhaseInv, CallInv
  <1>4. CASE guest_mov_cr3
    <2>1. strayed' = (strayed \/ cr3' # pml4) /\ UNCHANGED mem
      BY <1>4 DEF guest_mov_cr3
    <2>2. TypeInv' /\ (~strayed => TreeInv')
      BY <1>1, <2>1, TreeUnchanged DEF BInv, Base, TypeInv, TypeOK
    <2>3. strayed' \in BOOLEAN /\ (~strayed' => ~strayed /\ cr3' = pml4)
      BY <2>1, Zenon DEF BInv, RunInv
    <2>4. RunInv'
      BY <1>1, <2>3, Zenon DEF RunInv
    <2> QED
      BY <1>2, <1>3, <2>2, <2>3, <2>4, Zenon DEF BInv, Base
  <1>5. CASE guest_stores
    <2>1. UNCHANGED <<cr3, strayed>>
      BY <1>5 DEF guest_stores
    <2>2. PICK p \in Reachable \cap phys, s \in Slots, q \in Pages :
            mem' = [mem EXCEPT ![p][s] = TableEntry(q)]
      BY <1>5 DEF guest_stores
    <2>3. mem' \in [phys -> [Slots -> Entry]]
      <3>1. TableEntry(q) \in Entry /\ mem \in [phys -> [Slots -> Entry]]
        BY EntryFacts DEF BInv, Base, TypeInv, TypeOK
      <3> QED
        BY <2>2, <3>1
    <2>4. TypeInv'
      BY <1>1, <2>3 DEF BInv, Base, TypeInv, TypeOK
    <2>5. RunInv'
      BY <1>1, <2>1 DEF BInv, RunInv
    <2>6. ASSUME ~strayed PROVE TreeInv'
      <3> SUFFICES ASSUME faults = 0, pml4 # None
                   PROVE  \E tree \in TreeType : Built(tree)'
        BY <1>1 DEF TreeInv
      <3>1. PICK tree \in TreeType : Built(tree)
        BY <2>6 DEF BInv, TreeInv
      <3>2. PICK g \in Gvas : p = Walk(cr3, g) /\ p # None
        BY DEF Reachable
      <3>3. p = tree[0][g] /\ g \in Nat
        <4>1. Mmu(g) = p
          BY <1>1, <2>6, <3>2 DEF BInv, RunInv, Mmu
        <4>2. Mmu(g) = Node(tree, g, 0) /\ Prefix(g, 0) = g
          BY <3>1, WalkIsNode, PathEnds DEF BInv, Base, TypeInv
        <4> QED
          BY <4>1, <4>2 DEF Node, Gvas
      <3>4. \A l \in 1 .. 4, b \in Nat : tree[l][b] # None =>
              tree[l][b] # p /\ tree[l][b] \in phys
        BY <3>1, <3>3 DEF Built, Apart, Holds
      <3>5. \A r \in phys : r # p => mem'[r] = mem[r]
        BY <2>2 DEF BInv, Base, TypeInv, TypeOK
      <3>6. Holds(tree)'
        BY <1>1, <3>1, <3>4, <3>5, TablesStand DEF Built
      <3> QED
        BY <1>1, <3>1, <3>6 DEF Built, Translates, Apart, OnPath
    <2> QED
      BY <1>2, <1>3, <2>1, <2>4, <2>5, <2>6 DEF BInv, Base
  <1> QED
    BY <1>4, <1>5

LEMMA BStep == BInv /\ [BufNext]_bufVars => BInv'
  <1> SUFFICES ASSUME BInv, [BufNext]_bufVars PROVE BInv'
    OBVIOUS
  <1>1. CASE HostStep
    <2>1. RunInv' /\ UNCHANGED strayed /\ ~strayed
      BY <1>1, HostKeepsRun
    <2>2. PInv /\ Next
      BY <1>1, <2>1 DEF BInv, PInv, Base, HostStep, Next
    <2>3. PInv'
      BY <2>2, PStep
    <2> QED
      BY <1>1, <2>1, <2>3, HostKeepsIdentity DEF BInv, PInv, Base
  <1>2. CASE BufOver \/ UNCHANGED bufVars
    <2>1. UNCHANGED <<vars, host, cr3, strayed>>
      BY <1>2 DEF BufOver, Over, bufVars
    <2>2. Base'
      BY <2>1 DEF vars, BInv, Base, TypeInv, TypeOK, PhaseInv, CallInv
    <2>3. IdentityInv' /\ RunInv'
      BY <2>1 DEF vars, BInv, IdentityInv, RunInv
    <2>4. ~strayed => TreeInv'
      BY <2>1, TreeUnchanged DEF vars, BInv
    <2> QED
      BY <2>1, <2>2, <2>3, <2>4 DEF BInv
  <1> QED
    BY <1>1, <1>2, GuestKeeps DEF BufNext

LEMMA BAlways == BufSpec => []BInv
  BY BInit, BStep, PTL DEF BufSpec

-----------------------------------------------------------------------------
(* Bytes and pages.                                                        *)

LEMMA MulMono ==
  ASSUME NEW a \in Nat, NEW b \in Nat, NEW d \in Nat, a <= b
  PROVE  a * d <= b * d
  <1>1. PICK k \in Nat : b = a + k
    <2>1. b - a \in Nat /\ b = a + (b - a)
      OBVIOUS
    <2> QED
      BY <2>1
  <1>2. b * d = a * d + k * d /\ k * d \in Nat /\ a * d \in Nat
    BY <1>1
  <1> QED
    BY <1>2

(* A byte address is its page and its offset.                              *)
LEMMA Bytes ==
  ASSUME NEW x \in Nat
  PROVE  /\ x \div PageBytes \in Nat /\ x % PageBytes \in 0 .. PageBytes - 1
         /\ x = (x \div PageBytes) * PageBytes + (x % PageBytes)
  <1>1. PageBytes \in Nat \ {0}
    BY BuffersAssumption
  <1>2. /\ x \div PageBytes \in Nat /\ x % PageBytes \in 0 .. PageBytes - 1
        /\ x = PageBytes * (x \div PageBytes) + (x % PageBytes)
    BY <1>1, DivMod
  <1>3. PageBytes * (x \div PageBytes) = (x \div PageBytes) * PageBytes
    BY <1>1, <1>2
  <1> QED
    BY <1>2, <1>3

(* The page of the first byte of a page.                                   *)
LEMMA FirstByte ==
  ASSUME NEW q \in Nat
  PROVE  q * PageBytes \in Nat /\ (q * PageBytes) \div PageBytes = q
  <1>1. PageBytes \in Nat \ {0} /\ 0 \in 0 .. PageBytes - 1
    BY BuffersAssumption
  <1> DEFINE x == q * PageBytes
  <1>2. x \in Nat
    BY <1>1
  <1>3. x = q * PageBytes + 0
    BY <1>2
  <1> HIDE DEF x
  <1>4. (x \div PageBytes) * PageBytes + (x % PageBytes) = q * PageBytes + 0
    BY <1>2, <1>3, Bytes
  <1>5. x \div PageBytes = q
    BY <1>1, <1>2, <1>4, Bytes, Unique
  <1> QED
    BY <1>2, <1>5 DEF x

(* Pages in the order of their bytes.                                      *)
LEMMA PageOrder ==
  ASSUME NEW x \in Nat, NEW q \in Nat
  PROVE  /\ x < q * PageBytes => x \div PageBytes < q
         /\ x >= q * PageBytes => x \div PageBytes >= q
  <1> DEFINE p == x \div PageBytes
             r == x % PageBytes
  <1>1. p \in Nat /\ r \in 0 .. PageBytes - 1 /\ x = p * PageBytes + r
    BY Bytes
  <1>2. PageBytes \in Nat \ {0}
    BY BuffersAssumption
  <1> HIDE DEF p, r
  <1>3. p * PageBytes \in Nat /\ q * PageBytes \in Nat
    BY <1>1, <1>2
  <1>4. CASE p < q
    <2>1. p + 1 <= q /\ (p + 1) * PageBytes = p * PageBytes + PageBytes
      BY <1>1, <1>2, <1>4
    <2>2. (p + 1) * PageBytes <= q * PageBytes
      BY <1>1, <1>2, <2>1, MulMono
    <2>3. x < q * PageBytes
      BY <1>1, <1>2, <1>3, <2>1, <2>2
    <2> QED
      BY <1>1, <1>3, <1>4, <2>3 DEF p
  <1>5. CASE p >= q
    <2>1. q * PageBytes <= p * PageBytes
      BY <1>1, <1>2, <1>5, MulMono
    <2>2. x >= q * PageBytes
      BY <1>1, <1>2, <1>3, <2>1
    <2> QED
      BY <1>1, <1>3, <1>5, <2>2 DEF p
  <1> QED
    BY <1>1, <1>4, <1>5

-----------------------------------------------------------------------------

(* What the invariant says of one page that the guest reaches.             *)
LEMMA ReachedPage ==
  ASSUME BInv, phase = "run", faults = 0, ~strayed, NEW g \in Gvas,
         Walk(cr3, g) # None
  PROVE  /\ Walk(cr3, g) = g /\ gva_to_gpa(g) = g /\ vm_mem_verify(g, 1)
         /\ Given(g) /\ host[g] = Kept(g)
  <1>1. PInv /\ cr3 = pml4
    BY DEF BInv, PInv, Base, RunInv
  <1>2. None \notin phys
    BY <1>1 DEF PInv, TypeInv, TypeOK, Pages, None
  <1>3. pml4 # None
    <2> SUFFICES ASSUME pml4 = None PROVE FALSE
      OBVIOUS
    <2>1. Walk(cr3, g) = None
      BY <1>1, <1>2, WalkIsDown DEF Down
    <2> QED
      BY <2>1
  <1>4. Walk(cr3, g) = mapped[g] /\ mapped[g] # None /\ Mmu(g) = mapped[g]
    BY <1>1, <1>3, TreeTranslates DEF TranslationMatches, Mmu
  <1>5. gva_to_gpa(g) = mapped[g] /\ vm_mem_verify(g, 1)
    BY <1>1, <1>3, <1>4, TreeHostWalk DEF HostWalkMatches
  <1> QED
    BY <1>4, <1>5 DEF BInv, IdentityInv

LEMMA RangeIsBuffer == BInv => BufferIsGuests
  <1> SUFFICES ASSUME BInv, phase = "run", faults = 0, ~strayed,
                      NEW gva \in GvaBytes, NEW nbyte \in 1 .. MaxBuffer,
                      gva + nbyte - 1 \in GvaBytes,
                      \A k \in 0 .. nbyte - 1 :
                         Walk(cr3, (gva + k) \div PageBytes) # None
               PROVE  /\ VerifyBytes(gva, nbyte)
                      /\ \A k \in 0 .. nbyte - 1 :
                           BufferByte(gva, k)
                             = gpa_to_hva(Walk(cr3, (gva + k) \div PageBytes)
                                 * PageBytes + ((gva + k) % PageBytes))
    BY DEF BufferIsGuests
  <1> DEFINE P(k) == (gva + k) \div PageBytes
             R(k) == (gva + k) % PageBytes
  <1>1. /\ PageBytes \in Nat /\ PageBytes # 0 /\ MaxBuffer \in Nat
        /\ Top \in Nat /\ Top * PageBytes \in Nat
        /\ GvaBytes = 0 .. Top * PageBytes - 1
    <2>1. PageBytes \in Nat /\ PageBytes # 0 /\ MaxBuffer \in Nat /\ Top \in Nat
      BY BuffersAssumption, Sizes
    <2> QED
      BY <2>1 DEF GvaBytes, Top
  <1>2. gva \in Nat /\ nbyte \in Nat /\ nbyte >= 1
    BY <1>1
  <1>3. ASSUME NEW k \in 0 .. nbyte - 1
        PROVE  /\ gva + k \in Nat /\ P(k) \in Nat /\ R(k) \in 0 .. PageBytes - 1
               /\ gva + k = P(k) * PageBytes + R(k) /\ P(k) \in Gvas
    <2>1. gva + k \in Nat /\ gva + k < Top * PageBytes
      BY <1>1, <1>2
    <2>2. /\ P(k) \in Nat /\ R(k) \in 0 .. PageBytes - 1
          /\ gva + k = P(k) * PageBytes + R(k)
      BY <2>1, Bytes
    <2>3. P(k) < Top
      BY <1>1, <2>1, PageOrder
    <2> QED
      BY <2>1, <2>2, <2>3, Sizes
  <1>4. ASSUME NEW k \in 0 .. nbyte - 1
        PROVE  /\ Walk(cr3, P(k)) = P(k) /\ gva_to_gpa(P(k)) = P(k)
               /\ vm_mem_verify(P(k), 1)
               /\ Given(P(k)) /\ host[P(k)] = Kept(P(k))
    BY <1>3, ReachedPage
  <1>5. VerifyBytes(gva, nbyte)
    BY <1>4 DEF VerifyBytes
  <1>6. 0 \in 0 .. nbyte - 1 /\ gva + 0 = gva
    BY <1>2
  <1> DEFINE B == IF Low(P(0)) THEN 0 ELSE LoadPage
  <1>7. ASSUME NEW k \in 0 .. nbyte - 1
        PROVE  Kept(P(k)) = [block |-> B, page |-> P(k) - B]
    <2> HIDE DEF P, R
    <2>0. P(0) \in Nat /\ P(k) \in Nat /\ InitPages \in Nat /\ LoadPage \in Nat
          /\ InitPages < LoadPage
      BY <1>3, <1>6, Sizes
    <2>1. CASE Low(P(0))
      <3>1. Low(P(k))
        <4> SUFFICES ASSUME ~Low(P(k)) PROVE FALSE
          OBVIOUS
        <4> DEFINE F == InitPages * PageBytes
                   j == F - gva
        <4>1. F \in Nat /\ F \div PageBytes = InitPages
          BY <2>0, FirstByte
        <4>2. P(0) < InitPages /\ P(k) >= InitPages
          BY <2>0, <2>1 DEF Low
        <4>3. gva < F
          <5>1. gva >= F => gva \div PageBytes >= InitPages
            BY <1>2, <2>0, PageOrder
          <5>2. gva \div PageBytes = P(0)
            BY <1>6 DEF P
          <5> QED
            BY <1>2, <2>0, <4>1, <4>2, <5>1, <5>2
        <4>4. gva + k >= F
          <5>1. gva + k < F => (gva + k) \div PageBytes < InitPages
            BY <1>3, <2>0, PageOrder
          <5>2. (gva + k) \div PageBytes = P(k) /\ gva + k \in Nat
            BY <1>3 DEF P
          <5> QED
            BY <2>0, <4>1, <4>2, <5>1, <5>2
        <4> HIDE DEF F
        <4>5. j \in 0 .. nbyte - 1 /\ gva + j = F
          BY <1>2, <4>1, <4>3, <4>4
        <4>6. P(j) = InitPages
          BY <4>1, <4>5 DEF P
        <4>7. Given(InitPages)
          BY <1>4, <4>5, <4>6
        <4> QED
          BY <2>0, <4>7 DEF Given, Low
      <3>2. P(k) - 0 = P(k)
        BY <2>0
      <3> QED
        BY <2>1, <3>1, <3>2 DEF Kept
    <2>2. CASE ~Low(P(0))
      <3>1. P(0) >= LoadPage
        BY <1>4, <1>6, <2>2 DEF Given
      <3>2. P(k) >= P(0)
        <4>1. gva >= P(0) * PageBytes
          <5>1. gva = P(0) * PageBytes + R(0) /\ R(0) \in 0 .. PageBytes - 1
            BY <1>3, <1>6
          <5>2. P(0) * PageBytes \in Nat
            BY <1>1, <2>0
          <5> QED
            BY <1>1, <5>1, <5>2
        <4>2. gva + k >= P(0) * PageBytes /\ gva + k \in Nat
          BY <1>1, <1>2, <2>0, <4>1
        <4>3. (gva + k) \div PageBytes >= P(0)
          BY <2>0, <4>2, PageOrder
        <4> QED
          BY <4>3 DEF P
      <3>3. ~Low(P(k))
        BY <2>0, <3>1, <3>2 DEF Low
      <3> QED
        BY <2>2, <3>3 DEF Kept
    <2> QED
      BY <2>1, <2>2
  <1>8. B \in Nat
    BY Sizes
  <1> HIDE DEF P, R, B
  <1>9. ASSUME NEW k \in 0 .. nbyte - 1
        PROVE  gpa_to_hva(gva + k)
                 = [block |-> B, byte |-> (gva + k) - B * PageBytes]
    <2>1. host[P(k)].block = B /\ host[P(k)].page = P(k) - B
      BY <1>4, <1>7
    <2>2. (P(k) - B) * PageBytes + R(k) = (gva + k) - B * PageBytes
      <3>1. P(k) \in Nat /\ R(k) \in Nat /\ B \in Nat /\ PageBytes \in Nat
        BY <1>1, <1>3, <1>8
      <3>2. (P(k) - B) * PageBytes = P(k) * PageBytes - B * PageBytes
        BY <3>1
      <3>3. P(k) * PageBytes \in Nat /\ B * PageBytes \in Nat
        BY <3>1
      <3>4. gva + k = P(k) * PageBytes + R(k)
        BY <1>3
      <3> QED
        BY <3>1, <3>2, <3>3, <3>4
    <2> QED
      BY <2>1, <2>2 DEF gpa_to_hva, P, R
  <1>10. ASSUME NEW k \in 0 .. nbyte - 1
         PROVE  BufferByte(gva, k)
                  = gpa_to_hva(Walk(cr3, P(k)) * PageBytes + R(k))
    <2>1. Walk(cr3, P(k)) * PageBytes + R(k) = gva + k
      BY <1>3, <1>4
    <2>2. Translate(gva) = gva + 0
      <3>1. P(0) = gva \div PageBytes /\ R(0) = gva % PageBytes
        BY <1>6 DEF P, R
      <3> QED
        BY <1>3, <1>4, <1>6, <3>1 DEF Translate
    <2>3. gpa_to_hva(Translate(gva)) = [block |-> B, byte |-> gva - B * PageBytes]
      BY <1>6, <1>9, <2>2
    <2>4. BufferByte(gva, k)
            = [block |-> B, byte |-> (gva - B * PageBytes) + k]
      <3>1. \A r, b, y : r = [block |-> b, byte |-> y]
                        => [r EXCEPT !.byte = @ + k] = [block |-> b, byte |-> y + k]
        OBVIOUS
      <3> QED
        BY <2>3, <3>1 DEF BufferByte
    <2>5. (gva - B * PageBytes) + k = (gva + k) - B * PageBytes
      BY <1>1, <1>2, <1>8
    <2> QED
      BY <1>9, <2>1, <2>4, <2>5
  <1> QED
    BY <1>5, <1>10 DEF P, R

(* For every buffer of a guest that has stayed on the host's tables, what  *)
(* vm_mem_verify accepts and what the host's read or write is given are    *)
(* exactly the guest's bytes, however much the guest has stored.           *)
THEOREM BufferCorrect == BufSpec => []BufferIsGuests
  BY RangeIsBuffer, BAlways, PTL

=============================================================================
