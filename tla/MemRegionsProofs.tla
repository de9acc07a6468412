-------------------------- MODULE MemRegionsProofs --------------------------
(***************************************************************************)
(* Proofs about MemRegions for every size of the address range, of the     *)
(* guest-physical space and of a request.  IInv is the inductive           *)
(* invariant: the type, the order of the list, the agreement with the      *)
(* framework's table and the ownership of the host blocks.                 *)
(***************************************************************************)
EXTENDS MemRegions, TLAPS, SequenceTheorems, WellFoundedInduction

IInv == TypeOK /\ RegionsOrdered /\ EptAgrees /\ HostBacked

(* Region i holds guest-physical page p.                                   *)
In(i, p) ==
  /\ mem_regions[i].gpa <= p
  /\ p < mem_regions[i].gpa + mem_regions[i].npages

(* A table gives every page the translation of the region that holds it.   *)
Translates(table) ==
  \A p \in Pages :
     /\ \A i \in 1 .. Len(mem_regions) :
          In(i, p) => table[p] = <<mem_regions[i].hva, p - mem_regions[i].gpa>>
     /\ (\A i \in 1 .. Len(mem_regions) : ~In(i, p)) => table[p] = NULL

-----------------------------------------------------------------------------
(* Facts about the list and its walks.                                     *)

(* InsertAt puts e at i and moves the elements from i on up by one.        *)
LEMMA InsertAtFacts ==
  ASSUME NEW s \in Seq(Region), NEW e \in Region, NEW i \in 1 .. Len(s) + 1
  PROVE  /\ InsertAt(s, i, e) \in Seq(Region)
         /\ Len(InsertAt(s, i, e)) = Len(s) + 1
         /\ \A k \in 1 .. Len(s) + 1 :
              InsertAt(s, i, e)[k] =
                IF k < i THEN s[k] ELSE IF k = i THEN e ELSE s[k - 1]
  <1> DEFINE a == SubSeq(s, 1, i - 1)
             c == SubSeq(s, i, Len(s))
  <1>1. /\ a \in Seq(Region)
        /\ Len(a) = i - 1
        /\ \A k \in 1 .. i - 1 : a[k] = s[k]
    BY SubSeqProperties
  <1>2. /\ c \in Seq(Region)
        /\ Len(c) = Len(s) - i + 1
        /\ \A k \in 1 .. Len(s) - i + 1 : c[k] = s[i + k - 1]
    BY SubSeqProperties
  <1>3. /\ a \o <<e>> \in Seq(Region)
        /\ Len(a \o <<e>>) = i
        /\ \A k \in 1 .. i : (a \o <<e>>)[k] = IF k < i THEN s[k] ELSE e
    <2> HIDE DEF a
    <2>1. <<e>> \in Seq(Region) /\ Len(<<e>>) = 1 /\ <<e>>[1] = e
      OBVIOUS
    <2> QED
      BY <1>1, <2>1, ConcatProperties
  <1>4. /\ (a \o <<e>>) \o c \in Seq(Region)
        /\ Len((a \o <<e>>) \o c) = Len(s) + 1
        /\ \A k \in 1 .. Len(s) + 1 :
             ((a \o <<e>>) \o c)[k] =
               IF k < i THEN s[k] ELSE IF k = i THEN e ELSE s[k - 1]
    <2> DEFINE b == a \o <<e>>
    <2> HIDE DEF a, b, c
    <2>1. /\ b \in Seq(Region) /\ Len(b) = i
          /\ \A k \in 1 .. i : b[k] = IF k < i THEN s[k] ELSE e
      BY <1>3 DEF b
    <2>2. /\ b \o c \in Seq(Region)
          /\ Len(b \o c) = Len(b) + Len(c)
          /\ \A k \in 1 .. Len(b) + Len(c) :
               (b \o c)[k] = IF k <= Len(b) THEN b[k] ELSE c[k - Len(b)]
      BY <1>2, <2>1, ConcatProperties
    <2>3. ASSUME NEW k \in 1 .. Len(s) + 1
          PROVE  (b \o c)[k] =
                    IF k < i THEN s[k] ELSE IF k = i THEN e ELSE s[k - 1]
      <3>1. CASE k <= i
        BY <1>2, <2>1, <2>2, <3>1
      <3>2. CASE k > i
        <4>1. k - i \in 1 .. Len(s) - i + 1 /\ i + (k - i) - 1 = k - 1
          BY <3>2
        <4>2. c[k - i] = s[k - 1]
          BY <1>2, <4>1
        <4> QED
          BY <1>2, <2>1, <2>2, <3>2, <4>2
      <3>3. k <= i \/ k > i
        OBVIOUS
      <3> QED
        BY <3>1, <3>2, <3>3
    <2>4. Len(b \o c) = Len(s) + 1
      BY <1>2, <2>1, <2>2
    <2> QED
      BY <2>2, <2>3, <2>4 DEF b
  <1> QED
    BY <1>4 DEF InsertAt

(* Inside the type, a region's fields are numbers in their ranges and a    *)
(* region that lies in the guest-physical space ends without wrapping.     *)
LEMMA RegionFacts ==
  ASSUME TypeOK, RegionsOrdered
  PROVE  \A i \in 1 .. Len(mem_regions) :
           /\ mem_regions[i] \in Region
           /\ mem_regions[i].gpa \in Nat
           /\ mem_regions[i].npages \in Nat
           /\ mem_regions[i].npages >= 1
           /\ mem_regions[i].npages <= MaxPages
           /\ mem_regions[i].hva \in Blocks
           /\ mem_regions[i].gpa + mem_regions[i].npages <= GpaPages
           /\ RegionEnd(i) = mem_regions[i].gpa + mem_regions[i].npages
  <1> SUFFICES ASSUME NEW i \in 1 .. Len(mem_regions)
               PROVE  /\ mem_regions[i] \in Region
                      /\ mem_regions[i].gpa \in Nat
                      /\ mem_regions[i].npages \in Nat
                      /\ mem_regions[i].npages >= 1
                      /\ mem_regions[i].npages <= MaxPages
                      /\ mem_regions[i].hva \in Blocks
                      /\ mem_regions[i].gpa + mem_regions[i].npages <= GpaPages
                      /\ RegionEnd(i)
                           = mem_regions[i].gpa + mem_regions[i].npages
    OBVIOUS
  <1>1. mem_regions[i] \in Region
    BY DEF TypeOK
  <1>2. /\ mem_regions[i].gpa \in Nat
        /\ mem_regions[i].npages \in Nat
        /\ mem_regions[i].npages >= 1
        /\ mem_regions[i].npages <= MaxPages
        /\ mem_regions[i].hva \in Blocks
    BY <1>1, ConstAssumption DEF Region, Pages
  <1>3. mem_regions[i].gpa + mem_regions[i].npages <= GpaPages
    BY DEF RegionsOrdered
  <1>4. RegionEnd(i) = mem_regions[i].gpa + mem_regions[i].npages
    BY <1>2, <1>3, ConstAssumption DEF RegionEnd, Add
  <1> QED
    BY <1>1, <1>2, <1>3, <1>4

(* On an ordered list gpa_to_hva's walk finds the one region that holds a  *)
(* page, so the walk is the translation.                                   *)
LEMMA WalkTranslates ==
  TypeOK /\ RegionsOrdered => Translates([p \in Pages |-> gpa_to_hva(p)])
  <1> SUFFICES ASSUME TypeOK, RegionsOrdered, NEW p \in Pages
               PROVE  /\ \A i \in 1 .. Len(mem_regions) : In(i, p) =>
                           gpa_to_hva(p) =
                             <<mem_regions[i].hva, p - mem_regions[i].gpa>>
                      /\ (\A i \in 1 .. Len(mem_regions) : ~In(i, p))
                           => gpa_to_hva(p) = NULL
    BY DEF Translates
  <1>0. p \in Nat /\ Len(mem_regions) \in Nat
    BY ConstAssumption DEF Pages, TypeOK
  <1>1. \A i \in 1 .. Len(mem_regions) : Holds(i, p) <=> In(i, p)
    BY RegionFacts DEF Holds, In
  <1>2. ASSUME NEW i \in 1 .. Len(mem_regions), In(i, p)
        PROVE  gpa_to_hva(p) = <<mem_regions[i].hva, p - mem_regions[i].gpa>>
    <2>1. \A j \in 1 .. Len(mem_regions) : j < i =>
             mem_regions[j].gpa <= p /\ ~In(j, p)
      BY <1>0, <1>2, RegionFacts, SMTT(30) DEF RegionsOrdered, In
    <2>2. Reaches(i, p) /\ Holds(i, p)
      BY <1>0, <1>1, <1>2, <2>1 DEF Reaches
    <2>3. \A j \in 1 .. Len(mem_regions) : Holds(j, p) => j = i
      <3> SUFFICES ASSUME NEW j \in 1 .. Len(mem_regions), Holds(j, p), i < j
                   PROVE  FALSE
        BY <1>0, <1>1, <2>1
      <3>1. mem_regions[i].gpa + mem_regions[i].npages <= mem_regions[j].gpa
        BY DEF RegionsOrdered
      <3>2. In(j, p)
        BY <1>1
      <3> QED
        BY <1>0, <1>2, <3>1, <3>2, RegionFacts DEF In
    <2>4. (CHOOSE j \in 1 .. Len(mem_regions) : Reaches(j, p) /\ Holds(j, p)) = i
      BY <2>2, <2>3
    <2> QED
      BY <2>2, <2>4 DEF gpa_to_hva
  <1>3. ASSUME \A i \in 1 .. Len(mem_regions) : ~In(i, p)
        PROVE  gpa_to_hva(p) = NULL
    BY <1>1, <1>3 DEF gpa_to_hva
  <1> QED
    BY <1>2, <1>3

(* The pages of the table and of the walk are the same pages, so the       *)
(* table translates too.                                                   *)
LEMMA EptTranslates ==
  TypeOK /\ RegionsOrdered /\ EptAgrees => Translates(ept)
  BY WalkTranslates DEF Translates, EptAgrees

(* Conversely a table that translates agrees with the walk.                *)
LEMMA TranslatesAgrees ==
  TypeOK /\ RegionsOrdered /\ Translates(ept) => EptAgrees
  <1> SUFFICES ASSUME TypeOK, RegionsOrdered, Translates(ept), NEW p \in Pages
               PROVE  ept[p] = gpa_to_hva(p)
    BY DEF EptAgrees
  <1> DEFINE walk == [q \in Pages |-> gpa_to_hva(q)]
  <1>1. Translates(walk)
    BY WalkTranslates
  <1>2. walk[p] = gpa_to_hva(p)
    OBVIOUS
  <1> HIDE DEF walk
  <1>3. ept[p] = walk[p]
    BY <1>1 DEF Translates
  <1> QED
    BY <1>2, <1>3

(* Where map_gpa's walk stops and its test passes, everything before the   *)
(* place ends at or below gpa and everything after it starts at or above   *)
(* the end of the new range.                                               *)
LEMMA FreeRange ==
  ASSUME TypeOK, RegionsOrdered,
         NEW gpa \in 0 .. AddrPages - 1, NEW npages \in 1 .. MaxPages,
         gpa + npages <= GpaPages,
         NEW i \in 1 .. Len(mem_regions) + 1,
         WalkStops(i, gpa), Fits(i, gpa, npages)
  PROVE  \A j \in 1 .. Len(mem_regions) :
           /\ j < i => mem_regions[j].gpa + mem_regions[j].npages <= gpa
           /\ j >= i => gpa + npages <= mem_regions[j].gpa
  <1>0. /\ gpa \in Nat /\ npages \in Nat /\ Len(mem_regions) \in Nat
        /\ Add(gpa, npages) = gpa + npages
    BY ConstAssumption DEF Add, TypeOK
  <1> SUFFICES ASSUME NEW j \in 1 .. Len(mem_regions)
               PROVE  /\ j < i => mem_regions[j].gpa + mem_regions[j].npages
                                     <= gpa
                      /\ j >= i => gpa + npages <= mem_regions[j].gpa
    OBVIOUS
  <1>1. j < i => mem_regions[j].gpa + mem_regions[j].npages <= gpa
    BY <1>0, RegionFacts DEF WalkStops
  <1>2. ASSUME j >= i PROVE gpa + npages <= mem_regions[j].gpa
    <2>1. i \in 1 .. Len(mem_regions) /\ gpa + npages <= mem_regions[i].gpa
      BY <1>0, <1>2 DEF Fits
    <2>2. i = j \/ mem_regions[i].gpa + mem_regions[i].npages
                     <= mem_regions[j].gpa
      BY <1>2, <2>1 DEF RegionsOrdered
    <2>3. /\ mem_regions[i].gpa \in Nat /\ mem_regions[i].npages \in Nat
          /\ mem_regions[j].gpa \in Nat
      BY <2>1, RegionFacts
    <2> QED
      BY <1>0, <2>1, <2>2, <2>3
  <1> QED
    BY <1>1, <1>2

(* find_free_mem_region's start in front of element i: the end of the      *)
(* element before, and so at or above the end of every earlier one.        *)
LEMMA StartFacts ==
  ASSUME TypeOK, RegionsOrdered, NEW i \in 1 .. Len(mem_regions) + 1
  PROVE  /\ StartOf(i) \in Nat /\ StartOf(i) <= GpaPages
         /\ StartOf(i) \in 0 .. AddrPages - 1
         /\ \A j \in 1 .. Len(mem_regions) :
              /\ j < i => mem_regions[j].gpa + mem_regions[j].npages
                            <= StartOf(i)
              /\ j >= i => StartOf(i) <= mem_regions[j].gpa
  <1>0. Len(mem_regions) \in Nat
    BY DEF TypeOK
  <1>1. CASE i = 1
    <2>1. StartOf(i) = 0
      BY <1>1 DEF StartOf
    <2> QED
      BY <1>0, <1>1, <2>1, RegionFacts, ConstAssumption
  <1>2. CASE i # 1
    <2>1. i - 1 \in 1 .. Len(mem_regions)
      BY <1>0, <1>2
    <2>2. StartOf(i) = RegionEnd(i - 1)
      BY <1>2 DEF StartOf
    <2> DEFINE k == i - 1
    <2>3. /\ StartOf(i) = mem_regions[k].gpa + mem_regions[k].npages
          /\ mem_regions[k].gpa \in Nat /\ mem_regions[k].npages \in Nat
          /\ mem_regions[k].gpa + mem_regions[k].npages <= GpaPages
      <3>1. k \in 1 .. Len(mem_regions) /\ StartOf(i) = RegionEnd(k)
        BY <2>1, <2>2
      <3> HIDE DEF k
      <3> QED
        BY <3>1, RegionFacts
    <2>4. k \in 1 .. Len(mem_regions) /\ k = i - 1
      BY <2>1
    <2> HIDE DEF k
    <2>5. ASSUME NEW j \in 1 .. Len(mem_regions)
          PROVE  /\ j < i => mem_regions[j].gpa + mem_regions[j].npages
                               <= StartOf(i)
                 /\ j >= i => StartOf(i) <= mem_regions[j].gpa
      <3>1. /\ mem_regions[j].gpa \in Nat /\ mem_regions[j].npages \in Nat
        BY RegionFacts
      <3>2. j < k => mem_regions[j].gpa + mem_regions[j].npages
                       <= mem_regions[k].gpa
        BY <2>4 DEF RegionsOrdered
      <3>3. k < j => mem_regions[k].gpa + mem_regions[k].npages
                       <= mem_regions[j].gpa
        BY <2>4 DEF RegionsOrdered
      <3> QED
        BY <1>0, <2>3, <2>4, <3>1, <3>2, <3>3
    <2> QED
      BY <2>3, <2>5, ConstAssumption
  <1> QED
    BY <1>1, <1>2

-----------------------------------------------------------------------------
(* The calls.                                                              *)

(* A map_gpa that runs out of memory leaves the table as it found it.      *)
LEMMA NoNodeUndoes ==
  ASSUME IInv,
         NEW gpa \in 0 .. AddrPages - 1, NEW npages \in 0 .. MaxPages,
         NEW hva \in Blocks, map_gpa_no_node(gpa, npages, hva)
  PROVE  UNCHANGED <<mem_regions, ept>>
  <1>1. npages \in 1 .. MaxPages /\ gpa + npages <= GpaPages
        /\ gpa \in Nat /\ npages \in Nat
    BY ConstAssumption DEF map_gpa_no_node, hv_vm_map_accepts
  <1>2. PICK i \in 1 .. Len(mem_regions) + 1 :
          WalkStops(i, gpa) /\ Fits(i, gpa, npages)
    BY DEF map_gpa_no_node
  <1>3. ASSUME NEW p \in Pages, p \in gpa .. gpa + npages - 1
        PROVE  ept[p] = NULL
    <2>1. \A j \in 1 .. Len(mem_regions) : ~In(j, p)
      <3>1. \A j \in 1 .. Len(mem_regions) :
              /\ j < i => mem_regions[j].gpa + mem_regions[j].npages <= gpa
              /\ j >= i => gpa + npages <= mem_regions[j].gpa
        BY <1>1, <1>2, FreeRange DEF IInv
      <3>2. \A j \in 1 .. Len(mem_regions) :
              mem_regions[j].gpa \in Nat /\ mem_regions[j].npages \in Nat
        BY RegionFacts DEF IInv
      <3> QED
        BY <1>1, <1>3, <3>1, <3>2, SMTT(30) DEF In
    <2> QED
      BY <2>1, EptTranslates DEF IInv, Translates
  <1>4. ept' = [p \in Pages |-> IF p \in gpa .. gpa + npages - 1
                                THEN NULL ELSE ept[p]]
    BY DEF map_gpa_no_node, hv_vm_map, hv_vm_unmap
  <1>5. ept = [p \in Pages |-> ept[p]]
    BY DEF IInv, TypeOK
  <1> QED
    BY <1>3, <1>4, <1>5 DEF map_gpa_no_node

(* A map_gpa that succeeds on an unused block keeps the invariant.         *)
LEMMA DoneKeepsIInv ==
  ASSUME IInv,
         NEW gpa \in 0 .. AddrPages - 1, NEW npages \in 0 .. MaxPages,
         NEW hva \in Blocks,
         heap[hva] = 0, heap' = [heap EXCEPT ![hva] = npages],
         map_gpa_done(gpa, npages, hva), ret' = 0
  PROVE  IInv'
  <1>1. /\ npages \in 1 .. MaxPages /\ gpa + npages <= GpaPages
        /\ gpa \in Nat /\ npages \in Nat /\ Len(mem_regions) \in Nat
    BY ConstAssumption DEF map_gpa_done, hv_vm_map_accepts, IInv, TypeOK
  <1>2. PICK i \in 1 .. Len(mem_regions) + 1 :
          /\ WalkStops(i, gpa) /\ Fits(i, gpa, npages)
          /\ mem_regions' = InsertAt(mem_regions, i, NewRegion(gpa, npages, hva))
    BY DEF map_gpa_done
  <1> DEFINE new == NewRegion(gpa, npages, hva)
  <1>3. new \in Region /\ new.gpa = gpa /\ new.npages = npages /\ new.hva = hva
    BY <1>1, ConstAssumption DEF NewRegion, Region, Pages
  <1>4. /\ mem_regions' \in Seq(Region)
        /\ Len(mem_regions') = Len(mem_regions) + 1
        /\ \A k \in 1 .. Len(mem_regions) + 1 :
             mem_regions'[k] = IF k < i THEN mem_regions[k]
                               ELSE IF k = i THEN new ELSE mem_regions[k - 1]
    <2>1. mem_regions \in Seq(Region)
      BY DEF IInv, TypeOK
    <2> HIDE DEF new
    <2>2. mem_regions' = InsertAt(mem_regions, i, new)
      BY <1>2 DEF new
    <2>3. new \in Region
      BY <1>3
    <2>4. /\ InsertAt(mem_regions, i, new) \in Seq(Region)
          /\ Len(InsertAt(mem_regions, i, new)) = Len(mem_regions) + 1
          /\ \A k \in 1 .. Len(mem_regions) + 1 :
               InsertAt(mem_regions, i, new)[k] =
                 IF k < i THEN mem_regions[k]
                 ELSE IF k = i THEN new ELSE mem_regions[k - 1]
      BY <2>1, <2>3, InsertAtFacts, SMTT(30)
    <2> QED
      BY <2>2, <2>4
  <1> HIDE DEF new
  <1> DEFINE Old(k) == IF k < i THEN k ELSE k - 1
  <1>a. /\ i \in 1 .. Len(mem_regions')
        /\ mem_regions'[i].gpa = gpa /\ mem_regions'[i].npages = npages
        /\ mem_regions'[i].hva = hva
    <2>1. mem_regions'[i] = new
      BY <1>1, <1>4
    <2> QED
      BY <1>1, <1>3, <1>4, <2>1
  <1>b. ASSUME NEW k \in 1 .. Len(mem_regions'), k # i
        PROVE  /\ Old(k) \in 1 .. Len(mem_regions)
               /\ mem_regions'[k] = mem_regions[Old(k)]
               /\ Old(k) < i <=> k < i
    BY <1>1, <1>4, <1>b
  <1>c. ASSUME NEW k \in 1 .. Len(mem_regions'), k # i,
               NEW l \in 1 .. Len(mem_regions'), l # i
        PROVE  (k < l => Old(k) < Old(l)) /\ (k # l => Old(k) # Old(l))
    BY <1>1, <1>4, <1>c
  <1> HIDE DEF Old
  <1>5. \A j \in 1 .. Len(mem_regions) :
          /\ mem_regions[j].gpa \in Nat /\ mem_regions[j].npages \in Nat
          /\ mem_regions[j].npages >= 1 /\ mem_regions[j].hva \in Blocks
          /\ mem_regions[j].gpa + mem_regions[j].npages <= GpaPages
          /\ j < i => mem_regions[j].gpa + mem_regions[j].npages <= gpa
          /\ j >= i => gpa + npages <= mem_regions[j].gpa
    BY <1>1, <1>2, FreeRange, RegionFacts DEF IInv
  <1>6. TypeOK'
    <2>1. ept' \in [Pages -> HostPages \cup {NULL}]
      <3>1. ASSUME NEW p \in Pages, p \in gpa .. gpa + npages - 1
            PROVE  <<hva, p - gpa>> \in HostPages
        BY <1>1, <3>1, ConstAssumption DEF HostPages, Pages
      <3> QED
        BY <3>1 DEF map_gpa_done, hv_vm_map, IInv, TypeOK
    <2>2. heap' \in [Blocks -> 0 .. MaxPages]
      BY DEF IInv, TypeOK
    <2> QED
      BY <1>4, <2>1, <2>2 DEF TypeOK
  <1>7. RegionsOrdered'
    <2>1. ASSUME NEW k \in 1 .. Len(mem_regions')
          PROVE  mem_regions'[k].gpa + mem_regions'[k].npages <= GpaPages
      <3>1. CASE k = i
        BY <1>1, <1>a, <3>1
      <3>2. CASE k # i
        BY <1>5, <1>b, <3>2
      <3> QED
        BY <3>1, <3>2
    <2>2. ASSUME NEW k \in 1 .. Len(mem_regions'),
                 NEW l \in 1 .. Len(mem_regions'), k < l
          PROVE  mem_regions'[k].gpa + mem_regions'[k].npages
                   <= mem_regions'[l].gpa
      <3>1. \A a, b \in 1 .. Len(mem_regions) : a < b =>
              mem_regions[a].gpa + mem_regions[a].npages <= mem_regions[b].gpa
        BY DEF IInv, RegionsOrdered
      <3>2. CASE k = i
        <4>1. l # i /\ ~(l < i)
          BY <1>1, <1>4, <2>2, <3>2
        <4>2. Old(l) \in 1 .. Len(mem_regions) /\ Old(l) >= i
          BY <1>1, <1>b, <4>1
        <4> QED
          BY <1>5, <1>a, <1>b, <3>2, <4>1, <4>2
      <3>3. CASE l = i
        <4>1. k # i /\ k < i
          BY <2>2, <3>3
        <4> QED
          BY <1>5, <1>a, <1>b, <3>3, <4>1
      <3>4. CASE k # i /\ l # i
        BY <1>b, <1>c, <2>2, <3>1, <3>4
      <3> QED
        BY <3>2, <3>3, <3>4
    <2> QED
      BY <2>1, <2>2 DEF RegionsOrdered
  <1>8. HostBacked'
    <2>0. /\ \A j \in 1 .. Len(mem_regions) :
               heap[mem_regions[j].hva] = mem_regions[j].npages
          /\ \A j, k \in 1 .. Len(mem_regions) :
               j # k => mem_regions[j].hva # mem_regions[k].hva
      BY DEF IInv, HostBacked
    <2>1. \A j \in 1 .. Len(mem_regions) : mem_regions[j].hva # hva
      BY <1>5, <2>0
    <2>2. /\ heap'[hva] = npages
          /\ \A b \in Blocks : b # hva => heap'[b] = heap[b]
      BY DEF IInv, TypeOK
    <2>3. ASSUME NEW k \in 1 .. Len(mem_regions')
          PROVE  heap'[mem_regions'[k].hva] = mem_regions'[k].npages
      <3>1. CASE k = i
        BY <1>a, <2>2, <3>1
      <3>2. CASE k # i
        BY <1>5, <1>b, <2>0, <2>1, <2>2, <3>2
      <3> QED
        BY <3>1, <3>2
    <2>4. ASSUME NEW k \in 1 .. Len(mem_regions'),
                 NEW l \in 1 .. Len(mem_regions'), k # l
          PROVE  mem_regions'[k].hva # mem_regions'[l].hva
      <3>1. CASE k = i
        BY <1>a, <1>b, <2>1, <2>4, <3>1
      <3>2. CASE l = i
        BY <1>a, <1>b, <2>1, <2>4, <3>2
      <3>3. CASE k # i /\ l # i
        BY <1>b, <1>c, <2>0, <2>4, <3>3
      <3> QED
        BY <3>1, <3>2, <3>3
    <2> QED
      BY <2>3, <2>4 DEF HostBacked
  <1>9. EptAgrees'
    <2>1. Translates(ept)
      BY EptTranslates DEF IInv
    <2>2. ept' = [p \in Pages |-> IF p \in gpa .. gpa + npages - 1
                                  THEN <<hva, p - gpa>> ELSE ept[p]]
      BY DEF map_gpa_done, hv_vm_map
    <2>3. ASSUME NEW p \in Pages
          PROVE  /\ \A k \in 1 .. Len(mem_regions') : In(k, p)' =>
                      ept'[p] = <<mem_regions'[k].hva, p - mem_regions'[k].gpa>>
                 /\ (\A k \in 1 .. Len(mem_regions') : ~In(k, p)')
                      => ept'[p] = NULL
      <3>0. p \in Nat
        BY ConstAssumption DEF Pages
      <3>1. p \in gpa .. gpa + npages - 1 <=> In(i, p)'
        BY <1>1, <1>3, <1>4, <3>0 DEF In
      <3>2. \A j \in 1 .. Len(mem_regions) :
              In(j, p) => p \notin gpa .. gpa + npages - 1
        BY <1>1, <1>5, <3>0 DEF In
      <3>3. CASE p \in gpa .. gpa + npages - 1
        <4>1. \A k \in 1 .. Len(mem_regions') : In(k, p)' => k = i
          <5> SUFFICES ASSUME NEW k \in 1 .. Len(mem_regions'), In(k, p)', k # i
                       PROVE  FALSE
            OBVIOUS
          <5>1. In(Old(k), p) /\ Old(k) \in 1 .. Len(mem_regions)
            BY <1>b DEF In
          <5> QED
            BY <3>2, <3>3, <5>1
        <4> QED
          BY <1>1, <1>3, <1>4, <2>2, <3>1, <3>3, <4>1
      <3>4. CASE p \notin gpa .. gpa + npages - 1
        <4>1. ASSUME NEW k \in 1 .. Len(mem_regions'), In(k, p)'
              PROVE  ept[p] = <<mem_regions'[k].hva, p - mem_regions'[k].gpa>>
          <5>1. PICK j \in 1 .. Len(mem_regions) :
                  mem_regions'[k] = mem_regions[j]
            BY <1>b, <3>1, <3>4, <4>1
          <5>2. In(j, p)
            BY <4>1, <5>1 DEF In
          <5> QED
            BY <2>1, <5>1, <5>2 DEF Translates
        <4>2. ASSUME NEW j \in 1 .. Len(mem_regions), In(j, p)
              PROVE  \E k \in 1 .. Len(mem_regions') : In(k, p)'
          <5>1. PICK k \in 1 .. Len(mem_regions') :
                  mem_regions'[k] = mem_regions[j]
            <6>1. CASE j < i
              BY <1>1, <1>4, <6>1
            <6>2. CASE j >= i
              <7>1. /\ j + 1 \in 1 .. Len(mem_regions')
                    /\ mem_regions'[j + 1] = mem_regions[j]
                BY <1>1, <1>4, <6>2
              <7> QED
                BY <7>1
            <6> QED
              BY <1>1, <6>1, <6>2
          <5> QED
            BY <4>2, <5>1 DEF In
        <4>3. (\A k \in 1 .. Len(mem_regions') : ~In(k, p)') => ept[p] = NULL
          BY <2>1, <4>2 DEF Translates
        <4> QED
          BY <2>2, <3>4, <4>1, <4>3
      <3> QED
        BY <3>3, <3>4
    <2>4. Translates(ept)'
      BY <2>3 DEF Translates
    <2>5. (TypeOK /\ RegionsOrdered /\ Translates(ept) => EptAgrees)'
      BY TranslatesAgrees, PTL
    <2> QED
      BY <1>6, <1>7, <2>4, <2>5
  <1> QED
    BY <1>6, <1>7, <1>8, <1>9 DEF IInv

(* A refused call and a call undone change neither list nor table.         *)
LEMMA FailsKeepLists ==
  ASSUME IInv,
         NEW npages \in 0 .. MaxPages, NEW gpa \in 0 .. AddrPages - 1,
         vm_mem_alloc_fails(npages) \/ load_mach_obj_fails(gpa, npages)
  PROVE  UNCHANGED <<mem_regions, ept>> /\ ret' = -1
  <1>1. CASE vm_mem_alloc_fails(npages)
    <2>1. \A i \in 1 .. Len(mem_regions) + 1 : StartOf(i) \in 0 .. AddrPages - 1
      BY StartFacts DEF IInv
    <2>2. UNCHANGED <<mem_regions, ept>>
      BY <1>1, <2>1, NoNodeUndoes DEF vm_mem_alloc_fails, map_gpa_refused
    <2> QED
      BY <1>1, <2>2 DEF vm_mem_alloc_fails
  <1>2. CASE load_mach_obj_fails(gpa, npages)
    BY <1>2, NoNodeUndoes DEF load_mach_obj_fails, map_gpa_refused
  <1> QED
    BY <1>1, <1>2

(* The failed calls keep the invariant: the only other state they touch is *)
(* a block that no region uses.                                            *)
LEMMA FailsKeepIInv ==
  ASSUME IInv,
         NEW npages \in 0 .. MaxPages, NEW gpa \in 0 .. AddrPages - 1,
         vm_mem_alloc_fails(npages) \/ load_mach_obj_fails(gpa, npages)
  PROVE  IInv'
  <1>1. UNCHANGED <<mem_regions, ept>> /\ ret' = -1
    BY FailsKeepLists
  <1>2. \/ UNCHANGED heap
        \/ \E hva \in Blocks : /\ heap[hva] = 0
                               /\ heap' = [heap EXCEPT ![hva] = npages]
    BY DEF vm_mem_alloc_fails, load_mach_obj_fails
  <1>3. TypeOK'
    BY <1>1, <1>2 DEF IInv, TypeOK
  <1>4. HostBacked'
    <2>1. \A i \in 1 .. Len(mem_regions) :
            /\ mem_regions[i].hva \in Blocks /\ mem_regions[i].npages >= 1
            /\ heap[mem_regions[i].hva] = mem_regions[i].npages
      BY RegionFacts DEF IInv, HostBacked
    <2>2. \A i \in 1 .. Len(mem_regions) :
            heap'[mem_regions[i].hva] = heap[mem_regions[i].hva]
      BY <1>2, <2>1 DEF IInv, TypeOK
    <2> QED
      BY <1>1, <2>1, <2>2 DEF IInv, HostBacked
  <1>5. RegionsOrdered' /\ EptAgrees'
    BY <1>1 DEF IInv, RegionsOrdered, EptAgrees, gpa_to_hva, Reaches, Holds,
                RegionEnd
  <1> QED
    BY <1>3, <1>4, <1>5 DEF IInv

(* Before the first call the list, the table and the heap are empty.       *)
LEMMA InitIInv == Init => IInv
  <1> SUFFICES ASSUME Init PROVE IInv
    OBVIOUS
  <1>1. mem_regions = <<>> /\ Len(mem_regions) = 0
    BY DEF Init
  <1>2. TypeOK
    BY <1>1, ConstAssumption DEF Init, TypeOK
  <1>3. RegionsOrdered /\ HostBacked
    BY <1>1 DEF RegionsOrdered, HostBacked
  <1>4. EptAgrees
    BY <1>1 DEF Init, EptAgrees, gpa_to_hva
  <1> QED
    BY <1>2, <1>3, <1>4 DEF IInv

(* Every call of vm_mem_alloc and load_mach_obj, whatever its outcome, keeps*)
(* the invariant.                                                          *)
LEMMA NextIInv == IInv /\ [Next]_vars => IInv'
  <1> SUFFICES ASSUME IInv, [Next]_vars PROVE IInv'
    OBVIOUS
  <1>0. Pages \subseteq 0 .. AddrPages - 1
    BY ConstAssumption DEF Pages
  <1>1. ASSUME NEW npages \in 0 .. MaxPages, vm_mem_alloc_fails(npages)
        PROVE  IInv'
    <2>1. 0 \in 0 .. AddrPages - 1
      BY ConstAssumption
    <2> QED
      BY <1>1, <2>1, FailsKeepIInv
  <1>2. ASSUME NEW npages \in 0 .. MaxPages, NEW gpa \in Pages,
               NEW hva \in Blocks, vm_mem_alloc_done(npages, gpa, hva)
        PROVE  IInv'
    BY <1>0, <1>2, DoneKeepsIInv DEF vm_mem_alloc_done
  <1>3. ASSUME NEW npages \in 0 .. MaxPages, NEW gpa \in 0 .. AddrPages - 1,
               load_mach_obj_fails(gpa, npages)
        PROVE  IInv'
    BY <1>3, FailsKeepIInv
  <1>4. ASSUME NEW npages \in 0 .. MaxPages, NEW gpa \in 0 .. AddrPages - 1,
               NEW hva \in Blocks, load_mach_obj_maps(gpa, npages, hva)
        PROVE  IInv'
    BY <1>4, DoneKeepsIInv DEF load_mach_obj_maps
  <1>5. CASE UNCHANGED vars
    BY <1>5, ZenonT(30) DEF vars, IInv, TypeOK, RegionsOrdered, EptAgrees, HostBacked,
                gpa_to_hva, Reaches, Holds, RegionEnd
  <1> QED
    BY <1>1, <1>2, <1>3, <1>4, <1>5 DEF Next

(* The inductive invariant holds in every reachable state.                 *)
THEOREM Inductive == Spec => []IInv
  BY InitIInv, NextIInv, PTL DEF Spec

(* Every variable of the memory map keeps its type.                        *)
THEOREM TypeCorrect == Spec => []TypeOK
  <1>1. IInv => TypeOK
    BY DEF IInv
  <1> QED
    BY <1>1, Inductive, PTL

(* mem_regions stays sorted, disjoint and inside the guest-physical space  *)
(* through every call of map_gpa, also one that wraps around.              *)
THEOREM ListOrdered == Spec => []RegionsOrdered
  <1>1. IInv => RegionsOrdered
    BY DEF IInv
  <1> QED
    BY <1>1, Inductive, PTL

(* gpa_to_hva's walk and the framework's table always agree, also after    *)
(* the undo path of map_gpa.                                               *)
THEOREM HostSeesGuestMemory == Spec => []EptAgrees
  <1>1. IInv => EptAgrees
    BY DEF IInv
  <1> QED
    BY <1>1, Inductive, PTL

(* No region outlives its host block and no two regions share one.         *)
THEOREM RegionsBacked == Spec => []HostBacked
  <1>1. IInv => HostBacked
    BY DEF IInv
  <1> QED
    BY <1>1, Inductive, PTL

-----------------------------------------------------------------------------
(* First fit.                                                              *)

(* A set of naturals that is not empty has a least element.                *)
LEMMA LeastElement ==
  ASSUME NEW T, T \subseteq Nat, T # {}
  PROVE  \E x \in T : \A y \in T : x <= y
  <1>1. PICK x \in T : \A y \in T : ~(<<y, x>> \in OpToRel(<, Nat))
    BY NatLessThanWellFounded, WFMin
  <1>2. ASSUME NEW y \in T, y < x PROVE FALSE
    <2>1. <<y, x>> \in Nat \X Nat
      OBVIOUS
    <2>2. <<y, x>> \in OpToRel(<, Nat)
      BY <1>2, <2>1 DEF OpToRel
    <2> QED
      BY <1>1, <2>2
  <1>3. \A y \in T : x <= y
    BY <1>2
  <1> QED
    BY <1>3

(* The range in front of element i is as long as the walk's test says.     *)
LEMMA GapFacts ==
  ASSUME TypeOK, RegionsOrdered, NEW npages \in 1 .. MaxPages,
         NEW i \in 1 .. Len(mem_regions)
  PROVE  Gap(i, npages) <=> StartOf(i) + npages <= mem_regions[i].gpa
  <1>1. /\ i \in 1 .. Len(mem_regions) + 1 /\ npages \in Nat
        /\ mem_regions[i].gpa \in Nat
    BY RegionFacts, ConstAssumption DEF TypeOK
  <1>2. StartOf(i) \in Nat /\ StartOf(i) <= mem_regions[i].gpa
    BY <1>1, StartFacts
  <1> QED
    BY <1>1, <1>2 DEF Gap, Sub

(* On an ordered list find_free_mem_region returns the lowest free range.  *)
LEMMA IInvFirstFit == TypeOK /\ RegionsOrdered => FirstFit
  <1> SUFFICES ASSUME TypeOK, RegionsOrdered, NEW npages \in 1 .. MaxPages,
                      NEW i \in 1 .. Len(mem_regions) + 1,
                      find_free_mem_region(i, npages)
               PROVE  /\ Free(StartOf(i), npages)
                      /\ \A g \in 0 .. StartOf(i) - 1 : ~Free(g, npages)
    BY DEF FirstFit
  <1>0. npages \in Nat /\ npages >= 1 /\ Len(mem_regions) \in Nat
    BY ConstAssumption DEF TypeOK
  <1>1. \A j \in 1 .. Len(mem_regions) :
          /\ mem_regions[j].gpa \in Nat /\ mem_regions[j].npages \in Nat
          /\ mem_regions[j].npages >= 1
    BY RegionFacts
  <1>2. StartOf(i) \in Nat
    BY StartFacts
  <1>3. Free(StartOf(i), npages)
    <2>1. ASSUME NEW j \in 1 .. Len(mem_regions), j >= i
          PROVE  StartOf(i) + npages <= mem_regions[j].gpa
      <3>1. i \in 1 .. Len(mem_regions)
        BY <1>0, <2>1
      <3>2. StartOf(i) + npages <= mem_regions[i].gpa
        BY <3>1, GapFacts DEF find_free_mem_region
      <3>3. i < j => mem_regions[i].gpa + mem_regions[i].npages
                       <= mem_regions[j].gpa
        BY <3>1 DEF RegionsOrdered
      <3> QED
        BY <1>0, <1>1, <1>2, <2>1, <3>1, <3>2, <3>3
    <2>2. ASSUME NEW j \in 1 .. Len(mem_regions), j < i
          PROVE  mem_regions[j].gpa + mem_regions[j].npages <= StartOf(i)
      BY <2>2, StartFacts
    <2> QED
      BY <1>0, <1>1, <1>2, <2>1, <2>2, SMTT(30) DEF Free
  <1>4. ASSUME NEW g \in 0 .. StartOf(i) - 1, Free(g, npages)
        PROVE  FALSE
    <2> DEFINE T == {j \in 1 .. Len(mem_regions) :
                       g < mem_regions[j].gpa + mem_regions[j].npages}
    <2>1. i - 1 \in T
      <3>1. i # 1 /\ i - 1 \in 1 .. Len(mem_regions)
        BY <1>0, <1>2 DEF StartOf
      <3> DEFINE k == i - 1
      <3>2. k \in 1 .. Len(mem_regions) /\ StartOf(i) = RegionEnd(k)
        BY <3>1 DEF StartOf
      <3> HIDE DEF k
      <3>3. StartOf(i) = mem_regions[k].gpa + mem_regions[k].npages
        BY <3>2, RegionFacts
      <3>4. k \in T
        BY <1>2, <3>2, <3>3
      <3> QED
        BY <3>4 DEF k
    <2>2. PICK j \in T : \A l \in T : j <= l
      <3>1. T \subseteq Nat /\ T # {}
        BY <1>0, <2>1
      <3> HIDE DEF T
      <3> QED
        BY <3>1, LeastElement
    <2>3. \A l \in T : j <= l
      BY <2>2
    <2>4. j \in 1 .. i - 1 /\ j \in 1 .. Len(mem_regions)
      BY <1>0, <2>1, <2>3
    <2>5. StartOf(j) <= g
      <3>1. CASE j = 1
        BY <3>1 DEF StartOf
      <3>2. CASE j # 1
        <4> DEFINE k == j - 1
        <4>1. /\ k \in 1 .. Len(mem_regions) /\ k \notin T
              /\ StartOf(j) = RegionEnd(k)
          BY <1>0, <2>3, <2>4, <3>2 DEF StartOf
        <4> HIDE DEF k
        <4> QED
          BY <1>1, <1>2, <4>1, RegionFacts, SMTT(30)
      <3> QED
        BY <3>1, <3>2
    <2>6. ~(StartOf(j) + npages <= mem_regions[j].gpa)
      BY <2>4, GapFacts DEF find_free_mem_region
    <2>7. StartOf(j) \in Nat /\ j \in 1 .. Len(mem_regions) + 1
      BY <1>0, <2>4, StartFacts
    <2>8. mem_regions[j].gpa < g + npages
      BY <1>0, <1>1, <1>2, <2>4, <2>5, <2>6, <2>7
    <2>9. g < mem_regions[j].gpa + mem_regions[j].npages
      BY <2>2
    <2>10. CASE mem_regions[j].gpa <= g
      <3>1. g \in g .. g + npages - 1
        BY <1>0, <1>2
      <3> QED
        BY <1>4, <2>4, <2>9, <2>10, <3>1 DEF Free
    <2>11. CASE mem_regions[j].gpa > g
      <3>1. /\ mem_regions[j].gpa \in g .. g + npages - 1
            /\ mem_regions[j].gpa < mem_regions[j].gpa + mem_regions[j].npages
        BY <1>0, <1>1, <1>2, <2>4, <2>8, <2>11, SMTT(30)
      <3> QED
        BY <1>1, <1>4, <2>4, <3>1 DEF Free
    <2> QED
      BY <1>1, <1>2, <2>4, <2>10, <2>11
  <1> QED
    BY <1>3, <1>4

(* On an ordered list map_gpa's overlap test passes for the range that     *)
(* find_free_mem_region returns.                                           *)
LEMMA IInvAllocFits == TypeOK /\ RegionsOrdered => AllocFits
  <1> SUFFICES ASSUME TypeOK, RegionsOrdered, NEW npages \in 1 .. MaxPages,
                      NEW i \in 1 .. Len(mem_regions) + 1,
                      find_free_mem_region(i, npages),
                      NEW j \in 1 .. Len(mem_regions),
                      WalkStops(j, StartOf(i))
               PROVE  mem_regions[j].gpa >= Add(StartOf(i), npages)
    BY DEF AllocFits, Fits, TypeOK
  <1>0. npages \in Nat /\ npages >= 1 /\ Len(mem_regions) \in Nat
    BY ConstAssumption DEF TypeOK
  <1>1. StartOf(i) \in Nat
    BY StartFacts
  <1>2. mem_regions[j].gpa + mem_regions[j].npages > StartOf(i)
    BY RegionFacts DEF WalkStops
  <1>3. j >= i
    <2>1. j < i => mem_regions[j].gpa + mem_regions[j].npages <= StartOf(i)
      BY StartFacts
    <2>2. mem_regions[j].gpa \in Nat /\ mem_regions[j].npages \in Nat
      BY RegionFacts
    <2> QED
      BY <1>0, <1>1, <1>2, <2>1, <2>2
  <1>4. i \in 1 .. Len(mem_regions)
    BY <1>0, <1>3
  <1>5. StartOf(i) + npages <= mem_regions[i].gpa
    BY <1>4, GapFacts DEF find_free_mem_region
  <1>6. i = j \/ mem_regions[i].gpa + mem_regions[i].npages <= mem_regions[j].gpa
    BY <1>0, <1>3, <1>4 DEF RegionsOrdered
  <1>7. /\ mem_regions[i].gpa \in Nat /\ mem_regions[i].npages \in Nat
        /\ mem_regions[j].gpa \in Nat /\ mem_regions[j].npages \in Nat
        /\ mem_regions[i].gpa + mem_regions[i].npages <= GpaPages
    BY <1>4, RegionFacts
  <1>8. Add(StartOf(i), npages) = StartOf(i) + npages
    BY <1>0, <1>1, <1>5, <1>7, ConstAssumption, SMTT(30) DEF Add
  <1> QED
    BY <1>0, <1>1, <1>5, <1>6, <1>7, <1>8

(* find_free_mem_region always returns the lowest free range.              *)
THEOREM LowestFreeRange == Spec => []FirstFit
  <1>1. IInv => FirstFit
    BY IInvFirstFit DEF IInv
  <1> QED
    BY <1>1, Inductive, PTL

(* map_gpa never refuses as overlapping the range that the search found.   *)
THEOREM WalksAgree == Spec => []AllocFits
  <1>1. IInv => AllocFits
    BY IInvAllocFits DEF IInv
  <1> QED
    BY <1>1, Inductive, PTL

-----------------------------------------------------------------------------
(* Refinement of GuestPhys.                                                *)

(* In the invariant the refinement mapping is the framework's table.       *)
LEMMA PhysIsEpt ==
  IInv => [p \in Pages |-> gpa_to_hva(p)] = ept
  BY DEF IInv, EptAgrees, TypeOK

(* A successful call is one Map step of GuestPhys.                         *)
LEMMA DoneIsMap ==
  ASSUME IInv, IInv',
         NEW gpa \in 0 .. AddrPages - 1, NEW npages \in 0 .. MaxPages,
         NEW hva \in Blocks, heap[hva] = 0,
         map_gpa_done(gpa, npages, hva), ret' = 0
  PROVE  Phys!Next
  <1> DEFINE phys == [p \in Pages |-> gpa_to_hva(p)]
  <1>1. /\ npages \in 1 .. MaxPages /\ gpa + npages <= GpaPages
        /\ gpa \in Nat /\ npages \in Nat
    BY ConstAssumption DEF map_gpa_done, hv_vm_map_accepts
  <1>2. PICK i \in 1 .. Len(mem_regions) + 1 :
          WalkStops(i, gpa) /\ Fits(i, gpa, npages)
    BY DEF map_gpa_done
  <1>3. \A j \in 1 .. Len(mem_regions) :
          /\ mem_regions[j].gpa \in Nat /\ mem_regions[j].npages \in Nat
          /\ mem_regions[j].npages >= 1 /\ mem_regions[j].hva \in Blocks
          /\ j < i => mem_regions[j].gpa + mem_regions[j].npages <= gpa
          /\ j >= i => gpa + npages <= mem_regions[j].gpa
    BY <1>1, <1>2, FreeRange, RegionFacts DEF IInv
  <1>4. phys = ept
    BY PhysIsEpt
  <1>5. phys' = ept'
    <2>1. (IInv => [p \in Pages |-> gpa_to_hva(p)] = ept)'
      BY PhysIsEpt, PTL
    <2> QED
      BY <2>1
  <1>6. Translates(ept)
    BY EptTranslates DEF IInv
  <1>7. \A p \in gpa .. gpa + npages - 1 : p \in Pages /\ ept[p] = NULL
    <2> SUFFICES ASSUME NEW p \in gpa .. gpa + npages - 1
                 PROVE  p \in Pages /\ ept[p] = NULL
      OBVIOUS
    <2>1. p \in Pages /\ p \in Nat
      BY <1>1, ConstAssumption DEF Pages
    <2>2. \A j \in 1 .. Len(mem_regions) : ~In(j, p)
      BY <1>1, <1>3, <2>1 DEF In
    <2> QED
      BY <1>6, <2>1, <2>2 DEF Translates
  <1>8. \A p \in Pages : \A o \in 0 .. MaxPages : ept[p] # <<hva, o>>
    <2> SUFFICES ASSUME NEW p \in Pages, NEW o \in 0 .. MaxPages,
                        ept[p] = <<hva, o>>
                 PROVE  FALSE
      OBVIOUS
    <2>1. <<hva, o>> # NULL
      BY ConstAssumption DEF HostPages
    <2>2. PICK j \in 1 .. Len(mem_regions) :
            ept[p] = <<mem_regions[j].hva, p - mem_regions[j].gpa>>
      BY <1>6, <2>1 DEF Translates
    <2>3. mem_regions[j].hva = hva
      BY <2>2
    <2>4. heap[hva] = mem_regions[j].npages
      BY <2>3 DEF IInv, HostBacked
    <2> QED
      BY <1>3, <2>4
  <1>9. ept' = [p \in Pages |-> IF p \in gpa .. gpa + npages - 1
                                THEN <<hva, p - gpa>> ELSE ept[p]]
    BY DEF map_gpa_done, hv_vm_map
  <1>10. gpa \in Pages
    BY <1>1, ConstAssumption DEF Pages
  <1>11. Phys!Pages = Pages
    BY DEF Phys!Pages, Pages
  <1> HIDE DEF phys
  <1>12. /\ gpa .. (gpa + npages - 1) \subseteq Phys!Pages
         /\ \A p \in gpa .. (gpa + npages - 1) : phys[p] = NULL
         /\ \A p \in Phys!Pages : \A o \in 0 .. MaxPages : phys[p] # <<hva, o>>
         /\ phys' = [p \in Phys!Pages |->
                       IF p \in gpa .. (gpa + npages - 1)
                       THEN <<hva, p - gpa>> ELSE phys[p]]
    BY <1>4, <1>5, <1>7, <1>8, <1>9, <1>11
  <1>13. Phys!Map(gpa, npages, hva)
    BY <1>12 DEF Phys!Map, Phys!Unused, phys
  <1> QED
    BY <1>1, <1>10, <1>11, <1>13 DEF Phys!Next

(* The list with its walks implements the partial map: a call that returns *)
(* 0 maps one free range to an unused block, any other call changes        *)
(* nothing.                                                                *)
THEOREM Refinement == Spec => ImplementsGuestPhys
  <1>1. Init => Phys!Init
    <2> SUFFICES ASSUME Init PROVE Phys!Init
      OBVIOUS
    <2>1. [p \in Pages |-> gpa_to_hva(p)] = ept
      BY InitIInv, PhysIsEpt
    <2> QED
      BY <2>1 DEF Init, Phys!Init, Pages, Phys!Pages
  <1>2. IInv /\ IInv' /\ [Next]_vars => [Phys!Next]_(Phys!vars)
    <2> SUFFICES ASSUME IInv, IInv', [Next]_vars
                 PROVE  Phys!Next \/ UNCHANGED Phys!vars
      OBVIOUS
    <2>0. Pages \subseteq 0 .. AddrPages - 1 /\ 0 \in 0 .. AddrPages - 1
      BY ConstAssumption DEF Pages
    <2>1. ASSUME UNCHANGED mem_regions, ret' = -1
          PROVE  Phys!Next
      <3>1. [p \in Pages |-> gpa_to_hva(p)]' = [p \in Pages |-> gpa_to_hva(p)]
        BY <2>1 DEF gpa_to_hva, Reaches, Holds, RegionEnd
      <3>2. Phys!Fail
        BY <2>1, <3>1 DEF Phys!Fail
      <3> QED
        BY <3>2 DEF Phys!Next
    <2>2. ASSUME NEW npages \in 0 .. MaxPages, vm_mem_alloc_fails(npages)
          PROVE  Phys!Next
      BY <2>0, <2>1, <2>2, FailsKeepLists
    <2>3. ASSUME NEW npages \in 0 .. MaxPages, NEW gpa \in 0 .. AddrPages - 1,
                 load_mach_obj_fails(gpa, npages)
          PROVE  Phys!Next
      BY <2>1, <2>3, FailsKeepLists
    <2>4. ASSUME NEW npages \in 0 .. MaxPages, NEW gpa \in Pages,
                 NEW hva \in Blocks, vm_mem_alloc_done(npages, gpa, hva)
          PROVE  Phys!Next
      BY <2>0, <2>4, DoneIsMap DEF vm_mem_alloc_done
    <2>5. ASSUME NEW npages \in 0 .. MaxPages, NEW gpa \in 0 .. AddrPages - 1,
                 NEW hva \in Blocks, load_mach_obj_maps(gpa, npages, hva)
          PROVE  Phys!Next
      BY <2>5, DoneIsMap DEF load_mach_obj_maps
    <2>6. CASE UNCHANGED vars
      <3>1. [p \in Pages |-> gpa_to_hva(p)]' = [p \in Pages |-> gpa_to_hva(p)]
        BY <2>6 DEF vars, gpa_to_hva, Reaches, Holds, RegionEnd
      <3> QED
        BY <2>6, <3>1 DEF vars, Phys!vars
    <2> QED
      BY <2>2, <2>3, <2>4, <2>5, <2>6 DEF Next
  <1> QED
    BY <1>1, <1>2, Inductive, PTL DEF Spec, ImplementsGuestPhys, Phys!Spec

=============================================================================
