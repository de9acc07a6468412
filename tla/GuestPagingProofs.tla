------------------------- MODULE GuestPagingProofs -------------------------
(***************************************************************************)
(* Proofs, for every size of the tables, of guest-physical memory and of   *)
(* the executable, that the tables map_gva builds translate as they were   *)
(* meant to.                                                               *)
(***************************************************************************)
EXTENDS GuestPaging, TLAPS

-----------------------------------------------------------------------------
(* Arithmetic of decode_gva.                                               *)

LEMMA DivMod ==
  ASSUME NEW n \in Nat, NEW d \in Nat \ {0}
  PROVE  /\ n \div d \in Nat /\ n % d \in 0 .. d - 1
         /\ n = d * (n \div d) + (n % d)
  OBVIOUS

(* Quotient and remainder are unique.                                      *)
LEMMA Unique ==
  ASSUME NEW d \in Nat \ {0}, NEW q \in Nat, NEW r \in 0 .. d - 1,
         NEW p \in Nat, NEW s \in 0 .. d - 1, q * d + r = p * d + s
  PROVE  q = p /\ r = s
  <1>1. CASE q < p
    <2>1. PICK k \in Nat : p = q + 1 + k
      <3>1. p - q - 1 \in Nat /\ p = q + 1 + (p - q - 1)
        BY <1>1
      <3> QED
        BY <3>1
    <2>2. p * d = q * d + d + k * d
      BY <2>1
    <2>3. k * d >= 0
      OBVIOUS
    <2> QED
      BY <2>2, <2>3
  <1>2. CASE p < q
    <2>1. PICK k \in Nat : q = p + 1 + k
      <3>1. q - p - 1 \in Nat /\ q = p + 1 + (q - p - 1)
        BY <1>2
      <3> QED
        BY <3>1
    <2>2. q * d = p * d + d + k * d
      BY <2>1
    <2>3. k * d >= 0
      OBVIOUS
    <2> QED
      BY <2>2, <2>3
  <1>3. CASE p = q
    BY <1>3
  <1> QED
    BY <1>1, <1>2, <1>3

(* Dividing twice.                                                         *)
LEMMA DivDiv ==
  ASSUME NEW n \in Nat, NEW m \in Nat \ {0}, NEW d \in Nat \ {0}
  PROVE  (n \div m) \div d = n \div (m * d)
  <1> DEFINE q == n \div m
             r == n % m
             p == q \div d
             s == q % d
             t == s * m + r
  <1>1. q \in Nat /\ r \in 0 .. m - 1 /\ n = m * q + r
    BY DivMod
  <1> HIDE DEF q, r
  <1>2. p \in Nat /\ s \in 0 .. d - 1 /\ q = d * p + s
    BY <1>1, DivMod
  <1> HIDE DEF p, s
  <1>3. m * d \in Nat \ {0}
    OBVIOUS
  <1>4. m * (d * p + s) = p * (m * d) + s * m
    BY <1>2
  <1>5. n = p * (m * d) + t
    BY <1>1, <1>2, <1>4
  <1>6. t \in 0 .. m * d - 1
    <2>1. s * m \in Nat /\ t \in Nat
      BY <1>1, <1>2
    <2>2. PICK k \in Nat : d = s + 1 + k
      <3>1. d - s - 1 \in Nat /\ d = s + 1 + (d - s - 1)
        BY <1>2
      <3> QED
        BY <3>1
    <2>3. m * d = s * m + m + k * m /\ k * m \in Nat
      BY <2>2, <1>2
    <2> QED
      BY <1>1, <2>1, <2>3
  <1>7. /\ n \div (m * d) \in Nat /\ n % (m * d) \in 0 .. m * d - 1
        /\ n = (m * d) * (n \div (m * d)) + (n % (m * d))
    BY <1>3, DivMod
  <1> DEFINE D == m * d
             u == n \div D
             v == n % D
  <1>8. u * D + v = p * D + t
    BY <1>5, <1>7
  <1>9. u = p
    <2> HIDE DEF D, t, u, v
    <2>1. D \in Nat \ {0} /\ u \in Nat /\ v \in 0 .. D - 1 /\ p \in Nat
          /\ t \in 0 .. D - 1
      BY <1>2, <1>3, <1>6, <1>7 DEF D, u, v
    <2> QED
      BY <1>8, <2>1, Unique
  <1> QED
    BY <1>9 DEF p, q

(* The position of a table of a level among those that the tree can have   *)
(* there, for the address g: level 4 has one table, level 0 stands for the *)
(* pages themselves.                                                       *)
Prefix(g, level) == IF level = 4 THEN 0 ELSE g \div Span(level + 1)

(* What slot s of table b of a level leads to, one level down.             *)
Child(b, s) == b * Fanout + s

LEMMA ChildUnique ==
  /\ \A b \in Nat, s \in Slots : Child(b, s) \in Nat
  /\ \A b, c \in Nat, s, t \in Slots :
        Child(b, s) = Child(c, t) => b = c /\ s = t
  <1>1. Fanout \in Nat \ {0}
    BY PagingAssumption
  <1> QED
    BY <1>1, Unique DEF Child, Slots

LEMMA Spans ==
  /\ Span(1) = 1 /\ Span(2) = Fanout /\ Span(3) = Fanout * Fanout
  /\ Span(4) = Fanout * Fanout * Fanout
  /\ \A level \in 1 .. 4 : Span(level) \in Nat \ {0}
  <1>1. /\ Span(1) = 1 /\ Span(2) = Fanout /\ Span(3) = Fanout * Fanout
        /\ Span(4) = Fanout * Fanout * Fanout
    BY DEF Span
  <1>2. Fanout * Fanout \in Nat \ {0}
    BY PagingAssumption
  <1>3. Fanout * Fanout * Fanout \in Nat \ {0}
    BY <1>2, PagingAssumption
  <1> QED
    BY <1>1, <1>2, <1>3, PagingAssumption

(* One level down: the index that decode_gva computes is the position in   *)
(* the table.                                                              *)
LEMMA PathStep ==
  ASSUME NEW g \in Gvas, NEW level \in 1 .. 4
  PROVE  /\ Prefix(g, level) \in Nat /\ decode_gva(g, level) \in Slots
         /\ Prefix(g, level - 1) = Child(Prefix(g, level), decode_gva(g, level))
  <1> DEFINE m == Span(level)
             q == g \div m
  <1>1. Fanout \in Nat \ {0} /\ m \in Nat \ {0} /\ g \in Nat
    BY Spans, PagingAssumption DEF Gvas
  <1>2. m * Fanout = IF level = 4 THEN Fanout * Fanout * Fanout * Fanout
                     ELSE Span(level + 1)
    BY Spans, PagingAssumption
  <1>3. Prefix(g, level - 1) = q
    BY DEF Prefix
  <1> HIDE DEF m
  <1>4. q \in Nat
    BY <1>1, DivMod
  <1>5. q \div Fanout = g \div (m * Fanout)
    BY <1>1, DivDiv
  <1>6. /\ q \div Fanout \in Nat /\ q % Fanout \in Slots
        /\ q = Fanout * (q \div Fanout) + (q % Fanout)
    BY <1>1, <1>4, DivMod DEF Slots
  <1>7. Prefix(g, level) = q \div Fanout
    <2>1. CASE level = 4
      <3> DEFINE D == m * Fanout
      <3>1. g \in 0 .. D - 1 /\ D \in Nat \ {0}
        BY <1>1, <1>2, <2>1 DEF Gvas
      <3> HIDE DEF D
      <3>2. /\ g \div D \in Nat /\ g % D \in 0 .. D - 1
            /\ g = D * (g \div D) + (g % D)
        BY <1>1, <3>1, DivMod
      <3>3. (g \div D) * D + (g % D) = 0 * D + g
        BY <3>1, <3>2
      <3>4. g \div D = 0
        BY <3>1, <3>2, <3>3, Unique
      <3> QED
        BY <1>5, <2>1, <3>4 DEF D, Prefix
    <2>2. CASE level # 4
      BY <1>2, <1>5, <2>2 DEF Prefix
    <2> QED
      BY <2>1, <2>2
  <1>8. decode_gva(g, level) = q % Fanout
    BY DEF decode_gva, m
  <1> HIDE DEF q
  <1>9. Fanout * (q \div Fanout) = (q \div Fanout) * Fanout
    BY <1>1, <1>6
  <1> QED
    BY <1>3, <1>6, <1>7, <1>8, <1>9 DEF Child

LEMMA PathEnds ==
  ASSUME NEW g \in Gvas
  PROVE  Prefix(g, 0) = g /\ Prefix(g, 4) = 0
  BY Spans DEF Prefix, Gvas

-----------------------------------------------------------------------------
(* The inductive invariant.                                                *)

Top == Fanout * Fanout * Fanout * Fanout

CallType ==
  [at : {"idle", "root", "walk"}, gva : Gvas, gpa : Pages,
   npages : 0 .. InitPages + MaxImage, level : 0 .. 4,
   table : 0 .. AddrPages - 1]

(* Types, and the room that a call in progress has left.                   *)
TypeInv ==
  /\ TypeOK /\ call \in CallType
  /\ call.at # "idle" => /\ call.gva + call.npages <= Top
                         /\ call.gpa + call.npages <= GpaPages
                         /\ call.npages >= 1
  /\ call.at = "walk" => pml4 # None /\ call.level >= 1

(* A page that may be handed to map_gva holds no table.  Before the root   *)
(* exists nothing has been mapped.                                         *)
PhaseInv ==
  /\ pml4 = None => \A g \in Gvas : mapped[g] = None
  /\ call.at # "idle" => phase \in {"init", "load"}
  /\ phase = "start" => phys = {} /\ pml4 = None
  /\ phase \notin {"start", "failed"} => 0 \in phys

(* tree[l][b] is the page of the table of level l at position b, or None;  *)
(* tree[0] is the translation of the pages.                                *)
TreeType == [0 .. 4 -> [Nat -> Pages \cup {None}]]

(* An entry for what lies below it.                                        *)
EntryFor(page) == IF page = None THEN Zero ELSE TableEntry(page)

(* Memory holds exactly the tree: each table in a page of its own, each    *)
(* entry for what is below it, nothing below a table that is not there.    *)
Holds(tree) ==
  /\ tree[4][0] = pml4
  /\ \A b \in Nat : b # 0 => tree[4][b] = None
  /\ \A l \in 0 .. 4, b \in Nat : tree[l][b] \in phys \cup {None}
  /\ \A l, k \in 1 .. 4, b, c \in Nat :
        tree[l][b] = tree[k][c] /\ tree[l][b] # None => l = k /\ b = c
  /\ \A l \in 1 .. 4, b \in Nat, s \in Slots :
        IF tree[l][b] = None THEN tree[l - 1][Child(b, s)] = None
        ELSE mem[tree[l][b]][s] = EntryFor(tree[l - 1][Child(b, s)])

(* The pages are the ones that map_gva was asked for.                      *)
Translates(tree) ==
  \A g \in Nat : tree[0][g] = IF g \in Gvas THEN mapped[g] ELSE None

(* Pages outside the tables: page 0, the pages mapped so far, and those of *)
(* the call in progress.                                                   *)
Apart(tree) ==
  \A l \in 1 .. 4, b \in Nat : tree[l][b] # None =>
     /\ \A g \in Nat : tree[0][g] # tree[l][b]
     /\ tree[l][b] # 0
     /\ call.at # "idle" =>
          tree[l][b] \notin call.gpa .. call.gpa + call.npages - 1

(* The walk in progress stands at a table on the path of its address.      *)
OnPath(tree) ==
  call.at = "walk" =>
    /\ call.table = tree[call.level][Prefix(call.gva, call.level)]
    /\ call.table # None

Built(tree) == Holds(tree) /\ Translates(tree) /\ Apart(tree) /\ OnPath(tree)

TreeInv == faults = 0 /\ pml4 # None => \E tree \in TreeType : Built(tree)

(* The pages of a call in progress are mapped guest-physical pages.        *)
CallInv == call.at # "idle" => call.gpa .. call.gpa + call.npages - 1 \subseteq phys

PInv == TypeInv /\ PhaseInv /\ CallInv /\ TreeInv

-----------------------------------------------------------------------------
(* Types.                                                                  *)

LEMMA Sizes ==
  /\ Fanout \in Nat /\ Fanout >= 2 /\ GpaPages \in Nat /\ AddrPages \in Nat
  /\ GpaPages <= AddrPages /\ InitPages \in Nat /\ InitPages >= 1
  /\ LoadPage \in Nat /\ InitPages < LoadPage /\ MaxImage \in Nat
  /\ LoadPage + MaxImage <= GpaPages /\ LoadPage + MaxImage <= Top
  /\ Top \in Nat /\ Gvas = 0 .. Top - 1 /\ MaxFaults \in Nat
  <1>1. Fanout \in Nat /\ Fanout >= 2
    BY PagingAssumption
  <1>2. Top \in Nat
    BY <1>1 DEF Top
  <1> QED
    BY <1>1, <1>2, PagingAssumption DEF Top, Gvas

LEMMA EntryFacts ==
  /\ Zero \in Entry \/ AddrPages = 0
  /\ \A page \in 0 .. AddrPages - 1 : TableEntry(page) \in Entry
  /\ \A e \in Entry : e.ppn \in 0 .. AddrPages - 1
  /\ Pages \subseteq 0 .. AddrPages - 1
  BY Sizes DEF Entry, Zero, TableEntry, Pages

LEMMA FilledType ==
  ASSUME TypeOK, NEW P \in SUBSET Pages, NEW c \in Fresh
  PROVE  Filled(P, c) \in [phys \cup P -> [Slots -> Entry]]
  BY PagingAssumption DEF TypeOK, Filled

LEMMA WriteType ==
  ASSUME NEW Q, NEW m \in [Q -> [Slots -> Entry]], NEW page, NEW slot \in Slots,
         NEW e \in Entry
  PROVE  vm_mem_write(m, page, slot, e) \in [Q -> [Slots -> Entry]]
  BY DEF vm_mem_write

LEMMA PInit == Init => PInv
  <1> SUFFICES ASSUME Init PROVE PInv
    OBVIOUS
  <1>1. call \in CallType /\ call.at = "idle"
    BY Sizes DEF Init, Idle, CallType, Pages
  <1>2. TypeOK
    BY <1>1, Sizes DEF Init, TypeOK, CallType, None
  <1> QED
    BY <1>1, <1>2 DEF Init, PInv, TypeInv, PhaseInv, CallInv, TreeInv

(* Everything but the tree.                                                *)
Base == TypeInv /\ PhaseInv /\ CallInv

(* The fields of a call, one at a time.                                    *)
LEMMA CallFields ==
  ASSUME NEW c \in CallType
  PROVE  /\ c.at \in {"idle", "root", "walk"} /\ c.gva \in Gvas /\ c.gpa \in Pages
         /\ c.npages \in 0 .. InitPages + MaxImage /\ c.level \in 0 .. 4
         /\ c.table \in 0 .. AddrPages - 1
  BY DEF CallType

LEMMA CallMoves ==
  ASSUME NEW c \in CallType, NEW table \in 0 .. AddrPages - 1
  PROVE  LET d == [c EXCEPT !.at = "walk", !.level = 4, !.table = table]
         IN  /\ d \in CallType /\ d.at = "walk" /\ d.level = 4
             /\ d.table = table /\ d.gva = c.gva /\ d.gpa = c.gpa
             /\ d.npages = c.npages
  <1>1. PICK level \in 0 .. 4 : level = 4
    OBVIOUS
  <1>2. LET d == [c EXCEPT !.at = "walk", !.level = level, !.table = table]
         IN  /\ d \in CallType /\ d.at = "walk" /\ d.level = level
             /\ d.table = table /\ d.gva = c.gva /\ d.gpa = c.gpa
             /\ d.npages = c.npages
    BY DEF CallType
  <1> QED
    BY <1>1, <1>2

LEMMA CallDescends ==
  ASSUME NEW c \in CallType, c.level >= 1, NEW table \in 0 .. AddrPages - 1
  PROVE  LET d == [c EXCEPT !.level = @ - 1, !.table = table]
         IN  /\ d \in CallType /\ d.at = c.at /\ d.level = c.level - 1
             /\ d.table = table /\ d.gva = c.gva /\ d.gpa = c.gpa
             /\ d.npages = c.npages
  <1>1. c.level - 1 \in 0 .. 4
    BY CallFields
  <1> QED
    BY <1>1 DEF CallType

LEMMA DescendFields ==
  \A page \in 0 .. AddrPages - 1 :
    call \in CallType /\ call.level >= 1 /\ call' = Descend(page) =>
      /\ call' \in CallType /\ call'.at = call.at
      /\ call'.level = call.level - 1 /\ call'.table = page
      /\ call'.gva = call.gva /\ call'.gpa = call.gpa
      /\ call'.npages = call.npages
  <1> SUFFICES ASSUME NEW page \in 0 .. AddrPages - 1, call \in CallType,
                      call.level >= 1, call' = Descend(page)
               PROVE  /\ call' \in CallType /\ call'.at = call.at
                      /\ call'.level = call.level - 1 /\ call'.table = page
                      /\ call'.gva = call.gva /\ call'.gpa = call.gpa
                      /\ call'.npages = call.npages
    OBVIOUS
  <1> QED
    BY CallDescends DEF Descend

LEMMA CallStarts ==
  ASSUME NEW gva \in Gvas, NEW gpa \in Pages,
         NEW npages \in 0 .. InitPages + MaxImage
  PROVE  LET d == Called(gva, npages, gpa)
         IN  /\ d \in CallType /\ d.at = "root" /\ d.gva = gva /\ d.gpa = gpa
             /\ d.npages = npages
  <1>1. /\ 0 \in 0 .. AddrPages - 1 /\ 0 \in 0 .. 4 /\ 0 \in Gvas /\ 0 \in Pages
        /\ 0 \in 0 .. InitPages + MaxImage
    BY Sizes DEF Pages
  <1>2. Idle \in CallType
    BY <1>1 DEF Idle, CallType
  <1> HIDE DEF Idle
  <1> QED
    BY <1>2 DEF Called, CallType

LEMMA CallSlot ==
  ASSUME TypeInv, call.at = "walk"
  PROVE  call.level \in 1 .. 4 /\ call.gva \in Gvas /\ Slot \in Slots
  <1>1. call.level \in 1 .. 4 /\ call.gva \in Gvas
    BY DEF TypeInv, CallType
  <1> QED
    BY <1>1, PathStep DEF Slot

LEMMA NewPage ==
  ASSUME NEW page \in Pages, NEW n \in Nat, vm_mem_alloc(page, n)
  PROVE  /\ page .. page + n - 1 \subseteq Pages
         /\ (page .. page + n - 1) \cap phys = {}
         /\ n = 1 => page \notin phys
  BY DEF vm_mem_alloc, FreeRange, Pages

LEMMA NewFaults ==
  ASSUME TypeOK, NEW c, NewTable(c) \/ Fault \/ UNCHANGED faults
  PROVE  /\ faults' \in 0 .. MaxFaults
         /\ faults' = 0 => faults = 0
  BY Sizes DEF TypeOK, NewTable, Fault

LEMMA BaseInit == Base /\ vm_mem_init => Base'
  <1> SUFFICES ASSUME Base, vm_mem_init PROVE Base'
    OBVIOUS
  <1> USE DEF Base
  <1>1. PICK page \in Pages, c \in Fresh :
          /\ vm_mem_alloc(page, InitPages) /\ page = 0
          /\ phys' = phys \cup (page .. page + InitPages - 1)
          /\ mem' = Filled(page .. page + InitPages - 1, c)
          /\ call' = Called(0, InitPages, page)
    BY DEF vm_mem_init
  <1>2. phase' = "init" /\ UNCHANGED <<pml4, mapped, faults>> /\ phase = "start"
    BY DEF vm_mem_init
  <1> DEFINE P == 0 .. InitPages - 1
  <1>3. P \subseteq Pages /\ InitPages <= GpaPages
    BY <1>1, Sizes, NewPage DEF Pages
  <1>4. phys' = phys \cup P /\ mem' \in [phys' -> [Slots -> Entry]]
    <2>1. page .. page + InitPages - 1 = P
      BY <1>1, Sizes
    <2>2. phys' = phys \cup P /\ mem' = Filled(P, c)
      BY <1>1, <2>1
    <2> QED
      BY <1>3, <2>2, FilledType DEF TypeInv
  <1>5. /\ call' \in CallType /\ call'.at = "root" /\ call'.gva = 0
        /\ call'.gpa = 0 /\ call'.npages = InitPages
    <2>1. /\ 0 \in Gvas /\ 0 \in Pages /\ InitPages \in 0 .. InitPages + MaxImage
          /\ call' = Called(0, InitPages, 0)
      BY <1>1, <1>3, Sizes DEF Pages
    <2> QED
      BY <2>1, CallStarts
  <1>6. TypeOK'
    BY <1>2, <1>3, <1>4, <1>5 DEF TypeInv, TypeOK, CallType
  <1>7. TypeInv'
    BY <1>3, <1>5, <1>6, Sizes DEF TypeInv
  <1>8. PhaseInv' /\ CallInv'
    BY <1>2, <1>4, <1>5, Sizes DEF PhaseInv, CallInv
  <1> QED
    BY <1>7, <1>8

LEMMA BaseRoot == Base /\ map_gva_root => Base'
  <1> SUFFICES ASSUME Base, map_gva_root PROVE Base'
    OBVIOUS
  <1> USE DEF Base
  <1>1. call.at = "root" /\ UNCHANGED <<phase, mapped>>
    BY DEF map_gva_root
  <1>2. PICK table \in phys' :
          /\ table \in Pages /\ pml4' = table
          /\ call' = [call EXCEPT !.at = "walk", !.level = 4, !.table = table]
          /\ phys \subseteq phys' /\ phys' \subseteq Pages
          /\ mem' \in [phys' -> [Slots -> Entry]] /\ faults' \in 0 .. MaxFaults
    <2>1. CASE /\ pml4 # None
               /\ call' = [call EXCEPT !.at = "walk", !.level = 4, !.table = pml4]
               /\ UNCHANGED <<phys, mem, pml4, faults>>
      BY <2>1 DEF TypeInv, TypeOK
    <2>2. ASSUME pml4 = None, NEW page \in Pages, NEW c \in Fresh,
                 vm_mem_alloc(page, 1), phys' = phys \cup {page},
                 mem' = Filled({page}, c), pml4' = page, NewTable(c),
                 call' = [call EXCEPT !.at = "walk", !.level = 4, !.table = page]
          PROVE  \E table \in phys' :
          /\ table \in Pages /\ pml4' = table
          /\ call' = [call EXCEPT !.at = "walk", !.level = 4, !.table = table]
          /\ phys \subseteq phys' /\ phys' \subseteq Pages
          /\ mem' \in [phys' -> [Slots -> Entry]] /\ faults' \in 0 .. MaxFaults
      <3>1. mem' \in [phys' -> [Slots -> Entry]]
        BY <2>2, FilledType DEF TypeInv
      <3>2. faults' \in 0 .. MaxFaults
        BY <2>2, NewFaults DEF TypeInv
      <3> QED
        BY <2>2, <3>1, <3>2 DEF TypeInv, TypeOK
    <2> QED
      BY <2>1, <2>2 DEF map_gva_root
  <1>3. table # None /\ table \in 0 .. AddrPages - 1
    BY <1>2, EntryFacts DEF Pages, None
  <1>4. /\ call' \in CallType /\ call'.at = "walk" /\ call'.level = 4
        /\ call'.gva = call.gva /\ call'.gpa = call.gpa
        /\ call'.npages = call.npages
    <2>1. call \in CallType
      BY DEF TypeInv
    <2>2. call' = [call EXCEPT !.at = "walk", !.level = 4, !.table = table]
      BY <1>2
    <2> HIDE DEF Base
    <2> QED
      BY <1>3, <2>1, <2>2, CallMoves
  <1>5. TypeOK'
    BY <1>1, <1>2, <1>4 DEF TypeInv, TypeOK, CallType
  <1>6. TypeInv'
    BY <1>1, <1>2, <1>3, <1>4, <1>5 DEF TypeInv
  <1>7. PhaseInv' /\ CallInv'
    BY <1>1, <1>2, <1>3, <1>4 DEF PhaseInv, CallInv
  <1> QED
    BY <1>6, <1>7

LEMMA BaseDescend == Base /\ map_gva_descend => Base'
  <1> SUFFICES ASSUME Base, map_gva_descend PROVE Base'
    OBVIOUS
  <1> USE DEF Base
  <1>1. /\ call.at = "walk" /\ call.level > 1
        /\ UNCHANGED <<pml4, phase, mapped>>
    BY DEF map_gva_descend
  <1>2. Slot \in Slots /\ call.level \in 1 .. 4
    BY <1>1, CallSlot
  <1>3. \A e \in EntryRead : e.ppn \in 0 .. AddrPages - 1
    <2> SUFFICES ASSUME NEW e \in EntryRead PROVE e \in Entry
      BY EntryFacts
    <2>1. PICK old \in Residue : e = vm_mem_read(call.table, Slot, old)
      BY DEF EntryRead
    <2> QED
      BY <1>2, <2>1, PagingAssumption DEF vm_mem_read, TypeInv, TypeOK
  <1>4. PICK page \in 0 .. AddrPages - 1 :
          /\ call' = Descend(page)
          /\ phys \subseteq phys' /\ phys' \subseteq Pages
          /\ mem' \in [phys' -> [Slots -> Entry]] /\ faults' \in 0 .. MaxFaults
    <2> DEFINE Goal == \E page \in 0 .. AddrPages - 1 :
          /\ call' = Descend(page)
          /\ phys \subseteq phys' /\ phys' \subseteq Pages
          /\ mem' \in [phys' -> [Slots -> Entry]] /\ faults' \in 0 .. MaxFaults
    <2>1. ASSUME NEW e \in EntryRead,
                 mem' = vm_mem_write(mem, call.table, Slot, TableEntry(e.ppn)),
                 call' = Descend(e.ppn), UNCHANGED <<phys, faults>>
          PROVE  Goal
      BY <1>2, <1>3, <2>1, WriteType, EntryFacts DEF TypeInv, TypeOK
    <2>2. ASSUME NEW page \in Pages, NEW c \in Fresh, vm_mem_alloc(page, 1),
                 phys' = phys \cup {page}, call' = Descend(page), NewTable(c),
                 mem' = vm_mem_write(Filled({page}, c), call.table, Slot,
                                     TableEntry(page))
          PROVE  Goal
      <3>1. page \in 0 .. AddrPages - 1 /\ TableEntry(page) \in Entry
        BY EntryFacts
      <3>2. Filled({page}, c) \in [phys' -> [Slots -> Entry]]
        BY <2>2, FilledType DEF TypeInv
      <3>3. mem' \in [phys' -> [Slots -> Entry]]
        BY <1>2, <2>2, <3>1, <3>2, WriteType
      <3>4. faults' \in 0 .. MaxFaults
        BY <2>2, NewFaults DEF TypeInv
      <3> QED
        BY <2>2, <3>1, <3>3, <3>4 DEF TypeInv, TypeOK
    <2>3. ASSUME NEW r \in Residue, call' = Descend(r.ppn), Fault, UNCHANGED phys,
                 mem' = vm_mem_write(mem, call.table, Slot, TableEntry(r.ppn))
          PROVE  Goal
      <3>1. r.ppn \in 0 .. AddrPages - 1 /\ TableEntry(r.ppn) \in Entry
        BY EntryFacts, PagingAssumption
      <3>2. mem' \in [phys -> [Slots -> Entry]]
        BY <1>2, <2>3, <3>1, WriteType DEF TypeInv, TypeOK
      <3>3. faults' \in 0 .. MaxFaults
        BY <2>3, NewFaults DEF TypeInv
      <3> QED
        BY <2>3, <3>1, <3>2, <3>3 DEF TypeInv, TypeOK
    <2> QED
      BY <2>1, <2>2, <2>3 DEF map_gva_descend
  <1>5. /\ call' \in CallType /\ call'.at = "walk"
        /\ call'.level = call.level - 1 /\ call'.level >= 1
        /\ call'.gva = call.gva /\ call'.gpa = call.gpa
        /\ call'.npages = call.npages
    <2>1. call \in CallType /\ call.level >= 1 /\ call.level - 1 >= 1
      BY <1>1, <1>2 DEF TypeInv
    <2>2. call' = [call EXCEPT !.level = @ - 1, !.table = page]
      BY <1>4 DEF Descend
    <2> HIDE DEF Base
    <2> QED
      BY <1>1, <2>1, <2>2, CallDescends
  <1>6. TypeOK'
    BY <1>1, <1>4, <1>5 DEF TypeInv, TypeOK, CallType
  <1>7. TypeInv'
    BY <1>1, <1>4, <1>5, <1>6 DEF TypeInv
  <1>8. PhaseInv' /\ CallInv'
    BY <1>1, <1>4, <1>5 DEF PhaseInv, CallInv
  <1> QED
    BY <1>7, <1>8

(* The next page of a call that has more than one.                         *)
LEMMA CallNext ==
  ASSUME NEW c \in CallType, c.npages > 1, c.gva + c.npages <= Top,
         c.gpa + c.npages <= GpaPages, NEW table \in 0 .. AddrPages - 1
  PROVE  LET d == [c EXCEPT !.gva = @ + 1, !.gpa = @ + 1, !.npages = @ - 1,
                            !.level = 4, !.table = table]
         IN  /\ d \in CallType /\ d.at = c.at /\ d.level = 4
             /\ d.table = table /\ d.gva = c.gva + 1 /\ d.gpa = c.gpa + 1
             /\ d.npages = c.npages - 1
  <1>1. PICK level \in 0 .. 4 : level = 4
    OBVIOUS
  <1>2. PICK gva \in Gvas, gpa \in Pages, npages \in 0 .. InitPages + MaxImage :
          gva = c.gva + 1 /\ gpa = c.gpa + 1 /\ npages = c.npages - 1
    <2>1. /\ c.gva + 1 \in Gvas /\ c.gpa + 1 \in Pages
          /\ c.npages - 1 \in 0 .. InitPages + MaxImage
      <3>1. /\ c.gva \in 0 .. Top - 1 /\ c.gpa \in 0 .. GpaPages - 1
            /\ c.npages \in 0 .. InitPages + MaxImage
        BY CallFields, Sizes DEF Pages
      <3>2. Top \in Nat /\ GpaPages \in Nat /\ InitPages + MaxImage \in Nat
        BY Sizes
      <3>3. /\ c.gva + 1 \in 0 .. Top - 1 /\ c.gpa + 1 \in 0 .. GpaPages - 1
            /\ c.npages - 1 \in 0 .. InitPages + MaxImage
        BY <3>1, <3>2
      <3> QED
        BY <3>3, Sizes DEF Pages
    <2> QED
      BY <2>1
  <1>3. LET d == [c EXCEPT !.gva = gva, !.gpa = gpa, !.npages = npages,
                           !.level = level, !.table = table]
        IN  /\ d \in CallType /\ d.at = c.at /\ d.level = level
            /\ d.table = table /\ d.gva = gva /\ d.gpa = gpa
            /\ d.npages = npages
    BY DEF CallType
  <1> QED
    BY <1>1, <1>2, <1>3

LEMMA IdleType == TypeOK => Idle \in CallType \/ GpaPages = 0
  <1>1. SUFFICES ASSUME GpaPages # 0 PROVE Idle \in CallType
    OBVIOUS
  <1>2. /\ 0 \in 0 .. AddrPages - 1 /\ 0 \in 0 .. 4 /\ 0 \in Gvas /\ 0 \in Pages
        /\ 0 \in 0 .. InitPages + MaxImage
    BY <1>1, Sizes DEF Pages
  <1> QED
    BY <1>2 DEF Idle, CallType

LEMMA BaseLeaf == Base /\ map_gva_leaf => Base'
  <1> SUFFICES ASSUME Base, map_gva_leaf PROVE Base'
    OBVIOUS
  <1> USE DEF Base
  <1>1. /\ call.at = "walk" /\ call.level = 1 /\ UNCHANGED <<phys, pml4, faults>>
        /\ mem' = vm_mem_write(mem, call.table, Slot, TableEntry(call.gpa))
        /\ mapped' = [mapped EXCEPT ![call.gva] = call.gpa]
    BY DEF map_gva_leaf
  <1>2. /\ call \in CallType /\ call.gva + call.npages <= Top
        /\ call.gpa + call.npages <= GpaPages /\ call.npages >= 1
        /\ pml4 \in Pages /\ pml4 # None /\ pml4 \in 0 .. AddrPages - 1
        /\ mem \in [phys -> [Slots -> Entry]]
    BY <1>1, EntryFacts DEF TypeInv, TypeOK
  <1>3. Slot \in Slots /\ TableEntry(call.gpa) \in Entry
    BY <1>1, <1>2, CallSlot, CallFields, EntryFacts
  <1>4. mem' \in [phys -> [Slots -> Entry]]
    BY <1>1, <1>2, <1>3, WriteType
  <1>5. mapped' \in [Gvas -> Pages \cup {None}]
    BY <1>1, <1>2, CallFields DEF TypeInv, TypeOK
  <1>6. CASE call.npages > 1
    <2>1. /\ call' = [call EXCEPT !.gva = @ + 1, !.gpa = @ + 1,
                                  !.npages = @ - 1, !.level = 4, !.table = pml4]
          /\ UNCHANGED phase
      BY <1>6 DEF map_gva_leaf
    <2>2. /\ call' \in CallType /\ call'.at = "walk" /\ call'.level = 4
          /\ call'.gva = call.gva + 1 /\ call'.gpa = call.gpa + 1
          /\ call'.npages = call.npages - 1
      <3> HIDE DEF Base
      <3> QED
        BY <1>1, <1>2, <1>6, <2>1, CallNext
    <2>3. TypeOK'
      BY <1>1, <1>4, <1>5, <2>1, <2>2, CallFields DEF TypeInv, TypeOK
    <2>4. TypeInv'
      <3>1. /\ call'.gva + call'.npages <= Top /\ call'.npages >= 1
            /\ call'.gpa + call'.npages <= GpaPages
        <4>1. /\ call.gva \in Nat /\ call.gpa \in Nat /\ call.npages \in Nat
              /\ Top \in Nat /\ GpaPages \in Nat
          BY <1>2, CallFields, Sizes DEF Pages
        <4> QED
          BY <1>2, <1>6, <2>2, <4>1
      <3> QED
        BY <1>1, <1>2, <2>2, <2>3, <3>1 DEF TypeInv
    <2>5. call'.gpa .. call'.gpa + call'.npages - 1
            \subseteq call.gpa .. call.gpa + call.npages - 1
      BY <1>2, <2>2, CallFields DEF Pages
    <2>6. PhaseInv' /\ CallInv'
      BY <1>1, <1>2, <2>1, <2>2, <2>5 DEF PhaseInv, CallInv
    <2> QED
      BY <2>4, <2>6
  <1>7. CASE ~(call.npages > 1)
    <2>1. call' = Idle /\ phase' = IF phase = "init" THEN "setup" ELSE "run"
      BY <1>7 DEF map_gva_leaf
    <2>2. GpaPages # 0 /\ call' \in CallType /\ call'.at = "idle"
      BY <1>2, <2>1, IdleType, Sizes DEF TypeInv, Idle, Pages
    <2>3. TypeOK'
      BY <1>1, <1>4, <1>5, <2>1, <2>2, CallFields DEF TypeInv, TypeOK
    <2>4. TypeInv' /\ CallInv'
      BY <2>2, <2>3 DEF TypeInv, CallInv
    <2>5. PhaseInv'
      BY <1>1, <1>2, <2>1, <2>2 DEF PhaseInv
    <2> QED
      BY <2>4, <2>5
  <1> QED
    BY <1>6, <1>7

LEMMA BaseLoad ==
  ASSUME Base, NEW npages \in 1 .. MaxImage, load_mach_obj(npages)
  PROVE  Base'
  <1> USE DEF Base
  <1>1. /\ phase = "load" /\ FreeRange(LoadPage, npages)
        /\ phys' = phys \cup LoadedPages(npages)
        /\ call' = Called(LoadPage, npages, LoadPage)
        /\ UNCHANGED <<pml4, phase, mapped, faults>>
    BY DEF load_mach_obj
  <1>2. PICK c \in Fresh : mem' = Filled(LoadedPages(npages), c)
    BY DEF load_mach_obj
  <1>3. LoadedPages(npages) \subseteq Pages
    BY Sizes DEF LoadedPages, Pages
  <1>4. mem' \in [phys' -> [Slots -> Entry]]
    BY <1>1, <1>2, <1>3, FilledType DEF TypeInv
  <1>5. /\ call' \in CallType /\ call'.at = "root" /\ call'.gva = LoadPage
        /\ call'.gpa = LoadPage /\ call'.npages = npages
    <2>1. /\ LoadPage \in Gvas /\ LoadPage \in Pages
          /\ npages \in 0 .. InitPages + MaxImage
      BY Sizes DEF Pages
    <2> QED
      BY <1>1, <2>1, CallStarts
  <1>6. TypeOK'
    BY <1>1, <1>3, <1>4, <1>5, CallFields DEF TypeInv, TypeOK
  <1>7. TypeInv'
    BY <1>5, <1>6, Sizes DEF TypeInv
  <1>8. PhaseInv' /\ CallInv'
    BY <1>1, <1>5 DEF PhaseInv, CallInv, LoadedPages
  <1> QED
    BY <1>7, <1>8

(* The steps that only move main on, or give up.                           *)
LEMMA BaseRest ==
  ASSUME Base,
         \/ vm_mem_init_fails \/ map_gva_root_fails \/ load_mach_obj_fails
         \/ vcpu_setup_ia32 \/ UNCHANGED vars
  PROVE  Base'
  <1> USE DEF Base
  <1>1. CASE vm_mem_init_fails \/ load_mach_obj_fails
    <2>1. UNCHANGED <<phys, mem, pml4, call, mapped, faults>> /\ phase' = "failed"
      BY <1>1 DEF vm_mem_init_fails, load_mach_obj_fails
    <2>2. call.at = "idle"
      BY <1>1 DEF vm_mem_init_fails, load_mach_obj_fails, PhaseInv
    <2> QED
      BY <2>1, <2>2 DEF TypeInv, TypeOK, PhaseInv, CallInv
  <1>2. CASE map_gva_root_fails
    <2>1. /\ UNCHANGED <<phys, mem, pml4, mapped, faults>> /\ phase' = "failed"
          /\ call' = Idle /\ call.at = "root"
      BY <1>2 DEF map_gva_root_fails
    <2>2. call'.at = "idle" /\ call' \in CallType
      BY <2>1, IdleType, Sizes, CallFields DEF TypeInv, Idle, Pages
    <2>3. TypeOK'
      BY <2>1, <2>2, CallFields DEF TypeInv, TypeOK
    <2> QED
      BY <2>1, <2>2, <2>3 DEF TypeInv, PhaseInv, CallInv
  <1>3. CASE vcpu_setup_ia32
    <2>1. /\ UNCHANGED <<phys, pml4, call, mapped, faults>> /\ phase' = "load"
          /\ mem' = [mem EXCEPT ![0] = Gdt] /\ phase = "setup"
      BY <1>3 DEF vcpu_setup_ia32
    <2>2. mem' \in [phys -> [Slots -> Entry]]
      BY <2>1, PagingAssumption DEF TypeInv, TypeOK
    <2> QED
      BY <2>1, <2>2 DEF TypeInv, TypeOK, PhaseInv, CallInv
  <1>4. CASE UNCHANGED vars
    BY <1>4 DEF vars, TypeInv, TypeOK, PhaseInv, CallInv
  <1> QED
    BY <1>1, <1>2, <1>3, <1>4

LEMMA BaseStep == Base /\ [Next]_vars => Base'
  BY BaseInit, BaseRoot, BaseDescend, BaseLeaf, BaseLoad, BaseRest
  DEF Next, Host, Over

-----------------------------------------------------------------------------
(* The tree.                                                               *)

(* Whatever else happens to memory, tables that are not touched stand.     *)
LEMMA TablesStand ==
  ASSUME NEW tree \in TreeType, Holds(tree), phys \subseteq phys',
         UNCHANGED pml4,
         \A l \in 1 .. 4, b \in Nat :
            tree[l][b] # None => mem'[tree[l][b]] = mem[tree[l][b]]
  PROVE  Holds(tree)'
  <1>1. /\ tree[4][0] = pml4'
        /\ \A b \in Nat : b # 0 => tree[4][b] = None
        /\ \A l \in 0 .. 4, b \in Nat : tree[l][b] \in phys' \cup {None}
    BY DEF Holds
  <1>2. \A l, k \in 1 .. 4, b, c \in Nat :
          tree[l][b] = tree[k][c] /\ tree[l][b] # None => l = k /\ b = c
    BY DEF Holds
  <1>3. \A l \in 1 .. 4, b \in Nat, s \in Slots :
          IF tree[l][b] = None THEN tree[l - 1][Child(b, s)] = None
          ELSE mem'[tree[l][b]][s] = EntryFor(tree[l - 1][Child(b, s)])
    BY DEF Holds
  <1> QED
    BY <1>1, <1>2, <1>3 DEF Holds

LEMMA TreeRoot == PInv /\ map_gva_root => TreeInv'
  <1> SUFFICES ASSUME PInv, map_gva_root, faults' = 0
               PROVE  \E tree \in TreeType : Built(tree)'
    BY DEF TreeInv
  <1> USE DEF PInv
  <1>1. call.at = "root" /\ UNCHANGED <<phase, mapped>>
    BY DEF map_gva_root
  <1>2. CASE /\ pml4 # None
             /\ call' = [call EXCEPT !.at = "walk", !.level = 4, !.table = pml4]
             /\ UNCHANGED <<phys, mem, pml4, faults>>
    <2>1. PICK tree \in TreeType : Built(tree)
      BY <1>2 DEF TreeInv
    <2>2. Holds(tree)'
      BY <1>2, <2>1, TablesStand DEF Built
    <2>3. Translates(tree)'
      BY <1>1, <2>1 DEF Built, Translates
    <2>4. /\ call'.at = "walk" /\ call'.level = 4 /\ call'.table = pml4
          /\ call'.gva = call.gva /\ call'.gpa = call.gpa
          /\ call'.npages = call.npages
      <3>1. pml4 \in 0 .. AddrPages - 1 /\ call \in CallType
        BY <1>2, EntryFacts DEF TypeInv, TypeOK
      <3> QED
        BY <1>2, <3>1, CallMoves
    <2>5. Apart(tree)'
      BY <1>1, <2>1, <2>4 DEF Built, Apart
    <2>6. OnPath(tree)'
      BY <1>2, <2>1, <2>4, PathEnds DEF Built, Holds, OnPath, Prefix
    <2> QED
      BY <2>2, <2>3, <2>5, <2>6 DEF Built
  <1>3. ASSUME pml4 = None, NEW page \in Pages, NEW c \in Fresh,
               vm_mem_alloc(page, 1), phys' = phys \cup {page},
               mem' = Filled({page}, c), pml4' = page, NewTable(c),
               call' = [call EXCEPT !.at = "walk", !.level = 4, !.table = page]
        PROVE  \E tree \in TreeType : Built(tree)'
    <2> DEFINE tree == [l \in 0 .. 4 |-> [b \in Nat |->
                          IF l = 4 /\ b = 0 THEN page ELSE None]]
    <2>1. tree \in TreeType
      BY DEF TreeType
    <2>2. page \notin phys /\ page # None
      BY <1>3, NewPage DEF Pages, None
    <2>3. \A s \in Slots : mem'[page][s] = Zero
      <3>1. \A s \in Slots : c[s] = Zero
        BY <1>3 DEF TypeInv, TypeOK, NewTable, Fault
      <3> QED
        BY <1>3, <3>1 DEF Filled
    <2>4. /\ \A l \in 0 .. 4, b \in Nat : tree[l][b] =
               IF l = 4 /\ b = 0 THEN page ELSE None
      OBVIOUS
    <2>5. \A b \in Nat, s \in Slots : Child(b, s) \in Nat
      BY ChildUnique
    <2> HIDE DEF tree
    <2>6. Holds(tree)'
      <3>1. \A l, k \in 1 .. 4, b, d \in Nat :
              tree[l][b] = tree[k][d] /\ tree[l][b] # None => l = k /\ b = d
        BY <2>4
      <3>2. \A l \in 1 .. 4, b \in Nat, s \in Slots :
              tree[l - 1][Child(b, s)] = None
        BY <2>4, <2>5
      <3>3. \A l \in 1 .. 4, b \in Nat, s \in Slots :
              IF tree[l][b] = None THEN tree[l - 1][Child(b, s)] = None
              ELSE mem'[tree[l][b]][s] = EntryFor(tree[l - 1][Child(b, s)])
        BY <2>3, <2>4, <3>2 DEF EntryFor
      <3>4. /\ tree[4][0] = pml4'
            /\ \A b \in Nat : b # 0 => tree[4][b] = None
            /\ \A l \in 0 .. 4, b \in Nat : tree[l][b] \in phys' \cup {None}
        BY <1>3, <2>4
      <3> QED
        BY <3>1, <3>3, <3>4 DEF Holds
    <2>7. Translates(tree)'
      BY <1>1, <1>3, <2>4 DEF Translates, PhaseInv
    <2>8. /\ call'.at = "walk" /\ call'.level = 4 /\ call'.table = page
          /\ call'.gva = call.gva /\ call'.gpa = call.gpa
          /\ call'.npages = call.npages
      <3>1. page \in 0 .. AddrPages - 1 /\ call \in CallType
        BY EntryFacts DEF TypeInv, TypeOK
      <3> QED
        BY <1>3, <3>1, CallMoves
    <2>9. Apart(tree)'
      BY <1>1, <2>2, <2>4, <2>8 DEF Apart, CallInv, PhaseInv
    <2>10. OnPath(tree)'
      BY <2>2, <2>4, <2>8 DEF OnPath, Prefix
    <2> QED
      BY <2>1, <2>6, <2>7, <2>9, <2>10 DEF Built
  <1> QED
    BY <1>2, <1>3 DEF map_gva_root

(* A step that changes no table, no translation and no call.               *)
LEMMA TreeKept ==
  ASSUME PInv, faults' = 0 => faults = 0, UNCHANGED <<pml4, mapped>>,
         phys \subseteq phys',
         \A p \in phys : p # 0 => mem'[p] = mem[p],
         \/ UNCHANGED call
         \/ call'.at = "idle"
         \/ /\ call'.at = "root"
            /\ (call'.gpa .. call'.gpa + call'.npages - 1) \cap phys = {}
  PROVE  TreeInv'
  <1> SUFFICES ASSUME faults' = 0, pml4' # None
               PROVE  \E tree \in TreeType : Built(tree)'
    BY DEF TreeInv
  <1>1. PICK tree \in TreeType : Built(tree)
    BY DEF PInv, TreeInv
  <1>2. \A l \in 1 .. 4, b \in Nat :
          tree[l][b] # None => mem'[tree[l][b]] = mem[tree[l][b]]
    BY <1>1 DEF Built, Holds, Apart
  <1>3. Holds(tree)'
    BY <1>1, <1>2, TablesStand DEF Built
  <1>4. Translates(tree)'
    BY <1>1 DEF Built, Translates
  <1>5. Apart(tree)'
    <2> SUFFICES ASSUME NEW l \in 1 .. 4, NEW b \in Nat, tree[l][b] # None
                 PROVE  /\ \A g \in Nat : tree[0][g] # tree[l][b]
                        /\ tree[l][b] # 0
                        /\ call'.at # "idle" => tree[l][b] \notin
                             call'.gpa .. call'.gpa + call'.npages - 1
      BY DEF Apart
    <2>1. (\A g \in Nat : tree[0][g] # tree[l][b]) /\ tree[l][b] # 0
      BY <1>1 DEF Built, Apart
    <2>2. tree[l][b] \in phys
      BY <1>1 DEF Built, Holds
    <2>3. call'.at # "idle" => tree[l][b] \notin
                             call'.gpa .. call'.gpa + call'.npages - 1
      BY <1>1, <2>2 DEF Built, Apart
    <2> QED
      BY <2>1, <2>3
  <1>6. OnPath(tree)'
    BY <1>1 DEF Built, OnPath
  <1> QED
    BY <1>3, <1>4, <1>5, <1>6 DEF Built

LEMMA EntryKinds ==
  /\ \A page : TableEntry(page) # Zero /\ TableEntry(page).ppn = page
  /\ \A page : EntryFor(page) = Zero <=> page = None
  BY DEF TableEntry, Zero, EntryFor

(* What the walk in progress reads.                                        *)
LEMMA WalkReads ==
  ASSUME PInv, faults = 0, call.at = "walk", NEW tree \in TreeType, Built(tree)
  PROVE  LET b == Prefix(call.gva, call.level)
             k == Prefix(call.gva, call.level - 1)
         IN  /\ b \in Nat /\ k \in Nat /\ k = Child(b, Slot)
             /\ call.table = tree[call.level][b] /\ call.table \in phys
             /\ call.table # None
             /\ mem[call.table][Slot] = EntryFor(tree[call.level - 1][k])
  <1>1. call.level \in 1 .. 4 /\ call.gva \in Gvas /\ Slot \in Slots
    BY CallSlot DEF PInv
  <1> DEFINE b == Prefix(call.gva, call.level)
             k == Prefix(call.gva, call.level - 1)
  <1>2. b \in Nat /\ k = Child(b, Slot) /\ k \in Nat
    <2>1. b \in Nat /\ k = Child(b, Slot)
      BY <1>1, PathStep, Zenon DEF Slot
    <2> HIDE DEF b, k
    <2> QED
      BY <1>1, <2>1, ChildUnique
  <1> HIDE DEF b, k
  <1>3. call.table = tree[call.level][b] /\ call.table # None
    BY DEF Built, OnPath, b
  <1>4. call.table \in phys
    BY <1>1, <1>2, <1>3 DEF Built, Holds
  <1>5. mem[call.table][Slot] = EntryFor(tree[call.level - 1][k])
    BY <1>1, <1>2, <1>3 DEF Built, Holds
  <1> QED
    BY <1>2, <1>3, <1>4, <1>5 DEF b, k

(* The table below is there already: the entry is written back as it was.  *)
LEMMA TreeTaken ==
  ASSUME PInv, faults = 0, call.at = "walk", call.level > 1, UNCHANGED <<phys, faults>>,
         UNCHANGED <<pml4, phase, mapped>>,
         NEW e \in EntryRead, e # Zero,
         mem' = vm_mem_write(mem, call.table, Slot, TableEntry(e.ppn)),
         call' = Descend(e.ppn)
  PROVE  TreeInv'
  <1> SUFFICES ASSUME pml4' # None
               PROVE  \E tree \in TreeType : Built(tree)'
    BY DEF TreeInv
  <1>1. PICK tree \in TreeType : Built(tree)
    BY DEF PInv, TreeInv
  <1> DEFINE b == Prefix(call.gva, call.level)
             k == Prefix(call.gva, call.level - 1)
             q == tree[call.level - 1][k]
  <1>2. /\ b \in Nat /\ k \in Nat /\ k = Child(b, Slot)
        /\ call.table = tree[call.level][b] /\ call.table \in phys
        /\ mem[call.table][Slot] = EntryFor(q)
    BY <1>1, WalkReads
  <1>3. call.level \in 1 .. 4 /\ call.gva \in Gvas /\ Slot \in Slots
    BY CallSlot DEF PInv
  <1>4. e = EntryFor(q)
    BY <1>2 DEF EntryRead, vm_mem_read
  <1>5. q # None /\ e = TableEntry(q) /\ e.ppn = q
    BY <1>4, EntryKinds DEF EntryFor
  <1>6. mem' = mem
    BY <1>2, <1>3, <1>4, <1>5 DEF vm_mem_write, PInv, TypeInv, TypeOK
  <1>7. Holds(tree)' /\ Translates(tree)'
    BY <1>1, <1>6, TablesStand DEF Built, Translates
  <1>8. /\ call'.at = "walk" /\ call'.level = call.level - 1
        /\ call'.table = q /\ call'.gva = call.gva /\ call'.gpa = call.gpa
        /\ call'.npages = call.npages
    <2>1. q \in 0 .. AddrPages - 1 /\ call \in CallType /\ call.level >= 1
      <3>1. q \in Pages
        BY <1>2, <1>3, <1>5 DEF TreeType
      <3> QED
        BY <1>3, <3>1, EntryFacts DEF PInv, TypeInv
    <2>2. call' = Descend(q)
      BY <1>5
    <2> QED
      BY <2>1, <2>2, DescendFields, Zenon
  <1>9. Apart(tree)'
    BY <1>1, <1>8 DEF Built, Apart
  <1>10. OnPath(tree)'
    BY <1>5, <1>8 DEF OnPath
  <1> QED
    BY <1>7, <1>9, <1>10 DEF Built

(* A new table is entered below the one the walk stands at.                *)
LEMMA TreeGrows ==
  ASSUME PInv, faults = 0, call.at = "walk", call.level > 1,
         UNCHANGED <<pml4, phase, mapped>>,
         Zero \in EntryRead,
         NEW page \in Pages, NEW c \in Fresh, vm_mem_alloc(page, 1),
         phys' = phys \cup {page},
         mem' = vm_mem_write(Filled({page}, c), call.table, Slot, TableEntry(page)),
         call' = Descend(page), NewTable(c)
  PROVE  TreeInv'
  <1> SUFFICES ASSUME faults' = 0, pml4' # None
               PROVE  \E tree \in TreeType : Built(tree)'
    BY DEF TreeInv
  <1>1. PICK tree \in TreeType : Built(tree)
    BY DEF PInv, TreeInv
  <1> DEFINE n == call.level - 1
             b == Prefix(call.gva, call.level)
             k == Prefix(call.gva, n)
             t == call.table
  <1>2. /\ b \in Nat /\ k \in Nat /\ k = Child(b, Slot)
        /\ t = tree[call.level][b] /\ t \in phys /\ t # None
        /\ mem[t][Slot] = EntryFor(tree[n][k])
    BY <1>1, WalkReads
  <1>3. call.level \in 2 .. 4 /\ n \in 1 .. 3 /\ Slot \in Slots
        /\ n = call.level - 1
    BY CallSlot DEF PInv
  <1>4. tree[n][k] = None
    <2>1. Zero = mem[t][Slot]
      BY <1>2 DEF EntryRead, vm_mem_read
    <2> QED
      BY <1>2, <2>1, EntryKinds
  <1>5. page \notin phys /\ page # None /\ page # t
    BY <1>2, NewPage DEF Pages, None
  <1>6. \A s \in Slots : c[s] = Zero
    BY DEF PInv, TypeInv, TypeOK, NewTable, Fault
  <1>7. /\ \A s \in Slots : mem'[page][s] = Zero
        /\ mem'[t][Slot] = TableEntry(page)
        /\ \A s \in Slots : s # Slot => mem'[t][s] = mem[t][s]
        /\ \A p \in phys : p # t => mem'[p] = mem[p]
    <2>1. Filled({page}, c) \in [phys' -> [Slots -> Entry]]
      BY FilledType DEF PInv, TypeInv
    <2>2. /\ Filled({page}, c)[page] = c
          /\ \A p \in phys : Filled({page}, c)[p] = mem[p]
      BY <1>5 DEF Filled
    <2>3. mem' = [Filled({page}, c) EXCEPT ![t][Slot] = TableEntry(page)]
      BY <1>2, <2>1 DEF vm_mem_write
    <2> DEFINE m == Filled({page}, c)
    <2> HIDE DEF m
    <2>4. /\ page \in phys' /\ t \in phys' /\ phys \subseteq phys'
          /\ m \in [phys' -> [Slots -> Entry]] /\ m[page] = c /\ m[t] = mem[t]
          /\ mem' = [m EXCEPT ![t][Slot] = TableEntry(page)]
          /\ \A p \in phys : m[p] = mem[p]
      BY <1>2, <2>1, <2>2, <2>3 DEF m
    <2>5. \A p \in phys' : p # t => mem'[p] = m[p]
      BY <2>4
    <2>6. mem'[t] = [m[t] EXCEPT ![Slot] = TableEntry(page)]
      BY <2>4
    <2>7. m[t] \in [Slots -> Entry]
      BY <2>4
    <2>8. /\ mem'[t][Slot] = TableEntry(page)
          /\ \A s \in Slots : s # Slot => mem'[t][s] = mem[t][s]
      <3>1. DOMAIN m[t] = Slots
        BY <2>7
      <3> QED
        BY <1>3, <2>4, <2>6, <3>1, Zenon
    <2> QED
      BY <1>5, <1>6, <2>4, <2>5, <2>8
  <1>9. PICK grown \in TreeType : \A l \in 0 .. 4, d \in Nat :
          grown[l][d] = IF l = n /\ d = k THEN page ELSE tree[l][d]
    <2> DEFINE new == [l \in 0 .. 4 |-> [d \in Nat |->
                         IF l = n /\ d = k THEN page ELSE tree[l][d]]]
    <2>1. new \in TreeType
      BY DEF TreeType
    <2>2. \A l \in 0 .. 4, d \in Nat :
            new[l][d] = IF l = n /\ d = k THEN page ELSE tree[l][d]
      OBVIOUS
    <2> HIDE DEF new, n, k
    <2> QED
      BY <2>1, <2>2
  <1> HIDE DEF n, b, k, t
  <1>10. Holds(grown)'
    <2>1. /\ grown[4][0] = pml4'
          /\ \A d \in Nat : d # 0 => grown[4][d] = None
          /\ \A l \in 0 .. 4, d \in Nat : grown[l][d] \in phys' \cup {None}
      BY <1>1, <1>3, <1>9 DEF Built, Holds
    <2>2. \A l, m \in 1 .. 4, d, f \in Nat :
            grown[l][d] = grown[m][f] /\ grown[l][d] # None => l = m /\ d = f
      <3>1. \A l \in 0 .. 4, d \in Nat : tree[l][d] # page
        BY <1>1, <1>5 DEF Built, Holds
      <3>2. \A l, m \in 1 .. 4, d, f \in Nat :
              tree[l][d] = tree[m][f] /\ tree[l][d] # None => l = m /\ d = f
        BY <1>1 DEF Built, Holds
      <3> QED
        BY <1>9, <3>1, <3>2, SMTT(30)
    <2>3. ASSUME NEW l \in 1 .. 4, NEW d \in Nat, NEW s \in Slots
          PROVE  IF grown[l][d] = None THEN grown[l - 1][Child(d, s)] = None
                 ELSE mem'[grown[l][d]][s] = EntryFor(grown[l - 1][Child(d, s)])
      <3>1. l - 1 \in 0 .. 4 /\ Child(d, s) \in Nat
        BY ChildUnique
      <3>2. IF tree[l][d] = None THEN tree[l - 1][Child(d, s)] = None
            ELSE mem[tree[l][d]][s] = EntryFor(tree[l - 1][Child(d, s)])
        BY <1>1 DEF Built, Holds
      <3>3. CASE l = n /\ d = k
        <4>1. grown[l][d] = page /\ tree[l][d] = None
          BY <1>4, <1>9, <3>3
        <4>2. grown[l - 1][Child(d, s)] = None
          BY <1>3, <1>9, <3>1, <3>2, <3>3, <4>1
        <4> QED
          BY <1>5, <1>7, <4>1, <4>2 DEF EntryFor
      <3>4. CASE l = call.level /\ d = b
        <4>1. grown[l][d] = t
          BY <1>2, <1>3, <1>9, <3>4
        <4>2. CASE s = Slot
          <5>1. grown[l - 1][Child(d, s)] = page
            BY <1>2, <1>3, <1>9, <3>1, <3>4, <4>2
          <5> QED
            BY <1>2, <1>5, <1>7, <4>1, <4>2, <5>1 DEF EntryFor
        <4>3. CASE s # Slot
          <5>1. Child(d, s) # k
            BY <1>2, <1>3, <3>4, <4>3, ChildUnique
          <5>2. grown[l - 1][Child(d, s)] = tree[l - 1][Child(d, s)]
            BY <1>9, <3>1, <5>1
          <5> QED
            BY <1>2, <1>7, <3>2, <3>4, <4>1, <4>3, <5>2
        <4> QED
          BY <4>2, <4>3
      <3>5. CASE ~(l = n /\ d = k) /\ ~(l = call.level /\ d = b)
        <4>1. grown[l][d] = tree[l][d]
          BY <1>9, <3>5
        <4>2. ~(l - 1 = n /\ Child(d, s) = k)
          BY <1>2, <1>3, <3>5, ChildUnique
        <4>3. grown[l - 1][Child(d, s)] = tree[l - 1][Child(d, s)]
          BY <1>9, <3>1, <4>2
        <4>4. tree[l][d] # None => tree[l][d] # t /\ tree[l][d] \in phys
          BY <1>1, <1>2, <1>3, <3>5 DEF Built, Holds
        <4> QED
          BY <1>7, <3>2, <4>1, <4>3, <4>4
      <3> QED
        BY <3>3, <3>4, <3>5
    <2> QED
      BY <2>1, <2>2, <2>3 DEF Holds
  <1>11. Translates(grown)'
    BY <1>1, <1>3, <1>9 DEF Built, Translates
  <1>12. /\ call'.at = "walk" /\ call'.level = n
         /\ call'.table = page /\ call'.gva = call.gva /\ call'.gpa = call.gpa
         /\ call'.npages = call.npages
    <2>1. page \in 0 .. AddrPages - 1 /\ call \in CallType /\ call.level >= 1
      BY <1>3, EntryFacts DEF PInv, TypeInv
    <2> QED
      BY <1>3, <2>1, DescendFields, Zenon
  <1>13. Apart(grown)'
    <2> SUFFICES ASSUME NEW l \in 1 .. 4, NEW d \in Nat, grown[l][d] # None
                 PROVE  /\ \A g \in Nat : grown[0][g] # grown[l][d]
                        /\ grown[l][d] # 0
                        /\ call'.at # "idle" => grown[l][d] \notin
                             call'.gpa .. call'.gpa + call'.npages - 1
      BY DEF Apart
    <2>1. \A g \in Nat : grown[0][g] = tree[0][g] /\ tree[0][g] # page
      BY <1>1, <1>3, <1>5, <1>9 DEF Built, Holds
    <2>2. page # 0 /\ page \notin call.gpa .. call.gpa + call.npages - 1
      BY <1>5 DEF PInv, PhaseInv, CallInv
    <2>3. CASE l = n /\ d = k
      BY <1>9, <1>12, <2>1, <2>2, <2>3
    <2>4. CASE ~(l = n /\ d = k)
      BY <1>1, <1>9, <1>12, <2>1, <2>4 DEF Built, Apart
    <2> QED
      BY <2>3, <2>4
  <1>14. OnPath(grown)'
    BY <1>2, <1>3, <1>5, <1>9, <1>12 DEF OnPath, k
  <1> QED
    BY <1>10, <1>11, <1>13, <1>14 DEF Built

(* The leaf entry of the page at hand.                                     *)
LEMMA TreeLeaf == PInv /\ map_gva_leaf => TreeInv'
  <1> SUFFICES ASSUME PInv, map_gva_leaf, faults' = 0
               PROVE  \E tree \in TreeType : Built(tree)'
    BY DEF TreeInv
  <1>1. /\ call.at = "walk" /\ call.level = 1 /\ UNCHANGED <<phys, pml4, faults>>
        /\ mem' = vm_mem_write(mem, call.table, Slot, TableEntry(call.gpa))
        /\ mapped' = [mapped EXCEPT ![call.gva] = call.gpa]
    BY DEF map_gva_leaf
  <1>2. /\ call \in CallType /\ pml4 # None /\ pml4 \in 0 .. AddrPages - 1
        /\ call.gva + call.npages <= Top /\ call.gpa + call.npages <= GpaPages
        /\ call.npages >= 1 /\ mem \in [phys -> [Slots -> Entry]]
    BY <1>1, EntryFacts DEF PInv, TypeInv, TypeOK
  <1>3. PICK tree \in TreeType : Built(tree)
    BY <1>1, <1>2 DEF PInv, TreeInv
  <1> DEFINE b == Prefix(call.gva, 1)
             g == call.gva
             gpa == call.gpa
             t == call.table
  <1>4. g \in Gvas /\ g \in Nat /\ Slot \in Slots /\ Prefix(g, 0) = g
    <2>1. g \in Gvas /\ Slot \in Slots
      BY <1>1, CallSlot DEF PInv
    <2> QED
      BY <2>1, PathEnds DEF Gvas
  <1>5. /\ b \in Nat /\ g = Child(b, Slot) /\ t = tree[1][b] /\ t \in phys
        /\ t # None
    <2>1. call.level - 1 = 0 /\ call.level = 1
      BY <1>1
    <2> QED
      BY <1>1, <1>3, <1>4, <2>1, WalkReads
  <1>6. /\ gpa \in Nat /\ gpa \in call.gpa .. call.gpa + call.npages - 1
        /\ gpa \in phys /\ gpa \in Pages /\ gpa # None
    <2>1. gpa \in Pages /\ gpa \in Nat /\ call.npages \in Nat /\ gpa # None
      BY <1>2, CallFields DEF Pages, None
    <2>2. gpa \in call.gpa .. call.gpa + call.npages - 1
      BY <1>2, <2>1
    <2> QED
      BY <1>1, <2>1, <2>2 DEF PInv, CallInv
  <1>7. PICK next \in TreeType : \A l \in 0 .. 4, d \in Nat :
          next[l][d] = IF l = 0 /\ d = g THEN gpa ELSE tree[l][d]
    <2> DEFINE new == [l \in 0 .. 4 |-> [d \in Nat |->
                         IF l = 0 /\ d = g THEN gpa ELSE tree[l][d]]]
    <2>1. new \in TreeType
      BY <1>6 DEF TreeType
    <2>2. \A l \in 0 .. 4, d \in Nat :
            new[l][d] = IF l = 0 /\ d = g THEN gpa ELSE tree[l][d]
      OBVIOUS
    <2> HIDE DEF new, g, gpa
    <2> QED
      BY <2>1, <2>2
  <1>8. /\ mem'[t][Slot] = TableEntry(gpa)
        /\ \A s \in Slots : s # Slot => mem'[t][s] = mem[t][s]
        /\ \A p \in phys : p # t => mem'[p] = mem[p]
    <2>1. mem' = [mem EXCEPT ![t][Slot] = TableEntry(gpa)]
      BY <1>1, <1>2, <1>5 DEF vm_mem_write
    <2>2. /\ mem'[t] = [mem[t] EXCEPT ![Slot] = TableEntry(gpa)]
          /\ \A p \in phys : p # t => mem'[p] = mem[p]
      BY <1>2, <1>5, <2>1
    <2>3. DOMAIN mem[t] = Slots
      BY <1>2, <1>5
    <2> QED
      BY <1>4, <2>2, <2>3, Zenon
  <1> HIDE DEF b, g, gpa, t
  <1>9. Holds(next)'
    <2>1. /\ next[4][0] = pml4'
          /\ \A d \in Nat : d # 0 => next[4][d] = None
          /\ \A l \in 0 .. 4, d \in Nat : next[l][d] \in phys' \cup {None}
      BY <1>1, <1>3, <1>6, <1>7 DEF Built, Holds
    <2>2. \A l, m \in 1 .. 4, d, f \in Nat :
            next[l][d] = next[m][f] /\ next[l][d] # None => l = m /\ d = f
      BY <1>3, <1>7 DEF Built, Holds
    <2>3. ASSUME NEW l \in 1 .. 4, NEW d \in Nat, NEW s \in Slots
          PROVE  IF next[l][d] = None THEN next[l - 1][Child(d, s)] = None
                 ELSE mem'[next[l][d]][s] = EntryFor(next[l - 1][Child(d, s)])
      <3>1. l - 1 \in 0 .. 4 /\ Child(d, s) \in Nat /\ next[l][d] = tree[l][d]
        BY <1>7, ChildUnique
      <3>2. IF tree[l][d] = None THEN tree[l - 1][Child(d, s)] = None
            ELSE mem[tree[l][d]][s] = EntryFor(tree[l - 1][Child(d, s)])
        BY <1>3 DEF Built, Holds
      <3>3. CASE l = 1 /\ d = b /\ s = Slot
        <4>1. next[l - 1][Child(d, s)] = gpa
          BY <1>4, <1>5, <1>7, <3>3
        <4> QED
          BY <1>5, <1>6, <1>8, <3>1, <3>3, <4>1 DEF EntryFor
      <3>4. CASE ~(l = 1 /\ d = b /\ s = Slot)
        <4>1. ~(l - 1 = 0 /\ Child(d, s) = g)
          <5>1. Child(d, s) = g => d = b /\ s = Slot
            <6>1. b \in Nat /\ Slot \in Slots /\ g = Child(b, Slot)
              BY <1>4, <1>5
            <6> QED
              BY <6>1, ChildUnique, Zenon
          <5>2. l - 1 = 0 => l = 1
            OBVIOUS
          <5> QED
            BY <3>4, <5>1, <5>2
        <4>2. next[l - 1][Child(d, s)] = tree[l - 1][Child(d, s)]
          BY <1>7, <3>1, <4>1
        <4>3. tree[l][d] # None => tree[l][d] \in phys
          BY <1>3 DEF Built, Holds
        <4>4. tree[l][d] = t => l = 1 /\ d = b
          BY <1>3, <1>5 DEF Built, Holds
        <4>5. tree[l][d] # None => mem'[tree[l][d]][s] = mem[tree[l][d]][s]
          BY <1>8, <3>4, <4>3, <4>4
        <4> QED
          BY <3>1, <3>2, <4>2, <4>5
      <3> QED
        BY <3>3, <3>4
    <2> QED
      BY <2>1, <2>2, <2>3 DEF Holds
  <1>10. Translates(next)'
    <2>1. mapped' = [mapped EXCEPT ![g] = gpa] /\ DOMAIN mapped = Gvas
      BY <1>1 DEF PInv, TypeInv, TypeOK, g, gpa
    <2> QED
      BY <1>3, <1>4, <1>7, <2>1 DEF Built, Translates
  <1>11. \/ call'.at = "idle"
         \/ /\ call'.at = "walk" /\ call'.level = 4 /\ call'.table = pml4
            /\ call'.gva \in Gvas
            /\ call'.gpa .. call'.gpa + call'.npages - 1
                 \subseteq call.gpa .. call.gpa + call.npages - 1
    <2>1. CASE call.npages > 1
      <3>1. call' = [call EXCEPT !.gva = @ + 1, !.gpa = @ + 1,
                                 !.npages = @ - 1, !.level = 4, !.table = pml4]
        BY <2>1 DEF map_gva_leaf
      <3>2. /\ call' \in CallType /\ call'.at = "walk" /\ call'.level = 4
            /\ call'.table = pml4 /\ call'.gpa = call.gpa + 1
            /\ call'.npages = call.npages - 1
        BY <1>1, <1>2, <2>1, <3>1, CallNext
      <3>3. call.gpa \in Nat /\ call.npages \in Nat
        BY <1>2, CallFields DEF Pages
      <3>4. call'.gpa .. call'.gpa + call'.npages - 1
              \subseteq call.gpa .. call.gpa + call.npages - 1
        BY <3>2, <3>3
      <3> QED
        BY <3>2, <3>4, CallFields
    <2>2. CASE ~(call.npages > 1)
      BY <2>2 DEF map_gva_leaf, Idle
    <2> QED
      BY <2>1, <2>2
  <1>12. Apart(next)'
    <2> SUFFICES ASSUME NEW l \in 1 .. 4, NEW d \in Nat, next[l][d] # None
                 PROVE  /\ \A f \in Nat : next[0][f] # next[l][d]
                        /\ next[l][d] # 0
                        /\ call'.at # "idle" => next[l][d] \notin
                             call'.gpa .. call'.gpa + call'.npages - 1
      BY DEF Apart
    <2>1. next[l][d] = tree[l][d]
      BY <1>7
    <2>2. /\ \A f \in Nat : tree[0][f] # tree[l][d]
          /\ tree[l][d] # 0
          /\ tree[l][d] \notin call.gpa .. call.gpa + call.npages - 1
      BY <1>1, <1>3, <2>1 DEF Built, Apart
    <2>3. \A f \in Nat : next[0][f] # next[l][d]
      BY <1>6, <1>7, <2>1, <2>2
    <2> QED
      BY <1>11, <2>1, <2>2, <2>3
  <1>13. OnPath(next)'
    BY <1>1, <1>2, <1>9, <1>11 DEF OnPath, Prefix, Holds
  <1> QED
    BY <1>9, <1>10, <1>12, <1>13 DEF Built

LEMMA TreeDescend == PInv /\ map_gva_descend => TreeInv'
  <1> SUFFICES ASSUME PInv, map_gva_descend, faults' = 0
               PROVE  TreeInv'
    BY DEF TreeInv
  <1>1. call.at = "walk" /\ call.level > 1 /\ UNCHANGED <<pml4, phase, mapped>>
    BY DEF map_gva_descend
  <1>2. ASSUME NEW e \in EntryRead, e # Zero, UNCHANGED <<phys, faults>>,
               mem' = vm_mem_write(mem, call.table, Slot, TableEntry(e.ppn)),
               call' = Descend(e.ppn)
        PROVE  TreeInv'
    BY <1>1, <1>2, TreeTaken
  <1>3. ASSUME Zero \in EntryRead, NEW page \in Pages, NEW c \in Fresh,
               vm_mem_alloc(page, 1), phys' = phys \cup {page},
               mem' = vm_mem_write(Filled({page}, c), call.table, Slot,
                                   TableEntry(page)),
               call' = Descend(page), NewTable(c)
        PROVE  TreeInv'
    <2>1. faults = 0
      BY <1>3, NewFaults DEF PInv, TypeInv
    <2> QED
      BY <1>1, <1>3, <2>1, TreeGrows
  <1>4. ~Fault
    BY DEF Fault, PInv, TypeInv, TypeOK
  <1> QED
    BY <1>2, <1>3, <1>4, Zenon DEF map_gva_descend

LEMMA PStep == PInv /\ [Next]_vars => PInv'
  <1> SUFFICES ASSUME PInv, [Next]_vars PROVE PInv'
    OBVIOUS
  <1>1. Base'
    BY BaseStep DEF PInv, Base
  <1>2. TreeInv'
    <2>1. CASE vm_mem_init
      <3>1. UNCHANGED pml4 /\ pml4 = None
        BY <2>1 DEF vm_mem_init, PInv, PhaseInv
      <3> QED
        BY <3>1 DEF TreeInv
    <2>2. CASE \E npages \in 1 .. MaxImage : load_mach_obj(npages)
      <3>1. PICK npages \in 1 .. MaxImage : load_mach_obj(npages)
        BY <2>2
      <3>2. PICK c \in Fresh : mem' = Filled(LoadedPages(npages), c)
        BY <3>1 DEF load_mach_obj
      <3>3. /\ LoadedPages(npages) \cap phys = {}
            /\ phys' = phys \cup LoadedPages(npages)
            /\ call' = Called(LoadPage, npages, LoadPage)
            /\ UNCHANGED <<pml4, mapped, faults>>
        BY <3>1 DEF load_mach_obj, FreeRange, LoadedPages
      <3>4. \A p \in phys : mem'[p] = mem[p]
        BY <3>2, <3>3 DEF Filled
      <3>5. /\ call'.at = "root" /\ call'.gpa = LoadPage /\ call'.npages = npages
        <4>1. /\ LoadPage \in Gvas /\ LoadPage \in Pages
              /\ npages \in 0 .. InitPages + MaxImage
          BY Sizes DEF Pages
        <4> QED
          BY <3>3, <4>1, CallStarts
      <3>6. (call'.gpa .. call'.gpa + call'.npages - 1) \cap phys = {}
        BY <3>3, <3>5 DEF LoadedPages
      <3> QED
        BY <3>3, <3>4, <3>5, <3>6, TreeKept
    <2>3. CASE \/ vm_mem_init_fails \/ load_mach_obj_fails \/ map_gva_root_fails
               \/ vcpu_setup_ia32 \/ UNCHANGED vars
      <3>1. /\ UNCHANGED <<phys, pml4, mapped, faults>>
            /\ UNCHANGED call \/ call'.at = "idle"
        BY <2>3 DEF vm_mem_init_fails, load_mach_obj_fails, map_gva_root_fails,
                    vcpu_setup_ia32, vars, Idle
      <3>2. \A p \in phys : p # 0 => mem'[p] = mem[p]
        BY <2>3 DEF vm_mem_init_fails, load_mach_obj_fails, map_gva_root_fails,
                    vcpu_setup_ia32, vars, PInv, TypeInv, TypeOK
      <3> QED
        BY <3>1, <3>2, TreeKept
    <2> QED
      BY <2>1, <2>2, <2>3, TreeRoot, TreeDescend, TreeLeaf DEF Next, Host, Over
  <1> QED
    BY <1>1, <1>2 DEF PInv, Base

LEMMA PAlways == Spec => []PInv
  BY PInit, PStep, PTL DEF Spec

-----------------------------------------------------------------------------
(* What the tree says about the walks.                                     *)

(* One step of the processor's walk.                                       *)
Down(g, page, level) ==
  IF page \in phys
  THEN LET e == mem[page][decode_gva(g, level)]
       IN  IF Present(e) THEN e.ppn ELSE None
  ELSE None

LEMMA WalkIsDown ==
  ASSUME NEW root, NEW g
  PROVE  Walk(root, g) = Down(g, Down(g, Down(g, Down(g, root, 4), 3), 2), 1)
  BY DEF Walk, Down

LEMMA PresentEntries ==
  /\ ~Present(Zero)
  /\ \A page : Present(TableEntry(page)) /\ TableEntry(page).ppn = page
  BY DEF Present, Zero, TableEntry

(* The page at a level of the path of g.                                   *)
Node(tree, g, level) == tree[level][Prefix(g, level)]

LEMMA NodeFacts ==
  ASSUME TypeOK, NEW tree \in TreeType, Built(tree), NEW g \in Gvas,
         NEW level \in 1 .. 4
  PROVE  /\ Node(tree, g, level) \in phys \cup {None}
         /\ IF Node(tree, g, level) = None THEN Node(tree, g, level - 1) = None
            ELSE mem[Node(tree, g, level)][decode_gva(g, level)]
                   = EntryFor(Node(tree, g, level - 1))
  <1> DEFINE b == Prefix(g, level)
             s == decode_gva(g, level)
  <1>1. b \in Nat /\ s \in Slots /\ Prefix(g, level - 1) = Child(b, s)
    BY PathStep
  <1> HIDE DEF b, s
  <1>2. /\ tree[level][b] \in phys \cup {None}
        /\ IF tree[level][b] = None THEN tree[level - 1][Child(b, s)] = None
           ELSE mem[tree[level][b]][s] = EntryFor(tree[level - 1][Child(b, s)])
    BY <1>1 DEF Built, Holds
  <1> QED
    BY <1>1, <1>2, Zenon DEF Node, b, s

LEMMA DownIsNode ==
  ASSUME TypeOK, NEW tree \in TreeType, Built(tree), NEW g \in Gvas,
         NEW level \in 1 .. 4
  PROVE  Down(g, Node(tree, g, level), level) = Node(tree, g, level - 1)
  <1>1. None \notin phys
    BY DEF TypeOK, Pages, None
  <1>2. CASE Node(tree, g, level) = None
    BY <1>1, <1>2, NodeFacts DEF Down
  <1>3. CASE Node(tree, g, level) # None
    <2>1. /\ Node(tree, g, level) \in phys
          /\ mem[Node(tree, g, level)][decode_gva(g, level)]
                = EntryFor(Node(tree, g, level - 1))
      BY <1>3, NodeFacts
    <2> QED
      BY <2>1, PresentEntries DEF Down, EntryFor
  <1> QED
    BY <1>2, <1>3

(* The walk from the root goes down the path of g to its page.             *)
LEMMA WalkIsNode ==
  ASSUME TypeOK, NEW tree \in TreeType, Built(tree), NEW g \in Gvas
  PROVE  /\ Mmu(g) = Node(tree, g, 0) /\ Node(tree, g, 0) = mapped[g]
         /\ Node(tree, g, 4) = pml4
  <1>1. Node(tree, g, 4) = pml4
    BY PathEnds DEF Node, Built, Holds
  <1>2. Node(tree, g, 0) = mapped[g]
    BY PathEnds DEF Node, Built, Translates, Gvas
  <1>3. /\ Down(g, Node(tree, g, 4), 4) = Node(tree, g, 3)
        /\ Down(g, Node(tree, g, 3), 3) = Node(tree, g, 2)
        /\ Down(g, Node(tree, g, 2), 2) = Node(tree, g, 1)
        /\ Down(g, Node(tree, g, 1), 1) = Node(tree, g, 0)
    <2>1. /\ Down(g, Node(tree, g, 4), 4) = Node(tree, g, 4 - 1)
          /\ Down(g, Node(tree, g, 3), 3) = Node(tree, g, 3 - 1)
          /\ Down(g, Node(tree, g, 2), 2) = Node(tree, g, 2 - 1)
          /\ Down(g, Node(tree, g, 1), 1) = Node(tree, g, 1 - 1)
      BY DownIsNode
    <2> QED
      BY <2>1
  <1> QED
    BY <1>1, <1>2, <1>3, WalkIsDown, Zenon DEF Mmu

LEMMA TreeTranslates == PInv => TranslationMatches
  <1> SUFFICES ASSUME PInv, faults = 0, pml4 # None, NEW g \in Gvas
               PROVE  Mmu(g) = mapped[g]
    BY DEF TranslationMatches
  <1>1. PICK tree \in TreeType : Built(tree)
    BY DEF PInv, TreeInv
  <1> QED
    BY <1>1, WalkIsNode DEF PInv, TypeInv

LEMMA TreeHostWalk == PInv => HostWalkMatches
  <1> SUFFICES ASSUME PInv, faults = 0, pml4 # None, NEW g \in Gvas,
                      Mmu(g) # None
               PROVE  gva_to_gpa(g) = Mmu(g) /\ vm_mem_verify(g, 1)
    BY DEF HostWalkMatches
  <1>1. PICK tree \in TreeType : Built(tree)
    BY DEF PInv, TreeInv
  <1>2. TypeOK
    BY DEF PInv, TypeInv
  <1>3. Mmu(g) = Node(tree, g, 0) /\ Node(tree, g, 4) = pml4
    BY <1>1, <1>2, WalkIsNode
  <1>4. /\ Node(tree, g, 1) # None /\ Node(tree, g, 2) # None
        /\ Node(tree, g, 3) # None
    <2>1. \A l \in 1 .. 4 : Node(tree, g, l) = None => Node(tree, g, l - 1) = None
      BY <1>1, <1>2, NodeFacts
    <2>2. Node(tree, g, 1) # None
      BY <1>3, <2>1
    <2>3. Node(tree, g, 2) # None
      BY <2>1, <2>2
    <2> QED
      BY <2>1, <2>2, <2>3
  <1>5. ASSUME NEW l \in 1 .. 4, NEW old
        PROVE  Node(tree, g, l) # None /\ Node(tree, g, l - 1) # None =>
                 vm_mem_read(Node(tree, g, l), decode_gva(g, l), old).ppn
                   = Node(tree, g, l - 1)
    BY <1>1, <1>2, NodeFacts, PresentEntries DEF vm_mem_read, EntryFor
  <1> DEFINE e4 == vm_mem_read(pml4, decode_gva(g, 4), Zero)
             e3 == vm_mem_read(e4.ppn, decode_gva(g, 3), e4)
             e2 == vm_mem_read(e3.ppn, decode_gva(g, 2), e3)
             e1 == vm_mem_read(e2.ppn, decode_gva(g, 1), e2)
  <1>6. e4.ppn = Node(tree, g, 3)
    <2>1. vm_mem_read(Node(tree, g, 4), decode_gva(g, 4), Zero).ppn
            = Node(tree, g, 4 - 1)
      BY <1>3, <1>4, <1>5
    <2> QED
      BY <1>3, <2>1
  <1> HIDE DEF e4
  <1>7. e3.ppn = Node(tree, g, 2)
    <2>1. vm_mem_read(Node(tree, g, 3), decode_gva(g, 3), e4).ppn
            = Node(tree, g, 3 - 1)
      BY <1>4, <1>5
    <2> QED
      BY <1>6, <2>1
  <1> HIDE DEF e3
  <1>8. e2.ppn = Node(tree, g, 1)
    <2>1. vm_mem_read(Node(tree, g, 2), decode_gva(g, 2), e3).ppn
            = Node(tree, g, 2 - 1)
      BY <1>4, <1>5
    <2> QED
      BY <1>7, <2>1
  <1> HIDE DEF e2
  <1>9. e1.ppn = Node(tree, g, 0)
    <2>1. vm_mem_read(Node(tree, g, 1), decode_gva(g, 1), e2).ppn
            = Node(tree, g, 1 - 1)
      BY <1>3, <1>4, <1>5
    <2> QED
      BY <1>8, <2>1
  <1>10. gva_to_gpa(g) = Node(tree, g, 0)
    BY <1>9 DEF gva_to_gpa, e1, e2, e3, e4
  <1>11. Node(tree, g, 0) \in phys
    <2>1. Prefix(g, 0) \in Nat
      BY PathEnds DEF Gvas
    <2> QED
      BY <1>1, <1>3, <2>1 DEF Built, Holds, Node
  <1>12. g .. g + 1 - 1 = {g}
    BY DEF Gvas
  <1> QED
    BY <1>3, <1>10, <1>11, <1>12 DEF vm_mem_verify

LEMMA TreePrivate == PInv => TablesPrivate
  <1> SUFFICES ASSUME PInv, faults = 0, pml4 # None, NEW g \in Gvas
               PROVE  Mmu(g) \notin Tables
    BY DEF TablesPrivate
  <1>1. PICK tree \in TreeType : Built(tree)
    BY DEF PInv, TreeInv
  <1> DEFINE At(l) == {tree[l][b] : b \in Nat} \ {None}
  <1>2. ASSUME NEW l \in 2 .. 4, NEW S, S \subseteq At(l)
        PROVE  Targets(S) \subseteq At(l - 1)
    <2> SUFFICES ASSUME NEW p \in S \cap phys, NEW s \in Slots,
                        Present(mem[p][s])
                 PROVE  mem[p][s].ppn \in At(l - 1)
      BY DEF Targets
    <2>1. PICK b \in Nat : p = tree[l][b] /\ p # None
      BY <1>2
    <2>2. mem[p][s] = EntryFor(tree[l - 1][Child(b, s)]) /\ Child(b, s) \in Nat
      BY <1>1, <2>1, ChildUnique DEF Built, Holds
    <2> QED
      BY <2>2, PresentEntries DEF EntryFor
  <1>3. {pml4} \subseteq At(4)
    BY <1>1 DEF Built, Holds
  <1> DEFINE t3 == Targets({pml4})
             t2 == Targets(t3)
             t1 == Targets(t2)
  <1>4. t3 \subseteq At(3)
    BY <1>2, <1>3
  <1> HIDE DEF t3
  <1>5. t2 \subseteq At(2)
    BY <1>2, <1>4
  <1> HIDE DEF t2
  <1>6. t1 \subseteq At(1)
    BY <1>2, <1>5
  <1>7. Tables = {pml4} \cup t3 \cup t2 \cup t1
    BY DEF Tables, t3, t2
  <1> HIDE DEF t1
  <1>8. Tables \subseteq At(1) \cup At(2) \cup At(3) \cup At(4)
    BY <1>3, <1>4, <1>5, <1>6, <1>7
  <1>9. Mmu(g) = tree[0][g] /\ g \in Nat
    BY <1>1, WalkIsNode, PathEnds DEF PInv, TypeInv, Node, Gvas
  <1> QED
    BY <1>1, <1>8, <1>9 DEF Built, Apart

-----------------------------------------------------------------------------

(* Every variable of the set-up keeps its type: map_gva's cursor stays     *)
(* within the tables and within guest-physical memory, failed allocations  *)
(* and uninitialized words included.                                       *)
THEOREM PagingTypes == Spec => []TypeOK
  <1>1. PInv => TypeOK
    BY DEF PInv, TypeInv
  <1> QED
    BY <1>1, PAlways, PTL

(* The processor translates exactly what map_gva has mapped, at every step *)
(* of every call.                                                          *)
THEOREM PagingTranslates == Spec => []TranslationMatches
  BY TreeTranslates, PAlways, PTL

(* gva_to_gpa and vm_mem_verify agree with the processor.                  *)
THEOREM HostWalkAgrees == Spec => []HostWalkMatches
  BY TreeHostWalk, PAlways, PTL

(* No guest-virtual address leads to a page table.                         *)
THEOREM TablesAreNotMapped == Spec => []TablesPrivate
  BY TreePrivate, PAlways, PTL

-----------------------------------------------------------------------------
(* The order of main's phases.                                             *)
PhaseRank == [start |-> 0, init |-> 1, setup |-> 2, load |-> 3,
              run |-> 4, failed |-> 4]

(* What a step of the set-up makes smaller: what is left of main, in one   *)
(* phase the call that is to come, in a call the pages to map, and for one *)
(* page the levels of tables above it.                                     *)
Smaller ==
  \/ PhaseRank[phase] < PhaseRank[phase']
  \/ /\ phase' = phase
     /\ \/ call.at = "idle" /\ call'.at = "root"
        \/ call.at = "root" /\ call'.at = "walk"
        \/ /\ call.at = "walk" /\ call'.at = "walk"
           /\ call'.npages \in Nat /\ call'.level \in Nat
           /\ \/ call'.npages < call.npages
              \/ call'.npages = call.npages /\ call'.level < call.level

LEMMA PhaseRanks ==
  /\ PhaseRank["start"] = 0 /\ PhaseRank["init"] = 1 /\ PhaseRank["setup"] = 2
  /\ PhaseRank["load"] = 3 /\ PhaseRank["run"] = 4 /\ PhaseRank["failed"] = 4
  BY DEF PhaseRank

LEMMA HostShrinks == Base /\ Host => Smaller
  <1> SUFFICES ASSUME Base, Host PROVE Smaller
    OBVIOUS
  <1>1. /\ call \in CallType /\ call.npages \in Nat /\ call.level \in Nat
        /\ call.at # "idle" => phase \in {"init", "load"}
    BY CallFields, Sizes DEF Base, TypeInv, PhaseInv
  <1>2. CASE vm_mem_init \/ vm_mem_init_fails \/ vcpu_setup_ia32
             \/ map_gva_root_fails \/ load_mach_obj_fails
    <2>1. \/ phase = "start" /\ phase' \in {"init", "failed"}
          \/ phase = "setup" /\ phase' = "load"
          \/ phase \in {"init", "load"} /\ phase' = "failed"
      BY <1>1, <1>2 DEF vm_mem_init, vm_mem_init_fails, vcpu_setup_ia32,
         map_gva_root_fails, load_mach_obj_fails
    <2>2. PhaseRank[phase] < PhaseRank[phase']
      BY <2>1, PhaseRanks
    <2> QED
      BY <2>2 DEF Smaller
  <1>3. CASE map_gva_root
    <2>1. call.at = "root" /\ phase' = phase
      BY <1>3 DEF map_gva_root
    <2>2. \E table : call' = [call EXCEPT !.at = "walk", !.level = 4, !.table = table]
      BY <1>3, Zenon DEF map_gva_root
    <2>3. call'.at = "walk"
      BY <1>1, <2>2 DEF CallType
    <2> QED
      BY <2>1, <2>3 DEF Smaller
  <1>4. CASE map_gva_descend
    <2>1. call.at = "walk" /\ call.level > 1 /\ phase' = phase
      BY <1>4 DEF map_gva_descend
    <2>2. \E page : call' = Descend(page)
      BY <1>4, Zenon DEF map_gva_descend
    <2>3. /\ call'.at = "walk" /\ call'.npages = call.npages
          /\ call'.level = call.level - 1
      BY <1>1, <2>1, <2>2 DEF CallType, Descend
    <2>4. call'.level \in Nat /\ call'.level < call.level
      BY <1>1, <2>1, <2>3
    <2> QED
      BY <1>1, <2>1, <2>3, <2>4, Zenon DEF Smaller
  <1>5. CASE map_gva_leaf
    <2>1. call.at = "walk" /\ phase \in {"init", "load"}
      BY <1>1, <1>5 DEF map_gva_leaf
    <2>2. CASE call.npages > 1
      <3>1. /\ call' = [call EXCEPT !.gva = @ + 1, !.gpa = @ + 1,
                                    !.npages = @ - 1, !.level = 4, !.table = pml4]
            /\ phase' = phase
        BY <1>5, <2>2 DEF map_gva_leaf
      <3>2. /\ call'.at = "walk" /\ call'.npages = call.npages - 1
            /\ call'.level = 4
        BY <1>1, <2>1, <3>1 DEF CallType
      <3>3. /\ call'.npages \in Nat /\ call'.npages < call.npages
            /\ call'.level \in Nat
        BY <1>1, <2>2, <3>2
      <3> QED
        BY <2>1, <3>1, <3>2, <3>3, Zenon DEF Smaller
    <2>3. CASE ~(call.npages > 1)
      <3>1. phase' = IF phase = "init" THEN "setup" ELSE "run"
        BY <1>5, <2>3 DEF map_gva_leaf
      <3>2. PhaseRank[phase] < PhaseRank[phase']
        BY <2>1, <3>1, PhaseRanks
      <3> QED
        BY <3>2 DEF Smaller
    <2> QED
      BY <2>2, <2>3
  <1>6. CASE \E npages \in 1 .. MaxImage : load_mach_obj(npages)
    <2>1. PICK npages \in 1 .. MaxImage : load_mach_obj(npages)
      BY <1>6
    <2>2. /\ call.at = "idle" /\ phase' = phase
          /\ call' = Called(LoadPage, npages, LoadPage)
      BY <2>1 DEF load_mach_obj
    <2>3. call'.at = "root"
      BY <2>2 DEF Called, Idle
    <2> QED
      BY <2>2, <2>3 DEF Smaller
  <1> QED
    BY <1>2, <1>3, <1>4, <1>5, <1>6 DEF Host

(* Every step of the set-up leads closer to its end, for every fan-out and *)
(* size of executable, also after failed allocations: no loop of map_gva   *)
(* can turn forever.                                                       *)
THEOREM SetUpShrinks == Spec => [][Smaller]_vars
  <1>1. PInv /\ [Next]_vars => [Smaller]_vars
    BY HostShrinks DEF PInv, Base, Next, Over
  <1> QED
    BY <1>1, PAlways, PTL DEF Spec

=============================================================================
