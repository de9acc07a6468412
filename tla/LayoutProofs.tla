---------------------------- MODULE LayoutProofs ----------------------------
(***************************************************************************)
(* Proofs about guest memory, for every layout, every number and length of *)
(* arguments, every kernel and every combination of failed calls: what     *)
(* main leaves there, and what boot.asm makes of it.                       *)
(***************************************************************************)
EXTENDS BootProofs, FiniteSetTheorems, SequenceTheorems

-----------------------------------------------------------------------------
(* Where the strings lie.                                                  *)

Argc == Len(cmd.args)

LEMMA StringsFinite ==
  ASSUME cmd \in Commands, NEW n \in 0 .. Argc
  PROVE  IsFiniteSet(Strings(n))
  <1> DEFINE f == [k \in 1 .. n |-> {k} \X (1 .. cmd.args[k])]
             T == {{k} \X (1 .. cmd.args[k]) : k \in 1 .. n}
  <1>1. \A k \in 1 .. n : cmd.args[k] \in Nat
    BY CommandType DEF Argc
  <1>2. \A k \in 1 .. n : IsFiniteSet({k} \X (1 .. cmd.args[k]))
    <2> TAKE k \in 1 .. n
    <2>1. IsFiniteSet(1 .. cmd.args[k])
      BY <1>1, FS_Interval
    <2>2. IsFiniteSet({k})
      BY FS_Singleton
    <2> QED
      BY <2>1, <2>2, FS_Product
  <1>3. IsFiniteSet(1 .. n)
    BY FS_Interval
  <1>4. f \in Surjection(1 .. n, T)
    BY Zenon DEF Surjection
  <1>5. IsFiniteSet(T)
    BY <1>3, <1>4, FS_Surjection
  <1>6. \A t \in T : IsFiniteSet(t)
    BY <1>2
  <1> QED
    BY <1>5, <1>6, FS_UNION DEF Strings

(* String k takes its length in cells, and a later string lies above.      *)
LEMMA StringPlaces ==
  ASSUME cmd \in Commands
  PROVE  /\ Argc \in Nat
         /\ Before(1) = ArgsAddr
         /\ \A k \in 1 .. Argc + 1 : Before(k) \in Nat
         /\ \A k \in 1 .. Argc : /\ cmd.args[k] \in Nat \ {0}
                                 /\ Before(k + 1) = Before(k) + cmd.args[k]
         /\ \A j, k \in 1 .. Argc + 1 : j <= k => Before(j) <= Before(k)
  <1>1. Argc \in Nat /\ \A k \in 1 .. Argc : cmd.args[k] \in Nat \ {0}
    BY CommandType DEF Argc
  <1>2. \A n \in 0 .. Argc : /\ IsFiniteSet(Strings(n))
                             /\ Cardinality(Strings(n)) \in Nat
    BY StringsFinite, FS_CardinalityType
  <1>3. Before(1) = ArgsAddr
    <2>1. Strings(0) = {}
      BY DEF Strings
    <2> QED
      BY <2>1, FS_EmptySet, Layout DEF Before
  <1>4. \A k \in 1 .. Argc + 1 : Before(k) \in Nat
    BY <1>1, <1>2, Layout DEF Before
  <1>5. ASSUME NEW k \in 1 .. Argc
        PROVE  Before(k + 1) = Before(k) + cmd.args[k]
    <2> DEFINE last == {k} \X (1 .. cmd.args[k])
    <2>1. IsFiniteSet(last) /\ Cardinality(last) = cmd.args[k]
      <3>1. PICK n \in Nat \ {0} : n = cmd.args[k]
        BY <1>1
      <3>2. IsFiniteSet(1 .. n) /\ Cardinality(1 .. n) = n
        <4>1. /\ IsFiniteSet(1 .. n)
              /\ Cardinality(1 .. n) = IF 1 > n THEN 0 ELSE n - 1 + 1
          BY FS_Interval
        <4> QED
          BY <4>1
      <3>3. IsFiniteSet({k}) /\ Cardinality({k}) = 1
        BY FS_Singleton
      <3>4. /\ IsFiniteSet({k} \X (1 .. n))
            /\ Cardinality({k} \X (1 .. n)) = Cardinality({k}) * Cardinality(1 .. n)
        BY <3>2, <3>3, FS_Product, Zenon
      <3>5. 1 * n = n
        OBVIOUS
      <3> QED
        BY <3>1, <3>2, <3>3, <3>4, <3>5, Zenon
    <2>2. Strings(k) = Strings(k - 1) \cup last
      <3>1. 1 .. k = (1 .. k - 1) \cup {k}
        OBVIOUS
      <3> QED
        BY <3>1, Zenon DEF Strings
    <2>3. Strings(k - 1) \cap last = {}
      <3>1. \A j \in 1 .. k - 1 : j # k
        OBVIOUS
      <3> QED
        BY <3>1 DEF Strings
    <2>4. k - 1 \in 0 .. Argc /\ k \in 0 .. Argc
      BY <1>1
    <2>5. Cardinality(Strings(k)) = Cardinality(Strings(k - 1)) + cmd.args[k]
      <3>1. Cardinality(Strings(k - 1) \cap last) = 0
        BY <2>3, FS_EmptySet
      <3>2. Cardinality(Strings(k)) =
              Cardinality(Strings(k - 1)) + Cardinality(last)
                - Cardinality(Strings(k - 1) \cap last)
        BY <1>2, <2>1, <2>2, <2>4, FS_Union
      <3> QED
        BY <1>1, <1>2, <2>1, <2>4, <3>1, <3>2
    <2>6. Before(k + 1) = ArgsAddr + Cardinality(Strings(k))
      <3>1. (k + 1) - 1 = k
        OBVIOUS
      <3> QED
        BY <3>1, Zenon DEF Before
    <2>7. Before(k) = ArgsAddr + Cardinality(Strings(k - 1))
      BY Zenon DEF Before
    <2> QED
      BY <1>1, <1>2, <2>4, <2>5, <2>6, <2>7, Layout
  <1>6. ASSUME NEW j \in 1 .. Argc + 1, NEW k \in 1 .. Argc + 1, j <= k
        PROVE  Before(j) <= Before(k)
    <2>1. 1 .. j - 1 \subseteq 1 .. k - 1
      BY <1>6
    <2>2. Strings(j - 1) \subseteq Strings(k - 1)
      BY <2>1, Zenon DEF Strings
    <2>3. k - 1 \in 0 .. Argc /\ j - 1 \in 0 .. Argc
      BY <1>1
    <2>4. Cardinality(Strings(j - 1)) <= Cardinality(Strings(k - 1))
      BY <1>2, <2>2, <2>3, FS_Subset
    <2> QED
      BY <1>2, <2>3, <2>4, Layout DEF Before
  <1> QED
    BY <1>1, <1>3, <1>4, <1>5, <1>6

-----------------------------------------------------------------------------
(* What memory holds at each position.                                     *)

Late == {"args", "push_argv", "push_argc", "push_entry", "run"}
Loaded == {"plugin", "app"} \cup Late
Up == {"kernel"} \cup Loaded

(* The instructions in front of the first that stores.                     *)
Booting == {"words", "cr3", "rdmsr", "wrmsr", "paging", "segments"}
Ended == {"halted", "stopped", "error", "refused", "nmi"}

Root == <<"lo", TableAddr>>
Pushed(a, v) == mem[a] = <<"lo", v>> /\ mem[a + 1] = <<"hi", v>>

(* Nothing reaches the kernel or the page tables; the argument table may   *)
(* still run into the strings.                                             *)
Clear == /\ ArgvAddr + 2 * Argc <= StartAddr
         /\ Before(Argc + 1) <= StartAddr
         /\ StartAddr + cmd.kernel <= TableAddr

(* How much is mapped; a kernel that load_raw accepted ends inside.        *)
DomainInv ==
  /\ pc \in {"vcpu", "setup", "kernel", "plugin", "app"} =>
       DOMAIN mem = 0 .. TableAddr + LowTables - 1
  /\ pc \in Late => DOMAIN mem = 0 .. TableAddr + LowTables + AppTables - 1
  /\ pc \in Loaded => StartAddr + cmd.kernel <= TableAddr + LowTables

(* How far the arguments are, and what entry_gva holds.                    *)
ProgressInv ==
  /\ pc = "options" => args = ArgsAddr
  /\ pc \in Starting \ (Late \cup {"options"}) => i = 0 /\ args = ArgsAddr
  /\ pc \in Late => i \in 0 .. Argc /\ args = Before(i + 1)
  /\ pc \in Late \ {"args"} => i = Argc
  /\ (entry = EntryGva /\ cmd.main) \/ entry \in Residue
  /\ pc \in Late /\ cmd.main => entry = EntryGva

(* The pages as vm_mem_init leaves them, and the table of descriptors,     *)
(* which nothing reaches from above.                                       *)
LowInv ==
  /\ pc \in {"vcpu", "setup"} =>
       /\ \A c \in 0 .. TableAddr - 1 : mem[c] = <<"zero", 0>>
       /\ \A c \in TableAddr .. TableAddr + LowTables - 1 : mem[c] = <<"table", c>>
  /\ pc \in Up => \A c \in 0 .. GdtLen - 1 : mem[c] = <<"gdt", c + 1>>

(* Until the guest stores something, the root's address is at the top of   *)
(* the stack, the task segment is empty, and there is no second word like  *)
(* it above.                                                               *)
RootInv ==
  pc \in Up /\ at \in Booting =>
    /\ mem[StackAddr - 1] = Root
    /\ \A c \in StackAddr .. ArgvAddr - 1 : mem[c] = <<"zero", 0>>
    /\ Clear => \A c \in DOMAIN mem : c >= ArgvAddr => mem[c] # Root

(* A layout that is clear is as boot.asm expects it, so far as it is       *)
(* written.                                                                *)
LayoutInv ==
  Clear =>
    /\ pc \in Up => \A c \in DOMAIN mem : c >= TableAddr => mem[c] = <<"table", c>>
    /\ pc \in Loaded => \A k \in 1 .. cmd.kernel :
                           mem[StartAddr + k - 1] = <<"kernel", k>>
    /\ pc \in Late /\ Fits =>
         \A k \in 1 .. i : /\ Pushed(ArgvAddr + 2 * (k - 1), Before(k))
                           /\ \A j \in 1 .. cmd.args[k] :
                                mem[Before(k) + j - 1] = <<"arg", k, j>>

(* In one that is not, the first cell that was reached shows it for good.  *)
OverrunInv ==
  /\ pc \in Loaded /\ StartAddr + cmd.kernel > TableAddr =>
       mem[TableAddr] # <<"table", TableAddr>>
  /\ pc \in Late /\ (args > StartAddr \/ ArgvAddr + 2 * i > StartAddr) =>
       mem[StartAddr] # <<"kernel", 1>>

MemoryInv == DomainInv /\ ProgressInv /\ LowInv /\ RootInv /\ LayoutInv
               /\ OverrunInv

-----------------------------------------------------------------------------
(* The stack, and what the guest takes from it.                            *)

Tops == {StackAddr - 1, StackAddr - 3, StackAddr - 5, StackAddr - 7}

(* The three numbers, when all pushes have worked.                         *)
StackWords ==
  /\ Pushed(StackAddr - 7, entry) /\ Pushed(StackAddr - 5, Argc)
  /\ Pushed(StackAddr - 3, ArgvAddr)

PushInv ==
  /\ pc \in {"kernel", "plugin", "app", "args", "push_argv"} => rsp = StackAddr - 1
  /\ pc = "push_argc" =>
       /\ rsp \in {StackAddr - 1, StackAddr - 3}
       /\ rsp = StackAddr - 3 => Pushed(StackAddr - 3, ArgvAddr)
  /\ pc = "push_entry" =>
       /\ rsp \in {StackAddr - 1, StackAddr - 3, StackAddr - 5}
       /\ rsp = StackAddr - 5 => /\ Pushed(StackAddr - 3, ArgvAddr)
                                /\ Pushed(StackAddr - 5, Argc)

(* Six words are taken off, from where the stack began.                    *)
PopInv ==
  pc = "run" /\ at = "words" =>
    /\ rsp - Len(saved) \in Tops
    /\ entered \/ saved # <<>> => sp0 = rsp - Len(saved)
    /\ rsp - Len(saved) = StackAddr - 7 =>
         /\ StackWords
         /\ \A k \in 1 .. Len(saved) : saved[k] = mem[StackAddr - 8 + k]

(* With all pushes done the words are entry point, argc and argv, and the  *)
(* seventh is the root; without, it is not the root's address.             *)
SavedInv ==
  /\ pc = "run" /\ at \in (Booting \ {"words"}) \cup {"long"} =>
       /\ sp0 \in Tops
       /\ rsp = IF at = "long" THEN sp0 + 7 ELSE sp0 + 6
       /\ sp0 = StackAddr - 7 =>
            /\ <<saved[1], saved[2]>> = Number(entry)
            /\ <<saved[3], saved[4]>> = Number(Argc)
            /\ <<saved[5], saved[6]>> = Number(ArgvAddr)
  /\ pc = "run" /\ at \in {"rdmsr", "wrmsr", "paging", "segments", "long"} =>
       /\ "PAE" \in cpu.cr4
       /\ sp0 = StackAddr - 7 => cpu.cr3 = Root
       /\ Clear /\ cpu.cr3 = Root => sp0 = StackAddr - 7

(* The control state at each position, and the shape of cpu.               *)
ControlInv ==
  /\ DOMAIN cpu = {"eax", "cr3", "cr4", "rip", "rdi", "rsi"}
  /\ at \in {"words", "cr3", "rdmsr", "wrmsr"} => vmcs_setup
  /\ at = "wrmsr" => cpu.eax = {}
  /\ at = "paging" =>
       vmcs = [efer |-> {"LME"}, cr0 |-> {"PE", "ET", "NE"},
               shadow |-> {"PE", "NE"}, lma |-> FALSE]
  /\ at \in {"segments", "long", "app", "halt"} =>
       /\ {"LME", "LMA", "SCE"} \subseteq vmcs.efer
       /\ {"PE", "NE", "PG"} \subseteq vmcs.cr0
       /\ vmcs.lma = TRUE

(* Where the application runs, everything is as it should be; and where an *)
(* NMI has sent a guest astray, the control state has been left valid.     *)
AppInv ==
  /\ at = "app" =>
       /\ pc = "run" /\ Clear /\ sp0 = StackAddr - 7 /\ entry = EntryGva
       /\ rsp = StackAddr - 2
       /\ mem[StackAddr - 2] = Halt[1] /\ mem[StackAddr - 1] = Halt[2]
       /\ cpu.rip = Number(EntryGva) /\ cpu.rdi = Number(Argc)
       /\ cpu.rsi = Number(ArgvAddr) /\ cpu.cr3 = Root /\ "PAE" \in cpu.cr4
       /\ CodeIntact
  /\ at = "halt" => "PAE" \in cpu.cr4
  /\ at = "astray" => Enterable
  /\ at \in {"lost", "stopped", "refused"} => ~Prepared
  /\ pc # "run" => at \in {"words"} \cup Ended
  /\ pc = "run" => at \notin Ended
  /\ pc \in Starting => ~entered
  /\ at \in Booting \cup {"long", "app", "halt", "lost", "astray"} \cup Ended

StartInv == PushInv /\ PopInv /\ SavedInv /\ ControlInv /\ AppInv

Inv == BootMainInv /\ MemoryInv /\ StartInv

-----------------------------------------------------------------------------
(* Facts about cells, stores and the command line.                         *)

LEMMA CellKinds ==
  /\ \A k, v : <<"kernel", k>> # <<"lo", v>> /\ <<"zero", k>> # <<"lo", v>>
  /\ \A k, v : <<"table", k>> # <<"lo", v>> /\ <<"hi", k>> # <<"lo", v>>
  /\ \A k, v : <<"table", k>> # <<"kernel", v>> /\ <<"lo", k>> # <<"kernel", v>>
  /\ \A k, v : <<"hi", k>> # <<"kernel", v>> /\ <<"lo", k>> # <<"table", v>>
  /\ \A k, v : <<"hi", k>> # <<"table", v>>
  /\ \A k, v : <<"lo", k>> = <<"lo", v>> => k = v
  /\ \A k, j, v : /\ <<"arg", k, j>> # <<"lo", v>> /\ <<"arg", k, j>> # <<"hi", v>>
                  /\ <<"arg", k, j>> # <<"kernel", v>>
                  /\ <<"arg", k, j>> # <<"table", v>>
  OBVIOUS

(* w is m with the n cells of s at a: the cells of that range are changed, *)
(* as far as they exist, and no other.                                     *)
Stored(w, m, a, s, n) ==
  /\ DOMAIN w = DOMAIN m
  /\ \A c \in DOMAIN m : c < a \/ c >= a + n => w[c] = m[c]
  /\ \A k \in 1 .. n : a + k - 1 \in DOMAIN m => w[a + k - 1] = s[k]
  /\ \A c \in DOMAIN m :
       w[c] = m[c] \/ \E k \in 1 .. n : c = a + k - 1 /\ w[c] = s[k]

LEMMA WriteFacts ==
  ASSUME NEW m, DOMAIN m \subseteq Nat, NEW a \in Int, NEW s, NEW n \in Nat,
         Len(s) = n
  PROVE  Stored(vm_mem_write(m, a, s), m, a, s, n)
  <1>0. PICK w : w = vm_mem_write(m, a, s)
    OBVIOUS
  <1>1. /\ DOMAIN w = DOMAIN m
        /\ \A c \in DOMAIN m : w[c] = IF c - a + 1 \in 1 .. n
                                      THEN s[c - a + 1] ELSE m[c]
    BY <1>0 DEF vm_mem_write
  <1>2. \A c \in DOMAIN m : c - a + 1 \in 1 .. n <=> ~(c < a \/ c >= a + n)
    OBVIOUS
  <1>3. \A k \in 1 .. n : a + k - 1 \in DOMAIN m => w[a + k - 1] = s[k]
    <2> TAKE k \in 1 .. n
    <2> HAVE a + k - 1 \in DOMAIN m
    <2>1. (a + k - 1) - a + 1 = k
      OBVIOUS
    <2> QED
      BY <1>1, <2>1, Zenon
  <1>4. ASSUME NEW c \in DOMAIN m, w[c] # m[c]
        PROVE  \E k \in 1 .. n : c = a + k - 1 /\ w[c] = s[k]
    <2>1. c - a + 1 \in 1 .. n /\ w[c] = s[c - a + 1]
      BY <1>1, <1>4, Zenon
    <2>2. c = a + (c - a + 1) - 1
      OBVIOUS
    <2> QED
      BY <2>1, <2>2, Zenon
  <1>5. Stored(w, m, a, s, n)
    BY <1>1, <1>2, <1>3, <1>4, Zenon DEF Stored
  <1> QED
    BY <1>0, <1>5, Zenon

LEMMA SameCommand ==
  ASSUME cmd' = cmd
  PROVE  /\ Argc' = Argc /\ (Clear <=> Clear') /\ (Fits <=> Fits')
         /\ \A k : Before(k)' = Before(k)
  <1>1. \A n : Strings(n)' = Strings(n)
    BY Zenon DEF Strings
  <1>2. \A k : Before(k)' = Before(k)
    BY <1>1, Zenon DEF Before
  <1>3. Argc' = Argc
    BY Zenon DEF Argc
  <1> QED
    BY <1>2, <1>3, Zenon DEF Clear, Fits, Argc

LEMMA Here ==
  ASSUME Inv
  PROVE  /\ cmd \in Commands /\ cmd.kernel \in Nat /\ Argc \in Nat
         /\ pc \in Labels /\ i \in Nat /\ rsp \in Nat /\ args \in Nat /\ entry \in Nat
         /\ pc \in Starting => at = "words" /\ saved = <<>>
         /\ pc \in Late => DOMAIN mem \subseteq Nat
         /\ pc \in Up => DOMAIN mem \subseteq Nat
  <1>1. cmd \in Commands /\ pc \in Labels /\ i \in Nat /\ rsp \in Nat
        /\ args \in Nat /\ entry \in Nat
    BY DEF Inv, BootMainInv, MainInv, TypeInv, TypeOK
  <1>2. cmd.kernel \in Nat /\ Argc \in Nat
    BY <1>1, CommandType DEF Argc
  <1>3. pc \in Starting => at = "words" /\ saved = <<>>
    BY DEF Inv, BootMainInv, GuestInv
  <1>4. pc \in Up => DOMAIN mem \subseteq Nat
    <2>1. pc \in Up => pc \in {"kernel", "plugin", "app"} \/ pc \in Late
      BY Zenon DEF Up, Loaded
    <2>2. 0 .. TableAddr + LowTables - 1 \subseteq Nat
      BY Layout
    <2>3. 0 .. TableAddr + LowTables + AppTables - 1 \subseteq Nat
      BY Layout
    <2> QED
      BY <2>1, <2>2, <2>3, Zenon DEF Inv, MemoryInv, DomainInv
  <1> QED
    BY <1>1, <1>2, <1>3, <1>4, Zenon DEF Up, Loaded

(* On its way out main leaves nothing to say about memory.                 *)
LEMMA LeavingKeeps ==
  ASSUME Inv, cmd' = cmd, pc' \notin Starting \cup {"run"},
         entry' = entry \/ (cmd.main /\ entry' = EntryGva)
  PROVE  MemoryInv'
  <1>1. pc' \notin Up /\ pc' \notin Late /\ pc' \notin Loaded
        /\ pc' \notin {"vcpu", "setup", "kernel", "plugin", "app"}
        /\ pc' # "options"
    BY Zenon DEF Up, Late, Loaded, Starting
  <1>2. DomainInv' /\ LowInv' /\ RootInv' /\ LayoutInv' /\ OverrunInv'
    BY <1>1, Zenon DEF DomainInv, LowInv, RootInv, LayoutInv, OverrunInv
  <1>3. ProgressInv'
    BY <1>1, Zenon DEF ProgressInv, Inv, MemoryInv
  <1> QED
    BY <1>2, <1>3 DEF MemoryInv

(* While main sets up, the guest's state is that of its beginning.         *)
LEMMA WaitingGuest ==
  ASSUME Inv, UNCHANGED <<vmcs, bootVars>>, pc \in Starting
  PROVE  SavedInv' /\ ControlInv' /\ AppInv'
  <1>1. UNCHANGED <<vmcs, at, entered, saved, cpu, sp0>> /\ at = "words"
    BY Here DEF bootVars
  <1>2. SavedInv'
    BY <1>1 DEF SavedInv, Booting
  <1>3. ControlInv'
    BY <1>1, Zenon DEF Inv, StartInv, ControlInv, vmcs_setup
  <1>4. AppInv'
    <2>1. ~entered'
      BY <1>1, Zenon DEF Inv, StartInv, AppInv
    <2> QED
      BY <1>1, <2>1 DEF AppInv, Booting, Ended
  <1> QED
    BY <1>2, <1>3, <1>4

-----------------------------------------------------------------------------
(* The steps of main.                                                      *)

(* The calls in front of vm_mem_init.                                      *)
LEMMA EarlySteps ==
  ASSUME Inv, UNCHANGED <<cmd, args, entry>>, pc \in Starting \ Late,
         pc' \in {"options", "vm", "mem"}, pc' # "options" => i' = 0
  PROVE  MemoryInv' /\ PushInv' /\ PopInv'
  <1>1. /\ pc' \notin {"vcpu", "setup", "kernel", "plugin", "app"}
        /\ pc' \notin Up /\ pc' \notin Late /\ pc' \notin Loaded
        /\ pc' \notin {"push_argc", "push_entry", "push_argv", "args", "run"}
    BY DEF Up, Late, Loaded
  <1>2. DomainInv' /\ LowInv' /\ RootInv' /\ LayoutInv' /\ OverrunInv'
    BY <1>1, Zenon DEF DomainInv, LowInv, RootInv, LayoutInv, OverrunInv
  <1>3. args = ArgsAddr
    BY Zenon DEF Inv, MemoryInv, ProgressInv
  <1>4. ProgressInv'
    BY <1>1, <1>3, Zenon DEF ProgressInv, Inv, MemoryInv
  <1>5. PushInv' /\ PopInv'
    BY <1>1, Zenon DEF PushInv, PopInv
  <1> QED
    BY <1>2, <1>4, <1>5, Zenon DEF MemoryInv

(* The low pages and the tables behind them.                               *)
LEMMA InitStep ==
  ASSUME Inv, vm_mem_init, UNCHANGED <<vmcs, bootVars>>, pc' = "vcpu"
  PROVE  MemoryInv' /\ PushInv' /\ PopInv'
  <1>1. /\ pc = "mem" /\ UNCHANGED <<cmd, i, args, entry>>
        /\ mem' = Extend(LowPages, Tables(TableAddr, LowTables))
    BY DEF vm_mem_init, Fail
  <1>2. /\ DOMAIN Tables(TableAddr, LowTables)
             = TableAddr .. TableAddr + LowTables - 1
        /\ \A c \in TableAddr .. TableAddr + LowTables - 1 :
             Tables(TableAddr, LowTables)[c] = <<"table", c>>
        /\ DOMAIN LowPages = 0 .. TableAddr - 1
        /\ \A c \in 0 .. TableAddr - 1 : LowPages[c] = <<"zero", 0>>
    BY Zenon DEF Tables, LowPages
  <1>3. (0 .. TableAddr - 1) \cup (TableAddr .. TableAddr + LowTables - 1)
          = 0 .. TableAddr + LowTables - 1
    BY Layout
  <1>4. /\ DOMAIN mem' = 0 .. TableAddr + LowTables - 1
        /\ \A c \in DOMAIN mem' :
             mem'[c] = IF c \in TableAddr .. TableAddr + LowTables - 1
                       THEN <<"table", c>> ELSE LowPages[c]
    BY <1>1, <1>2, <1>3, Zenon DEF Extend
  <1>5. \A c \in 0 .. TableAddr - 1 :
          /\ c \in 0 .. TableAddr + LowTables - 1
          /\ c \notin TableAddr .. TableAddr + LowTables - 1
    BY Layout
  <1>6. \A c \in TableAddr .. TableAddr + LowTables - 1 :
          c \in 0 .. TableAddr + LowTables - 1
    BY Layout
  <1>7. /\ pc' \notin Up /\ pc' \notin Late /\ pc' \notin Loaded
        /\ pc' \notin {"push_argc", "push_entry", "push_argv", "args", "run",
                       "kernel", "plugin", "app", "options"}
    BY DEF Up, Late, Loaded
  <1>8. DomainInv' /\ RootInv' /\ LayoutInv' /\ OverrunInv'
    BY <1>4, <1>7, Zenon DEF DomainInv, RootInv, LayoutInv, OverrunInv
  <1>9. LowInv'
    BY <1>2, <1>4, <1>5, <1>6, <1>7, Zenon DEF LowInv
  <1>10. ProgressInv'
    <2>1. pc \in Starting \ (Late \cup {"options"})
      BY <1>1 DEF Starting, Late
    <2> QED
      BY <1>1, <1>7, <2>1, Zenon DEF ProgressInv, Inv, MemoryInv
  <1>11. PushInv' /\ PopInv'
    BY <1>7, Zenon DEF PushInv, PopInv
  <1> QED
    BY <1>8, <1>9, <1>10, <1>11, Zenon DEF MemoryInv

(* hv_vcpu_create touches no memory.                                       *)
LEMMA CreateStep ==
  ASSUME Inv, hv_vcpu_create, UNCHANGED <<vmcs, bootVars>>, pc' = "setup"
  PROVE  MemoryInv' /\ PushInv' /\ PopInv'
  <1>1. pc = "vcpu" /\ UNCHANGED <<cmd, i, mem, args, entry>>
    BY DEF hv_vcpu_create
  <1>2. /\ pc' \notin Up /\ pc' \notin Late /\ pc' \notin Loaded
        /\ pc' \notin {"push_argc", "push_entry", "push_argv", "args", "run",
                       "kernel", "plugin", "app", "options"}
        /\ pc \in Starting \ (Late \cup {"options"})
    BY <1>1 DEF Up, Late, Loaded, Starting
  <1>3. DomainInv' /\ LowInv' /\ RootInv' /\ LayoutInv' /\ OverrunInv'
    BY <1>1, <1>2, Zenon
    DEF Inv, MemoryInv, DomainInv, LowInv, RootInv, LayoutInv, OverrunInv
  <1>4. ProgressInv'
    BY <1>1, <1>2, Zenon DEF ProgressInv, Inv, MemoryInv
  <1>5. PushInv' /\ PopInv'
    BY <1>2, Zenon DEF PushInv, PopInv
  <1> QED
    BY <1>3, <1>4, <1>5, Zenon DEF MemoryInv

(* The descriptor table and the root's address.                            *)
LEMMA SetupStep ==
  ASSUME Inv, vcpu_setup_ia32, UNCHANGED <<vmcs, bootVars>>, pc' = "kernel"
  PROVE  MemoryInv' /\ PushInv' /\ PopInv'
  <1>1. /\ pc = "setup" /\ UNCHANGED <<cmd, i, args, entry>>
        /\ mem' = vm_mem_write(vm_mem_write(mem, 0, Gdt), StackAddr - 1, <<Root>>)
        /\ rsp' = StackAddr - 1
    BY DEF vcpu_setup_ia32, Root
  <1>2. /\ DOMAIN mem = 0 .. TableAddr + LowTables - 1
        /\ \A c \in 0 .. TableAddr - 1 : mem[c] = <<"zero", 0>>
        /\ \A c \in TableAddr .. TableAddr + LowTables - 1 : mem[c] = <<"table", c>>
    BY <1>1, Zenon DEF Inv, MemoryInv, DomainInv, LowInv
  <1>3. DOMAIN mem \subseteq Nat
    BY <1>2
  <1>4. PICK m : m = vm_mem_write(mem, 0, Gdt)
    OBVIOUS
  <1>5. /\ DOMAIN m = DOMAIN mem
        /\ \A c \in DOMAIN mem : c < 0 \/ c >= 0 + GdtLen => m[c] = mem[c]
        /\ \A k \in 1 .. GdtLen : 0 + k - 1 \in DOMAIN mem => m[0 + k - 1] = Gdt[k]
    <2>1. Len(Gdt) = GdtLen /\ GdtLen \in Nat /\ 0 \in Int
      BY Layout DEF Gdt
    <2>2. Stored(m, mem, 0, Gdt, GdtLen)
      BY <1>3, <1>4, <2>1, WriteFacts, Zenon
    <2> QED
      BY <2>2, Zenon DEF Stored
  <1>6. /\ DOMAIN mem' = DOMAIN m
        /\ \A c \in DOMAIN m : c < StackAddr - 1 \/ c >= (StackAddr - 1) + 1
             => mem'[c] = m[c]
        /\ \A k \in 1 .. 1 : (StackAddr - 1) + k - 1 \in DOMAIN m
             => mem'[(StackAddr - 1) + k - 1] = <<Root>>[k]
    <2>1. Len(<<Root>>) = 1 /\ StackAddr - 1 \in Int /\ 1 \in Nat
      BY Layout
    <2>2. DOMAIN m \subseteq Nat
      BY <1>3, <1>5
    <2>3. mem' = vm_mem_write(m, StackAddr - 1, <<Root>>)
      BY <1>1, <1>4, Zenon
    <2>4. Stored(mem', m, StackAddr - 1, <<Root>>, 1)
      BY <2>1, <2>2, <2>3, WriteFacts, Zenon
    <2> QED
      BY <2>4, Zenon DEF Stored
  <1>7. \A c \in 0 .. GdtLen - 1 : mem'[c] = <<"gdt", c + 1>>
    <2> TAKE c \in 0 .. GdtLen - 1
    <2>1. /\ c + 1 \in 1 .. GdtLen /\ 0 + (c + 1) - 1 = c
          /\ c \in DOMAIN mem /\ c < StackAddr - 1
      BY <1>2, Layout
    <2>2. m[c] = Gdt[c + 1]
      BY <1>5, <2>1, Zenon
    <2>3. Gdt[c + 1] = <<"gdt", c + 1>>
      BY <2>1, Zenon DEF Gdt
    <2> QED
      BY <1>5, <1>6, <2>1, <2>2, <2>3, Zenon
  <1>8. mem'[StackAddr - 1] = Root
    <2>1. /\ 1 \in 1 .. 1 /\ (StackAddr - 1) + 1 - 1 = StackAddr - 1
          /\ StackAddr - 1 \in DOMAIN m
      BY <1>2, <1>5, Layout
    <2>2. <<Root>>[1] = Root
      OBVIOUS
    <2> QED
      BY <1>6, <2>1, <2>2, Zenon
  <1>9. \A c \in DOMAIN mem : c >= StackAddr => mem'[c] = mem[c]
    <2>1. \A c \in DOMAIN mem : c >= StackAddr =>
            c >= 0 + GdtLen /\ c >= (StackAddr - 1) + 1
      BY <1>3, Layout
    <2> QED
      BY <1>5, <1>6, <2>1, Zenon
  <1>10. \A c \in DOMAIN mem : c >= StackAddr =>
           mem'[c] = IF c < TableAddr THEN <<"zero", 0>> ELSE <<"table", c>>
    <2>1. \A c \in DOMAIN mem : c \in 0 .. TableAddr - 1 <=> c < TableAddr
      BY <1>2, Layout
    <2>2. \A c \in DOMAIN mem : c \in TableAddr .. TableAddr + LowTables - 1
                                  <=> ~(c < TableAddr)
      BY <1>2, Layout
    <2> QED
      BY <1>2, <1>9, <2>1, <2>2, Zenon
  <1>11. /\ pc' \notin Loaded /\ pc' \notin Late
         /\ pc' \notin {"push_argc", "push_entry", "run", "vcpu", "setup",
                        "options"}
         /\ pc \in Starting \ (Late \cup {"options"})
    BY <1>1 DEF Up, Late, Loaded, Starting
  <1>12. DomainInv' /\ LowInv' /\ OverrunInv'
    BY <1>2, <1>5, <1>6, <1>7, <1>11, Zenon DEF DomainInv, LowInv, OverrunInv
  <1>13. RootInv'
    <2>1. \A c \in StackAddr .. ArgvAddr - 1 :
            c \in DOMAIN mem /\ c >= StackAddr /\ c < TableAddr
      BY <1>2, Layout
    <2>2. \A c \in DOMAIN mem : c >= ArgvAddr => c >= StackAddr
      BY <1>3, Layout
    <2>3. \A c \in DOMAIN mem : c >= ArgvAddr => mem'[c] # Root
      <3>1. <<"zero", 0>> # Root /\ \A c : <<"table", c>> # Root
        BY CellKinds DEF Root
      <3> QED
        BY <1>10, <2>2, <3>1, Zenon
    <2> QED
      BY <1>5, <1>6, <1>8, <1>10, <2>1, <2>3, Zenon DEF RootInv
  <1>14. LayoutInv'
    <2>1. \A c \in DOMAIN mem : c >= TableAddr => c >= StackAddr /\ ~(c < TableAddr)
      BY <1>3, Layout
    <2> QED
      BY <1>5, <1>6, <1>10, <1>11, <2>1, Zenon DEF LayoutInv
  <1>15. ProgressInv'
    BY <1>1, <1>11, Zenon DEF ProgressInv, Inv, MemoryInv
  <1>16. PushInv' /\ PopInv'
    BY <1>1, <1>11, Zenon DEF PushInv, PopInv
  <1> QED
    BY <1>12, <1>13, <1>14, <1>15, <1>16, Zenon DEF MemoryInv

(* The kernel.                                                             *)
LEMMA KernelStep ==
  ASSUME Inv, load_raw, UNCHANGED <<vmcs, bootVars>>, pc' = "plugin"
  PROVE  MemoryInv' /\ PushInv' /\ PopInv'
  <1>1. /\ pc = "kernel" /\ UNCHANGED <<cmd, i, args, entry, rsp>>
        /\ mem' = vm_mem_write(mem, StartAddr, Kernel)
        /\ Complete(mem, StartAddr, Kernel)
    <2>1. pc' # "crashed" /\ pc' # "vcpu_destroy"
      OBVIOUS
    <2> QED
      BY <2>1, Zenon DEF load_raw, Fail
  <1>2. /\ pc \in Up /\ pc' \in Up /\ pc' \in Loaded /\ pc' \notin Late
        /\ pc \in Starting \ (Late \cup {"options"})
        /\ pc' \notin {"push_argc", "push_entry", "run", "vcpu", "setup",
                       "options"}
    BY <1>1 DEF Up, Late, Loaded, Starting
  <1>3. /\ DOMAIN mem = 0 .. TableAddr + LowTables - 1
        /\ cmd \in Commands /\ cmd.kernel \in Nat /\ at \in Booting
        /\ DOMAIN mem \subseteq Nat
    <2>1. at = "words"
      BY <1>2, Here
    <2> QED
      BY <1>1, <1>2, <2>1, Here, Zenon DEF Inv, MemoryInv, DomainInv, Booting
  <1>4. /\ Len(Kernel) = cmd.kernel
        /\ \A k \in 1 .. cmd.kernel : Kernel[k] = <<"kernel", k>>
    BY <1>3 DEF Kernel
  <1>5. /\ DOMAIN mem' = DOMAIN mem
        /\ \A c \in DOMAIN mem : c < StartAddr \/ c >= StartAddr + cmd.kernel
             => mem'[c] = mem[c]
        /\ \A k \in 1 .. cmd.kernel : StartAddr + k - 1 \in DOMAIN mem
             => mem'[StartAddr + k - 1] = Kernel[k]
        /\ \A c \in DOMAIN mem :
             \/ mem'[c] = mem[c]
             \/ \E k \in 1 .. cmd.kernel :
                  c = StartAddr + k - 1 /\ mem'[c] = Kernel[k]
    <2>1. StartAddr \in Int
      BY Layout
    <2>2. Stored(mem', mem, StartAddr, Kernel, cmd.kernel)
      BY <1>1, <1>3, <1>4, <2>1, WriteFacts, Zenon
    <2> QED
      BY <2>2, Zenon DEF Stored
  <1>6. \A k \in 1 .. cmd.kernel : StartAddr + k - 1 \in DOMAIN mem
    BY <1>1, <1>4, Zenon DEF Complete
  <1>7. StartAddr + cmd.kernel <= TableAddr + LowTables
    <2>1. CASE cmd.kernel = 0
      BY <2>1, Layout
    <2>2. CASE cmd.kernel # 0
      <3>1. StartAddr + cmd.kernel - 1 \in DOMAIN mem
        BY <1>3, <1>6, <2>2
      <3> QED
        BY <1>3, <3>1, Layout
    <2> QED
      BY <2>1, <2>2
  <1>8. DomainInv' /\ ProgressInv'
    BY <1>1, <1>2, <1>3, <1>5, <1>7, Zenon
    DEF Inv, MemoryInv, DomainInv, ProgressInv
  <1>9. \A c \in DOMAIN mem : c < StartAddr => mem'[c] = mem[c]
    BY <1>5, Zenon
  <1>10. LowInv'
    <2>1. \A c \in 0 .. GdtLen - 1 : c \in DOMAIN mem /\ c < StartAddr
      BY <1>3, Layout
    <2> QED
      BY <1>2, <1>9, <2>1, Zenon DEF Inv, MemoryInv, LowInv
  <1>11. RootInv'
    <2>1. /\ StackAddr - 1 \in DOMAIN mem /\ StackAddr - 1 < StartAddr
          /\ \A c \in StackAddr .. ArgvAddr - 1 : c \in DOMAIN mem /\ c < StartAddr
      BY <1>3, Layout
    <2>2. \A c \in DOMAIN mem : mem'[c] = mem[c] \/ mem'[c] # Root
      <3>1. \A k \in 1 .. cmd.kernel : Kernel[k] # Root
        BY <1>4, CellKinds DEF Root
      <3> QED
        BY <1>5, <3>1, Zenon
    <2>3. Clear => Clear'
      BY <1>1, SameCommand
    <2>4. Clear' => Clear
      BY <1>1, SameCommand
    <2> QED
      BY <1>2, <1>3, <1>5, <1>9, <2>1, <2>2, <2>4, Zenon DEF Inv, MemoryInv, RootInv
  <1>12. LayoutInv'
    <2> SUFFICES ASSUME Clear PROVE LayoutInv'
      BY <1>1, SameCommand, Zenon DEF LayoutInv
    <2>1. \A c \in DOMAIN mem : c >= TableAddr => c >= StartAddr + cmd.kernel
      BY <1>3, Layout DEF Clear
    <2>2. \A c \in DOMAIN mem' : c >= TableAddr => mem'[c] = <<"table", c>>
      BY <1>2, <1>5, <2>1, Zenon DEF Inv, MemoryInv, LayoutInv
    <2> QED
      BY <1>1, <1>2, <1>4, <1>5, <1>6, <2>2, Zenon DEF LayoutInv
  <1>13. OverrunInv'
    <2> SUFFICES ASSUME StartAddr + cmd.kernel > TableAddr
                 PROVE  mem'[TableAddr] # <<"table", TableAddr>>
      BY <1>1, <1>2, Zenon DEF OverrunInv
    <2>1. PICK k \in 1 .. cmd.kernel : StartAddr + k - 1 = TableAddr
      <3>1. /\ TableAddr - StartAddr + 1 \in 1 .. cmd.kernel
            /\ StartAddr + (TableAddr - StartAddr + 1) - 1 = TableAddr
        BY <1>3, Layout
      <3> QED
        BY <3>1
    <2>2. mem'[TableAddr] = <<"kernel", k>>
      BY <1>4, <1>5, <1>6, <2>1, Zenon
    <2> QED
      BY <2>2, CellKinds, Zenon
  <1>14. PushInv' /\ PopInv'
    BY <1>1, <1>2, Zenon DEF Inv, StartInv, PushInv, PopInv
  <1> QED
    BY <1>8, <1>10, <1>11, <1>12, <1>13, <1>14, Zenon DEF MemoryInv

(* load_plugin touches no memory.                                          *)
LEMMA PluginStep ==
  ASSUME Inv, load_plugin, UNCHANGED <<vmcs, bootVars>>, pc' = "app"
  PROVE  MemoryInv' /\ PushInv' /\ PopInv'
  <1>1. /\ pc = "plugin" /\ UNCHANGED <<cmd, i, mem, args, entry, rsp>>
    BY DEF load_plugin
  <1>2. /\ pc \in Up /\ pc' \in Up /\ pc' \in Loaded /\ pc' \notin Late
        /\ pc \in Loaded
        /\ pc \in Starting \ (Late \cup {"options"})
        /\ pc' \notin {"push_argc", "push_entry", "run", "vcpu", "setup",
                       "options"}
    BY <1>1 DEF Up, Late, Loaded, Starting
  <1>3. at' = at
    BY DEF bootVars
  <1>4. DomainInv' /\ ProgressInv' /\ LowInv'
    BY <1>1, <1>2, Zenon DEF Inv, MemoryInv, DomainInv, ProgressInv, LowInv
  <1>5. RootInv' /\ LayoutInv' /\ OverrunInv'
    BY <1>1, <1>2, <1>3, SameCommand, Zenon
    DEF Inv, MemoryInv, RootInv, LayoutInv, OverrunInv
  <1>6. PushInv' /\ PopInv'
    BY <1>1, <1>2, Zenon DEF Inv, StartInv, PushInv, PopInv
  <1> QED
    BY <1>4, <1>5, <1>6, Zenon DEF MemoryInv

(* The application's tables lie behind everything.                         *)
LEMMA ApplicationStep ==
  ASSUME Inv, load_mach_obj, UNCHANGED <<vmcs, bootVars>>, pc' = "args"
  PROVE  MemoryInv' /\ PushInv' /\ PopInv'
  <1>1. /\ pc = "app" /\ UNCHANGED <<cmd, i, args, rsp>>
        /\ mem' = Extend(mem, Tables(Size, AppTables))
        /\ entry' = IF cmd.main THEN EntryGva ELSE entry
    <2>1. pc' # "vcpu_destroy"
      OBVIOUS
    <2> QED
      BY <2>1, Zenon DEF load_mach_obj, Fail
  <1>2. /\ pc \in Up /\ pc' \in Up /\ pc' \in Loaded /\ pc' \in Late
        /\ pc \in Loaded
        /\ pc \in Starting \ (Late \cup {"options"})
        /\ pc' \notin {"push_argc", "push_entry", "run", "vcpu", "setup",
                       "options", "kernel", "plugin", "app"}
        /\ pc' \notin Starting \ (Late \cup {"options"})
        /\ pc' \notin Late \ {"args"}
    BY <1>1 DEF Up, Late, Loaded, Starting
  <1>0. PICK top \in Nat : top = TableAddr + LowTables
    BY Layout
  <1>3. /\ DOMAIN mem = 0 .. top - 1
        /\ cmd \in Commands /\ cmd.kernel \in Nat /\ at' \in Booting
        /\ at' = at /\ at \in Booting /\ top \in Nat
        /\ StartAddr + cmd.kernel <= top
    <2>1. at = "words" /\ at' = at
      BY <1>2, Here DEF bootVars
    <2>3. at \in Booting
      BY <2>1 DEF Booting
    <2>4. DOMAIN mem = 0 .. top - 1 /\ StartAddr + cmd.kernel <= top
      <3>1. pc \in {"vcpu", "setup", "kernel", "plugin", "app"}
        BY <1>1
      <3>2. DOMAIN mem = 0 .. TableAddr + LowTables - 1
        BY <3>1, Zenon DEF Inv, MemoryInv, DomainInv
      <3>3. StartAddr + cmd.kernel <= TableAddr + LowTables
        BY <1>2, Zenon DEF Inv, MemoryInv, DomainInv
      <3>4. TableAddr + LowTables - 1 = top - 1
        BY <1>0, Layout
      <3> QED
        BY <1>0, <3>2, <3>3, <3>4, Zenon
    <2> QED
      BY <2>1, <2>3, <2>4, Here, Zenon
  <1>4. Size = top
    <2>1. Cardinality(0 .. top - 1) = top
      <3>1. Cardinality(0 .. top - 1) = IF 0 > top - 1 THEN 0 ELSE (top - 1) - 0 + 1
        BY <1>3, FS_Interval
      <3> QED
        BY <1>3, <3>1
    <2> QED
      BY <1>3, <2>1, Zenon DEF Size
  <1>5. /\ DOMAIN Tables(top, AppTables) = top .. top + AppTables - 1
        /\ \A c \in top .. top + AppTables - 1 :
             Tables(top, AppTables)[c] = <<"table", c>>
    BY Zenon DEF Tables
  <1>6. (0 .. top - 1) \cup (top .. top + AppTables - 1) = 0 .. top + AppTables - 1
    BY <1>3, Layout
  <1>7. /\ DOMAIN mem' = 0 .. top + AppTables - 1
        /\ \A c \in DOMAIN mem' :
             mem'[c] = IF c \in top .. top + AppTables - 1
                       THEN <<"table", c>> ELSE mem[c]
    BY <1>1, <1>3, <1>4, <1>5, <1>6, Zenon DEF Extend
  <1>8. \A c \in DOMAIN mem : c \in DOMAIN mem' /\ mem'[c] = mem[c]
    <2>1. \A c \in DOMAIN mem : /\ c \in 0 .. top + AppTables - 1
                                /\ c \notin top .. top + AppTables - 1
      BY <1>3, Layout
    <2> QED
      BY <1>7, <2>1, Zenon
  <1>9. \A c \in DOMAIN mem' : \/ c \in DOMAIN mem /\ mem'[c] = mem[c]
                               \/ mem'[c] = <<"table", c>>
    <2>1. \A c \in DOMAIN mem' : c \in DOMAIN mem \/ c \in top .. top + AppTables - 1
      BY <1>3, <1>7, Layout
    <2> QED
      BY <1>7, <1>8, <2>1, Zenon
  <1>10. DomainInv'
    BY <1>1, <1>2, <1>3, <1>7, <1>0, Zenon DEF DomainInv
  <1>11. ProgressInv'
    <2>1. i = 0 /\ args = ArgsAddr
      BY <1>2, Zenon DEF Inv, MemoryInv, ProgressInv
    <2>2. i' \in 0 .. Argc' /\ args' = Before(i' + 1)
      <3>1. Before(1) = ArgsAddr /\ Argc \in Nat
        BY <1>3, StringPlaces
      <3> QED
        BY <1>1, <2>1, <3>1, SameCommand
    <2>3. (Before(i + 1))' = Before(i' + 1)
      BY <1>1, Zenon DEF Before, Strings
    <2>4. /\ (entry' = EntryGva /\ cmd.main) \/ entry' \in Residue
          /\ cmd.main => entry' = EntryGva
      BY <1>1 DEF Inv, MemoryInv, ProgressInv
    <2> QED
      BY <1>1, <1>2, <2>1, <2>2, <2>3, <2>4, Zenon DEF ProgressInv
  <1>12. LowInv'
    <2>1. \A c \in 0 .. GdtLen - 1 : c \in DOMAIN mem
      BY <1>3, <1>0, Layout
    <2> QED
      BY <1>2, <1>8, <2>1, Zenon DEF Inv, MemoryInv, LowInv
  <1>13. RootInv'
    <2>1. /\ StackAddr - 1 \in DOMAIN mem
          /\ \A c \in StackAddr .. ArgvAddr - 1 : c \in DOMAIN mem
      BY <1>3, <1>0, Layout
    <2>2. \A c \in DOMAIN mem' : c >= ArgvAddr /\ Clear => mem'[c] # Root
      <3>1. \A c : <<"table", c>> # Root
        BY CellKinds DEF Root
      <3> QED
        BY <1>2, <1>3, <1>9, <3>1, Zenon DEF Inv, MemoryInv, RootInv
    <2>3. Clear' => Clear
      BY <1>1, SameCommand
    <2> QED
      BY <1>2, <1>3, <1>8, <2>1, <2>2, <2>3, Zenon DEF Inv, MemoryInv, RootInv
  <1>14. LayoutInv'
    <2> SUFFICES ASSUME Clear PROVE LayoutInv'
      BY <1>1, SameCommand, Zenon DEF LayoutInv
    <2>1. \A c \in DOMAIN mem' : c >= TableAddr => mem'[c] = <<"table", c>>
      BY <1>2, <1>9, Zenon DEF Inv, MemoryInv, LayoutInv
    <2>2. \A k \in 1 .. cmd.kernel : StartAddr + k - 1 \in DOMAIN mem
      BY <1>3, <1>0, Layout DEF Clear
    <2>3. \A k \in 1 .. cmd.kernel : mem'[StartAddr + k - 1] = <<"kernel", k>>
      BY <1>2, <1>8, <2>2, Zenon DEF Inv, MemoryInv, LayoutInv
    <2>4. 1 .. i' = {}
      <3>1. i = 0
        BY <1>2, Zenon DEF Inv, MemoryInv, ProgressInv
      <3> QED
        BY <1>1, <3>1
    <2> QED
      BY <1>1, <2>1, <2>3, <2>4, Zenon DEF LayoutInv
  <1>15. OverrunInv'
    <2>1. TableAddr \in DOMAIN mem
      BY <1>3, <1>0, Layout
    <2>2. i' = 0 /\ args' = ArgsAddr
      BY <1>1, <1>2, Zenon DEF Inv, MemoryInv, ProgressInv
    <2>3. ~(args' > StartAddr \/ ArgvAddr + 2 * i' > StartAddr)
      BY <2>2, Layout
    <2> QED
      BY <1>1, <1>2, <1>8, <2>1, <2>3, Zenon DEF Inv, MemoryInv, OverrunInv
  <1>16. PushInv' /\ PopInv'
    BY <1>1, <1>2, Zenon DEF Inv, StartInv, PushInv, PopInv
  <1> QED
    BY <1>10, <1>11, <1>12, <1>13, <1>14, <1>15, <1>16, Zenon DEF MemoryInv

(* w is m with the address v in the table at slot, and string k, n cells   *)
(* long, at v.                                                             *)
ArgStored(w, m, slot, v, k, n) ==
  /\ DOMAIN w = DOMAIN m
  /\ \A c \in DOMAIN m : c \notin slot .. slot + 1 /\ c \notin v .. v + n - 1
       => w[c] = m[c]
  /\ \A c \in DOMAIN m : c \in slot .. slot + 1 \/ c \in v .. v + n - 1
       => \/ w[c] = <<"lo", v>> \/ w[c] = <<"hi", v>>
          \/ \E j \in 1 .. n : w[c] = <<"arg", k, j>>
  /\ \A j \in 1 .. n : v + j - 1 \in DOMAIN m => w[v + j - 1] = <<"arg", k, j>>
  /\ slot + 1 < v => /\ slot \in DOMAIN m => w[slot] = <<"lo", v>>
                     /\ slot + 1 \in DOMAIN m => w[slot + 1] = <<"hi", v>>

LEMMA ArgumentStore ==
  ASSUME NEW m, DOMAIN m \subseteq Nat, NEW slot \in Nat, NEW v \in Nat,
         NEW k, NEW n \in Nat
  PROVE  LET s == [j \in 1 .. n |-> <<"arg", k, j>>] IN
           ArgStored(vm_mem_write(vm_mem_write(m, slot, Number(v)), v, s),
                     m, slot, v, k, n)
  <1>0. PICK w, s : /\ s = [j \in 1 .. n |-> <<"arg", k, j>>]
                    /\ w = vm_mem_write(vm_mem_write(m, slot, Number(v)), v, s)
    OBVIOUS
  <1>14. Len(s) = n /\ \A j \in 1 .. n : s[j] = <<"arg", k, j>>
    BY <1>0
  <1>1. PICK u : u = vm_mem_write(m, slot, Number(v))
    OBVIOUS
  <1>2. PICK z \in Nat : z = 2
    OBVIOUS
  <1>3. /\ Len(Number(v)) = z /\ slot \in Int /\ v \in Int
        /\ Number(v)[1] = <<"lo", v>> /\ Number(v)[2] = <<"hi", v>>
    BY <1>2 DEF Number
  <1>4. /\ DOMAIN u = DOMAIN m
        /\ \A c \in DOMAIN m : c < slot \/ c >= slot + z => u[c] = m[c]
        /\ \A j \in 1 .. z : slot + j - 1 \in DOMAIN m =>
             u[slot + j - 1] = Number(v)[j]
    <2>1. Stored(u, m, slot, Number(v), z)
      BY <1>1, <1>3, WriteFacts, Zenon
    <2> QED
      BY <2>1, Zenon DEF Stored
  <1>5. /\ \A c \in DOMAIN m : c \notin slot .. slot + 1 => u[c] = m[c]
        /\ slot \in DOMAIN m => u[slot] = <<"lo", v>>
        /\ slot + 1 \in DOMAIN m => u[slot + 1] = <<"hi", v>>
    <2>1. \A c \in DOMAIN m : c \notin slot .. slot + 1 => c < slot \/ c >= slot + z
      BY <1>2
    <2>2. 1 \in 1 .. z /\ 2 \in 1 .. z /\ slot + 1 - 1 = slot /\ slot + 2 - 1 = slot + 1
      BY <1>2
    <2> QED
      BY <1>3, <1>4, <2>1, <2>2, Zenon
  <1>6. w = vm_mem_write(u, v, s)
    BY <1>0, <1>1, Zenon
  <1>7. /\ DOMAIN w = DOMAIN u
        /\ \A c \in DOMAIN u : c < v \/ c >= v + n => w[c] = u[c]
        /\ \A j \in 1 .. n : v + j - 1 \in DOMAIN u => w[v + j - 1] = s[j]
    <2>1. Stored(w, u, v, s, n)
      BY <1>3, <1>4, <1>6, <1>14, WriteFacts, Zenon
    <2> QED
      BY <2>1, Zenon DEF Stored
  <1>8. \A c \in DOMAIN m : c \notin v .. v + n - 1 => w[c] = u[c]
    <2>1. \A c \in DOMAIN m : c \notin v .. v + n - 1 => c < v \/ c >= v + n
      OBVIOUS
    <2> QED
      BY <1>4, <1>7, <2>1, Zenon
  <1>9. \A j \in 1 .. n : v + j - 1 \in DOMAIN m => w[v + j - 1] = <<"arg", k, j>>
    BY <1>4, <1>7, <1>14, Zenon
  <1>10. ASSUME NEW c \in DOMAIN m, c \in v .. v + n - 1
         PROVE  \E j \in 1 .. n : w[c] = <<"arg", k, j>>
    <2>1. c - v + 1 \in 1 .. n /\ v + (c - v + 1) - 1 = c
      BY <1>10
    <2> QED
      BY <1>9, <2>1, Zenon
  <1>11. ASSUME NEW c \in DOMAIN m, c \in slot .. slot + 1, c \notin v .. v + n - 1
         PROVE  w[c] = <<"lo", v>> \/ w[c] = <<"hi", v>>
    <2>1. c = slot \/ c = slot + 1
      BY <1>11
    <2> QED
      BY <1>5, <1>8, <1>11, <2>1, Zenon
  <1>12. ASSUME slot + 1 < v
         PROVE  /\ slot \in DOMAIN m => w[slot] = <<"lo", v>>
                /\ slot + 1 \in DOMAIN m => w[slot + 1] = <<"hi", v>>
    <2>1. slot \notin v .. v + n - 1 /\ slot + 1 \notin v .. v + n - 1
      BY <1>12
    <2> QED
      BY <1>5, <1>8, <2>1, Zenon
  <1>13. ArgStored(w, m, slot, v, k, n)
    BY <1>4, <1>5, <1>7, <1>8, <1>9, <1>10, <1>11, <1>12, Zenon DEF ArgStored
  <1> QED
    BY <1>0, <1>13, Zenon

LEMMA ArgumentStep ==
  ASSUME Inv, main_arg, UNCHANGED <<vmcs, bootVars>>, pc' = "args"
  PROVE  MemoryInv' /\ PushInv' /\ PopInv'
  <1>1. /\ pc = "args" /\ i < Len(cmd.args) /\ i' = i + 1
        /\ UNCHANGED <<cmd, rsp, entry>>
        /\ mem' = vm_mem_write(vm_mem_write(mem, ArgvAddr + 2 * i, Number(args)),
                               args, String(i + 1))
        /\ args' = args + Len(String(i + 1))
    <2>1. pc' # "vcpu_destroy"
      OBVIOUS
    <2> QED
      BY <2>1, Zenon DEF main_arg, Fail, Advance
  <1>2. /\ pc \in Up /\ pc' \in Up /\ pc' \in Loaded /\ pc' \in Late
        /\ pc \in Loaded /\ pc \in Late /\ pc \in Starting
        /\ pc' \notin {"push_argc", "push_entry", "run", "vcpu", "setup",
                       "options", "kernel", "plugin", "app"}
        /\ pc' \notin Starting \ (Late \cup {"options"})
        /\ pc' \notin Late \ {"args"}
    BY <1>1 DEF Up, Late, Loaded, Starting
  <1>3. /\ DOMAIN mem = 0 .. TableAddr + LowTables + AppTables - 1
        /\ DOMAIN mem \subseteq Nat /\ cmd \in Commands /\ cmd.kernel \in Nat
        /\ Argc \in Nat /\ i \in Nat /\ args \in Nat
        /\ at \in Booting /\ at' = at /\ args = Before(i + 1)
    <2>1. at = "words" /\ at' = at
      BY <1>2, Here DEF bootVars
    <2>2. at \in Booting
      BY <2>1 DEF Booting
    <2> QED
      BY <1>2, <2>1, <2>2, Here, Zenon DEF Inv, MemoryInv, DomainInv, ProgressInv
  <1>4. PICK k \in 1 .. Argc : k = i + 1
    BY <1>1, <1>3 DEF Argc
  <1>5. PICK n \in Nat \ {0} : n = cmd.args[k]
    BY <1>3, StringPlaces
  <1>6. /\ Len(String(k)) = n /\ \A j \in 1 .. n : String(k)[j] = <<"arg", k, j>>
    BY <1>5 DEF String
  <1>7. PICK slot \in Nat : slot = ArgvAddr + 2 * i
    BY <1>3, Layout
  <1>8. /\ args = Before(k) /\ args' = args + n /\ args + n = Before(k + 1)
        /\ ArgsAddr <= args
        /\ args + n <= Before(Argc + 1) /\ Before(Argc + 1) \in Nat
    <2>1. args + n = Before(k + 1)
      BY <1>3, <1>4, <1>5, StringPlaces
    <2>2. k + 1 \in 1 .. Argc + 1 /\ k \in 1 .. Argc + 1 /\ 1 \in 1 .. Argc + 1
          /\ Argc + 1 \in 1 .. Argc + 1 /\ k + 1 <= Argc + 1 /\ 1 <= k
      BY <1>3
    <2>3. Before(k + 1) <= Before(Argc + 1) /\ Before(1) <= Before(k)
          /\ Before(1) = ArgsAddr /\ Before(Argc + 1) \in Nat
      BY <1>3, <2>2, StringPlaces
    <2> QED
      BY <1>1, <1>3, <1>4, <1>6, <2>1, <2>3, Zenon
  <1>9. /\ DOMAIN mem' = DOMAIN mem
        /\ \A c \in DOMAIN mem :
             c \notin slot .. slot + 1 /\ c \notin args .. args + n - 1
               => mem'[c] = mem[c]
        /\ \A c \in DOMAIN mem : c \in slot .. slot + 1 \/ c \in args .. args + n - 1
             => \/ mem'[c] = <<"lo", args>> \/ mem'[c] = <<"hi", args>>
                \/ \E j \in 1 .. n : mem'[c] = <<"arg", k, j>>
        /\ \A j \in 1 .. n : args + j - 1 \in DOMAIN mem =>
             mem'[args + j - 1] = <<"arg", k, j>>
        /\ slot + 1 < args =>
             /\ slot \in DOMAIN mem => mem'[slot] = <<"lo", args>>
             /\ slot + 1 \in DOMAIN mem => mem'[slot + 1] = <<"hi", args>>
    <2>1. String(k) = [j \in 1 .. n |-> <<"arg", k, j>>]
      BY <1>5, Zenon DEF String
    <2>2. PICK v \in Nat, z \in Nat : v = args /\ z = n
      BY <1>3
    <2>3. ArgStored(vm_mem_write(vm_mem_write(mem, slot, Number(v)), v,
                                 [j \in 1 .. z |-> <<"arg", k, j>>]),
                    mem, slot, v, k, z)
      BY <1>3, ArgumentStore, Zenon
    <2>4. ArgStored(mem', mem, slot, args, k, n)
      BY <1>1, <1>4, <1>7, <2>1, <2>2, <2>3, Zenon
    <2> QED
      BY <2>4, Zenon DEF ArgStored
  <1>10. /\ ArgvAddr <= slot /\ slot + 1 < ArgvAddr + 2 * Argc
         /\ ArgvAddr + 2 * i' = slot + 2 /\ args' = args + n
    BY <1>1, <1>3, <1>4, <1>7, <1>8, Layout
  <1>11. \A c \in DOMAIN mem : c < ArgvAddr => mem'[c] = mem[c]
    <2>1. \A c \in DOMAIN mem : c < ArgvAddr =>
            c \notin slot .. slot + 1 /\ c \notin args .. args + n - 1
      <3>1. ArgvAddr <= slot /\ ArgvAddr <= args /\ ArgvAddr \in Nat
        BY <1>3, <1>8, <1>10, Layout
      <3>2. \A c, v, s, r \in Nat : c < v /\ v <= s /\ v <= r =>
              c \notin s .. s + 1 /\ c \notin r .. r + n - 1
        OBVIOUS
      <3> QED
        BY <1>3, <3>1, <3>2, Zenon
    <2> QED
      BY <1>9, <2>1, Zenon
  <1>12. Clear => \A c \in DOMAIN mem : c >= StartAddr => mem'[c] = mem[c]
    <2>1. Clear => \A c \in DOMAIN mem : c >= StartAddr =>
            c \notin slot .. slot + 1 /\ c \notin args .. args + n - 1
      <3>1. Clear => slot + 1 < StartAddr /\ args + n <= StartAddr
        <4>0. PICK e \in Nat : e = ArgvAddr + 2 * Argc
          BY <1>3, Layout
        <4>1. PICK b \in Nat : e = ArgvAddr + 2 * Argc /\ b = Before(Argc + 1)
          BY <1>8, <4>0, Zenon
        <4>2. Clear => e <= StartAddr /\ b <= StartAddr
          BY <4>1, Zenon DEF Clear
        <4>3. slot + 1 < e /\ args + n <= b
          BY <1>8, <1>10, <4>1, Zenon
        <4>4. slot + 1 \in Nat /\ args + n \in Nat /\ StartAddr \in Nat
          BY <1>3, Layout
        <4>5. \A s, v, c, d, e1 \in Nat : s < c /\ v <= d /\ c <= e1 /\ d <= e1 =>
                s < e1 /\ v <= e1
          OBVIOUS
        <4> QED
          BY <4>2, <4>3, <4>4, <4>5, Zenon
      <3> QED
        BY <1>3, <3>1, Layout
    <2> QED
      BY <1>9, <2>1, Zenon
  <1>13. \A c \in DOMAIN mem :
           \/ mem'[c] = mem[c] \/ mem'[c] = <<"lo", args>>
           \/ mem'[c] = <<"hi", args>> \/ \E j \in 1 .. n : mem'[c] = <<"arg", k, j>>
    BY <1>9, Zenon
  <1>14. DomainInv'
    BY <1>1, <1>2, <1>9, Zenon DEF Inv, MemoryInv, DomainInv
  <1>15. ProgressInv'
    <2>1. i' \in 0 .. Argc' /\ args' = Before(i' + 1)
      BY <1>1, <1>3, <1>4, <1>8, SameCommand
    <2>2. (Before(i + 1))' = Before(i' + 1)
      BY <1>1, Zenon DEF Before, Strings
    <2> QED
      BY <1>1, <1>2, <2>1, <2>2, Zenon DEF Inv, MemoryInv, ProgressInv
  <1>16. LowInv'
    <2>1. \A c \in 0 .. GdtLen - 1 : c \in DOMAIN mem /\ c < ArgvAddr
      BY <1>3, Layout
    <2> QED
      BY <1>2, <1>11, <2>1, Zenon DEF Inv, MemoryInv, LowInv
  <1>17. RootInv'
    <2>1. /\ StackAddr - 1 \in DOMAIN mem /\ StackAddr - 1 < ArgvAddr
          /\ \A c \in StackAddr .. ArgvAddr - 1 : c \in DOMAIN mem /\ c < ArgvAddr
      BY <1>3, Layout
    <2>2. ASSUME Clear, NEW c \in DOMAIN mem, c >= ArgvAddr
          PROVE  mem'[c] # Root
      <3>1. args # TableAddr
        BY <1>3, <1>8, <2>2, Layout DEF Clear
      <3>2. /\ <<"lo", args>> # Root /\ <<"hi", args>> # Root
            /\ \A j \in 1 .. n : <<"arg", k, j>> # Root
        BY <3>1, CellKinds DEF Root
      <3>3. mem[c] # Root
        BY <1>2, <1>3, <2>2, Zenon DEF Inv, MemoryInv, RootInv
      <3> QED
        BY <1>13, <3>2, <3>3, Zenon
    <2>3. Clear' => Clear
      BY <1>1, SameCommand
    <2> QED
      BY <1>2, <1>3, <1>9, <1>11, <2>1, <2>2, <2>3, Zenon
      DEF Inv, MemoryInv, RootInv
  <1>18. LayoutInv'
    <2> SUFFICES ASSUME Clear PROVE LayoutInv'
      BY <1>1, SameCommand, Zenon DEF LayoutInv
    <2>1. \A c \in DOMAIN mem' : c >= TableAddr => mem'[c] = <<"table", c>>
      <3>1. \A c \in DOMAIN mem : c >= TableAddr => c >= StartAddr
        BY <1>3, Layout
      <3> QED
        BY <1>2, <1>9, <1>12, <3>1, Zenon DEF Inv, MemoryInv, LayoutInv
    <2>2. \A l \in 1 .. cmd.kernel : mem'[StartAddr + l - 1] = <<"kernel", l>>
      <3>1. \A l \in 1 .. cmd.kernel : /\ StartAddr + l - 1 \in DOMAIN mem
                                       /\ StartAddr + l - 1 >= StartAddr
        BY <1>3, Layout DEF Clear
      <3> QED
        BY <1>2, <1>12, <3>1, Zenon DEF Inv, MemoryInv, LayoutInv
    <2>3. ASSUME Fits, NEW l \in 1 .. k
          PROVE  /\ mem'[ArgvAddr + 2 * (l - 1)] = <<"lo", Before(l)>>
                 /\ mem'[ArgvAddr + 2 * (l - 1) + 1] = <<"hi", Before(l)>>
                 /\ \A j \in 1 .. cmd.args[l] :
                      mem'[Before(l) + j - 1] = <<"arg", l, j>>
      <3>1. ArgvAddr + 2 * Argc <= ArgsAddr /\ Before(Argc + 1) <= StartAddr
        BY <1>3, <2>3, Layout DEF Fits, Argc
      <3>2. CASE l = k
        <4>1. /\ slot + 1 < args /\ slot \in DOMAIN mem /\ slot + 1 \in DOMAIN mem
              /\ ArgvAddr + 2 * (l - 1) = slot
          BY <1>3, <1>4, <1>7, <1>8, <1>10, <3>1, <3>2, Layout
        <4>2. \A j \in 1 .. n : args + j - 1 \in DOMAIN mem
          BY <1>3, <1>8, <3>1, Layout
        <4> QED
          BY <1>5, <1>8, <1>9, <3>2, <4>1, <4>2, Zenon
      <3>3. CASE l # k
        <4>1. l \in 1 .. i
          BY <1>3, <1>4, <3>3
        <4>2. /\ mem[ArgvAddr + 2 * (l - 1)] = <<"lo", Before(l)>>
              /\ mem[ArgvAddr + 2 * (l - 1) + 1] = <<"hi", Before(l)>>
              /\ \A j \in 1 .. cmd.args[l] :
                   mem[Before(l) + j - 1] = <<"arg", l, j>>
          BY <1>2, <2>3, <4>1, Zenon DEF Inv, MemoryInv, LayoutInv, Pushed
        <4>3. /\ ArgvAddr + 2 * (l - 1) \in DOMAIN mem
              /\ ArgvAddr + 2 * (l - 1) + 1 \in DOMAIN mem
              /\ ArgvAddr + 2 * (l - 1) + 1 < slot
              /\ ArgvAddr + 2 * (l - 1) + 1 < args
          BY <1>3, <1>7, <1>8, <3>1, <4>1, <1>10, Layout
        <4>4. /\ mem'[ArgvAddr + 2 * (l - 1)] = mem[ArgvAddr + 2 * (l - 1)]
              /\ mem'[ArgvAddr + 2 * (l - 1) + 1] = mem[ArgvAddr + 2 * (l - 1) + 1]
          <5>1. \A c \in DOMAIN mem : c < slot /\ c < args =>
                  c \notin slot .. slot + 1 /\ c \notin args .. args + n - 1
            BY <1>3
          <5>2. ArgvAddr + 2 * (l - 1) < slot /\ ArgvAddr + 2 * (l - 1) < args
            BY <1>3, <4>1, <4>3, Layout
          <5> QED
            BY <1>9, <4>3, <5>1, <5>2, Zenon
        <4>5. /\ Before(l) \in Nat /\ cmd.args[l] \in Nat
              /\ ArgsAddr <= Before(l) /\ Before(l) + cmd.args[l] <= args
          <5>1. /\ l \in 1 .. Argc /\ l + 1 \in 1 .. Argc + 1 /\ k \in 1 .. Argc + 1
                /\ l + 1 <= k /\ 1 \in 1 .. Argc + 1 /\ l \in 1 .. Argc + 1 /\ 1 <= l
            BY <1>3, <1>4, <4>1
          <5>2. Before(l + 1) <= Before(k) /\ Before(1) <= Before(l)
            BY <1>3, <5>1, StringPlaces
          <5>3. /\ Before(l + 1) = Before(l) + cmd.args[l] /\ Before(1) = ArgsAddr
                /\ cmd.args[l] \in Nat /\ Before(l) \in Nat
            BY <1>3, <5>1, StringPlaces
          <5> QED
            BY <1>8, <5>2, <5>3, Zenon
        <4>6. ASSUME NEW j \in 1 .. cmd.args[l]
              PROVE  mem'[Before(l) + j - 1] = mem[Before(l) + j - 1]
          <5>1. /\ Before(l) + j - 1 \in DOMAIN mem
                /\ Before(l) + j - 1 \notin slot .. slot + 1
                /\ Before(l) + j - 1 \notin args .. args + n - 1
            <6>1. PICK b \in Nat, q \in Nat : b = Before(l) /\ q = cmd.args[l]
              BY <4>5
            <6>2. j \in 1 .. q /\ ArgsAddr <= b /\ b + q <= args /\ args < StartAddr
              BY <1>3, <1>8, <3>1, <4>5, <6>1, Layout
            <6>3. slot + 1 < ArgsAddr
              BY <1>3, <1>10, <3>1, Layout
            <6>4. /\ b + j - 1 \in DOMAIN mem
                  /\ b + j - 1 \notin slot .. slot + 1
                  /\ b + j - 1 \notin args .. args + n - 1
              <7>1. \A x, s, v, h, r \in Nat : r < v /\ x <= r /\ s + 1 < x /\ v <= h =>
                      /\ x \in 0 .. h /\ x \notin s .. s + 1
                      /\ x \notin v .. v + n - 1
                BY <1>3
              <7>2. PICK h \in Nat, x \in Nat :
                      /\ h = TableAddr + LowTables + AppTables - 1 /\ x = b + j - 1
                BY <6>2, Layout
              <7>3. x < args /\ slot + 1 < x /\ args <= h /\ x <= x
                BY <1>3, <6>2, <6>3, <7>2, Layout
              <7> QED
                BY <1>3, <7>1, <7>2, <7>3, Zenon
            <6> QED
              BY <6>1, <6>4, Zenon
          <5> QED
            BY <1>9, <5>1, Zenon
        <4> QED
          BY <4>2, <4>4, <4>6, Zenon
      <3> QED
        BY <3>2, <3>3
    <2>4. /\ Fits' => Fits /\ Argc' = Argc /\ i' = k
          /\ \A l : Before(l)' = Before(l)
      BY <1>1, <1>4, SameCommand
    <2> QED
      BY <1>1, <2>1, <2>2, <2>3, <2>4, Zenon DEF LayoutInv, Pushed
  <1>19. OverrunInv'
    <2>1. TableAddr \in DOMAIN mem /\ StartAddr \in DOMAIN mem
      BY <1>3, Layout
    <2>2. \A c \in DOMAIN mem : mem[c] # <<"table", TableAddr>> =>
            mem'[c] # <<"table", TableAddr>>
      <3>1. /\ <<"lo", args>> # <<"table", TableAddr>>
            /\ <<"hi", args>> # <<"table", TableAddr>>
            /\ \A j \in 1 .. n : <<"arg", k, j>> # <<"table", TableAddr>>
        BY CellKinds
      <3> QED
        BY <1>13, <3>1, Zenon
    <2>3. /\ <<"lo", args>> # <<"kernel", 1>> /\ <<"hi", args>> # <<"kernel", 1>>
          /\ \A j \in 1 .. n : <<"arg", k, j>> # <<"kernel", 1>>
      BY CellKinds
    <2>4. ASSUME args' > StartAddr \/ ArgvAddr + 2 * i' > StartAddr
          PROVE  mem'[StartAddr] # <<"kernel", 1>>
      <3>1. CASE args > StartAddr \/ ArgvAddr + 2 * i > StartAddr
        <4>1. mem[StartAddr] # <<"kernel", 1>>
          BY <1>2, <3>1, Zenon DEF Inv, MemoryInv, OverrunInv
        <4> QED
          BY <1>13, <2>1, <2>3, <4>1, Zenon
      <3>2. CASE ~(args > StartAddr \/ ArgvAddr + 2 * i > StartAddr)
        <4>1. StartAddr \in slot .. slot + 1 \/ StartAddr \in args .. args + n - 1
          BY <1>3, <1>7, <1>10, <2>4, <3>2, Layout
        <4> QED
          BY <1>9, <2>1, <2>3, <4>1, Zenon
      <3> QED
        BY <3>1, <3>2
    <2> QED
      BY <1>1, <1>2, <2>1, <2>2, <2>4, Zenon DEF Inv, MemoryInv, OverrunInv
  <1>20. PushInv' /\ PopInv'
    BY <1>1, <1>2, Zenon DEF Inv, StartInv, PushInv, PopInv
  <1> QED
    BY <1>14, <1>15, <1>16, <1>17, <1>18, <1>19, <1>20, Zenon DEF MemoryInv

(* A store that stays between the table of descriptors and the arguments,  *)
(* and off the root's address as long as the guest needs that.             *)
LEMMA StackStore ==
  ASSUME Inv, UNCHANGED <<cmd, i, args, entry>>,
         pc \in Late, i = Argc, pc' \in Late \ {"args"},
         DOMAIN mem' = DOMAIN mem,
         \A c \in DOMAIN mem : c < GdtLen \/ c >= ArgvAddr => mem'[c] = mem[c],
         at' \in Booting =>
           /\ at \in Booting
           /\ \A c \in DOMAIN mem : c >= StackAddr - 1 => mem'[c] = mem[c]
  PROVE  MemoryInv'
  <1>1. /\ pc \in Up /\ pc' \in Up /\ pc' \in Loaded /\ pc' \in Late
        /\ pc \in Loaded /\ pc \in Late
        /\ pc' \notin {"vcpu", "setup", "options", "kernel", "plugin", "app"}
        /\ pc' \notin Starting \ (Late \cup {"options"})
    BY DEF Up, Late, Loaded, Starting
  <1>2. /\ DOMAIN mem = 0 .. TableAddr + LowTables + AppTables - 1
        /\ Argc \in Nat /\ cmd \in Commands /\ cmd.kernel \in Nat
    BY <1>1, Here, Zenon DEF Inv, MemoryInv, DomainInv, ProgressInv
  <1>3. /\ Argc' = Argc /\ (Before(i + 1))' = Before(i + 1)
    BY Zenon DEF Before, Strings, Argc
  <1>4. DomainInv' /\ ProgressInv'
    BY <1>1, <1>3, Zenon DEF Inv, MemoryInv, DomainInv, ProgressInv
  <1>5. LowInv'
    <2>1. \A c \in 0 .. GdtLen - 1 : c \in DOMAIN mem /\ c < GdtLen
      BY <1>2, Layout
    <2> QED
      BY <1>1, <2>1, Zenon DEF Inv, MemoryInv, LowInv
  <1>6. \A c \in DOMAIN mem : c >= ArgvAddr => mem'[c] = mem[c]
    OBVIOUS
  <1>7. RootInv'
    <2>1. /\ StackAddr - 1 \in DOMAIN mem /\ StackAddr - 1 >= StackAddr - 1
          /\ \A c \in StackAddr .. ArgvAddr - 1 :
               c \in DOMAIN mem /\ c >= StackAddr - 1
          /\ \A c \in DOMAIN mem : c >= ArgvAddr => c >= StackAddr - 1
      BY <1>2, Layout
    <2>2. Clear' => Clear
      BY SameCommand
    <2> QED
      BY <1>1, <2>1, <2>2, Zenon DEF Inv, MemoryInv, RootInv
  <1>8. LayoutInv'
    <2> SUFFICES ASSUME Clear PROVE LayoutInv'
      BY SameCommand, Zenon DEF LayoutInv
    <2>1. \A c \in DOMAIN mem' : c >= TableAddr => mem'[c] = <<"table", c>>
      <3>1. \A c \in DOMAIN mem : c >= TableAddr => c >= ArgvAddr
        BY <1>2, Layout
      <3> QED
        BY <1>1, <1>6, <3>1, Zenon DEF Inv, MemoryInv, LayoutInv
    <2>2. \A k \in 1 .. cmd.kernel : mem'[StartAddr + k - 1] = <<"kernel", k>>
      <3>1. \A k \in 1 .. cmd.kernel : /\ StartAddr + k - 1 \in DOMAIN mem
                                        /\ StartAddr + k - 1 >= ArgvAddr
        BY <1>2, Layout DEF Clear
      <3> QED
        BY <1>1, <1>6, <3>1, Zenon DEF Inv, MemoryInv, LayoutInv
    <2>3. ASSUME Fits, NEW k \in 1 .. i
          PROVE  /\ mem'[ArgvAddr + 2 * (k - 1)] = <<"lo", Before(k)>>
                 /\ mem'[ArgvAddr + 2 * (k - 1) + 1] = <<"hi", Before(k)>>
                 /\ \A j \in 1 .. cmd.args[k] :
                      mem'[Before(k) + j - 1] = <<"arg", k, j>>
      <3>1. /\ mem[ArgvAddr + 2 * (k - 1)] = <<"lo", Before(k)>>
            /\ mem[ArgvAddr + 2 * (k - 1) + 1] = <<"hi", Before(k)>>
            /\ \A j \in 1 .. cmd.args[k] : mem[Before(k) + j - 1] = <<"arg", k, j>>
        BY <1>1, <2>3, Zenon DEF Inv, MemoryInv, LayoutInv, Pushed
      <3>2. ArgvAddr + 2 * Argc <= ArgsAddr /\ Before(Argc + 1) <= StartAddr
        BY <1>2, <2>3, Layout DEF Fits, Argc
      <3>3. /\ ArgvAddr + 2 * (k - 1) \in DOMAIN mem
            /\ ArgvAddr + 2 * (k - 1) + 1 \in DOMAIN mem
            /\ ArgvAddr + 2 * (k - 1) >= ArgvAddr
            /\ ArgvAddr + 2 * (k - 1) + 1 >= ArgvAddr
        BY <1>2, <3>2, Layout
      <3>4. \A j \in 1 .. cmd.args[k] : /\ Before(k) + j - 1 \in DOMAIN mem
                                         /\ Before(k) + j - 1 >= ArgvAddr
        <4>1. /\ k \in 1 .. Argc /\ k + 1 \in 1 .. Argc + 1 /\ 1 \in 1 .. Argc + 1
              /\ Argc + 1 \in 1 .. Argc + 1 /\ k \in 1 .. Argc + 1
              /\ k + 1 <= Argc + 1 /\ 1 <= k
          BY <1>2
        <4>2. /\ Before(1) <= Before(k) /\ Before(k + 1) <= Before(Argc + 1)
              /\ Before(1) = ArgsAddr /\ Before(k) \in Nat
              /\ Before(k + 1) = Before(k) + cmd.args[k] /\ cmd.args[k] \in Nat
          BY <1>2, <4>1, StringPlaces
        <4>3. PICK b \in Nat, q \in Nat : b = Before(k) /\ q = cmd.args[k]
          BY <4>2
        <4>4. ArgsAddr <= b /\ b + q <= StartAddr
          <5>1. Before(Argc + 1) \in Nat
            BY <1>2, <4>1, StringPlaces
          <5> QED
            BY <3>2, <4>2, <4>3, <5>1, Layout
        <4>5. \A j \in 1 .. q : b + j - 1 \in DOMAIN mem /\ b + j - 1 >= ArgvAddr
          BY <1>2, <4>4, Layout
        <4> QED
          BY <4>3, <4>5, Zenon
      <3> QED
        BY <1>6, <3>1, <3>3, <3>4, Zenon
    <2>4. /\ Fits' => Fits /\ Argc' = Argc
          /\ \A l : Before(l)' = Before(l)
      BY SameCommand
    <2> QED
      BY <2>1, <2>2, <2>3, <2>4, Zenon DEF LayoutInv, Pushed
  <1>9. OverrunInv'
    <2>1. /\ TableAddr \in DOMAIN mem /\ StartAddr \in DOMAIN mem
          /\ TableAddr >= ArgvAddr /\ StartAddr >= ArgvAddr
      BY <1>2, Layout
    <2> QED
      BY <1>1, <1>6, <2>1, Zenon DEF Inv, MemoryInv, OverrunInv
  <1> QED
    BY <1>4, <1>5, <1>7, <1>8, <1>9, Zenon DEF MemoryInv

(* The loop over the arguments ends.                                       *)
LEMMA ArgumentsDone ==
  ASSUME Inv, main_args_done, UNCHANGED <<vmcs, bootVars>>
  PROVE  MemoryInv' /\ PushInv' /\ PopInv'
  <1>1. /\ pc = "args" /\ pc' = "push_argv" /\ i = Argc
        /\ UNCHANGED <<cmd, i, mem, args, entry, rsp>>
        /\ at' = at
    BY DEF main_args_done, Proceed, Argc, bootVars
  <1>2. pc \in Late /\ pc' \in Late \ {"args"} /\ pc' \notin {"push_argc", "push_entry", "run"}
    BY <1>1 DEF Late
  <1>3. MemoryInv'
    BY <1>1, <1>2, StackStore, Zenon
  <1>4. PushInv' /\ PopInv'
    BY <1>1, <1>2, Zenon DEF Inv, StartInv, PushInv, PopInv
  <1> QED
    BY <1>3, <1>4

(* One push64, whether it stores and whether it moves the stack pointer.   *)
LEMMA PushStore ==
  ASSUME Inv, NEW v, push64(v), pc \in Late,
         rsp \in {StackAddr - 1, StackAddr - 3, StackAddr - 5}
  PROVE  /\ rsp' \in {rsp, rsp - 2}
         /\ DOMAIN mem' = DOMAIN mem
         /\ \A c \in DOMAIN mem : c < rsp - 2 \/ c >= rsp => mem'[c] = mem[c]
         /\ rsp' # rsp => mem'[rsp - 2] = <<"lo", v>> /\ mem'[rsp - 1] = <<"hi", v>>
  <1>1. CASE UNCHANGED <<mem, rsp>>
    BY <1>1, Zenon
  <1>2. CASE mem' = vm_mem_write(mem, rsp - 2, Number(v)) /\ rsp' \in {rsp, rsp - 2}
    <2>1. /\ DOMAIN mem = 0 .. TableAddr + LowTables + AppTables - 1
          /\ DOMAIN mem \subseteq Nat /\ rsp \in Nat
      BY Here, Zenon DEF Inv, MemoryInv, DomainInv
    <2>2. PICK z \in Nat : z = 2
      OBVIOUS
    <2>3. PICK a \in Int : a = rsp - 2
      BY <2>1
    <2>4. /\ Len(Number(v)) = z
          /\ Number(v)[1] = <<"lo", v>> /\ Number(v)[2] = <<"hi", v>>
      BY <2>2 DEF Number
    <2>5. Stored(mem', mem, a, Number(v), z)
      BY <1>2, <2>1, <2>3, <2>4, WriteFacts, Zenon
    <2>6. /\ DOMAIN mem' = DOMAIN mem
          /\ \A c \in DOMAIN mem : c < a \/ c >= a + z => mem'[c] = mem[c]
          /\ \A k \in 1 .. z : a + k - 1 \in DOMAIN mem => mem'[a + k - 1] = Number(v)[k]
      BY <2>5, Zenon DEF Stored
    <2>7. /\ a + z = rsp /\ a + 1 - 1 = rsp - 2 /\ a + 2 - 1 = rsp - 1
          /\ 1 \in 1 .. z /\ 2 \in 1 .. z
      BY <2>1, <2>2, <2>3
    <2>8. rsp - 2 \in DOMAIN mem /\ rsp - 1 \in DOMAIN mem
      BY <2>1, Layout
    <2> QED
      BY <1>2, <2>3, <2>4, <2>6, <2>7, <2>8, Zenon
  <1> QED
    BY <1>1, <1>2 DEF push64

LEMMA PushStep ==
  ASSUME Inv, main_push, UNCHANGED <<vmcs, bootVars>>
  PROVE  MemoryInv' /\ PushInv' /\ PopInv'
  <1> DEFINE S == StackAddr
  <1>1. /\ UNCHANGED <<cmd, i, args, entry>> /\ UNCHANGED <<at, entered, saved>>
        /\ pc \in {"push_argv", "push_argc", "push_entry"}
        /\ pc' \in {"push_argc", "push_entry", "run"}
    BY DEF main_push, bootVars
  <1>2. /\ pc \in Late \ {"args"} /\ pc' \in Late \ {"args"} /\ pc \in Late
        /\ pc \in Starting
    BY <1>1 DEF Late, Starting
  <1>3. /\ rsp \in Nat /\ DOMAIN mem = 0 .. TableAddr + LowTables + AppTables - 1
        /\ saved = <<>> /\ ~entered /\ i = Argc
    BY <1>2, Here, Zenon
    DEF Inv, MemoryInv, DomainInv, ProgressInv, StartInv, AppInv
  <1>4. /\ rsp \in {S - 1, S - 3, S - 5}
        /\ pc = "push_argv" => rsp = S - 1
        /\ pc = "push_argc" => /\ rsp \in {S - 1, S - 3}
                               /\ rsp = S - 3 => Pushed(S - 3, ArgvAddr)
        /\ pc = "push_entry" /\ rsp = S - 5 => /\ Pushed(S - 3, ArgvAddr)
                                              /\ Pushed(S - 5, Argc)
    BY <1>1 DEF Inv, StartInv, PushInv
  <1>5. PICK v : /\ push64(v)
                 /\ pc = "push_argv" => v = ArgvAddr /\ pc' = "push_argc"
                 /\ pc = "push_argc" => v = Argc /\ pc' = "push_entry"
                 /\ pc = "push_entry" => v = entry /\ pc' = "run"
    BY <1>1 DEF main_push, Argc
  <1>6. /\ rsp' \in {rsp, rsp - 2}
        /\ DOMAIN mem' = DOMAIN mem
        /\ \A c \in DOMAIN mem : c < rsp - 2 \/ c >= rsp => mem'[c] = mem[c]
        /\ rsp' # rsp => mem'[rsp - 2] = <<"lo", v>> /\ mem'[rsp - 1] = <<"hi", v>>
    BY <1>2, <1>4, <1>5, PushStore, Zenon
  <1>7. MemoryInv'
    <2>1. \A c \in DOMAIN mem :
            c < GdtLen \/ c >= S - 1 \/ c >= ArgvAddr => mem'[c] = mem[c]
      <3>1. \A c \in DOMAIN mem :
              c < GdtLen \/ c >= S - 1 \/ c >= ArgvAddr => c < rsp - 2 \/ c >= rsp
        BY <1>3, <1>4, Layout
      <3> QED
        BY <1>6, <3>1, Zenon
    <2> QED
      BY <1>1, <1>2, <1>3, <1>6, <2>1, StackStore, Zenon
  <1>8. ASSUME rsp = S - 3 \/ rsp = S - 5, Pushed(S - 3, ArgvAddr)
        PROVE  mem'[S - 3] = <<"lo", ArgvAddr>> /\ mem'[S - 3 + 1] = <<"hi", ArgvAddr>>
    <2>1. S - 3 \in DOMAIN mem /\ S - 3 + 1 \in DOMAIN mem
          /\ S - 3 >= rsp /\ S - 3 + 1 >= rsp
      BY <1>3, <1>8, Layout
    <2> QED
      BY <1>6, <1>8, <2>1, Zenon DEF Pushed
  <1>9. ASSUME rsp = S - 5, Pushed(S - 5, Argc)
        PROVE  mem'[S - 5] = <<"lo", Argc>> /\ mem'[S - 5 + 1] = <<"hi", Argc>>
    <2>1. S - 5 \in DOMAIN mem /\ S - 5 + 1 \in DOMAIN mem
          /\ S - 5 >= rsp /\ S - 5 + 1 >= rsp
      BY <1>3, <1>9, Layout
    <2> QED
      BY <1>6, <1>9, <2>1, Zenon DEF Pushed
  <1>10. /\ \A n : rsp' = n /\ n # rsp => mem'[n] = <<"lo", v>> /\ mem'[n + 1] = <<"hi", v>>
    <2>1. (rsp - 2) + 1 = rsp - 1
      BY <1>3
    <2> QED
      BY <1>6, <2>1, Zenon
  <1>11. Argc' = Argc
    BY <1>1, SameCommand
  <1>12. CASE pc = "push_argv"
    <2>1. pc' = "push_argc" /\ v = ArgvAddr /\ rsp = S - 1
      BY <1>4, <1>5, <1>12
    <2>2. rsp' \in {S - 1, S - 3} /\ (rsp' = S - 3 => rsp' # rsp)
      BY <1>3, <1>6, <2>1, Layout
    <2>3. rsp' = S - 3 => mem'[S - 3] = <<"lo", ArgvAddr>> /\ mem'[S - 3 + 1] = <<"hi", ArgvAddr>>
      BY <1>10, <2>1, <2>2, Zenon
    <2>4. PushInv' /\ PopInv'
      BY <2>1, <2>2, <2>3 DEF PushInv, PopInv, Pushed
    <2> QED
      BY <1>7, <2>4
  <1>13. CASE pc = "push_argc"
    <2>1. pc' = "push_entry" /\ v = Argc /\ rsp \in {S - 1, S - 3}
      BY <1>4, <1>5, <1>13
    <2>2. /\ rsp' \in {S - 1, S - 3, S - 5}
          /\ rsp' = S - 5 => rsp' # rsp /\ rsp = S - 3
      BY <1>3, <1>6, <2>1, Layout
    <2>3. rsp' = S - 5 => mem'[S - 5] = <<"lo", Argc>> /\ mem'[S - 5 + 1] = <<"hi", Argc>>
      BY <1>10, <2>1, <2>2, Zenon
    <2>4. rsp' = S - 5 => mem'[S - 3] = <<"lo", ArgvAddr>> /\ mem'[S - 3 + 1] = <<"hi", ArgvAddr>>
      BY <1>4, <1>8, <1>13, <2>2, Zenon
    <2>5. PushInv' /\ PopInv'
      BY <1>11, <2>1, <2>2, <2>3, <2>4 DEF PushInv, PopInv, Pushed
    <2> QED
      BY <1>7, <2>5
  <1>14. CASE pc = "push_entry"
    <2>1. pc' = "run" /\ v = entry
      BY <1>5, <1>14
    <2>2. /\ rsp' \in Tops
          /\ rsp' = S - 7 => rsp' # rsp /\ rsp = S - 5
      <3>1. \A s, x, y \in Int : x \in {s - 1, s - 3, s - 5} /\ y \in {x, x - 2} =>
              /\ y \in {s - 1, s - 3, s - 5, s - 7}
              /\ y = s - 7 => y # x /\ x = s - 5
        OBVIOUS
      <3>2. S \in Int /\ rsp \in Int /\ rsp' \in Int
        BY <1>3, <1>6, Layout
      <3> QED
        BY <1>4, <1>6, <3>1, <3>2, Zenon DEF Tops
    <2>3. rsp' = S - 7 => mem'[S - 7] = <<"lo", entry>> /\ mem'[S - 7 + 1] = <<"hi", entry>>
      BY <1>10, <2>1, <2>2, Zenon
    <2>4. rsp' = S - 7 => /\ mem'[S - 5] = <<"lo", Argc>> /\ mem'[S - 5 + 1] = <<"hi", Argc>>
                         /\ mem'[S - 3] = <<"lo", ArgvAddr>>
                         /\ mem'[S - 3 + 1] = <<"hi", ArgvAddr>>
      BY <1>4, <1>8, <1>9, <1>14, <2>2, Zenon
    <2>5. rsp' = S - 7 => StackWords'
      BY <1>1, <1>11, <2>3, <2>4, Zenon DEF StackWords, Pushed
    <2>6. saved' = <<>> /\ ~entered' /\ Len(saved') = 0 /\ 1 .. Len(saved') = {}
      BY <1>1, <1>3
    <2>7. rsp' - Len(saved') = rsp'
      <3>1. \A x \in {rsp, rsp - 2} : x - 0 = x
        BY <1>3
      <3> QED
        BY <1>6, <2>6, <3>1, Zenon
    <2>8. PopInv'
      BY <2>2, <2>5, <2>6, <2>7, Zenon DEF PopInv
    <2>9. PushInv'
      BY <2>1 DEF PushInv
    <2> QED
      BY <1>7, <2>8, <2>9
  <1> QED
    BY <1>1, <1>12, <1>13, <1>14

-----------------------------------------------------------------------------
(* All steps of main, and the return from vcpu_run.                        *)

LEMMA SamePrepared ==
  ASSUME cmd' = cmd, sp0' = sp0, torn' = torn
  PROVE  Prepared' <=> Prepared
  BY SameCommand, Zenon DEF Prepared

(* Behind the run only the verdict on the guest remains.                   *)
LEMMA LeavingStep ==
  ASSUME Inv, UNCHANGED <<cmd, vmcs, sp0, cpu, torn>>,
         pc' \notin Starting \cup {"run"},
         entry' = entry \/ (cmd.main /\ entry' = EntryGva),
         at' \in {"words"} \cup Ended, at' = "words" => at = "words",
         at' \in {"stopped", "refused"} => ~Prepared
  PROVE  MemoryInv' /\ StartInv'
  <1>1. /\ pc' # "run" /\ pc' \notin Starting
        /\ pc' \notin {"kernel", "plugin", "app", "args", "push_argv", "push_argc",
                       "push_entry"}
    BY DEF Starting
  <1>2. MemoryInv'
    BY LeavingKeeps
  <1>3. PushInv' /\ PopInv' /\ SavedInv'
    BY <1>1, Zenon DEF PushInv, PopInv, SavedInv
  <1>4. /\ at' \notin {"cr3", "rdmsr", "wrmsr", "paging", "segments", "long", "app",
                       "halt", "lost", "astray"}
    BY DEF Ended
  <1>5. ControlInv'
    <2>1. at' = "words" => vmcs_setup'
      BY Zenon DEF Inv, StartInv, ControlInv, vmcs_setup
    <2>2. DOMAIN cpu' = {"eax", "cr3", "cr4", "rip", "rdi", "rsi"}
      BY Zenon DEF Inv, StartInv, ControlInv
    <2> QED
      BY <1>4, <2>1, <2>2 DEF ControlInv
  <1>6. AppInv'
    <2>1. at' \in {"lost", "stopped", "refused"} => ~Prepared'
      BY <1>4, SamePrepared
    <2>2. at' \in Booting \cup {"long", "app", "halt", "lost", "astray"} \cup Ended
      BY DEF Booting
    <2> QED
      BY <1>1, <1>4, <2>1, <2>2 DEF AppInv
  <1> QED
    BY <1>2, <1>3, <1>5, <1>6 DEF StartInv

LEMMA MainKeeps ==
  ASSUME Inv, Main
  PROVE  MemoryInv' /\ StartInv'
  <1>1. UNCHANGED <<vmcs, bootVars>> /\ UNCHANGED <<vmcs, at, cpu, sp0>>
    BY DEF Main, bootVars
  <1>2. CASE pc' \notin Starting \cup {"run"}
    <2>1. /\ pc # "run" /\ cmd' = cmd /\ torn' = torn
          /\ entry' = entry \/ (cmd.main /\ entry' = EntryGva)
      <3>1. CASE SetUp
        <4>1. ~Mapped("vcpu") /\ ~Mapped("args")
          BY <1>2 DEF Mapped, Proceed, Starting
        <4> QED
          BY <3>1, <4>1
          DEF SetUp, getopt, main_options_done, hv_vm_create, vm_mem_init,
              hv_vcpu_create, vcpu_setup_ia32, load_raw, load_plugin,
              load_mach_obj, main_arg, main_args_done, main_push
      <3>2. CASE CleanUp
        BY <3>2 DEF CleanUp, hv_vcpu_destroy, hv_vm_destroy
      <3>3. CASE Over
        BY <3>3 DEF Over, vars
      <3> QED
        BY <3>1, <3>2, <3>3 DEF Main
    <2>2. /\ at \in {"words"} \cup Ended
          /\ at \in {"lost", "stopped", "refused"} => ~Prepared
      BY <2>1, Zenon DEF Inv, StartInv, AppInv
    <2> QED
      BY <1>1, <1>2, <2>1, <2>2, LeavingStep
  <1>3. CASE pc' \in Starting \cup {"run"}
    <2>1. SetUp
      <3>1. ~CleanUp
        BY <1>3 DEF CleanUp, hv_vcpu_destroy, hv_vm_destroy, Proceed, Fail, Starting
      <3>2. ~Over
        BY <1>3 DEF Over, vars, Starting
      <3> QED
        BY <3>1, <3>2 DEF Main
    <2>2. pc \in Starting
      BY <2>1
      DEF SetUp, Starting, getopt, main_options_done, hv_vm_create,
          vm_mem_init, hv_vcpu_create, vcpu_setup_ia32, load_raw,
          load_plugin, load_mach_obj, main_arg, main_args_done, main_push
    <2>3. SavedInv' /\ ControlInv' /\ AppInv'
      BY <1>1, <2>2, WaitingGuest
    <2>4. pc' \notin {"vm_destroy", "vcpu_destroy", "exit", "crashed"}
      BY <1>3 DEF Starting
    <2>5. CASE getopt
      <3>1. UNCHANGED <<cmd, args, entry>> /\ pc = "options" /\ pc' = "options"
        BY <2>4, <2>5 DEF getopt, Proceed, Usage
      <3> QED
        BY <2>3, <3>1, EarlySteps DEF StartInv, Starting, Late
    <2>6. CASE main_options_done
      <3>1. UNCHANGED <<cmd, args, entry>> /\ pc = "options" /\ pc' = "vm" /\ i' = 0
        BY <2>4, <2>6 DEF main_options_done, Proceed, Usage
      <3> QED
        BY <2>3, <3>1, EarlySteps DEF StartInv, Starting, Late
    <2>7. CASE hv_vm_create
      <3>1. UNCHANGED <<cmd, i, args, entry>> /\ pc = "vm" /\ pc' = "mem"
        BY <2>4, <2>7 DEF hv_vm_create, Proceed, Fail
      <3>2. pc \in Starting \ (Late \cup {"options"})
        BY <3>1 DEF Starting, Late
      <3>3. i' = 0
        BY <3>1, <3>2, Zenon DEF Inv, MemoryInv, ProgressInv
      <3> QED
        BY <2>3, <3>1, <3>2, <3>3, EarlySteps DEF StartInv
    <2>8. CASE vm_mem_init
      <3>1. pc' = "vcpu"
        BY <2>4, <2>8 DEF vm_mem_init, Mapped, Proceed, Fail
      <3> QED
        BY <1>1, <2>3, <2>8, <3>1, InitStep DEF StartInv
    <2>9. CASE hv_vcpu_create
      <3>1. pc' = "setup"
        BY <2>4, <2>9 DEF hv_vcpu_create, Proceed, Fail
      <3> QED
        BY <1>1, <2>3, <2>9, <3>1, CreateStep DEF StartInv
    <2>10. CASE vcpu_setup_ia32
      <3>1. pc' = "kernel"
        BY <2>4, <2>10 DEF vcpu_setup_ia32, Proceed, Fail
      <3> QED
        BY <1>1, <2>3, <2>10, <3>1, SetupStep DEF StartInv
    <2>11. CASE load_raw
      <3>1. pc' = "plugin"
        BY <2>4, <2>11 DEF load_raw, Proceed, Fail
      <3> QED
        BY <1>1, <2>3, <2>11, <3>1, KernelStep DEF StartInv
    <2>12. CASE load_plugin
      <3>1. pc' = "app"
        BY <2>4, <2>12 DEF load_plugin, Proceed, Fail
      <3> QED
        BY <1>1, <2>3, <2>12, <3>1, PluginStep DEF StartInv
    <2>13. CASE load_mach_obj
      <3>1. pc' = "args"
        BY <2>4, <2>13 DEF load_mach_obj, Mapped, Proceed, Fail
      <3> QED
        BY <1>1, <2>3, <2>13, <3>1, ApplicationStep DEF StartInv
    <2>14. CASE main_arg
      <3>1. pc' = "args"
        BY <2>4, <2>14 DEF main_arg, Proceed, Fail
      <3> QED
        BY <1>1, <2>3, <2>14, <3>1, ArgumentStep DEF StartInv
    <2>15. CASE main_args_done
      BY <1>1, <2>3, <2>15, ArgumentsDone DEF StartInv
    <2>16. CASE main_push
      BY <1>1, <2>3, <2>16, PushStep DEF StartInv
    <2> QED
      BY <2>1, <2>5, <2>6, <2>7, <2>8, <2>9, <2>10, <2>11, <2>12, <2>13, <2>14,
         <2>15, <2>16 DEF SetUp
  <1> QED
    BY <1>2, <1>3

-----------------------------------------------------------------------------
(* The steps of the guest.                                                 *)

(* Two neighbours of a sequence.                                           *)
LEMMA Pair ==
  ASSUME NEW s, NEW m \in Int
  PROVE  SubSeq(s, m, m + 1) = <<s[m], s[m + 1]>>
  <1>0. PICK S : S = {s[m], s[m + 1]}
    OBVIOUS
  <1>1. PICK n \in Int : n = m + 1
    OBVIOUS
  <1>2. \A k \in m .. n : s[k] \in S
    <2>1. \A k \in m .. n : k = m \/ k = m + 1
      BY <1>1
    <2> QED
      BY <1>0, <1>1, <2>1, Zenon
  <1>3. /\ SubSeq(s, m, n) \in Seq(S)
        /\ Len(SubSeq(s, m, n)) = IF m <= n THEN n - m + 1 ELSE 0
        /\ \A k \in 1 .. n - m + 1 : SubSeq(s, m, n)[k] = s[m + k - 1]
    BY <1>2, SubSeqProperties
  <1>4. PICK t \in Seq(S) :
          /\ t = SubSeq(s, m, n) /\ Len(t) = IF m <= n THEN n - m + 1 ELSE 0
          /\ \A k \in 1 .. n - m + 1 : t[k] = s[m + k - 1]
    BY <1>3, Zenon
  <1>5. /\ Len(t) = 2 /\ 1 \in 1 .. n - m + 1 /\ 2 \in 1 .. n - m + 1
        /\ m + 1 - 1 = m /\ m + 2 - 1 = m + 1
    BY <1>1, <1>4
  <1>6. t[1] = s[m] /\ t[2] = s[m + 1]
    BY <1>4, <1>5, Zenon
  <1>7. \A u \in Seq(S) : Len(u) = 2 => u = <<u[1], u[2]>>
    OBVIOUS
  <1> QED
    BY <1>1, <1>4, <1>5, <1>6, <1>7, Zenon

LEMMA Running ==
  ASSUME Inv, pc = "run"
  PROVE  /\ DOMAIN mem = 0 .. TableAddr + LowTables + AppTables - 1
         /\ Size = TableAddr + LowTables + AppTables
         /\ i = Argc /\ args = Before(Argc + 1) /\ Before(Argc + 1) \in Nat
         /\ pc \in Late /\ pc \in Up /\ pc \in Loaded /\ pc \notin Starting
         /\ at \in Booting \cup {"long", "app", "halt", "lost", "astray"}
  <1>1. pc \in Late /\ pc \in Up /\ pc \in Loaded /\ pc \in Late \ {"args"}
        /\ pc \notin Starting
    BY DEF Late, Up, Loaded, Starting
  <1>2. PICK top \in Nat \ {0} : top = TableAddr + LowTables + AppTables
    BY Layout
  <1>3. /\ DOMAIN mem = 0 .. TableAddr + LowTables + AppTables - 1
        /\ i = Argc /\ args = Before(i + 1)
    BY <1>1, Zenon DEF Inv, MemoryInv, DomainInv, ProgressInv
  <1>4. Size = top
    <2>1. Cardinality(0 .. top - 1) = IF 0 > top - 1 THEN 0 ELSE (top - 1) - 0 + 1
      BY FS_Interval
    <2>2. 0 .. TableAddr + LowTables + AppTables - 1 = 0 .. top - 1
      BY <1>2, Layout
    <2>3. Cardinality(0 .. top - 1) = top
      BY <2>1
    <2> QED
      BY <1>3, <2>2, <2>3, Zenon DEF Size
  <1>5. Before(Argc + 1) \in Nat
    BY Here, StringPlaces
  <1>6. at \in Booting \cup {"long", "app", "halt", "lost", "astray"}
    BY Zenon DEF Inv, StartInv, AppInv
  <1> QED
    BY <1>1, <1>2, <1>3, <1>4, <1>5, <1>6, Zenon

LEMMA FitsClear ==
  ASSUME cmd \in Commands, Fits
  PROVE  Clear
  <1>1. Argc \in Nat /\ Len(cmd.args) = Argc
    BY StringPlaces DEF Argc
  <1>2. 2 * Argc <= ArgsAddr - ArgvAddr /\ Before(Argc + 1) <= StartAddr
        /\ StartAddr + cmd.kernel <= TableAddr
    BY <1>1, Zenon DEF Fits
  <1>3. ArgvAddr + 2 * Argc <= StartAddr
    BY <1>1, <1>2, Layout
  <1> QED
    BY <1>2, <1>3, Zenon DEF Clear

(* Code and tables that are intact when the guest runs tell that nothing   *)
(* has run into them.                                                      *)
LEMMA IntactClear ==
  ASSUME Inv, pc = "run", mem[StartAddr] = <<"kernel", 1>>, TablesIntact
  PROVE  Clear
  <1>1. mem[TableAddr] = <<"table", TableAddr>>
    <2>1. TableAddr \in TableAddr .. Size - 1
      <3>1. Size = TableAddr + LowTables + AppTables
        BY Running
      <3> QED
        BY <3>1, Layout
    <2> QED
      BY <2>1, Zenon DEF TablesIntact
  <1>2. pc \in Late /\ pc \in Loaded
    BY Running
  <1>3. /\ ~(StartAddr + cmd.kernel > TableAddr)
        /\ ~(args > StartAddr \/ ArgvAddr + 2 * i > StartAddr)
    BY <1>1, <1>2, Zenon DEF Inv, MemoryInv, OverrunInv
  <1>4. /\ cmd.kernel \in Nat /\ Argc \in Nat /\ i = Argc
        /\ args = Before(Argc + 1) /\ args \in Nat
    BY Here, Running
  <1>5. /\ ArgvAddr + 2 * Argc <= StartAddr /\ args <= StartAddr
        /\ StartAddr + cmd.kernel <= TableAddr
    BY <1>3, <1>4, Layout
  <1> QED
    BY <1>4, <1>5, Zenon DEF Clear

(* A guest that runs with paging on has been set up properly.              *)
LEMMA Whole ==
  ASSUME Inv, pc = "run", at \in {"segments", "long"}, Runs
  PROVE  Clear /\ sp0 = StackAddr - 7 /\ cpu.cr3 = Root /\ CodeIntact
  <1>1. "PG" \in vmcs.cr0
    BY DEF Inv, StartInv, ControlInv
  <1>2. CodeIntact /\ cpu.cr3 = Root /\ TablesIntact
    BY <1>1, Zenon DEF Runs, PagingWorks, Root
  <1>3. mem[StartAddr] = <<"kernel", 1>>
    <2>1. 1 \in 1 .. BootLen /\ StartAddr + 1 - 1 = StartAddr
      BY BootAssumption, Layout
    <2> QED
      BY <1>2, <2>1, Zenon DEF CodeIntact
  <1>4. Clear
    BY <1>2, <1>3, IntactClear
  <1>5. sp0 = StackAddr - 7
    BY <1>2, <1>4 DEF Inv, StartInv, SavedInv
  <1> QED
    BY <1>2, <1>4, <1>5

(* The other way round: one that was set up properly does not derail.      *)
LEMMA PreparedRuns ==
  ASSUME Inv, pc = "run", at \in Booting \cup {"long"}, Prepared
  PROVE  Runs
  <1>1. Clear /\ cmd.kernel \in Nat /\ cmd.kernel >= BootLen /\ sp0 = StackAddr - 7
    BY Here, FitsClear DEF Prepared
  <1>2. CodeIntact
    <2>1. \A k \in 1 .. BootLen : k \in 1 .. cmd.kernel
      BY <1>1, BootAssumption
    <2> QED
      BY <1>1, <2>1, Running, Zenon DEF CodeIntact, Inv, MemoryInv, LayoutInv
  <1>3. ASSUME "PG" \in vmcs.cr0
        PROVE  PagingWorks
    <2>1. at \in {"segments", "long"}
      <3>1. at \notin {"words", "cr3", "rdmsr", "wrmsr"}
        BY <1>3 DEF Inv, StartInv, ControlInv, vmcs_setup
      <3>2. at # "paging"
        BY <1>3 DEF Inv, StartInv, ControlInv
      <3> QED
        BY <3>1, <3>2 DEF Booting
    <2>2. cpu.cr3 = Root
      BY <1>1, <2>1 DEF Inv, StartInv, SavedInv
    <2>3. TablesIntact
      <3>1. \A c \in TableAddr .. Size - 1 : c \in DOMAIN mem /\ c >= TableAddr
        <4>1. /\ DOMAIN mem = 0 .. TableAddr + LowTables + AppTables - 1
              /\ Size = TableAddr + LowTables + AppTables
          BY Running
        <4> QED
          BY <4>1, Layout
      <3> QED
        BY <1>1, <3>1, Running, Zenon
        DEF TablesIntact, Prepared, Inv, MemoryInv, LayoutInv
    <2> QED
      BY <2>2, <2>3 DEF PagingWorks, Root
  <1> QED
    BY <1>2, <1>3 DEF Runs

(* A step that stores nothing.                                             *)
LEMMA GuestKeeps ==
  ASSUME Inv, pc = "run", UNCHANGED <<pc, cmd, i, args, entry, mem>>,
         at' \in Booting => at \in Booting
  PROVE  MemoryInv' /\ PushInv'
  <1>1. pc \in Late /\ i = Argc /\ pc' \in Late \ {"args"}
    BY Running DEF Late
  <1>2. MemoryInv'
    BY <1>1, StackStore
  <1>3. PushInv'
    BY DEF PushInv
  <1> QED
    BY <1>2, <1>3

(* The loop of vcpu_run enters the guest, or a time slice ends.            *)
LEMMA EnterStep ==
  ASSUME Inv, pc = "run", UNCHANGED <<vars, at, vmcs, saved, cpu>>,
         \/ entered' = TRUE /\ ~entered
            /\ sp0' = IF at = "words" /\ saved = <<>> THEN rsp ELSE sp0
         \/ entered' = FALSE /\ entered /\ sp0' = sp0
  PROVE  MemoryInv' /\ StartInv'
  <1>1. UNCHANGED <<pc, cmd, i, args, entry, mem, rsp, torn>>
    BY DEF vars
  <1>2. MemoryInv' /\ PushInv'
    BY <1>1, GuestKeeps
  <1>3. Argc' = Argc /\ (Clear' <=> Clear)
    BY <1>1, SameCommand
  <1>4. at # "words" => sp0' = sp0
    OBVIOUS
  <1>5. PopInv'
    <2> SUFFICES ASSUME at = "words" PROVE PopInv'
      BY Zenon DEF PopInv
    <2>1. /\ rsp - Len(saved) \in Tops
          /\ entered \/ saved # <<>> => sp0 = rsp - Len(saved)
          /\ rsp - Len(saved) = StackAddr - 7 =>
               /\ StackWords
               /\ \A k \in 1 .. Len(saved) : saved[k] = mem[StackAddr - 8 + k]
      BY Zenon DEF Inv, StartInv, PopInv
    <2>2. saved = <<>> => rsp - Len(saved) = rsp
      BY Here
    <2>3. entered' \/ saved # <<>> => sp0' = rsp - Len(saved)
      <3>1. CASE saved = <<>>
        <4>1. sp0' = rsp \/ entered' = FALSE
          BY <3>1
        <4> QED
          BY <2>2, <3>1, <4>1
      <3>2. CASE saved # <<>>
        <4>1. sp0' = sp0
          BY <3>2
        <4> QED
          BY <2>1, <3>2, <4>1, Zenon
      <3> QED
        BY <3>1, <3>2
    <2>4. StackWords' <=> StackWords
      BY <1>1, <1>3, Zenon DEF StackWords, Pushed
    <2> QED
      BY <1>1, <2>1, <2>3, <2>4, Zenon DEF PopInv
  <1>6. SavedInv'
    <2> SUFFICES ASSUME at # "words" PROVE SavedInv'
      BY DEF SavedInv, Booting
    <2> QED
      BY <1>1, <1>3, <1>4, Zenon DEF Inv, StartInv, SavedInv
  <1>7. ControlInv'
    BY Zenon DEF Inv, StartInv, ControlInv, vmcs_setup
  <1>8. AppInv'
    <2>1. at \in {"lost", "stopped", "refused"} => ~Prepared'
      <3>1. at \in {"lost", "stopped", "refused"} => at # "words"
        OBVIOUS
      <3> QED
        BY <1>1, <1>4, <3>1, SamePrepared, Zenon DEF Inv, StartInv, AppInv
    <2>2. CodeIntact' <=> CodeIntact
      BY <1>1, Zenon DEF CodeIntact
    <2>3. pc' \notin Starting
      BY <1>1, Running
    <2>4. at = "app" => sp0' = sp0
      BY <1>4
    <2>5. Enterable' <=> Enterable
      BY Zenon DEF Enterable, EntryValid
    <2> QED
      BY <1>1, <1>3, <2>1, <2>2, <2>3, <2>4, <2>5, Zenon DEF Inv, StartInv, AppInv
  <1> QED
    BY <1>2, <1>5, <1>6, <1>7, <1>8 DEF StartInv

(* pop eax, six times.                                                     *)
LEMMA PopStep ==
  ASSUME Inv, pop_words
  PROVE  MemoryInv' /\ StartInv'
  <1> DEFINE n == Len(saved)
  <1>1. /\ pc = "run" /\ entered /\ at = "words" /\ entered' = entered
        /\ UNCHANGED <<pc, cmd, i, args, entry, mem, vmcs, cpu, sp0>>
        /\ saved' = Append(saved, mem[rsp]) /\ rsp' = rsp + 1
        /\ at' = IF n = 5 THEN "cr3" ELSE "words"
    BY DEF pop_words, Guest, MainWaits, NoExit
  <1>2. MemoryInv' /\ PushInv'
    BY <1>1, GuestKeeps DEF Booting
  <1>3. /\ n \in Nat /\ Len(saved') = n + 1 /\ rsp \in Nat /\ n <= 5
        /\ \A k \in 1 .. n : saved'[k] = saved[k]
        /\ saved'[n + 1] = mem[rsp]
    <2>1. saved \in Seq(Range(saved)) /\ n <= 5 /\ rsp \in Nat
      BY <1>1, Here DEF Inv, BootMainInv, GuestInv
    <2>2. PICK S : S = Range(saved) \cup {mem[rsp]}
      OBVIOUS
    <2>3. saved \in Seq(S) /\ mem[rsp] \in S
      BY <2>1, <2>2
    <2> QED
      BY <1>1, <2>1, <2>3
  <1>4. /\ sp0 \in Tops /\ sp0 = rsp - n
        /\ sp0 = StackAddr - 7 =>
             /\ StackWords
             /\ \A k \in 1 .. n : saved[k] = mem[StackAddr - 8 + k]
    BY <1>1, Zenon DEF Inv, StartInv, PopInv
  <1>5. Argc' = Argc /\ (Clear' <=> Clear)
    BY <1>1, SameCommand
  <1>6. rsp' - Len(saved') = sp0 /\ saved' # <<>>
    <2>1. rsp' - Len(saved') = sp0 /\ Len(saved') # 0
      BY <1>1, <1>3, <1>4
    <2> QED
      BY <2>1
  <1>7. ASSUME sp0 = StackAddr - 7
        PROVE  \A k \in 1 .. n + 1 : saved'[k] = mem[StackAddr - 8 + k]
    <2>1. rsp = StackAddr - 8 + (n + 1)
      BY <1>3, <1>4, <1>7, Layout
    <2>2. \A k \in 1 .. n + 1 : k \in 1 .. n \/ k = n + 1
      BY <1>3
    <2> QED
      BY <1>3, <1>4, <1>7, <2>1, <2>2, Zenon
  <1>8. StackWords' <=> StackWords
    BY <1>1, <1>5, Zenon DEF StackWords, Pushed
  <1>9. PopInv'
    BY <1>1, <1>3, <1>4, <1>6, <1>7, <1>8, Zenon DEF PopInv
  <1>10. SavedInv'
    <2> SUFFICES ASSUME n = 5, at' = "cr3" PROVE SavedInv'
      BY <1>1 DEF SavedInv, Booting
    <2>1. rsp' = sp0 + 6
      BY <1>1, <1>3, <1>4
    <2>2. ASSUME sp0 = StackAddr - 7
          PROVE  /\ saved'[1] = <<"lo", entry>> /\ saved'[2] = <<"hi", entry>>
                 /\ saved'[3] = <<"lo", Argc>> /\ saved'[4] = <<"hi", Argc>>
                 /\ saved'[5] = <<"lo", ArgvAddr>> /\ saved'[6] = <<"hi", ArgvAddr>>
      <3>1. \A k \in 1 .. 6 : saved'[k] = mem[StackAddr - 8 + k]
        BY <1>7, <2>2
      <3>2. /\ mem[StackAddr - 7] = <<"lo", entry>>
            /\ mem[StackAddr - 7 + 1] = <<"hi", entry>>
            /\ mem[StackAddr - 5] = <<"lo", Argc>>
            /\ mem[StackAddr - 5 + 1] = <<"hi", Argc>>
            /\ mem[StackAddr - 3] = <<"lo", ArgvAddr>>
            /\ mem[StackAddr - 3 + 1] = <<"hi", ArgvAddr>>
        BY <1>4, <2>2, Zenon DEF StackWords, Pushed
      <3>3. /\ StackAddr - 8 + 1 = StackAddr - 7 /\ StackAddr - 8 + 2 = StackAddr - 7 + 1
            /\ StackAddr - 8 + 3 = StackAddr - 5 /\ StackAddr - 8 + 4 = StackAddr - 5 + 1
            /\ StackAddr - 8 + 5 = StackAddr - 3 /\ StackAddr - 8 + 6 = StackAddr - 3 + 1
        BY Layout
      <3>4. 1 \in 1 .. 6 /\ 2 \in 1 .. 6 /\ 3 \in 1 .. 6 /\ 4 \in 1 .. 6 /\ 5 \in 1 .. 6
            /\ 6 \in 1 .. 6
        OBVIOUS
      <3> QED
        BY <3>1, <3>2, <3>3, <3>4, Zenon
    <2>3. at' # "long" /\ at' \notin {"rdmsr", "wrmsr", "paging", "segments", "long"}
      OBVIOUS
    <2> QED
      BY <1>1, <1>4, <1>5, <2>1, <2>2, <2>3, Zenon DEF SavedInv, Number
  <1>11. ControlInv'
    <2>1. vmcs_setup' /\ DOMAIN cpu' = {"eax", "cr3", "cr4", "rip", "rdi", "rsi"}
      BY <1>1, Zenon DEF Inv, StartInv, ControlInv, vmcs_setup
    <2> QED
      BY <1>1, <2>1 DEF ControlInv
  <1>12. AppInv'
    BY <1>1, Running DEF AppInv, Booting, Ended
  <1> QED
    BY <1>2, <1>9, <1>10, <1>11, <1>12 DEF StartInv

(* Six words further lies the root's address when all pushes have worked,  *)
(* and, in a clear layout, something else when one has not.                *)
LEMMA RootWord ==
  ASSUME Inv, pc = "run", at = "cr3"
  PROVE  /\ sp0 = StackAddr - 7 => mem[rsp] = Root
         /\ Clear /\ mem[rsp] = Root => sp0 = StackAddr - 7
  <1>1. /\ sp0 \in Tops /\ rsp = sp0 + 6
        /\ mem[StackAddr - 1] = Root
        /\ \A c \in StackAddr .. ArgvAddr - 1 : mem[c] = <<"zero", 0>>
        /\ Clear => \A c \in DOMAIN mem : c >= ArgvAddr => mem[c] # Root
    <2>1. at \in Booting /\ at \in (Booting \ {"words"}) \cup {"long"} /\ at # "long"
      BY DEF Booting
    <2> QED
      BY <2>1, Running, Zenon
      DEF Inv, StartInv, SavedInv, MemoryInv, RootInv
  <1>2. sp0 = StackAddr - 7 => rsp = StackAddr - 1
    BY <1>1, Layout
  <1>3. sp0 # StackAddr - 7 => rsp \in StackAddr .. TableAddr
    BY <1>1, BootAssumption, Layout DEF Tops
  <1>4. ASSUME Clear, rsp \in StackAddr .. TableAddr
        PROVE  mem[rsp] # Root
    <2>1. CASE rsp < ArgvAddr
      <3>1. rsp \in StackAddr .. ArgvAddr - 1
        BY <1>4, <2>1, Layout
      <3>2. <<"zero", 0>> # Root
        BY CellKinds DEF Root
      <3> QED
        BY <1>1, <3>1, <3>2, Zenon
    <2>2. CASE rsp >= ArgvAddr
      <3>1. rsp \in DOMAIN mem
        <4>1. DOMAIN mem = 0 .. TableAddr + LowTables + AppTables - 1
          BY Running
        <4> QED
          BY <1>4, <4>1, Layout
      <3> QED
        BY <1>1, <1>4, <2>2, <3>1, Zenon
    <2> QED
      BY <1>4, <2>1, <2>2, Layout
  <1> QED
    BY <1>1, <1>2, <1>3, <1>4, Zenon

(* The instructions up to paging: what they say about the control state    *)
(* and the root is all that changes.                                       *)
LEMMA ControlStep ==
  ASSUME Inv, load_cr3 \/ rdmsr \/ wrmsr \/ enable_paging, ControlInv',
         at' = "rdmsr" => /\ "PAE" \in cpu'.cr4
                          /\ sp0 = StackAddr - 7 => cpu'.cr3 = Root
                          /\ Clear /\ cpu'.cr3 = Root => sp0 = StackAddr - 7,
         at' # "rdmsr" => cpu'.cr3 = cpu.cr3 /\ cpu'.cr4 = cpu.cr4
  PROVE  MemoryInv' /\ StartInv'
  <1>1. /\ pc = "run" /\ UNCHANGED <<pc, cmd, i, args, entry, mem, rsp, saved, sp0>>
        /\ at \in {"cr3", "rdmsr", "wrmsr", "paging"}
        /\ at' \in {"rdmsr", "wrmsr", "paging", "segments"}
        /\ at' = "rdmsr" \/ at \in {"rdmsr", "wrmsr", "paging"}
    BY DEF load_cr3, rdmsr, wrmsr, enable_paging, Guest, MainWaits
  <1>2. /\ at \in Booting /\ at' \in Booting /\ at # "words" /\ at' # "words"
        /\ at # "long" /\ at' # "long" /\ at' \notin Ended
        /\ at' \notin {"app", "halt", "lost", "stopped", "refused", "astray"}
    BY <1>1 DEF Booting, Ended
  <1>3. MemoryInv' /\ PushInv'
    BY <1>1, <1>2, GuestKeeps
  <1>4. Argc' = Argc /\ (Clear' <=> Clear)
    BY <1>1, SameCommand
  <1>5. PopInv'
    BY <1>2, Zenon DEF PopInv
  <1>6. SavedInv'
    <2>1. /\ sp0 \in Tops /\ rsp = sp0 + 6
          /\ sp0 = StackAddr - 7 => /\ <<saved[1], saved[2]>> = Number(entry)
                                    /\ <<saved[3], saved[4]>> = Number(Argc)
                                    /\ <<saved[5], saved[6]>> = Number(ArgvAddr)
      <3>1. at \in (Booting \ {"words"}) \cup {"long"}
        BY <1>2
      <3> QED
        BY <1>1, <1>2, <3>1, Zenon DEF Inv, StartInv, SavedInv
    <2>2. /\ "PAE" \in cpu'.cr4
          /\ sp0 = StackAddr - 7 => cpu'.cr3 = Root
          /\ Clear /\ cpu'.cr3 = Root => sp0 = StackAddr - 7
      <3>1. CASE at' = "rdmsr"
        BY <3>1
      <3>2. CASE at' # "rdmsr"
        <4>1. at \in {"rdmsr", "wrmsr", "paging", "segments", "long"}
          BY <1>1, <3>2
        <4>2. /\ "PAE" \in cpu.cr4
              /\ sp0 = StackAddr - 7 => cpu.cr3 = Root
              /\ Clear /\ cpu.cr3 = Root => sp0 = StackAddr - 7
          BY <1>1, <4>1, Zenon DEF Inv, StartInv, SavedInv
        <4> QED
          BY <3>2, <4>2, Zenon
      <3> QED
        BY <3>1, <3>2
    <2> QED
      BY <1>1, <1>2, <1>4, <2>1, <2>2, Zenon DEF SavedInv
  <1>7. AppInv'
    BY <1>1, <1>2, Running DEF AppInv
  <1> QED
    BY <1>3, <1>5, <1>6, <1>7 DEF StartInv

LEMMA LoadRoot ==
  ASSUME Inv, load_cr3
  PROVE  MemoryInv' /\ StartInv'
  <1>1. /\ pc = "run" /\ at = "cr3" /\ at' = "rdmsr" /\ vmcs' = vmcs
        /\ cpu' = [cpu EXCEPT !.cr3 = mem[rsp], !.cr4 = @ \cup {"PGE", "PAE"}]
    BY DEF load_cr3, Guest
  <1>2. /\ DOMAIN cpu = {"eax", "cr3", "cr4", "rip", "rdi", "rsi"}
        /\ vmcs = [efer |-> {}, cr0 |-> {"PE", "ET", "NE"},
                   shadow |-> {"PE", "NE"}, lma |-> FALSE]
    BY <1>1 DEF Inv, StartInv, ControlInv, vmcs_setup
  <1>3. /\ DOMAIN cpu' = DOMAIN cpu /\ cpu'.cr3 = mem[rsp] /\ "PAE" \in cpu'.cr4
    BY <1>1, <1>2
  <1>4. ControlInv'
    BY <1>1, <1>2, <1>3 DEF ControlInv, vmcs_setup
  <1> QED
    BY <1>1, <1>3, <1>4, RootWord, ControlStep, Zenon

LEMMA ReadEfer ==
  ASSUME Inv, rdmsr
  PROVE  MemoryInv' /\ StartInv'
  <1>1. /\ at = "rdmsr" /\ at' = "wrmsr" /\ vmcs' = vmcs
        /\ cpu' = [cpu EXCEPT !.eax = vmcs.efer]
    BY DEF rdmsr, Guest
  <1>2. /\ DOMAIN cpu = {"eax", "cr3", "cr4", "rip", "rdi", "rsi"}
        /\ vmcs = [efer |-> {}, cr0 |-> {"PE", "ET", "NE"},
                   shadow |-> {"PE", "NE"}, lma |-> FALSE]
    BY <1>1 DEF Inv, StartInv, ControlInv, vmcs_setup
  <1>3. /\ DOMAIN cpu' = DOMAIN cpu /\ cpu'.cr3 = cpu.cr3 /\ cpu'.cr4 = cpu.cr4
        /\ cpu'.eax = {}
    BY <1>1, <1>2
  <1>4. ControlInv'
    BY <1>1, <1>2, <1>3 DEF ControlInv, vmcs_setup
  <1>5. at' # "rdmsr"
    BY <1>1
  <1> QED
    BY <1>3, <1>4, <1>5, ControlStep, Zenon

LEMMA WriteEfer ==
  ASSUME Inv, wrmsr
  PROVE  MemoryInv' /\ StartInv'
  <1>1. /\ at = "wrmsr" /\ at' = "paging" /\ cpu' = cpu
        /\ vmcs' = [vmcs EXCEPT !.efer = cpu.eax \cup {"LME"}]
    BY DEF wrmsr, Guest, wrmsr_efer
  <1>2. /\ DOMAIN cpu = {"eax", "cr3", "cr4", "rip", "rdi", "rsi"}
        /\ vmcs = [efer |-> {}, cr0 |-> {"PE", "ET", "NE"},
                   shadow |-> {"PE", "NE"}, lma |-> FALSE]
        /\ cpu.eax = {}
    BY <1>1 DEF Inv, StartInv, ControlInv, vmcs_setup
  <1>3. vmcs' = [efer |-> {"LME"}, cr0 |-> {"PE", "ET", "NE"},
                 shadow |-> {"PE", "NE"}, lma |-> FALSE]
    <2>1. {} \cup {"LME"} = {"LME"}
      OBVIOUS
    <2>2. vmcs' = [vmcs EXCEPT !.efer = {"LME"}]
      BY <1>1, <1>2, <2>1, Zenon
    <2> QED
      BY <1>2, <2>2
  <1>4. ControlInv'
    BY <1>1, <1>2, <1>3 DEF ControlInv
  <1>5. at' # "rdmsr"
    BY <1>1
  <1> QED
    BY <1>1, <1>4, <1>5, ControlStep, Zenon

LEMMA PagingOn ==
  ASSUME Inv, enable_paging
  PROVE  MemoryInv' /\ StartInv'
  <1>1. /\ at = "paging" /\ at' = "segments" /\ cpu' = cpu
        /\ vmcs' = mov_to_cr0(vmcs.shadow \cup {"PG", "MP"})
    BY DEF enable_paging, Guest
  <1>2. /\ DOMAIN cpu = {"eax", "cr3", "cr4", "rip", "rdi", "rsi"}
        /\ vmcs = [efer |-> {"LME"}, cr0 |-> {"PE", "ET", "NE"},
                   shadow |-> {"PE", "NE"}, lma |-> FALSE]
    BY <1>1, Zenon DEF Inv, StartInv, ControlInv
  <1>3. /\ {"LME", "LMA", "SCE"} \subseteq vmcs'.efer
        /\ {"PE", "NE", "PG"} \subseteq vmcs'.cr0 /\ vmcs'.lma = TRUE
    BY <1>1, <1>2 DEF mov_to_cr0, LongMode
  <1>4. ControlInv'
    BY <1>1, <1>2, <1>3 DEF ControlInv
  <1>5. at' # "rdmsr"
    BY <1>1
  <1> QED
    BY <1>1, <1>4, <1>5, ControlStep, Zenon

(* The task segment overwrites neither the arguments nor the words below.  *)
LEMMA SegmentStep ==
  ASSUME Inv, load_segments
  PROVE  MemoryInv' /\ StartInv'
  <1>1. /\ pc = "run" /\ at = "segments" /\ at' = "long" /\ Runs /\ rsp' = rsp + 1
        /\ UNCHANGED <<pc, cmd, i, args, entry, vmcs, saved, cpu, sp0>>
        /\ mem' = vm_mem_write(mem, StackAddr, Tss)
    BY DEF load_segments, Guest, MainWaits
  <1>2. /\ DOMAIN mem = 0 .. TableAddr + LowTables + AppTables - 1
        /\ DOMAIN mem \subseteq Nat /\ rsp \in Nat
        /\ pc \in Late /\ i = Argc /\ pc' \in Late \ {"args"} /\ pc' \notin Starting
        /\ at' \notin Booting /\ at' \notin Ended
    BY <1>1, Running, Here DEF Booting, Ended, Late
  <1>3. /\ DOMAIN mem' = DOMAIN mem
        /\ \A c \in DOMAIN mem : c < StackAddr \/ c >= StackAddr + TssLen =>
             mem'[c] = mem[c]
    <2>1. Len(Tss) = TssLen /\ TssLen \in Nat /\ StackAddr \in Int
      BY BootAssumption, Layout DEF Tss
    <2>2. Stored(mem', mem, StackAddr, Tss, TssLen)
      BY <1>1, <1>2, <2>1, WriteFacts, Zenon
    <2> QED
      BY <2>2, Zenon DEF Stored
  <1>4. MemoryInv'
    <2>1. \A c \in DOMAIN mem : c < GdtLen \/ c >= ArgvAddr =>
            c < StackAddr \/ c >= StackAddr + TssLen
      BY <1>2, BootAssumption, Layout
    <2> QED
      BY <1>1, <1>2, <1>3, <2>1, StackStore, Zenon
  <1>5. PushInv' /\ PopInv'
    BY <1>1 DEF PushInv, PopInv
  <1>6. Argc' = Argc /\ (Clear' <=> Clear)
    BY <1>1, SameCommand
  <1>7. SavedInv'
    <2>1. at \in (Booting \ {"words"}) \cup {"long"} /\ at # "long"
      BY <1>1 DEF Booting
    <2>2. /\ sp0 \in Tops /\ rsp = sp0 + 6
          /\ sp0 = StackAddr - 7 => /\ <<saved[1], saved[2]>> = Number(entry)
                                    /\ <<saved[3], saved[4]>> = Number(Argc)
                                    /\ <<saved[5], saved[6]>> = Number(ArgvAddr)
      BY <1>1, <2>1, Zenon DEF Inv, StartInv, SavedInv
    <2>3. /\ "PAE" \in cpu.cr4
          /\ sp0 = StackAddr - 7 => cpu.cr3 = Root
          /\ Clear /\ cpu.cr3 = Root => sp0 = StackAddr - 7
      BY <1>1, Zenon DEF Inv, StartInv, SavedInv
    <2>4. rsp' = sp0 + 7
      BY <1>1, <2>2, Layout DEF Tops
    <2> QED
      BY <1>1, <1>6, <2>2, <2>3, <2>4, Zenon DEF SavedInv
  <1>8. ControlInv'
    BY <1>1 DEF Inv, StartInv, ControlInv
  <1>9. AppInv'
    BY <1>1, <1>2 DEF AppInv
  <1> QED
    BY <1>4, <1>5, <1>7, <1>8, <1>9 DEF StartInv

(* The return address of the application goes over the root's address and  *)
(* the words below it, which have been taken.                              *)
LEMMA JumpStep ==
  ASSUME Inv, jump_to_app
  PROVE  MemoryInv' /\ StartInv'
  <1>1. /\ pc = "run" /\ at = "long" /\ Runs /\ rsp' = rsp - 2
        /\ UNCHANGED <<pc, cmd, i, args, entry, torn, vmcs, saved, sp0>>
        /\ mem' = vm_mem_write(mem, rsp - 4, SubSeq(saved, 1, 2) \o Halt)
        /\ cpu' = [cpu EXCEPT !.rip = SubSeq(saved, 1, 2),
                              !.rdi = SubSeq(saved, 3, 4),
                              !.rsi = SubSeq(saved, 5, 6)]
        /\ at' = IF SubSeq(saved, 1, 2) = Number(EntryGva) THEN "app" ELSE "lost"
    BY DEF jump_to_app, Guest, MainWaits
  <1>2. /\ DOMAIN mem = 0 .. TableAddr + LowTables + AppTables - 1
        /\ DOMAIN mem \subseteq Nat /\ pc \in Late /\ i = Argc
        /\ pc' \in Late \ {"args"} /\ pc' \notin Starting
        /\ at' \notin Booting /\ at' \notin Ended /\ at' \in {"app", "lost"}
    BY <1>1, Running, Here DEF Booting, Ended, Late
  <1>3. Clear /\ sp0 = StackAddr - 7 /\ cpu.cr3 = Root /\ CodeIntact
    BY <1>1, Whole
  <1>4. /\ rsp = sp0 + 7 /\ "PAE" \in cpu.cr4
        /\ <<saved[1], saved[2]>> = Number(entry)
        /\ <<saved[3], saved[4]>> = Number(Argc)
        /\ <<saved[5], saved[6]>> = Number(ArgvAddr)
    BY <1>1, <1>3 DEF Inv, StartInv, SavedInv
  <1>5. /\ SubSeq(saved, 1, 2) = Number(entry) /\ SubSeq(saved, 3, 4) = Number(Argc)
        /\ SubSeq(saved, 5, 6) = Number(ArgvAddr)
    <2>1. /\ SubSeq(saved, 1, 1 + 1) = <<saved[1], saved[1 + 1]>>
          /\ SubSeq(saved, 3, 3 + 1) = <<saved[3], saved[3 + 1]>>
          /\ SubSeq(saved, 5, 5 + 1) = <<saved[5], saved[5 + 1]>>
      <3>1. \A m \in Int : SubSeq(saved, m, m + 1) = <<saved[m], saved[m + 1]>>
        BY Pair, Zenon
      <3>2. 1 \in Int /\ 3 \in Int /\ 5 \in Int
        OBVIOUS
      <3> QED
        BY <3>1, <3>2, Zenon
    <2>2. 1 + 1 = 2 /\ 3 + 1 = 4 /\ 5 + 1 = 6
      OBVIOUS
    <2> QED
      BY <1>4, <2>1, <2>2, Zenon
  <1>6. PICK a \in Nat, z \in Nat : a = StackAddr - 4 /\ z = 4
    BY Layout
  <1>7. PICK s : s = Number(entry) \o Halt
    OBVIOUS
  <1>8. Len(s) = z /\ s[3] = Halt[1] /\ s[4] = Halt[2]
    BY <1>6, <1>7 DEF Number, Halt
  <1>9. mem' = vm_mem_write(mem, a, s)
    <2>1. rsp - 4 = a
      BY <1>3, <1>4, <1>6, Layout
    <2> QED
      BY <1>1, <1>5, <1>7, <2>1, Zenon
  <1>10. /\ DOMAIN mem' = DOMAIN mem
         /\ \A c \in DOMAIN mem : c < a \/ c >= a + z => mem'[c] = mem[c]
         /\ \A k \in 1 .. z : a + k - 1 \in DOMAIN mem => mem'[a + k - 1] = s[k]
    <2>1. a \in Int
      BY <1>6
    <2>2. Stored(mem', mem, a, s, z)
      BY <1>2, <1>8, <1>9, <2>1, WriteFacts, Zenon
    <2> QED
      BY <2>2, Zenon DEF Stored
  <1>11. mem'[StackAddr - 2] = Halt[1] /\ mem'[StackAddr - 1] = Halt[2]
    <2>1. /\ 3 \in 1 .. z /\ 4 \in 1 .. z
          /\ a + 3 - 1 = StackAddr - 2 /\ a + 4 - 1 = StackAddr - 1
          /\ StackAddr - 2 \in DOMAIN mem /\ StackAddr - 1 \in DOMAIN mem
      BY <1>2, <1>6, Layout
    <2> QED
      BY <1>8, <1>10, <2>1, Zenon
  <1>12. \A c \in DOMAIN mem : c < GdtLen \/ c >= ArgvAddr => mem'[c] = mem[c]
    <2>1. \A c \in DOMAIN mem : c < GdtLen \/ c >= ArgvAddr => c < a \/ c >= a + z
      BY <1>2, <1>6, Layout
    <2> QED
      BY <1>10, <2>1, Zenon
  <1>13. MemoryInv'
    BY <1>1, <1>2, <1>10, <1>12, StackStore, Zenon
  <1>14. PushInv' /\ PopInv' /\ SavedInv'
    BY <1>1, <1>2 DEF PushInv, PopInv, SavedInv, Booting
  <1>15. DOMAIN cpu = {"eax", "cr3", "cr4", "rip", "rdi", "rsi"}
    BY Zenon DEF Inv, StartInv, ControlInv
  <1>16. /\ DOMAIN cpu' = DOMAIN cpu /\ cpu'.cr3 = cpu.cr3 /\ cpu'.cr4 = cpu.cr4
         /\ cpu'.rip = Number(entry) /\ cpu'.rdi = Number(Argc)
         /\ cpu'.rsi = Number(ArgvAddr)
    BY <1>1, <1>5, <1>15
  <1>17. ControlInv'
    <2>1. /\ {"LME", "LMA", "SCE"} \subseteq vmcs.efer
          /\ {"PE", "NE", "PG"} \subseteq vmcs.cr0 /\ vmcs.lma = TRUE
      BY <1>1 DEF Inv, StartInv, ControlInv
    <2> QED
      BY <1>1, <1>2, <1>15, <1>16, <2>1 DEF ControlInv
  <1>18. AppInv'
    <2>1. CodeIntact'
      <3>1. \A k \in 1 .. BootLen : /\ StartAddr + k - 1 \in DOMAIN mem
                                     /\ StartAddr + k - 1 >= ArgvAddr
        BY <1>2, BootAssumption, Layout
      <3> QED
        BY <1>3, <1>12, <3>1, Zenon DEF CodeIntact
    <2>2. Argc' = Argc /\ Clear'
      BY <1>1, <1>3, SameCommand
    <2>3. at' = "app" => entry = EntryGva
      <3>1. at' = "app" => Number(entry) = Number(EntryGva)
        BY <1>1, <1>5
      <3>2. Number(entry) = Number(EntryGva) => entry = EntryGva
        BY DEF Number
      <3> QED
        BY <3>1, <3>2
    <2>4. at' = "lost" => ~Prepared'
      <3>1. Prepared => entry = EntryGva
        BY <1>2, Zenon DEF Prepared, Inv, MemoryInv, ProgressInv
      <3>2. entry = EntryGva => at' = "app"
        BY <1>1, <1>5
      <3> QED
        BY <1>1, <3>1, <3>2, SamePrepared
    <2>5. rsp' = StackAddr - 2
      BY <1>1, <1>3, <1>4, Layout
    <2>6. at' \notin {"halt", "stopped", "refused", "astray"}
          /\ at' \in Booting \cup {"long", "app", "halt", "lost", "astray"} \cup Ended
      BY <1>2
    <2>7. at' = "app" =>
            /\ pc' = "run" /\ Clear' /\ sp0' = StackAddr - 7 /\ entry' = EntryGva
            /\ rsp' = StackAddr - 2
            /\ mem'[StackAddr - 2] = Halt[1] /\ mem'[StackAddr - 1] = Halt[2]
            /\ cpu'.rip = Number(EntryGva) /\ cpu'.rdi = Number(Argc')
            /\ cpu'.rsi = Number(ArgvAddr) /\ cpu'.cr3 = Root /\ "PAE" \in cpu'.cr4
            /\ CodeIntact'
      BY <1>1, <1>3, <1>4, <1>11, <1>16, <2>1, <2>2, <2>3, <2>5, Zenon
    <2> QED
      BY <1>1, <1>2, <2>4, <2>6, <2>7, Zenon DEF AppInv
  <1> QED
    BY <1>13, <1>14, <1>17, <1>18 DEF StartInv

(* The application returns to the address that boot.asm left it.           *)
LEMMA ReturnStep ==
  ASSUME Inv, app_returns
  PROVE  MemoryInv' /\ StartInv'
  <1>1. /\ pc = "run" /\ at = "app"
        /\ UNCHANGED <<pc, cmd, i, args, entry, mem, vmcs, saved, cpu, sp0>>
        /\ at' = IF <<mem[rsp], mem[rsp + 1]>> = Halt THEN "halt" ELSE "lost"
    BY DEF app_returns, Guest, MainWaits
  <1>2. /\ rsp = StackAddr - 2 /\ "PAE" \in cpu.cr4
        /\ mem[StackAddr - 2] = Halt[1] /\ mem[StackAddr - 1] = Halt[2]
    BY <1>1, Zenon DEF Inv, StartInv, AppInv
  <1>3. at' = "halt"
    <2>1. StackAddr - 2 + 1 = StackAddr - 1
      BY Layout
    <2>2. <<Halt[1], Halt[2]>> = Halt
      BY DEF Halt
    <2> QED
      BY <1>1, <1>2, <2>1, <2>2, Zenon
  <1>4. /\ at' \notin Booting /\ at' \notin Ended /\ pc' \notin Starting
    BY <1>1, <1>3, Running DEF Booting, Ended
  <1>5. MemoryInv' /\ PushInv'
    BY <1>1, <1>4, GuestKeeps
  <1>6. PopInv' /\ SavedInv'
    BY <1>3 DEF PopInv, SavedInv, Booting
  <1>7. ControlInv'
    BY <1>1, <1>3 DEF Inv, StartInv, ControlInv
  <1>8. AppInv'
    BY <1>1, <1>2, <1>3, <1>4 DEF AppInv
  <1> QED
    BY <1>5, <1>6, <1>7, <1>8 DEF StartInv

LEMMA DerailStep ==
  ASSUME Inv, derail
  PROVE  MemoryInv' /\ StartInv'
  <1>1. /\ pc = "run" /\ at \notin {"app", "halt", "lost", "astray"} /\ ~Runs
        /\ at' = "lost" /\ UNCHANGED torn
        /\ UNCHANGED <<pc, cmd, i, args, entry, mem, vmcs, saved, cpu, sp0>>
    BY DEF derail, MainWaits
  <1>2. at \in Booting \cup {"long"}
    BY <1>1, Running
  <1>3. ~Prepared'
    BY <1>1, <1>2, PreparedRuns, SamePrepared
  <1>4. /\ at' \notin Booting /\ at' \notin Ended /\ pc' \notin Starting
    BY <1>1, Running DEF Booting, Ended
  <1>5. MemoryInv' /\ PushInv'
    BY <1>1, <1>4, GuestKeeps
  <1>6. PopInv' /\ SavedInv'
    BY <1>1 DEF PopInv, SavedInv, Booting
  <1>7. ControlInv'
    <2>1. DOMAIN cpu' = {"eax", "cr3", "cr4", "rip", "rdi", "rsi"}
      BY <1>1, Zenon DEF Inv, StartInv, ControlInv
    <2> QED
      BY <1>1, <2>1 DEF ControlInv
  <1>8. AppInv'
    BY <1>1, <1>3, <1>4 DEF AppInv
  <1> QED
    BY <1>5, <1>6, <1>7, <1>8 DEF StartInv

(* The loop ends: an exit that it does not resume, or a failed entry.      *)
LEMMA LoopEnds ==
  ASSUME Inv, vcpu_run, UNCHANGED <<vmcs, cpu, sp0>>, at' \in Ended,
         at' \in {"stopped", "refused"} => ~Prepared
  PROVE  MemoryInv' /\ StartInv'
  <1>1. pc' = "vcpu_destroy" /\ UNCHANGED <<cmd, entry, torn>>
    BY DEF vcpu_run, Proceed
  <1>2. pc' \notin Starting \cup {"run"} /\ at' # "words"
    BY <1>1 DEF Starting, Ended
  <1> QED
    BY <1>1, <1>2, LeavingStep

(* Only a guest that is lost can have left a state that cannot be entered. *)
LEMMA Refused ==
  ASSUME Inv, pc = "run", ~Enterable
  PROVE  at = "lost" /\ ~Prepared
  <1>1. at = "lost"
    <2>1. at \notin {"words", "cr3", "rdmsr", "wrmsr"}
      BY DEF Enterable, EntryValid, Inv, StartInv, ControlInv, vmcs_setup
    <2>2. at # "paging"
      BY DEF Enterable, EntryValid, Inv, StartInv, ControlInv
    <2>3. at \notin {"segments", "long", "app", "halt"}
      <3> SUFFICES ASSUME at \in {"segments", "long", "app", "halt"} PROVE FALSE
        OBVIOUS
      <3>1. "PAE" \in cpu.cr4
        <4>1. at \in {"segments", "long"} => "PAE" \in cpu.cr4
          BY DEF Inv, StartInv, SavedInv
        <4>2. at \in {"app", "halt"} => "PAE" \in cpu.cr4
          BY Zenon DEF Inv, StartInv, AppInv
        <4> QED
          BY <4>1, <4>2
      <3>2. /\ {"LME", "LMA", "SCE"} \subseteq vmcs.efer
            /\ {"PE", "NE", "PG"} \subseteq vmcs.cr0 /\ vmcs.lma = TRUE
        BY DEF Inv, StartInv, ControlInv
      <3> QED
        BY <3>1, <3>2 DEF Enterable, EntryValid
    <2>4. at # "astray"
      BY Zenon DEF Inv, StartInv, AppInv
    <2> QED
      BY <2>1, <2>2, <2>3, <2>4, Running DEF Booting
  <1> QED
    BY <1>1, Zenon DEF Inv, StartInv, AppInv

(* Two bytes further on, with everything else as it was.                   *)
LEMMA AstrayStep ==
  ASSUME Inv, pc = "run", UNCHANGED <<vars, vmcs, saved, cpu, sp0>>,
         at' = IF at = "lost" THEN at ELSE "astray"
  PROVE  MemoryInv' /\ StartInv'
  <1>1. UNCHANGED <<pc, cmd, i, args, entry, mem, rsp, torn>>
    BY DEF vars
  <1>2. /\ at' \in {"lost", "astray"} /\ (at' = "lost" => at = "lost")
        /\ at' \notin Booting /\ at' \notin Ended /\ pc' \notin Starting
    BY <1>1, Running DEF Booting, Ended
  <1>3. MemoryInv' /\ PushInv'
    BY <1>1, <1>2, GuestKeeps
  <1>4. PopInv' /\ SavedInv'
    BY <1>2 DEF PopInv, SavedInv, Booting
  <1>5. ControlInv'
    <2>1. DOMAIN cpu' = {"eax", "cr3", "cr4", "rip", "rdi", "rsi"}
      BY Zenon DEF Inv, StartInv, ControlInv
    <2> QED
      BY <1>2, <2>1 DEF ControlInv
  <1>6. AppInv'
    <2>1. at' = "lost" => ~Prepared'
      BY <1>1, <1>2, SamePrepared, Zenon DEF Inv, StartInv, AppInv
    <2>2. at' = "astray" => Enterable
      <3>1. at' = "astray" => at # "lost"
        OBVIOUS
      <3> QED
        BY <3>1, Refused
    <2>3. Enterable' <=> Enterable
      BY Zenon DEF Enterable, EntryValid
    <2> QED
      BY <1>1, <1>2, <2>1, <2>2, <2>3 DEF AppInv
  <1> QED
    BY <1>3, <1>4, <1>5, <1>6 DEF StartInv

-----------------------------------------------------------------------------
(* The invariant.                                                          *)

LEMMA LayoutInit == BootInit => Inv
  <1> SUFFICES ASSUME BootInit PROVE Inv
    OBVIOUS
  <1>1. BootMainInv
    BY BootInitInv
  <1>2. /\ pc = "options" /\ args = ArgsAddr /\ entry \in Residue
        /\ at = "words" /\ entered = FALSE /\ vmcs_setup
        /\ DOMAIN cpu = {"eax", "cr3", "cr4", "rip", "rdi", "rsi"}
    BY DEF BootInit, Init
  <1>3. pc \notin Up /\ pc \notin Late /\ pc \notin Loaded
        /\ pc \notin Starting \ (Late \cup {"options"})
    BY <1>2 DEF Up, Late, Loaded
  <1>4. DomainInv /\ ProgressInv /\ LowInv
    BY <1>2, <1>3 DEF DomainInv, ProgressInv, LowInv
  <1>5. RootInv /\ LayoutInv /\ OverrunInv
    BY <1>3, Zenon DEF RootInv, LayoutInv, OverrunInv
  <1>6. PushInv /\ PopInv /\ SavedInv
    BY <1>2 DEF PushInv, PopInv, SavedInv
  <1>7. ControlInv /\ AppInv
    BY <1>2 DEF ControlInv, AppInv, Booting, Ended
  <1> QED
    BY <1>1, <1>4, <1>5, <1>6, <1>7 DEF Inv, MemoryInv, StartInv

LEMMA LayoutStep == Inv /\ BootNext => Inv'
  <1> SUFFICES ASSUME Inv, BootNext PROVE Inv'
    OBVIOUS
  <1>1. BootMainInv'
    BY BootStep DEF Inv
  <1>2. CASE Main
    BY <1>1, <1>2, MainKeeps DEF Inv
  <1>3. CASE hv_vcpu_run
    <2>1. pc = "run" /\ ~entered /\ UNCHANGED <<vmcs, saved, cpu>>
      BY <1>3 DEF hv_vcpu_run
    <2>2. CASE /\ entered' = TRUE /\ UNCHANGED <<vars, at>>
               /\ sp0' = IF at = "words" /\ saved = <<>> THEN rsp ELSE sp0
      BY <1>1, <2>1, <2>2, EnterStep DEF Inv
    <2>3. CASE /\ at' = IF Enterable THEN "error" ELSE "refused"
               /\ vcpu_run /\ UNCHANGED <<entered, sp0>>
      <3>1. at' \in Ended /\ (at' \in {"stopped", "refused"} => ~Enterable)
        BY <2>3 DEF Ended
      <3>2. at' \in {"stopped", "refused"} => ~Prepared
        BY <2>1, <3>1, Refused
      <3> QED
        BY <1>1, <2>1, <2>3, <3>1, <3>2, LoopEnds DEF Inv
    <2> QED
      BY <1>3, <2>2, <2>3, Zenon DEF hv_vcpu_run
  <1>4. CASE irq
    <2>1. /\ pc = "run" /\ entered /\ entered' = FALSE /\ sp0' = sp0
          /\ UNCHANGED <<vars, at, vmcs, saved, cpu>>
      BY <1>4 DEF irq, Exit
    <2> QED
      BY <1>1, <2>1, EnterStep DEF Inv
  <1>5. CASE pop_words
    BY <1>1, <1>5, PopStep DEF Inv
  <1>6. CASE load_cr3
    BY <1>1, <1>6, LoadRoot DEF Inv
  <1>7. CASE rdmsr
    BY <1>1, <1>7, ReadEfer DEF Inv
  <1>8. CASE wrmsr
    BY <1>1, <1>8, WriteEfer DEF Inv
  <1>9. CASE enable_paging
    BY <1>1, <1>9, PagingOn DEF Inv
  <1>10. CASE load_segments
    BY <1>1, <1>10, SegmentStep DEF Inv
  <1>11. CASE jump_to_app
    BY <1>1, <1>11, JumpStep DEF Inv
  <1>12. CASE app_returns
    BY <1>1, <1>12, ReturnStep DEF Inv
  <1>13. CASE derail
    BY <1>1, <1>13, DerailStep DEF Inv
  <1>14. CASE halt
    <2>1. vcpu_run /\ UNCHANGED <<vmcs, cpu, sp0>> /\ at' = "halted"
      BY <1>14 DEF halt
    <2> QED
      BY <1>1, <2>1, LoopEnds DEF Inv, Ended
  <1>15. CASE lost_stops
    <2>1. /\ vcpu_run /\ UNCHANGED <<vmcs, cpu, sp0>>
          /\ (at' = "stopped" /\ at = "lost") \/ at' = "nmi"
      BY <1>15 DEF lost_stops, Guest
    <2>2. at' \in Ended /\ (at' \in {"stopped", "refused"} => at = "lost")
      BY <2>1 DEF Ended
    <2>3. at = "lost" => ~Prepared
      BY Zenon DEF Inv, StartInv, AppInv
    <2> QED
      BY <1>1, <2>1, <2>2, <2>3, LoopEnds DEF Inv
  <1>16. CASE exc_nmi
    <2>1. CASE at' = "nmi" /\ vcpu_run
      BY <1>1, <1>16, <2>1, LoopEnds DEF exc_nmi, Inv, Ended
    <2>2. CASE at' = (IF at = "lost" THEN at ELSE "astray") /\ UNCHANGED vars
      BY <1>1, <1>16, <2>2, AstrayStep DEF exc_nmi, Inv
    <2> QED
      BY <1>16, <2>1, <2>2 DEF exc_nmi
  <1> QED
    BY <1>2, <1>3, <1>4, <1>5, <1>6, <1>7, <1>8, <1>9, <1>10, <1>11, <1>12,
       <1>13, <1>14, <1>15, <1>16 DEF BootNext, Instructions

LEMMA LayoutStutters == Inv /\ UNCHANGED allVars => Inv'
  <1> SUFFICES ASSUME Inv, UNCHANGED allVars PROVE Inv'
    OBVIOUS
  <1>1. /\ UNCHANGED <<pc, cmd, i, args, entry, mem, rsp, vmcs, torn>>
        /\ UNCHANGED <<at, entered, saved, cpu, sp0>> /\ UNCHANGED vars
    BY DEF allVars, vars, bootVars
  <1>2. BootMainInv'
    <2>1. MainInv'
      BY <1>1, MainStutters DEF Inv, BootMainInv
    <2>2. GuestInv'
      BY <1>1 DEF Inv, BootMainInv, GuestInv
    <2> QED
      BY <2>1, <2>2 DEF BootMainInv
  <1>3. /\ Argc' = Argc /\ (Clear' <=> Clear) /\ (Fits' <=> Fits)
        /\ \A k : Before(k)' = Before(k)
    BY <1>1, SameCommand
  <1>4. (Before(i + 1))' = Before(i + 1)
    BY <1>1, Zenon DEF Before, Strings
  <1>5. DomainInv' /\ ProgressInv' /\ LowInv'
    BY <1>1, <1>3, <1>4, Zenon DEF Inv, MemoryInv, DomainInv, ProgressInv, LowInv
  <1>6. RootInv' /\ OverrunInv'
    BY <1>1, <1>3, Zenon DEF Inv, MemoryInv, RootInv, OverrunInv
  <1>7. LayoutInv'
    BY <1>1, <1>3, Zenon DEF Inv, MemoryInv, LayoutInv, Pushed
  <1>8. PushInv' /\ PopInv'
    BY <1>1, <1>3, Zenon DEF Inv, StartInv, PushInv, PopInv, StackWords, Pushed
  <1>9. SavedInv' /\ ControlInv'
    BY <1>1, <1>3, Zenon DEF Inv, StartInv, SavedInv, ControlInv, vmcs_setup
  <1>10. AppInv'
    <2>1. (Prepared' <=> Prepared) /\ (CodeIntact' <=> CodeIntact)
      BY <1>1, SamePrepared, Zenon DEF CodeIntact
    <2>2. Enterable' <=> Enterable
      BY <1>1, Zenon DEF Enterable, EntryValid
    <2> QED
      BY <1>1, <1>3, <2>1, <2>2, Zenon DEF Inv, StartInv, AppInv
  <1> QED
    BY <1>2, <1>5, <1>6, <1>7, <1>8, <1>9, <1>10 DEF Inv, MemoryInv, StartInv

LEMMA LayoutAlways == BootSpec => []Inv
  <1>1. Inv /\ [BootNext]_allVars => Inv'
    BY LayoutStep, LayoutStutters
  <1> QED
    BY <1>1, LayoutInit, PTL DEF BootSpec

-----------------------------------------------------------------------------
(* What follows from it.                                                   *)

LEMMA FitsIntact ==
  ASSUME Inv, pc = "run", Fits, ~torn
  PROVE  ArgsIntact /\ TablesIntact /\ Holds(StartAddr, Kernel) /\ Holds(0, Gdt)
  <1>1. /\ Clear /\ cmd.kernel \in Nat /\ Argc = Len(cmd.args) /\ i = Argc
        /\ cmd \in Commands /\ pc \in Up /\ pc \in Loaded /\ pc \in Late
    BY Here, FitsClear, Running DEF Argc
  <1>2. /\ \A c \in DOMAIN mem : c >= TableAddr => mem[c] = <<"table", c>>
        /\ \A k \in 1 .. cmd.kernel : mem[StartAddr + k - 1] = <<"kernel", k>>
        /\ \A k \in 1 .. Argc :
             /\ mem[ArgvAddr + 2 * (k - 1)] = <<"lo", Before(k)>>
             /\ mem[ArgvAddr + 2 * (k - 1) + 1] = <<"hi", Before(k)>>
             /\ \A j \in 1 .. cmd.args[k] : mem[Before(k) + j - 1] = <<"arg", k, j>>
    BY <1>1, Zenon DEF Inv, MemoryInv, LayoutInv, Pushed
  <1>3. TablesIntact
    <2>1. \A c \in TableAddr .. Size - 1 : c \in DOMAIN mem /\ c >= TableAddr
      <3>1. /\ DOMAIN mem = 0 .. TableAddr + LowTables + AppTables - 1
            /\ Size = TableAddr + LowTables + AppTables
        BY Running
      <3> QED
        BY <3>1, Layout
    <2> QED
      BY <1>2, <2>1, Zenon DEF TablesIntact
  <1>4. Holds(StartAddr, Kernel)
    <2>1. Len(Kernel) = cmd.kernel /\ \A k \in 1 .. cmd.kernel : Kernel[k] = <<"kernel", k>>
      BY <1>1 DEF Kernel
    <2> QED
      BY <1>2, <2>1, Zenon DEF Holds
  <1>5. Holds(0, Gdt)
    <2>1. Len(Gdt) = GdtLen /\ \A k \in 1 .. GdtLen : Gdt[k] = <<"gdt", k>>
      BY Layout DEF Gdt
    <2>2. \A c \in 0 .. GdtLen - 1 : mem[c] = <<"gdt", c + 1>>
      BY <1>1, Zenon DEF Inv, MemoryInv, LowInv
    <2>3. \A k \in 1 .. GdtLen : 0 + k - 1 \in 0 .. GdtLen - 1 /\ (0 + k - 1) + 1 = k
      BY Layout
    <2> QED
      BY <2>1, <2>2, <2>3, Zenon DEF Holds
  <1>6. ASSUME NEW k \in 1 .. Argc
        PROVE  /\ Holds(ArgvAddr + 2 * (k - 1), Number(Before(k)))
               /\ Holds(Before(k), String(k))
    <2>1. PICK a \in Int : a = ArgvAddr + 2 * (k - 1)
      BY Layout
    <2>2. mem[a] = <<"lo", Before(k)>> /\ mem[a + 1] = <<"hi", Before(k)>>
      BY <1>2, <2>1, Zenon
    <2>3. /\ Len(Number(Before(k))) = 2 /\ Number(Before(k))[1] = <<"lo", Before(k)>>
          /\ Number(Before(k))[2] = <<"hi", Before(k)>>
      BY DEF Number
    <2>4. \A j \in 1 .. 2 : mem[a + j - 1] = Number(Before(k))[j]
      <3> TAKE j \in 1 .. 2
      <3>1. CASE j = 1
        <4>1. a + j - 1 = a
          BY <3>1
        <4> QED
          BY <2>2, <2>3, <3>1, <4>1, Zenon
      <3>2. CASE j = 2
        <4>1. a + j - 1 = a + 1
          BY <3>2
        <4> QED
          BY <2>2, <2>3, <3>2, <4>1, Zenon
      <3> QED
        BY <3>1, <3>2
    <2>5. Holds(a, Number(Before(k)))
      BY <2>3, <2>4, Zenon DEF Holds
    <2>6. cmd.args[k] \in Nat
      BY <1>1, StringPlaces
    <2>7. /\ Len(String(k)) = cmd.args[k]
          /\ \A j \in 1 .. cmd.args[k] : String(k)[j] = <<"arg", k, j>>
      BY <2>6 DEF String
    <2>8. Holds(Before(k), String(k))
      BY <1>2, <2>7, Zenon DEF Holds
    <2> QED
      BY <2>1, <2>5, <2>8, Zenon
  <1> QED
    BY <1>1, <1>3, <1>4, <1>5, <1>6, Zenon DEF ArgsIntact

LEMMA IntactFits ==
  ASSUME Inv, pc = "run", cmd.kernel > 0, LayoutIntact
  PROVE  Fits
  <1>1. /\ cmd \in Commands /\ cmd.kernel \in Nat /\ Argc \in Nat
        /\ Len(cmd.args) = Argc
    BY Here DEF Argc
  <1>2. mem[StartAddr] = <<"kernel", 1>>
    <2>1. Len(Kernel) = cmd.kernel /\ Kernel[1] = <<"kernel", 1>>
      BY <1>1 DEF Kernel
    <2>2. 1 \in 1 .. cmd.kernel /\ StartAddr + 1 - 1 = StartAddr
      BY <1>1, Layout
    <2> QED
      BY <2>1, <2>2, Zenon DEF LayoutIntact, Holds
  <1>3. Clear
    BY <1>2, IntactClear DEF LayoutIntact
  <1>4. ASSUME ~(2 * Argc <= ArgsAddr - ArgvAddr)
        PROVE  FALSE
    <2>1. PICK k \in 1 .. Argc : \/ ArgsAddr = ArgvAddr + 2 * (k - 1)
                                 \/ ArgsAddr = ArgvAddr + 2 * (k - 1) + 1
      <3>1. PICK d \in Nat : d = ArgsAddr - ArgvAddr
        BY Layout
      <3>2. PICK h \in Nat : d = 2 * h \/ d = 2 * h + 1
        <4>1. d \div 2 \in Nat /\ (d = 2 * (d \div 2) \/ d = 2 * (d \div 2) + 1)
          OBVIOUS
        <4> QED
          BY <4>1
      <3>3. h + 1 \in 1 .. Argc /\ (h + 1) - 1 = h
        BY <1>1, <1>4, <3>1, <3>2, Layout
      <3>4. ArgsAddr = ArgvAddr + 2 * h \/ ArgsAddr = ArgvAddr + 2 * h + 1
        BY <3>1, <3>2, Layout
      <3> QED
        BY <3>3, <3>4, Zenon
    <2>2. \A l \in 1 .. Argc : /\ Holds(ArgvAddr + 2 * (l - 1), Number(Before(l)))
                                /\ Holds(Before(l), String(l))
      BY <1>1, Zenon DEF LayoutIntact, ArgsIntact
    <2>3. mem[ArgsAddr] = <<"arg", 1, 1>>
      <3>1. /\ 1 \in 1 .. Argc /\ Before(1) = ArgsAddr /\ cmd.args[1] \in Nat \ {0}
        <4>1. 1 \in 1 .. Argc
          BY <1>1
        <4> QED
          BY <1>1, <4>1, StringPlaces
      <3>2. /\ 1 \in 1 .. Len(String(1)) /\ String(1)[1] = <<"arg", 1, 1>>
            /\ ArgsAddr + 1 - 1 = ArgsAddr
        BY <3>1, Layout DEF String
      <3>3. Holds(ArgsAddr, String(1))
        BY <2>2, <3>1, Zenon
      <3> QED
        BY <3>2, <3>3, Zenon DEF Holds
    <2>4. mem[ArgsAddr] = <<"lo", Before(k)>> \/ mem[ArgsAddr] = <<"hi", Before(k)>>
      <3>1. PICK a \in Int : a = ArgvAddr + 2 * (k - 1)
        BY Layout
      <3>2. /\ 1 \in 1 .. Len(Number(Before(k))) /\ 2 \in 1 .. Len(Number(Before(k)))
            /\ Number(Before(k))[1] = <<"lo", Before(k)>>
            /\ Number(Before(k))[2] = <<"hi", Before(k)>>
        BY DEF Number
      <3>3. a + 1 - 1 = a /\ a + 2 - 1 = a + 1
        OBVIOUS
      <3>4. Holds(a, Number(Before(k)))
        BY <2>2, <3>1, Zenon
      <3>5. mem[a] = <<"lo", Before(k)>> /\ mem[a + 1] = <<"hi", Before(k)>>
        BY <3>2, <3>3, <3>4, Zenon DEF Holds
      <3> QED
        BY <2>1, <3>1, <3>5, Zenon
    <2>5. PICK b : b = Before(k)
      OBVIOUS
    <2>6. <<"arg", 1, 1>> # <<"lo", b>> /\ <<"arg", 1, 1>> # <<"hi", b>>
      BY CellKinds
    <2> QED
      BY <2>3, <2>4, <2>5, <2>6, Zenon
  <1> QED
    BY <1>1, <1>3, <1>4, Zenon DEF Fits, Clear

(* For every layout, kernel and command line: main has everything in place *)
(* when the guest starts exactly when the three parts fit and no table is  *)
(* missing, and the guest's own stores do not change that.                 *)
THEOREM MainLayoutLimits == BootSpec => []LayoutLimits
  <1>1. Inv => LayoutLimits
    <2>1. ASSUME Inv, pc = "run", cmd.kernel > 0
          PROVE  LayoutIntact <=> Fits /\ ~torn
      <3>1. LayoutIntact => ~torn
        BY Zenon DEF LayoutIntact, TablesIntact
      <3> QED
        BY <2>1, <3>1, FitsIntact, IntactFits DEF LayoutIntact
    <2> QED
      BY <2>1 DEF LayoutLimits
  <1> QED
    BY <1>1, LayoutAlways, PTL

(* The application's main starts at its entry point with argc and argv, on *)
(* tables and strings that are as given, in long mode, and with a return   *)
(* address that halts, whatever the sizes are.                             *)
THEOREM BootStartState == BootSpec => []StartState
  <1>1. Inv => StartState
    <2> SUFFICES ASSUME Inv, at = "app", pc = "run", Prepared PROVE StartState
      BY DEF StartState
    <2>1. /\ rsp = StackAddr - 2 /\ CodeIntact /\ cpu.cr3 = Root
          /\ mem[StackAddr - 2] = Halt[1] /\ mem[StackAddr - 1] = Halt[2]
          /\ cpu.rip = Number(EntryGva) /\ cpu.rdi = Number(Argc)
          /\ cpu.rsi = Number(ArgvAddr) /\ "PAE" \in cpu.cr4
      BY Zenon DEF Inv, StartInv, AppInv
    <2>2. ArgsIntact /\ TablesIntact
      BY FitsIntact, Zenon DEF Prepared
    <2>3. Runs
      BY <2>1, <2>2, Zenon DEF Runs, PagingWorks, Root
    <2>4. Holds(rsp, Halt)
      <3>1. Len(Halt) = 2
        BY DEF Halt
      <3>2. \A k \in 1 .. 2 : mem[rsp + k - 1] = Halt[k]
        <4> TAKE k \in 1 .. 2
        <4>1. CASE k = 1
          <5>1. rsp + k - 1 = StackAddr - 2
            BY <2>1, <4>1, Layout
          <5> QED
            BY <2>1, <4>1, <5>1, Zenon
        <4>2. CASE k = 2
          <5>1. rsp + k - 1 = StackAddr - 1
            BY <2>1, <4>2, Layout
          <5> QED
            BY <2>1, <4>2, <5>1, Zenon
        <4> QED
          BY <4>1, <4>2
      <3> QED
        BY <3>1, <3>2, Zenon DEF Holds
    <2>5. {"LME", "LMA", "SCE"} \subseteq vmcs.efer /\ "PG" \in vmcs.cr0
      BY DEF Inv, StartInv, ControlInv
    <2>6. Argc = Len(cmd.args)
      BY DEF Argc
    <2> QED
      BY <2>1, <2>2, <2>3, <2>4, <2>5, <2>6, Zenon DEF StartState
  <1> QED
    BY <1>1, LayoutAlways, PTL

(* A guest that main has prepared never leaves boot.asm and the            *)
(* application and is never refused an entry; and an application starts    *)
(* only at an LC_MAIN entry point, after three pushes that worked, unless  *)
(* the uninitialized word happens to be the application's entry point.     *)
THEOREM BootNeverLost == BootSpec => [](EntryGva \notin Residue => NeverLost)
  <1>1. Inv => (EntryGva \notin Residue => NeverLost)
    <2> SUFFICES ASSUME Inv, EntryGva \notin Residue PROVE NeverLost
      OBVIOUS
    <2>1. Prepared => at \notin {"lost", "stopped", "refused"}
      BY Zenon DEF Inv, StartInv, AppInv
    <2>2. at = "app" => entry = EntryGva /\ sp0 = StackAddr - 7
      BY Zenon DEF Inv, StartInv, AppInv
    <2>3. entry = EntryGva => cmd.main
      BY Zenon DEF Inv, MemoryInv, ProgressInv
    <2> QED
      BY <2>1, <2>2, <2>3, Zenon DEF NeverLost
  <1> QED
    BY <1>1, LayoutAlways, PTL

=============================================================================
