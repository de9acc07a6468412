----------------------------- MODULE MachOProofs ----------------------------
(***************************************************************************)
(* Proofs about the Mach-O parser, for files of any length: objects with   *)
(* any number of commands of any sizes, in either byte order, and fat      *)
(* files of any number of such objects.                                    *)
(***************************************************************************)
EXTENDS MachO, TLAPS, SequenceTheorems

Walk == [at : Int, swap : BOOLEAN, left : Nat]
Lines == {"segment", "entry", "none"} \X Words

TypeInv ==
  /\ file \in Files /\ op \in {"read", "dump"}
  /\ pc \in {"start", "commands", "archs", "done"}
  /\ walk \in Walk /\ archs \in Walk
  /\ seen \in Seq(Seq(Lines))

(* The number of commands of an object that the walk has behind it.        *)
Behind(o) == Len(o.cmds) - walk.left

(* The walk is at a command of the object, or at the end of them.          *)
Walks(o) ==
  /\ walk.swap = o.swap /\ walk.left \in 0 .. Len(o.cmds)
  /\ walk.left > 0 => walk.at = o.cmds[Behind(o) + 1].at

ReadInv ==
  /\ pc # "archs"
  /\ pc = "commands" => file.kind # "fat"
  /\ pc = "commands" /\ file.kind = "empty" => walk.left = 0
  /\ pc = "commands" /\ file.kind = "mach" =>
       /\ Walks(file.objects[1])
       /\ \A j \in MainCommands(file.objects[1]) : j > Behind(file.objects[1])

(* The first n objects are listed completely.                              *)
Listed(n) ==
  \A m \in 1 .. n :
    seen[m] = Listing(file.objects[m], Len(file.objects[m].cmds))

(* In a file of objects the fat_archs left are those of the objects whose  *)
(* header has not been read, and the one that is read is the last in seen. *)
DumpInv ==
  /\ pc \in {"commands", "archs"} =>
       /\ Len(seen) <= Len(file.objects)
       /\ archs.left = Len(file.objects) - Len(seen)
       /\ archs.left > 0 => /\ file.kind = "fat" /\ archs.swap = file.swap
                            /\ archs.at = Len(seen) + 2
  /\ pc = "start" => seen = <<>> /\ archs.left = 0
  /\ pc = "archs" => Listed(Len(seen))
  /\ pc = "commands" =>
       LET o == file.objects[Len(seen)] IN
       /\ Len(seen) > 0 /\ Listed(Len(seen) - 1)
       /\ Walks(o) /\ seen[Len(seen)] = Listing(o, Behind(o))

Inv ==
  /\ TypeInv
  /\ op = "read" => ReadInv
  /\ op = "dump" /\ file.kind \in {"mach", "fat"} => DumpInv
  /\ FindsEntry /\ ListsAll

-----------------------------------------------------------------------------
(* Words and byte orders.                                                  *)

(* A number below Digit * Digit has one quotient and one remainder.        *)
LEMMA Digits ==
  ASSUME NEW q \in 0 .. Digit - 1, NEW r \in 0 .. Digit - 1
  PROVE  (q * Digit + r) \div Digit = q /\ (q * Digit + r) % Digit = r
  <1>1. PICK x : x = q * Digit + r
    OBVIOUS
  <1>2. PICK d : d = x \div Digit
    OBVIOUS
  <1>3. PICK m : m = x % Digit
    OBVIOUS
  <1>4. Digit \in Nat /\ Digit > 0 /\ x \in Nat
    BY <1>1, MachOAssumption
  <1>5. d \in Int /\ m \in 0 .. Digit - 1 /\ x = d * Digit + m
    BY <1>2, <1>3, <1>4
  <1>6. (q - d) * Digit = m - r
    BY <1>1, <1>4, <1>5
  <1>7. q - d < 1
    <2>1. q - d >= 1 => (q - d) * Digit >= Digit
      BY <1>4, <1>5
    <2> QED
      BY <1>4, <1>5, <1>6, <2>1
  <1>8. q - d > -1
    <2>1. q - d <= -1 => (q - d) * Digit <= -Digit
      BY <1>4, <1>5
    <2> QED
      BY <1>4, <1>5, <1>6, <2>1
  <1>9. q = d
    BY <1>5, <1>7, <1>8
  <1> QED
    BY <1>1, <1>2, <1>3, <1>4, <1>5, <1>6, <1>9

(* The swap functions keep the width of a word and undo themselves.        *)
LEMMA SwapWord ==
  ASSUME NEW w \in Words
  PROVE  Swap(w) \in Words /\ Swap(Swap(w)) = w
  <1>1. PICK q : q = w \div Digit
    OBVIOUS
  <1>2. PICK r : r = w % Digit
    OBVIOUS
  <1>3. Digit \in Nat /\ Digit > 0 /\ w \in Nat /\ w < Digit * Digit
    BY MachOAssumption DEF Words
  <1>4. q \in Nat /\ r \in 0 .. Digit - 1 /\ w = q * Digit + r
    BY <1>1, <1>2, <1>3
  <1>5. q < Digit
    <2>1. q >= Digit => q * Digit >= Digit * Digit
      BY <1>3, <1>4
    <2> QED
      BY <1>3, <1>4, <2>1
  <1>6. PICK v : v = r * Digit + q
    OBVIOUS
  <1>7. Swap(w) = v
    BY <1>1, <1>2, <1>6 DEF Swap
  <1>8. v \in Words
    <2>1. r * Digit <= (Digit - 1) * Digit
      BY <1>3, <1>4
    <2> QED
      BY <1>3, <1>4, <1>5, <1>6, <2>1 DEF Words
  <1>9. v \div Digit = r /\ v % Digit = q
    BY <1>3, <1>4, <1>5, <1>6, Digits
  <1>10. Swap(v) = w
    BY <1>4, <1>9 DEF Swap
  <1> QED
    BY <1>7, <1>8, <1>10

LEMMA SwapZero == 0 \in Words /\ Swap(0) = 0
  <1>1. Digit \in Nat /\ Digit > 0 /\ Digit * Digit > 0
    BY MachOAssumption
  <1>2. 0 % Digit = 0 /\ 0 \div Digit = 0
    <2>1. 0 * Digit + 0 = 0
      BY <1>1
    <2> QED
      BY <1>1, <2>1, Digits
  <1> QED
    BY <1>1, <1>2 DEF Words, Swap

-----------------------------------------------------------------------------
(* What is read from a file.                                               *)

LEMMA ReadType ==
  ASSUME file \in Files, NEW n \in Int, NEW swap \in BOOLEAN
  PROVE  Word(n) \in Words /\ Field(n, swap) \in Words /\ Field(n, swap) \in Nat
  <1>1. file.words \in Seq(Words)
    BY MachOAssumption DEF Written
  <1>2. Word(n) \in Words
    BY <1>1, SwapZero DEF Word
  <1>3. Field(n, swap) \in Words
    BY <1>2, SwapWord DEF Field
  <1>4. Words \subseteq Nat
    BY MachOAssumption DEF Words
  <1> QED
    BY <1>2, <1>3, <1>4, Zenon

LEMMA LineType ==
  ASSUME NEW cmd \in Words, NEW word \in Words
  PROVE  Line(cmd, word) \in Lines
  BY DEF Line, Lines

(* The contents of a command count only for LC_MAIN.                       *)
LEMMA LineWord ==
  ASSUME NEW cmd, NEW word, NEW other, cmd # LC_MAIN
  PROVE  Line(cmd, word) = Line(cmd, other)
  BY DEF Line

(* A number that was stored in a byte order is read back in it.            *)
LEMMA ReadBack ==
  ASSUME NEW order, order.swap \in BOOLEAN, NEW n, NEW w \in Words,
         Holds(file, order, n, w)
  PROVE  /\ read_magic(n) = {Stored(order, w)}
         /\ Word(n) = Stored(order, w) /\ Field(n, order.swap) = w
  <1>1. Word(n) = Stored(order, w) /\ n + 1 \in DOMAIN file.words
    BY DEF Holds, Word
  <1>2. read_magic(n) = {Stored(order, w)}
    BY <1>1 DEF read_magic
  <1>3. Field(n, order.swap) = w
    BY <1>1, SwapWord DEF Field, Stored
  <1> QED
    BY <1>1, <1>2, <1>3

LEMMA MagicFacts ==
  /\ MH_MAGIC \in Words /\ MH_MAGIC_64 \in Words /\ FAT_MAGIC \in Words
  /\ MH_MAGIC # MH_MAGIC_64 /\ MH_MAGIC # FAT_MAGIC /\ MH_MAGIC_64 # FAT_MAGIC
  /\ \A a, b \in Magics : a # Swap(b)
  /\ \A a, b \in Magics : Swap(a) = Swap(b) => a = b
  <1>1. /\ Magics \subseteq Words
        /\ MH_MAGIC # MH_MAGIC_64 /\ MH_MAGIC # FAT_MAGIC /\ MH_MAGIC_64 # FAT_MAGIC
        /\ \A a, b \in Magics : a # Swap(b)
    BY MachOAssumption
  <1>2. \A a, b \in Magics : Swap(a) = Swap(b) => a = b
    BY <1>1, SwapWord
  <1> QED
    BY <1>1, <1>2 DEF Magics

(* The magic of an object tells its byte order and its width.              *)
LEMMA ObjectMagic ==
  ASSUME NEW o \in Objects,
         NEW magic, magic = Stored(o, IF o.is_64 THEN MH_MAGIC_64 ELSE MH_MAGIC)
  PROVE  /\ ~is_fat(magic)
         /\ should_swap_bytes(magic) = o.swap
         /\ is_magic_64(magic) = o.is_64
  <1>1. o.swap \in BOOLEAN /\ o.is_64 \in BOOLEAN
    BY DEF Objects
  <1>2. /\ MH_MAGIC \in Magics /\ MH_MAGIC_64 \in Magics /\ FAT_MAGIC \in Magics
    BY DEF Magics
  <1>3. \/ ~o.swap /\ o.is_64 /\ magic = MH_MAGIC_64
        \/ ~o.swap /\ ~o.is_64 /\ magic = MH_MAGIC
        \/ o.swap /\ o.is_64 /\ magic = Swap(MH_MAGIC_64)
        \/ o.swap /\ ~o.is_64 /\ magic = Swap(MH_MAGIC)
    BY <1>1, Zenon DEF Stored
  <1>4. ~is_fat(magic)
    BY <1>2, <1>3, MagicFacts DEF is_fat
  <1>5. should_swap_bytes(magic) <=> o.swap
    BY <1>2, <1>3, MagicFacts DEF should_swap_bytes
  <1>6. is_magic_64(magic) <=> o.is_64
    BY <1>2, <1>3, MagicFacts DEF is_magic_64
  <1>7. should_swap_bytes(magic) \in BOOLEAN /\ is_magic_64(magic) \in BOOLEAN
    BY DEF should_swap_bytes, is_magic_64
  <1> QED
    BY <1>1, <1>4, <1>5, <1>6, <1>7, Zenon

LEMMA FatMagic ==
  ASSUME NEW f, f.swap \in BOOLEAN, NEW magic, magic = Stored(f, FAT_MAGIC)
  PROVE  is_fat(magic) /\ should_swap_bytes(magic) = f.swap
  <1>1. /\ MH_MAGIC \in Magics /\ MH_MAGIC_64 \in Magics /\ FAT_MAGIC \in Magics
    BY DEF Magics
  <1>2. \/ ~f.swap /\ magic = FAT_MAGIC
        \/ f.swap /\ magic = Swap(FAT_MAGIC)
    BY Zenon DEF Stored
  <1>3. is_fat(magic)
    BY <1>2, Zenon DEF is_fat
  <1>4. should_swap_bytes(magic) <=> f.swap
    BY <1>1, <1>2, MagicFacts DEF should_swap_bytes
  <1>5. should_swap_bytes(magic) \in BOOLEAN
    BY DEF should_swap_bytes
  <1> QED
    BY <1>3, <1>4, <1>5, Zenon

(* The objects of a file.                                                  *)
LEMMA ObjectFacts ==
  ASSUME file \in Files, file.kind \in {"mach", "fat"}
  PROVE  /\ Len(file.objects) \in Nat
         /\ \A n \in 1 .. Len(file.objects) :
              /\ file.objects[n] \in Objects
              /\ WrittenHeader(file, file.objects[n])
              /\ \A k \in 1 .. Len(file.objects[n].cmds) :
                   WrittenCommand(file, file.objects[n], k)
  <1>1. WrittenObjects(file)
    BY MachOAssumption, Zenon DEF Written
  <1>2. file.objects \in Seq(Objects)
    BY <1>1, Zenon DEF WrittenObjects
  <1>3. DOMAIN file.objects = 1 .. Len(file.objects) /\ Len(file.objects) \in Nat
    BY <1>2
  <1>4. \A n \in 1 .. Len(file.objects) : file.objects[n] \in Objects
    BY <1>2
  <1>5. \A o \in Objects : DOMAIN o.cmds = 1 .. Len(o.cmds)
    BY DEF Objects
  <1> QED
    BY <1>1, <1>3, <1>4, <1>5, Zenon DEF WrittenObjects

(* The commands of an object lie one behind the other.                     *)
LEMMA CommandFacts ==
  ASSUME NEW o \in Objects
  PROVE  /\ o.at \in Int /\ o.swap \in BOOLEAN /\ o.is_64 \in BOOLEAN
         /\ o.cmds \in Seq(Commands) /\ Len(o.cmds) \in Nat
         /\ DOMAIN o.cmds = 1 .. Len(o.cmds)
         /\ \A k \in 1 .. Len(o.cmds) :
              /\ o.cmds[k].at \in Int /\ o.cmds[k].cmd \in Words
              /\ o.cmds[k].size \in Words /\ o.cmds[k].size \in Int
              /\ o.cmds[k].word \in Words
  <1>1. Words \subseteq Int
    BY MachOAssumption DEF Words
  <1>2. /\ o.at \in Words /\ o.swap \in BOOLEAN /\ o.is_64 \in BOOLEAN
        /\ o.cmds \in Seq(Commands)
    BY DEF Objects
  <1>3. \A c \in Commands : /\ c.at \in Int /\ c.cmd \in Words /\ c.size \in Words
                            /\ c.word \in Words
    BY DEF Commands
  <1>4. Len(o.cmds) \in Nat /\ DOMAIN o.cmds = 1 .. Len(o.cmds)
    BY <1>2
  <1>5. \A k \in 1 .. Len(o.cmds) : o.cmds[k] \in Commands
    BY <1>2
  <1> QED
    BY <1>1, <1>2, <1>3, <1>4, <1>5, Zenon

-----------------------------------------------------------------------------
(* The walk over the commands of an object that was written in the file.   *)

WrittenAs(o) ==
  /\ WrittenHeader(file, o)
  /\ \A k \in 1 .. Len(o.cmds) : WrittenCommand(file, o, k)

(* A header that is read leads to the object's first command.              *)
LEMMA HeaderStarts ==
  ASSUME NEW o \in Objects, WrittenAs(o), NEW magic \in read_magic(o.at)
  PROVE  /\ ~is_fat(magic)
         /\ mach_header(o.at, magic, should_swap_bytes(magic)) =>
              /\ Walks(o)' /\ Behind(o)' = 0 /\ pc' = "commands"
  <1>1. PICK m : m = IF o.is_64 THEN MH_MAGIC_64 ELSE MH_MAGIC
    OBVIOUS
  <1>2. /\ m \in Words /\ Len(o.cmds) \in Words
        /\ Holds(file, o, o.at, m) /\ Holds(file, o, o.at + 1, Len(o.cmds))
    BY <1>1, MagicFacts, Zenon DEF WrittenAs, WrittenHeader
  <1>3. /\ o.at \in Int /\ o.swap \in BOOLEAN /\ o.is_64 \in BOOLEAN
        /\ Len(o.cmds) \in Nat
    BY CommandFacts
  <1>4. magic = Stored(o, m)
    BY <1>2, <1>3, ReadBack
  <1>5. /\ ~is_fat(magic) /\ should_swap_bytes(magic) = o.swap
        /\ is_magic_64(magic) = o.is_64
    BY <1>1, <1>4, ObjectMagic
  <1>6. Field(o.at + 1, o.swap) = Len(o.cmds)
    BY <1>2, <1>3, ReadBack
  <1>7. ASSUME mach_header(o.at, magic, should_swap_bytes(magic))
        PROVE  /\ Walks(o)' /\ Behind(o)' = 0 /\ pc' = "commands"
     <2>1. PICK n : n = o.at + (IF o.is_64 THEN 3 ELSE 2)
      OBVIOUS
    <2>2. /\ walk' = [at |-> n, swap |-> o.swap, left |-> Len(o.cmds)]
          /\ pc' = "commands" /\ n \in Int
      BY <1>3, <1>5, <1>6, <1>7, <2>1 DEF mach_header, HeaderSize
    <2>3. Len(o.cmds) > 0 => o.cmds[1].at = n
      <3>1. Len(o.cmds) > 0 => WrittenCommand(file, o, 1)
        BY <1>3 DEF WrittenAs
      <3> QED
        BY <2>1, <3>1 DEF WrittenCommand
    <2>4. Len(o.cmds) - Len(o.cmds) = 0
      BY <1>3
    <2> QED
      BY <1>3, <2>2, <2>3, <2>4 DEF Walks, Behind
  <1> QED
    BY <1>5, <1>7

(* What the loops see of the command they are at.                          *)
LEMMA AtCommand ==
  ASSUME NEW o \in Objects, WrittenAs(o), Walks(o), walk.left > 0
  PROVE  /\ Behind(o) + 1 \in 1 .. Len(o.cmds) /\ Behind(o) \in Nat
         /\ Cmd = o.cmds[Behind(o) + 1].cmd
         /\ CmdSize = o.cmds[Behind(o) + 1].size
         /\ Cmd = LC_MAIN =>
              Word(walk.at + 2) = Stored(o, o.cmds[Behind(o) + 1].word)
         /\ Line(Cmd, Word(walk.at + 2)) =
              Line(o.cmds[Behind(o) + 1].cmd, Stored(o, o.cmds[Behind(o) + 1].word))
  <1>1. PICK k : k = Behind(o) + 1
    OBVIOUS
  <1>2. Len(o.cmds) \in Nat /\ o.swap \in BOOLEAN
    BY CommandFacts
  <1>3. k \in 1 .. Len(o.cmds) /\ Behind(o) \in Nat
    BY <1>1, <1>2 DEF Walks, Behind
  <1>4. /\ walk.at = o.cmds[k].at /\ walk.swap = o.swap
    BY <1>1 DEF Walks
  <1>5. WrittenCommand(file, o, k)
    BY <1>3 DEF WrittenAs
  <1>6. /\ o.cmds[k].cmd \in Words /\ o.cmds[k].size \in Words
        /\ o.cmds[k].word \in Words
    BY <1>3, CommandFacts
  <1>7. Cmd = o.cmds[k].cmd /\ CmdSize = o.cmds[k].size
    BY <1>2, <1>4, <1>5, <1>6, ReadBack DEF WrittenCommand, Cmd, CmdSize
  <1>8. Cmd = LC_MAIN => Word(walk.at + 2) = Stored(o, o.cmds[k].word)
    BY <1>2, <1>4, <1>5, <1>6, <1>7, ReadBack DEF WrittenCommand
  <1>9. Line(Cmd, Word(walk.at + 2)) =
          Line(o.cmds[k].cmd, Stored(o, o.cmds[k].word))
    BY <1>7, <1>8, LineWord
  <1> QED
    BY <1>1, <1>3, <1>7, <1>8, <1>9

(* A turn of a loop leads to the next command of the object.               *)
LEMMA NextWalks ==
  ASSUME NEW o \in Objects, WrittenAs(o), Walks(o), walk.left > 0, NextCommand,
         walk \in Walk
  PROVE  Walks(o)' /\ Behind(o)' = Behind(o) + 1
  <1>1. PICK k : k = Behind(o) + 1
    OBVIOUS
  <1>2. /\ k \in 1 .. Len(o.cmds) /\ CmdSize = o.cmds[k].size
        /\ walk.at = o.cmds[k].at /\ k = Len(o.cmds) - walk.left + 1
    BY <1>1, AtCommand DEF Walks, Behind
  <1>3. Len(o.cmds) \in Nat /\ walk.left \in 1 .. Len(o.cmds)
    BY CommandFacts DEF Walks
  <1>4. walk' = [walk EXCEPT !.at = o.cmds[k].at + o.cmds[k].size,
                             !.left = walk.left - 1]
    BY <1>2 DEF NextCommand, Walk
  <1>5. /\ walk'.at = o.cmds[k].at + o.cmds[k].size
        /\ walk'.left = walk.left - 1 /\ walk'.swap = walk.swap
    BY <1>4 DEF Walk
  <1>6. Len(o.cmds) - walk'.left = k /\ walk'.left \in 0 .. Len(o.cmds)
    BY <1>2, <1>3, <1>5
  <1>7. walk'.left > 0 => walk'.at = o.cmds[k + 1].at
    <2>1. walk'.left > 0 => k + 1 \in 1 .. Len(o.cmds)
      BY <1>2, <1>3, <1>5
    <2>2. walk'.left > 0 => WrittenCommand(file, o, k + 1)
      BY <2>1 DEF WrittenAs
    <2>3. (k + 1) - 1 = k /\ k + 1 # 1
      BY <1>2
    <2> QED
      BY <1>5, <2>2, <2>3 DEF WrittenCommand
  <1> QED
    BY <1>1, <1>5, <1>6, <1>7 DEF Walks, Behind

-----------------------------------------------------------------------------
(* Types.                                                                  *)

LEMMA AppendToLast ==
  ASSUME NEW T, NEW s \in Seq(Seq(T)), NEW e \in T
  PROVE  [s EXCEPT ![Len(s)] = Append(s[Len(s)], e)] \in Seq(Seq(T))
  <1>1. Len(s) \in Nat /\ DOMAIN s = 1 .. Len(s)
    OBVIOUS
  <1>2. Len(s) > 0 => Append(s[Len(s)], e) \in Seq(T)
    <2>1. Len(s) > 0 => s[Len(s)] \in Seq(T)
      OBVIOUS
    <2> QED
      BY <2>1
  <1>3. PICK v : v = Append(s[Len(s)], e)
    OBVIOUS
  <1>4. PICK n : n = Len(s)
    OBVIOUS
  <1>5. s \in [1 .. n -> Seq(T)]
    BY <1>4
  <1>6. [s EXCEPT ![n] = v] \in [1 .. n -> Seq(T)]
    <2>1. n \in 1 .. n => v \in Seq(T)
      BY <1>1, <1>2, <1>3, <1>4
    <2> QED
      BY <1>5, <2>1, Zenon
  <1> QED
    BY <1>1, <1>3, <1>4, <1>6

LEMMA HeaderType ==
  ASSUME file \in Files, NEW n \in Int, NEW magic,
         mach_header(n, magic, should_swap_bytes(magic))
  PROVE  walk' \in Walk /\ pc' = "commands"
  <1>1. should_swap_bytes(magic) \in BOOLEAN
    BY DEF should_swap_bytes
  <1>2. Field(n + 1, should_swap_bytes(magic)) \in Nat
    BY <1>1, ReadType
  <1>3. n + HeaderSize(is_magic_64(magic)) \in Int
    BY DEF HeaderSize
  <1> QED
    BY <1>1, <1>2, <1>3 DEF mach_header, Walk

LEMMA NextType ==
  ASSUME file \in Files, walk \in Walk, walk.left > 0, NextCommand
  PROVE  walk' \in Walk /\ walk'.left < walk.left
  <1>1. walk.at \in Int /\ walk.swap \in BOOLEAN /\ walk.left \in Nat
    BY DEF Walk
  <1>2. CmdSize \in Int
    BY <1>1, ReadType DEF CmdSize
  <1>3. walk' = [walk EXCEPT !.at = walk.at + CmdSize, !.left = walk.left - 1]
    BY DEF NextCommand
  <1>4. /\ walk.at + CmdSize \in Int /\ walk.left - 1 \in Nat
        /\ walk.left - 1 < walk.left
    BY <1>1, <1>2
  <1>5. walk' \in Walk
    BY <1>3, <1>4 DEF Walk
  <1>6. walk'.left = walk.left - 1
    BY <1>3 DEF Walk
  <1> QED
    BY <1>4, <1>5, <1>6

LEMMA ParseType == TypeInv /\ Parse => TypeInv'
  <1> SUFFICES ASSUME TypeInv, Parse PROVE TypeInv'
    OBVIOUS
  <1> USE DEF TypeInv, Walk
  <1>1. CASE read_entry_point_cmd
    <2>1. UNCHANGED <<file, op, archs, seen>>
      BY <1>1 DEF read_entry_point_cmd
    <2>2. walk' \in Walk /\ pc' \in {"commands", "done"}
      BY <1>1, HeaderType DEF read_entry_point_cmd
    <2> QED
      BY <2>1, <2>2
  <1>2. CASE read_segment_commands
    <2>1. UNCHANGED <<file, op, archs, seen>> /\ pc' \in {"commands", "done"}
      BY <1>2 DEF read_segment_commands
    <2>2. walk' \in Walk
      BY <1>2, NextType DEF read_segment_commands
    <2> QED
      BY <2>1, <2>2
  <1>3. CASE dump_segments
    <2>1. UNCHANGED <<file, op>>
      BY <1>3 DEF dump_segments
    <2>2. PICK magic \in read_magic(0) :
            \/ /\ mach_header(0, magic, should_swap_bytes(magic))
               /\ seen' = <<<<>>>> /\ UNCHANGED archs
            \/ /\ archs' = [at |-> 2, swap |-> should_swap_bytes(magic),
                            left |-> Field(1, should_swap_bytes(magic))]
               /\ pc' = "archs" /\ UNCHANGED <<walk, seen>>
      BY <1>3, Zenon DEF dump_segments
    <2>3. should_swap_bytes(magic) \in BOOLEAN
      BY DEF should_swap_bytes
    <2>4. Field(1, should_swap_bytes(magic)) \in Nat
      BY <2>3, ReadType
    <2>5. <<<<>>>> \in Seq(Seq(Lines))
      OBVIOUS
    <2>6. CASE /\ mach_header(0, magic, should_swap_bytes(magic))
               /\ seen' = <<<<>>>> /\ UNCHANGED archs
      <3>1. walk' \in Walk /\ pc' = "commands"
        BY <2>6, HeaderType
      <3> QED
        BY <2>1, <2>5, <2>6, <3>1
    <2>7. CASE /\ archs' = [at |-> 2, swap |-> should_swap_bytes(magic),
                            left |-> Field(1, should_swap_bytes(magic))]
               /\ pc' = "archs" /\ UNCHANGED <<walk, seen>>
      BY <2>1, <2>3, <2>4, <2>7
    <2> QED
      BY <2>2, <2>6, <2>7
  <1>4. CASE dump_fat_header
    <2>1. UNCHANGED <<file, op>>
      BY <1>4 DEF dump_fat_header
    <2>2. CASE archs.left = 0 /\ pc' = "done" /\ UNCHANGED <<walk, archs, seen>>
      BY <2>1, <2>2
    <2>3. CASE archs.left # 0 \/ pc' # "done"
      <3>1. /\ archs' = [archs EXCEPT !.at = @ + 1, !.left = @ - 1]
            /\ seen' = Append(seen, <<>>)
        BY <1>4, <2>3 DEF dump_fat_header
      <3>2. Field(archs.at, archs.swap) \in Int
        BY ReadType
      <3>3. PICK magic \in read_magic(Field(archs.at, archs.swap)) :
              mach_header(Field(archs.at, archs.swap), magic, should_swap_bytes(magic))
        BY <1>4, <2>3 DEF dump_fat_header
      <3>4. walk' \in Walk /\ pc' = "commands"
        BY <3>2, <3>3, HeaderType
      <3>5. seen' \in Seq(Seq(Lines))
        BY <3>1
      <3>6. archs' \in Walk
        <4>1. archs.at + 1 \in Int /\ archs.left - 1 \in Nat
          BY <1>4, <2>3 DEF dump_fat_header
        <4>2. archs' = [archs EXCEPT !.at = archs.at + 1, !.left = archs.left - 1]
          BY <3>1
        <4> QED
          BY <4>1, <4>2
      <3> QED
        BY <2>1, <3>4, <3>5, <3>6
    <2> QED
      BY <1>4, <2>2, <2>3 DEF dump_fat_header
  <1>5. CASE dump_segment_commands
    <2>1. UNCHANGED <<file, op, archs>> /\ pc' \in {"commands", "archs"}
      BY <1>5 DEF dump_segment_commands
    <2>2. walk' \in Walk
      BY <1>5, NextType DEF dump_segment_commands
    <2>3. seen' \in Seq(Seq(Lines))
      <3>1. Line(Cmd, Word(walk.at + 2)) \in Lines
        <4>1. walk.at \in Int /\ walk.at + 2 \in Int /\ walk.swap \in BOOLEAN
          OBVIOUS
        <4>2. Cmd \in Words /\ Word(walk.at + 2) \in Words
          BY <4>1, ReadType DEF Cmd
        <4> QED
          BY <4>2, LineType
      <3>2. \A s \in Seq(Seq(Lines)), e \in Lines :
              [s EXCEPT ![Len(s)] = Append(s[Len(s)], e)] \in Seq(Seq(Lines))
        BY AppendToLast
      <3> QED
        BY <1>5, <3>1, <3>2 DEF dump_segment_commands
    <2> QED
      BY <2>1, <2>2, <2>3
  <1> QED
    BY <1>1, <1>2, <1>3, <1>4, <1>5 DEF Parse

-----------------------------------------------------------------------------
(* The entry point.                                                        *)

LEMMA ReadHeaderStep ==
  ASSUME Inv, op = "read", read_entry_point_cmd
  PROVE  ReadInv' /\ FindsEntry'
  <1>1. UNCHANGED <<file, op>> /\ file \in Files
    BY DEF read_entry_point_cmd, Inv, TypeInv
  <1>2. PICK magic \in read_magic(0) :
          \/ is_fat(magic) /\ ret' = 1 /\ pc' = "done"
          \/ ~is_fat(magic) /\ mach_header(0, magic, should_swap_bytes(magic))
    BY Zenon DEF read_entry_point_cmd
  <1>3. ASSUME mach_header(0, magic, should_swap_bytes(magic))
        PROVE  pc' = "commands"
    BY <1>3 DEF mach_header
  <1>4. Written(file)
    BY <1>1, MachOAssumption
  <1>5. CASE file.kind = "raw"
    BY <1>1, <1>2, <1>3, <1>5 DEF ReadInv, FindsEntry
  <1>6. CASE file.kind = "empty"
    <2>1. file.words = <<>>
      BY <1>4, <1>6 DEF Written
    <2>2. Word(1) = 0
      BY <2>1 DEF Word
    <2>3. ASSUME mach_header(0, magic, should_swap_bytes(magic))
          PROVE  walk'.left = 0
      BY <2>2, <2>3, SwapZero DEF mach_header, Field
    <2> QED
      BY <1>1, <1>2, <1>3, <1>6, <2>3 DEF ReadInv, FindsEntry
  <1>7. CASE file.kind = "fat"
    <2>1. file.swap \in BOOLEAN /\ Holds(file, file, 0, FAT_MAGIC)
      BY <1>4, <1>7 DEF Written, WrittenFat
    <2>2. magic = Stored(file, FAT_MAGIC)
      BY <2>1, MagicFacts, ReadBack
    <2>3. is_fat(magic)
      BY <2>1, <2>2, FatMagic
    <2> QED
      BY <1>1, <1>2, <1>7, <2>3 DEF ReadInv, FindsEntry
  <1>8. CASE file.kind = "mach"
    <2>1. PICK o : o = file.objects[1]
      OBVIOUS
    <2>2. o \in Objects /\ WrittenAs(o) /\ o.at = 0
      <3>1. Len(file.objects) = 1 /\ o.at = 0
        BY <1>4, <1>8, <2>1 DEF Written
      <3>2. 1 \in 1 .. Len(file.objects)
        BY <3>1
      <3> QED
        BY <1>1, <1>8, <2>1, <3>1, <3>2, ObjectFacts, Zenon DEF WrittenAs
    <2>3. ~is_fat(magic) /\ Walks(o)' /\ Behind(o)' = 0 /\ pc' = "commands"
      BY <1>2, <2>2, HeaderStarts
    <2>4. \A j \in MainCommands(o) : j > 0
      BY <2>2, CommandFacts DEF MainCommands
    <2>5. \A j \in MainCommands(o) : j > Behind(o)'
      BY <2>3, <2>4
    <2>6. o = file'.objects[1]
      BY <1>1, <2>1
    <2> QED
      BY <1>1, <1>8, <2>3, <2>5, <2>6 DEF ReadInv, FindsEntry
  <1> QED
    BY <1>4, <1>5, <1>6, <1>7, <1>8 DEF Written

LEMMA ReadCommandStep ==
  ASSUME Inv, op = "read", read_segment_commands
  PROVE  ReadInv' /\ FindsEntry'
  <1>1. UNCHANGED <<file, op>> /\ file \in Files /\ pc = "commands" /\ ReadInv
        /\ walk \in Walk
    BY DEF read_segment_commands, Inv, TypeInv
  <1>2. /\ file.kind # "fat"
        /\ file.kind = "empty" => walk.left = 0
    BY <1>1 DEF ReadInv
  <1>3. /\ pc' \in {"commands", "done"}
        /\ walk.left = 0 => ret' = 1 /\ pc' = "done"
    BY <1>1 DEF read_segment_commands, Walk
  <1>4. CASE file.kind # "mach"
    <2>1. pc' = "commands" => file.kind # "empty"
      BY <1>2, <1>3
    <2>2. pc' = "done" /\ file.kind = "empty" => ret' = 1
      BY <1>2, <1>3
    <2> QED
      BY <1>1, <1>2, <1>3, <1>4, <2>1, <2>2 DEF ReadInv, FindsEntry
  <1>5. CASE file.kind = "mach"
    <2>1. PICK o : o = file.objects[1]
      OBVIOUS
    <2>2. o \in Objects /\ WrittenAs(o)
      <3>1. Written(file)
        BY <1>1, MachOAssumption
      <3>2. Len(file.objects) = 1
        BY <1>5, <3>1 DEF Written
      <3>3. 1 \in 1 .. Len(file.objects)
        BY <3>2
      <3> QED
        BY <1>1, <1>5, <2>1, <3>3, ObjectFacts, Zenon DEF WrittenAs
    <2>3. Walks(o) /\ \A j \in MainCommands(o) : j > Behind(o)
      BY <1>1, <1>5, <2>1 DEF ReadInv
    <2>4. /\ DOMAIN o.cmds = 1 .. Len(o.cmds) /\ Len(o.cmds) \in Nat
          /\ MainCommands(o) \subseteq 1 .. Len(o.cmds)
      BY <2>2, CommandFacts DEF MainCommands
    <2>5. file.kind' = "mach" /\ file'.objects[1] = o
      BY <1>1, <1>5, <2>1
    <2>6. CASE walk.left = 0
      <3>1. Behind(o) = Len(o.cmds)
        BY <2>4, <2>6 DEF Behind
      <3>2. MainCommands(o) = {}
        BY <2>3, <2>4, <3>1
      <3> QED
        BY <1>3, <2>5, <2>6, <3>2 DEF ReadInv, FindsEntry
    <2>7. CASE walk.left > 0 /\ Cmd = LC_MAIN
      <3>1. PICK k : k = Behind(o) + 1
        OBVIOUS
      <3>2. /\ k \in 1 .. Len(o.cmds) /\ o.cmds[k].cmd = LC_MAIN /\ Behind(o) \in Nat
            /\ Word(walk.at + 2) = Stored(o, o.cmds[k].word)
        BY <2>2, <2>3, <2>7, <3>1, AtCommand
      <3>3. k \in MainCommands(o)
        BY <2>4, <3>2 DEF MainCommands
      <3>4. \A j \in MainCommands(o) : k <= j
        BY <2>3, <2>4, <3>1, <3>2
      <3>5. /\ entry' = Stored(o, o.cmds[k].word) /\ ret' = 0 /\ pc' = "done"
        BY <2>7, <3>2 DEF read_segment_commands
      <3> QED
        BY <2>5, <3>3, <3>4, <3>5 DEF ReadInv, FindsEntry
    <2>8. CASE walk.left > 0 /\ Cmd # LC_MAIN
      <3>1. NextCommand /\ UNCHANGED pc
        BY <2>8 DEF read_segment_commands
      <3>2. Walks(o)' /\ Behind(o)' = Behind(o) + 1
        BY <1>1, <2>2, <2>3, <2>8, <3>1, NextWalks
      <3>3. Behind(o) \in Nat /\ Cmd = o.cmds[Behind(o) + 1].cmd
        BY <2>2, <2>3, <2>8, AtCommand
      <3>4. \A j \in MainCommands(o) : j # Behind(o) + 1
        BY <2>8, <3>3 DEF MainCommands
      <3>5. \A j \in MainCommands(o) : j > Behind(o)'
        BY <2>3, <2>4, <3>2, <3>3, <3>4
      <3> QED
        BY <1>1, <2>5, <3>1, <3>2, <3>5 DEF ReadInv, FindsEntry
    <2> QED
      BY <2>4, <2>6, <2>7, <2>8, <2>3 DEF Walks
  <1> QED
    BY <1>4, <1>5

-----------------------------------------------------------------------------
(* The listing.                                                            *)

LEMMA ListingEmpty ==
  ASSUME NEW o
  PROVE  Listing(o, 0) = <<>>
  BY DEF Listing

(* One more command is one more line.                                      *)
LEMMA ListingAppend ==
  ASSUME NEW o \in Objects, NEW n \in Nat, n + 1 <= Len(o.cmds),
         NEW line, line = Line(o.cmds[n + 1].cmd, Stored(o, o.cmds[n + 1].word))
  PROVE  Append(Listing(o, n), line) = Listing(o, n + 1)
  <1>1. \A k \in 1 .. n + 1 : Line(o.cmds[k].cmd, Stored(o, o.cmds[k].word)) \in Lines
    <2> SUFFICES ASSUME NEW k \in 1 .. n + 1
                 PROVE  Line(o.cmds[k].cmd, Stored(o, o.cmds[k].word)) \in Lines
      OBVIOUS
    <2>1. k \in 1 .. Len(o.cmds)
      BY CommandFacts
    <2>2. o.cmds[k].cmd \in Words /\ o.cmds[k].word \in Words
      BY <2>1, CommandFacts
    <2>3. Stored(o, o.cmds[k].word) \in Words
      BY <2>2, SwapWord DEF Stored
    <2> QED
      BY <2>2, <2>3, LineType
  <1>2. /\ Listing(o, n) \in Seq(Lines) /\ Len(Listing(o, n)) = n
        /\ \A k \in 1 .. n : Listing(o, n)[k] =
             Line(o.cmds[k].cmd, Stored(o, o.cmds[k].word))
    BY <1>1 DEF Listing
  <1>3. /\ Listing(o, n + 1) \in Seq(Lines) /\ Len(Listing(o, n + 1)) = n + 1
        /\ \A k \in 1 .. n + 1 : Listing(o, n + 1)[k] =
             Line(o.cmds[k].cmd, Stored(o, o.cmds[k].word))
    BY <1>1 DEF Listing
  <1>4. line \in Lines
    BY <1>1
  <1>5. /\ Append(Listing(o, n), line) \in Seq(Lines)
        /\ Len(Append(Listing(o, n), line)) = n + 1
        /\ \A k \in 1 .. n : Append(Listing(o, n), line)[k] = Listing(o, n)[k]
        /\ Append(Listing(o, n), line)[n + 1] = line
    BY <1>2, <1>4
  <1>6. \A k \in 1 .. n + 1 : Append(Listing(o, n), line)[k] = Listing(o, n + 1)[k]
    <2>1. \A k \in 1 .. n : k \in 1 .. n + 1
      OBVIOUS
    <2>2. \A k \in 1 .. n + 1 : k \in 1 .. n \/ k = n + 1
      OBVIOUS
    <2>3. n + 1 \in 1 .. n + 1
      OBVIOUS
    <2> QED
      BY <1>2, <1>3, <1>5, <2>1, <2>2, <2>3, Zenon
  <1> QED
    BY <1>3, <1>5, <1>6, SeqEqual

LEMMA DumpHeaderStep ==
  ASSUME Inv, op = "dump", file.kind \in {"mach", "fat"}, dump_segments
  PROVE  DumpInv'
  <1>1. /\ UNCHANGED <<file, op>> /\ file \in Files
        /\ seen = <<>> /\ archs.left = 0
    BY DEF dump_segments, Inv, TypeInv, DumpInv
  <1>2. PICK magic \in read_magic(0) :
          \/ /\ is_fat(magic)
             /\ archs' = [at |-> 2, swap |-> should_swap_bytes(magic),
                          left |-> Field(1, should_swap_bytes(magic))]
             /\ pc' = "archs" /\ UNCHANGED <<walk, seen>>
          \/ /\ ~is_fat(magic)
             /\ mach_header(0, magic, should_swap_bytes(magic))
             /\ seen' = <<<<>>>> /\ UNCHANGED archs
    BY Zenon DEF dump_segments
  <1>3. Written(file)
    BY <1>1, MachOAssumption
  <1>4. Len(file.objects) \in Nat
    BY <1>1, ObjectFacts
  <1>5. CASE file.kind = "fat"
    <2>1. /\ file.swap \in BOOLEAN /\ Holds(file, file, 0, FAT_MAGIC)
          /\ Len(file.objects) \in Words /\ Holds(file, file, 1, Len(file.objects))
      BY <1>3, <1>5 DEF Written, WrittenFat
    <2>2. magic = Stored(file, FAT_MAGIC)
      BY <2>1, MagicFacts, ReadBack
    <2>3. is_fat(magic) /\ should_swap_bytes(magic) = file.swap
      BY <2>1, <2>2, FatMagic
    <2>4. Field(1, file.swap) = Len(file.objects)
      BY <2>1, ReadBack
    <2>5. /\ archs' = [at |-> 2, swap |-> file.swap, left |-> Len(file.objects)]
          /\ pc' = "archs" /\ seen' = <<>>
      BY <1>1, <1>2, <2>3, <2>4
    <2>6. /\ archs'.at = 2 /\ archs'.swap = file.swap
          /\ archs'.left = Len(file.objects) /\ Len(seen') = 0
      BY <2>5
    <2> QED
      BY <1>1, <1>4, <1>5, <2>5, <2>6 DEF DumpInv, Listed
  <1>6. CASE file.kind = "mach"
    <2>1. PICK o : o = file.objects[1]
      OBVIOUS
    <2>2. Len(file.objects) = 1 /\ o.at = 0
      BY <1>3, <1>6, <2>1 DEF Written
    <2>3. o \in Objects /\ WrittenAs(o)
      <3>1. 1 \in 1 .. Len(file.objects)
        BY <2>2
      <3> QED
        BY <1>1, <1>6, <2>1, <3>1, ObjectFacts, Zenon DEF WrittenAs
    <2>4. ~is_fat(magic) /\ (mach_header(0, magic, should_swap_bytes(magic)) =>
            Walks(o)' /\ Behind(o)' = 0 /\ pc' = "commands")
      BY <2>2, <2>3, HeaderStarts
    <2>5. Walks(o)' /\ Behind(o)' = 0 /\ pc' = "commands"
          /\ seen' = <<<<>>>> /\ archs' = archs
      BY <1>2, <2>4
    <2>6. Len(seen') = 1 /\ seen'[1] = <<>>
      BY <2>5
    <2>7. o = file'.objects[Len(seen')] /\ Len(file'.objects) = 1
      BY <1>1, <2>1, <2>2, <2>6
    <2>8. seen'[Len(seen')] = Listing(o, Behind(o)')
      BY <2>5, <2>6, ListingEmpty
    <2>9. Listed(Len(seen) - 1)'
      BY <2>6 DEF Listed
    <2> QED
      BY <1>1, <2>5, <2>6, <2>7, <2>8, <2>9 DEF DumpInv
  <1> QED
    BY <1>5, <1>6

LEMMA DumpFatStep ==
  ASSUME Inv, op = "dump", file.kind \in {"mach", "fat"}, dump_fat_header
  PROVE  DumpInv' /\ ListsAll'
  <1>1. /\ UNCHANGED <<file, op>> /\ file \in Files /\ pc = "archs"
        /\ DumpInv /\ seen \in Seq(Seq(Lines))
    BY DEF dump_fat_header, Inv, TypeInv
  <1>2. /\ Len(file.objects) \in Nat /\ Len(seen) \in Nat
        /\ Len(seen) <= Len(file.objects)
        /\ archs.left = Len(file.objects) - Len(seen)
        /\ archs.left > 0 => /\ file.kind = "fat" /\ archs.swap = file.swap
                             /\ archs.at = Len(seen) + 2
        /\ Listed(Len(seen))
    BY <1>1, ObjectFacts DEF DumpInv
  <1>3. CASE archs.left = 0
    <2>1. pc' = "done" /\ UNCHANGED seen /\ Len(seen) = Len(file.objects)
      BY <1>2, <1>3 DEF dump_fat_header
    <2>2. seen = [n \in 1 .. Len(file.objects) |->
                    Listing(file.objects[n], Len(file.objects[n].cmds))]
      <3>1. seen = [n \in 1 .. Len(seen) |-> seen[n]]
        BY <1>1
      <3> QED
        BY <1>2, <2>1, <3>1 DEF Listed
    <2>3. seen' = [n \in 1 .. Len(file'.objects) |->
                    Listing(file'.objects[n], Len(file'.objects[n].cmds))]
      BY <1>1, <2>1, <2>2
    <2> QED
      BY <2>1, <2>3 DEF DumpInv, ListsAll
  <1>4. CASE archs.left > 0
    <2>1. PICK n : n = Len(seen) + 1
      OBVIOUS
    <2>2. n \in 1 .. Len(file.objects) /\ n - 1 = Len(seen) /\ archs.at = n + 1
      BY <1>2, <1>4, <2>1
    <2>3. PICK o : o = file.objects[n]
      OBVIOUS
    <2>4. o \in Objects /\ WrittenAs(o) /\ DOMAIN file.objects = 1 .. Len(file.objects)
      <3>1. WrittenObjects(file)
        BY <1>1, MachOAssumption, Zenon DEF Written
      <3>2. DOMAIN file.objects = 1 .. Len(file.objects)
        BY <3>1 DEF WrittenObjects
      <3> QED
        BY <1>1, <2>2, <2>3, <3>2, ObjectFacts, Zenon DEF WrittenAs
    <2>5. Field(archs.at, archs.swap) = o.at
      <3>1. Written(file)
        BY <1>1, MachOAssumption
      <3>2. file.swap \in BOOLEAN /\ Holds(file, file, n + 1, o.at)
        BY <1>2, <1>4, <2>2, <2>3, <2>4, <3>1 DEF Written, WrittenFat
      <3>3. o.at \in Words
        BY <2>4 DEF Objects
      <3>4. Field(n + 1, file.swap) = o.at
        BY <3>2, <3>3, ReadBack
      <3> QED
        BY <1>2, <1>4, <2>2, <3>4
    <2>6. /\ archs' = [archs EXCEPT !.at = @ + 1, !.left = @ - 1]
          /\ seen' = Append(seen, <<>>)
          /\ \E magic \in read_magic(o.at) :
               mach_header(o.at, magic, should_swap_bytes(magic))
      BY <1>4, <2>5 DEF dump_fat_header
    <2>7. Walks(o)' /\ Behind(o)' = 0 /\ pc' = "commands"
      BY <2>4, <2>6, HeaderStarts
    <2>8. /\ archs'.at = archs.at + 1 /\ archs'.left = archs.left - 1
          /\ archs'.swap = archs.swap
      BY <2>6 DEF Inv, TypeInv, Walk
    <2>9. /\ Len(seen') = n /\ seen'[n] = <<>>
          /\ \A m \in 1 .. n - 1 : seen'[m] = seen[m]
      <3>1. <<>> \in Seq(Lines)
        OBVIOUS
      <3> QED
        BY <1>1, <2>1, <2>2, <2>6, <3>1
    <2>10. Listed(Len(seen) - 1)'
      BY <1>1, <1>2, <2>2, <2>9 DEF Listed
    <2>11. o = file'.objects[Len(seen')] /\ seen'[Len(seen')] = Listing(o, Behind(o)')
      BY <1>1, <2>3, <2>7, <2>9, ListingEmpty
    <2>12. /\ Len(seen') > 0 /\ Len(seen') <= Len(file'.objects)
           /\ archs'.left = Len(file'.objects) - Len(seen')
           /\ file'.kind = "fat" /\ archs'.swap = file'.swap
           /\ archs'.at = Len(seen') + 2
      BY <1>1, <1>2, <1>4, <2>1, <2>2, <2>8, <2>9
    <2> QED
      BY <2>7, <2>10, <2>11, <2>12 DEF DumpInv, ListsAll
  <1> QED
    BY <1>2, <1>3, <1>4

LEMMA DumpCommandStep ==
  ASSUME Inv, op = "dump", file.kind \in {"mach", "fat"}, dump_segment_commands
  PROVE  DumpInv'
  <1>1. /\ UNCHANGED <<file, op, archs>> /\ file \in Files /\ pc = "commands"
        /\ DumpInv /\ seen \in Seq(Seq(Lines)) /\ walk \in Walk
    BY DEF dump_segment_commands, Inv, TypeInv
  <1>2. PICK n : n = Len(seen)
    OBVIOUS
  <1>3. PICK o : o = file.objects[n]
    OBVIOUS
  <1>4. /\ Len(file.objects) \in Nat /\ n \in 1 .. Len(file.objects)
        /\ Listed(n - 1) /\ Walks(o) /\ seen[n] = Listing(o, Behind(o))
    BY <1>1, <1>2, <1>3, ObjectFacts DEF DumpInv
  <1>5. o \in Objects /\ WrittenAs(o)
    BY <1>1, <1>3, <1>4, ObjectFacts, Zenon DEF WrittenAs
  <1>6. Len(o.cmds) \in Nat
    BY <1>5, CommandFacts
  <1>7. CASE walk.left = 0
    <2>1. pc' = "archs" /\ UNCHANGED seen
      BY <1>7 DEF dump_segment_commands
    <2>2. Behind(o) = Len(o.cmds)
      BY <1>6, <1>7 DEF Behind
    <2>3. \A m \in 1 .. n : m \in 1 .. n - 1 \/ m = n
      BY <1>4
    <2>4. Listed(n)
      BY <1>3, <1>4, <2>2, <2>3 DEF Listed
    <2>5. Listed(Len(seen))'
      BY <1>1, <1>2, <2>1, <2>4 DEF Listed
    <2> QED
      BY <1>1, <2>1, <2>5 DEF DumpInv
  <1>8. CASE walk.left > 0
    <2>1. PICK line : line = Line(Cmd, Word(walk.at + 2))
      OBVIOUS
    <2>2. /\ seen' = [seen EXCEPT ![n] = Append(seen[n], line)]
          /\ NextCommand /\ UNCHANGED pc
      BY <1>2, <1>8, <2>1 DEF dump_segment_commands
    <2>3. Walks(o)' /\ Behind(o)' = Behind(o) + 1
      BY <1>1, <1>4, <1>5, <1>8, <2>2, NextWalks
    <2>4. Append(seen[n], line) = Listing(o, Behind(o) + 1)
      <3>1. /\ Behind(o) \in Nat /\ Behind(o) + 1 \in 1 .. Len(o.cmds)
            /\ line = Line(o.cmds[Behind(o) + 1].cmd,
                           Stored(o, o.cmds[Behind(o) + 1].word))
        BY <1>4, <1>5, <1>8, <2>1, AtCommand
      <3> QED
        BY <1>4, <1>5, <1>6, <3>1, ListingAppend
    <2>5. /\ Len(seen') = n /\ seen'[n] = Listing(o, Behind(o) + 1)
          /\ \A m \in 1 .. n - 1 : seen'[m] = seen[m]
      BY <1>1, <1>2, <1>4, <2>2, <2>4
    <2>6. Listed(Len(seen) - 1)'
      BY <1>1, <1>4, <2>5 DEF Listed
    <2>7. o = file'.objects[Len(seen')]
          /\ seen'[Len(seen')] = Listing(o, Behind(o)')
      BY <1>1, <1>3, <2>3, <2>5
    <2> QED
      BY <1>1, <1>2, <1>4, <2>2, <2>3, <2>5, <2>6, <2>7 DEF DumpInv
  <1> QED
    BY <1>4, <1>7, <1>8 DEF Walks

-----------------------------------------------------------------------------

LEMMA InitInv == Init => Inv
  <1> SUFFICES ASSUME Init PROVE Inv
    OBVIOUS
  <1>1. TypeInv
    BY DEF Init, TypeInv, Walk
  <1>2. pc = "start" /\ seen = <<>> /\ archs.left = 0
    BY DEF Init
  <1> QED
    BY <1>1, <1>2 DEF Inv, ReadInv, DumpInv, FindsEntry, ListsAll

LEMMA StepInv == Inv /\ [Next]_vars => Inv'
  <1> SUFFICES ASSUME Inv, [Next]_vars PROVE Inv'
    OBVIOUS
  <1>1. CASE UNCHANGED vars
    <2>1. UNCHANGED <<file, op, pc, walk, archs, ret, entry, seen>>
      BY <1>1 DEF vars
    <2>2. TypeInv' /\ (op = "read" => ReadInv)'
      BY <2>1 DEF Inv, TypeInv, ReadInv, Walks, Behind
    <2>3. (op = "dump" /\ file.kind \in {"mach", "fat"} => DumpInv)'
      BY <2>1 DEF Inv, DumpInv, Listed, Walks, Behind
    <2>4. FindsEntry' /\ ListsAll'
      BY <2>1 DEF Inv, FindsEntry, ListsAll
    <2> QED
      BY <2>2, <2>3, <2>4 DEF Inv
  <1>2. CASE Parse
    <2>1. TypeInv' /\ op' = op /\ file' = file /\ op \in {"read", "dump"}
      BY <1>2, ParseType DEF Inv, TypeInv, Parse, read_entry_point_cmd,
         read_segment_commands, dump_segments, dump_fat_header,
         dump_segment_commands
    <2>2. CASE op = "read"
      <3>1. read_entry_point_cmd \/ read_segment_commands
        <4>1. pc # "archs"
          BY <2>2 DEF Inv, ReadInv
        <4> QED
          BY <1>2, <2>2, <4>1 DEF Parse, dump_segments, dump_fat_header,
             dump_segment_commands
      <3>2. ReadInv' /\ FindsEntry'
        BY <2>2, <3>1, ReadHeaderStep, ReadCommandStep
      <3> QED
        BY <2>1, <2>2, <3>2 DEF Inv, ListsAll
    <2>3. CASE op = "dump"
      <3>1. dump_segments \/ dump_fat_header \/ dump_segment_commands
        BY <1>2, <2>3 DEF Parse, read_entry_point_cmd, read_segment_commands
      <3>2. FindsEntry'
        BY <2>1, <2>3 DEF FindsEntry
      <3>3. CASE file.kind \notin {"mach", "fat"}
        BY <2>1, <2>3, <3>2, <3>3 DEF Inv, ListsAll
      <3>4. CASE file.kind \in {"mach", "fat"}
        <4>1. DumpInv'
          BY <2>3, <3>1, <3>4, DumpHeaderStep, DumpFatStep, DumpCommandStep
        <4>2. ListsAll'
          <5>1. CASE dump_fat_header
            BY <2>3, <3>4, <5>1, DumpFatStep
          <5>2. CASE dump_segments \/ dump_segment_commands
            <6>1. pc' # "done"
              BY <5>2 DEF dump_segments, dump_segment_commands, mach_header
            <6> QED
              BY <6>1 DEF ListsAll
          <5> QED
            BY <3>1, <5>1, <5>2
        <4> QED
          BY <2>1, <2>3, <3>2, <4>1, <4>2 DEF Inv
      <3> QED
        BY <3>3, <3>4
    <2> QED
      BY <2>1, <2>2, <2>3
  <1> QED
    BY <1>1, <1>2 DEF Next, Done

LEMMA Always == Spec => []Inv
  BY InitInv, StepInv, PTL DEF Spec

(* What a step of the parser makes smaller: the fat_archs that are left,   *)
(* and between two of them the commands of the object at hand.  The other  *)
(* steps leave the start, a finished object or the last of them for good.  *)
Smaller ==
  \/ pc = "start" /\ pc' # "start"
  \/ pc # "done" /\ pc' = "done"
  \/ /\ pc = "archs" /\ pc' = "commands"
     /\ archs'.left \in Nat /\ archs'.left < archs.left
  \/ pc = "commands" /\ pc' = "archs" /\ UNCHANGED archs
  \/ /\ pc = "commands" /\ UNCHANGED <<pc, archs>>
     /\ walk'.left \in Nat /\ walk'.left < walk.left

LEMMA ParseShrinks == TypeInv /\ Parse => Smaller
  <1> SUFFICES ASSUME TypeInv, Parse PROVE Smaller
    OBVIOUS
  <1>1. CASE read_entry_point_cmd \/ dump_segments
    BY <1>1 DEF read_entry_point_cmd, dump_segments, mach_header, Smaller
  <1>2. CASE read_segment_commands \/ dump_segment_commands
    <2>1. CASE walk.left > 0 /\ NextCommand
      <3>1. walk' \in Walk /\ walk'.left < walk.left
        BY <2>1, NextType DEF TypeInv
      <3>2. walk'.left \in Nat
        BY <3>1 DEF Walk
      <3> QED
        BY <1>2, <2>1, <3>1, <3>2
        DEF read_segment_commands, dump_segment_commands, Smaller
    <2> QED
      BY <1>2, <2>1 DEF read_segment_commands, dump_segment_commands, Smaller
  <1>3. CASE dump_fat_header
    <2>1. CASE archs.left = 0
      BY <1>3, <2>1 DEF dump_fat_header, Smaller
    <2>2. CASE archs.left > 0
      <3>1. archs' = [archs EXCEPT !.at = archs.at + 1, !.left = archs.left - 1]
        BY <1>3, <2>2 DEF dump_fat_header
      <3>2. archs'.left = archs.left - 1 /\ archs.left \in Nat
        BY <3>1 DEF TypeInv, Walk
      <3>3. pc = "archs" /\ pc' = "commands"
        BY <1>3, <2>2 DEF dump_fat_header, mach_header
      <3> QED
        BY <2>2, <3>2, <3>3 DEF Smaller
    <2> QED
      BY <1>3, <2>1, <2>2 DEF dump_fat_header
  <1> QED
    BY <1>1, <1>2, <1>3 DEF Parse

(* Every step of the parser, on any file whatever, leads closer to its     *)
(* end: neither loop can turn forever, also where cmdsize is zero or the   *)
(* numbers in the file are arbitrary.                                      *)
THEOREM ParserShrinks == Spec => [][Smaller]_vars
  <1>1. Inv /\ [Next]_vars => [Smaller]_vars
    BY ParseShrinks DEF Inv, Next, Done
  <1> QED
    BY <1>1, Always, PTL DEF Spec

(* read_entry_point_cmd finds the first LC_MAIN of a Mach-O object of any  *)
(* number and sizes of commands, in either width and byte order, and       *)
(* reports failure for one without, for a fat file and for an empty file.  *)
THEOREM ParserFindsEntry == Spec => []FindsEntry
  <1>1. Inv => FindsEntry
    BY DEF Inv
  <1> QED
    BY <1>1, Always, PTL

(* dump_segments comes by every command of every object of a file, in      *)
(* their order, however many there are and whatever their byte orders.     *)
THEOREM ParserListsAll == Spec => []ListsAll
  <1>1. Inv => ListsAll
    BY DEF Inv
  <1> QED
    BY <1>1, Always, PTL

=============================================================================
