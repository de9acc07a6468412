------------------------------- MODULE MachO --------------------------------
(***************************************************************************)
(* The Mach-O parser, macho_parser.c: read_entry_point_cmd, which the      *)
(* loader calls, and dump_segments, which lists the commands of a file.    *)
(*                                                                         *)
(* A file is a sequence of words.  A word has two digits of base Digit and *)
(* the swap functions exchange them, so that numbers really change when    *)
(* they are read in the wrong order.  Structures keep the fields the code  *)
(* looks at, and sizes are in words: a header is its magic and ncmds, one  *)
(* word more for 64 bits; a load command its cmd and cmdsize; LC_MAIN has  *)
(* one word more, entryoff; a fat header is its magic and nfat_arch, and a *)
(* fat_arch its offset.  Offsets are not large enough to overflow an int.  *)
(***************************************************************************)
EXTENDS Integers, Sequences

CONSTANTS
  Digit,        \* words are 0 .. Digit * Digit - 1
  Files,        \* files: their words, and what they were written as
  MH_MAGIC, MH_MAGIC_64, FAT_MAGIC,
  LC_SEGMENT, LC_SEGMENT_64, LC_MAIN,
  Residue       \* what an uninitialized magic can hold

Words == 0 .. Digit * Digit - 1
Swap(w) == (w % Digit) * Digit + (w \div Digit)

-----------------------------------------------------------------------------
(* Files.  One of kind "mach" or "fat" was written as the Mach-O objects   *)
(* f.objects: each begins at its offset and has a byte order, a width and  *)
(* load commands; a command begins at its offset and has its number, its   *)
(* size and the first word of its contents, which only LC_MAIN needs.  The *)
(* fat header has a byte order of its own.  A "raw" file is anything.      *)

Commands == [at : Nat, cmd : Words, size : Words, word : Words]
Objects == [at : Words, swap : BOOLEAN, is_64 : BOOLEAN, cmds : Seq(Commands)]

Stored(order, w) == IF order.swap THEN Swap(w) ELSE w
Holds(f, order, n, w) ==
  n + 1 \in DOMAIN f.words /\ f.words[n + 1] = Stored(order, w)

WrittenHeader(f, o) ==
  /\ Len(o.cmds) \in Words
  /\ Holds(f, o, o.at, IF o.is_64 THEN MH_MAGIC_64 ELSE MH_MAGIC)
  /\ Holds(f, o, o.at + 1, Len(o.cmds))

WrittenCommand(f, o, k) ==
  LET c == o.cmds[k] IN
  /\ c.at = IF k = 1 THEN o.at + (IF o.is_64 THEN 3 ELSE 2)
                     ELSE o.cmds[k - 1].at + o.cmds[k - 1].size
  /\ Holds(f, o, c.at, c.cmd) /\ Holds(f, o, c.at + 1, c.size)
  /\ c.cmd = LC_MAIN => Holds(f, o, c.at + 2, c.word)

WrittenObjects(f) ==
  /\ f.objects \in Seq(Objects)
  /\ \A n \in DOMAIN f.objects :
       /\ WrittenHeader(f, f.objects[n])
       /\ \A k \in DOMAIN f.objects[n].cmds : WrittenCommand(f, f.objects[n], k)

WrittenFat(f) ==
  /\ f.swap \in BOOLEAN /\ Len(f.objects) \in Words
  /\ Holds(f, f, 0, FAT_MAGIC) /\ Holds(f, f, 1, Len(f.objects))
  /\ \A n \in DOMAIN f.objects : Holds(f, f, n + 1, f.objects[n].at)

Written(f) ==
  /\ f.kind \in {"mach", "fat", "empty", "raw"} /\ f.words \in Seq(Words)
  /\ f.kind \in {"mach", "fat"} => WrittenObjects(f)
  /\ f.kind = "mach" => Len(f.objects) = 1 /\ f.objects[1].at = 0
  /\ f.kind = "fat" => WrittenFat(f)
  /\ f.kind = "empty" => f.words = <<>>

Magics == {MH_MAGIC, MH_MAGIC_64, FAT_MAGIC}

ASSUME MachOAssumption ==
  /\ Digit \in Nat \ {0, 1}
  /\ Magics \cup {LC_SEGMENT, LC_SEGMENT_64, LC_MAIN} \cup Residue \subseteq Words
  /\ MH_MAGIC # MH_MAGIC_64 /\ MH_MAGIC # FAT_MAGIC /\ MH_MAGIC_64 # FAT_MAGIC
  /\ \A a, b \in Magics : a # Swap(b)
  /\ LC_MAIN \notin {LC_SEGMENT, LC_SEGMENT_64}
  /\ Residue # {}
  /\ \A f \in Files : Written(f)

VARIABLES
  file,   \* the file
  op,     \* "read" for read_entry_point_cmd, "dump" for dump_segments
  pc,     \* "start", "commands", "archs" or "done"
  walk,   \* offset, byte order and commands left of the loop over commands
  archs,  \* next fat_arch, byte order of the fat header, number left
  ret,    \* return value of read_entry_point_cmd
  entry,  \* entry_point->entryoff
  seen    \* ghost: for each header that was read, the commands come by

vars == <<file, op, pc, walk, archs, ret, entry, seen>>

-----------------------------------------------------------------------------
(* load_bytes: what lies behind the end of the file reads as zero.         *)
Word(n) == IF n + 1 \in DOMAIN file.words THEN file.words[n + 1] ELSE 0
Field(n, swap) == IF swap THEN Swap(Word(n)) ELSE Word(n)

(* read_magic: behind the end nothing is stored in the variable.           *)
read_magic(n) == IF n + 1 \in DOMAIN file.words THEN {Word(n)} ELSE Residue

is_magic_64(magic) == magic \in {MH_MAGIC_64, Swap(MH_MAGIC_64)}
should_swap_bytes(magic) ==
  magic \in {Swap(MH_MAGIC), Swap(MH_MAGIC_64), Swap(FAT_MAGIC)}
is_fat(magic) == magic \in {FAT_MAGIC, Swap(FAT_MAGIC)}

(* Variant: both headers have the same size.                               *)
HeaderSize_same(is_64) == 2
HeaderSize(is_64) == IF is_64 THEN 3 ELSE 2

(* read_mach_header and dump_mach_header: any magic that is none of the    *)
(* known ones counts as that of a 32-bit header.                           *)
mach_header(n, magic, swap) ==
  /\ walk' = [at |-> n + HeaderSize(is_magic_64(magic)), swap |-> swap,
              left |-> Field(n + 1, swap)]
  /\ pc' = "commands"

-----------------------------------------------------------------------------
(* The entry point.                                                        *)

read_entry_point_cmd ==
  /\ pc = "start" /\ op = "read"
  /\ \E magic \in read_magic(0) :
        IF is_fat(magic)
        THEN ret' = 1 /\ pc' = "done" /\ UNCHANGED walk
        ELSE mach_header(0, magic, should_swap_bytes(magic)) /\ UNCHANGED ret
  /\ UNCHANGED <<file, op, archs, entry, seen>>

Cmd == Field(walk.at, walk.swap)
CmdSize == Field(walk.at + 1, walk.swap)

(* Variant: the walk is bounded by the size of the commands.               *)
NextCommand_by_size ==
  walk' = [walk EXCEPT !.at = @ + CmdSize,
                       !.left = IF @ > CmdSize THEN @ - CmdSize ELSE 0]

NextCommand == walk' = [walk EXCEPT !.at = @ + CmdSize, !.left = @ - 1]

(* One turn of the loop, or its end.  A segment is only logged.  The       *)
(* command found is copied as it lies in the file, in either byte order.   *)
read_segment_commands ==
  /\ pc = "commands" /\ op = "read"
  /\ \/ /\ walk.left = 0
        /\ ret' = 1 /\ pc' = "done"
        /\ UNCHANGED <<walk, entry>>
     \/ /\ walk.left > 0 /\ Cmd = LC_MAIN
        /\ entry' = Word(walk.at + 2)
        /\ ret' = 0 /\ pc' = "done"
        /\ UNCHANGED walk
     \/ /\ walk.left > 0 /\ Cmd # LC_MAIN
        /\ NextCommand
        /\ UNCHANGED <<pc, ret, entry>>
  /\ UNCHANGED <<file, op, archs, seen>>

-----------------------------------------------------------------------------
(* The listing.                                                            *)

dump_segments ==
  /\ pc = "start" /\ op = "dump"
  /\ \E magic \in read_magic(0) :
       LET swap == should_swap_bytes(magic) IN
        IF is_fat(magic)
        THEN /\ archs' = [at |-> 2, swap |-> swap, left |-> Field(1, swap)]
             /\ pc' = "archs" /\ UNCHANGED <<walk, seen>>
        ELSE mach_header(0, magic, swap) /\ seen' = <<<<>>>> /\ UNCHANGED archs
  /\ UNCHANGED <<file, op, ret, entry>>

(* Variant: the fat header's byte order is used for what it contains.      *)
dump_fat_header_order ==
  /\ pc = "archs"
  /\ \/ archs.left = 0 /\ pc' = "done" /\ UNCHANGED <<walk, archs, seen>>
     \/ /\ archs.left > 0
        /\ LET n == Field(archs.at, archs.swap) IN
             \E magic \in read_magic(n) : mach_header(n, magic, archs.swap)
        /\ archs' = [archs EXCEPT !.at = @ + 1, !.left = @ - 1]
        /\ seen' = Append(seen, <<>>)
  /\ UNCHANGED <<file, op, ret, entry>>

(* One turn of the loop over the architectures: each has a byte order of   *)
(* its own.                                                                *)
dump_fat_header ==
  /\ pc = "archs"
  /\ \/ archs.left = 0 /\ pc' = "done" /\ UNCHANGED <<walk, archs, seen>>
     \/ /\ archs.left > 0
        /\ LET n == Field(archs.at, archs.swap) IN
             \E magic \in read_magic(n) :
                mach_header(n, magic, should_swap_bytes(magic))
        /\ archs' = [archs EXCEPT !.at = @ + 1, !.left = @ - 1]
        /\ seen' = Append(seen, <<>>)
  /\ UNCHANGED <<file, op, ret, entry>>

(* The line that is logged for a command; the entry point is not swapped.  *)
Line(cmd, word) ==
  CASE cmd \in {LC_SEGMENT, LC_SEGMENT_64} -> <<"segment", cmd>>
    [] cmd = LC_MAIN -> <<"entry", word>>
    [] OTHER -> <<"none", cmd>>

dump_segment_commands ==
  /\ pc = "commands" /\ op = "dump"
  /\ \/ /\ walk.left = 0
        /\ pc' = "archs"     \* of which a file that is not fat has none left
        /\ UNCHANGED <<walk, seen>>
     \/ /\ walk.left > 0
        /\ seen' = [seen EXCEPT ![Len(seen)] =
                              Append(@, Line(Cmd, Word(walk.at + 2)))]
        /\ NextCommand
        /\ UNCHANGED pc
  /\ UNCHANGED <<file, op, archs, ret, entry>>

-----------------------------------------------------------------------------

Init ==
  /\ file \in Files /\ op \in {"read", "dump"} /\ pc = "start"
  /\ walk = [at |-> 0, swap |-> FALSE, left |-> 0]
  /\ archs = [at |-> 0, swap |-> FALSE, left |-> 0]
  /\ ret = 0 /\ entry = 0 /\ seen = <<>>

Parse == \/ read_entry_point_cmd \/ read_segment_commands
         \/ dump_segments \/ dump_fat_header \/ dump_segment_commands

Done == pc = "done" /\ UNCHANGED vars

Next == Parse \/ Done

(* The parser is straight-line code of the host.                           *)
Spec == Init /\ [][Next]_vars /\ WF_vars(Parse)

-----------------------------------------------------------------------------
MainCommands(o) == {k \in DOMAIN o.cmds : o.cmds[k].cmd = LC_MAIN}

(* For a file that is one Mach-O object, of either width and byte order,   *)
(* read_entry_point_cmd finds its first LC_MAIN whatever commands precede  *)
(* it, and reports failure when there is none; so it does for a fat file   *)
(* and for an empty one.  The entry point of an object of the other byte   *)
(* order comes as it is stored: the code swaps the header and the sizes    *)
(* on the way, and not this command.                                       *)
FindsEntry ==
  op = "read" /\ pc = "done" =>
    LET o == file.objects[1] IN
    /\ file.kind \in {"fat", "empty"} => ret = 1
    /\ file.kind = "mach" => (ret = 1 <=> MainCommands(o) = {})
    /\ file.kind = "mach" /\ ret = 0 =>
         \E k \in MainCommands(o) :
            /\ \A j \in MainCommands(o) : k <= j
            /\ entry = Stored(o, o.cmds[k].word)

(* The lines of the first n commands of an object.                         *)
Listing(o, n) ==
  [k \in 1 .. n |-> Line(o.cmds[k].cmd, Stored(o, o.cmds[k].word))]

(* dump_segments, an interface that hvexec itself does not call, comes by  *)
(* every command of every object of a file, in order, also where the       *)
(* objects of a fat file differ in byte order.                             *)
ListsAll ==
  op = "dump" /\ pc = "done" /\ file.kind \in {"mach", "fat"} =>
    seen = [n \in 1 .. Len(file.objects) |->
              Listing(file.objects[n], Len(file.objects[n].cmds))]

(* Both end for every file, also one that is no Mach-O object, whose       *)
(* numbers of commands and sizes are arbitrary, zero among them.           *)
WalkEnds == <>(pc = "done")

=============================================================================
