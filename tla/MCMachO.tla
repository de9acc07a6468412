------------------------------ MODULE MCMachO -------------------------------
(***************************************************************************)
(* Instance of MachO for TLC: objects of both widths and byte orders with  *)
(* all sequences of commands up to a length, fat files of two of them, and *)
(* files of arbitrary words behind some magic.                             *)
(***************************************************************************)
EXTENDS MachO, SequencesExt

CONSTANTS
  MaxCmds,   \* bound on the commands of an object
  RawWords,  \* words that arbitrary files have behind a magic
  MaxRaw     \* bound on the length of an arbitrary file

Other == 5   \* a command the parser does not look at

(* The first word of the contents of a segment looks like the start of an  *)
(* LC_MAIN.                                                                *)
C(cmd, size, word) == [cmd |-> cmd, size |-> size, word |-> word]
MCCommands == {C(LC_MAIN, 3, 9), C(LC_MAIN, 4, 10), C(LC_SEGMENT_64, 3, LC_MAIN),
               C(LC_SEGMENT, 4, LC_MAIN), C(Other, 2, 0)}

Contents(c) == SubSeq(<<c.cmd, c.size, c.word, LC_MAIN>>, 1, c.size)
AllContents(cmds) == FlattenSeq([k \in 1 .. Len(cmds) |-> Contents(cmds[k])])
Header(is_64, n) == IF is_64 THEN <<MH_MAGIC_64, n, 0>> ELSE <<MH_MAGIC, n>>

Swapped(order, words) == [k \in 1 .. Len(words) |-> Stored(order, words[k])]

ObjectWords(d) == Swapped(d, Header(d.is_64, Len(d.cmds)) \o AllContents(d.cmds))

(* Designs of objects, and the object that one is at an offset.            *)
Designs(max) == [swap : BOOLEAN, is_64 : BOOLEAN,
                 cmds : UNION {[1 .. n -> MCCommands] : n \in 0 .. max}]

Object(d, at) ==
  [at |-> at, swap |-> d.swap, is_64 |-> d.is_64,
   cmds |-> [k \in 1 .. Len(d.cmds) |->
     LET c == d.cmds[k] IN
     [cmd |-> c.cmd, size |-> c.size, word |-> c.word,
      at |-> at + Len(Header(d.is_64, 0) \o AllContents(SubSeq(d.cmds, 1, k - 1)))]]]

File(kind, swap, objects, words) ==
  [kind |-> kind, swap |-> swap, objects |-> objects, words |-> words]

Single == {File("mach", d.swap, <<Object(d, 0)>>, ObjectWords(d)) :
             d \in Designs(MaxCmds)}

Fat(swap, a, b) ==
  LET first == 4 + Len(ObjectWords(a)) IN
  File("fat", swap, <<Object(a, 4), Object(b, first)>>,
       Swapped([swap |-> swap], <<FAT_MAGIC, 2, 4, first>>)
         \o ObjectWords(a) \o ObjectWords(b))

Raw == {File("raw", FALSE, <<>>, <<m>> \o w) :
          m \in {0, MH_MAGIC, Swap(MH_MAGIC_64), FAT_MAGIC},
          w \in UNION {[1 .. n -> RawWords] : n \in 0 .. MaxRaw}}

MCFiles == Single \cup Raw \cup {File("empty", FALSE, <<>>, <<>>)}
             \cup {Fat(s, a, b) : s \in BOOLEAN, a \in Designs(1),
                                  b \in Designs(1)}

=============================================================================
