------------------------------- MODULE MCBoot -------------------------------
(***************************************************************************)
(* Instance of Launch and Boot for TLC: the proportions of conf.h in       *)
(* small, and command lines around every limit.                            *)
(***************************************************************************)
EXTENDS Boot

CONSTANTS
  MaxArgs,    \* bound on the number of arguments
  MaxString,  \* bound on the length of one
  Kernels     \* sizes of the kernel file

O(o, v) == [o |-> o, v |-> v]
Usual == <<O("k", "boot")>>

MCOptions ==
  {<<O("i", ""), O("k", "boot"), O("s", "lib")>>,
   <<O("l", "ERROR"), O("o", "a"), O("k", "boot")>>,
   <<O("l", "SILENT"), O("k", "boot"), O("s", "lib")>>,
   <<O("o", "a"), O("o", "b"), O("k", "old"), O("k", "boot"), O("l", "WARN")>>,
   <<O("l", "INFO")>>,
   <<O("k", "boot"), O("l", "other")>>,
   <<O("?", ""), O("k", "boot")>>}

MCArgs == UNION {[1 .. n -> 1 .. MaxString] : n \in 0 .. MaxArgs}

(* All layouts with the usual options, and all options with two of them.   *)
MCCommands ==
  [opts : {Usual}, args : MCArgs, kernel : Kernels, main : BOOLEAN] \cup
  [opts : MCOptions, args : {<<>>, <<1>>}, kernel : {BootLen}, main : {TRUE}]

=============================================================================
