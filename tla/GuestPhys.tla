----------------------------- MODULE GuestPhys -----------------------------
(***************************************************************************)
(* What vm_mem.c promises about guest-physical memory, with no list and no *)
(* walk: a partial map from guest-physical pages to host pages that only   *)
(* grows, one whole range at a time, and that a failing call leaves alone. *)
(* MemRegions implements it.                                               *)
(***************************************************************************)
EXTENDS Integers

CONSTANTS
  GpaPages,  \* number of guest-physical pages that can be mapped
  Blocks,    \* host blocks: ranges of host-virtual memory
  MaxPages,  \* largest range mapped by one call
  NULL       \* "no host page"

VARIABLES
  phys,      \* guest-physical page -> host page <<block, offset>>, or NULL
  ret        \* result of the last call: 0, or -1 for failure

vars == <<phys, ret>>

Pages == 0 .. GpaPages - 1

Unused(b) == \A p \in Pages : \A o \in 0 .. MaxPages : phys[p] # <<b, o>>

Init ==
  /\ phys = [p \in Pages |-> NULL]
  /\ ret = 0

(* A call that succeeds maps n free pages from g on to one unused block.   *)
Map(g, n, b) ==
  /\ g .. (g + n - 1) \subseteq Pages
  /\ \A p \in g .. (g + n - 1) : phys[p] = NULL
  /\ Unused(b)
  /\ phys' = [p \in Pages |->
                IF p \in g .. (g + n - 1) THEN <<b, p - g>> ELSE phys[p]]
  /\ ret' = 0

(* A call that fails changes no mapping.                                   *)
Fail ==
  /\ ret' = -1
  /\ UNCHANGED phys

Next ==
  \/ \E g \in Pages, n \in 1 .. MaxPages, b \in Blocks : Map(g, n, b)
  \/ Fail

Spec == Init /\ [][Next]_vars

=============================================================================
