---------------------------- MODULE MCMemRegions ----------------------------
(***************************************************************************)
(* Instance of MemRegions for TLC: a guest-physical space of a few pages   *)
(* that fills up, fragments and is refused at its top.                     *)
(***************************************************************************)
EXTENDS MemRegions

=============================================================================
