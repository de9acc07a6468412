----------------------------- MODULE MCBuffers ------------------------------
(***************************************************************************)
(* Instances of Buffers for TLC: tables of two entries, two low pages, an  *)
(* executable of up to three pages, pages of two bytes.                    *)
(***************************************************************************)
EXTENDS Buffers

MCZeroed == {[s \in Slots |-> Zero]}
MCResidue == {Zero}
MCGdt == [s \in Slots |-> IF s = 0 THEN Zero
                          ELSE [ppn |-> AddrPages - 1, flags |-> 3]]

=============================================================================
