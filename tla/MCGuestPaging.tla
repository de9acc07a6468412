--------------------------- MODULE MCGuestPaging ---------------------------
(***************************************************************************)
(* Instances of GuestPaging for TLC.  Tables of three entries; the low     *)
(* pages 0 .. 3 need two page tables, the executable starts in another     *)
(* page directory and crosses a page-table border.                         *)
(***************************************************************************)
EXTENDS GuestPaging

EmptyPage == [s \in Slots |-> Zero]

MCZeroed == {EmptyPage}

(* valloc does not clear a page: stale words that point to the low page or *)
(* nowhere.                                                                *)
MCDirty == {EmptyPage,
            [s \in Slots |-> IF s = 0 THEN [ppn |-> 0, flags |-> 3]
                             ELSE [ppn |-> AddrPages - 1, flags |-> s]]}

(* A word left on the stack: zero, the low page, or an address nowhere.    *)
MCResidue == {Zero, [ppn |-> 0, flags |-> 3],
              [ppn |-> AddrPages - 1, flags |-> 1]}

(* Descriptors 0 and 1 are null; the code and the data descriptor read as  *)
(* present entries that point far outside mapped memory.                   *)
MCGdt == [s \in Slots |-> IF s < 2 THEN Zero
                          ELSE [ppn |-> AddrPages - 1, flags |-> 3]]

=============================================================================
