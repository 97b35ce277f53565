----------------------------- MODULE MCBlockMap -----------------------------
(***************************************************************************)
(* Two direct entries and tables of two pointers: 16 blocks, eight of them *)
(* below the triple indirect table.                                        *)
(***************************************************************************)
EXTENDS BlockMap

\* A boot block of zeros, and one whose first bytes read as a block's number.
BootBlocks == {ZeroTable, [i \in 0 .. Entries - 1 |-> IF i = 0 THEN Other ELSE NoBlock]}
=============================================================================
