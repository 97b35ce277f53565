---------------------------- MODULE MCImageDisk ----------------------------
(***************************************************************************)
(* Sectors of 4 bytes and numbers of 6 bits, so that offsets wrap at       *)
(* sector 16, within the reach of an entry whose end wraps.                *)
(***************************************************************************)
EXTENDS ImageDisk

\* Whole sectors, one byte short of that, one byte more, and too large.
Sizes == {12, 15, 17, 32}

OneEntry == [lba_start : {0, 1, 2}, length : {0, 2, 3, 62}]

\* The second entry fits an image of three sectors exactly, or wraps.
TwoEntries == {<<e, f>> : e \in OneEntry, f \in [lba_start : {2}, length : {1, 62}]}
=============================================================================
