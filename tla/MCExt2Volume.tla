---------------------------- MODULE MCExt2Volume ----------------------------
(***************************************************************************)
(* Small volumes for Ext2Volume.                                           *)
(*                                                                         *)
(* Volume A has 1 KiB blocks and two groups of 8 blocks and 8 inodes.  A   *)
(* sector is one byte, the whole of a bitmap.  Blocks 1 and 9 hold the     *)
(* superblock copies, 2 and 10 the descriptor tables, 3 and 4 the bitmaps  *)
(* of group 0, 5 and 6 those of group 1, 7 and 11 the inode tables; files  *)
(* may own 8 and 12 to 15.  The second group is one block short.           *)
(***************************************************************************)
EXTENDS Ext2Volume

\* Volume A.
ABlockBitmap == [g \in 0 .. 1 |-> IF g = 0 THEN 3 ELSE 5]
AInodeBitmap == [g \in 0 .. 1 |-> IF g = 0 THEN 4 ELSE 6]
ADataBlocks  == {8} \cup 12 .. 15

\* Both sectors of a data block.
ADataSectors == {24, 25}

\* Inode 3 is a file with block 12; the slot of inode 4 still holds a pointer
\* left by a deleted inode.
ATable == [n \in 1 .. 16 |-> IF n \in {3, 4} THEN 12 ELSE 0]
AFiles == {3}

AFreeBlocks == {{8, 13, 14}, {8}, {}}
AFreeInodes == {{4, 5, 10}, {9}, {}}

\* The sector ext2_change_allocated takes for a bitmap is empty, or is not.
AStray == {{}, {<<5, 0, 5>>}}

NoStray  == {{}}
=============================================================================
