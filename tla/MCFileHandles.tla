---------------------------- MODULE MCFileHandles ----------------------------
(***************************************************************************)
(* Small volumes for FileHandles: sectors of 2 bytes, blocks of 2 sectors. *)
(* File 1 has its two bytes in block 1; file 2 is empty and has no block   *)
(* yet; block 2 is free and was never written.                             *)
(***************************************************************************)
EXTENDS FileHandles, TLC

\* Handles are interchangeable.
HandleSymmetry == Permutations(Handles)

\* A state without what no later step depends on: what was read last, and the
\* buffer of a handle that is not dirty, which the next access loads again.
Shown ==
  <<disk, inode, free, unmarked, astray, closing, overrun, misplaced, shared,
    [h \in Handles |->
       IF fe[h].dirty THEN fe[h]
       ELSE [fe[h] EXCEPT !.lba = 0, !.buf = [k \in Offsets |-> Junk]]]>>

TwoFiles == {1, 2}

TwoDisk ==
  [lba \in 2 .. 5 |-> [k \in 0 .. 1 |->
     IF lba = 2 THEN "o" ELSE "junk"]]

TwoInodes ==
  [f \in 1 .. 2 |->
     IF f = 1 THEN [i_size |-> 2, i_block |-> [k \in 0 .. 1 |-> IF k = 0 THEN 1 ELSE 0]]
     ELSE [i_size |-> 0, i_block |-> [k \in 0 .. 1 |-> 0]]]

\* Sectors of one byte: file 1 fills block 1, file 2 is empty.
TinyInodes ==
  [f \in 1 .. 2 |-> [i_size |-> IF f = 1 THEN 2 ELSE 0,
                     i_block |-> [k \in 0 .. 1 |-> IF f = 1 /\ k = 0 THEN 1 ELSE 0]]]

TinyDisk == [lba \in 2 .. 5 |-> [k \in 0 .. 0 |-> IF lba \in {2, 3} THEN "w" ELSE "junk"]]
=============================================================================
