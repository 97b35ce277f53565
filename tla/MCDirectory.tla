---------------------------- MODULE MCDirectory ----------------------------
(***************************************************************************)
(* Blocks of two sectors of 32 bytes.  The names need records of 12, 16    *)
(* and 20 bytes, so that headers and names land in either sector, and one  *)
(* order of creation leaves exactly the room the next entry needs.         *)
(***************************************************************************)
EXTENDS Directory

Lengths == [n \in {".", "..", "old", "abcd", "abcde", "abcdefghijkl"} |->
              CASE n = "."     -> 1
                [] n = ".."    -> 2
                [] n = "old"   -> 3
                [] n = "abcd"  -> 4
                [] n = "abcde" -> 5
                [] n = "abcdefghijkl" -> 12]

Created == {"abcd", "abcde", "abcdefghijkl"}

Positions == {4 * k : k \in 0 .. 39}

Entry(inode, rec_len, n) == [inode |-> inode, rec_len |-> rec_len, name_len |-> Lengths[n]]

\* Blank space overlaid by the given records and names.
Laid(size, hdr, nam) ==
  [size |-> size,
   hdr |-> [o \in Positions |-> IF o \in DOMAIN hdr THEN hdr[o] ELSE Unused],
   nam |-> [o \in Positions |-> IF o \in DOMAIN nam THEN nam[o] ELSE NoName]]

\* A new directory.
Fresh ==
  Laid(64, [o \in {0, 12} |-> IF o = 0 THEN Entry(11, 12, ".") ELSE Entry(12, 52, "..")],
           [o \in {8, 20} |-> IF o = 8 THEN "." ELSE ".."])

\* A directory of two blocks, the only file of the second deleted.
Emptied ==
  Laid(128, [o \in {0, 12, 64} |-> CASE o = 0 -> Entry(11, 12, ".")
                                     [] o = 12 -> Entry(12, 52, "..")
                                     [] o = 64 -> Entry(0, 64, "old")],
            [o \in {8, 20, 72} |-> CASE o = 8 -> "." [] o = 20 -> ".." [] o = 72 -> "old"])

Dirs == {Fresh, Emptied}

=============================================================================
