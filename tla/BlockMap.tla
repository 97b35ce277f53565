------------------------------ MODULE BlockMap ------------------------------
(***************************************************************************)
(* The block map of one file: i_block with its direct entries and the      *)
(* trees of indirect blocks below the last three.  ext2_block_from_offset  *)
(* walks it and ext2_truncate_file gives its blocks back.  embext never    *)
(* fills an indirect block itself, so the file is one that another         *)
(* implementation of ext2 wrote, possibly with holes.                      *)
(*                                                                         *)
(* A pointer of 0 means that there is no block.  Both functions load block *)
(* 0, the boot block, when the pointer to a table is 0.                    *)
(***************************************************************************)
EXTENDS Integers, FiniteSets, Sequences

CONSTANTS
  Direct,    \* the direct entries of i_block, 12 in the format
  Entries,   \* pointers in an indirect block
  Boots,     \* what block 0 may hold, read as pointers
  MaxHoles   \* bound: blocks missing below the last one of a file

ASSUME SizeAssumption ==
  Direct \in Nat \ {0} /\ Entries \in Nat \ {0} /\ MaxHoles \in Nat

VARIABLES
  i_block,    \* fe->inode.i_block
  table,      \* the pointers in every block
  used,       \* the blocks marked in the bitmap
  found,      \* the last block index looked up, and what was returned
  written,    \* history: the block indices the file has a block for
  truncated   \* history: ext2_truncate_file has run

vars == <<i_block, table, used, found, written, truncated>>

Single == Direct
Double == Direct + 1
Triple == Direct + 2

(***************************************************************************)
(* The format.  A block is named by the path that leads to it, an entry of *)
(* i_block and the entries of the tables below it from the top, and the    *)
(* data blocks of a file come in the lexicographic order of their paths.   *)
(***************************************************************************)

InTable == 0 .. Entries - 1
Leaves  == {<<i>> : i \in 0 .. Direct - 1}
             \cup ({Single} \X InTable)
             \cup ({Double} \X InTable \X InTable)
             \cup ({Triple} \X InTable \X InTable \X InTable)

Precedes(p, q) ==
  \E n \in 1 .. Len(p) : (\A i \in 1 .. n - 1 : p[i] = q[i]) /\ p[n] < q[n]

Largest == Cardinality(Leaves)
Indices == 0 .. Largest - 1
PathTo  == [k \in Indices |->
              CHOOSE p \in Leaves : Cardinality({q \in Leaves : Precedes(q, p)}) = k]

PrefixesOf(p) == {SubSeq(p, 1, n) : n \in 1 .. Len(p)}
Tables        == (UNION {PrefixesOf(p) : p \in Leaves}) \ Leaves
NoBlock       == <<>>       \* the pointer 0
Other         == <<-2>>     \* a block of another file
Blocks        == Leaves \cup Tables \cup {Other}
ZeroTable     == [i \in InTable |-> NoBlock]

\* Read as a table, the boot block may point anywhere.
ASSUME BootAssumption == Boots \subseteq [InTable -> Blocks \cup {NoBlock}]

\* The blocks of a file that has data at the given indices, and the pointers.
BlocksOf(ks)     == UNION {PrefixesOf(PathTo[k]) : k \in ks}
PointerTo(ks, p) == IF p \in BlocksOf(ks) THEN p ELSE NoBlock
FormatInode(ks)  == [i \in 0 .. Triple |-> PointerTo(ks, <<i>>)]
FormatTable(ks, boot) ==
  [t \in Tables \cup {NoBlock} |->
     IF t = NoBlock THEN boot ELSE [i \in InTable |-> PointerTo(ks, Append(t, i))]]

NoLookup == [index |-> -1, block |-> NoBlock]

Init ==
  /\ i_block = FormatInode({})
  /\ \E boot \in Boots : table = FormatTable({}, boot)
  /\ used = {Other}
  /\ found = NoLookup
  /\ written = {}
  /\ truncated = FALSE

Boot == table[NoBlock]

\* Another implementation writes block k of the file, with the tables above it.
WriteElsewhere(k) ==
  LET ks == written \cup {k}
  IN
  /\ ~truncated /\ k \notin written
  /\ Cardinality({j \in 0 .. k : j \notin ks}) <= MaxHoles
  /\ \A j \in written : j < k
  /\ written' = ks
  /\ i_block' = FormatInode(ks)
  /\ table' = FormatTable(ks, Boot)
  /\ used' = {Other} \cup BlocksOf(ks)
  /\ found' = NoLookup
  /\ UNCHANGED truncated

(***************************************************************************)
(* The code.                                                               *)
(***************************************************************************)

\* ext2_load_buffer and ext2_read_buffer of entry i of a table.  The blocks of
\* other files that the boot block may lead to hold no pointers.
Entry(t, i) == IF t \in DOMAIN table THEN table[t][i] ELSE NoBlock

\* indirect_entries and its powers.
E1 == Entries
E2 == Entries * Entries
E3 == Entries * Entries * Entries

\* Mutant: the index in the top table is used again.
TopIndex(n) == n \div E2

\* (block_index / indirect_entries) % indirect_entries
MiddleIndex(n) == (n \div E1) % E1

\* Past the largest file -1 is returned, which is no block either.
BlockFrom(k) ==
  IF k < Direct THEN i_block[k]
  ELSE LET n1 == k - Direct
           n2 == n1 - E1
           n3 == n2 - E2
       IN  IF n1 < E1 THEN Entry(i_block[Single], n1)
           ELSE IF n2 < E2 THEN Entry(Entry(i_block[Double], n2 \div E1), n2 % E1)
           ELSE IF n3 < E3
           THEN Entry(Entry(Entry(i_block[Triple], n3 \div E2), MiddleIndex(n3)), n3 % E1)
           ELSE <<-1>>

ext2_block_from_offset(k) ==
  /\ found' = [index |-> k, block |-> BlockFrom(k)]
  /\ UNCHANGED <<i_block, table, used, written, truncated>>

\* Mutant: the loop does not stop at an entry of 0.
EveryEntry(t) == {Entry(t, i) : i \in InTable}

\* The entries the loops of ext2_truncate_file go over: up to the first 0.
Kids(t) ==
  {Entry(t, i) : i \in {j \in InTable : \A l \in 0 .. j : Entry(t, l) # NoBlock}}

\* Mutant: the tables in the middle are forgotten.
OnlyLeaves(t) == {t} \cup UNION {Kids(c) : c \in Kids(t)}

FreedBelowSingle(t) == {t} \cup Kids(t)
FreedBelowDouble(t) == {t} \cup UNION {FreedBelowSingle(c) : c \in Kids(t)}

\* The outer loop reads i_block[13], which is 0 by then, and the inner one
\* reads the table of the level above again.
FreedBelowTriple(t) ==
  {t} \cup UNION {FreedBelowSingle(c) : c \in Kids(NoBlock)}

\* Mutant: i_block[13] is kept.
KeepsDouble(i) == IF i = Double THEN i_block[i] ELSE NoBlock

\* What is left of i_block.
Cleared(i) == NoBlock

\* The blocks ext2_truncate_file hands to ext2_change_allocated.
Freed ==
  LET root(i, freed) == IF i_block[i] # NoBlock THEN freed ELSE {}
  IN  ({i_block[i] : i \in 0 .. Direct - 1} \ {NoBlock})
        \cup root(Single, FreedBelowSingle(i_block[Single]))
        \cup root(Double, FreedBelowDouble(i_block[Double]))
        \cup root(Triple, FreedBelowTriple(i_block[Triple]))

\* ext2_change_allocated refuses what is not allocated; nobody looks.
ext2_truncate_file ==
  /\ ~truncated
  /\ used' = used \ Freed
  /\ i_block' = [i \in 0 .. Triple |-> Cleared(i)]
  /\ truncated' = TRUE
  /\ found' = NoLookup
  /\ UNCHANGED <<table, written>>

Next ==
  \/ \E k \in Indices : WriteElsewhere(k)
  \/ \E k \in 0 .. Largest : ext2_block_from_offset(k)
  \/ ext2_truncate_file

Spec == Init /\ [][Next]_vars

(***************************************************************************)
(* Properties.                                                             *)
(***************************************************************************)

\* Every variable has its type, and a truncated file has no pointer left.
TypeOK ==
  /\ i_block \in [0 .. Triple -> Blocks \cup {NoBlock}]
  /\ DOMAIN table = Tables \cup {NoBlock}
  /\ used \subseteq Blocks
  /\ found.index \in -1 .. Largest /\ found.block \in Blocks \cup {NoBlock, <<-1>>}
  /\ written \subseteq Indices
  /\ truncated \in BOOLEAN
  /\ truncated => \A i \in 0 .. Triple : i_block[i] = NoBlock

\* Some table on the way to block k is missing.
TableMissing(k) == ~(PrefixesOf(PathTo[k]) \ {PathTo[k]} \subseteq BlocksOf(written))

\* The nested divisions of ext2_block_from_offset lead to the block the format
\* says, through one, two or three tables, and to none in a hole.  A missing
\* table is looked for in the boot block, so the latter needs a boot block of
\* zeros or a table that is there.
Translates ==
  /\ (found.index \in written /\ ~truncated) => found.block = PathTo[found.index]
  /\ (/\ found.index \in Indices /\ (truncated \/ found.index \notin written)
      /\ Boot = ZeroTable \/ (~truncated /\ ~TableMissing(found.index)))
       => found.block = NoBlock

\* ext2_truncate_file gives back every block of a file without holes, tables
\* included, as long as the file needs no triple indirect block.
FreesAll ==
  (truncated /\ written = 0 .. Cardinality(written) - 1 /\ Cardinality(written) <= Direct + E1 + E2)
     => used = {Other}

\* ext2_truncate_file never gives back a block of another file, whatever holes
\* the file has; with a triple indirect block that needs a boot block of zeros.
FreesOwn ==
  (truncated /\ (Boot = ZeroTable \/ \A k \in written : PathTo[k][1] # Triple)) => Other \in used

=============================================================================
