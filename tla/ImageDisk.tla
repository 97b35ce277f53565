------------------------------ MODULE ImageDisk ------------------------------
(***************************************************************************)
(* The PC block driver, which keeps a copy of an image file in memory, and *)
(* the partition table that says which of its sectors a file system may    *)
(* use.  read_partition_table and the range check of block_read and        *)
(* block_write each compute in blockno_t, an unsigned number that wraps;   *)
(* a caller addresses sector n of a listed partition as start + n.         *)
(*                                                                         *)
(* Callers keep to block.h: nothing is called before block_init has        *)
(* returned 0, nor after block_halt.                                       *)
(***************************************************************************)
EXTENDS Integers, Sequences, FiniteSets

CONSTANTS
  Width,        \* 2^32: the numbers of type blockno_t are those below it
  BLOCK_SIZE,
  MaxImage,     \* 2048L * 1024L * 1024L, in bytes
  ImageSizes,   \* the sizes an image file may have, in bytes
  Tables,       \* the partition tables in the first sector of the image
  Values,       \* what is written to a sector
  NoValue       \* what the sectors of the image file hold

\* The numbers of type blockno_t, and the entries of a table.
Blockno == 0 .. Width - 1
Entries == [lba_start : Blockno, length : Blockno]

ASSUME SizeAssumption ==
  /\ Width \in Nat \ {0} /\ BLOCK_SIZE \in Nat \ {0} /\ Width % BLOCK_SIZE = 0
  /\ MaxImage \in Nat /\ MaxImage <= Width /\ ImageSizes \subseteq Nat
  /\ NoValue \notin Values
  /\ \A t \in Tables : t \in Seq(Entries) /\ t # <<>>

VARIABLES
  image,          \* the size of the image file, and the table in it
  block_fs_size,
  blocks,         \* the memory: the value of every whole sector, <<>> if there is none
  ready,          \* block_init has returned 0
  retval,         \* the list read_partition_table makes and returns
  entry,          \* the entry it looks at next, 0 outside the call
  last,           \* the last request: its sector, whether it was served, and the value read
  wrote           \* history: the value last written to each sector of the device

vars == <<image, block_fs_size, blocks, ready, retval, entry, last, wrote>>

NoRequest == [asked |-> -1, ok |-> FALSE, value |-> NoValue]

\* block_get_volume_size
block_get_volume_size == block_fs_size \div BLOCK_SIZE

Init ==
  /\ image \in [size : ImageSizes, table : Tables]
  /\ block_fs_size = 0
  /\ blocks = <<>>
  /\ ready = FALSE
  /\ retval = <<>>
  /\ entry = 0
  /\ last = NoRequest
  /\ wrote = <<>>

\* The sectors of an image of that size, the part of one at its end included.
Blank(size) == [s \in 0 .. size \div BLOCK_SIZE |-> NoValue]

\* block_init: the size is kept even if the image is refused, and fread or
\* malloc may fail.
block_init ==
  /\ ~ready
  /\ block_fs_size' = image.size
  /\ \/ /\ image.size < MaxImage
        /\ blocks' = Blank(image.size)
        /\ wrote' = Blank(image.size)
        /\ ready' = TRUE
     \/ UNCHANGED <<blocks, wrote, ready>>
  /\ last' = NoRequest
  /\ UNCHANGED <<image, retval, entry>>

\* block_halt frees the memory and what was written to it.
block_halt ==
  /\ ready /\ entry = 0
  /\ ready' = FALSE
  /\ blocks' = <<>>
  /\ wrote' = <<>>
  /\ retval' = <<>>
  /\ last' = NoRequest
  /\ UNCHANGED <<image, block_fs_size, entry>>

(***************************************************************************)
(* The partition table.                                                    *)
(***************************************************************************)

\* Mutant: the end of the partition is not looked at.
StartOnly(e) ==
  e.lba_start < block_get_volume_size /\ e.lba_start > 0 /\ e.length > 0

\* The test of an entry, in the width of blockno_t.
Valid(e) ==
  /\ e.lba_start < block_get_volume_size
  /\ (e.lba_start + e.length) % Width <= block_get_volume_size
  /\ e.lba_start > 0 /\ e.length > 0

\* Mutant: j is not reset, and the list of the call before goes on.
GoesOn == retval

\* j = 0: whatever the call before left in retval is overwritten.
Emptied == <<>>

\* The call.  The caller has read the first sector, which still holds the table.
read_partition_table ==
  /\ ready /\ entry = 0 /\ blocks[0] = NoValue
  /\ entry' = 1
  /\ retval' = Emptied
  /\ last' = NoRequest
  /\ UNCHANGED <<image, block_fs_size, blocks, ready, wrote>>

\* One turn of its loop: a valid entry is added to the list.
LookAtEntry ==
  /\ entry # 0
  /\ retval' = IF Valid(image.table[entry]) THEN Append(retval, image.table[entry]) ELSE retval
  /\ entry' = IF entry = Len(image.table) THEN 0 ELSE entry + 1
  /\ UNCHANGED <<image, block_fs_size, blocks, ready, last, wrote>>

(***************************************************************************)
(* The requests.                                                           *)
(***************************************************************************)

\* Mutant: the beginning of the sector is compared instead of its end.
StartInImage(block) == (block * BLOCK_SIZE) % Width <= block_fs_size

\* !((block+1) * BLOCK_SIZE - 1 > block_fs_size), the left side in 32 bits
InImage(block) == ((block + 1) * BLOCK_SIZE - 1) % Width <= block_fs_size

\* Mutant: the offset is kept in a type of fewer bits.
NarrowOffset(block) == (block * BLOCK_SIZE) % (Width \div 8)

\* block * BLOCK_SIZE, the offset into the memory
OffsetOf(block) == (block * BLOCK_SIZE) % Width

\* The sector whose memory a request touches.
SectorAt(block) == OffsetOf(block) \div BLOCK_SIZE

block_read(block) ==
  /\ last' = IF InImage(block)
             THEN [asked |-> block, ok |-> TRUE, value |-> blocks[SectorAt(block)]]
             ELSE [asked |-> block, ok |-> FALSE, value |-> NoValue]
  /\ UNCHANGED <<image, block_fs_size, blocks, ready, retval, entry, wrote>>

\* block_ro is not looked at.
block_write(block, v) ==
  /\ last' = [asked |-> block, ok |-> InImage(block), value |-> NoValue]
  /\ blocks' = IF InImage(block) THEN [blocks EXCEPT ![SectorAt(block)] = v] ELSE blocks
  /\ wrote' = IF InImage(block) /\ block \in DOMAIN wrote
              THEN [wrote EXCEPT ![block] = v] ELSE wrote
  /\ UNCHANGED <<image, block_fs_size, ready, retval, entry>>

\* A file system that was given a listed partition asks for one of its sectors.
Request ==
  /\ ready /\ entry = 0
  /\ \E i \in DOMAIN retval : \E n \in 0 .. retval[i].length - 1 :
       LET block == (retval[i].lba_start + n) % Width
       IN  block_read(block) \/ \E v \in Values : block_write(block, v)

Next == block_init \/ block_halt \/ read_partition_table \/ LookAtEntry \/ Request

Spec == Init /\ [][Next]_vars

(***************************************************************************)
(* Properties.                                                             *)
(***************************************************************************)

\* No entry of the table ends at or beyond 2^32.
NoneWraps == \A i \in DOMAIN image.table :
               image.table[i].lba_start + image.table[i].length < Width

\* The image is a whole number of sectors, or at least not one byte short of it.
NotOneShort == block_fs_size % BLOCK_SIZE # BLOCK_SIZE - 1

\* Every variable has its type, the memory is there exactly while the driver is
\* ready, and the list has no more entries than the table however often it is
\* read.
TypeOK ==
  /\ block_fs_size \in ImageSizes \cup {0}
  /\ ready => blocks \in [0 .. image.size \div BLOCK_SIZE -> Values \cup {NoValue}]
  /\ ready <=> blocks # <<>>
  /\ entry \in 0 .. Len(image.table) /\ Len(retval) <= Len(image.table)
  /\ last.ok \in BOOLEAN

\* The test of read_partition_table and the range check of the driver agree:
\* every sector of every listed partition is served, unless an entry wraps.
Served == (NoneWraps /\ last.asked # -1) => last.ok

\* A sector reads as what was last written to it: no request for a sector of a
\* listed partition, at whatever distance from the 32-bit limit, reaches the
\* memory of another sector, unless an entry wraps.
ReadsBack == ready /\ NoneWraps => \A s \in DOMAIN blocks : blocks[s] = wrote[s]

\* A request that is served touches no memory behind the image, whichever
\* entries wrap, unless the image is one byte short of a whole sector.
WithinImage ==
  (last.ok /\ NotOneShort) => OffsetOf(last.asked) + BLOCK_SIZE <= block_fs_size

=============================================================================
