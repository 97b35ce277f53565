---------------------------- MODULE FileHandles ----------------------------
(***************************************************************************)
(* The file calls of embext.c on top of the one-sector write-back buffer   *)
(* each struct file_ent carries: ext2_open, ext2_read, ext2_write,         *)
(* ext2_lseek and ext2_close with ext2_select_buffer, ext2_load_buffer,    *)
(* ext2_store_buffer and ext2_flush_inode, over a block device whose       *)
(* writes may fail and whose power may be cut.  Callers do not seek past   *)
(* the end.                                                                *)
(*                                                                         *)
(* A call whose caller asks for no more than is left of the sector under   *)
(* the cursor makes one turn of its loop, which is one action here.  A     *)
(* longer request makes the first turn run past the end of the buffer,     *)
(* which `overrun' records: from there on the program's behaviour is       *)
(* undefined and the model stops.  It stops as well when the search for a  *)
(* free block went on in a buffer that could not be stored, which `astray' *)
(* records: the block it comes up with may be any of the partition, one of *)
(* another file, of the inode table or of the superblock.                  *)
(***************************************************************************)
EXTENDS Integers, Sequences, FiniteSets

CONSTANTS
  Files, Handles,   \* inode numbers, and names of struct file_ents
  Bytes, Junk,      \* the bytes callers write, and a byte no caller wrote
  SectorSize,       \* sizeof(fe->buffer.buffer) = block_get_block_size()
  SectorsPerBlock,  \* ext2_block_size / SectorSize
  BlocksPerFile,    \* the direct entries of i_block
  FirstDisk,        \* the sectors of the initial volume
  FirstInodes,      \* the inodes of the initial volume
  FirstFree,        \* the free blocks of the initial volume
  MaxSize,          \* bound: size of a file
  MaxCount,         \* bound: bytes asked for by one call
  WithinSector,     \* callers never ask for more than is left of the sector
  Sharing,          \* a file may be open through two handles at once
  Growth,           \* files grow into blocks after their first
  Faulty,           \* the device's block_write may fail
  PowerFails        \* power may be cut

VARIABLES
  disk,       \* the bytes of every sector
  inode,      \* the inode table
  free,       \* the blocks ext2_allocate_block can return
  unmarked,   \* history: blocks it returned though the bit could not be stored
  astray,     \* history: it searched the caller's bytes for a clear bit
  fe,         \* the struct file_ent of every handle
  closing,    \* the handle whose ext2_close has stored its buffer, or 0
  last,       \* what ext2_read copied to its caller, if it was the last call
  overrun,    \* history: a copy ran past the end of fe->buffer.buffer
  misplaced,  \* history: a copy used a sector that is not under the cursor
  shared      \* history: a file was opened while it was open

vars == <<disk, inode, free, unmarked, astray, fe, closing, last, overrun, misplaced, shared>>

BlockSize == SectorSize * SectorsPerBlock
Offsets   == 0 .. SectorSize - 1
Entries   == 0 .. BlocksPerFile - 1
Lbas      == DOMAIN FirstDisk

BlockNumbers == {lba \div SectorsPerBlock : lba \in Lbas} \cup {0}
InodeType    == [i_size : 0 .. MaxSize, i_block : [Entries -> BlockNumbers]]
FirstBytes   == UNION {{FirstDisk[lba][k] : k \in Offsets} : lba \in Lbas}
Sector       == [Offsets -> Bytes \cup FirstBytes \cup {Junk}]

\* ext2_block_from_offset for the direct blocks.
BlockAt(r, pos) == r.inode.i_block[pos \div BlockSize]

\* The sector of a block that holds a position.
SectorIn(b, pos) == b * SectorsPerBlock + (pos % BlockSize) \div SectorSize

\* Blocks of 1024 bytes or more, sectors of 512; file 0 is no file and handle 0
\* no handle.
ASSUME SizeAssumption ==
  /\ SectorSize \in Nat \ {0} /\ SectorsPerBlock \in Nat \ {0, 1} /\ BlocksPerFile \in Nat \ {0}
  /\ MaxSize \in Nat /\ MaxSize <= BlocksPerFile * BlockSize
  /\ MaxCount \in Nat
  /\ 0 \notin Files /\ 0 \notin Handles /\ Junk \notin Bytes

\* What mkfs and earlier callers leave: whole blocks other than block 0, every
\* block in one place of one file or free, and every byte of a file written.
ASSUME VolumeAssumption ==
  /\ Lbas \subseteq Nat
  /\ \A lba \in Lbas : /\ lba \div SectorsPerBlock # 0
                       /\ \A j \in 0 .. SectorsPerBlock - 1 :
                            (lba \div SectorsPerBlock) * SectorsPerBlock + j \in Lbas
  /\ FirstDisk \in [Lbas -> Sector]
  /\ FirstInodes \in [Files -> InodeType]
  /\ FirstFree \subseteq BlockNumbers \ {0}
  /\ \A f, g \in Files : \A j, k \in Entries :
       /\ FirstInodes[f].i_block[j] \notin FirstFree
       /\ FirstInodes[f].i_block[j] = FirstInodes[g].i_block[k] /\ FirstInodes[f].i_block[j] # 0
            => f = g /\ j = k
  /\ \A f \in Files : \A pos \in 0 .. FirstInodes[f].i_size - 1 :
       LET b == FirstInodes[f].i_block[pos \div BlockSize]
       IN  b # 0 /\ FirstDisk[SectorIn(b, pos)][pos % SectorSize] # Junk

\* A struct file_ent that is not in use; file 0 is no file.
Closed ==
  [file |-> 0, cursor |-> 0, write |-> FALSE, append |-> FALSE, fs_dirty |-> FALSE,
   lba |-> 0, buf |-> [k \in Offsets |-> Junk], dirty |-> FALSE,
   inode |-> [i_size |-> 0, i_block |-> [k \in Entries |-> 0]]]

NothingRead == [file |-> 0, bytes |-> <<>>]

Init ==
  /\ disk = FirstDisk
  /\ inode = FirstInodes
  /\ free = FirstFree
  /\ unmarked = {}
  /\ astray = FALSE
  /\ fe = [h \in Handles |-> Closed]
  /\ closing = 0
  /\ last = NothingRead
  /\ overrun = FALSE
  /\ misplaced = FALSE
  /\ shared = FALSE

(***************************************************************************)
(* The buffer.  An outcome is what a function leaves: the sectors, the     *)
(* file_ent, the bitmap and its history, and whether it returned 0.        *)
(***************************************************************************)

\* Mutant: the buffer is marked clean and not written.
DropsDirty(d, r) ==
  {[ok |-> TRUE, disk |-> d, fe |-> [r EXCEPT !.dirty = FALSE]]}

ext2_store_buffer(d, r) ==
  {[ok |-> TRUE, disk |-> [d EXCEPT ![r.lba] = r.buf], fe |-> [r EXCEPT !.dirty = FALSE]]}
    \cup {o \in {[ok |-> FALSE, disk |-> d, fe |-> r]} : Faulty}

\* Mutant: a dirty buffer is reloaded without being stored.
NoWriteBack(d, r, lba) ==
  {[ok |-> TRUE, disk |-> d,
    fe |-> [r EXCEPT !.lba = lba, !.buf = d[lba], !.dirty = FALSE]]}

\* A dirty buffer is stored first; if that fails nothing is loaded.
ext2_load_buffer(d, r, lba) ==
  {IF o.ok THEN [o EXCEPT !.fe = [o.fe EXCEPT !.lba = lba, !.buf = o.disk[lba]]] ELSE o :
     o \in IF r.dirty THEN ext2_store_buffer(d, r) ELSE {[ok |-> TRUE, disk |-> d, fe |-> r]}}

\* Mutant: the new block stays free.
StaysFree(b) == {[free |-> free, unmarked |-> unmarked]}

\* ext2_change_allocated marks b.  It does not look whether the sector with the
\* bit was written, so that the block may be handed out and free all the same.
MarkAllocated(b) ==
  {[free |-> free \ {b}, unmarked |-> unmarked]}
    \cup {m \in {[free |-> free, unmarked |-> unmarked \cup {b}]} : Faulty}

\* The device d and the file_ent r are left, and nothing is allocated.
Outcome(ok, d, r) ==
  [ok |-> ok, disk |-> d, fe |-> r, free |-> free, unmarked |-> unmarked, astray |-> FALSE]

\* ext2_allocate_block fails before or after reading the bitmap, which it does
\* through the same buffer, or returns a block, which is always entered as the
\* first of the file.  It does not look whether the bitmap was loaded: if the
\* buffer could not be stored it searches what the caller wrote.
AllocateAndLoad(r) ==
  {Outcome(FALSE, disk, r)} \cup
  UNION {
    LET bitmap == [o.fe EXCEPT !.lba = 0, !.buf = [k \in Offsets |-> Junk]]
        found(b, m) ==
          {[ok |-> TRUE, disk |-> l.disk, fe |-> l.fe, free |-> m.free,
            unmarked |-> m.unmarked, astray |-> FALSE] :
             l \in ext2_load_buffer(o.disk, [bitmap EXCEPT !.inode.i_block[0] = b],
                                    SectorIn(b, r.cursor))}
    IN  IF o.ok
        THEN {Outcome(FALSE, o.disk, bitmap)}
               \cup UNION {UNION {found(b, m) : m \in MarkAllocated(b)} : b \in free}
        ELSE {[Outcome(FALSE, disk, r) EXCEPT !.astray = TRUE]} :
    o \in IF r.dirty THEN ext2_store_buffer(disk, r) ELSE {[ok |-> TRUE, disk |-> disk, fe |-> r]}}

\* Whether the load worked is not looked at.
ext2_select_buffer(r) ==
  IF BlockAt(r, r.cursor) # 0
  THEN {Outcome(TRUE, o.disk, o.fe) :
          o \in ext2_load_buffer(disk, r, SectorIn(BlockAt(r, r.cursor), r.cursor))}
  ELSE IF r.write THEN AllocateAndLoad(r)
  ELSE {Outcome(FALSE, disk, r)}

ext2_buffer_space(pos) == BlockSize - 1 - (pos % SectorSize)

MinOf(a, b) == IF a < b THEN a ELSE b

(***************************************************************************)
(* The calls.                                                              *)
(***************************************************************************)

\* The model follows the program, which is in none of its calls.
Idle == closing = 0 /\ ~overrun /\ ~astray

Callable(h) == Idle /\ fe[h].file # 0

\* The request stays in the sector, if that is what callers do.
Asked(pos, n) == WithinSector => (pos % SectorSize) + n <= SectorSize

\* Mutant: the inode is the one the volume had in the beginning.
OldInode(f) == FirstInodes[f]

\* ext2_open_inode: the handle's own copy of the inode, read from the table.
OpenInode(f) == inode[f]

\* ext2_open of an existing file without O_TRUNC.  Nothing looks whether the
\* file is open already.
ext2_open(h, f, write, append) ==
  /\ Idle
  /\ fe[h].file = 0
  /\ Sharing \/ \A k \in Handles : fe[k].file # f
  /\ shared' = (shared \/ \E k \in Handles : fe[k].file = f)
  /\ fe' = [fe EXCEPT ![h] = [Closed EXCEPT !.file = f, !.inode = OpenInode(f),
                                            !.write = write, !.append = append]]
  /\ last' = NothingRead
  /\ UNCHANGED <<disk, inode, free, unmarked, astray, closing, overrun, misplaced>>

\* SEEK_SET, SEEK_CUR and SEEK_END to a position the calls accept.
ext2_lseek(h, pos) ==
  /\ Callable(h)
  /\ pos <= fe[h].inode.i_size /\ pos # fe[h].cursor
  /\ fe' = [fe EXCEPT ![h].cursor = pos]
  /\ last' = NothingRead
  /\ UNCHANGED <<disk, inode, free, unmarked, astray, closing, overrun, misplaced, shared>>

\* What a copy of n bytes at the cursor of a loaded file_ent records.
Copies(r, n) ==
  /\ overrun' = ((r.cursor % SectorSize) + n > SectorSize)
  /\ misplaced' = (misplaced \/ BlockAt(r, r.cursor) = 0
                             \/ r.lba # SectorIn(BlockAt(r, r.cursor), r.cursor))

\* ext2_read has copied n bytes, and updates the access time.
AfterRead(r, n) == [r EXCEPT !.cursor = @ + n, !.fs_dirty = TRUE]

ext2_read(h, count) ==
  /\ Callable(h)
  /\ fe[h].cursor < fe[h].inode.i_size
  /\ Asked(fe[h].cursor, count)
  /\ \E o \in ext2_select_buffer(fe[h]) :
       LET r == o.fe
           n == MinOf(MinOf(count, ext2_buffer_space(r.cursor)), r.inode.i_size - r.cursor)
           in == MinOf(n, SectorSize - (r.cursor % SectorSize))
       IN
       /\ disk' = o.disk /\ free' = o.free /\ unmarked' = o.unmarked /\ astray' = o.astray
       /\ IF o.ok
          THEN /\ fe' = [fe EXCEPT ![h] = AfterRead(r, n)]
               /\ last' = [file |-> r.file,
                           bytes |-> [i \in 1 .. in |-> r.buf[(r.cursor % SectorSize) + i - 1]]]
               /\ Copies(r, n)
          ELSE /\ fe' = [fe EXCEPT ![h] = r]
               /\ last' = NothingRead
               /\ UNCHANGED <<overrun, misplaced>>
  /\ UNCHANGED <<inode, closing, shared>>

\* ext2_write_buffer: the bytes s at the cursor, as far as the buffer reaches.
Poked(r, s, n) ==
  LET c == r.cursor % SectorSize
  IN  [k \in Offsets |-> IF k \in c .. c + n - 1 THEN s[k - c + 1] ELSE r.buf[k]]

\* Mutant: the size is that of the file before the write.
KeepsSize(r, n) == [r EXCEPT !.cursor = @ + n, !.dirty = TRUE, !.fs_dirty = TRUE]

\* ext2_write has copied n bytes: the file grows, its times are updated.
AfterWrite(r, n) ==
  [r EXCEPT !.cursor = @ + n, !.dirty = TRUE, !.fs_dirty = TRUE,
            !.inode.i_size = IF r.cursor + n > @ THEN r.cursor + n ELSE @]

ext2_write(h, s) ==
  LET at == IF fe[h].append THEN [fe[h] EXCEPT !.cursor = fe[h].inode.i_size] ELSE fe[h]
  IN
  /\ Callable(h) /\ fe[h].write
  /\ Asked(at.cursor, Len(s)) /\ at.cursor + Len(s) <= MaxSize
  /\ Growth \/ at.cursor < BlockSize \/ BlockAt(at, at.cursor) # 0
  /\ \E o \in ext2_select_buffer(at) :
       LET r == o.fe
           n == MinOf(Len(s), ext2_buffer_space(r.cursor))
       IN
       /\ disk' = o.disk /\ free' = o.free /\ unmarked' = o.unmarked /\ astray' = o.astray
       /\ IF o.ok
          THEN /\ fe' = [fe EXCEPT ![h] = AfterWrite([r EXCEPT !.buf = Poked(r, s, n)], n)]
               /\ Copies(r, n)
          ELSE fe' = [fe EXCEPT ![h] = r] /\ UNCHANGED <<overrun, misplaced>>
  /\ last' = NothingRead
  /\ UNCHANGED <<inode, closing, shared>>

\* ext2_close, first half: a dirty buffer is stored; on failure the call
\* returns -1 and the file stays open.
CloseStore(h) ==
  /\ Callable(h) /\ fe[h].dirty
  /\ \E o \in ext2_store_buffer(disk, fe[h]) :
       /\ disk' = o.disk
       /\ fe' = [fe EXCEPT ![h] = o.fe]
       /\ closing' = IF o.ok THEN h ELSE 0
  /\ last' = NothingRead
  /\ UNCHANGED <<inode, free, unmarked, astray, overrun, misplaced, shared>>

\* ext2_close, second half: ext2_flush_inode writes a dirty inode and looks
\* at no result, and the file_ent is freed.
CloseFlush(h) ==
  /\ closing = h \/ (Callable(h) /\ ~fe[h].dirty)
  /\ \/ inode' = IF fe[h].fs_dirty THEN [inode EXCEPT ![fe[h].file] = fe[h].inode] ELSE inode
     \/ Faulty /\ inode' = inode
  /\ fe' = [fe EXCEPT ![h] = Closed]
  /\ closing' = 0
  /\ last' = NothingRead
  /\ UNCHANGED <<disk, free, unmarked, astray, overrun, misplaced, shared>>

\* Power fails: the handles and their buffers are gone.
Crash ==
  /\ PowerFails /\ ~overrun /\ ~astray
  /\ fe' = [h \in Handles |-> Closed]
  /\ closing' = 0
  /\ last' = NothingRead
  /\ UNCHANGED <<disk, inode, free, unmarked, astray, overrun, misplaced, shared>>

Chunks == UNION {[1 .. k -> Bytes] : k \in 1 .. MaxCount}

Next ==
  \/ \E h \in Handles :
       \/ \E f \in Files, w, a \in BOOLEAN : (a => w) /\ ext2_open(h, f, w, a)
       \/ \E pos \in 0 .. MaxSize : ext2_lseek(h, pos)
       \/ \E n \in 1 .. MaxCount : ext2_read(h, n)
       \/ \E s \in Chunks : ext2_write(h, s)
       \/ CloseStore(h)
       \/ CloseFlush(h)
  \/ Crash

Spec == Init /\ [][Next]_vars

(***************************************************************************)
(* Properties.                                                             *)
(***************************************************************************)

\* Every variable has its type; a dirty buffer has a sector of its own to go
\* to, and the cursor of a file is within it.
TypeOK ==
  /\ disk \in [Lbas -> Sector]
  /\ inode \in [Files -> InodeType]
  /\ free \subseteq BlockNumbers \ {0} /\ unmarked \subseteq BlockNumbers \ {0}
  /\ \A h \in Handles :
       /\ fe[h].file \in Files \cup {0} /\ fe[h].inode \in InodeType
       /\ fe[h].cursor \in 0 .. fe[h].inode.i_size
       /\ fe[h].lba \in Lbas \cup {0} /\ fe[h].buf \in Sector
       /\ fe[h].dirty => fe[h].lba # 0
       /\ \A k \in Handles \ {h} : fe[h].file # 0 /\ ~shared => fe[k].file # fe[h].file
  /\ closing # 0 => fe[closing].file # 0 /\ ~fe[closing].dirty
  /\ astray \in BOOLEAN /\ overrun \in BOOLEAN /\ misplaced \in BOOLEAN /\ shared \in BOOLEAN

\* The file_ent a file is used through, if it is open.
HandlesOf(f) == {h \in Handles : fe[h].file = f}
EntryOf(f)   == IF HandlesOf(f) = {} THEN Closed ELSE fe[CHOOSE h \in HandlesOf(f) : TRUE]

\* The inode a file is read through: its handle's copy while it is open.
View(f) == IF HandlesOf(f) = {} THEN inode[f] ELSE EntryOf(f).inode

\* The byte at a position: in the dirty buffer that covers it, or on the disk.
CellAt(f, pos) ==
  LET lba == SectorIn(View(f).i_block[pos \div BlockSize], pos)
      r == EntryOf(f)
  IN  IF r.dirty /\ r.lba = lba THEN r.buf[pos % SectorSize] ELSE disk[lba][pos % SectorSize]

ContentOf(f) == [i \in 1 .. View(f).i_size |-> CellAt(f, i - 1)]

Store == INSTANCE ByteStore WITH
           content <- [f \in Files |-> ContentOf(f)],
           handle <- [f \in Files |-> [cursor |-> EntryOf(f).cursor, append |-> EntryOf(f).append]],
           MaxChunk <- MaxCount

\* With a device that does not fail, and for callers that stay within a sector,
\* the buffers are invisible: the disk overlaid by the dirty buffers behaves as
\* a store of byte sequences, whichever way seeks, reads, writes, closes and
\* reopens of several files make the one buffer of each handle move about.
Implements == Store!Spec

\* ext2_close stores the last sector before the inode that makes the file
\* longer: wherever power or a write fails, every byte below the size on the
\* volume is a byte some caller wrote, unless a copy went to the wrong sector, a
\* file was open twice or a block was handed out whose bit could not be stored.
SizeAfterData ==
  ~misplaced /\ ~shared /\ unmarked = {} =>
    \A f \in Files : \A pos \in 0 .. inode[f].i_size - 1 :
      /\ inode[f].i_block[pos \div BlockSize] # 0
      /\ disk[SectorIn(inode[f].i_block[pos \div BlockSize], pos)][pos % SectorSize] # Junk

\* ext2_select_buffer ignores a buffer that could not be stored and goes on with
\* the wrong sector, growing a file loses its first block, and two handles on
\* one file undo each other's changes; still, a handle's modified buffer is never
\* on its way into a block of another file, as that file's inode is on the volume
\* or in one of its handles.  The only blocks that two files can have between
\* them are those handed out although their bit could not be stored.
Isolated ==
  \A h \in Handles, f \in Files :
    fe[h].dirty /\ fe[h].file # f /\ fe[h].lba \div SectorsPerBlock \notin unmarked =>
    \A k \in Entries :
      /\ fe[h].lba \div SectorsPerBlock # inode[f].i_block[k]
      /\ \A g \in HandlesOf(f) : fe[h].lba \div SectorsPerBlock # fe[g].inode.i_block[k]

\* A handle flushes the copy of the inode that ext2_open took: as long as no file
\* is open twice that copy is never older than the volume, and no call, failed
\* write or power failure makes a file on the volume shorter.
NeverShrinks == [][~shared => \A f \in Files : inode'[f].i_size >= inode[f].i_size]_vars

\* "make sure the right buffer is loaded": bytes are copied to and from the
\* sector that the file's inode maps at the cursor.
RightBuffer == ~misplaced

\* "check the right part of the right block is in the buffer": a copy stays
\* within the sector in the buffer.
InBuffer == ~overrun
=============================================================================
