# embext in TLA+

embext is an ext2 driver in C for small bare-metal systems. This directory holds
TLA+ models of its core, TLC runs on small instances and TLAPS proofs for all
instances. Line numbers are those of `src/src/embext.c` unless a file is named.

## The system

| Part | State it keeps | Operations | What makes it correct |
|---|---|---|---|
| Superblock and mount (776-879, 312-322) | `struct ext2context`: the superblock in memory, the list of copies; the copies on the disk | `ext2_mount`, `ext2_umount`, `ext2_flush_superblock` | a volume in use is marked as such; the copies agree; counts follow the bitmaps |
| Allocation (212-280, 338-534) | block and inode bitmaps, group descriptors, free counts | `ext2_allocate_inode`, `ext2_allocate_block`, `ext2_change_allocated`, `ext2_write_bg_descriptor` | nothing is given out twice; what is in use is marked |
| File creation and truncation (881-1033, 536-620) | directory entries, inode table | `ext2_open` with `O_CREAT` or `O_TRUNC`, `ext2_flush_inode` | every entry names an allocated, initialised inode; freed blocks are not referred to |
| File handles (49-101, 753-774, 1035-1222) | `struct file_ent`: cursor, flags, a copy of the inode, one sector with its LBA and dirty flag | `ext2_open`, `ext2_read`, `ext2_write`, `ext2_lseek`, `ext2_close` | the buffer is invisible to callers |
| Indirect block map (714-751) | blocks of block numbers | `ext2_block_from_offset` | a position maps to the block ext2 says |
| Directories (`embext_directory.c`, 672-712, 1303-1332) | a chain of records per block | `ext2_append_to_directory`, `ext2_readdir`, `ext2_lookup_path` | the chain covers the block; what is appended is found |
| File status (1147-1172, 1291-1301) | none | `ext2_fstat`, `ext2_isatty` | copies of fields |
| Partition table (`partition.c`) | a static list of four | `read_partition_table` | every partition lies on the disk |
| PC block driver (`block_drivers/block_pc.c`) | an image in memory | `block_init`, `block_read`, `block_write`, `block_halt` | no access outside the image |
| SD block driver (`block_drivers/block_sd.c`) | `card`: type, size, read-only, error | `sd_command`, `sd_card_reset`, `block_read`, `block_write` | every call ends, failures are reported |

The filesystem reaches the medium through `block_read` and `block_write` only, one
512-byte sector at a time. Two buffers are shared by everything above: `sysbuf`
of the context (superblock, descriptors, bitmaps in `ext2_change_allocated`) and
the sector of each `file_ent` (data, bitmaps in the allocators, indirect blocks,
inodes). File creation opens a second handle, on the directory, while the new
file's handle exists. There are no threads and no callbacks; the one real
concurrency is that of the SD driver with the card.

What is hard here is therefore mostly **order and failure**: power
fails between any two sector writes and nothing is journalled; a write fails and
most callers do not look; the one buffer of a handle is reused for four purposes;
and block numbers, sector numbers, bit numbers and inode numbers are converted
into each other with the block size as a parameter. `PROJECT.json` lists these
hazards with their lines and the properties about each, or says why there is none.

## Modules

| Module | Models |
|---|---|
| `Ext2Volume` | mount, unmount, superblock flush, inode and block allocation, creation, truncation, close, power failures |
| `MCExt2Volume` | a small volume for it |
| `Ext2VolumeProofs` | theorems about `Ext2Volume` |
| `FileHandlesProofs`, `FileHandlesRefinement` | theorems about `FileHandles`; that it implements `ByteStore` |
| `DirectoryProofs`, `BlockMapProofs`, `ImageDiskProofs`, `SDCardProofs` | theorems about `Directory`, `BlockMap`, `ImageDisk` and `SDCard` |
| `ByteStore` | abstract: files as byte sequences, handles as cursors |
| `FileHandles` | the file calls over the one-sector write-back buffer; implements `ByteStore` |
| `MCFileHandles` | small volumes for it |
| `Directory`, `MCDirectory` | the record chain of a directory: lookup, listing, appending, sector by sector |
| `BlockMap`, `MCBlockMap` | the block map with its tables: lookup and truncation |
| `ImageDisk`, `MCImageDisk` | the PC block driver and the partition table |
| `SDCard`, `MCSDCard` | the SD card driver and the card |

`Ext2Volume`, `FileHandles`, `Directory` and `BlockMap` look at the same calls from
four sides and abstract from each other: `Ext2Volume` has the order of the sector
writes of metadata and takes an entry as one step; `Directory` takes that step
apart and counts inodes; `FileHandles` has the bytes and takes allocation as given;
`BlockMap` has the pointers. `ImageDisk` and `SDCard` are the two devices under
them.

### Ext2Volume

The sectors that the driver reads as bitmaps are the set `disk` of bits that are
1, each a triple of sector, byte and bit. This keeps the address arithmetic of
the code: a bitmap is scanned through `ext2_load_buffer`, which multiplies the
block number by the sectors of a block (`BlockBit`), while
`ext2_change_allocated` uses the block number itself as a sector number
(`ChangeBit`, line 350). Superblock copies, descriptors, inodes and entries are
records (`super`, `desc`, `itable`, `names`).

The volume is assumed to be such that the sectors `ChangeBit` strays into hold none
of those records; `StraySets` gives their initial contents. `ctx` is the context,
`fe` the open file of each inode, at most one.

| Action | Code |
|---|---|
| `ext2_mount`, `ext2_umount` | the calls up to their flush; `phase` and `todo` say what is left |
| `ext2_flush_superblock` | one `block_write` of the loop, in ascending order; after the last one the call that flushed goes on |
| `ext2_allocate_inode`, `AllocateInodeFails` | line 398: choice of the group by descriptor, scan, bit stored, counts in memory; ENOSPC and EIO |
| `AppendToDirectory` | the entry appears, or `ext2_open` fails and the inode stays allocated |
| `InitialiseInode` | lines 957-987 |
| `ext2_allocate_block`, `AllocateBlockFails` | a write at a position without a block: `ext2_select_buffer`, `ext2_allocate_block`, `ext2_change_allocated` |
| `OpenFile`, `OpenTruncate`, `AccessFile`, `ext2_close` | the calls on one file |
| `Crash` | memory is lost between any two of these steps |

A group number beyond the last leaves `struct block_group_descriptor bg`
uninitialised in `ext2_change_allocated` (348): `ChangeTargets` then allows any
bit of the volume. Files have one block here, since the code stores every new
block in `i_block[0]` (764). `torn`, `halfmade`, `inuse` and `crashes` are history
variables: they record what happened and guard nothing, except that `crashes`
bounds power failures. `ext2_write_bg_descriptor` is the identity on the table
because the function never calls `block_write`.

### FileHandles and ByteStore

A `file_ent` is a record of the fields that matter. The functions on the buffer
(`ext2_store_buffer`, `ext2_load_buffer`, `ext2_select_buffer`) yield the set of
their outcomes, more than one when `Faulty` allows `block_write` to fail or when
an allocation can fail. Of the allocator this module keeps what it does to the handle:
it takes a block from `free`, or fails, and leaves a bitmap in the buffer. Two of its
writes may fail without its noticing, and both are followed:

- the write of the bitmap (372): the block is handed out and stays in `free`, and
  `unmarked` records it (`MarkAllocated`);
- the write-back of the handle's dirty buffer when the bitmap is to be loaded (512): the
  allocator then searches the caller's bytes for a clear bit. The block it finds may be
  any of the group, so that the next write-back may go anywhere; `astray` records it and
  the model stops (`AllocateAndLoad`).

`ext2_close` is two steps, between which power may fail.

A call that asks for no more than the rest of the sector is one turn of its loop
and one action. A longer request runs past the end of `buffer[512]` in its first
turn, as `ext2_buffer_space` computes with the block size (100); `overrun`
records it and the model stops there, for what follows is undefined. The constant
`WithinSector` restricts callers to the first kind.

`ByteStore` is the promise: `Write` overlays bytes at the cursor or at the end of
an `O_APPEND` file and moves the cursor, `Read` returns the bytes at the cursor,
nothing else changes a file. The refinement mapping takes the content of a file
from the disk overlaid by the dirty buffer of its handle, through the handle's
inode while the file is open.

### Directory

A header is kept at its byte offset and the name at its own, since they may lie in
different sectors. `dir` is the directory on the volume. `ext2_load_buffer` stores a
dirty buffer at every access, whether the next one is to the same sector or not
(77-84), so an append is three stores: the shrunk record goes out when the new header
is about to be written, that when the name is, and the name at `ext2_close`. `phase`
says which of them the buffer holds, and `Crash` may come before, between and after
them. Block writes do not fail in this module.

| Action | Code |
|---|---|
| `ext2_open` | lookup of one path element (690-707) through `ext2_readdir`; without a hit the inode is allocated and `ext2_append_to_directory` begins, or refuses a directory of no or of a broken number of blocks |
| `ScanRecord` | one turn of the loop, `embext_directory.c` 41-51 |
| `AppendInBlock` | lines 56-63: there is room, the shrunk record is in the buffer |
| `StoreShrunk`, `StoreHeader` | the stores that the accesses of lines 70 and 71 (or 87) begin with; the new header and the name are in the buffer |
| `OverwriteLastBlock`, `ReplaceFirstBlock` | lines 76-86, when no block and when one block can be allocated; all results are ignored |
| `StoreName`, `Done` | `ext2_close`: the buffer, then the inode |

A header or a name that would leave its sector is an overrun of the buffer, and the
model stops there (`Copied`) as `FileHandles` does. Likewise the headers and names of
an initial directory lie within sectors (`Readable` in `DirsAssumption`): the code would
read one that begins 4 bytes before a sector end from behind its buffer (`lba_block`)
and shrink it there. A directory is not followed beyond the new block path either: `ext2_open`
is not called again once `grown`.

The walks of `ext2_readdir` (`Listed`) and along a block (`RecordsFrom`) are the least
set of offsets that contains where they begin and is closed under going on
(`Visited`), which is what a loop visits before it ends and has no recursion in it.
`Offsets` are the offsets a header or a name may have, all multiples of 4 as far as the
directory and one chunk of zeros reach.

`SizeAssumption` asks for what the code has: a chunk is `char buffer[128]`, a block at
least 1024 bytes, an entry at most 264, and lengths are rounded up to 4. `DirsAssumption`
asks of an initial directory what the format does: whole blocks, each covered by one
chain of records (`Chained`), whose lengths are multiples of 4 and which leave no rest
too short for a record, with zeros behind the names.

`grown` records that one of the two new-block paths was taken, `torn` that power
failed after the store of the shrunk record and before that of the new header, whether
they lie in one sector, as they mostly do, or in two. Both
destroy what the properties promise, so they guard them: after `grown` entries are
gone, after `torn` the next append walks to a record of length 0 and stays there.

### BlockMap

A block is named by the path of table entries that leads to it, and the reference
is that the data blocks of a file are the leaves in lexicographic order. The code's
divisions (`BlockFrom`) are checked against that. `WriteElsewhere` is the other
implementation that wrote the file; it may leave holes. Block 0 is a table too,
the boot block, because the code loads it whenever a pointer to a table is 0:
`BootBlocks` has one of zeros and one that reads as a pointer to another file's
block. `FreedBelowTriple` keeps the code's two slips, the table of line 588 and that
of line 596.

### ImageDisk

Numbers of type `blockno_t` wrap at `Width`. `read_partition_table` looks at one entry
of the table at a time (`entry`, `LookAtEntry`); an entry that fails a test is left
out and the loop goes on. `Valid` is the test of
`read_partition_table`, `InImage` the test of `block_read` and `block_write`, and
`Request` a file system that asks for sector n of a listed partition, so that the two
tests meet. `wrote` is the device as a caller believes it to be.

### SDCard

Driver and card alternate on the SPI line. A step of the driver is a command or data
block sent, or one poll; `at` says which response or token it waits for.
`AfterCommand` is the sequence of `sd_card_reset` and the continuation of the
transfers. The card (external) answers a command after at most `Ncr` polls, with
success or an error; it powers up, fetches and programs in its own time, may have an
error token instead of data, may refuse a data block, and may be pulled out and
replaced between any two steps by a card of another kind. A card that got power
takes nothing but CMD0. `clean` says that nothing of the kind happened during the
call, `fresh` that `card` was filled by a clean `block_init` from the card that is
in the slot. `FromCSD` gives the driver the size of the card as it is; the arithmetic on
the size fields of the CSD (`block_sd.c` 188-245) is not modelled, so what `CardKnown`
says of the size is only that it is not an earlier card's.

## Runs

| Run | Checks | Result |
|---|---|---|
| `volume` | `TypeOK`, `EntriesSound`, `FreeInodesDrift`, `UncleanMarked`, `CopiesAgree`, `PrivateUntilTruncated` with truncation and a power failure | holds |
| `volume_eio` | `NeverEIO` | violated: descriptors are never written, so an exhausted group is chosen again (279, 445) |
| `volume_bitmap` | `AllocatedMarked` | violated: the bit is set in the wrong sector (350) |
| `handles_store` | `Implements` | holds |
| `handles_isolated` | `TypeOK`, `Isolated`, `SizeAfterData`, `NeverShrinks` with failing writes, growth, a file open twice and power failures | holds |
| `handles_grow` | `RightBuffer` with growth past the first block | violated: the new block goes to `i_block[0]` (764) |
| `handles_overrun` | `InBuffer` for arbitrary requests | violated: the room in the buffer is computed from the block size (100) |
| `directory` | `TypeOK`, `ChainSound`, `NothingLost`, `AppendEnds` with two power failures | holds |
| `block_map` | `TypeOK`, `Translates`, `FreesAll`, `FreesOwn` | holds |
| `image_disk` | `TypeOK`, `Served`, `ReadsBack`, `WithinImage` | holds |
| `sd_card` | `TypeOK`, `OneOutstanding`, `CardKnown`, `ServedAsked`, `CallsEnd`, `WritesEnd` with errors, refusals and swapped cards | holds |
| `sd_write` | `WriteReported` | violated: the data response is dropped (`block_sd.c` 353) |

Several properties hold only under a condition that the code does not check, and the
condition is part of the property:

- `PrivateUntilTruncated`: `ext2_truncate_file` frees blocks on the disk while the
  inode there still points to them (1023), so after a truncation one block may come
  to be in two files. Until then it holds for a reason worth knowing: the scan never
  sees an allocation, always proposes the same block, and `ext2_change_allocated`,
  which keeps its own bits elsewhere, refuses it the second time. The descriptors
  never change either, so the group is always the same: the driver gets at most one
  new block from a volume before writes fail, but no block is given out twice.
- `Isolated` excludes the blocks in `unmarked`: when the bitmap could not be written
  (372) the same block is handed out again and two files have it. `SizeAfterData`
  excludes that as well, a `misplaced` copy, one that used a sector that is not the one
  under the cursor, and, like `NeverShrinks`, files that were open twice: the handle
  closed last puts its own copy of the inode back. None of the three is about what
  comes after `astray` or `overrun`, where the model stops.
- `ChainSound` and `AppendEnds` exclude `torn`, all of the directory's properties `grown`.
  `NothingLost` holds in spite of `torn`. Of an entry behind a record without an inode it
  says only that it is there, since `ext2_readdir` ends at that record.
- `FreesAll` stops at the triple indirect table, whose loop reads a pointer that was
  just set to 0, and at holes, behind which nothing is freed. `FreesOwn` and the
  second half of `Translates` need a boot block of zeros where a table is missing.
- `Served` and `ReadsBack` exclude entries whose end wraps in 32 bits: such an entry
  passes the check of `partition.c` 43, and sectors past the image are then served
  from its beginning. `WithinImage` excludes an image one byte short of a sector,
  whose last sector is served (`block_pc.c` 88).
- `CardKnown`, `ServedAsked` and `CallsEnd` are about calls without error tokens and
  removals: an error token ends the wait for the CSD and sixteen bytes of 0xFF are
  parsed as a card (`block_sd.c` 172), and `block_read` waits for ever for a token
  that does not come (310). `WritesEnd` and `OneOutstanding` have no such condition.

Bounds. Volume A has two groups of 8 blocks and 8 inodes, one-byte sectors, and
initial volumes with several, one and no free blocks and inodes: enough for a
choice between groups, for a full bitmap and for a group that runs dry. Two mounts
and one power failure are the least in which an interrupted call is followed by a
mount that meets what it left. In `FileHandles` power may fail any number of times
(`PowerFails`). It has two files, sectors of two bytes (one in
`handles_isolated`), two sectors per block and up to three bytes per file: partial
overwrites, growth within a sector, into the next and into a block just allocated.
One byte value besides the initial one and `junk` suffices to see a byte that is
lost, misplaced or stale. Handles are interchangeable, hence the symmetry. `handles_isolated` tells states apart by
`Shown`, which leaves out what was read last and the contents of a clean buffer: every
access loads its sector again (76-86), so no later step depends on them.
`CountMod` stands for 2^32 and exceeds every count. `Directory` has blocks of two
32-byte sectors and names whose records take 12, 16 and 20 bytes, so that headers
and names fall on either side of the boundary, blocks fill up exactly and not, and
five creations go through every path; with two power failures an append meets what
an interrupted one left and is interrupted itself. `BlockMap` has two direct entries and tables
of two: every level has a first and a last entry and an inner table. `ImageDisk` has
4-byte sectors and 6-bit numbers: offsets wrap at sector 16, within reach of a
wrapping entry, and images are whole, one byte short, one byte long and too large.
`SDCard` has two polls, cards of two and three sectors, block 4 whose byte address
wraps to 0, and two removals, so that a second card can be pulled out as well.

The volume runs switch the deadlock check off, since at the bound on mounts the
system stops, and so do `directory`, which stops at an overrun, after the new block path
and at the bound on created files, and `handles_isolated`, which stops at `astray`. The
others keep it where they pass.

Fairness. `Directory` assumes weak fairness of the append: a call that has begun is
carried on by the processor it runs on, there being nothing else. `SDCard` assumes
it of the driver for the same reason, and of the card's own three steps, powering
up, fetching and programming, which a card with power finishes within times its
standard gives. Nothing is assumed of callers, of when a card answers within `Ncr`,
or of removals.

## Proofs

The theorems about a module are in a module of their own that extends it.

### Ext2VolumeProofs

For every geometry, set of initial volumes, number of mounts and number of power
failures allowed by the three assumptions of `Ext2Volume` (positive sizes; bitmaps on
the volume, disjoint, with a bit for each block and inode; initial files own distinct
data blocks that are not free):

| Theorem | Hypotheses | Statement |
|---|---|---|
| `VolumeTypes` | | `Spec => []TypeOK` |
| `VolumeEntries` | `OneKiB`, `StrayApart` | `Spec => []EntriesSound` |
| `VolumeUnclean` | `OneKiB` | `Spec => []UncleanMarked` |
| `VolumeFreeInodes` | `OneKiB`, `StrayApart` | `Spec => []FreeInodesDrift` |
| `VolumeOwners` | `OneKiB`, `StrayApart` | `Spec => []PrivateUntilTruncated` |
| `VolumeCopies` | `OneKiB`, `FewGroups` | `Spec => []CopiesAgree` |

`OneKiB` says that blocks are 1 KiB. It cannot be dropped: with larger blocks the
first copy of the superblock is written to sector 0 and read from sector 2 (319,
795), so that the one `ext2_mount` reads is never rewritten, and line 525 adds 1 where
the first data block is 0. `StrayApart` says that
the sectors `ext2_change_allocated` takes for bitmaps hold no bitmap and no file
data; without it an allocation flips bits of those. `FewGroups` says that superblocks
are not sparse or that there are at most nine groups: `is_power` is called with its
arguments swapped (831) and misses the copies in groups 9, 25, 27, 49, ..., which then
keep what they had.

Inductive invariants:

- `TypeOK` is inductive. What it needs is arithmetic: a number computed from a
  group and an offset is one of that group (`NewInodeBit`, `AllocatedBlockBit`).
- `Pointers`: every block pointer is in a group of the volume. It holds because
  the last bit of the last block bitmap stands for no block and stays set, so the
  off-by-one of line 525 never leaves the volume. It is what makes
  `ChangeTargets` a single bit.
- `BitmapsKept` (a lemma about steps): under `Pointers`, block bitmaps never
  change and inode bits are only set.
- `EntriesInv` adds that the inode being created is marked and, until its entry is
  written, unnamed.
- `UncleanInv` adds the state of the context in every phase and that, while
  mounting, the primary copy is written first.
- `DriftInv` adds the count in memory, from which the flush writes.
- `OwnersInv` adds that every block in use is `Taken`: marked in the bitmap or in
  the stray sector. An allocation needs a block whose bits are clear in both. The
  invariant is `~truncated => OwnersInv`, and `truncated` stays true once it is.
- `CopiesInv` adds, for a flush under way, that every copy not in `todo` is what
  the context has, and that afterwards all have the count in memory. `CopiesWritten` shows that under `FewGroups` the groups
  the code flushes are the groups that have a copy; it rests on `PowerOfItself`, what
  the division loop of `is_power` computes for 1, 3, 5 and 7.

### FileHandlesProofs

For every volume, sector and block size, any number of files and handles, shared or
not, growing or not, on a device that may fail, with any number of power failures, up to
the step that sets `overrun` or `astray`:

| Theorem | Statement |
|---|---|
| `HandlesTypes` | `Spec => []TypeOK` |
| `HandlesIsolated` | `Spec => []Isolated` |
| `HandlesSizeAfterData` | `Spec => []SizeAfterData` |
| `HandlesNeverShrink` | `Spec => NeverShrinks` |

They are consequences of one inductive invariant, `HandlesInv`. None of the three is
inductive alone; the parts that make them so are:

- `Private`: no block is two files', or a file's and free, where a file has the blocks
  of its inode on the volume, of the inodes in its handles, and the one a modified
  buffer is on its way to. A block just allocated is therefore nobody's. Blocks in
  `unmarked` are left out of it.
- `Longer` and `OneEach`: a handle never has a shorter file than the volume, and unless
  files are shared it is the only one of its file, so that `ext2_close` only lengthens.
- `Agrees` and `AllWhole`: a handle has the blocks the volume has, and every byte of its
  file has been written, on the volume or in the modified buffer. `ext2_close` stores
  the buffer before the inode (two steps), so the bytes are there before the size is.

`SizeAssumption` asks for positive sizes, `VolumeAssumption` for initial volumes made of
whole blocks other than block 0, each in one place of one file or free, and files whose
bytes were written.

### FileHandlesRefinement

`HandlesImplementStore`: `CarefulUse => (Spec => Implements)`. `CarefulUse` names what
callers and device have to respect for the sector buffer to be invisible: requests stay
within a sector (100), a file is open once, it does not grow past its first block (764),
no write fails and neither does power. `handles_overrun` and `handles_grow` show what
becomes of the first and the third otherwise. Sizes, files and handles are arbitrary.

`CarefulInv` extends `HandlesInv`: nothing has gone wrong (`Sound`), no block is in two
places of a file, and a handle that does not say that its inode changed has the one on
the volume. The simulation has one lemma for each action. Those that only move
bytes between buffer and volume map to stuttering or to a cursor that moves
(`QuietStep`); a read returns the bytes of the mapped content (`ReadOf`), since the
sector loaded or kept is the one under the cursor; a write overlays exactly the bytes at
the cursor (`WriteOf`), since no other position has the same sector and offset.

### BlockMapProofs

| Theorem | Statement |
|---|---|
| `MapTypes` | `Spec => []TypeOK` |
| `MapTranslates` | `Spec => []Translates` |
| `MapFreesAll` | `Spec => []FreesAll` |
| `MapFreesOwn` | `Spec => []FreesOwn` |

For every number of direct entries, size of the tables, file with holes, and boot block
(`BootAssumption`: read as a table it may point to any block). The core is
`PathIsCodePath`: the reference, the leaf with k leaves before it in lexicographic order,
is where the code's divisions lead. It goes through `Index`, which reads the entries of
a path as digits: leaves are ordered as their indices are (`OrderedAsIndices`), `Index`
is one to one, the code's path for k has index k (`CodePathIndex`), and so exactly n
leaves have an index below n (`CountBelow`, with a bijection from 1..n).

The inductive invariant `BInv` says that the tables are those of the format for the
blocks written, before and after the truncation, and that the last lookup would have the
same result now. `Walk` is the step from a pointer to the one below it; a missing table
is where the boot block comes in. `FreesDense` shows that no entry of 0 stops the loops
of `ext2_truncate_file` early in a file without holes.

### ImageDiskProofs

| Theorem | Statement |
|---|---|
| `ImageTypes` | `Spec => []TypeOK` |
| `ImageServed` | `Spec => []Served` |
| `ImageReadsBack` | `Spec => []ReadsBack` |
| `ImageWithin` | `Spec => []WithinImage` |

For every image, sector size, width and table. `IInv` adds that every listed partition
is an entry of the table that passed `Valid` (`ListSound`), that a driver that is ready
has the image it was made from (`Loaded`), and that what was served passed `InImage`
(`LastSound`). The
arithmetic is that of two tests which divide differently: `Valid` adds in `Width` bits
and compares with the number of sectors, `InImage` multiplies by the sector size.

### SDCardProofs

| Theorem | Statement |
|---|---|
| `SDTypes` | `Spec => []TypeOK` |
| `SDOneOutstanding` | `Spec => []OneOutstanding` |
| `SDCardKnown` | `Spec => []CardKnown` |
| `SDServedAsked` | `Spec => []ServedAsked` |

For every set of cards, address width, `Ncr < Retries` and number of removals.
`SDInv` relates the two sides of the SPI line. A command the card has not answered was
polled as often as the driver tried, so the answer comes before the driver gives up
(`Paced`); an empty slot moves nothing (`Absent`); data moves only after a command that
asked for it, and the card's type is not trusted during `block_init` (`Staged`); the
address sent and the sector under way are those asked for, as long as nothing
interfered (`Moving`).

### DirectoryProofs

| Theorem | Statement |
|---|---|
| `DirectoryTypes` | `Spec => []TypeOK` |
| `ChainHolds` | `Spec => []ChainSound` |
| `NamesStay` | `Spec => []NothingLost` |
| `ScanAdvances` | `Spec => [][ScanRecord /\ ~torn /\ ~grown => offset < offset']_vars` |

For every block, sector and chunk size, set of names and of initial directories allowed
by the two assumptions, and any number of files and power failures, up to the first use
of the new block path. The assumptions leave out directories with a header or a name
across a sector end, which the code misreads. There are three inductive invariants, each
of which uses the one before:

- `TypeInv`. A scan stays in the last block because of what every header says, a record's
  or not (`LinkAt`): the next record begins where the least one still fits and its header
  is within a sector, or the block ends with this one. This holds after `torn` too.
  `Placed`, `Aimed`, `Shrinking` and `Fits` say where an append under way reads and
  writes.
- `ChainInv`. While `grown` is false the headers form one chain from 0 to some end
  (`Chained`) and can be read without leaving the buffer (`Readable`). Until the shrunk
  record is stored the chain is whole; in phase "header" it ends where the new record
  will be (`ChainShrunk`); from phase "name" on it is whole again (`ChainExtended`). A
  power failure in phase "header" is exactly `torn`. From then on no append changes the
  directory any more, since no scan of the short chain ends (`TornScans`); this keeps
  the invariant true and is the defect that `torn` stands for.
- `NameInv`. A created name is on a record with its inode, and no record before it has
  the name unless a record without an inode hides it (`Holds`): the name was looked up
  before it was added. Each of the three stores leaves the same names on all records but
  the new one (`SameBut`: `ShrunkNames`, `HeaderNames`, `NameNames`), which is geometry: a
  name ends before the next record begins, and the last record's before the new one, so
  the two headers destroy none. The inode of the new record is fresh, so it is not the
  witness for an older name.

What a walk visits cannot be shown by induction here. `LeastElement`, from the
library's theorem that the natural numbers are well founded, takes its place: the first
record that `Listed` or `Records` would miss has a predecessor in the chain, which is
visited, and so is the record (`AllListed`, `AllRecords`). `ChainTiles` and `NamesFound`
derive the properties from the invariants.

`ScanAdvances`, with `DirectoryTypes`, is the safety half of `AppendEnds`: the loop goes
on to later offsets and stays within a block.

### Only model-checked

`CallsEnd`, `WritesEnd` and `AppendEnds` are liveness under fairness and out of the
prover's reach. Every other property of a passing run is a theorem, those of `Ext2Volume` and
the refinement under the hypotheses named above.

## Not modelled

`ext2_fstat` and `ext2_isatty` change nothing; the test programs are not part of the
driver. In the modelled parts these are left out: the magic and size checks of
`ext2_mount`, which return before any change; times, modes and owners;
`bg_used_dirs_count`; failing writes in `Ext2Volume` (their results are ignored
throughout, `FileHandles` has them); seeks past the end; unmounting with open files,
which leaves handles with a dangling context; read-only volumes, on which the calls
return `EROFS` before any change; paths of more than one element; volumes of more
than two groups in the runs, although the theorems cover them; `block_pc`'s
snapshots and hashes; calls to `block_pc` that break the rules of `block.h`, such as
a second `block_halt`, which would free the image twice; pins, clocks and the SPI
peripheral; the size arithmetic on the CSD; failing writes in `Directory`; what follows an
overrun of the sector buffer, which is undefined, or a search for a free block in bytes
that are no bitmap.

## Plan

1. *(done)* `Ext2Volume`, its runs and theorems; `ByteStore`, `FileHandles` and
   their runs.
2. *(done)* `BlockMap`, `Directory`, `ImageDisk` (partition table and PC driver) and
   `SDCard`; two handles on one file in `FileHandles`.
3. *(done)* Proofs about `Ext2Volume`, `FileHandles` with the refinement of `ByteStore`,
   `BlockMap`, `ImageDisk`, `SDCard` and `Directory`.
4. Open: file creation composed from `Ext2Volume` and `Directory`, so that an entry
   interrupted between its two headers meets the inode interrupted between its bit and
   its counts.
