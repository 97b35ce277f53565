----------------------------- MODULE Ext2Volume -----------------------------
(***************************************************************************)
(* The allocation core of embext.c: ext2_mount and ext2_umount with        *)
(* ext2_flush_superblock, file creation in ext2_open (ext2_allocate_inode, *)
(* the directory entry, ext2_flush_inode), block allocation while writing  *)
(* (ext2_select_buffer, ext2_allocate_block, ext2_change_allocated),       *)
(* truncation and close, on a volume that can lose power between any two   *)
(* block_write calls of these functions.                                   *)
(*                                                                         *)
(* Raw sector contents are the set `disk' of the bits that are 1, a bit    *)
(* being <<lba, byte, bit>> with LBAs relative to part_start: reading a    *)
(* sector, changing one bit of it and writing it back adds or removes one  *)
(* element.  What is never read as a bitmap is kept apart as records: the  *)
(* superblock copies, the group descriptor table, the inode table and the  *)
(* directory.                                                              *)
(***************************************************************************)
EXTENDS Integers, FiniteSets

CONSTANTS
  SectorsPerBlock,  \* ext2_block_size / block_get_block_size(): 2 for 1 KiB
  SectorSize,       \* block_get_block_size(), in bytes
  BlocksPerGroup,   \* s_blocks_per_group
  InodesPerGroup,   \* s_inodes_per_group
  BlocksCount,      \* s_blocks_count
  Sparse,           \* EXT2_FEATURE_RO_COMPAT_SPARSE_SUPER on a revision 1 volume
  BlockBitmap,      \* bg_block_bitmap of each group, a block number
  InodeBitmap,      \* bg_inode_bitmap of each group, a block number
  DataBlocks,       \* the blocks that files may own
  DataSectors,      \* the sectors of those blocks that file writes change
  FirstTable,       \* i_block[0] of every inode slot on the initial volume
  FirstFiles,       \* the inodes that are named files on the initial volume
  FreeBlockSets,    \* the sets of free blocks of the initial volumes
  FreeInodeSets,    \* the sets of free inodes of the initial volumes
  StraySets,        \* bits set in sectors that hold no bitmap
  CountMod,         \* 2^32, the modulus of the superblock's uint32_t counters
  MaxMounts,        \* bound: mounts recorded on the volume
  MaxCrashes        \* bound: power failures

VARIABLES
  disk,     \* the bits of the volume's sectors that are 1
  super,    \* the superblock record stored at each superblock address
  desc,     \* the group descriptor table on the volume
  itable,   \* the inode table: i_block[0] of each inode
  names,    \* how many directory entries name each inode
  ctx,      \* the superblock in struct ext2context
  fe,       \* the struct file_ent of each open file
  phase,    \* the call in progress, "unmounted" when there is no context
  todo,     \* groups whose superblock copy is still to be written
  newino,   \* the inode being created, or 0
  result,   \* how the last allocation ended
  inuse,    \* history: mount returned and umount was not called since
  torn,     \* history: power failures between an inode's bit and its count
  halfmade, \* history: inodes named but not written when power failed
  truncated, \* history: a file was opened with O_TRUNC
  crashes   \* history: power failures

mem  == <<ctx, fe, phase, todo, newino, result>>
hist == <<inuse, torn, halfmade, truncated, crashes>>
vars == <<disk, super, desc, itable, names, mem, hist>>

(***************************************************************************)
(* Geometry computed by ext2_mount.                                        *)
(***************************************************************************)

\* context->superblock_block: block 1 with 1 KiB blocks, block 0 otherwise.
superblock_block == IF SectorsPerBlock = 2 THEN 1 ELSE 0

num_blockgroups ==
  BlocksCount \div BlocksPerGroup
    + (IF BlocksCount % BlocksPerGroup # 0 THEN 1 ELSE 0)

Groups == 0 .. num_blockgroups - 1

\* is_power(x, ofy) divides x by ofy as long as it can and compares with 1.
is_power(x, ofy) ==
  LET divide[n \in 1 .. x] ==
        IF n % ofy = 0 THEN divide[n \div ofy] ELSE n
  IN  divide[x] = 1

\* Mutant: the loops over the groups start at 1.
SkipsFirstCopy == Groups \ {0}

\* The groups ext2_mount believes to hold a superblock copy.  The arguments
\* of is_power are the code's: it asks whether 3, 5 or 7 is a power of i.
SuperGroups ==
  IF Sparse
  THEN {i \in Groups : i \in {0, 1} \/ \E p \in {3, 5, 7} : is_power(p, i)}
  ELSE Groups

\* superblock_blocks[.] << (s_log_block_size + 1): where a copy is written.
SuperLba(g) == (g * BlocksPerGroup + superblock_block) * SectorsPerBlock

\* block_read(part_start + 2): where ext2_mount reads the superblock.
PrimaryLba == 2

SuperLbas == {PrimaryLba} \cup {SuperLba(g) : g \in SuperGroups}

(***************************************************************************)
(* Bit addresses.  A bitmap is scanned through ext2_load_buffer, which     *)
(* turns the block number into sectors; ext2_change_allocated adds the     *)
(* sector offset to the bare block number.                                 *)
(***************************************************************************)

BitAt(lba, off) ==
  <<lba + (off \div 8) \div SectorSize, (off \div 8) % SectorSize, off % 8>>

BlockBit(g, off)  == BitAt(BlockBitmap[g] * SectorsPerBlock, off)
InodeBit(g, off)  == BitAt(InodeBitmap[g] * SectorsPerBlock, off)
ChangeBit(g, off) == BitAt(BlockBitmap[g], off)

SectorBits(lba) == {lba} \X (0 .. SectorSize - 1) \X (0 .. 7)

Bits == UNION {SectorBits(lba) : lba \in 0 .. BlocksCount * SectorsPerBlock - 1}

\* Offsets visited by the byte-wise scan of a bitmap of n entries.
Scan(n) == 0 .. 8 * (n \div 8) - 1

Inodes == 1 .. num_blockgroups * InodesPerGroup

\* Every block number the driver can compute; the last may be off the volume.
Blocks == 0 .. num_blockgroups * BlocksPerGroup

(***************************************************************************)
(* Where the ext2 format keeps the bit of a block and of an inode.         *)
(***************************************************************************)

FormatBlock(g, off) == g * BlocksPerGroup + off + superblock_block
FormatInode(g, off) == g * InodesPerGroup + off + 1

BlockMarked(b) ==
  BlockBit((b - superblock_block) \div BlocksPerGroup,
           (b - superblock_block) % BlocksPerGroup) \in disk
InodeMarked(n) ==
  InodeBit((n - 1) \div InodesPerGroup, (n - 1) % InodesPerGroup) \in disk

FreeInodes == {n \in Inodes : ~InodeMarked(n)}

(***************************************************************************)
(* What the ext2 format and the choice of the initial volumes guarantee.   *)
(***************************************************************************)

ASSUME GeometryAssumption ==
  /\ SectorsPerBlock \in Nat \ {0} /\ SectorSize \in Nat \ {0}
  /\ BlocksPerGroup \in Nat \ {0} /\ InodesPerGroup \in Nat \ {0}
  /\ BlocksCount \in Nat \ {0} /\ CountMod \in Nat \ {0}
  /\ MaxMounts \in Nat /\ MaxCrashes \in Nat
  /\ Sparse \in BOOLEAN

BlockBits  == {BlockBit(g, off) : g \in Groups, off \in 0 .. BlocksPerGroup - 1}
InodeBits  == {InodeBit(g, off) : g \in Groups, off \in 0 .. InodesPerGroup - 1}
ChangeBits == {ChangeBit(g, off) : g \in Groups, off \in 0 .. BlocksPerGroup - 1}
DataBits   == UNION {SectorBits(lba) : lba \in DataSectors}

\* Bitmaps lie on the volume, overlap neither each other nor the files, and
\* keep every block and every inode in a bit of its own.
ASSUME BitmapAssumption ==
  /\ BlockBits \cup InodeBits \cup ChangeBits \cup DataBits \subseteq Bits
  /\ BlockBits \cap InodeBits = {}
  /\ (BlockBits \cup InodeBits) \cap DataBits = {}
  /\ \A g, h \in Groups, i, j \in 0 .. BlocksPerGroup - 1 :
       BlockBit(g, i) = BlockBit(h, j) => g = h /\ i = j
  /\ \A g, h \in Groups, i, j \in 0 .. InodesPerGroup - 1 :
       InodeBit(g, i) = InodeBit(h, j) => g = h /\ i = j

\* The initial files own distinct data blocks, none of which is free.
ASSUME InitialAssumption ==
  /\ DataBlocks \subseteq superblock_block .. BlocksCount - 1
  /\ StraySets \subseteq SUBSET (Bits \ (BlockBits \cup InodeBits))
  /\ FirstTable \in [Inodes -> 0 .. BlocksCount - 1]
  /\ FirstFiles \subseteq Inodes
  /\ \A fi \in FreeInodeSets :
       fi \subseteq Inodes \ FirstFiles /\ Cardinality(fi) < CountMod
  /\ \A fb \in FreeBlockSets :
       fb \subseteq DataBlocks /\ Cardinality(fb) < CountMod
  /\ \A n \in FirstFiles : FirstTable[n] # 0 =>
       /\ FirstTable[n] \in DataBlocks \ UNION FreeBlockSets
       /\ \A m \in FirstFiles \ {n} : FirstTable[m] # FirstTable[n]

NoContext == [s_state |-> "none", s_free_blocks_count |-> 0,
              s_free_inodes_count |-> 0, s_mnt_count |-> 0]

NoFile == [open |-> FALSE, i_block |-> 0, fs_dirty |-> FALSE]

(***************************************************************************)
(* A volume as mke2fs and another ext2 driver leave it: bitmaps, group     *)
(* descriptors and superblock copies agree.                                *)
(***************************************************************************)
FreshVolume(fb, fi, stray) ==
  LET sb == [s_state |-> "VALID_FS",
             s_free_blocks_count |-> Cardinality(fb),
             s_free_inodes_count |-> Cardinality(fi),
             s_mnt_count |-> 0]
  IN
  /\ disk = stray
       \cup {BlockBit(x[1], x[2]) : x \in
               {y \in Groups \X (0 .. BlocksPerGroup - 1) :
                  FormatBlock(y[1], y[2]) \notin fb}}
       \cup {InodeBit(x[1], x[2]) : x \in
               {y \in Groups \X (0 .. InodesPerGroup - 1) :
                  FormatInode(y[1], y[2]) \notin fi}}
  /\ super = [a \in SuperLbas |->
                IF a = PrimaryLba \/ a # SuperLba(0) THEN sb ELSE NoContext]
  /\ desc = [g \in Groups |->
               [bg_free_blocks_count |->
                  Cardinality({b \in fb :
                    (b - superblock_block) \div BlocksPerGroup = g}),
                bg_free_inodes_count |->
                  Cardinality({n \in fi : (n - 1) \div InodesPerGroup = g})]]

Init ==
  /\ \E fb \in FreeBlockSets, fi \in FreeInodeSets, stray \in StraySets :
       FreshVolume(fb, fi, stray)
  /\ itable = FirstTable
  /\ names = [n \in Inodes |-> IF n \in FirstFiles THEN 1 ELSE 0]
  /\ ctx = NoContext
  /\ fe = [n \in Inodes |-> NoFile]
  /\ phase = "unmounted"
  /\ todo = {}
  /\ newino = 0
  /\ result = "ok"
  /\ inuse = FALSE
  /\ torn = 0
  /\ halfmade = {}
  /\ truncated = FALSE
  /\ crashes = 0

(***************************************************************************)
(* Mounting, unmounting and the superblock write-back they share with      *)
(* inode allocation.  A call that flushes records its phase and the copies *)
(* to write in todo; one step writes one copy.                             *)
(***************************************************************************)

\* Mutant: the volume is not marked as mounted.
KeepsState(sb) == [sb EXCEPT !.s_mnt_count = @ + 1]

\* The superblock of the new context.
MountedSuper(sb) == [sb EXCEPT !.s_mnt_count = @ + 1, !.s_state = "ERROR_FS"]

ext2_mount ==
  /\ phase = "unmounted"
  /\ super[PrimaryLba].s_mnt_count < MaxMounts
  /\ ctx' = MountedSuper(super[PrimaryLba])
  /\ phase' = "mounting"
  /\ todo' = SuperGroups
  /\ UNCHANGED <<disk, super, desc, itable, names, fe, newino, result, hist>>

\* The caller has closed its files: their file_ents point into the context.
ext2_umount ==
  /\ phase = "idle"
  /\ \A n \in Inodes : ~fe[n].open
  /\ ctx' = [ctx EXCEPT !.s_state = "VALID_FS"]
  /\ phase' = "unmounting"
  /\ todo' = SuperGroups
  /\ inuse' = FALSE
  /\ UNCHANGED <<disk, super, desc, itable, names, fe, newino, result,
                 torn, halfmade, truncated, crashes>>

\* What the call that flushes does after the last copy: mount returns the
\* context, umount frees it, inode allocation goes on to the directory.
Flushed(p) ==
  CASE p = "mounting"   -> "idle"
    [] p = "unmounting" -> "unmounted"
    [] p = "allocating" -> "linking"

\* Mutant: the loop ends after the first copy.
FlushesFirst ==
  /\ \E g \in todo :
       /\ \A h \in todo : g <= h
       /\ super' = [super EXCEPT ![SuperLba(g)] = ctx]
  /\ todo' = {}
  /\ phase' = Flushed(phase)
  /\ ctx' = IF phase' = "unmounted" THEN NoContext ELSE ctx
  /\ inuse' = (inuse \/ phase = "mounting")
  /\ UNCHANGED <<disk, desc, itable, names, fe, newino, result,
                 torn, halfmade, truncated, crashes>>

\* One block_write of the loop over superblock_blocks, in ascending order.
ext2_flush_superblock ==
  /\ \E g \in todo :
       /\ \A h \in todo : g <= h
       /\ super' = [super EXCEPT ![SuperLba(g)] = ctx]
       /\ todo' = todo \ {g}
  /\ phase' = IF todo' = {} THEN Flushed(phase) ELSE phase
  /\ ctx' = IF phase' = "unmounted" THEN NoContext ELSE ctx
  /\ inuse' = (inuse \/ (phase = "mounting" /\ todo' = {}))
  /\ UNCHANGED <<disk, desc, itable, names, fe, newino, result,
                 torn, halfmade, truncated, crashes>>

(***************************************************************************)
(* Creating a file: inode bit, superblock, directory entry, inode.         *)
(***************************************************************************)

\* The group the descriptor loop settles on: the first with the largest count.
MostFree(g, count) ==
  /\ count[g] > 0
  /\ \A h \in Groups : count[h] <= count[g] /\ (h < g => count[h] < count[g])

FreeInodeCounts == [g \in Groups |-> desc[g].bg_free_inodes_count]
FreeBlockCounts == [g \in Groups |-> desc[g].bg_free_blocks_count]

\* ext2_write_bg_descriptor puts the descriptor into sysbuf for every table
\* and never writes sysbuf back: the table on the volume stays as it was.
ext2_write_bg_descriptor(table, g, bg) == table

\* No group has a free inode: ENOSPC.  The chosen group has no zero bit: EIO.
AllocateInodeFails ==
  /\ phase = "idle"
  /\ \/ /\ \A g \in Groups : FreeInodeCounts[g] = 0
        /\ result' = "ENOSPC"
     \/ /\ \E g \in Groups :
             /\ MostFree(g, FreeInodeCounts)
             /\ \A k \in Scan(InodesPerGroup) : InodeBit(g, k) \in disk
        /\ result' = "EIO"
  /\ UNCHANGED <<disk, super, desc, itable, names, ctx, fe, phase, todo, newino, hist>>

\* Mutants: groups numbered from 1, a bit set in the buffer and not stored.
GroupsFromOne(g, off) == InodesPerGroup * (g + 1) + off + 1
NotStored(g, off) == disk

\* The number of the inode whose bit is at offset off of group g's bitmap.
NewInode(g, off) == InodesPerGroup * g + off + 1

\* The bitmap sector written back with the inode's bit set.
StoreInodeBit(g, off) == disk \cup {InodeBit(g, off)}

\* The first zero bit of the chosen group is set and its sector stored, the
\* counts change in memory, and the superblock copies are left to the flush.
ext2_allocate_inode ==
  /\ phase = "idle"
  /\ \E g \in Groups, off \in Scan(InodesPerGroup) :
       /\ MostFree(g, FreeInodeCounts)
       /\ InodeBit(g, off) \notin disk
       /\ \A k \in Scan(InodesPerGroup) : k < off => InodeBit(g, k) \in disk
       /\ newino' = NewInode(g, off)
       /\ disk' = StoreInodeBit(g, off)
       /\ desc' = ext2_write_bg_descriptor(desc, g,
                    [desc[g] EXCEPT !.bg_free_inodes_count = @ - 1])
  /\ ctx' = [ctx EXCEPT !.s_free_inodes_count = (@ - 1) % CountMod]
  /\ phase' = "allocating"
  /\ todo' = SuperGroups
  /\ result' = "ok"
  /\ UNCHANGED <<super, itable, names, fe, hist>>

\* ext2_append_to_directory writes the entry through a handle of its own and
\* closes it.  When the directory cannot be opened the call fails: the inode
\* stays allocated and nothing names it.
AppendToDirectory ==
  /\ phase = "linking"
  /\ \/ /\ names' = [names EXCEPT ![newino] = @ + 1]
        /\ phase' = "initialising"
        /\ UNCHANGED <<newino, result>>
     \/ /\ phase' = "idle"
        /\ newino' = 0
        /\ result' = "ENOENT"
        /\ UNCHANGED names
  /\ UNCHANGED <<disk, super, desc, itable, ctx, fe, todo, hist>>

\* ext2_flush_inode writes the new inode, which has no blocks yet, and
\* ext2_open returns the handle.
InitialiseInode ==
  /\ phase = "initialising"
  /\ itable' = [itable EXCEPT ![newino] = 0]
  /\ fe' = [fe EXCEPT ![newino] = [NoFile EXCEPT !.open = TRUE]]
  /\ phase' = "idle"
  /\ newino' = 0
  /\ UNCHANGED <<disk, super, desc, names, ctx, todo, result, hist>>

(***************************************************************************)
(* Block allocation and release.                                           *)
(***************************************************************************)

\* The bit ext2_change_allocated tests and flips.  For a block number in the
\* group after the last, ext2_get_bg_descriptor fails and the descriptor is
\* an uninitialized local: any sector may be read and written.
ChangeTargets(b) ==
  LET g == b \div BlocksPerGroup
  IN  IF g \in Groups THEN {ChangeBit(g, b % BlocksPerGroup)} ELSE Bits

\* Mutant: the bit is written without testing it first.
Untested(b, allocated) ==
  {[ok |-> TRUE, disk |-> IF allocated THEN disk \cup {p} ELSE disk \ {p}] :
     p \in ChangeTargets(b)}

\* The outcomes of ext2_change_allocated(b, allocated): an already allocated
\* block cannot be allocated, an already free one cannot be freed.
ext2_change_allocated(b, allocated) ==
  {IF (p \in disk) = allocated
   THEN [ok |-> FALSE, disk |-> disk]
   ELSE [ok |-> TRUE,
         disk |-> IF allocated THEN disk \cup {p} ELSE disk \ {p}] :
     p \in ChangeTargets(b)}

\* The block number computed from a group and the offset of a zero bit.
AllocatedBlock(g, off) == BlocksPerGroup * g + off + 1

\* ext2_write at a position without a block, ext2_allocate_block failing: no
\* group has a free block, or the chosen one has no zero bit in its bitmap.
AllocateBlockFails(n) ==
  /\ phase = "idle"
  /\ fe[n].open /\ fe[n].i_block = 0
  /\ \/ /\ \A g \in Groups : FreeBlockCounts[g] = 0
        /\ result' = "ENOSPC"
     \/ /\ \E g \in Groups :
             /\ MostFree(g, FreeBlockCounts)
             /\ \A k \in Scan(BlocksPerGroup) : BlockBit(g, k) \in disk
        /\ result' = "fail"
  /\ UNCHANGED <<disk, super, desc, itable, names, ctx, fe, phase, todo, newino, hist>>

\* ext2_write at a position without a block: ext2_select_buffer stores the
\* number of the new block in i_block[0], and the size grows.
ext2_allocate_block(n) ==
  /\ phase = "idle"
  /\ fe[n].open /\ fe[n].i_block = 0
  /\ \E g \in Groups, off \in Scan(BlocksPerGroup) :
       /\ MostFree(g, FreeBlockCounts)
       /\ BlockBit(g, off) \notin disk
       /\ \A k \in Scan(BlocksPerGroup) : k < off => BlockBit(g, k) \in disk
       /\ \E out \in ext2_change_allocated(AllocatedBlock(g, off), TRUE) :
            /\ disk' = out.disk
            /\ IF out.ok
               THEN /\ result' = "ok"
                    /\ fe' = [fe EXCEPT ![n] = [open |-> TRUE, i_block |-> AllocatedBlock(g, off),
                                                fs_dirty |-> TRUE]]
                    /\ ctx' = [ctx EXCEPT !.s_free_blocks_count =
                                            (@ - 1) % CountMod]
               ELSE /\ result' = "fail"
                    /\ UNCHANGED <<fe, ctx>>
       /\ desc' = ext2_write_bg_descriptor(desc, g,
                    [desc[g] EXCEPT !.bg_free_blocks_count = @ - 1])
  /\ UNCHANGED <<super, itable, names, phase, todo, newino, hist>>

(***************************************************************************)
(* Opening, using and closing a file.  A file has at most one handle.      *)
(***************************************************************************)

OpenFile(n) ==
  /\ phase = "idle"
  /\ names[n] > 0 /\ ~fe[n].open
  /\ fe' = [fe EXCEPT ![n] = [NoFile EXCEPT !.open = TRUE, !.i_block = itable[n]]]
  /\ UNCHANGED <<disk, super, desc, itable, names, ctx, phase, todo, newino, result, hist>>

\* O_TRUNC: ext2_truncate_file gives the block back, ignores whether that
\* worked, and clears the pointer in memory.  It leaves EXT2_FLAG_FS_DIRTY.
OpenTruncate(n) ==
  /\ phase = "idle"
  /\ names[n] > 0 /\ ~fe[n].open
  /\ fe' = [fe EXCEPT ![n] = [NoFile EXCEPT !.open = TRUE]]
  /\ IF itable[n] = 0 THEN UNCHANGED <<disk, ctx>>
     ELSE \E out \in ext2_change_allocated(itable[n], FALSE) :
            /\ disk' = out.disk
            /\ ctx' = IF out.ok
                      THEN [ctx EXCEPT !.s_free_blocks_count = (@ + 1) % CountMod]
                      ELSE ctx
  /\ truncated' = TRUE
  /\ UNCHANGED <<super, desc, itable, names, phase, todo, newino, result,
                 inuse, torn, halfmade, crashes>>

\* ext2_read or ext2_write inside the file: both mark the inode dirty, and
\* a write changes one of the block's sectors.
AccessFile(n) ==
  /\ phase = "idle"
  /\ fe[n].open /\ fe[n].i_block # 0
  /\ fe' = [fe EXCEPT ![n].fs_dirty = TRUE]
  /\ \/ UNCHANGED disk
     \/ \E lba \in DataSectors :
          /\ lba \div SectorsPerBlock = fe[n].i_block
          /\ disk' \in {disk \ SectorBits(lba), disk \cup SectorBits(lba)}
  /\ UNCHANGED <<super, desc, itable, names, ctx, phase, todo, newino, result, hist>>

ext2_close(n) ==
  /\ phase = "idle"
  /\ fe[n].open
  /\ itable' = IF fe[n].fs_dirty THEN [itable EXCEPT ![n] = fe[n].i_block] ELSE itable
  /\ fe' = [fe EXCEPT ![n] = NoFile]
  /\ UNCHANGED <<disk, super, desc, names, ctx, phase, todo, newino, result, hist>>

\* Power fails: everything in memory is lost.
Crash ==
  /\ phase # "unmounted"
  /\ crashes < MaxCrashes
  /\ crashes' = crashes + 1
  /\ torn' = IF phase = "allocating" /\ 0 \in todo THEN torn + 1 ELSE torn
  /\ halfmade' = IF phase = "initialising" THEN halfmade \cup {newino} ELSE halfmade
  /\ phase' = "unmounted"
  /\ todo' = {}
  /\ newino' = 0
  /\ ctx' = NoContext
  /\ fe' = [n \in Inodes |-> NoFile]
  /\ UNCHANGED <<disk, super, desc, itable, names, result, inuse, truncated>>

Next ==
  \/ ext2_mount
  \/ ext2_umount
  \/ ext2_flush_superblock
  \/ AllocateInodeFails
  \/ ext2_allocate_inode
  \/ AppendToDirectory
  \/ InitialiseInode
  \/ \E n \in Inodes : \/ AllocateBlockFails(n)
                       \/ ext2_allocate_block(n)
                       \/ OpenFile(n)
                       \/ OpenTruncate(n)
                       \/ AccessFile(n)
                       \/ ext2_close(n)
  \/ Crash

Spec == Init /\ [][Next]_vars

(***************************************************************************)
(* Properties.                                                             *)
(***************************************************************************)

SuperRecord == [s_state : {"VALID_FS", "ERROR_FS", "none"},
                s_free_blocks_count : 0 .. CountMod - 1,
                s_free_inodes_count : 0 .. CountMod - 1,
                s_mnt_count : 0 .. MaxMounts]

Flushing == {"mounting", "unmounting", "allocating"}
Creating == {"allocating", "linking", "initialising"}
Phases   == Flushing \cup Creating \cup {"unmounted", "idle"}

\* Every variable has its type; in particular every inode number computed by
\* ext2_allocate_inode and every block number computed by ext2_allocate_block
\* is one of the volume's groups, and a superblock flush is under way exactly
\* while copies are left to write.
TypeOK ==
  /\ disk \subseteq Bits
  /\ super \in [SuperLbas -> SuperRecord]
  /\ desc \in [Groups -> [bg_free_blocks_count : Nat, bg_free_inodes_count : Nat]]
  /\ itable \in [Inodes -> Blocks]
  /\ names \in [Inodes -> Nat]
  /\ ctx \in SuperRecord
  /\ fe \in [Inodes -> [open : BOOLEAN, i_block : Blocks, fs_dirty : BOOLEAN]]
  /\ phase \in Phases
  /\ todo \subseteq SuperGroups
  /\ (phase \in Flushing) <=> (todo # {})
  /\ newino \in Inodes \cup {0}
  /\ (phase \in Creating) <=> (newino # 0)
  /\ result \in {"ok", "ENOSPC", "EIO", "ENOENT", "fail"}
  /\ inuse \in BOOLEAN
  /\ torn \in 0 .. crashes
  /\ halfmade \subseteq Inodes
  /\ truncated \in BOOLEAN
  /\ crashes \in 0 .. MaxCrashes

\* ext2_open marks an inode in the bitmap before it writes the entry that names
\* it, so that whenever power fails every named inode is allocated on the
\* volume, and no inode is ever given to two names.
EntriesSound ==
  \A n \in Inodes : names[n] > 0 => InodeMarked(n) /\ names[n] = 1

\* The free inode count on the volume is the number of zero bits of the inode
\* bitmaps, plus one for every power failure that hit ext2_allocate_inode
\* between the store of the bit and the write of the first superblock copy:
\* the count drifts upwards by exactly that and is never repaired.
FreeInodesDrift ==
  super[PrimaryLba].s_free_inodes_count =
    Cardinality(FreeInodes) + torn
      + (IF phase = "allocating" /\ 0 \in todo THEN 1 ELSE 0)

\* From the return of ext2_mount to the call of ext2_umount, and for as long
\* as power has failed in between, the primary superblock says that the volume
\* was not properly unmounted: "mount count and the fact that the filesystem
\* is currently mounted should be written to disk immediately".
UncleanMarked == inuse => super[PrimaryLba].s_state = "ERROR_FS"

\* The groups that hold a superblock copy in the ext2 format (small volumes).
CopyGroups == IF Sparse THEN Groups \cap {0, 1, 3, 5, 7, 9, 25, 27, 49} ELSE Groups

\* Outside ext2_flush_superblock every superblock copy of a mounted volume is
\* identical to the one at PrimaryLba, which the next ext2_mount reads, whatever
\* power failures hit the flushes of earlier mounts, and their free inode count
\* is the one in memory.
CopiesAgree ==
  phase \in {"idle", "linking", "initialising"} =>
    \A g \in CopyGroups :
      /\ super[SuperLba(g)] = super[PrimaryLba]
      /\ super[SuperLba(g)].s_free_inodes_count = ctx.s_free_inodes_count

\* The blocks a file uses: in its inode on the volume, if that was written,
\* and in its open handle.
Refs(n) ==
  ((IF names[n] > 0 THEN {itable[n]} ELSE {})
     \cup (IF fe[n].open THEN {fe[n].i_block} ELSE {})) \ {0}

\* The files whose inode has been written since its entry was: until then, and
\* for ever if power fails between the two, the inode is what its slot held
\* before.
Written == Inodes \ (halfmade \cup {n \in {newino} : phase = "initialising"})

\* No block belongs to two files or to a file and to the volume's own tables:
\* ext2_change_allocated "can't allocate an already allocated block".
PrivateBlocks ==
  \A n \in Written :
    /\ Refs(n) \subseteq DataBlocks
    /\ \A m \in Written \ {n} : Refs(n) \cap Refs(m) = {}

\* As long as no file was opened with O_TRUNC, blocks stay private although the
\* bitmap that is scanned and the sector where allocations are marked are two
\* different sectors: the scan proposes a block that ext2_change_allocated, in
\* its own sector, refuses the second time.
PrivateUntilTruncated == ~truncated => PrivateBlocks

\* ext2_change_allocated updates the bitmap: a block in use by an open file is
\* marked in the bitmap of its group.
AllocatedMarked == \A n \in Inodes : fe[n].open /\ fe[n].i_block # 0 => BlockMarked(fe[n].i_block)

\* The EIO branch of ext2_allocate_inode: "this should never happen because
\* we've already determined that there are free inodes in this block group".
\* It takes a group descriptor that counts inodes which are no longer free.
NeverEIO == result # "EIO"
=============================================================================
