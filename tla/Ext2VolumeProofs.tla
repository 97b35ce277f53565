-------------------------- MODULE Ext2VolumeProofs --------------------------
(***************************************************************************)
(* Theorems about Ext2Volume, for every geometry and every initial volume  *)
(* that satisfies its assumptions.                                         *)
(***************************************************************************)
EXTENDS Ext2Volume, FiniteSetTheorems, TLAPS

(***************************************************************************)
(* Arithmetic of block and inode numbers.                                  *)
(***************************************************************************)

\* Multiplication is monotonic.
LEMMA Monotonic ==
  ASSUME NEW k \in Nat, NEW a \in Int, NEW b \in Int, a <= b
  PROVE  k * a <= k * b
  OBVIOUS

\* Dividing undoes the numbering of block and inode bits.
LEMMA DivMod ==
  ASSUME NEW k \in Nat \ {0}, NEW g \in Nat, NEW r \in 0 .. k - 1
  PROVE  (k * g + r) \div k = g /\ (k * g + r) % k = r
  OBVIOUS

\* A number is made of its quotient and its remainder.
LEMMA DivModSplit ==
  ASSUME NEW k \in Nat \ {0}, NEW a \in Nat
  PROVE  a \div k \in Nat /\ a % k \in 0 .. k - 1 /\ k * (a \div k) + (a % k) = a
  OBVIOUS

\* A number below k * m has a quotient below m.
LEMMA DivBelow ==
  ASSUME NEW k \in Nat \ {0}, NEW a \in Nat, NEW m \in Nat, a < k * m
  PROVE  a \div k < m
  OBVIOUS

\* There is at least one group, and group 0 holds a superblock copy.
LEMMA FirstGroup == num_blockgroups \in Nat \ {0} /\ 0 \in SuperGroups
<1>. DEFINE q == BlocksCount \div BlocksPerGroup
            m == BlocksCount % BlocksPerGroup
<1>1. q \in Nat /\ m \in Nat /\ BlocksPerGroup * q + m = BlocksCount
  BY DivModSplit, GeometryAssumption
<1>2. q # 0 \/ m # 0
  BY <1>1, GeometryAssumption
<1>3. num_blockgroups = q + (IF m # 0 THEN 1 ELSE 0)
  BY DEF num_blockgroups
<1>. HIDE DEF q, m
<1>4. num_blockgroups \in Nat \ {0}
  BY <1>1, <1>2, <1>3
<1>5. 0 \in Groups
  BY <1>4 DEF Groups
<1>. QED
  BY <1>4, <1>5 DEF SuperGroups

\* A block of the volume is in one of its groups.
LEMMA VolumeBlockGroup ==
  ASSUME NEW b \in 0 .. BlocksCount - 1
  PROVE  b \div BlocksPerGroup \in Groups /\ b \in Blocks
  BY GeometryAssumption, FirstGroup DEF num_blockgroups, Groups, Blocks

\* The inode number computed from a bit of a group's bitmap is one of the
\* volume's, and the format keeps that inode in that bit.
LEMMA NewInodeBit ==
  ASSUME NEW g \in Groups, NEW off \in Scan(InodesPerGroup)
  PROVE  /\ off \in 0 .. InodesPerGroup - 1
         /\ NewInode(g, off) \in Inodes
         /\ NewInode(g, off) # 0
         /\ (NewInode(g, off) - 1) \div InodesPerGroup = g
         /\ (NewInode(g, off) - 1) % InodesPerGroup = off
<1>1. off \in 0 .. InodesPerGroup - 1
  BY GeometryAssumption DEF Scan
<1>2. g \in Nat /\ g + 1 <= num_blockgroups
  BY FirstGroup DEF Groups
<1>3. InodesPerGroup * (g + 1) <= InodesPerGroup * num_blockgroups
  BY <1>2, Monotonic, GeometryAssumption, FirstGroup
<1>4. NewInode(g, off) \in Inodes /\ NewInode(g, off) # 0
  BY <1>1, <1>2, <1>3, GeometryAssumption, FirstGroup DEF NewInode, Inodes
<1>5. NewInode(g, off) - 1 = InodesPerGroup * g + off
  BY <1>1, <1>2, GeometryAssumption DEF NewInode
<1>. QED
  BY <1>1, <1>2, <1>4, <1>5, DivMod, GeometryAssumption

\* The block number computed from a bit of a group's bitmap is that of the
\* 1 KiB format, and lies in a group unless the bit is the last of all.
LEMMA AllocatedBlockBit ==
  ASSUME NEW g \in Groups, NEW off \in Scan(BlocksPerGroup)
  PROVE  /\ off \in 0 .. BlocksPerGroup - 1
         /\ AllocatedBlock(g, off) \in Blocks
         /\ AllocatedBlock(g, off) # 0
         /\ (AllocatedBlock(g, off) - 1) \div BlocksPerGroup = g
         /\ (AllocatedBlock(g, off) - 1) % BlocksPerGroup = off
         /\ \/ AllocatedBlock(g, off) \div BlocksPerGroup \in Groups
            \/ g = num_blockgroups - 1 /\ off = BlocksPerGroup - 1
<1>1. off \in 0 .. BlocksPerGroup - 1
  BY GeometryAssumption DEF Scan
<1>2. g \in Nat /\ g + 1 <= num_blockgroups
  BY FirstGroup DEF Groups
<1>3. BlocksPerGroup * (g + 1) <= BlocksPerGroup * num_blockgroups
  BY <1>2, Monotonic, GeometryAssumption, FirstGroup
<1>4. AllocatedBlock(g, off) \in Blocks /\ AllocatedBlock(g, off) # 0
  BY <1>1, <1>2, <1>3, GeometryAssumption, FirstGroup DEF AllocatedBlock, Blocks
<1>5. AllocatedBlock(g, off) - 1 = BlocksPerGroup * g + off
  BY <1>1, <1>2, GeometryAssumption DEF AllocatedBlock
<1>6. CASE off < BlocksPerGroup - 1
  <2>1. AllocatedBlock(g, off) = BlocksPerGroup * g + (off + 1)
    BY <1>1, <1>2, GeometryAssumption DEF AllocatedBlock
  <2>2. off + 1 \in 0 .. BlocksPerGroup - 1
    BY <1>1, <1>6, GeometryAssumption
  <2>3. AllocatedBlock(g, off) \div BlocksPerGroup = g
    BY <1>2, <2>1, <2>2, DivMod, GeometryAssumption
  <2>. QED
    BY <1>1, <1>2, <1>4, <1>5, <2>3, DivMod, GeometryAssumption
<1>7. CASE off = BlocksPerGroup - 1 /\ g < num_blockgroups - 1
  <2>1. AllocatedBlock(g, off) = BlocksPerGroup * (g + 1) + 0
    BY <1>1, <1>2, <1>7, GeometryAssumption DEF AllocatedBlock
  <2>2. AllocatedBlock(g, off) \div BlocksPerGroup = g + 1
    BY <1>1, <1>2, <2>1, DivMod, GeometryAssumption
  <2>3. AllocatedBlock(g, off) \div BlocksPerGroup \in Groups
    BY <1>2, <1>7, <2>2, FirstGroup DEF Groups
  <2>. QED
    BY <1>1, <1>2, <1>4, <1>5, <2>3, DivMod, GeometryAssumption
<1>. QED
  BY <1>1, <1>2, <1>4, <1>5, <1>6, <1>7, DivMod, GeometryAssumption, FirstGroup

(***************************************************************************)
(* Type correctness.                                                       *)
(***************************************************************************)

\* ext2_change_allocated changes bits of the volume only.
LEMMA ChangeAllocatedType ==
  ASSUME NEW b \in Blocks, NEW allocated \in BOOLEAN, disk \subseteq Bits,
         NEW out \in ext2_change_allocated(b, allocated)
  PROVE  out.ok \in BOOLEAN /\ out.disk \subseteq Bits
<1>1. ChangeTargets(b) \subseteq Bits
  BY BitmapAssumption, GeometryAssumption DEF ChangeTargets, ChangeBits, Blocks
<1>2. PICK p \in ChangeTargets(b) :
        out = IF (p \in disk) = allocated
              THEN [ok |-> FALSE, disk |-> disk]
              ELSE [ok |-> TRUE,
                    disk |-> IF allocated THEN disk \cup {p} ELSE disk \ {p}]
  BY DEF ext2_change_allocated
<1>3. CASE (p \in disk) = allocated
  BY <1>2, <1>3
<1>4. CASE (p \in disk) # allocated
  <2>1. out = [ok |-> TRUE,
               disk |-> IF allocated THEN disk \cup {p} ELSE disk \ {p}]
    BY <1>2, <1>4
  <2>. QED
    BY <1>1, <2>1
<1>. QED
  BY <1>3, <1>4

\* The initial volumes have the types.
LEMMA TypeInit == Init => TypeOK
<1>. SUFFICES ASSUME Init PROVE TypeOK
  OBVIOUS
<1>. USE GeometryAssumption, FirstGroup
<1>1. PICK fb \in FreeBlockSets, fi \in FreeInodeSets, stray \in StraySets :
        FreshVolume(fb, fi, stray)
  BY DEF Init
<1>2. IsFiniteSet(fb) /\ IsFiniteSet(fi)
  <2>1. fb \subseteq 0 .. BlocksCount - 1
    <3>1. DataBlocks \subseteq 0 .. BlocksCount - 1
      BY InitialAssumption DEF superblock_block
    <3>. QED
      BY <3>1, InitialAssumption
  <2>2. fi \subseteq 1 .. num_blockgroups * InodesPerGroup
    BY InitialAssumption DEF Inodes
  <2>. QED
    <3>1. /\ IsFiniteSet(0 .. BlocksCount - 1)
          /\ IsFiniteSet(1 .. num_blockgroups * InodesPerGroup)
      BY FS_Interval
    <3>. QED
      BY <2>1, <2>2, <3>1, FS_Subset
<1>3. Cardinality(fb) \in 0 .. CountMod - 1 /\ Cardinality(fi) \in 0 .. CountMod - 1
  BY <1>2, FS_CardinalityType, InitialAssumption
<1>4. disk \subseteq Bits
  BY <1>1, BitmapAssumption, InitialAssumption DEF FreshVolume, BlockBits, InodeBits
<1>5. super \in [SuperLbas -> SuperRecord]
  BY <1>1, <1>3 DEF FreshVolume, SuperRecord, NoContext
<1>6. desc \in [Groups -> [bg_free_blocks_count : Nat, bg_free_inodes_count : Nat]]
  <2>1. ASSUME NEW g \in Groups
        PROVE  /\ Cardinality({b \in fb :
                     (b - superblock_block) \div BlocksPerGroup = g}) \in Nat
               /\ Cardinality({n \in fi : (n - 1) \div InodesPerGroup = g}) \in Nat
    BY <1>2, FS_Subset, FS_CardinalityType
  <2>. QED
    BY <1>1, <2>1 DEF FreshVolume
<1>7. itable \in [Inodes -> Blocks]
  BY InitialAssumption, VolumeBlockGroup DEF Init
<1>8. ctx \in SuperRecord
  BY DEF Init, SuperRecord, NoContext
<1>9. fe \in [Inodes -> [open : BOOLEAN, i_block : Blocks, fs_dirty : BOOLEAN]]
  BY DEF Init, NoFile, Blocks
<1>10. /\ names \in [Inodes -> Nat]
       /\ phase \in Phases
       /\ todo \subseteq SuperGroups
       /\ (phase \in Flushing) <=> (todo # {})
       /\ newino \in Inodes \cup {0}
       /\ (phase \in Creating) <=> (newino # 0)
       /\ result \in {"ok", "ENOSPC", "EIO", "ENOENT", "fail"}
  BY DEF Init, Phases, Flushing, Creating
<1>11. /\ torn \in 0 .. crashes
       /\ halfmade \subseteq Inodes
       /\ crashes \in 0 .. MaxCrashes
  BY DEF Init
<1>12. inuse \in BOOLEAN /\ truncated \in BOOLEAN
  BY DEF Init
<1>. QED
  BY <1>4, <1>5, <1>6, <1>7, <1>8, <1>9, <1>10, <1>11, <1>12 DEF TypeOK

\* Mounting counts within the bound.
LEMMA MountedType ==
  ASSUME NEW sb \in SuperRecord, sb.s_mnt_count < MaxMounts
  PROVE  MountedSuper(sb) \in SuperRecord
<1>. DEFINE counted == [sb EXCEPT !.s_mnt_count = @ + 1]
<1>1. counted \in SuperRecord
  BY GeometryAssumption DEF SuperRecord
<1>2. MountedSuper(sb) = [counted EXCEPT !.s_state = "ERROR_FS"]
  BY DEF MountedSuper
<1>. HIDE DEF counted
<1>. QED
  BY <1>1, <1>2 DEF SuperRecord

\* Every step keeps the types.
LEMMA TypeNext == TypeOK /\ [Next]_vars => TypeOK'
<1>. SUFFICES ASSUME TypeOK, [Next]_vars PROVE TypeOK'
  OBVIOUS
<1>. USE GeometryAssumption DEF TypeOK
<1>1. PrimaryLba \in SuperLbas
  BY DEF SuperLbas
<1>2. ASSUME ext2_mount PROVE TypeOK'
  <2>1. ctx' \in SuperRecord
    <3>1. super[PrimaryLba] \in SuperRecord /\ super[PrimaryLba].s_mnt_count < MaxMounts
      BY <1>1, <1>2 DEF ext2_mount
    <3>. QED
      BY <1>2, <3>1, MountedType DEF ext2_mount
  <2>. QED
    BY <1>2, <2>1, FirstGroup DEF ext2_mount, hist, Phases, Flushing, Creating
<1>3. ASSUME ext2_umount PROVE TypeOK'
  <2>1. ctx' \in SuperRecord
    BY <1>3 DEF ext2_umount, SuperRecord
  <2>. QED
    BY <1>3, <2>1, FirstGroup DEF ext2_umount, Phases, Flushing, Creating
<1>4. ASSUME ext2_flush_superblock PROVE TypeOK'
  <2>1. phase \in Flushing /\ todo' \subseteq SuperGroups
    BY <1>4 DEF ext2_flush_superblock
  <2>2. super' \in [SuperLbas -> SuperRecord]
    BY <1>4 DEF ext2_flush_superblock
  <2>3. ctx' \in SuperRecord
    BY <1>4 DEF ext2_flush_superblock, SuperRecord, NoContext
  <2>4. /\ phase' \in Phases
        /\ (phase' \in Flushing) <=> (todo' # {})
        /\ (phase' \in Creating) <=> (phase \in Creating)
    BY <1>4, <2>1 DEF ext2_flush_superblock, Flushed, Phases, Flushing, Creating
  <2>5. inuse' \in BOOLEAN
    BY <1>4 DEF ext2_flush_superblock
  <2>. QED
    BY <1>4, <2>1, <2>2, <2>3, <2>4, <2>5 DEF ext2_flush_superblock
<1>5. ASSUME AllocateInodeFails PROVE TypeOK'
  BY <1>5 DEF AllocateInodeFails, hist
<1>6. ASSUME ext2_allocate_inode PROVE TypeOK'
  <2>1. PICK g \in Groups, off \in Scan(InodesPerGroup) :
          /\ newino' = NewInode(g, off)
          /\ disk' = StoreInodeBit(g, off)
          /\ desc' = desc
    BY <1>6 DEF ext2_allocate_inode, ext2_write_bg_descriptor
  <2>2. disk' \subseteq Bits
    BY <2>1, NewInodeBit, BitmapAssumption DEF StoreInodeBit, InodeBits
  <2>3. newino' \in Inodes /\ newino' # 0
    BY <2>1, NewInodeBit
  <2>4. ctx' \in SuperRecord
    BY <1>6 DEF ext2_allocate_inode, SuperRecord
  <2>. QED
    BY <1>6, <2>1, <2>2, <2>3, <2>4, FirstGroup
    DEF ext2_allocate_inode, hist, Phases, Flushing, Creating
<1>7. ASSUME AppendToDirectory PROVE TypeOK'
  <2>1. names' \in [Inodes -> Nat]
    BY <1>7 DEF AppendToDirectory, Creating
  <2>. QED
    BY <1>7, <2>1 DEF AppendToDirectory, hist, Phases, Flushing, Creating
<1>8. ASSUME InitialiseInode PROVE TypeOK'
  <2>1. newino \in Inodes /\ 0 \in Blocks
    BY <1>8, FirstGroup DEF InitialiseInode, Creating, Blocks
  <2>2. itable' \in [Inodes -> Blocks]
    BY <1>8, <2>1 DEF InitialiseInode
  <2>3. fe' \in [Inodes -> [open : BOOLEAN, i_block : Blocks, fs_dirty : BOOLEAN]]
    BY <1>8, <2>1 DEF InitialiseInode, NoFile
  <2>. QED
    BY <1>8, <2>2, <2>3 DEF InitialiseInode, hist, Phases, Flushing, Creating
<1>9. ASSUME NEW n \in Inodes, AllocateBlockFails(n) PROVE TypeOK'
  BY <1>9 DEF AllocateBlockFails, hist
<1>10. ASSUME NEW n \in Inodes, ext2_allocate_block(n) PROVE TypeOK'
  <2>1. PICK g \in Groups, off \in Scan(BlocksPerGroup) :
        \E out \in ext2_change_allocated(AllocatedBlock(g, off), TRUE) :
          /\ disk' = out.disk
          /\ \/ /\ result' = "ok"
                /\ fe' = [fe EXCEPT ![n] = [open |-> TRUE, i_block |-> AllocatedBlock(g, off),
                                            fs_dirty |-> TRUE]]
                /\ ctx' = [ctx EXCEPT !.s_free_blocks_count = (@ - 1) % CountMod]
             \/ result' = "fail" /\ fe' = fe /\ ctx' = ctx
    BY <1>10 DEF ext2_allocate_block
  <2>2. disk' \subseteq Bits
    BY <2>1, AllocatedBlockBit, ChangeAllocatedType
  <2>3. fe' \in [Inodes -> [open : BOOLEAN, i_block : Blocks, fs_dirty : BOOLEAN]]
    <3>1. AllocatedBlock(g, off) \in Blocks
      BY AllocatedBlockBit
    <3>. DEFINE f == [open |-> TRUE, i_block |-> AllocatedBlock(g, off), fs_dirty |-> TRUE]
    <3>2. f \in [open : BOOLEAN, i_block : Blocks, fs_dirty : BOOLEAN]
      BY <3>1
    <3>3. fe' = fe \/ fe' = [fe EXCEPT ![n] = f]
      BY <2>1
    <3>. HIDE DEF f
    <3>. QED
      BY <3>2, <3>3
  <2>4. ctx' \in SuperRecord
    <3>1. \/ ctx' = ctx
          \/ ctx' = [ctx EXCEPT !.s_free_blocks_count = (@ - 1) % CountMod]
      BY <2>1
    <3>. QED
      BY <3>1 DEF SuperRecord
  <2>5. result' \in {"ok", "fail"} /\ desc' = desc
    BY <2>1, <1>10 DEF ext2_allocate_block, ext2_write_bg_descriptor
  <2>. QED
    BY <1>10, <2>2, <2>3, <2>4, <2>5 DEF ext2_allocate_block, hist
<1>11. ASSUME NEW n \in Inodes, OpenFile(n) PROVE TypeOK'
  BY <1>11 DEF OpenFile, NoFile, hist
<1>12. ASSUME NEW n \in Inodes, OpenTruncate(n) PROVE TypeOK'
  <2>1. fe' \in [Inodes -> [open : BOOLEAN, i_block : Blocks, fs_dirty : BOOLEAN]]
    <3>1. fe' = [fe EXCEPT ![n] = [NoFile EXCEPT !.open = TRUE]] /\ 0 \in Blocks
      BY <1>12, FirstGroup DEF OpenTruncate, Blocks
    <3>. QED
      BY <3>1 DEF NoFile
  <2>2. \/ UNCHANGED <<disk, ctx>>
        \/ \E out \in ext2_change_allocated(itable[n], FALSE) :
             /\ disk' = out.disk
             /\ ctx' = IF out.ok
                       THEN [ctx EXCEPT !.s_free_blocks_count = (@ + 1) % CountMod]
                       ELSE ctx
    BY <1>12 DEF OpenTruncate
  <2>3. disk' \subseteq Bits /\ ctx' \in SuperRecord
    <3>1. CASE UNCHANGED <<disk, ctx>>
      BY <3>1
    <3>2. ASSUME NEW out \in ext2_change_allocated(itable[n], FALSE),
                 disk' = out.disk,
                 ctx' = IF out.ok
                        THEN [ctx EXCEPT !.s_free_blocks_count = (@ + 1) % CountMod]
                        ELSE ctx
          PROVE  disk' \subseteq Bits /\ ctx' \in SuperRecord
      <4>1. itable[n] \in Blocks
        OBVIOUS
      <4>2. disk' \subseteq Bits
        BY <3>2, <4>1, ChangeAllocatedType
      <4>3. ctx' \in SuperRecord
        BY <3>2 DEF SuperRecord
      <4>. QED
        BY <4>2, <4>3
    <3>. QED
      BY <2>2, <3>1, <3>2
  <2>. QED
    BY <1>12, <2>1, <2>2, <2>3 DEF OpenTruncate, hist
<1>13. ASSUME NEW n \in Inodes, AccessFile(n) PROVE TypeOK'
  <2>1. disk' \subseteq Bits
    BY <1>13, BitmapAssumption DEF AccessFile, DataBits
  <2>. QED
    BY <1>13, <2>1 DEF AccessFile, hist
<1>14. ASSUME NEW n \in Inodes, ext2_close(n) PROVE TypeOK'
  <2>1. fe' \in [Inodes -> [open : BOOLEAN, i_block : Blocks, fs_dirty : BOOLEAN]]
    BY <1>14, FirstGroup DEF ext2_close, NoFile, Blocks
  <2>. QED
    BY <1>14, <2>1 DEF ext2_close, hist
<1>15. ASSUME Crash PROVE TypeOK'
  <2>1. fe' \in [Inodes -> [open : BOOLEAN, i_block : Blocks, fs_dirty : BOOLEAN]]
    BY <1>15, FirstGroup DEF Crash, NoFile, Blocks
  <2>2. ctx' \in SuperRecord
    BY <1>15 DEF Crash, NoContext, SuperRecord
  <2>3. /\ torn' \in 0 .. crashes' /\ crashes' \in 0 .. MaxCrashes
        /\ halfmade' \subseteq Inodes
    BY <1>15 DEF Crash, Creating
  <2>. QED
    BY <1>15, <2>1, <2>2, <2>3 DEF Crash, Phases, Flushing, Creating
<1>16. CASE UNCHANGED vars
  BY <1>16 DEF vars, mem, hist
<1>. QED
  BY <1>2, <1>3, <1>4, <1>5, <1>6, <1>7, <1>8, <1>9, <1>10, <1>11, <1>12,
     <1>13, <1>14, <1>15, <1>16 DEF Next

\* Type correctness of the volume, its driver context and its handles.
THEOREM VolumeTypes == Spec => []TypeOK
  BY TypeInit, TypeNext, PTL DEF Spec

(***************************************************************************)
(* The bitmaps.  With 1 KiB blocks, and on volumes where the sectors that  *)
(* ext2_change_allocated takes for block bitmaps hold neither a bitmap nor *)
(* file data, the block bitmaps never change and inode bits are never      *)
(* cleared.  The last bit of the last block bitmap stands for no block and *)
(* stays set, so no block number leaves the volume's groups.               *)
(***************************************************************************)

OneKiB == SectorsPerBlock = 2

StrayApart == ChangeBits \cap (BlockBits \cup InodeBits \cup DataBits) = {}

InGroups(b) == b \div BlocksPerGroup \in Groups

Pointers ==
  /\ \A n \in Inodes : InGroups(itable[n]) /\ InGroups(fe[n].i_block)
  /\ BlockBit(num_blockgroups - 1, BlocksPerGroup - 1) \in disk

\* Block 0, which stands for no block, is in group 0.
LEMMA ZeroInGroups == InGroups(0) /\ 0 \in Blocks
  BY VolumeBlockGroup, GeometryAssumption DEF InGroups

\* What ext2_change_allocated does to a block of the volume's groups: at most
\* one bit changes, in the sector it takes for the bitmap.
LEMMA ChangeAllocatedEffect ==
  ASSUME NEW b \in Blocks, InGroups(b), NEW allocated \in BOOLEAN,
         NEW out \in ext2_change_allocated(b, allocated)
  PROVE  LET p == ChangeBit(b \div BlocksPerGroup, b % BlocksPerGroup)
         IN  /\ p \in ChangeBits
             /\ out.disk \in {disk, disk \cup {p}, disk \ {p}}
             /\ allocated => /\ disk \subseteq out.disk
                             /\ out.ok => p \notin disk /\ p \in out.disk
<1>. DEFINE p == ChangeBit(b \div BlocksPerGroup, b % BlocksPerGroup)
<1>1. ChangeTargets(b) = {p}
  BY DEF ChangeTargets, InGroups
<1>2. p \in ChangeBits
  <2>1. b % BlocksPerGroup \in 0 .. BlocksPerGroup - 1
    BY GeometryAssumption DEF Blocks
  <2>. QED
    BY <2>1 DEF ChangeBits, InGroups
<1>. HIDE DEF p
<1>3. out = IF (p \in disk) = allocated
            THEN [ok |-> FALSE, disk |-> disk]
            ELSE [ok |-> TRUE,
                  disk |-> IF allocated THEN disk \cup {p} ELSE disk \ {p}]
  BY <1>1 DEF ext2_change_allocated
<1>4. CASE (p \in disk) = allocated
  <2>1. out = [ok |-> FALSE, disk |-> disk]
    BY <1>3, <1>4
  <2>2. ~out.ok /\ out.disk = disk
    BY <2>1
  <2>. QED
    BY <1>2, <2>2 DEF p
<1>5. CASE (p \in disk) # allocated
  <2>1. out = [ok |-> TRUE, disk |-> IF allocated THEN disk \cup {p} ELSE disk \ {p}]
    BY <1>3, <1>5
  <2>2. out.disk = IF allocated THEN disk \cup {p} ELSE disk \ {p}
    BY <2>1
  <2>3. allocated => p \notin disk
    BY <1>5
  <2>. QED
    BY <1>2, <2>2, <2>3 DEF p
<1>. QED
  BY <1>4, <1>5

\* The bit the format gives to an inode is one of the inode bitmaps'.
LEMMA InodeBitOf ==
  ASSUME NEW n \in Inodes
  PROVE  /\ (n - 1) \div InodesPerGroup \in Groups
         /\ (n - 1) % InodesPerGroup \in 0 .. InodesPerGroup - 1
         /\ InodesPerGroup * ((n - 1) \div InodesPerGroup)
               + ((n - 1) % InodesPerGroup) + 1 = n
         /\ InodeBit((n - 1) \div InodesPerGroup, (n - 1) % InodesPerGroup) \in InodeBits
<1>1. n - 1 \in Nat /\ n - 1 < InodesPerGroup * num_blockgroups
  BY FirstGroup, GeometryAssumption DEF Inodes
<1>2. /\ (n - 1) \div InodesPerGroup \in Nat
      /\ (n - 1) % InodesPerGroup \in 0 .. InodesPerGroup - 1
      /\ InodesPerGroup * ((n - 1) \div InodesPerGroup) + ((n - 1) % InodesPerGroup) = n - 1
  BY <1>1, GeometryAssumption, DivModSplit
<1>3. (n - 1) \div InodesPerGroup < num_blockgroups
  BY <1>1, DivBelow, FirstGroup, GeometryAssumption
<1>4. (n - 1) \div InodesPerGroup \in Groups
  BY <1>2, <1>3, FirstGroup DEF Groups
<1>5. InodesPerGroup * ((n - 1) \div InodesPerGroup) + ((n - 1) % InodesPerGroup) + 1 = n
  BY <1>2, GeometryAssumption DEF Inodes
<1>6. InodeBit((n - 1) \div InodesPerGroup, (n - 1) % InodesPerGroup) \in InodeBits
  BY <1>2, <1>4 DEF InodeBits
<1>. QED
  BY <1>2, <1>4, <1>5, <1>6

\* Every step keeps the block bitmaps as they are, keeps the inode bits that
\* are set and, unless it allocates an inode, those that are not; without
\* truncation the bits ext2_change_allocated has set stay set.
LEMMA BitmapsKept ==
  ASSUME TypeOK, Pointers, OneKiB, StrayApart, [Next]_vars
  PROVE  /\ \A p \in BlockBits : p \in disk' <=> p \in disk
         /\ \A p \in InodeBits : p \in disk => p \in disk'
         /\ ext2_allocate_inode \/ \A p \in InodeBits : p \in disk' => p \in disk
         /\ ~truncated' => ChangeBits \cap disk \subseteq disk'
<1>. DEFINE Kept == /\ \A p \in BlockBits : p \in disk' <=> p \in disk
                    /\ \A p \in InodeBits : p \in disk => p \in disk'
                    /\ ext2_allocate_inode \/ \A p \in InodeBits : p \in disk' => p \in disk
                    /\ ~truncated' => ChangeBits \cap disk \subseteq disk'
<1>1. CASE disk' = disk
  BY <1>1
<1>2. CASE ext2_allocate_inode
  <2>1. PICK g \in Groups, off \in Scan(InodesPerGroup) : disk' = disk \cup {InodeBit(g, off)}
    BY <1>2 DEF ext2_allocate_inode, StoreInodeBit
  <2>2. InodeBit(g, off) \in InodeBits
    BY NewInodeBit DEF InodeBits
  <2>. QED
    BY <1>2, <2>1, <2>2, BitmapAssumption
<1>3. ASSUME NEW n \in Inodes, ext2_allocate_block(n) PROVE Kept
  <2>1. PICK g \in Groups, off \in Scan(BlocksPerGroup) :
          /\ BlockBit(g, off) \notin disk
          /\ \E out \in ext2_change_allocated(AllocatedBlock(g, off), TRUE) : disk' = out.disk
    BY <1>3 DEF ext2_allocate_block
  <2>2. AllocatedBlock(g, off) \in Blocks /\ InGroups(AllocatedBlock(g, off))
    BY <2>1, AllocatedBlockBit DEF Pointers, InGroups
  <2>3. PICK p \in ChangeBits : disk' \in {disk, disk \cup {p}, disk \ {p}} /\ disk \subseteq disk'
    BY <2>1, <2>2, ChangeAllocatedEffect
  <2>. QED
    BY <2>3 DEF StrayApart
<1>4. ASSUME NEW n \in Inodes, OpenTruncate(n) PROVE Kept
  <2>1. itable[n] \in Blocks /\ InGroups(itable[n]) /\ truncated'
    BY <1>4 DEF Pointers, TypeOK, OpenTruncate
  <2>2. \/ disk' = disk
        \/ \E out \in ext2_change_allocated(itable[n], FALSE) : disk' = out.disk
    BY <1>4 DEF OpenTruncate
  <2>3. disk' = disk \/ \E p \in ChangeBits : disk' \in {disk, disk \cup {p}, disk \ {p}}
    BY <2>1, <2>2, ChangeAllocatedEffect
  <2>. QED
    BY <2>1, <2>3 DEF StrayApart
<1>5. ASSUME NEW n \in Inodes, AccessFile(n) PROVE Kept
  <2>1. disk' = disk \/ \E lba \in DataSectors :
                         disk' \in {disk \ SectorBits(lba), disk \cup SectorBits(lba)}
    BY <1>5 DEF AccessFile
  <2>2. \A lba \in DataSectors : SectorBits(lba) \subseteq DataBits
    BY DEF DataBits
  <2>. QED
    BY <2>1, <2>2, BitmapAssumption DEF StrayApart
<1>6. CASE disk' # disk
  <2>1. \/ ext2_allocate_inode
        \/ \E n \in Inodes : ext2_allocate_block(n) \/ OpenTruncate(n) \/ AccessFile(n)
    BY <1>6 DEF Next, vars, ext2_mount, ext2_umount, ext2_flush_superblock,
                AllocateInodeFails, AppendToDirectory, InitialiseInode,
                AllocateBlockFails, OpenFile, ext2_close, Crash
  <2>. QED
    BY <2>1, <1>2, <1>3, <1>4, <1>5
<1>. QED
  BY <1>1, <1>6

\* The groups cover the volume.
LEMMA GroupsCover == BlocksCount <= num_blockgroups * BlocksPerGroup
<1>1. /\ BlocksCount \div BlocksPerGroup \in Nat
      /\ BlocksCount % BlocksPerGroup \in 0 .. BlocksPerGroup - 1
      /\ BlocksPerGroup * (BlocksCount \div BlocksPerGroup)
           + (BlocksCount % BlocksPerGroup) = BlocksCount
  BY DivModSplit, GeometryAssumption
<1>2. CASE BlocksCount % BlocksPerGroup = 0
  BY <1>1, <1>2, GeometryAssumption DEF num_blockgroups
<1>3. CASE BlocksCount % BlocksPerGroup # 0
  BY <1>1, <1>3, GeometryAssumption DEF num_blockgroups
<1>. QED
  BY <1>2, <1>3

\* The pointers of the initial volumes are within the groups.
LEMMA PointersInit == ASSUME OneKiB PROVE Init => Pointers
<1>. SUFFICES ASSUME Init PROVE Pointers
  OBVIOUS
<1>1. \A n \in Inodes : InGroups(itable[n])
  BY InitialAssumption, VolumeBlockGroup DEF Init, InGroups
<1>2. \A n \in Inodes : InGroups(fe[n].i_block)
  BY ZeroInGroups DEF Init, NoFile
<1>3. PICK fb \in FreeBlockSets, fi \in FreeInodeSets, stray \in StraySets :
        FreshVolume(fb, fi, stray)
  BY DEF Init
<1>4. FormatBlock(num_blockgroups - 1, BlocksPerGroup - 1) = num_blockgroups * BlocksPerGroup
  BY FirstGroup, GeometryAssumption DEF FormatBlock, superblock_block, OneKiB
<1>5. FormatBlock(num_blockgroups - 1, BlocksPerGroup - 1) \notin fb
  <2>1. fb \subseteq 0 .. BlocksCount - 1
    <3>1. DataBlocks \subseteq 0 .. BlocksCount - 1
      BY InitialAssumption, GeometryAssumption DEF superblock_block
    <3>. QED
      BY <3>1, InitialAssumption
  <2>. QED
    BY <1>4, <2>1, GroupsCover, GeometryAssumption, FirstGroup
<1>6. <<num_blockgroups - 1, BlocksPerGroup - 1>> \in Groups \X (0 .. BlocksPerGroup - 1)
  BY FirstGroup, GeometryAssumption DEF Groups
<1>7. BlockBit(num_blockgroups - 1, BlocksPerGroup - 1) \in disk
  BY <1>3, <1>5, <1>6 DEF FreshVolume
<1>. QED
  BY <1>1, <1>2, <1>7 DEF Pointers

\* No step makes an inode or a handle point outside the groups.
LEMMA PointersNext ==
  ASSUME OneKiB, StrayApart
  PROVE  TypeOK /\ Pointers /\ [Next]_vars => Pointers'
<1>. SUFFICES ASSUME TypeOK, Pointers, [Next]_vars PROVE Pointers'
  OBVIOUS
<1>1. BlockBit(num_blockgroups - 1, BlocksPerGroup - 1)' \in disk'
  <2>1. BlockBit(num_blockgroups - 1, BlocksPerGroup - 1) \in BlockBits
    BY FirstGroup, GeometryAssumption DEF BlockBits, Groups
  <2>. QED
    BY <2>1, BitmapsKept DEF Pointers
<1>. DEFINE Mapped == \A n \in Inodes : InGroups(itable[n]) /\ InGroups(fe[n].i_block)
<1>2. Mapped
  BY DEF Pointers
<1>4. ASSUME InitialiseInode PROVE Mapped'
  BY <1>2, <1>4, ZeroInGroups DEF InitialiseInode, InGroups, NoFile, TypeOK
<1>5. ASSUME NEW n \in Inodes, ext2_allocate_block(n) PROVE Mapped'
  <2>1. PICK g \in Groups, off \in Scan(BlocksPerGroup) :
          /\ BlockBit(g, off) \notin disk
          /\ \/ fe' = [fe EXCEPT ![n] = [open |-> TRUE, i_block |-> AllocatedBlock(g, off),
                                         fs_dirty |-> TRUE]]
             \/ fe' = fe
    BY <1>5 DEF ext2_allocate_block
  <2>2. InGroups(AllocatedBlock(g, off))
    BY <2>1, AllocatedBlockBit DEF Pointers, InGroups
  <2>3. itable' = itable
    BY <1>5 DEF ext2_allocate_block
  <2>. DEFINE f == [open |-> TRUE, i_block |-> AllocatedBlock(g, off), fs_dirty |-> TRUE]
  <2>4. InGroups(f.i_block)
    BY <2>2
  <2>5. fe' = fe \/ fe' = [fe EXCEPT ![n] = f]
    BY <2>1
  <2>. HIDE DEF f
  <2>. QED
    BY <1>2, <2>3, <2>4, <2>5 DEF TypeOK, InGroups
<1>6. ASSUME NEW n \in Inodes, OpenFile(n) PROVE Mapped'
  BY <1>2, <1>6 DEF OpenFile, InGroups, NoFile, TypeOK
<1>7. ASSUME NEW n \in Inodes, OpenTruncate(n) PROVE Mapped'
  BY <1>2, <1>7, ZeroInGroups DEF OpenTruncate, InGroups, NoFile, TypeOK
<1>8. ASSUME NEW n \in Inodes, AccessFile(n) PROVE Mapped'
  BY <1>2, <1>8 DEF AccessFile, InGroups, TypeOK
<1>9. ASSUME NEW n \in Inodes, ext2_close(n) PROVE Mapped'
  BY <1>2, <1>9, ZeroInGroups DEF ext2_close, InGroups, NoFile, TypeOK
<1>10. ASSUME Crash PROVE Mapped'
  BY <1>2, <1>10, ZeroInGroups DEF Crash, InGroups, NoFile, TypeOK
<1>11. Mapped'
  <2>1. CASE itable' = itable /\ fe' = fe
    BY <1>2, <2>1 DEF InGroups
  <2>2. CASE ~(itable' = itable /\ fe' = fe)
    <3>1. \/ InitialiseInode \/ Crash
          \/ \E n \in Inodes : \/ ext2_allocate_block(n) \/ OpenFile(n)
                               \/ OpenTruncate(n) \/ AccessFile(n) \/ ext2_close(n)
      BY <2>2 DEF Next, vars, mem, ext2_mount, ext2_umount, ext2_flush_superblock,
                  AllocateInodeFails, ext2_allocate_inode, AppendToDirectory,
                  AllocateBlockFails
    <3>. QED
      BY <3>1, <1>4, <1>5, <1>6, <1>7, <1>8, <1>9, <1>10
  <2>. QED
    BY <2>1, <2>2
<1>. QED
  BY <1>1, <1>11 DEF Pointers

(***************************************************************************)
(* Directory entries and inodes.                                           *)
(***************************************************************************)

\* The inode being created is marked already, and not yet named until its
\* entry is written.
EntriesInv ==
  /\ EntriesSound
  /\ phase \in Creating => InodeMarked(newino)
  /\ phase \in {"allocating", "linking"} => names[newino] = 0

\* The entries of the initial volumes name allocated inodes.
LEMMA EntriesInit == Init => EntriesInv
<1>. SUFFICES ASSUME Init PROVE EntriesInv
  OBVIOUS
<1>1. PICK fb \in FreeBlockSets, fi \in FreeInodeSets, stray \in StraySets :
        FreshVolume(fb, fi, stray)
  BY DEF Init
<1>2. ASSUME NEW n \in Inodes, names[n] > 0 PROVE InodeMarked(n) /\ names[n] = 1
  <2>1. n \in FirstFiles /\ names[n] = 1
    BY <1>2 DEF Init
  <2>2. n \notin fi
    BY <2>1, InitialAssumption
  <2>. DEFINE g   == (n - 1) \div InodesPerGroup
              off == (n - 1) % InodesPerGroup
  <2>3. <<g, off>> \in Groups \X (0 .. InodesPerGroup - 1) /\ FormatInode(g, off) = n
    BY InodeBitOf, GeometryAssumption, FirstGroup DEF FormatInode, Groups
  <2>. HIDE DEF g, off
  <2>4. InodeBit(g, off) \in disk
    BY <1>1, <2>2, <2>3 DEF FreshVolume
  <2>. QED
    BY <2>1, <2>4 DEF InodeMarked, g, off
<1>. QED
  BY <1>2 DEF Init, EntriesInv, EntriesSound, Creating

\* Every step keeps the entries sound: the inode being created has its bit set
\* and no name before ext2_append_to_directory gives it one.
LEMMA EntriesNext ==
  ASSUME OneKiB, StrayApart
  PROVE  TypeOK /\ Pointers /\ EntriesInv /\ [Next]_vars => EntriesInv'
<1>. SUFFICES ASSUME TypeOK, Pointers, EntriesInv, [Next]_vars PROVE EntriesInv'
  OBVIOUS
<1>1. \A n \in Inodes : InodeMarked(n) => InodeMarked(n)'
  BY BitmapsKept, InodeBitOf DEF InodeMarked
<1>2. CASE names' = names /\ phase' \notin Creating
  BY <1>1, <1>2 DEF EntriesInv, EntriesSound, Creating
<1>3. CASE names' = names /\ newino' = newino /\ phase \in Creating
           /\ (phase' \in {"allocating", "linking"} => phase \in {"allocating", "linking"})
  BY <1>1, <1>3 DEF EntriesInv, EntriesSound, Creating, TypeOK
<1>4. CASE ext2_allocate_inode
  <2>1. PICK g \in Groups, off \in Scan(InodesPerGroup) :
          /\ InodeBit(g, off) \notin disk
          /\ newino' = NewInode(g, off)
          /\ disk' = disk \cup {InodeBit(g, off)}
    BY <1>4 DEF ext2_allocate_inode, StoreInodeBit
  <2>2. /\ NewInode(g, off) \in Inodes
        /\ InodeMarked(NewInode(g, off)) <=> InodeBit(g, off) \in disk
        /\ InodeMarked(NewInode(g, off))' <=> InodeBit(g, off) \in disk'
    BY NewInodeBit DEF InodeMarked, NewInode
  <2>3. names[NewInode(g, off)] = 0
    BY <2>1, <2>2 DEF EntriesInv, EntriesSound, TypeOK
  <2>4. names' = names
    BY <1>4 DEF ext2_allocate_inode
  <2>5. InodeMarked(newino)'
    BY <2>1, <2>2 DEF InodeMarked
  <2>6. EntriesSound'
    BY <1>1, <2>4 DEF EntriesInv, EntriesSound
  <2>. QED
    BY <2>1, <2>3, <2>4, <2>5, <2>6 DEF EntriesInv
<1>5. CASE AppendToDirectory
  <2>1. newino \in Inodes /\ names[newino] = 0 /\ InodeMarked(newino)
    BY <1>5 DEF AppendToDirectory, EntriesInv, TypeOK, Creating
  <2>. QED
    BY <1>1, <1>5, <2>1 DEF AppendToDirectory, EntriesInv, EntriesSound, TypeOK, Creating
<1>6. CASE ext2_flush_superblock
  <2>1. phase \in Flushing
    BY <1>6 DEF ext2_flush_superblock, TypeOK
  <2>. QED
    BY <1>2, <1>3, <1>6, <2>1 DEF ext2_flush_superblock, Flushed, Flushing, Creating
<1>7. CASE UNCHANGED vars
  BY <1>2, <1>3, <1>7 DEF vars, mem
<1>8. CASE \/ ext2_mount \/ ext2_umount \/ AllocateInodeFails \/ InitialiseInode \/ Crash
           \/ \E n \in Inodes : \/ AllocateBlockFails(n) \/ ext2_allocate_block(n)
                                \/ OpenFile(n) \/ OpenTruncate(n)
                                \/ AccessFile(n) \/ ext2_close(n)
  <2>1. names' = names /\ phase' \notin Creating
    BY <1>8 DEF ext2_mount, ext2_umount, AllocateInodeFails, InitialiseInode, Crash,
                AllocateBlockFails, ext2_allocate_block, OpenFile, OpenTruncate,
                AccessFile, ext2_close, Creating
  <2>. QED
    BY <1>2, <2>1
<1>. QED
  BY <1>4, <1>5, <1>6, <1>7, <1>8 DEF Next

\* On every 1 KiB volume whose stray bitmap sectors hold nothing else, power
\* failures at any point of ext2_open leave no entry that names an inode which
\* is not allocated, and no inode is given to two names.
THEOREM VolumeEntries ==
  ASSUME OneKiB, StrayApart
  PROVE  Spec => []EntriesSound
<1>1. Init => TypeOK /\ Pointers /\ EntriesInv
  BY TypeInit, PointersInit, EntriesInit
<1>2. TypeOK /\ Pointers /\ EntriesInv /\ [Next]_vars => (TypeOK /\ Pointers /\ EntriesInv)'
  BY TypeNext, PointersNext, EntriesNext
<1>3. EntriesInv => EntriesSound
  BY DEF EntriesInv
<1>. QED
  BY <1>1, <1>2, <1>3, PTL DEF Spec

(***************************************************************************)
(* The mounted state.                                                      *)
(***************************************************************************)

\* The superblock in memory says ERROR_FS from the mount on, and the flush of
\* the mount reaches the primary copy before it ends.
UncleanInv ==
  /\ UncleanMarked
  /\ phase \in {"mounting", "idle"} \cup Creating => ctx.s_state = "ERROR_FS"
  /\ inuse => phase # "unmounting"
  /\ phase = "mounting" /\ 0 \notin todo => super[PrimaryLba].s_state = "ERROR_FS"

\* With 1 KiB blocks the first copy is the one ext2_mount reads.
LEMMA FirstCopyIsPrimary ==
  ASSUME OneKiB PROVE SuperLba(0) = PrimaryLba /\ PrimaryLba \in SuperLbas
  BY GeometryAssumption DEF OneKiB, SuperLba, PrimaryLba, superblock_block, SuperLbas

\* Every step keeps the mark of a volume in use.
LEMMA UncleanNext ==
  ASSUME OneKiB
  PROVE  TypeOK /\ UncleanInv /\ [Next]_vars => UncleanInv'
<1>. SUFFICES ASSUME TypeOK, UncleanInv, [Next]_vars PROVE UncleanInv'
  OBVIOUS
<1>1. CASE ext2_mount
  <2>1. super[PrimaryLba] \in SuperRecord
    BY FirstCopyIsPrimary DEF TypeOK
  <2>2. ctx'.s_state = "ERROR_FS"
    BY <1>1, <2>1 DEF ext2_mount, MountedSuper, SuperRecord
  <2>. QED
    BY <1>1, <2>2, FirstGroup DEF ext2_mount, hist, UncleanInv, UncleanMarked, Creating
<1>2. CASE ext2_umount
  BY <1>2 DEF ext2_umount, UncleanInv, UncleanMarked, Creating
<1>3. CASE ext2_flush_superblock
  <2>1. PICK g \in todo : /\ \A h \in todo : g <= h
                          /\ super' = [super EXCEPT ![SuperLba(g)] = ctx]
                          /\ todo' = todo \ {g}
    BY <1>3 DEF ext2_flush_superblock
  <2>2. phase \in Flushing /\ SuperLba(g) \in SuperLbas
    BY <2>1 DEF TypeOK, SuperLbas
  <2>3. \/ super'[PrimaryLba] = ctx
        \/ super'[PrimaryLba] = super[PrimaryLba] /\ g # 0
    BY <2>1, <2>2, FirstCopyIsPrimary DEF TypeOK
  <2>4. phase' \in {"mounting", "idle"} \cup Creating =>
          ctx' = ctx /\ phase \in {"mounting"} \cup Creating
    BY <1>3, <2>2 DEF ext2_flush_superblock, Flushing, Flushed, Creating
  <2>5. phase = "mounting" /\ 0 \notin todo' => super'[PrimaryLba].s_state = "ERROR_FS"
    BY <2>1, <2>3 DEF UncleanInv
  <2>6. inuse' => super'[PrimaryLba].s_state = "ERROR_FS"
    <3>1. CASE inuse
      <4>1. ctx.s_state = "ERROR_FS" /\ super[PrimaryLba].s_state = "ERROR_FS"
        BY <2>2, <3>1 DEF UncleanInv, UncleanMarked, Flushing, Creating
      <4>. QED
        BY <2>3, <4>1
    <3>2. CASE ~inuse
      BY <1>3, <2>5, <3>2 DEF ext2_flush_superblock
    <3>. QED
      BY <3>1, <3>2 DEF TypeOK
  <2>7. inuse' => phase' # "unmounting"
    BY <1>3, <2>2 DEF ext2_flush_superblock, Flushing, Flushed, UncleanInv
  <2>8. phase' = "mounting" => phase = "mounting"
    BY <1>3, <2>2 DEF ext2_flush_superblock, Flushing, Flushed
  <2>. QED
    BY <2>4, <2>5, <2>6, <2>7, <2>8 DEF UncleanInv, UncleanMarked
<1>4. CASE /\ super' = super /\ inuse' = inuse /\ ctx'.s_state = ctx.s_state
           /\ phase \in {"idle", "linking", "initialising"}
           /\ phase' \in {"idle", "allocating", "linking", "initialising"}
  BY <1>4 DEF UncleanInv, UncleanMarked, Creating
<1>5. ASSUME \/ AllocateInodeFails \/ AppendToDirectory \/ InitialiseInode
             \/ \E n \in Inodes : \/ AllocateBlockFails(n) \/ OpenFile(n)
                                  \/ AccessFile(n) \/ ext2_close(n)
      PROVE  UncleanInv'
  BY <1>4, <1>5 DEF AllocateInodeFails, AppendToDirectory, InitialiseInode,
                    AllocateBlockFails, OpenFile, AccessFile, ext2_close, hist
<1>6. ASSUME \/ ext2_allocate_inode
             \/ \E n \in Inodes : ext2_allocate_block(n) \/ OpenTruncate(n)
      PROVE  UncleanInv'
  <2>1. \/ ctx' = ctx
        \/ \E c : ctx' = [ctx EXCEPT !.s_free_blocks_count = c]
        \/ \E c : ctx' = [ctx EXCEPT !.s_free_inodes_count = c]
    BY <1>6 DEF ext2_allocate_inode, ext2_allocate_block, OpenTruncate
  <2>2. ctx'.s_state = ctx.s_state
    BY <2>1 DEF TypeOK, SuperRecord
  <2>3. /\ super' = super /\ inuse' = inuse
        /\ phase = "idle" /\ phase' \in {"idle", "allocating"}
    BY <1>6 DEF ext2_allocate_inode, ext2_allocate_block, OpenTruncate, hist
  <2>. QED
    BY <1>4, <2>2, <2>3
<1>7. CASE Crash
  BY <1>7 DEF Crash, UncleanInv, UncleanMarked, Creating
<1>8. CASE UNCHANGED vars
  BY <1>8 DEF vars, mem, hist, UncleanInv, UncleanMarked
<1>. QED
  BY <1>1, <1>2, <1>3, <1>5, <1>6, <1>7, <1>8 DEF Next

\* On every 1 KiB volume the primary superblock says from the return of
\* ext2_mount to ext2_umount, and after a power failure in between, that the
\* volume was not properly unmounted.
THEOREM VolumeUnclean ==
  ASSUME OneKiB
  PROVE  Spec => []UncleanMarked
<1>1. Init => TypeOK /\ UncleanInv
  BY TypeInit DEF Init, UncleanInv, UncleanMarked, Creating
<1>2. TypeOK /\ UncleanInv /\ [Next]_vars => (TypeOK /\ UncleanInv)'
  BY TypeNext, UncleanNext
<1>3. UncleanInv => UncleanMarked
  BY DEF UncleanInv
<1>. QED
  BY <1>1, <1>2, <1>3, PTL DEF Spec

(***************************************************************************)
(* The free inode count.                                                   *)
(***************************************************************************)

\* The count in memory is the one on the volume, except while it is on its way
\* there.
DriftInv ==
  /\ FreeInodesDrift
  /\ phase # "unmounted" => ctx.s_free_inodes_count = Cardinality(FreeInodes) + torn

\* Only the first copy is written over the primary superblock.
LEMMA OtherCopies ==
  ASSUME OneKiB, NEW g \in Groups, g # 0
  PROVE  SuperLba(g) # PrimaryLba
<1>1. g >= 1 /\ g \in Nat
  BY FirstGroup DEF Groups
<1>2. BlocksPerGroup * 1 <= BlocksPerGroup * g
  BY <1>1, Monotonic, GeometryAssumption
<1>3. SuperLba(g) = (BlocksPerGroup * g + 1) * 2
  BY <1>1, GeometryAssumption DEF SuperLba, superblock_block, OneKiB
<1>. QED
  BY <1>1, <1>2, <1>3, GeometryAssumption DEF PrimaryLba

\* The free inodes can be counted.
LEMMA FreeInodesFinite == IsFiniteSet(FreeInodes) /\ Cardinality(FreeInodes) \in Nat
<1>1. IsFiniteSet(Inodes)
  BY FS_Interval, FirstGroup, GeometryAssumption DEF Inodes
<1>2. FreeInodes \subseteq Inodes
  BY DEF FreeInodes
<1>. QED
  BY <1>1, <1>2, FS_Subset, FS_CardinalityType

\* The counts of the initial volumes are exact.
LEMMA DriftInit == ASSUME OneKiB PROVE Init => DriftInv
<1>. SUFFICES ASSUME Init PROVE DriftInv
  OBVIOUS
<1>1. PICK fb \in FreeBlockSets, fi \in FreeInodeSets, stray \in StraySets :
        FreshVolume(fb, fi, stray)
  BY DEF Init
<1>2. super[PrimaryLba].s_free_inodes_count = Cardinality(fi)
  BY <1>1, FirstCopyIsPrimary DEF FreshVolume
<1>3. FreeInodes = fi
  <2>1. ASSUME NEW n \in Inodes PROVE InodeMarked(n) <=> n \notin fi
    <3>. DEFINE g   == (n - 1) \div InodesPerGroup
                off == (n - 1) % InodesPerGroup
    <3>1. g \in Groups /\ off \in 0 .. InodesPerGroup - 1 /\ FormatInode(g, off) = n
      BY InodeBitOf, GeometryAssumption, FirstGroup DEF FormatInode, Groups
    <3>2. InodeMarked(n) <=> InodeBit(g, off) \in disk
      BY DEF InodeMarked
    <3>. HIDE DEF g, off
    <3>3. InodeBit(g, off) \in InodeBits
      BY <3>1 DEF InodeBits
    <3>4. InodeBit(g, off) \notin stray
      BY <3>3, InitialAssumption
    <3>5. \A x \in Groups \X (0 .. BlocksPerGroup - 1) : BlockBit(x[1], x[2]) # InodeBit(g, off)
      BY <3>3, BitmapAssumption DEF BlockBits
    <3>6. InodeBit(g, off) \in disk <=>
            \E x \in Groups \X (0 .. InodesPerGroup - 1) :
              FormatInode(x[1], x[2]) \notin fi /\ InodeBit(g, off) = InodeBit(x[1], x[2])
      BY <1>1, <3>4, <3>5 DEF FreshVolume
    <3>7. CASE n \notin fi
      <4>1. <<g, off>> \in Groups \X (0 .. InodesPerGroup - 1)
        BY <3>1
      <4>. QED
        BY <3>1, <3>2, <3>6, <3>7, <4>1
    <3>8. CASE n \in fi
      <4>1. \A x \in Groups \X (0 .. InodesPerGroup - 1) :
              InodeBit(g, off) = InodeBit(x[1], x[2]) => x[1] = g /\ x[2] = off
        BY <3>1, BitmapAssumption
      <4>. QED
        BY <3>1, <3>2, <3>6, <3>8, <4>1
    <3>. QED
      BY <3>7, <3>8
  <2>2. fi \subseteq Inodes
    BY InitialAssumption
  <2>. QED
    BY <2>1, <2>2 DEF FreeInodes
<1>4. Cardinality(fi) \in Nat
  BY <1>3, FreeInodesFinite
<1>. QED
  BY <1>2, <1>3, <1>4 DEF Init, DriftInv, FreeInodesDrift

\* Every step keeps the difference between the count and the bitmaps.
LEMMA DriftNext ==
  ASSUME OneKiB, StrayApart
  PROVE  TypeOK /\ Pointers /\ DriftInv /\ [Next]_vars => DriftInv'
<1>. SUFFICES ASSUME TypeOK, Pointers, DriftInv, [Next]_vars PROVE DriftInv'
  OBVIOUS
<1>. DEFINE free == Cardinality(FreeInodes)
            dsk  == super[PrimaryLba].s_free_inodes_count
            due  == IF phase = "allocating" /\ 0 \in todo THEN 1 ELSE 0
<1>1. /\ free \in Nat /\ torn \in Nat
      /\ dsk = free + torn + due
      /\ phase # "unmounted" => ctx.s_free_inodes_count = free + torn
  BY FreeInodesFinite DEF DriftInv, FreeInodesDrift, TypeOK
<1>2. ~ext2_allocate_inode => free' = free
  <2>1. SUFFICES ASSUME ~ext2_allocate_inode PROVE \A n \in Inodes : InodeMarked(n)' <=> InodeMarked(n)
    BY DEF FreeInodes
  <2>. QED
    BY <2>1, BitmapsKept, InodeBitOf DEF InodeMarked
<1>. HIDE DEF free
<1>3. CASE /\ free' = free /\ torn' = torn /\ super' = super
           /\ ctx'.s_free_inodes_count = ctx.s_free_inodes_count
           /\ phase # "unmounted" /\ phase' # "unmounted"
           /\ phase # "allocating" /\ phase' # "allocating"
  BY <1>1, <1>3 DEF DriftInv, FreeInodesDrift, free
<1>4. CASE ext2_mount
  <2>1. super[PrimaryLba] \in SuperRecord
    BY FirstCopyIsPrimary DEF TypeOK
  <2>2. ctx'.s_free_inodes_count = dsk
    BY <1>4, <2>1 DEF ext2_mount, MountedSuper, SuperRecord
  <2>3. free' = free /\ torn' = torn /\ super' = super /\ phase = "unmounted" /\ phase' = "mounting"
    BY <1>2, <1>4 DEF ext2_mount, ext2_allocate_inode, hist
  <2>. QED
    BY <1>1, <2>2, <2>3 DEF DriftInv, FreeInodesDrift, free
<1>5. CASE ext2_umount
  BY <1>2, <1>3, <1>5 DEF ext2_umount, ext2_allocate_inode, TypeOK, SuperRecord
<1>6. CASE ext2_flush_superblock
  <2>1. PICK g \in todo : /\ super' = [super EXCEPT ![SuperLba(g)] = ctx]
                          /\ todo' = todo \ {g}
    BY <1>6 DEF ext2_flush_superblock
  <2>2. phase \in Flushing /\ SuperLba(g) \in SuperLbas /\ g \in Groups
    BY <2>1 DEF TypeOK, SuperLbas, SuperGroups
  <2>3. IF g = 0 THEN super'[PrimaryLba] = ctx ELSE super'[PrimaryLba] = super[PrimaryLba]
    BY <2>1, <2>2, FirstCopyIsPrimary, OtherCopies DEF TypeOK
  <2>4. free' = free /\ torn' = torn
    BY <1>2, <1>6, <2>2 DEF ext2_flush_superblock, ext2_allocate_inode, Flushing
  <2>5. phase # "unmounted" /\ (phase' # "unmounted" => ctx' = ctx)
    BY <1>6, <2>2 DEF ext2_flush_superblock, Flushing
  <2>6. /\ phase' = "allocating" => phase = "allocating"
        /\ phase = "allocating" /\ 0 \in todo' => phase' = "allocating"
    BY <1>6, <2>2 DEF ext2_flush_superblock, Flushing, Flushed
  <2>7. dsk' = free' + torn' + due'
    BY <1>1, <2>1, <2>3, <2>4, <2>5, <2>6
  <2>. QED
    BY <1>1, <2>4, <2>5, <2>7 DEF DriftInv, FreeInodesDrift, free
<1>7. CASE ext2_allocate_inode
  <2>1. PICK g \in Groups, off \in Scan(InodesPerGroup) :
          InodeBit(g, off) \notin disk /\ disk' = disk \cup {InodeBit(g, off)}
    BY <1>7 DEF ext2_allocate_inode, StoreInodeBit
  <2>. DEFINE n == NewInode(g, off)
  <2>2. /\ n \in Inodes
        /\ InodeMarked(n) <=> InodeBit(g, off) \in disk
        /\ InodeMarked(n)' <=> InodeBit(g, off) \in disk'
    BY NewInodeBit DEF InodeMarked, NewInode
  <2>3. \A m \in Inodes \ {n} : InodeMarked(m)' <=> InodeMarked(m)
    <3>1. ASSUME NEW m \in Inodes,
                 InodeBit((m - 1) \div InodesPerGroup, (m - 1) % InodesPerGroup) = InodeBit(g, off)
          PROVE  m = n
      <4>1. (m - 1) \div InodesPerGroup = g /\ (m - 1) % InodesPerGroup = off
        BY <3>1, InodeBitOf, NewInodeBit, BitmapAssumption
      <4>. QED
        BY <4>1, InodeBitOf, NewInodeBit DEF NewInode
    <3>. QED
      BY <2>1, <3>1 DEF InodeMarked
  <2>4. FreeInodes' = FreeInodes \ {n} /\ n \in FreeInodes
    BY <2>1, <2>2, <2>3 DEF FreeInodes
  <2>5. free' = free - 1 /\ free >= 1
    <3>1. free = Cardinality(FreeInodes) /\ free' = Cardinality(FreeInodes \ {n})
      BY <2>4 DEF free
    <3>2. Cardinality(FreeInodes \ {n}) = Cardinality(FreeInodes) - 1
      BY <2>4, FreeInodesFinite, FS_RemoveElement
    <3>3. Cardinality(FreeInodes \ {n}) \in Nat
      BY FreeInodesFinite, FS_RemoveElement, FS_CardinalityType
    <3>. QED
      BY <1>1, <3>1, <3>2, <3>3
  <2>6. ctx.s_free_inodes_count = free + torn /\ ctx.s_free_inodes_count \in 0 .. CountMod - 1
    BY <1>1, <1>7 DEF ext2_allocate_inode, TypeOK, SuperRecord
  <2>7. (ctx.s_free_inodes_count - 1) % CountMod = ctx.s_free_inodes_count - 1
    BY <1>1, <2>5, <2>6, GeometryAssumption
  <2>8. ctx'.s_free_inodes_count = free' + torn
    BY <1>1, <1>7, <2>5, <2>6, <2>7 DEF ext2_allocate_inode, TypeOK, SuperRecord
  <2>9. /\ super' = super /\ torn' = torn /\ due = 0
        /\ phase' = "allocating" /\ 0 \in todo'
    BY <1>7, FirstGroup DEF ext2_allocate_inode, hist
  <2>. QED
    BY <1>1, <2>5, <2>8, <2>9 DEF DriftInv, FreeInodesDrift, free
<1>8. CASE Crash
  <2>1. /\ free' = free /\ super' = super /\ phase' = "unmounted"
        /\ torn' = torn + due
    BY <1>1, <1>2, <1>8 DEF Crash, ext2_allocate_inode
  <2>. QED
    BY <1>1, <2>1 DEF DriftInv, FreeInodesDrift, free
<1>9. CASE UNCHANGED vars
  <2>1. free' = free
    BY <1>9 DEF vars, free, FreeInodes, InodeMarked
  <2>. QED
    BY <1>1, <1>9, <2>1 DEF vars, mem, hist, DriftInv, FreeInodesDrift, free
<1>10. ASSUME \/ AllocateInodeFails \/ AppendToDirectory \/ InitialiseInode
              \/ \E n \in Inodes : \/ AllocateBlockFails(n) \/ OpenFile(n)
                                   \/ AccessFile(n) \/ ext2_close(n)
       PROVE  DriftInv'
  <2>1. /\ torn' = torn /\ super' = super /\ ctx' = ctx
        /\ phase \in {"idle", "linking", "initialising"}
        /\ phase' \in {"idle", "linking", "initialising"}
    BY <1>10 DEF AllocateInodeFails, AppendToDirectory, InitialiseInode,
                 AllocateBlockFails, OpenFile, AccessFile, ext2_close, hist
  <2>2. ~ext2_allocate_inode
    BY <2>1 DEF ext2_allocate_inode
  <2>. QED
    BY <1>2, <1>3, <2>1, <2>2
<1>11. ASSUME \E n \in Inodes : ext2_allocate_block(n) \/ OpenTruncate(n)
       PROVE  DriftInv'
  <2>1. ctx' = ctx \/ \E c : ctx' = [ctx EXCEPT !.s_free_blocks_count = c]
    BY <1>11 DEF ext2_allocate_block, OpenTruncate
  <2>2. ctx'.s_free_inodes_count = ctx.s_free_inodes_count
    BY <2>1 DEF TypeOK, SuperRecord
  <2>3. torn' = torn /\ super' = super /\ phase = "idle" /\ phase' = "idle"
    BY <1>11 DEF ext2_allocate_block, OpenTruncate, hist
  <2>4. ~ext2_allocate_inode
    BY <2>3 DEF ext2_allocate_inode
  <2>. QED
    BY <1>2, <1>3, <2>2, <2>3, <2>4
<1>. QED
  BY <1>4, <1>5, <1>6, <1>7, <1>8, <1>9, <1>10, <1>11 DEF Next

\* On every 1 KiB volume whose stray bitmap sectors hold nothing else, the free
\* inode count on the volume exceeds the number of free inodes by the number of
\* power failures between an inode's bit and its count, and by nothing else.
THEOREM VolumeFreeInodes ==
  ASSUME OneKiB, StrayApart
  PROVE  Spec => []FreeInodesDrift
<1>1. Init => TypeOK /\ Pointers /\ DriftInv
  BY TypeInit, PointersInit, DriftInit
<1>2. TypeOK /\ Pointers /\ DriftInv /\ [Next]_vars => (TypeOK /\ Pointers /\ DriftInv)'
  BY TypeNext, PointersNext, DriftNext
<1>3. DriftInv => FreeInodesDrift
  BY DEF DriftInv
<1>. QED
  BY <1>1, <1>2, <1>3, PTL DEF Spec

(***************************************************************************)
(* Block ownership, until a file is opened with O_TRUNC.  The bitmap *)
(* ext2_allocate_block scans never changes, so the same free block is      *)
(* found again and again; what keeps it from being given out twice is the  *)
(* bit that ext2_change_allocated set in the stray sector.                 *)
(***************************************************************************)

Taken(b) ==
  \/ BlockMarked(b)
  \/ ChangeBit(b \div BlocksPerGroup, b % BlocksPerGroup) \in disk

\* Every block in use is a data block and taken, and a block whose bit is zero
\* is a data block.
OwnersInv ==
  /\ PrivateBlocks
  /\ \A n \in Written : \A b \in Refs(n) : Taken(b)
  /\ \A g \in Groups, off \in 0 .. BlocksPerGroup - 1 :
       BlockBit(g, off) \notin disk => FormatBlock(g, off) \in DataBlocks

\* The bits that decide whether a data block is taken.
LEMMA DataBlockBits ==
  ASSUME OneKiB, NEW b \in DataBlocks
  PROVE  /\ (b - 1) \div BlocksPerGroup \in Groups
         /\ (b - 1) % BlocksPerGroup \in 0 .. BlocksPerGroup - 1
         /\ FormatBlock((b - 1) \div BlocksPerGroup, (b - 1) % BlocksPerGroup) = b
         /\ BlockMarked(b) <=>
              BlockBit((b - 1) \div BlocksPerGroup, (b - 1) % BlocksPerGroup) \in disk
         /\ ChangeBit(b \div BlocksPerGroup, b % BlocksPerGroup) \in ChangeBits
<1>1. superblock_block = 1 /\ b \in 1 .. BlocksCount - 1
  BY InitialAssumption DEF superblock_block, OneKiB
<1>2. b - 1 \in 0 .. BlocksCount - 1 /\ b \in 0 .. BlocksCount - 1
  BY <1>1, GeometryAssumption
<1>3. (b - 1) \div BlocksPerGroup \in Groups /\ b \div BlocksPerGroup \in Groups
  BY <1>2, VolumeBlockGroup
<1>4. /\ (b - 1) % BlocksPerGroup \in 0 .. BlocksPerGroup - 1
      /\ b % BlocksPerGroup \in 0 .. BlocksPerGroup - 1
      /\ BlocksPerGroup * ((b - 1) \div BlocksPerGroup) + ((b - 1) % BlocksPerGroup) = b - 1
  BY <1>2, DivModSplit, GeometryAssumption
<1>5. FormatBlock((b - 1) \div BlocksPerGroup, (b - 1) % BlocksPerGroup) = b
  BY <1>1, <1>2, <1>3, <1>4, GeometryAssumption, FirstGroup DEF FormatBlock, Groups
<1>6. BlockMarked(b) <=>
        BlockBit((b - 1) \div BlocksPerGroup, (b - 1) % BlocksPerGroup) \in disk
  BY <1>1 DEF BlockMarked
<1>7. ChangeBit(b \div BlocksPerGroup, b % BlocksPerGroup) \in ChangeBits
  BY <1>3, <1>4 DEF ChangeBits
<1>. QED
  BY <1>3, <1>4, <1>5, <1>6, <1>7

\* The files of the initial volumes own distinct data blocks.
LEMMA OwnersInit == ASSUME OneKiB PROVE Init => OwnersInv
<1>. SUFFICES ASSUME Init PROVE OwnersInv
  OBVIOUS
<1>1. PICK fb \in FreeBlockSets, fi \in FreeInodeSets, stray \in StraySets :
        FreshVolume(fb, fi, stray)
  BY DEF Init
<1>2. ASSUME NEW g \in Groups, NEW off \in 0 .. BlocksPerGroup - 1,
             BlockBit(g, off) \notin disk
      PROVE  FormatBlock(g, off) \in fb
  <2>1. <<g, off>> \in Groups \X (0 .. BlocksPerGroup - 1)
    OBVIOUS
  <2>. QED
    BY <1>1, <1>2, <2>1 DEF FreshVolume
<1>3. \A n \in Inodes : Refs(n) = IF n \in FirstFiles /\ FirstTable[n] # 0
                                 THEN {FirstTable[n]} ELSE {}
  BY DEF Init, Refs, NoFile
<1>4. ASSUME NEW b \in DataBlocks \ fb PROVE Taken(b)
  BY <1>2, <1>4, DataBlockBits DEF Taken
<1>5. PrivateBlocks
  BY <1>3, InitialAssumption DEF PrivateBlocks, Written
<1>6. \A n \in Written : \A b \in Refs(n) : Taken(b)
  BY <1>3, <1>4, InitialAssumption DEF Written
<1>. QED
  BY <1>2, <1>5, <1>6, InitialAssumption DEF OwnersInv

\* Every step keeps the blocks private: an owned block has its bit set, both in
\* the bitmap or in the sector ext2_change_allocated takes for it.
LEMMA OwnersNext ==
  ASSUME OneKiB, StrayApart
  PROVE  TypeOK /\ Pointers /\ OwnersInv /\ [Next]_vars /\ ~truncated' => OwnersInv'
<1>. SUFFICES ASSUME TypeOK, Pointers, OwnersInv, [Next]_vars, ~truncated' PROVE OwnersInv'
  OBVIOUS
<1>1. \A p \in BlockBits : p \in disk' <=> p \in disk
  BY BitmapsKept
<1>2. ChangeBits \cap disk \subseteq disk'
  BY BitmapsKept
<1>3. \A b \in DataBlocks : Taken(b) => Taken(b)'
  <2>1. ASSUME NEW b \in DataBlocks, Taken(b) PROVE Taken(b)'
    <3>. DEFINE q == BlockBit((b - 1) \div BlocksPerGroup, (b - 1) % BlocksPerGroup)
                c == ChangeBit(b \div BlocksPerGroup, b % BlocksPerGroup)
    <3>1. q \in BlockBits /\ c \in ChangeBits
      BY DataBlockBits DEF BlockBits
    <3>2. /\ Taken(b) <=> q \in disk \/ c \in disk
          /\ Taken(b)' <=> q \in disk' \/ c \in disk'
      <4>1. superblock_block = 1
        BY DEF superblock_block, OneKiB
      <4>. QED
        BY <4>1 DEF Taken, BlockMarked
    <3>. QED
      BY <1>1, <1>2, <2>1, <3>1, <3>2
  <2>. QED
    BY <2>1
<1>4. (\A g \in Groups, off \in 0 .. BlocksPerGroup - 1 :
        BlockBit(g, off) \notin disk => FormatBlock(g, off) \in DataBlocks)'
  BY <1>1 DEF OwnersInv, BlockBits
<1>5. ASSUME \A n \in Written' : \/ n \in Written /\ Refs(n)' \subseteq Refs(n)
                                 \/ Refs(n)' = {}
      PROVE  OwnersInv'
  <2>1. PrivateBlocks'
    BY <1>5 DEF OwnersInv, PrivateBlocks
  <2>2. \A n \in Written' : \A b \in Refs(n)' : Taken(b)'
    BY <1>3, <1>5 DEF OwnersInv, PrivateBlocks
  <2>. QED
    BY <1>4, <2>1, <2>2 DEF OwnersInv
<1>6. ASSUME names' = names, itable' = itable, fe' = fe,
             Written' \subseteq Written
      PROVE  OwnersInv'
  <2>1. \A n \in Inodes : Refs(n)' = Refs(n)
    BY <1>6 DEF Refs
  <2>. QED
    BY <1>5, <1>6, <2>1 DEF Written
<1>7. ASSUME UNCHANGED <<phase, newino, halfmade>> PROVE Written' = Written
  BY <1>7 DEF Written
<1>8. CASE \/ ext2_mount \/ ext2_umount \/ ext2_flush_superblock
           \/ AllocateInodeFails \/ ext2_allocate_inode \/ UNCHANGED vars
           \/ \E n \in Inodes : AllocateBlockFails(n)
  <2>1. names' = names /\ itable' = itable /\ fe' = fe /\ halfmade' = halfmade
    BY <1>8 DEF ext2_mount, ext2_umount, ext2_flush_superblock, AllocateInodeFails,
                ext2_allocate_inode, AllocateBlockFails, vars, mem, hist
  <2>2. phase = "initialising" => phase' = "initialising" /\ newino' = newino
    BY <1>8 DEF ext2_mount, ext2_umount, ext2_flush_superblock, AllocateInodeFails,
                ext2_allocate_inode, AllocateBlockFails, vars, mem, TypeOK, Flushing
  <2>3. Written' \subseteq Written
    BY <2>1, <2>2 DEF Written
  <2>. QED
    BY <1>6, <2>1, <2>3
<1>9. CASE AppendToDirectory
  <2>1. /\ newino \in Inodes /\ phase = "linking"
        /\ itable' = itable /\ fe' = fe /\ halfmade' = halfmade
    BY <1>9 DEF AppendToDirectory, TypeOK, Creating, hist
  <2>2. CASE names' = names /\ phase' = "idle"
    <3>1. Written' \subseteq Written
      BY <2>1, <2>2 DEF Written
    <3>. QED
      BY <1>6, <2>1, <2>2, <3>1
  <2>3. CASE names' = [names EXCEPT ![newino] = @ + 1] /\ phase' = "initialising" /\ newino' = newino
    <3>1. Written' \subseteq Written /\ newino \notin Written'
      BY <2>1, <2>3 DEF Written
    <3>2. \A n \in Inodes : n # newino => Refs(n)' = Refs(n)
      BY <2>1, <2>3 DEF Refs, TypeOK
    <3>. QED
      BY <1>5, <3>1, <3>2 DEF Written
  <2>. QED
    BY <1>9, <2>2, <2>3 DEF AppendToDirectory
<1>10. CASE InitialiseInode
  <2>1. /\ newino \in Inodes /\ phase = "initialising" /\ phase' = "idle"
        /\ names' = names /\ halfmade' = halfmade
        /\ itable' = [itable EXCEPT ![newino] = 0]
        /\ fe' = [fe EXCEPT ![newino] = [NoFile EXCEPT !.open = TRUE]]
    BY <1>10 DEF InitialiseInode, TypeOK, Creating, hist
  <2>2. \A n \in Inodes : n = newino => Refs(n)' = {}
    BY <2>1 DEF Refs, NoFile, TypeOK
  <2>3. \A n \in Inodes : n # newino => Refs(n)' = Refs(n)
    BY <2>1 DEF Refs, TypeOK
  <2>4. Written' \subseteq Written \cup {newino}
    BY <2>1 DEF Written
  <2>. QED
    BY <1>5, <2>2, <2>3, <2>4 DEF Written
<1>11. ASSUME NEW n \in Inodes, OpenFile(n) \/ AccessFile(n) \/ ext2_close(n)
       PROVE  OwnersInv'
  <2>1. Written' = Written /\ names' = names
    BY <1>7, <1>11 DEF OpenFile, AccessFile, ext2_close, hist
  <2>2. \A m \in Inodes \ {n} : Refs(m)' = Refs(m)
    BY <1>11 DEF OpenFile, AccessFile, ext2_close, Refs, TypeOK
  <2>3. Refs(n)' \subseteq Refs(n)
    <3>1. CASE OpenFile(n)
      <4>1. names[n] > 0 /\ itable' = itable /\ fe'[n].i_block = itable[n]
        BY <3>1 DEF OpenFile, NoFile, TypeOK
      <4>. QED
        BY <2>1, <4>1 DEF Refs
    <3>2. CASE AccessFile(n)
      <4>1. fe'[n].i_block = fe[n].i_block /\ fe'[n].open = fe[n].open /\ itable' = itable
        BY <3>2 DEF AccessFile, TypeOK
      <4>. QED
        BY <2>1, <4>1 DEF Refs
    <3>3. CASE ext2_close(n)
      <4>1. fe[n].open /\ ~fe'[n].open /\ itable'[n] \in {itable[n], fe[n].i_block}
        BY <3>3 DEF ext2_close, NoFile, TypeOK
      <4>. QED
        BY <2>1, <4>1 DEF Refs
    <3>. QED
      BY <1>11, <3>1, <3>2, <3>3
  <2>. QED
    BY <1>5, <2>1, <2>2, <2>3 DEF Written
<1>12. CASE Crash
  <2>1. /\ names' = names /\ itable' = itable /\ phase' = "unmounted"
        /\ fe' = [n \in Inodes |-> NoFile]
    BY <1>12 DEF Crash
  <2>2. Written' \subseteq Written
    BY <1>12, <2>1 DEF Crash, Written
  <2>3. \A n \in Inodes : Refs(n)' \subseteq Refs(n)
    BY <2>1 DEF Refs, NoFile
  <2>. QED
    BY <1>5, <2>2, <2>3 DEF Written
<1>13. ASSUME NEW n \in Inodes, ext2_allocate_block(n) PROVE OwnersInv'
  <2>1. PICK g \in Groups, off \in Scan(BlocksPerGroup) :
        /\ BlockBit(g, off) \notin disk
        /\ \E out \in ext2_change_allocated(AllocatedBlock(g, off), TRUE) :
             /\ disk' = out.disk
             /\ \/ /\ out.ok
                   /\ fe' = [fe EXCEPT ![n] = [open |-> TRUE, i_block |-> AllocatedBlock(g, off),
                                               fs_dirty |-> TRUE]]
                \/ fe' = fe
    BY <1>13 DEF ext2_allocate_block
  <2>2. Written' = Written /\ names' = names /\ itable' = itable
    BY <1>7, <1>13 DEF ext2_allocate_block, hist
  <2>3. CASE fe' = fe
    BY <1>6, <2>2, <2>3
  <2>4. CASE fe' # fe
    <3>. DEFINE b == AllocatedBlock(g, off)
                c == ChangeBit(b \div BlocksPerGroup, b % BlocksPerGroup)
                f == [open |-> TRUE, i_block |-> b, fs_dirty |-> TRUE]
    <3>1. /\ off \in 0 .. BlocksPerGroup - 1 /\ b \in Blocks /\ InGroups(b)
          /\ (b - 1) \div BlocksPerGroup = g /\ (b - 1) % BlocksPerGroup = off
      BY <2>1, AllocatedBlockBit DEF Pointers, InGroups
    <3>2. b = FormatBlock(g, off) /\ superblock_block = 1
      BY <3>1, GeometryAssumption, FirstGroup
      DEF AllocatedBlock, FormatBlock, superblock_block, OneKiB, Groups
    <3>3. b \in DataBlocks
      BY <2>1, <3>1, <3>2 DEF OwnersInv
    <3>4. c \notin disk /\ c \in disk'
      BY <2>1, <2>4, <3>1, ChangeAllocatedEffect
    <3>5. fe' = [fe EXCEPT ![n] = f]
      BY <2>1, <2>4
    <3>6. ~BlockMarked(b)
      BY <2>1, <3>1, <3>2 DEF BlockMarked
    <3>7. ~Taken(b) /\ Taken(b)'
      BY <3>4, <3>6 DEF Taken
    <3>8. \A m \in Inodes \ {n} : Refs(m)' = Refs(m)
      BY <2>2, <3>5 DEF Refs, TypeOK
    <3>9. Refs(n)' \subseteq Refs(n) \cup {b}
      <4>1. fe'[n] = f
        BY <3>5 DEF TypeOK
      <4>. QED
        BY <2>2, <4>1 DEF Refs
    <3>. HIDE DEF b, c, f
    <3>10. \A m \in Written : b \notin Refs(m)
      BY <3>7 DEF OwnersInv
    <3>11. Written \subseteq Inodes
      BY DEF Written
    <3>12. PrivateBlocks'
      BY <2>2, <3>3, <3>8, <3>9, <3>10, <3>11 DEF OwnersInv, PrivateBlocks
    <3>13. ASSUME NEW m \in Written, NEW d \in Refs(m)' PROVE Taken(d)'
      <4>1. d \in Refs(m) \/ d = b
        BY <3>8, <3>9, <3>11
      <4>2. d \in Refs(m) => Taken(d) /\ d \in DataBlocks
        BY DEF OwnersInv, PrivateBlocks
      <4>. QED
        BY <1>3, <3>7, <4>1, <4>2
    <3>. QED
      BY <1>4, <2>2, <3>12, <3>13 DEF OwnersInv
  <2>. QED
    BY <2>3, <2>4
<1>14. \A n \in Inodes : ~OpenTruncate(n)
  BY DEF OpenTruncate
<1>. QED
  BY <1>8, <1>9, <1>10, <1>11, <1>12, <1>13, <1>14 DEF Next

\* O_TRUNC is remembered for ever.
LEMMA TruncatedKept == TypeOK /\ [Next]_vars /\ truncated => truncated'
<1>. SUFFICES ASSUME TypeOK, [Next]_vars, truncated PROVE truncated'
  OBVIOUS
<1>. QED
  BY DEF Next, vars, hist, ext2_mount, ext2_umount, ext2_flush_superblock, AllocateInodeFails,
         ext2_allocate_inode, AppendToDirectory, InitialiseInode, AllocateBlockFails,
         ext2_allocate_block, OpenFile, OpenTruncate, AccessFile, ext2_close, Crash

\* On every 1 KiB volume whose stray bitmap sectors hold nothing else, until
\* a file is truncated, no block is ever in two files or in a file and in
\* the volume's tables, across any number of power failures.
THEOREM VolumeOwners ==
  ASSUME OneKiB, StrayApart
  PROVE  Spec => []PrivateUntilTruncated
<1>. DEFINE Inv == TypeOK /\ Pointers /\ (~truncated => OwnersInv)
<1>1. Init => Inv
  BY TypeInit, PointersInit, OwnersInit
<1>2. Inv /\ [Next]_vars => Inv'
  BY TypeNext, PointersNext, OwnersNext, TruncatedKept
<1>3. Inv => PrivateUntilTruncated
  BY DEF OwnersInv, PrivateUntilTruncated
<1>. QED
  BY <1>1, <1>2, <1>3, PTL DEF Spec

(***************************************************************************)
(* The superblock copies.                                                  *)
(***************************************************************************)

\* The copies the flush has got round to are those in memory, and once it has
\* written all of them they stay the same until the next flush.
CopiesInv ==
  /\ phase \in Flushing => \A g \in SuperGroups \ todo : super[SuperLba(g)] = ctx
  /\ phase \in {"idle", "linking", "initialising"} =>
       \A g \in SuperGroups :
         /\ super[SuperLba(g)] = super[SuperLba(0)]
         /\ super[SuperLba(g)].s_free_inodes_count = ctx.s_free_inodes_count

\* Every step keeps CopiesInv.
LEMMA CopiesNext == TypeOK /\ CopiesInv /\ [Next]_vars => CopiesInv'
<1>. SUFFICES ASSUME TypeOK, CopiesInv, [Next]_vars PROVE CopiesInv'
  OBVIOUS
<1>. DEFINE Settled == {"idle", "linking", "initialising"}
<1>1. CASE ext2_mount \/ ext2_umount \/ ext2_allocate_inode
  <2>1. todo' = SuperGroups /\ phase' \notin Settled
    BY <1>1 DEF ext2_mount, ext2_umount, ext2_allocate_inode
  <2>. QED
    BY <2>1 DEF CopiesInv
<1>2. CASE Crash
  BY <1>2 DEF Crash, CopiesInv, Flushing
<1>3. CASE ext2_flush_superblock
  <2>1. PICK g \in todo : super' = [super EXCEPT ![SuperLba(g)] = ctx] /\ todo' = todo \ {g}
    BY <1>3 DEF ext2_flush_superblock
  <2>2. phase \in Flushing /\ g \in SuperGroups
    BY <2>1 DEF TypeOK
  <2>3. ASSUME NEW h \in SuperGroups \ todo' PROVE super'[SuperLba(h)] = ctx
    <3>1. SuperLba(h) \in SuperLbas /\ super \in [SuperLbas -> SuperRecord]
      BY DEF SuperLbas, TypeOK
    <3>2. h = g \/ super[SuperLba(h)] = ctx
      BY <2>1, <2>2 DEF CopiesInv
    <3>. QED
      BY <2>1, <3>1, <3>2
  <2>4. CASE todo' # {}
    <3>1. phase' = phase /\ phase # "unmounted" /\ phase \notin Settled
      BY <1>3, <2>2, <2>4 DEF ext2_flush_superblock, Flushing
    <3>2. ctx' = ctx
      BY <1>3, <3>1 DEF ext2_flush_superblock
    <3>. QED
      BY <2>3, <3>1, <3>2 DEF CopiesInv
  <2>5. CASE todo' = {}
    <3>1. phase' \in {"idle", "unmounted", "linking"} /\ phase' \notin Flushing
      BY <1>3, <2>2, <2>5 DEF ext2_flush_superblock, Flushing, Flushed
    <3>2. phase' # "unmounted" => ctx' = ctx
      BY <1>3 DEF ext2_flush_superblock
    <3>3. \A h \in SuperGroups : super'[SuperLba(h)] = ctx
      BY <2>3, <2>5
    <3>. QED
      BY <3>1, <3>2, <3>3, FirstGroup DEF CopiesInv
  <2>. QED
    BY <2>4, <2>5
<1>4. ASSUME super' = super, ctx'.s_free_inodes_count = ctx.s_free_inodes_count,
             phase \in Settled, phase' \in Settled
      PROVE  CopiesInv'
  BY <1>4 DEF CopiesInv, Flushing
<1>5. CASE \/ AllocateInodeFails \/ AppendToDirectory \/ InitialiseInode
           \/ \E n \in Inodes : \/ AllocateBlockFails(n) \/ OpenFile(n) \/ AccessFile(n)
                                \/ ext2_close(n)
  BY <1>4, <1>5 DEF AllocateInodeFails, AppendToDirectory, InitialiseInode, AllocateBlockFails,
                    OpenFile, AccessFile, ext2_close
<1>6. ASSUME NEW n \in Inodes, ext2_allocate_block(n) \/ OpenTruncate(n) PROVE CopiesInv'
  <2>1. super' = super /\ phase = "idle" /\ phase' = "idle"
    BY <1>6 DEF ext2_allocate_block, OpenTruncate
  <2>2. \/ ctx' = ctx
        \/ \E c : ctx' = [ctx EXCEPT !.s_free_blocks_count = c]
    BY <1>6 DEF ext2_allocate_block, OpenTruncate
  <2>3. ctx'.s_free_inodes_count = ctx.s_free_inodes_count
    BY <2>2 DEF TypeOK, SuperRecord
  <2>. QED
    BY <1>4, <2>1, <2>3
<1>7. CASE UNCHANGED vars
  BY <1>7 DEF vars, mem, CopiesInv
<1>. QED
  BY <1>1, <1>2, <1>3, <1>5, <1>6, <1>7 DEF Next

\* A volume small enough for the groups that is_power chooses to be those of
\* the format.
FewGroups == ~Sparse \/ num_blockgroups <= 9

\* 3, 5 and 7 are found to be powers of themselves.
LEMMA PowerOfItself ==
  ASSUME NEW p \in {3, 5, 7}
  PROVE  is_power(p, p)
<1>. DEFINE Body(f) == [n \in 1 .. p |-> IF n % p = 0 THEN f[n \div p] ELSE n]
            F == CHOOSE f : f = Body(f)
            w == [n \in 1 .. p |-> IF n = p THEN 1 ELSE n]
<1>1. 1 % p # 0 /\ p % p = 0 /\ p \div p = 1 /\ \A n \in 1 .. p : n % p = 0 => n = p
  OBVIOUS
<1>2. w = Body(w)
  BY <1>1
<1>3. F = Body(F)
  BY <1>2
<1>4. F[1] = 1 /\ F[p] = F[1]
  <2>. HIDE DEF F
  <2>. QED
    BY <1>1, <1>3
<1>. QED
  BY <1>4 DEF is_power

\* Then the code writes every copy of the format.
LEMMA CopiesWritten ==
  ASSUME FewGroups
  PROVE  CopyGroups \subseteq SuperGroups
<1>1. CASE ~Sparse
  BY <1>1 DEF CopyGroups, SuperGroups
<1>2. CASE Sparse
  <2>1. \A g \in Groups : g < 9
    BY <1>2, FirstGroup DEF FewGroups, Groups
  <2>2. \A g \in CopyGroups : g \in Groups /\ g \in {0, 1, 3, 5, 7}
    BY <1>2, <2>1 DEF CopyGroups
  <2>3. ASSUME NEW g \in CopyGroups PROVE g \in {0, 1} \/ \E p \in {3, 5, 7} : is_power(p, g)
    BY <2>2, PowerOfItself
  <2>. QED
    BY <1>2, <2>2, <2>3 DEF SuperGroups
<1>. QED
  BY <1>1, <1>2, GeometryAssumption

\* On every volume of 1 KiB blocks with at most nine groups, or without sparse
\* superblocks, every superblock copy of a mounted volume is outside
\* ext2_flush_superblock identical to the one ext2_mount reads, whatever power
\* failures cut earlier flushes short, and has the free inode count of the
\* context.  With larger blocks the flush never writes the one ext2_mount reads.
THEOREM VolumeCopies ==
  ASSUME OneKiB, FewGroups
  PROVE  Spec => []CopiesAgree
<1>1. Init => CopiesInv
  BY DEF Init, CopiesInv, Flushing
<1>2. CopiesInv => CopiesAgree
  <2>1. 0 \in Groups
    BY FirstGroup DEF SuperGroups
  <2>2. 0 \in CopyGroups
    BY <2>1 DEF CopyGroups
  <2>. QED
    BY <2>2, CopiesWritten, FirstCopyIsPrimary DEF CopiesInv, CopiesAgree
<1>. QED
  BY <1>1, <1>2, CopiesNext, VolumeTypes, PTL DEF Spec
=============================================================================
