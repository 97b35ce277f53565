----------------------- MODULE FileHandlesRefinement -----------------------
(***************************************************************************)
(* FileHandles implements ByteStore, for every volume: with a device that  *)
(* does not fail, and for callers who stay within a sector, open each file *)
(* once and do not grow it past its first block, the sector buffers cannot *)
(* be seen.                                                                *)
(***************************************************************************)
EXTENDS FileHandlesProofs, SequenceTheorems

CarefulUse == WithinSector /\ ~Sharing /\ ~Growth /\ ~Faulty /\ ~PowerFails

\* No block is in two places of a file.
OneToOne(blocks) == \A j, k \in Entries : blocks[j] = blocks[k] /\ blocks[j] # 0 => j = k

\* What the refinement needs besides HandlesInv: nothing went wrong, and a
\* handle that does not say that its inode changed has the one on the volume.
CarefulInv ==
  /\ Sound
  /\ \A f \in Files : OneToOne(inode[f].i_block)
  /\ \A h \in Handles : fe[h].file # 0 =>
       /\ OneToOne(fe[h].inode.i_block)
       /\ ~fe[h].fs_dirty => fe[h].inode = inode[fe[h].file]

(***************************************************************************)
(* The bytes of a file, seen through a struct file_ent.                    *)
(***************************************************************************)

ContentSeen(d, r) ==
  [i \in 1 .. r.inode.i_size |->
     Seen(d, r, SectorIn(BlockAt(r, i - 1), i - 1))[(i - 1) % SectorSize]]

\* A struct file_ent just opened on an inode.
Fresh(i) == [Closed EXCEPT !.inode = i]

\* Its buffer is clean.
LEMMA FreshFacts ==
  ASSUME NEW i \in InodeType
  PROVE  Fresh(i).inode = i /\ ~Fresh(i).dirty
<1>1. Closed \in EntType /\ ~Closed.dirty
  BY ClosedFacts
<1>. QED
  BY <1>1 DEF Fresh, EntType

\* A file that is open is seen through its handle ...
LEMMA OpenContent ==
  ASSUME NEW h \in Handles, NEW f \in Files, HandlesOf(f) = {h}
  PROVE  ContentOf(f) = ContentSeen(disk, fe[h]) /\ EntryOf(f) = fe[h]
<1>1. HandlesOf(f) # {} /\ (CHOOSE k \in HandlesOf(f) : TRUE) = h
  OBVIOUS
<1>2. EntryOf(f) = fe[h] /\ View(f) = fe[h].inode
  BY <1>1 DEF EntryOf, View
<1>. QED
  BY <1>2 DEF ContentOf, CellAt, ContentSeen, Seen, BlockAt

\* ... and one that is not as it is on the volume.
LEMMA ClosedContent ==
  ASSUME NEW f \in Files, inode[f] \in InodeType, HandlesOf(f) = {}
  PROVE  ContentOf(f) = ContentSeen(disk, Fresh(inode[f])) /\ EntryOf(f) = Closed
<1>1. EntryOf(f) = Closed /\ View(f) = inode[f] /\ ~Closed.dirty
  BY ClosedFacts DEF EntryOf, View
<1>2. Fresh(inode[f]).inode = inode[f] /\ ~Fresh(inode[f]).dirty
  BY FreshFacts
<1>. QED
  BY <1>1, <1>2 DEF ContentOf, CellAt, ContentSeen, Seen, BlockAt

\* The same of the next state.
LEMMA OpenContentNext ==
  ASSUME NEW h \in Handles, NEW f \in Files, HandlesOf(f)' = {h}
  PROVE  ContentOf(f)' = ContentSeen(disk', fe'[h]) /\ EntryOf(f)' = fe'[h]
<1>1. HandlesOf(f)' # {} /\ (CHOOSE k \in HandlesOf(f)' : TRUE) = h
  OBVIOUS
<1>2. EntryOf(f)' = fe'[h] /\ View(f)' = fe'[h].inode
  BY <1>1 DEF EntryOf, View
<1>. QED
  BY <1>2 DEF ContentOf, CellAt, ContentSeen, Seen, BlockAt

\* The same of the next state, for a file that is not open.
LEMMA ClosedContentNext ==
  ASSUME NEW f \in Files, inode'[f] \in InodeType, HandlesOf(f)' = {}
  PROVE  ContentOf(f)' = ContentSeen(disk', Fresh(inode'[f])) /\ EntryOf(f)' = Closed
<1>1. EntryOf(f)' = Closed /\ View(f)' = inode'[f] /\ ~Closed.dirty
  BY ClosedFacts DEF EntryOf, View
<1>2. PICK i \in InodeType : i = inode'[f]
  OBVIOUS
<1>3. Fresh(i).inode = i /\ ~Fresh(i).dirty
  BY FreshFacts
<1>. QED
  BY <1>1, <1>2, <1>3 DEF ContentOf, CellAt, ContentSeen, Seen, BlockAt

\* A file is open through one handle at most.
LEMMA OneHandle ==
  ASSUME HandlesInv, CarefulInv, NEW h \in Handles, NEW f \in Files, fe[h].file = f
  PROVE  HandlesOf(f) = {h}
  BY SizeFacts DEF HandlesInv, OneEach, CarefulInv, Sound, HandlesOf

\* A position of a file without holes has a sector.
LEMMA WholeSector ==
  ASSUME NEW r \in EntType, NEW d, Whole(d, r), NEW pos \in 0 .. r.inode.i_size - 1
  PROVE  /\ pos \in Nat /\ pos < MaxSize /\ pos \div BlockSize \in Entries
         /\ BlockAt(r, pos) \in BlockNumbers \ {0}
         /\ SectorIn(BlockAt(r, pos), pos) \in Lbas
<1>1. r.inode.i_size \in 0 .. MaxSize
  BY DEF EntType, InodeType
<1>2. pos \in Nat /\ pos < MaxSize
  BY <1>1, SizeFacts
<1>3. BlockAt(r, pos) \in BlockNumbers \ {0}
  BY <1>2, BlockAtType DEF Whole
<1>. QED
  BY <1>2, <1>3, EntryOfPosition, SectorType

\* The same blocks and the same sectors are the same bytes.
LEMMA SameContent ==
  ASSUME NEW r \in EntType, NEW d, Whole(d, r), NEW x, NEW e,
         x.inode.i_size = r.inode.i_size,
         \A pos \in 0 .. r.inode.i_size - 1 :
           /\ BlockAt(x, pos) = BlockAt(r, pos)
           /\ LET lba == SectorIn(BlockAt(r, pos), pos) IN Seen(e, x, lba) = Seen(d, r, lba)
  PROVE  ContentSeen(e, x) = ContentSeen(d, r)
<1>1. r.inode.i_size \in Nat
  BY SizeFacts DEF EntType, InodeType
<1>2. ASSUME NEW i \in 1 .. r.inode.i_size
      PROVE  Seen(e, x, SectorIn(BlockAt(x, i - 1), i - 1)) = Seen(d, r, SectorIn(BlockAt(r, i - 1), i - 1))
  <2>1. i - 1 \in 0 .. r.inode.i_size - 1
    BY <1>1
  <2>. QED
    BY <2>1
<1>. QED
  BY <1>2 DEF ContentSeen

\* A file as a struct file_ent just opened sees it.
LEMMA FreshWhole ==
  ASSUME HandlesInv, CarefulInv, NEW f \in Files
  PROVE  /\ Fresh(inode[f]) \in EntType /\ inode[f] \in InodeType
         /\ Whole(disk, Fresh(inode[f]))
<1>1. inode[f] \in InodeType
  BY DEF HandlesInv, Typed
<1>2. Fresh(inode[f]).inode = inode[f] /\ ~Fresh(inode[f]).dirty
  BY <1>1, FreshFacts
<1>3. Fresh(inode[f]) \in EntType
  BY <1>1, ClosedFacts DEF Fresh, EntType
<1>4. Whole(disk, Fresh(inode[f]))
  <2>1. \A pos \in 0 .. inode[f].i_size - 1 :
          /\ inode[f].i_block[pos \div BlockSize] # 0
          /\ disk[SectorIn(inode[f].i_block[pos \div BlockSize], pos)][pos % SectorSize] # Junk
    BY DEF HandlesInv, CarefulInv, Sound, SizeAfterData
  <2>. QED
    BY <1>2, <2>1 DEF Whole, Seen, BlockAt
<1>. QED
  BY <1>1, <1>3, <1>4

\* A call on the handle h changes no byte of another file.
LEMMA OthersContent ==
  ASSUME HandlesInv, CarefulInv, NEW h \in Handles, NEW x, fe' = [fe EXCEPT ![h] = x],
         NEW g \in Files, g # fe[h].file, g # x.file, inode'[g] = inode[g],
         disk' = disk \/ disk' = Stored(disk, fe[h])
  PROVE  ContentOf(g)' = ContentOf(g) /\ EntryOf(g)' = EntryOf(g)
<1>1. Typed /\ Private
  BY DEF HandlesInv
<1>2. \A k \in Handles : fe'[k] = IF k = h THEN x ELSE fe[k]
  BY <1>1 DEF Typed
<1>3. HandlesOf(g)' = HandlesOf(g) /\ h \notin HandlesOf(g)
  BY <1>2 DEF HandlesOf
<1>4. PICK d : d = disk'
  OBVIOUS
<1>5. ASSUME NEW r \in EntType, Whole(disk, r), r.inode = inode[g] \/ \E k \in HandlesOf(g) : r = fe[k]
      PROVE  ContentSeen(d, r) = ContentSeen(disk, r)
  <2>1. ASSUME NEW pos \in 0 .. r.inode.i_size - 1
        PROVE  d[SectorIn(BlockAt(r, pos), pos)] = disk[SectorIn(BlockAt(r, pos), pos)]
    <3>1. /\ pos \in Nat /\ pos \div BlockSize \in Entries
          /\ BlockAt(r, pos) \in BlockNumbers \ {0}
      BY <1>5, <2>1, WholeSector
    <3>2. Holds(g, BlockAt(r, pos))
      BY <1>5, <3>1 DEF Holds, Reaches, BlockAt, HandlesOf
    <3>3. PICK b \in (BlockNumbers \ {0}) \ unmarked : b = BlockAt(r, pos)
      BY <3>1 DEF CarefulInv, Sound
    <3>. QED
      BY <1>1, <1>4, <3>1, <3>2, <3>3, OthersKept
  <2>2. \A pos \in 0 .. r.inode.i_size - 1 :
          LET lba == SectorIn(BlockAt(r, pos), pos) IN Seen(d, r, lba) = Seen(disk, r, lba)
    BY <2>1 DEF Seen
  <2>. QED
    BY <1>5, <2>2, SameContent
<1>6. CASE HandlesOf(g) = {}
  <2>1. /\ Fresh(inode[g]) \in EntType /\ inode[g] \in InodeType
        /\ Whole(disk, Fresh(inode[g])) /\ Fresh(inode[g]).inode = inode[g]
    BY FreshWhole, FreshFacts
  <2>2. ContentOf(g) = ContentSeen(disk, Fresh(inode[g])) /\ EntryOf(g) = Closed
    BY <1>6, <2>1, ClosedContent
  <2>3. ContentOf(g)' = ContentSeen(disk', Fresh(inode'[g])) /\ EntryOf(g)' = Closed
    BY <1>3, <1>6, <2>1, ClosedContentNext
  <2>4. ContentSeen(d, Fresh(inode[g])) = ContentSeen(disk, Fresh(inode[g]))
    BY <1>5, <2>1
  <2>. QED
    BY <1>4, <2>2, <2>3, <2>4
<1>7. CASE HandlesOf(g) # {}
  <2>1. PICK k \in HandlesOf(g) : TRUE
    BY <1>7
  <2>2. k \in Handles /\ fe[k].file = g /\ k # h /\ fe[k].file # 0
    BY <1>3, <2>1, SizeFacts DEF HandlesOf
  <2>3. HandlesOf(g) = {k}
    BY <2>2, OneHandle
  <2>4. ContentOf(g) = ContentSeen(disk, fe[k]) /\ EntryOf(g) = fe[k]
    BY <2>2, <2>3, OpenContent
  <2>5. ContentOf(g)' = ContentSeen(disk', fe'[k]) /\ EntryOf(g)' = fe'[k] /\ fe'[k] = fe[k]
    BY <1>2, <1>3, <2>2, <2>3, OpenContentNext
  <2>6. fe[k] \in EntType /\ Whole(disk, fe[k])
    BY <2>2 DEF HandlesInv, Typed, AllWhole, CarefulInv
  <2>7. ContentSeen(d, fe[k]) = ContentSeen(disk, fe[k])
    BY <1>5, <2>1, <2>6
  <2>. QED
    BY <1>4, <2>4, <2>5, <2>7
<1>. QED
  BY <1>6, <1>7

(***************************************************************************)
(* The buffer under careful use.                                           *)
(***************************************************************************)

\* The buffer holds the sector under the cursor of r, as it is on the device.
Ready(d, r) ==
  /\ BlockAt(r, r.cursor) \in BlockNumbers \ {0}
  /\ r.lba = SectorIn(BlockAt(r, r.cursor), r.cursor)
  /\ ~r.dirty /\ r.buf = d[r.lba]

\* A position in the first block.
LEMMA SmallFirst ==
  ASSUME NEW pos \in Nat, pos < BlockSize
  PROVE  pos \div BlockSize = 0
<1>1. pos \in 0 .. BlockSize - 1 /\ pos = BlockSize * 0 + pos
  BY BlockSizeType
<1>. QED
  BY <1>1, BlockSizeType, DivMod

\* ext2_select_buffer gets the right sector and shows the same bytes.
LEMMA CarefulSelect ==
  ASSUME CarefulUse, HandlesInv, CarefulInv, NEW h \in Handles, Callable(h),
         NEW r, EntOK(r), r.file = fe[h].file, r.inode = fe[h].inode, Kept(r, fe[h]),
         r.cursor < MaxSize, BlockAt(r, r.cursor) # 0 \/ r.cursor < BlockSize,
         NEW o, Selected(r, o)
  PROVE  /\ SameFile(o.fe, r) /\ OneToOne(o.fe.inode.i_block) /\ Whole(o.disk, o.fe)
         /\ o.ok = TRUE => Ready(o.disk, o.fe)
         /\ o.ok = FALSE => BlockAt(r, r.cursor) = 0 /\ o.fe.inode = r.inode
         /\ ContentSeen(o.disk, o.fe) = ContentSeen(disk, fe[h])
         /\ o.unmarked = unmarked
<1>1. /\ Typed /\ Private /\ fe[h].file \in Files /\ fe[h].file # 0 /\ fe[h] \in EntType
      /\ Whole(disk, fe[h]) /\ OneToOne(r.inode.i_block)
  BY CallableFacts DEF HandlesInv, CarefulInv
<1>2. /\ r \in EntType /\ r.cursor \in Nat /\ free \subseteq BlockNumbers \ {0}
      /\ r.inode.i_block \in [Entries -> BlockNumbers] /\ r.cursor \div BlockSize \in Entries
  BY <1>1, SizeFacts, EntryOfPosition DEF EntOK, EntType, InodeType, Typed
<1>3. /\ SameFile(o.fe, r) /\ o.ok \in BOOLEAN
      /\ o.ok = TRUE => o.fe.lba # 0 /\ (~o.fe.dirty => o.fe.buf = o.disk[o.fe.lba])
  BY <1>1, SelectEnt
<1>. DEFINE P == /\ OneToOne(o.fe.inode.i_block)
                 /\ o.ok = TRUE => Ready(o.disk, o.fe)
                 /\ o.ok = FALSE => BlockAt(r, r.cursor) = 0 /\ o.fe.inode = r.inode
<1>4. ASSUME Found(r, o) PROVE P
  <2>1. /\ BlockAt(r, r.cursor) # 0 /\ o.ok = TRUE /\ o.fe.inode = r.inode /\ ~o.fe.dirty
        /\ o.fe.lba = SectorIn(BlockAt(r, r.cursor), r.cursor)
    BY <1>4 DEF Found, Loaded, CarefulUse
  <2>2. BlockAt(r, r.cursor) \in BlockNumbers \ {0}
    BY <1>2, <2>1, BlockAtType
  <2>3. BlockAt(o.fe, o.fe.cursor) = BlockAt(r, r.cursor) /\ o.fe.cursor = r.cursor
    BY <1>3, <2>1 DEF BlockAt, SameFile
  <2>. QED
    BY <1>1, <1>3, <2>1, <2>2, <2>3 DEF Ready
<1>5. ASSUME NotFound(r, o) PROVE P
  BY <1>1, <1>5 DEF NotFound
<1>6. ASSUME \E b \in free : Allocated(r, o, b) PROVE P
  <2>1. PICK b \in free : Allocated(r, o, b)
    BY <1>6
  <2>2. /\ o.ok = TRUE /\ ~o.fe.dirty /\ o.fe.lba = SectorIn(b, r.cursor)
        /\ BlockAt(r, r.cursor) = 0 /\ o.fe.inode.i_block = [r.inode.i_block EXCEPT ![0] = b]
    BY <2>1 DEF Allocated, Entered, Loaded, CarefulUse
  <2>3. r.cursor \div BlockSize = 0
    BY <1>2, <2>2, SmallFirst
  <2>4. BlockAt(o.fe, o.fe.cursor) = b /\ o.fe.cursor = r.cursor /\ b \in BlockNumbers \ {0}
    BY <1>2, <1>3, <2>2, <2>3 DEF BlockAt, SameFile
  <2>5. \A k \in Entries : r.inode.i_block[k] # b
    <3>1. SUFFICES ASSUME NEW k \in Entries, r.inode.i_block[k] = b PROVE FALSE
      OBVIOUS
    <3>2. Holds(fe[h].file, b)
      BY <3>1 DEF Holds, Reaches
    <3>. QED
      BY <1>1, <2>4, <3>2 DEF Private, CarefulInv, Sound
  <2>6. OneToOne(o.fe.inode.i_block)
    BY <1>1, <1>2, <2>2, <2>5 DEF OneToOne
  <2>. QED
    BY <1>3, <2>2, <2>4, <2>6 DEF Ready
<1>7. P
  BY <1>4, <1>5, <1>6 DEF Selected
<1>8. Whole(disk, r)
  BY <1>1 DEF Whole, BlockAt, Seen, Kept
<1>9. o.ok = TRUE => BlockAt(o.fe, r.cursor) # 0
  BY <1>3, <1>7 DEF Ready, SameFile
<1>10. /\ Whole(o.disk, o.fe)
       /\ \A pos \in 0 .. r.inode.i_size - 1 : BlockAt(o.fe, pos) = BlockAt(r, pos)
  BY <1>1, <1>8, <1>9, SelectWhole
<1>11. ASSUME NEW pos \in 0 .. fe[h].inode.i_size - 1
       PROVE  /\ BlockAt(o.fe, pos) = BlockAt(fe[h], pos)
              /\ LET lba == SectorIn(BlockAt(fe[h], pos), pos)
                 IN  Seen(o.disk, o.fe, lba) = Seen(disk, fe[h], lba)
  <2>1. BlockAt(o.fe, pos) = BlockAt(r, pos) /\ BlockAt(r, pos) = BlockAt(fe[h], pos)
    BY <1>10, <1>11 DEF BlockAt
  <2>2. SectorIn(BlockAt(fe[h], pos), pos) \in Lbas
    BY <1>1, <1>11, WholeSector
  <2>3. \A lba \in Lbas : Seen(o.disk, o.fe, lba) = Seen(disk, r, lba)
    BY <1>1, SelectSeen
  <2>4. \A lba \in Lbas : Seen(disk, r, lba) = Seen(disk, fe[h], lba)
    BY DEF Seen, Kept
  <2>. QED
    BY <2>1, <2>2, <2>3, <2>4
<1>12. ContentSeen(o.disk, o.fe) = ContentSeen(disk, fe[h])
  <2>1. o.fe.inode.i_size = fe[h].inode.i_size
    BY <1>3 DEF SameFile
  <2>2. PICK x, e : x = o.fe /\ e = o.disk
    OBVIOUS
  <2>. QED
    BY <1>1, <1>11, <2>1, <2>2, SameContent
<1>13. o.unmarked = unmarked
  BY DEF Selected, Found, NotFound, Allocated, Marked, CarefulUse
<1>. QED
  BY <1>3, <1>7, <1>10, <1>12, <1>13

\* Two positions in one sector are as far apart as their offsets.
LEMMA SectorDistance ==
  ASSUME NEW p \in Nat, NEW q \in Nat, NEW b \in Nat,
         p \div BlockSize = q \div BlockSize, SectorIn(b, p) = SectorIn(b, q)
  PROVE  p - q = (p % SectorSize) - (q % SectorSize)
<1>1. PICK pb \in Nat, pj \in 0 .. SectorsPerBlock - 1, pt \in Offsets :
        p = BlockSize * pb + (SectorSize * pj + pt)
  BY Located
<1>2. PICK qb \in Nat, qj \in 0 .. SectorsPerBlock - 1, qt \in Offsets :
        q = BlockSize * qb + (SectorSize * qj + qt)
  BY Located
<1>3. p \div BlockSize = pb /\ (p % BlockSize) \div SectorSize = pj /\ p % SectorSize = pt
  BY <1>1, Coordinates
<1>4. q \div BlockSize = qb /\ (q % BlockSize) \div SectorSize = qj /\ q % SectorSize = qt
  BY <1>2, Coordinates
<1>5. pb = qb
  BY <1>3, <1>4
<1>6. pj = qj
  <2>1. b * SectorsPerBlock \in Nat /\ pj \in Nat /\ qj \in Nat
    BY SizeFacts, Product
  <2>2. b * SectorsPerBlock + pj = b * SectorsPerBlock + qj
    BY <1>3, <1>4 DEF SectorIn
  <2>. QED
    BY <2>1, <2>2
<1>7. BlockSize * pb \in Nat /\ SectorSize * pj \in Nat /\ pt \in Nat /\ qt \in Nat
  BY SizeFacts, BlockSizeType, Product DEF Offsets
<1>8. p - q = pt - qt
  BY <1>1, <1>2, <1>5, <1>6, <1>7
<1>. QED
  BY <1>3, <1>4, <1>8

\* As many bytes are seen as the inode says.
LEMMA ContentLength ==
  ASSUME NEW r \in EntType, NEW d
  PROVE  /\ r.inode.i_size \in Nat /\ Len(ContentSeen(d, r)) = r.inode.i_size
         /\ DOMAIN ContentSeen(d, r) = 1 .. r.inode.i_size
<1>1. r.inode.i_size \in Nat
  BY SizeFacts DEF EntType, InodeType
<1>. QED
  BY <1>1 DEF ContentSeen

\* The bytes in the sector under the cursor are those in the buffer.
LEMMA ReadyBytes ==
  ASSUME NEW r \in EntType, NEW d, Ready(d, r), NEW pos \in Nat, r.cursor <= pos,
         (r.cursor % SectorSize) + (pos - r.cursor) < SectorSize
  PROVE  /\ SectorIn(BlockAt(r, pos), pos) = r.lba
         /\ pos % SectorSize = (r.cursor % SectorSize) + (pos - r.cursor)
<1>1. r.cursor \in Nat
  BY SizeFacts DEF EntType
<1>2. /\ pos \div BlockSize = r.cursor \div BlockSize
      /\ (pos % BlockSize) \div SectorSize = (r.cursor % BlockSize) \div SectorSize
      /\ pos % SectorSize = (r.cursor % SectorSize) + (pos - r.cursor)
  BY <1>1, SameSector
<1>3. BlockAt(r, pos) = BlockAt(r, r.cursor)
  BY <1>2 DEF BlockAt
<1>4. SectorIn(BlockAt(r, pos), pos) = SectorIn(BlockAt(r, r.cursor), r.cursor)
  BY <1>2, <1>3 DEF SectorIn
<1>. QED
  BY <1>2, <1>4 DEF Ready

\* ext2_read returns the bytes at the cursor.
LEMMA ReadBytes ==
  ASSUME NEW r \in EntType, NEW d, Ready(d, r), NEW n \in Nat \ {0},
         r.cursor + n <= r.inode.i_size, (r.cursor % SectorSize) + n <= SectorSize
  PROVE  [i \in 1 .. n |-> r.buf[(r.cursor % SectorSize) + i - 1]]
           = SubSeq(ContentSeen(d, r), r.cursor + 1, r.cursor + n)
<1>1. r.cursor \in Nat /\ r.inode.i_size \in Nat
  BY SizeFacts DEF EntType, InodeType
<1>2. PICK c \in Nat : c = r.cursor % SectorSize
  BY <1>1, SpaceType
<1>3. ASSUME NEW i \in 1 .. n
      PROVE  ContentSeen(d, r)[i + (r.cursor + 1) - 1] = r.buf[c + i - 1]
  <2>1. PICK pos \in Nat : pos = r.cursor + i - 1
    BY <1>1
  <2>2. r.cursor <= pos /\ c + (pos - r.cursor) < SectorSize
    BY <1>1, <1>2, <2>1, SizeFacts
  <2>3. /\ SectorIn(BlockAt(r, pos), pos) = r.lba
        /\ pos % SectorSize = c + i - 1
    <3>1. pos % SectorSize = c + (pos - r.cursor)
      BY <1>2, <2>2, ReadyBytes
    <3>. QED
      BY <1>1, <1>2, <2>1, <2>2, <3>1, ReadyBytes
  <2>4. pos + 1 \in 1 .. r.inode.i_size /\ (pos + 1) - 1 = pos /\ i + (r.cursor + 1) - 1 = pos + 1
    BY <1>1, <2>1
  <2>5. ContentSeen(d, r)[pos + 1] = Seen(d, r, SectorIn(BlockAt(r, pos), pos))[pos % SectorSize]
    BY <2>4 DEF ContentSeen
  <2>. QED
    BY <2>3, <2>4, <2>5 DEF Seen, Ready
<1>4. PICK e : e = ContentSeen(d, r)
  OBVIOUS
<1>5. PICK m \in Nat, to \in Nat : m = r.cursor + 1 /\ to = r.cursor + n
  BY <1>1
<1>. DEFINE S == {e[i] : i \in m .. to}
<1>6. /\ SubSeq(e, m, to) \in Seq(S) /\ Len(SubSeq(e, m, to)) = IF m <= to THEN to - m + 1 ELSE 0
      /\ \A i \in 1 .. to - m + 1 : SubSeq(e, m, to)[i] = e[m + i - 1]
  BY SubSeqProperties
<1>7. to - m + 1 = n /\ m <= to /\ \A i \in 1 .. n : m + i - 1 = i + (r.cursor + 1) - 1
  BY <1>1, <1>5
<1>8. Len(SubSeq(e, m, to)) = n /\ \A i \in 1 .. n : SubSeq(e, m, to)[i] = r.buf[c + i - 1]
  BY <1>3, <1>4, <1>6, <1>7
<1>9. SubSeq(e, m, to) = [i \in 1 .. n |-> r.buf[c + i - 1]]
  <2>1. PICK t : t = SubSeq(e, m, to)
    OBVIOUS
  <2>2. t = [i \in 1 .. Len(t) |-> t[i]]
    <3>. HIDE DEF S
    <3>. QED
      BY <1>6, <2>1
  <2>. QED
    BY <1>8, <2>1, <2>2
<1>. QED
  BY <1>2, <1>4, <1>5, <1>9

\* Block numbers are natural numbers.
LEMMA BlockNumberType ==
  ASSUME NEW b \in BlockNumbers
  PROVE  b \in Nat
<1>1. CASE b = 0
  BY <1>1
<1>2. CASE b # 0
  <2>1. PICK lba \in Lbas : b = lba \div SectorsPerBlock
    BY <1>2 DEF BlockNumbers
  <2>. QED
    BY <2>1, LbaType, SizeFacts, DivModSplit
<1>. QED
  BY <1>1, <1>2

\* A request that stays in the sector, as careful callers make it.
Fits(pos, n) == (pos % SectorSize) + n <= SectorSize

\* ext2_write replaces the bytes at the cursor and no others.
LEMMA WriteBytes ==
  ASSUME NEW r, EntOK(r), NEW d, Whole(d, r), Ready(d, r), OneToOne(r.inode.i_block),
         NEW s \in Chunks, NEW n, n = Len(s), r.cursor + n <= MaxSize, Fits(r.cursor, n),
         NEW x, IsWritten(x, r, s, n)
  PROVE  ContentSeen(d, x) = Store!Overlay(ContentSeen(d, r), r.cursor, s)
<1>1. r \in EntType /\ r.cursor \in Nat /\ r.inode.i_size \in Nat /\ r.cursor <= r.inode.i_size
  BY SizeFacts DEF EntOK, EntType, InodeType
<1>2. n \in Nat \ {0} /\ n \in 0 .. Len(s)
  BY ChunkType, SizeFacts
<1>3. /\ x.lba = r.lba /\ x.dirty = TRUE /\ x.buf = Poked(r, s, n)
      /\ x.inode.i_block = r.inode.i_block
      /\ x.inode.i_size = IF r.cursor + n > r.inode.i_size THEN r.cursor + n ELSE r.inode.i_size
  BY DEF IsWritten
<1>4. PICK c \in Nat : c = r.cursor % SectorSize
  BY <1>1, SpaceType
<1>5. x.inode.i_size \in Nat /\ c + n <= SectorSize
  BY <1>1, <1>2, <1>3, <1>4 DEF Fits
<1>. DEFINE old == ContentSeen(d, r)
<1>6. ASSUME NEW i \in 1 .. x.inode.i_size
      PROVE  Seen(d, x, SectorIn(BlockAt(x, i - 1), i - 1))[(i - 1) % SectorSize]
               = IF i \in r.cursor + 1 .. r.cursor + n THEN s[i - r.cursor] ELSE old[i]
  <2>1. PICK pos \in Nat : pos = i - 1
    BY <1>5
  <2>2. BlockAt(x, pos) = BlockAt(r, pos)
    BY <1>3 DEF BlockAt
  <2>3. PICK k \in Offsets : k = pos % SectorSize
    BY PositionType
  <2>4. /\ k \in c .. c + n - 1 => x.buf[k] = s[k - c + 1]
        /\ k \notin c .. c + n - 1 => x.buf[k] = r.buf[k]
    BY <1>3, <1>4 DEF Poked
  <2>5. CASE i \in r.cursor + 1 .. r.cursor + n
    <3>1. r.cursor <= pos /\ pos - r.cursor < n /\ c + (pos - r.cursor) < SectorSize
      BY <1>1, <1>2, <1>5, <2>1, <2>5, SizeFacts
    <3>2. SectorIn(BlockAt(r, pos), pos) = r.lba /\ pos % SectorSize = c + (pos - r.cursor)
      BY <1>1, <1>4, <3>1, ReadyBytes
    <3>3. k \in c .. c + n - 1 /\ k - c + 1 = i - r.cursor
      BY <1>1, <1>2, <2>1, <2>3, <3>1, <3>2
    <3>4. x.buf[k] = s[i - r.cursor]
      BY <2>4, <3>3
    <3>. QED
      BY <1>3, <2>1, <2>2, <2>3, <2>5, <3>2, <3>4 DEF Seen
  <2>6. CASE i \notin r.cursor + 1 .. r.cursor + n
    <3>1. pos \in 0 .. r.inode.i_size - 1 /\ i \in 1 .. r.inode.i_size
      BY <1>1, <1>2, <1>3, <1>6, <2>1, <2>6
    <3>2. old[i] = Seen(d, r, SectorIn(BlockAt(r, pos), pos))[k]
      BY <2>1, <2>3, <3>1 DEF ContentSeen
    <3>3. old[i] = d[SectorIn(BlockAt(r, pos), pos)][k]
      BY <3>2 DEF Seen, Ready
    <3>4. CASE SectorIn(BlockAt(r, pos), pos) # r.lba
      BY <1>3, <2>1, <2>2, <2>3, <2>6, <3>3, <3>4 DEF Seen
    <3>5. CASE SectorIn(BlockAt(r, pos), pos) = r.lba
      <4>1. /\ pos \div BlockSize \in Entries /\ BlockAt(r, pos) \in BlockNumbers \ {0}
            /\ r.cursor \div BlockSize \in Entries
        <5>1. r.cursor < MaxSize
          BY <1>1, <1>2, SizeFacts
        <5>. QED
          BY <1>1, <3>1, <5>1, WholeSector, EntryOfPosition
      <4>2. BlockAt(r, pos) = BlockAt(r, r.cursor)
        <5>1. PICK b \in BlockNumbers \ {0} : b = BlockAt(r, pos)
          BY <4>1
        <5>2. PICK q \in BlockNumbers \ {0} : q = BlockAt(r, r.cursor)
          BY DEF Ready
        <5>3. BlockOf(SectorIn(b, pos)) = b /\ BlockOf(SectorIn(q, r.cursor)) = q
          BY <1>1, SectorType
        <5>. QED
          BY <3>5, <5>1, <5>2, <5>3 DEF Ready
      <4>3. pos \div BlockSize = r.cursor \div BlockSize
        BY <4>1, <4>2 DEF OneToOne, BlockAt
      <4>4. PICK b \in Nat : b = BlockAt(r, pos)
        BY <4>1, BlockNumberType
      <4>5. pos - r.cursor = k - c
        <5>1. SectorIn(b, pos) = SectorIn(b, r.cursor)
          BY <3>5, <4>2, <4>4 DEF Ready
        <5>. QED
          BY <1>1, <1>4, <2>3, <4>3, <5>1, SectorDistance
      <4>6. k \notin c .. c + n - 1
        <5>1. k \in Nat
          BY <2>3 DEF Offsets
        <5>. QED
          BY <1>1, <1>2, <2>1, <2>6, <4>5, <5>1
      <4>7. x.buf[k] = r.buf[k]
        BY <2>4, <4>6
      <4>. QED
        BY <1>3, <2>1, <2>2, <2>3, <2>6, <3>3, <3>5, <4>7 DEF Seen, Ready
    <3>. QED
      BY <3>4, <3>5
  <2>. QED
    BY <2>5, <2>6
<1>7. Len(old) = r.inode.i_size
  BY <1>1, ContentLength
<1>8. ContentSeen(d, x) = [i \in 1 .. x.inode.i_size |->
                             IF i \in r.cursor + 1 .. r.cursor + n THEN s[i - r.cursor] ELSE old[i]]
  BY <1>6 DEF ContentSeen
<1>. HIDE DEF old
<1>. QED
  BY <1>3, <1>7, <1>8 DEF Store!Overlay, old

(***************************************************************************)
(* The steps, seen as steps of ByteStore.                                  *)
(***************************************************************************)

\* Nothing was read, and no file changed.
QuietStep ==
  last' = NothingRead /\ \A g \in Files : ContentOf(g)' = ContentOf(g)

\* Only the handle of f and what it sees of f changed.
OnlyFile(f) ==
  /\ \A g \in Files \ {f} : ContentOf(g)' = ContentOf(g) /\ EntryOf(g)' = EntryOf(g)
  /\ EntryOf(f)'.append = EntryOf(f).append

ReadOf(f) ==
  /\ OnlyFile(f) /\ ContentOf(f)' = ContentOf(f)
  /\ \E to \in EntryOf(f).cursor + 1 .. Len(ContentOf(f)) :
       /\ EntryOf(f)'.cursor = to
       /\ last' = [file |-> f, bytes |-> SubSeq(ContentOf(f), EntryOf(f).cursor + 1, to)]

WriteOf(f) ==
  /\ OnlyFile(f) /\ last' = NothingRead
  /\ \E s \in Chunks :
       LET pos == IF EntryOf(f).append THEN Len(ContentOf(f)) ELSE EntryOf(f).cursor
       IN  /\ EntryOf(f)'.cursor = pos + Len(s)
           /\ ContentOf(f)' = Store!Overlay(ContentOf(f), pos, s)

Simulated == QuietStep \/ \E f \in Files : ReadOf(f) \/ WriteOf(f)

\* These are the steps of ByteStore.
LEMMA SimulatedIsNext ==
  ASSUME Simulated
  PROVE  Store!Next
<1>. DEFINE c == [g \in Files |-> ContentOf(g)]
            hd == [g \in Files |-> [cursor |-> EntryOf(g).cursor, append |-> EntryOf(g).append]]
            cn == [g \in Files |-> ContentOf(g)']
            hn == [g \in Files |-> [cursor |-> EntryOf(g)'.cursor, append |-> EntryOf(g)'.append]]
<1>1. CASE QuietStep
  <2>1. cn = c /\ last' = Store!NothingRead
    BY <1>1 DEF QuietStep, NothingRead, Store!NothingRead
  <2>. QED
    BY <2>1 DEF Store!Next, Store!Other
<1>2. CASE \E f \in Files : ReadOf(f)
  <2>1. PICK f \in Files : ReadOf(f)
    BY <1>2
  <2>2. PICK to \in EntryOf(f).cursor + 1 .. Len(ContentOf(f)) :
          /\ EntryOf(f)'.cursor = to
          /\ last' = [file |-> f, bytes |-> SubSeq(ContentOf(f), EntryOf(f).cursor + 1, to)]
    BY <2>1 DEF ReadOf
  <2>3. cn = c
    BY <2>1 DEF ReadOf, OnlyFile
  <2>4. hn = [hd EXCEPT ![f].cursor = to]
    BY <2>1, <2>2 DEF ReadOf, OnlyFile
  <2>5. c[f] = ContentOf(f) /\ hd[f].cursor = EntryOf(f).cursor
    OBVIOUS
  <2>6. Store!Read(f)
    BY <2>2, <2>3, <2>4, <2>5 DEF Store!Read
  <2>. QED
    BY <2>6 DEF Store!Next
<1>3. CASE \E f \in Files : WriteOf(f)
  <2>1. PICK f \in Files : WriteOf(f)
    BY <1>3
  <2>. DEFINE pos == IF EntryOf(f).append THEN Len(ContentOf(f)) ELSE EntryOf(f).cursor
  <2>2. PICK s \in Chunks : /\ EntryOf(f)'.cursor = pos + Len(s)
                            /\ ContentOf(f)' = Store!Overlay(ContentOf(f), pos, s)
    BY <2>1 DEF WriteOf
  <2>3. cn = [c EXCEPT ![f] = Store!Overlay(ContentOf(f), pos, s)]
    BY <2>1, <2>2 DEF WriteOf, OnlyFile
  <2>4. hn = [hd EXCEPT ![f].cursor = pos + Len(s)]
    BY <2>1, <2>2 DEF WriteOf, OnlyFile
  <2>5. /\ c[f] = ContentOf(f) /\ hd[f].cursor = EntryOf(f).cursor /\ hd[f].append = EntryOf(f).append
        /\ s \in Store!Chunks /\ last' = Store!NothingRead
    BY <2>1 DEF WriteOf, Store!Chunks, Chunks, NothingRead, Store!NothingRead
  <2>6. Store!Write(f)
    BY <2>3, <2>4, <2>5 DEF Store!Write
  <2>. QED
    BY <2>6 DEF Store!Next
<1>. QED
  BY <1>1, <1>2, <1>3 DEF Simulated

\* What a call other than open and close does to the handle h.
Called(h, x) ==
  /\ x \in EntType /\ fe' = [fe EXCEPT ![h] = x] /\ x.file = fe[h].file /\ inode' = inode
  /\ disk' = disk \/ disk' = Stored(disk, fe[h])
  /\ Sound' /\ OneToOne(x.inode.i_block)
  /\ x.fs_dirty \/ (x.fs_dirty = fe[h].fs_dirty /\ x.inode = fe[h].inode)

\* Such a call keeps CarefulInv and every other file.
LEMMA CallStep ==
  ASSUME HandlesInv, CarefulInv, NEW h \in Handles, fe[h].file # 0, NEW x, Called(h, x),
         NEW f, f = fe[h].file
  PROVE  /\ CarefulInv' /\ f \in Files
         /\ ContentOf(f) = ContentSeen(disk, fe[h]) /\ EntryOf(f) = fe[h]
         /\ ContentOf(f)' = ContentSeen(disk', x) /\ EntryOf(f)' = x
         /\ \A g \in Files \ {f} : ContentOf(g)' = ContentOf(g) /\ EntryOf(g)' = EntryOf(g)
<1>1. Typed /\ fe[h] \in EntType /\ f \in Files
  BY DEF HandlesInv, Typed, EntType
<1>2. \A k \in Handles : fe'[k] = IF k = h THEN x ELSE fe[k]
  BY <1>1 DEF Typed, Called
<1>3. HandlesOf(f) = {h}
  BY <1>1, OneHandle
<1>4. HandlesOf(f)' = {h}
  BY <1>2, <1>3 DEF HandlesOf, Called
<1>5. ContentOf(f) = ContentSeen(disk, fe[h]) /\ EntryOf(f) = fe[h]
  BY <1>1, <1>3, OpenContent
<1>6. ContentOf(f)' = ContentSeen(disk', x) /\ EntryOf(f)' = x
  BY <1>1, <1>2, <1>4, OpenContentNext
<1>7. ASSUME NEW g \in Files \ {f} PROVE ContentOf(g)' = ContentOf(g) /\ EntryOf(g)' = EntryOf(g)
  BY OthersContent DEF Called
<1>8. CarefulInv'
  BY <1>2 DEF CarefulInv, Called
<1>. QED
  BY <1>1, <1>5, <1>6, <1>7, <1>8

\* What is seen of a file depends on its inode and the buffer alone.
LEMMA SameView ==
  ASSUME NEW x, NEW r, x.inode = r.inode, Kept(x, r), NEW d
  PROVE  ContentSeen(d, x) = ContentSeen(d, r)
  BY DEF ContentSeen, Seen, Kept, BlockAt

\* ext2_lseek is a step of ByteStore.
LEMMA SeekSimulated ==
  ASSUME HandlesInv, CarefulInv, NEW h \in Handles, NEW pos \in 0 .. MaxSize, ext2_lseek(h, pos)
  PROVE  CarefulInv' /\ Simulated
<1>1. /\ Callable(h) /\ fe' = [fe EXCEPT ![h].cursor = pos] /\ last' = NothingRead
      /\ UNCHANGED <<disk, inode, unmarked, overrun, misplaced, shared>>
  BY DEF ext2_lseek
<1>2. Typed /\ fe[h] \in EntType /\ fe[h].file # 0
  BY <1>1, CallableFacts
<1>3. PICK x : x = [fe[h] EXCEPT !.cursor = pos]
  OBVIOUS
<1>4. /\ x \in EntType /\ x.file = fe[h].file /\ x.inode = fe[h].inode /\ Kept(x, fe[h])
      /\ x.fs_dirty = fe[h].fs_dirty
  BY <1>2, <1>3 DEF EntType, Kept
<1>5. fe' = [fe EXCEPT ![h] = x]
  BY <1>1, <1>2, <1>3 DEF Typed
<1>6. Called(h, x)
  BY <1>1, <1>2, <1>4, <1>5, CallableFacts DEF Called, CarefulInv, Sound
<1>7. ContentSeen(disk', x) = ContentSeen(disk, fe[h])
  BY <1>1, <1>4, SameView
<1>8. /\ CarefulInv'
      /\ \A g \in Files : ContentOf(g)' = ContentOf(g)
  BY <1>2, <1>6, <1>7, CallStep
<1>. QED
  BY <1>1, <1>8 DEF Simulated, QuietStep

\* The first half of ext2_close is one.
LEMMA CloseStoreSimulated ==
  ASSUME CarefulUse, HandlesInv, CarefulInv, NEW h \in Handles, CloseStore(h)
  PROVE  CarefulInv' /\ Simulated
<1>1. /\ Callable(h) /\ fe[h].dirty /\ last' = NothingRead
      /\ UNCHANGED <<inode, unmarked, overrun, misplaced, shared>>
  BY DEF CloseStore
<1>2. /\ Typed /\ fe[h] \in EntType /\ fe[h].file # 0 /\ EntOK(fe[h]) /\ disk \in [Lbas -> Sector]
      /\ Whole(disk, fe[h])
  BY <1>1, CallableFacts DEF Typed, CarefulInv
<1>3. PICK o \in ext2_store_buffer(disk, fe[h]) : disk' = o.disk /\ fe' = [fe EXCEPT ![h] = o.fe]
  BY DEF CloseStore
<1>4. /\ SameFile(o.fe, fe[h]) /\ o.fe.inode = fe[h].inode
      /\ o.disk = [disk EXCEPT ![fe[h].lba] = fe[h].buf] /\ Loaded(o.fe, fe[h].lba, fe[h].buf)
  <2>1. ~Faulty
    BY DEF CarefulUse
  <2>2. /\ SameFile(o.fe, fe[h]) /\ o.fe.inode = fe[h].inode
        /\ \/ /\ o.ok = TRUE /\ o.disk = [disk EXCEPT ![fe[h].lba] = fe[h].buf]
              /\ Loaded(o.fe, fe[h].lba, fe[h].buf)
           \/ o.ok = FALSE /\ Faulty /\ o.disk = disk /\ o.fe = fe[h]
    BY <1>2, <1>3, StoreOutcome
  <2>. QED
    BY <2>1, <2>2
<1>5. PICK x, d : x = o.fe /\ d = o.disk
  OBVIOUS
<1>6. d = Stored(disk, fe[h])
  BY <1>1, <1>4, <1>5 DEF Stored
<1>7. Called(h, x)
  BY <1>1, <1>2, <1>3, <1>4, <1>5, <1>6 DEF Called, SameFile, CarefulInv, Sound
<1>8. ContentSeen(d, x) = ContentSeen(disk, fe[h])
  <2>1. \A lba \in Lbas : Seen(d, x, lba) = Seen(disk, fe[h], lba)
    BY <1>1, <1>2, <1>4, <1>5 DEF Seen, Loaded
  <2>2. x.inode = fe[h].inode
    BY <1>4, <1>5
  <2>3. ASSUME NEW pos \in 0 .. fe[h].inode.i_size - 1
        PROVE  /\ BlockAt(x, pos) = BlockAt(fe[h], pos)
               /\ LET lba == SectorIn(BlockAt(fe[h], pos), pos)
                  IN  Seen(d, x, lba) = Seen(disk, fe[h], lba)
    <3>1. SectorIn(BlockAt(fe[h], pos), pos) \in Lbas
      BY <1>2, WholeSector
    <3>. QED
      BY <2>1, <2>2, <3>1 DEF BlockAt
  <2>. QED
    BY <1>2, <2>2, <2>3, SameContent
<1>9. /\ CarefulInv'
      /\ \A g \in Files : ContentOf(g)' = ContentOf(g)
  BY <1>2, <1>3, <1>5, <1>7, <1>8, CallStep
<1>. QED
  BY <1>1, <1>9 DEF Simulated, QuietStep

\* ext2_select_buffer stores the handle's buffer or leaves the device alone.
LEMMA SelectDisk ==
  ASSUME NEW r, NEW o, Selected(r, o), NEW e, Kept(r, e)
  PROVE  o.disk = disk \/ o.disk = Stored(disk, e)
  BY DEF Selected, Found, NotFound, Allocated, Stored, Kept

\* A read or write that gets no buffer.
LEMMA FailedCall ==
  ASSUME CarefulUse, HandlesInv, CarefulInv, NEW h \in Handles, Callable(h),
         NEW r, EntOK(r), r.file = fe[h].file, r.inode = fe[h].inode, Kept(r, fe[h]),
         r.fs_dirty = fe[h].fs_dirty,
         r.cursor < MaxSize, BlockAt(r, r.cursor) # 0 \/ r.cursor < BlockSize,
         NEW o, Selected(r, o), o.ok = FALSE, disk' = o.disk, fe' = [fe EXCEPT ![h] = o.fe],
         unmarked' = o.unmarked,
         last' = NothingRead, UNCHANGED <<inode, overrun, misplaced, shared>>
  PROVE  CarefulInv' /\ Simulated
<1>1. /\ SameFile(o.fe, r) /\ OneToOne(o.fe.inode.i_block) /\ o.fe.inode = r.inode
      /\ ContentSeen(o.disk, o.fe) = ContentSeen(disk, fe[h])
      /\ unmarked' = unmarked
  BY CarefulSelect
<1>2. o.disk = disk \/ o.disk = Stored(disk, fe[h])
  BY SelectDisk
<1>3. PICK x : x = o.fe
  OBVIOUS
<1>4. Called(h, x)
  BY <1>1, <1>2, <1>3 DEF Called, SameFile, CarefulInv, Sound
<1>5. fe[h].file # 0
  BY CallableFacts
<1>6. /\ CarefulInv'
      /\ \A g \in Files : ContentOf(g)' = ContentOf(g)
  BY <1>1, <1>3, <1>4, <1>5, CallStep
<1>. QED
  BY <1>6 DEF Simulated, QuietStep

\* What a copy from or to the right sector records.
LEMMA CopiesRight ==
  ASSUME CarefulInv, NEW d, NEW r, Ready(d, r), NEW n, Copies(r, n),
         r.cursor \in Nat, n \in Nat, Fits(r.cursor, n), shared' = shared,
         unmarked' = unmarked
  PROVE  Sound'
<1>1. ~misplaced /\ ~shared /\ unmarked' = {}
  BY DEF CarefulInv, Sound
<1>2. BlockAt(r, r.cursor) # 0 /\ r.lba = SectorIn(BlockAt(r, r.cursor), r.cursor)
  BY DEF Ready
<1>3. ~misplaced'
  <2>1. misplaced' = (misplaced \/ BlockAt(r, r.cursor) = 0
                                \/ r.lba # SectorIn(BlockAt(r, r.cursor), r.cursor))
    BY DEF Copies
  <2>. QED
    BY <1>1, <1>2, <2>1
<1>4. ~overrun'
  <2>1. PICK c \in Nat : c = r.cursor % SectorSize
    BY SpaceType
  <2>2. ~(c + n > SectorSize)
    BY <2>1, SizeFacts DEF Fits
  <2>3. overrun' = (c + n > SectorSize)
    BY <2>1 DEF Copies
  <2>. QED
    BY <2>2, <2>3
<1>. QED
  BY <1>1, <1>3, <1>4 DEF Sound

\* What ext2_read copies: at least a byte, within the sector and the file.
ReadCount(r, count) == MinOf(MinOf(count, ext2_buffer_space(r.cursor)), r.inode.i_size - r.cursor)

\* The count is positive and stays within the sector and the file.
LEMMA ReadCountType ==
  ASSUME CarefulUse, NEW r \in EntType, NEW count \in 1 .. MaxCount, Asked(r.cursor, count),
         r.cursor < r.inode.i_size, NEW n, n = ReadCount(r, count)
  PROVE  /\ n \in Nat \ {0} /\ r.cursor + n <= r.inode.i_size /\ Fits(r.cursor, n)
         /\ MinOf(n, SectorSize - (r.cursor % SectorSize)) = n
<1>1. r.cursor \in Nat /\ r.inode.i_size \in Nat /\ count \in Nat \ {0}
  BY SizeFacts DEF EntType, InodeType
<1>2. PICK c \in Nat : c = r.cursor % SectorSize
  BY <1>1, SpaceType
<1>3. PICK sp \in Nat : sp = ext2_buffer_space(r.cursor)
  BY <1>1, SpaceType
<1>4. c < SectorSize /\ sp >= SectorSize - c
  BY <1>1, <1>2, <1>3, SpaceType
<1>5. c + count <= SectorSize
  BY <1>2 DEF CarefulUse, Asked
<1>6. n = MinOf(MinOf(count, sp), r.inode.i_size - r.cursor)
  BY <1>3 DEF ReadCount
<1>7. n \in Nat \ {0} /\ r.cursor + n <= r.inode.i_size /\ c + n <= SectorSize
  BY <1>1, <1>4, <1>5, <1>6, SizeFacts DEF MinOf
<1>8. MinOf(n, SectorSize - c) = n
  BY <1>7, SizeFacts DEF MinOf
<1>. QED
  BY <1>2, <1>7, <1>8 DEF Fits

\* ext2_read is a Read of ByteStore.
LEMMA ReadSimulated ==
  ASSUME CarefulUse, HandlesInv, CarefulInv, NEW h \in Handles, NEW count \in 1 .. MaxCount,
         ext2_read(h, count)
  PROVE  CarefulInv' /\ Simulated
<1>. DEFINE In(e) == MinOf(ReadCount(e, count), SectorSize - (e.cursor % SectorSize))
<1>1. /\ Callable(h) /\ fe[h].cursor < fe[h].inode.i_size /\ Asked(fe[h].cursor, count)
      /\ UNCHANGED <<inode, closing, shared>>
  BY DEF ext2_read
<1>2. PICK o \in ext2_select_buffer(fe[h]) :
        /\ disk' = o.disk /\ unmarked' = o.unmarked
        /\ IF o.ok
           THEN /\ fe' = [fe EXCEPT ![h] = AfterRead(o.fe, ReadCount(o.fe, count))]
                /\ last' = [file |-> o.fe.file,
                            bytes |-> [i \in 1 .. In(o.fe) |-> o.fe.buf[(o.fe.cursor % SectorSize) + i - 1]]]
                /\ Copies(o.fe, ReadCount(o.fe, count))
           ELSE fe' = [fe EXCEPT ![h] = o.fe] /\ last' = NothingRead /\ UNCHANGED <<overrun, misplaced>>
  BY DEF ext2_read, ReadCount
<1>3. /\ Typed /\ EntOK(fe[h]) /\ fe[h] \in EntType /\ fe[h].cursor \in Nat /\ fe[h].file # 0
      /\ fe[h].inode.i_size \in 0 .. MaxSize /\ Whole(disk, fe[h]) /\ Kept(fe[h], fe[h])
  BY <1>1, CallableFacts DEF Kept, CarefulInv
<1>4. fe[h].cursor < MaxSize /\ BlockAt(fe[h], fe[h].cursor) # 0
  BY <1>1, <1>3, SizeFacts DEF Whole
<1>5. Selected(fe[h], o)
  BY <1>2, <1>3, <1>4, SelectOutcome
<1>6. /\ SameFile(o.fe, fe[h]) /\ OneToOne(o.fe.inode.i_block)
      /\ o.ok = TRUE => Ready(o.disk, o.fe)
      /\ ContentSeen(o.disk, o.fe) = ContentSeen(disk, fe[h])
      /\ unmarked' = unmarked
  BY <1>1, <1>2, <1>3, <1>4, <1>5, CarefulSelect
<1>7. o.ok \in BOOLEAN
  BY <1>3, <1>4, <1>5, SelectEnt
<1>8. CASE o.ok = FALSE
  <2>1. fe' = [fe EXCEPT ![h] = o.fe] /\ last' = NothingRead /\ UNCHANGED <<overrun, misplaced>>
    BY <1>2, <1>8
  <2>. QED
    BY <1>1, <1>2, <1>3, <1>4, <1>5, <1>8, <2>1, FailedCall
<1>9. CASE o.ok = TRUE
  <2>1. PICK e, d : e = o.fe /\ d = o.disk
    OBVIOUS
  <2>2. PICK n : n = ReadCount(e, count)
    OBVIOUS
  <2>3. PICK x : x = AfterRead(e, n)
    OBVIOUS
  <2>4. /\ e \in EntType /\ e.cursor = fe[h].cursor /\ e.inode.i_size = fe[h].inode.i_size
        /\ e.file = fe[h].file /\ e.append = fe[h].append /\ Ready(d, e)
    BY <1>6, <1>9, <2>1 DEF SameFile
  <2>5. /\ n \in Nat \ {0} /\ e.cursor + n <= e.inode.i_size /\ Fits(e.cursor, n)
        /\ MinOf(n, SectorSize - (e.cursor % SectorSize)) = n
    BY <1>1, <2>2, <2>4, ReadCountType
  <2>6. /\ fe' = [fe EXCEPT ![h] = x] /\ Copies(e, n)
        /\ last' = [file |-> e.file, bytes |-> [i \in 1 .. n |-> e.buf[(e.cursor % SectorSize) + i - 1]]]
    BY <1>2, <1>9, <2>1, <2>2, <2>3, <2>5
  <2>7. /\ x \in EntType /\ x.file = e.file /\ x.inode = e.inode /\ Kept(x, e) /\ x.fs_dirty = TRUE
        /\ x.cursor = e.cursor + n /\ x.append = e.append
    <3>1. e.cursor + n \in 0 .. MaxSize
      BY <1>3, <2>4, <2>5, SizeFacts
    <3>. QED
      BY <2>3, <2>4, <3>1 DEF AfterRead, Kept, EntType
  <2>8. Sound'
    BY <1>1, <1>3, <1>6, <2>4, <2>5, <2>6, CopiesRight
  <2>9. d = disk \/ d = Stored(disk, fe[h])
    BY <1>3, <1>5, <2>1, SelectDisk
  <2>10. Called(h, x)
    BY <1>1, <1>2, <1>6, <2>1, <2>4, <2>6, <2>7, <2>8, <2>9 DEF Called
  <2>11. PICK f : f = fe[h].file
    OBVIOUS
  <2>12. /\ CarefulInv' /\ f \in Files
         /\ ContentOf(f) = ContentSeen(disk, fe[h]) /\ EntryOf(f) = fe[h]
         /\ ContentOf(f)' = ContentSeen(disk', x) /\ EntryOf(f)' = x
         /\ \A g \in Files \ {f} : ContentOf(g)' = ContentOf(g) /\ EntryOf(g)' = EntryOf(g)
    BY <1>3, <2>10, <2>11, CallStep
  <2>13. ContentSeen(d, x) = ContentSeen(d, e) /\ ContentSeen(d, e) = ContentSeen(disk, fe[h])
    BY <1>6, <2>1, <2>7, SameView
  <2>14. PICK c : c = ContentSeen(d, e)
    OBVIOUS
  <2>15. last' = [file |-> f, bytes |-> SubSeq(c, e.cursor + 1, e.cursor + n)]
    <3>1. (e.cursor % SectorSize) + n <= SectorSize
      BY <2>5 DEF Fits
    <3>. QED
      BY <2>4, <2>5, <2>6, <2>11, <2>14, <3>1, ReadBytes
  <2>16. /\ ContentOf(f) = c /\ ContentOf(f)' = c /\ EntryOf(f).cursor = e.cursor
         /\ EntryOf(f)'.cursor = e.cursor + n /\ EntryOf(f)'.append = EntryOf(f).append
    BY <1>2, <2>1, <2>4, <2>7, <2>12, <2>13, <2>14
  <2>17. e.cursor + n \in e.cursor + 1 .. Len(c)
    <3>1. Len(c) = e.inode.i_size /\ e.inode.i_size \in Nat
      BY <2>4, <2>14, ContentLength
    <3>. QED
      BY <1>3, <2>4, <2>5, <3>1
  <2>18. ReadOf(f)
    BY <2>12, <2>15, <2>16, <2>17 DEF ReadOf, OnlyFile
  <2>. QED
    BY <2>12, <2>18 DEF Simulated
<1>. QED
  BY <1>7, <1>8, <1>9

\* ext2_write is a Write of ByteStore.
LEMMA WriteSimulated ==
  ASSUME CarefulUse, HandlesInv, CarefulInv, NEW h \in Handles, NEW s \in Chunks, ext2_write(h, s)
  PROVE  CarefulInv' /\ Simulated
<1>. DEFINE N(e) == MinOf(Len(s), ext2_buffer_space(e.cursor))
<1>1. PICK r : r = AtEnd(fe[h])
  OBVIOUS
<1>2. /\ Callable(h) /\ Asked(r.cursor, Len(s)) /\ r.cursor + Len(s) <= MaxSize
      /\ Growth \/ r.cursor < BlockSize \/ BlockAt(r, r.cursor) # 0
      /\ last' = NothingRead /\ UNCHANGED <<inode, closing, shared>>
  BY <1>1 DEF ext2_write, AtEnd
<1>3. PICK o \in ext2_select_buffer(r) :
        /\ disk' = o.disk /\ unmarked' = o.unmarked
        /\ IF o.ok
           THEN fe' = [fe EXCEPT ![h] = Written(o.fe, s, N(o.fe))] /\ Copies(o.fe, N(o.fe))
           ELSE fe' = [fe EXCEPT ![h] = o.fe] /\ UNCHANGED <<overrun, misplaced>>
  BY <1>1 DEF ext2_write, AtEnd, Written
<1>4. /\ Typed /\ EntOK(fe[h]) /\ fe[h] \in EntType /\ fe[h].file # 0 /\ fe[h].inode.i_size \in 0 .. MaxSize
  BY <1>2, CallableFacts
<1>5. /\ EntOK(r) /\ r.file = fe[h].file /\ r.inode = fe[h].inode /\ Kept(r, fe[h]) /\ r.cursor \in Nat
      /\ r.cursor = IF fe[h].append THEN fe[h].inode.i_size ELSE fe[h].cursor
      /\ r.append = fe[h].append
  BY <1>1, <1>4, AtEndFacts
<1>6. r.fs_dirty = fe[h].fs_dirty
  BY <1>1, <1>4 DEF AtEnd, EntType
<1>7. /\ Len(s) \in Nat \ {0} /\ r.cursor < MaxSize
      /\ BlockAt(r, r.cursor) # 0 \/ r.cursor < BlockSize
  BY <1>2, <1>5, ChunkType, SizeFacts DEF CarefulUse
<1>8. Selected(r, o)
  BY <1>3, <1>4, <1>5, <1>7, SelectOutcome
<1>9. /\ SameFile(o.fe, r) /\ OneToOne(o.fe.inode.i_block) /\ Whole(o.disk, o.fe)
      /\ o.ok = TRUE => Ready(o.disk, o.fe)
      /\ ContentSeen(o.disk, o.fe) = ContentSeen(disk, fe[h])
      /\ unmarked' = unmarked
  BY <1>2, <1>3, <1>5, <1>7, <1>8, CarefulSelect
<1>10. o.ok \in BOOLEAN /\ EntOK(o.fe)
  BY <1>4, <1>5, <1>7, <1>8, SelectEnt
<1>11. CASE o.ok = FALSE
  <2>1. fe' = [fe EXCEPT ![h] = o.fe] /\ UNCHANGED <<overrun, misplaced>>
    BY <1>3, <1>11
  <2>. QED
    BY <1>2, <1>3, <1>5, <1>6, <1>7, <1>8, <1>11, <2>1, FailedCall
<1>12. CASE o.ok = TRUE
  <2>1. PICK e, d : e = o.fe /\ d = o.disk
    OBVIOUS
  <2>2. PICK n : n = N(e)
    OBVIOUS
  <2>3. PICK x : x = Written(e, s, n)
    OBVIOUS
  <2>4. /\ e \in EntType /\ e.cursor = r.cursor /\ e.inode.i_size = fe[h].inode.i_size /\ EntOK(e)
        /\ e.file = fe[h].file /\ e.append = fe[h].append /\ Ready(d, e)
        /\ Whole(d, e) /\ OneToOne(e.inode.i_block)
    BY <1>5, <1>9, <1>10, <1>12, <2>1 DEF SameFile
  <2>5. n = Len(s) /\ Fits(e.cursor, n)
    <3>1. PICK c \in Nat : c = e.cursor % SectorSize
      BY <1>5, <2>4, SpaceType
    <3>2. PICK sp \in Nat : sp = ext2_buffer_space(e.cursor)
      BY <1>5, <2>4, SpaceType
    <3>3. sp >= SectorSize - c
      BY <1>5, <2>4, <3>1, <3>2, SpaceType
    <3>4. c + Len(s) <= SectorSize
      BY <1>2, <2>4, <3>1 DEF CarefulUse, Asked
    <3>5. PICK l \in Nat : l = Len(s)
      BY <1>7
    <3>6. n = MinOf(l, sp)
      BY <2>2, <3>2, <3>5
    <3>7. n = l
      BY <3>3, <3>4, <3>5, <3>6, SizeFacts DEF MinOf
    <3>. QED
      BY <3>1, <3>4, <3>5, <3>7 DEF Fits
  <2>6. fe' = [fe EXCEPT ![h] = x] /\ Copies(e, n)
    BY <1>3, <1>12, <2>1, <2>2, <2>3
  <2>7. e.cursor + n <= MaxSize /\ n \in 0 .. Len(s) /\ n \in Nat
    BY <1>2, <1>7, <2>4, <2>5
  <2>8. IsWritten(x, e, s, n)
    BY <2>3, <2>4, <2>7, WriteFields
  <2>9. Sound'
    BY <1>2, <1>5, <1>9, <2>4, <2>5, <2>6, <2>7, CopiesRight
  <2>10. d = disk \/ d = Stored(disk, fe[h])
    BY <1>5, <1>8, <2>1, SelectDisk
  <2>11. Called(h, x)
    BY <1>2, <1>3, <2>1, <2>4, <2>6, <2>8, <2>9, <2>10 DEF Called, IsWritten
  <2>12. PICK f : f = fe[h].file
    OBVIOUS
  <2>13. /\ CarefulInv' /\ f \in Files
         /\ ContentOf(f) = ContentSeen(disk, fe[h]) /\ EntryOf(f) = fe[h]
         /\ ContentOf(f)' = ContentSeen(disk', x) /\ EntryOf(f)' = x
         /\ \A g \in Files \ {f} : ContentOf(g)' = ContentOf(g) /\ EntryOf(g)' = EntryOf(g)
    BY <1>4, <2>11, <2>12, CallStep
  <2>14. ContentSeen(d, e) = ContentSeen(disk, fe[h])
    BY <1>9, <2>1
  <2>15. PICK c : c = ContentSeen(d, e)
    OBVIOUS
  <2>16. ContentSeen(d, x) = Store!Overlay(c, e.cursor, s)
    BY <2>4, <2>5, <2>7, <2>8, <2>15, WriteBytes
  <2>17. Len(c) = fe[h].inode.i_size
    BY <2>4, <2>15, ContentLength
  <2>18. /\ ContentOf(f) = c /\ ContentOf(f)' = Store!Overlay(c, e.cursor, s)
         /\ e.cursor = IF EntryOf(f).append THEN Len(c) ELSE EntryOf(f).cursor
         /\ EntryOf(f)'.cursor = e.cursor + Len(s) /\ EntryOf(f)'.append = EntryOf(f).append
    <3>1. x.cursor = e.cursor + Len(s) /\ x.append = fe[h].append
      BY <2>4, <2>5, <2>8 DEF IsWritten
    <3>. QED
      BY <1>3, <1>5, <2>1, <2>4, <2>13, <2>14, <2>15, <2>16, <2>17, <3>1
  <2>19. WriteOf(f)
    BY <1>2, <2>13, <2>18 DEF WriteOf, OnlyFile
  <2>. QED
    BY <2>13, <2>19 DEF Simulated
<1>. QED
  BY <1>10, <1>11, <1>12

\* A file shows the bytes it has on the volume when it is opened, ...
LEMMA OpenSimulated ==
  ASSUME CarefulUse, HandlesInv, CarefulInv, NEW h \in Handles, NEW f \in Files,
         NEW w \in BOOLEAN, NEW a \in BOOLEAN, ext2_open(h, f, w, a)
  PROVE  CarefulInv' /\ Simulated
<1>1. PICK x : x = [Closed EXCEPT !.file = f, !.inode = OpenInode(f), !.write = w, !.append = a]
  OBVIOUS
<1>2. /\ fe' = [fe EXCEPT ![h] = x] /\ fe[h].file = 0 /\ last' = NothingRead
      /\ \A k \in Handles : fe[k].file # f
      /\ UNCHANGED <<disk, inode, unmarked, overrun, misplaced>>
      /\ shared' = (shared \/ \E k \in Handles : fe[k].file = f)
  BY <1>1 DEF ext2_open, CarefulUse
<1>3. Sound'
  <2>1. ~shared'
    <3>1. ~shared /\ ~\E k \in Handles : fe[k].file = f
      BY <1>2 DEF CarefulInv, Sound
    <3>2. shared' = (shared \/ \E k \in Handles : fe[k].file = f)
      BY <1>2
    <3>. QED
      BY <3>1, <3>2
  <2>. QED
    BY <1>2, <2>1 DEF CarefulInv, Sound
<1>4. x.inode = inode[f] /\ x.file = f /\ ~x.dirty
  BY <1>1, ClosedFacts DEF OpenInode, EntType
<1>5. Typed /\ \A k \in Handles : fe'[k] = IF k = h THEN x ELSE fe[k]
  BY <1>2 DEF HandlesInv, Typed
<1>6. CarefulInv'
  BY <1>2, <1>3, <1>4, <1>5 DEF CarefulInv
<1>7. ASSUME NEW g \in Files PROVE ContentOf(g)' = ContentOf(g)
  <2>1. CASE g # f
    <3>1. g # fe[h].file /\ g # x.file /\ inode'[g] = inode[g] /\ disk' = disk
      BY <1>2, <1>4, <2>1, SizeFacts
    <3>. QED
      BY <1>2, <3>1, OthersContent
  <2>2. CASE g = f
    <3>1. HandlesOf(f) = {} /\ HandlesOf(f)' = {h}
      BY <1>2, <1>4, <1>5 DEF HandlesOf
    <3>2. inode[f] \in InodeType
      BY <1>5 DEF Typed
    <3>3. ContentOf(f) = ContentSeen(disk, Fresh(inode[f]))
      BY <3>1, <3>2, ClosedContent
    <3>4. ContentOf(f)' = ContentSeen(disk, x)
      BY <1>2, <1>5, <3>1, OpenContentNext
    <3>5. Fresh(inode[f]).inode = inode[f] /\ ~Fresh(inode[f]).dirty
      BY <3>2, FreshFacts
    <3>6. ContentSeen(disk, x) = ContentSeen(disk, Fresh(inode[f]))
      BY <1>4, <3>5 DEF ContentSeen, Seen, BlockAt
    <3>. QED
      BY <2>2, <3>3, <3>4, <3>6
  <2>. QED
    BY <2>1, <2>2
<1>. QED
  BY <1>2, <1>6, <1>7 DEF Simulated, QuietStep

\* ... and keeps those its handle shows when it is closed.
LEMMA CloseFlushSimulated ==
  ASSUME CarefulUse, HandlesInv, CarefulInv, NEW h \in Handles, CloseFlush(h)
  PROVE  CarefulInv' /\ Simulated
<1>1. /\ fe' = [fe EXCEPT ![h] = Closed] /\ last' = NothingRead
      /\ UNCHANGED <<disk, unmarked, overrun, misplaced, shared>>
      /\ inode' = IF fe[h].fs_dirty THEN [inode EXCEPT ![fe[h].file] = fe[h].inode] ELSE inode
  BY DEF CloseFlush, CarefulUse
<1>2. Typed /\ fe[h].file # 0 /\ ~fe[h].dirty
  BY SizeFacts DEF HandlesInv, CloseFlush, Callable, Idle, Typed
<1>3. PICK f \in Files : f = fe[h].file
  BY <1>2 DEF Typed, EntType
<1>4. /\ fe[h] \in EntType /\ fe[h].inode \in InodeType
      /\ \A k \in Handles : fe'[k] = IF k = h THEN Closed ELSE fe[k]
  BY <1>1, <1>2 DEF Typed, EntType
<1>5. inode'[f] = fe[h].inode /\ \A g \in Files \ {f} : inode'[g] = inode[g]
  BY <1>1, <1>2, <1>3 DEF CarefulInv, Typed
<1>6. CarefulInv'
  <2>1. Sound'
    BY <1>1 DEF CarefulInv, Sound
  <2>2. \A g \in Files : OneToOne(inode'[g].i_block)
    BY <1>2, <1>5 DEF CarefulInv
  <2>3. ASSUME NEW k \in Handles, fe'[k].file # 0
        PROVE  fe'[k] = fe[k] /\ inode'[fe[k].file] = inode[fe[k].file] /\ fe[k].file # 0
    <3>1. k # h /\ fe'[k] = fe[k]
      BY <1>4, <2>3, ClosedFacts
    <3>2. fe[k].file \in Files \ {f}
      BY <1>2, <1>3, <2>3, <3>1 DEF Typed, EntType, HandlesInv, OneEach, CarefulInv, Sound
    <3>. QED
      BY <1>5, <2>3, <3>1, <3>2
  <2>. QED
    BY <2>1, <2>2, <2>3 DEF CarefulInv
<1>7. ASSUME NEW g \in Files PROVE ContentOf(g)' = ContentOf(g)
  <2>1. CASE g # f
    <3>1. PICK x : x = Closed
      OBVIOUS
    <3>2. g # x.file
      BY <3>1, SizeFacts, ClosedFacts
    <3>3. fe' = [fe EXCEPT ![h] = x] /\ disk' = disk
      BY <1>1, <3>1
    <3>4. g # fe[h].file /\ inode'[g] = inode[g]
      BY <1>3, <1>5, <2>1
    <3>. QED
      BY <3>2, <3>3, <3>4, OthersContent
  <2>2. CASE g = f
    <3>1. HandlesOf(f) = {h}
      BY <1>3, OneHandle
    <3>2. HandlesOf(f)' = {}
      BY <1>4, <3>1, ClosedFacts, SizeFacts DEF HandlesOf
    <3>3. ContentOf(f) = ContentSeen(disk, fe[h])
      BY <3>1, OpenContent
    <3>4. PICK i \in InodeType : i = fe[h].inode
      BY <1>4
    <3>5. ContentOf(f)' = ContentSeen(disk, Fresh(i))
      BY <1>1, <1>5, <3>2, <3>4, ClosedContentNext
    <3>6. Fresh(i).inode = i /\ ~Fresh(i).dirty
      BY FreshFacts
    <3>7. ContentSeen(disk, Fresh(i)) = ContentSeen(disk, fe[h])
      BY <1>2, <3>4, <3>6 DEF ContentSeen, Seen, BlockAt
    <3>. QED
      BY <2>2, <3>3, <3>5, <3>7
  <2>. QED
    BY <2>1, <2>2
<1>. QED
  BY <1>1, <1>6, <1>7 DEF Simulated, QuietStep

\* Every call is a step of the store.
LEMMA StepSimulated ==
  ASSUME CarefulUse, HandlesInv, CarefulInv, Next
  PROVE  CarefulInv' /\ Store!Next
<1>1. ~Crash
  BY DEF Crash, CarefulUse
<1>2. CarefulInv' /\ Simulated
  BY <1>1, OpenSimulated, SeekSimulated, ReadSimulated, WriteSimulated, CloseStoreSimulated,
     CloseFlushSimulated DEF Next
<1>. QED
  BY <1>2, SimulatedIsNext

\* The initial volume satisfies CarefulInv.
LEMMA CarefulInit == Init => CarefulInv
<1>. SUFFICES ASSUME Init PROVE CarefulInv
  OBVIOUS
<1>1. Sound
  BY DEF Init, Sound
<1>2. \A f \in Files : OneToOne(inode[f].i_block)
  BY VolumeAssumption DEF Init, OneToOne
<1>3. \A h \in Handles : fe[h].file = 0
  BY ClosedFacts DEF Init
<1>. QED
  BY <1>1, <1>2, <1>3 DEF CarefulInv

\* What careful callers rely on, in every reachable state.
THEOREM CarefulInvariant == CarefulUse => (Spec => []CarefulInv)
<1>. SUFFICES ASSUME CarefulUse PROVE Spec => []CarefulInv
  OBVIOUS
<1>1. HandlesInv /\ CarefulInv /\ [Next]_vars => CarefulInv'
  <2>1. HandlesInv /\ CarefulInv /\ Next => CarefulInv'
    BY StepSimulated
  <2>2. CarefulInv /\ UNCHANGED vars => CarefulInv'
    BY DEF CarefulInv, Sound, vars
  <2>. QED
    BY <2>1, <2>2
<1>. QED
  BY <1>1, CarefulInit, HandlesInvariant, PTL DEF Spec

\* Seen through their handles, the files of a volume whose device does not fail
\* are sequences of bytes, for callers who stay within a sector, open a file
\* once and let it grow no further than its first block: a read returns the bytes
\* that are at the cursor, a write replaces them or appends, and no open, seek,
\* close, or buffer moved from one sector to another changes a file.
THEOREM HandlesImplementStore == CarefulUse => (Spec => Implements)
<1>. SUFFICES ASSUME CarefulUse PROVE Spec => Implements
  OBVIOUS
<1>. DEFINE content == [f \in Files |-> ContentOf(f)]
            handle == [f \in Files |-> [cursor |-> EntryOf(f).cursor, append |-> EntryOf(f).append]]
<1>1. HandlesInv /\ CarefulInv /\ [Next]_vars => [Store!Next]_<<content, handle, last>>
  <2>1. HandlesInv /\ CarefulInv /\ Next => Store!Next
    BY StepSimulated
  <2>2. UNCHANGED vars => UNCHANGED <<content, handle, last>>
    BY DEF vars, ContentOf, CellAt, View, EntryOf, HandlesOf
  <2>. QED
    BY <2>1, <2>2
<1>. QED
  BY <1>1, CarefulInvariant, HandlesInvariant, PTL DEF Spec, Implements, Store!Spec
=============================================================================
