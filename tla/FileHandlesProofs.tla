------------------------- MODULE FileHandlesProofs -------------------------
(***************************************************************************)
(* Theorems about FileHandles, for every volume, sector and block size,    *)
(* number of files and handles, and every choice of the callers' and the   *)
(* device's habits (WithinSector, Sharing, Growth, Faulty).                *)
(***************************************************************************)
EXTENDS FileHandles, TLAPS

(***************************************************************************)
(* The inductive invariant.                                                *)
(***************************************************************************)

EntType ==
  [file : Files \cup {0}, cursor : 0 .. MaxSize, write : BOOLEAN, append : BOOLEAN,
   fs_dirty : BOOLEAN, lba : Lbas \cup {0}, buf : Sector, dirty : BOOLEAN, inode : InodeType]

\* A struct file_ent as the calls leave it: the cursor is within the file, and
\* a dirty buffer belongs to a file and has a sector to go to.
EntOK(r) ==
  /\ r \in EntType
  /\ r.cursor <= r.inode.i_size
  /\ r.dirty => r.lba # 0 /\ r.file # 0

Typed ==
  /\ disk \in [Lbas -> Sector]
  /\ inode \in [Files -> InodeType]
  /\ free \subseteq BlockNumbers \ {0} /\ unmarked \subseteq BlockNumbers \ {0}
  /\ fe \in [Handles -> EntType] /\ \A h \in Handles : EntOK(fe[h])
  /\ closing \in Handles \cup {0}
  /\ closing # 0 => fe[closing].file # 0 /\ ~fe[closing].dirty
  /\ astray \in BOOLEAN
  /\ overrun \in BOOLEAN /\ misplaced \in BOOLEAN /\ shared \in BOOLEAN
  /\ overrun => closing = 0

\* A file is open once, unless somebody shared it.
OneEach ==
  ~shared => \A h, k \in Handles : h # k /\ fe[h].file # 0 => fe[k].file # fe[h].file

BlockOf(lba) == lba \div SectorsPerBlock

\* The blocks a struct file_ent can write to, now or after its next calls.
Reaches(r, b) ==
  \/ \E k \in Entries : r.inode.i_block[k] = b
  \/ r.dirty /\ BlockOf(r.lba) = b

\* A block is a file's if its inode has it, on the volume or in a handle, or if
\* the modified buffer of one of its handles is on its way there.
Holds(f, b) ==
  \/ \E k \in Entries : inode[f].i_block[k] = b
  \/ \E h \in Handles : fe[h].file = f /\ Reaches(fe[h], b)

\* No block is two files', and none is a file's and free, but those that were
\* handed out although their bit could not be stored.
Private ==
  \A f \in Files : \A b \in (BlockNumbers \ {0}) \ unmarked : Holds(f, b) =>
    /\ b \notin free
    /\ \A g \in Files : Holds(g, b) => g = f

\* Nothing happened that may make a handle's view of its file wrong.
Sound == ~misplaced /\ ~shared /\ ~overrun /\ unmarked = {}

\* No file on the volume is longer than in the handle it is open through.
Longer ==
  ~shared => \A h \in Handles : fe[h].file # 0 => inode[fe[h].file].i_size <= fe[h].inode.i_size

\* The handle has the blocks the volume has, as far as the file goes there.
Agrees ==
  Sound => \A h \in Handles : fe[h].file # 0 =>
    \A pos \in 0 .. inode[fe[h].file].i_size - 1 :
      inode[fe[h].file].i_block[pos \div BlockSize] = fe[h].inode.i_block[pos \div BlockSize]

\* The sector a struct file_ent would find at lba on the device d.
Seen(d, r, lba) == IF r.dirty /\ r.lba = lba THEN r.buf ELSE d[lba]

\* Every byte of the file has a block and was written, seen through the buffer.
Whole(d, r) ==
  \A pos \in 0 .. r.inode.i_size - 1 :
    /\ BlockAt(r, pos) # 0
    /\ Seen(d, r, SectorIn(BlockAt(r, pos), pos))[pos % SectorSize] # Junk

AllWhole == Sound => \A h \in Handles : fe[h].file # 0 => Whole(disk, fe[h])

HandlesInv ==
  Typed /\ OneEach /\ Private /\ Longer /\ Agrees /\ AllWhole /\ SizeAfterData

(***************************************************************************)
(* Positions, sectors and blocks.                                          *)
(***************************************************************************)

\* The constants that only their type is needed of.
LEMMA SizeFacts ==
  /\ SectorSize \in Nat \ {0} /\ SectorsPerBlock \in Nat \ {0, 1} /\ BlocksPerFile \in Nat \ {0}
  /\ MaxSize \in Nat /\ MaxCount \in Nat
  /\ 0 \notin Files /\ 0 \notin Handles /\ Junk \notin Bytes
  BY SizeAssumption

\* Quotient and remainder of a number that is given in parts.
LEMMA DivMod ==
  ASSUME NEW k \in Nat \ {0}, NEW q \in Nat, NEW r \in 0 .. k - 1, NEW x, x = k * q + r
  PROVE  x \div k = q /\ x % k = r
  OBVIOUS

\* A number is made of its quotient and its remainder.
LEMMA DivModSplit ==
  ASSUME NEW k \in Nat \ {0}, NEW a \in Nat
  PROVE  a \div k \in Nat /\ a % k \in 0 .. k - 1 /\ a = k * (a \div k) + (a % k)
  OBVIOUS

\* A product of natural numbers is one.
LEMMA Product ==
  ASSUME NEW a \in Nat, NEW b \in Nat
  PROVE  a * b \in Nat /\ b * a = a * b
  OBVIOUS

\* Multiplication is monotonic.
LEMMA Monotonic ==
  ASSUME NEW k \in Nat, NEW a \in Nat, NEW b \in Nat, a <= b
  PROVE  a * k <= b * k
  OBVIOUS

\* A block has at least a byte.
LEMMA BlockSizeType == BlockSize \in Nat \ {0}
<1>1. SectorSize * SectorsPerBlock \in Nat
  BY SizeFacts, Product
<1>2. SectorSize * SectorsPerBlock >= SectorSize
  BY SizeFacts, Monotonic
<1>. QED
  BY <1>1, <1>2, SizeFacts DEF BlockSize

\* A position is block q, sector j in it and byte t in that.
LEMMA Coordinates ==
  ASSUME NEW q \in Nat, NEW j \in 0 .. SectorsPerBlock - 1, NEW t \in Offsets,
         NEW pos, pos = BlockSize * q + (SectorSize * j + t)
  PROVE  /\ pos \div BlockSize = q
         /\ (pos % BlockSize) \div SectorSize = j
         /\ pos % SectorSize = t
<1>. DEFINE m == SectorSize * j + t
<1>1. t \in Nat /\ t < SectorSize /\ j \in Nat /\ j <= SectorsPerBlock - 1
  BY SizeFacts DEF Offsets
<1>2. SectorSize * j \in Nat
  BY <1>1, SizeFacts, Product
<1>3. m \in Nat
  BY <1>1, <1>2
<1>4. m < BlockSize
  <2>1. j * SectorSize <= (SectorsPerBlock - 1) * SectorSize
    BY <1>1, SizeFacts, Monotonic
  <2>2. (SectorsPerBlock - 1) * SectorSize = BlockSize - SectorSize
    BY SizeFacts DEF BlockSize
  <2>3. SectorSize * j <= BlockSize - SectorSize
    BY <1>1, <2>1, <2>2, SizeFacts, Product
  <2>. QED
    BY <1>1, <1>2, <2>3, SizeFacts, BlockSizeType
<1>5. pos = BlockSize * q + m /\ m \in 0 .. BlockSize - 1
  BY <1>3, <1>4, BlockSizeType
<1>6. pos \div BlockSize = q /\ pos % BlockSize = m
  <2>. HIDE DEF m
  <2>1. \A x : x = BlockSize * q + m => x \div BlockSize = q /\ x % BlockSize = m
    BY <1>5, BlockSizeType, DivMod
  <2>. QED
    BY <1>5, <2>1
<1>7. m \div SectorSize = j
  <2>1. t \in 0 .. SectorSize - 1 /\ m = SectorSize * j + t
    BY DEF Offsets
  <2>. HIDE DEF m
  <2>. QED
    BY <1>1, <2>1, SizeFacts, DivMod
<1>8. pos % SectorSize = t
  <2>1. SectorsPerBlock * q \in Nat
    BY SizeFacts, Product
  <2>2. SectorsPerBlock * q + j \in Nat
    BY <1>1, <2>1
  <2>3. pos = SectorSize * (SectorsPerBlock * q + j) + t
    BY <1>1, SizeFacts DEF BlockSize
  <2>4. t \in 0 .. SectorSize - 1
    BY DEF Offsets
  <2>5. PICK p \in Nat : p = SectorsPerBlock * q + j
    BY <2>2
  <2>6. pos = SectorSize * p + t
    BY <2>3, <2>5
  <2>. QED
    <3>1. \A x : x = SectorSize * p + t => x % SectorSize = t
      BY <2>4, SizeFacts, DivMod
    <3>. QED
      BY <2>6, <3>1
<1>. QED
  BY <1>6, <1>7, <1>8

\* Every position has those coordinates.
LEMMA Located ==
  ASSUME NEW pos \in Nat
  PROVE  \E q \in Nat, j \in 0 .. SectorsPerBlock - 1, t \in Offsets :
           pos = BlockSize * q + (SectorSize * j + t)
<1>1. /\ pos \div BlockSize \in Nat /\ pos % BlockSize \in Nat /\ pos % BlockSize < BlockSize
      /\ pos = BlockSize * (pos \div BlockSize) + (pos % BlockSize)
  BY BlockSizeType, DivModSplit
<1>2. PICK m \in Nat : m = pos % BlockSize
  BY <1>1
<1>3. /\ m \div SectorSize \in Nat /\ m % SectorSize \in 0 .. SectorSize - 1
      /\ m = SectorSize * (m \div SectorSize) + (m % SectorSize)
  BY <1>2, SizeFacts, DivModSplit
<1>4. PICK j \in Nat : j = m \div SectorSize
  BY <1>3
<1>5. PICK t \in Offsets : t = m % SectorSize
  BY <1>3 DEF Offsets
<1>6. j <= SectorsPerBlock - 1
  <2>1. SUFFICES ASSUME j >= SectorsPerBlock PROVE FALSE
    BY SizeFacts
  <2>2. SectorsPerBlock * SectorSize <= j * SectorSize
    BY <2>1, SizeFacts, Monotonic
  <2>3. BlockSize <= SectorSize * j
    BY <2>2, SizeFacts, Product DEF BlockSize
  <2>4. SectorSize * j \in Nat /\ t \in Nat
    BY SizeFacts, Product DEF Offsets
  <2>. QED
    BY <1>1, <1>2, <1>3, <1>4, <1>5, <2>3, <2>4, BlockSizeType
<1>7. j \in 0 .. SectorsPerBlock - 1
  BY <1>6, SizeFacts
<1>8. pos = BlockSize * (pos \div BlockSize) + (SectorSize * j + t)
  BY <1>1, <1>2, <1>3, <1>4, <1>5
<1>. QED
  BY <1>1, <1>7, <1>8

\* The parts of a position have their ranges.
LEMMA PositionType ==
  ASSUME NEW pos \in Nat
  PROVE  /\ pos \div BlockSize \in Nat /\ pos % SectorSize \in Offsets
         /\ (pos % BlockSize) \div SectorSize \in 0 .. SectorsPerBlock - 1
<1>1. PICK q \in Nat, j \in 0 .. SectorsPerBlock - 1, t \in Offsets :
        pos = BlockSize * q + (SectorSize * j + t)
  BY Located
<1>. QED
  BY <1>1, Coordinates

\* The bytes that follow a position up to the end of its sector are in the same
\* block and sector.
LEMMA SameSector ==
  ASSUME NEW cur \in Nat, NEW pos \in Nat, cur <= pos, (cur % SectorSize) + (pos - cur) < SectorSize
  PROVE  /\ pos \div BlockSize = cur \div BlockSize
         /\ (pos % BlockSize) \div SectorSize = (cur % BlockSize) \div SectorSize
         /\ pos % SectorSize = (cur % SectorSize) + (pos - cur)
<1>1. PICK q \in Nat, j \in 0 .. SectorsPerBlock - 1, t \in Offsets :
        cur = BlockSize * q + (SectorSize * j + t)
  BY Located
<1>2. /\ cur \div BlockSize = q /\ (cur % BlockSize) \div SectorSize = j
      /\ cur % SectorSize = t
  BY <1>1, Coordinates
<1>3. PICK u \in Offsets : u = t + (pos - cur)
  BY <1>2, SizeFacts DEF Offsets
<1>4. pos = BlockSize * q + (SectorSize * j + u)
  <2>1. BlockSize * q \in Nat /\ SectorSize * j \in Nat /\ t \in Nat /\ u \in Nat
    BY SizeFacts, BlockSizeType, Product DEF Offsets
  <2>. QED
    BY <1>1, <1>3, <2>1
<1>5. /\ pos \div BlockSize = q /\ (pos % BlockSize) \div SectorSize = j
      /\ pos % SectorSize = u
  BY <1>4, Coordinates
<1>. QED
  BY <1>2, <1>3, <1>5

\* A position in a file has an entry of i_block.
LEMMA EntryOfPosition ==
  ASSUME NEW pos \in Nat, pos < MaxSize
  PROVE  pos \div BlockSize \in Entries
<1>1. PICK q \in Nat : q = pos \div BlockSize
  BY PositionType
<1>2. pos % BlockSize \in Nat /\ pos = BlockSize * q + (pos % BlockSize)
  BY <1>1, BlockSizeType, DivModSplit
<1>3. q < BlocksPerFile
  <2>1. SUFFICES ASSUME q >= BlocksPerFile PROVE FALSE
    BY SizeFacts
  <2>2. BlocksPerFile * BlockSize <= q * BlockSize
    BY <2>1, SizeFacts, BlockSizeType, Monotonic
  <2>3. MaxSize <= BlocksPerFile * BlockSize
    BY SizeAssumption
  <2>4. /\ BlocksPerFile * BlockSize \in Nat /\ q * BlockSize \in Nat
        /\ q * BlockSize = BlockSize * q
    BY SizeFacts, BlockSizeType, Product
  <2>. QED
    BY <1>2, <2>2, <2>3, <2>4, SizeFacts
<1>. QED
  BY <1>1, <1>3, SizeFacts DEF Entries

\* A sector of a block is on the device, and the block is found from it.
LEMMA SectorType ==
  ASSUME NEW b \in BlockNumbers \ {0}, NEW pos \in Nat
  PROVE  /\ SectorIn(b, pos) \in Lbas
         /\ BlockOf(SectorIn(b, pos)) = b
<1>1. PICK lba \in Lbas : b = lba \div SectorsPerBlock
  BY DEF BlockNumbers
<1>2. PICK j \in 0 .. SectorsPerBlock - 1 : j = (pos % BlockSize) \div SectorSize
  BY PositionType
<1>3. b * SectorsPerBlock + j \in Lbas
  BY <1>1, VolumeAssumption
<1>4. b \in Nat
  BY <1>1, VolumeAssumption, SizeFacts, DivModSplit
<1>5. SectorIn(b, pos) = SectorsPerBlock * b + j
  BY <1>2, <1>4, SizeFacts DEF SectorIn
<1>6. BlockOf(SectorIn(b, pos)) = b
  BY <1>4, <1>5, SizeFacts, DivMod DEF BlockOf
<1>. QED
  BY <1>2, <1>3, <1>6 DEF SectorIn

\* The sectors of the device are those of its blocks; 0 is not one.
LEMMA LbaType ==
  /\ Lbas \subseteq Nat /\ 0 \notin Lbas
  /\ \A lba \in Lbas : BlockOf(lba) \in BlockNumbers \ {0}
<1>1. Lbas \subseteq Nat /\ \A lba \in Lbas : lba \div SectorsPerBlock # 0
  BY VolumeAssumption
<1>2. 0 \div SectorsPerBlock = 0
  <2>1. 0 \in 0 .. SectorsPerBlock - 1 /\ 0 = SectorsPerBlock * 0 + 0
    BY SizeFacts
  <2>. QED
    BY <2>1, SizeFacts, DivMod
<1>. QED
  BY <1>1, <1>2 DEF BlockOf, BlockNumbers

(***************************************************************************)
(* What the functions on the buffer leave.                                 *)
(***************************************************************************)

Junks == [k \in Offsets |-> Junk]

\* The device once the buffer of r, if it is dirty, is stored.
Stored(d, r) == IF r.dirty THEN [d EXCEPT ![r.lba] = r.buf] ELSE d

\* x is r but for the buffer and the blocks.
SameFile(x, r) ==
  /\ x \in EntType
  /\ x.file = r.file /\ x.cursor = r.cursor /\ x.write = r.write /\ x.append = r.append
  /\ x.fs_dirty = r.fs_dirty /\ x.inode.i_size = r.inode.i_size

\* x has the buffer of r.
Kept(x, r) == x.lba = r.lba /\ x.buf = r.buf /\ x.dirty = r.dirty

\* x has just been loaded.
Loaded(x, lba, buf) == x.lba = lba /\ x.buf = buf /\ ~x.dirty

\* x has the blocks of r, or b as its first.
Entered(x, r, b) == x.inode.i_block = [r.inode.i_block EXCEPT ![0] = b]

\* A stored buffer is a sector of the device, and what the handle saw there.
LEMMA StoredType ==
  ASSUME NEW d \in [Lbas -> Sector], NEW r, EntOK(r)
  PROVE  /\ Stored(d, r) \in [Lbas -> Sector]
         /\ \A lba \in Lbas : Stored(d, r)[lba] = Seen(d, r, lba)
<1>1. r.dirty => r.lba \in Lbas /\ r.buf \in Sector
  BY DEF EntOK, EntType
<1>. QED
  BY <1>1 DEF Stored, Seen

\* ext2_store_buffer writes the buffer, or leaves everything as it is.
LEMMA StoreOutcome ==
  ASSUME NEW d \in [Lbas -> Sector], NEW r, EntOK(r), NEW o \in ext2_store_buffer(d, r)
  PROVE  /\ SameFile(o.fe, r) /\ o.fe.inode = r.inode
         /\ \/ /\ o.ok = TRUE /\ o.disk = [d EXCEPT ![r.lba] = r.buf]
               /\ Loaded(o.fe, r.lba, r.buf)
            \/ o.ok = FALSE /\ Faulty /\ o.disk = d /\ o.fe = r
<1>1. \/ o = [ok |-> TRUE, disk |-> [d EXCEPT ![r.lba] = r.buf], fe |-> [r EXCEPT !.dirty = FALSE]]
      \/ Faulty /\ o = [ok |-> FALSE, disk |-> d, fe |-> r]
  BY DEF ext2_store_buffer
<1>2. r \in EntType
  BY DEF EntOK
<1>. QED
  <2>1. CASE o = [ok |-> FALSE, disk |-> d, fe |-> r] /\ Faulty
    BY <1>2, <2>1 DEF SameFile
  <2>2. CASE o = [ok |-> TRUE, disk |-> [d EXCEPT ![r.lba] = r.buf], fe |-> [r EXCEPT !.dirty = FALSE]]
    <3>1. o.ok = TRUE /\ o.disk = [d EXCEPT ![r.lba] = r.buf] /\ o.fe = [r EXCEPT !.dirty = FALSE]
      BY <2>2
    <3>2. SameFile(o.fe, r) /\ o.fe.inode = r.inode /\ Loaded(o.fe, r.lba, r.buf)
      <4>1. PICK x : x = [r EXCEPT !.dirty = FALSE]
        OBVIOUS
      <4>2. x \in EntType
        BY <1>2, <4>1 DEF EntType
      <4>3. /\ x.file = r.file /\ x.cursor = r.cursor /\ x.write = r.write
            /\ x.append = r.append /\ x.fs_dirty = r.fs_dirty
        BY <1>2, <4>1 DEF EntType
      <4>4. x.inode = r.inode /\ x.lba = r.lba /\ x.buf = r.buf /\ x.dirty = FALSE
        BY <1>2, <4>1 DEF EntType
      <4>. QED
        BY <3>1, <4>1, <4>2, <4>3, <4>4 DEF SameFile, Loaded
    <3>. QED
      BY <3>1, <3>2
  <2>. QED
    BY <1>1, <2>1, <2>2

\* ext2_load_buffer stores a dirty buffer and loads a sector; if it cannot store
\* it, it leaves everything as it is.
LEMMA LoadOutcome ==
  ASSUME NEW d \in [Lbas -> Sector], NEW r, EntOK(r), NEW lba \in Lbas,
         NEW o \in ext2_load_buffer(d, r, lba)
  PROVE  /\ SameFile(o.fe, r) /\ o.fe.inode = r.inode
         /\ \/ o.disk = Stored(d, r) /\ Loaded(o.fe, lba, Stored(d, r)[lba])
            \/ Faulty /\ r.dirty /\ o.disk = d /\ o.fe = r
<1>. DEFINE S == IF r.dirty THEN ext2_store_buffer(d, r) ELSE {[ok |-> TRUE, disk |-> d, fe |-> r]}
<1>1. PICK p \in S : o = IF p.ok THEN [p EXCEPT !.fe = [p.fe EXCEPT !.lba = lba, !.buf = p.disk[lba]]]
                         ELSE p
  BY DEF ext2_load_buffer
<1>2. /\ SameFile(p.fe, r) /\ p.fe.inode = r.inode
      /\ \/ p.ok = TRUE /\ p.disk = Stored(d, r) /\ ~p.fe.dirty
         \/ p.ok = FALSE /\ Faulty /\ r.dirty /\ p.disk = d /\ p.fe = r
  <2>1. CASE r.dirty
    <3>1. p \in ext2_store_buffer(d, r)
      BY <2>1
    <3>2. /\ SameFile(p.fe, r) /\ p.fe.inode = r.inode
          /\ \/ /\ p.ok = TRUE /\ p.disk = [d EXCEPT ![r.lba] = r.buf]
                /\ Loaded(p.fe, r.lba, r.buf)
             \/ p.ok = FALSE /\ Faulty /\ p.disk = d /\ p.fe = r
      BY <3>1, StoreOutcome
    <3>. QED
      BY <2>1, <3>2 DEF Stored, Loaded
  <2>2. CASE ~r.dirty
    BY <2>2 DEF Stored, SameFile, EntOK
  <2>. QED
    BY <2>1, <2>2
<1>3. CASE p.ok = TRUE
  <2>1. o = [p EXCEPT !.fe = [p.fe EXCEPT !.lba = lba, !.buf = p.disk[lba]]]
    BY <1>1, <1>3
  <2>2. Stored(d, r)[lba] \in Sector
    BY StoredType
  <2>3. p.fe \in EntType
    BY <1>2 DEF SameFile
  <2>4. \/ p \in ext2_store_buffer(d, r)
        \/ p = [ok |-> TRUE, disk |-> d, fe |-> r]
    OBVIOUS
  <2>5. o.disk = p.disk /\ o.fe = [p.fe EXCEPT !.lba = lba, !.buf = p.disk[lba]]
    BY <2>1, <2>4 DEF ext2_store_buffer
  <2>. QED
    BY <1>2, <1>3, <2>2, <2>3, <2>5 DEF SameFile, Loaded, EntType
<1>4. CASE p.ok = FALSE
  BY <1>1, <1>2, <1>4
<1>. QED
  BY <1>2, <1>3, <1>4

\* ext2_select_buffer found a block at the cursor ...
Found(r, o) ==
  LET lba == SectorIn(BlockAt(r, r.cursor), r.cursor)
  IN
  /\ BlockAt(r, r.cursor) # 0 /\ o.ok = TRUE /\ o.free = free /\ o.unmarked = unmarked
  /\ o.astray = FALSE
  /\ SameFile(o.fe, r) /\ o.fe.inode = r.inode
  /\ \/ o.disk = Stored(disk, r) /\ Loaded(o.fe, lba, Stored(disk, r)[lba])
     \/ Faulty /\ r.dirty /\ o.disk = disk /\ Kept(o.fe, r)

\* ... or none and got none ...
NotFound(r, o) ==
  /\ BlockAt(r, r.cursor) = 0 /\ o.ok = FALSE /\ o.free = free /\ o.unmarked = unmarked
  /\ o.astray \in BOOLEAN
  /\ SameFile(o.fe, r) /\ o.fe.inode = r.inode
  /\ \/ o.disk = disk /\ Kept(o.fe, r)
     \/ o.disk = Stored(disk, r) /\ Loaded(o.fe, 0, Junks)

\* The bit of b was set, or could not be stored.
Marked(b, m) ==
  \/ m.free = free \ {b} /\ m.unmarked = unmarked
  \/ Faulty /\ m.free = free /\ m.unmarked = unmarked \cup {b}

\* ... or got block b.
Allocated(r, o, b) ==
  LET lba == SectorIn(b, r.cursor)
  IN
  /\ BlockAt(r, r.cursor) = 0 /\ o.ok = TRUE /\ Marked(b, o) /\ o.astray = FALSE
  /\ SameFile(o.fe, r) /\ Entered(o.fe, r, b)
  /\ o.disk = Stored(disk, r) /\ Loaded(o.fe, lba, Stored(disk, r)[lba])

Selected(r, o) == Found(r, o) \/ NotFound(r, o) \/ \E b \in free : Allocated(r, o, b)

\* What i_block has for a position is a block number.
LEMMA BlockAtType ==
  ASSUME NEW r \in EntType, NEW pos \in Nat, pos < MaxSize
  PROVE  BlockAt(r, pos) \in BlockNumbers
  BY EntryOfPosition DEF BlockAt, EntType, InodeType

\* What a bitmap leaves in the buffer is a sector.
LEMMA JunksType == Junks \in Sector
  BY DEF Junks, Sector

\* A block is entered in the first place.
LEMMA EnteredType ==
  ASSUME NEW x \in EntType, NEW b \in BlockNumbers
  PROVE  LET e == [x EXCEPT !.inode.i_block[0] = b]
         IN  /\ SameFile(e, x) /\ Kept(e, x) /\ Entered(e, x, b)
<1>. DEFINE i == [x.inode EXCEPT !.i_block[0] = b]
<1>1. 0 \in Entries
  BY SizeFacts DEF Entries
<1>2. x.inode \in InodeType
  BY DEF EntType
<1>3. i.i_size = x.inode.i_size /\ i.i_block = [x.inode.i_block EXCEPT ![0] = b]
  BY <1>2 DEF InodeType
<1>4. i \in InodeType
  BY <1>1, <1>2 DEF InodeType
<1>5. [x EXCEPT !.inode.i_block[0] = b] = [x EXCEPT !.inode = i]
  OBVIOUS
<1>. HIDE DEF i
<1>6. [x EXCEPT !.inode = i].inode = i
  BY DEF EntType
<1>. QED
  BY <1>3, <1>4, <1>5, <1>6 DEF SameFile, Kept, Entered, EntType

\* ext2_allocate_block and the load that follows it leave nothing found, or a
\* new first block.
LEMMA AllocateOutcome ==
  ASSUME Typed, NEW r, EntOK(r), r.cursor < MaxSize, BlockAt(r, r.cursor) = 0,
         NEW o \in AllocateAndLoad(r)
  PROVE  Selected(r, o)
<1>. USE DEF SameFile, Kept
<1>1. disk \in [Lbas -> Sector] /\ free \subseteq BlockNumbers \ {0} /\ r \in EntType
  BY DEF Typed, EntOK
<1>2. CASE o = Outcome(FALSE, disk, r)
  BY <1>1, <1>2 DEF Selected, NotFound, Outcome
<1>. DEFINE S == IF r.dirty THEN ext2_store_buffer(disk, r) ELSE {[ok |-> TRUE, disk |-> disk, fe |-> r]}
            Bitmap(p) == [p.fe EXCEPT !.lba = 0, !.buf = Junks]
            E(p, b) == [Bitmap(p) EXCEPT !.inode.i_block[0] = b]
            L(p, b) == ext2_load_buffer(p.disk, E(p, b), SectorIn(b, r.cursor))
            R(l, m) == [ok |-> TRUE, disk |-> l.disk, fe |-> l.fe, free |-> m.free,
                        unmarked |-> m.unmarked, astray |-> FALSE]
            G(p, b, m) == {R(l, m) : l \in L(p, b)}
            F(p) == IF p.ok
                    THEN {Outcome(FALSE, p.disk, Bitmap(p))}
                           \cup UNION {UNION {G(p, b, m) : m \in MarkAllocated(b)} : b \in free}
                    ELSE {[Outcome(FALSE, disk, r) EXCEPT !.astray = TRUE]}
<1>3. CASE o # Outcome(FALSE, disk, r)
  <2>1. PICK p \in S : o \in F(p)
    BY <1>3 DEF AllocateAndLoad, Junks
  <2>2. /\ SameFile(p.fe, r) /\ p.fe.inode = r.inode
        /\ \/ p.ok = TRUE /\ p.disk = Stored(disk, r) /\ ~p.fe.dirty
           \/ p.ok = FALSE
    <3>1. CASE r.dirty
      <4>1. p \in ext2_store_buffer(disk, r)
        BY <3>1
      <4>2. /\ SameFile(p.fe, r) /\ p.fe.inode = r.inode
            /\ \/ /\ p.ok = TRUE /\ p.disk = [disk EXCEPT ![r.lba] = r.buf]
                  /\ Loaded(p.fe, r.lba, r.buf)
               \/ p.ok = FALSE /\ Faulty /\ p.disk = disk /\ p.fe = r
        BY <1>1, <4>1, StoreOutcome
      <4>. QED
        BY <3>1, <4>2 DEF Stored, Loaded
    <3>2. CASE ~r.dirty
      BY <1>1, <3>2 DEF Stored
    <3>. QED
      BY <3>1, <3>2
  <2>3. CASE p.ok = FALSE
    <3>1. o = [Outcome(FALSE, disk, r) EXCEPT !.astray = TRUE]
      BY <2>1, <2>3
    <3>. QED
      BY <1>1, <3>1 DEF Selected, NotFound, Outcome
  <2>4. CASE p.ok = TRUE /\ o = Outcome(FALSE, p.disk, Bitmap(p))
    <3>1. /\ SameFile(Bitmap(p), r) /\ Bitmap(p).inode = r.inode /\ Loaded(Bitmap(p), 0, Junks)
      BY <2>2, <2>4, JunksType DEF Loaded, EntType
    <3>2. /\ o.ok = FALSE /\ o.disk = p.disk /\ o.fe = Bitmap(p) /\ o.free = free
          /\ o.unmarked = unmarked /\ o.astray = FALSE
      BY <2>4 DEF Outcome
    <3>. QED
      BY <2>2, <2>4, <3>1, <3>2 DEF Selected, NotFound
  <2>5. CASE p.ok = TRUE /\ o # Outcome(FALSE, p.disk, Bitmap(p))
    <3>1. PICK b \in free : \E m \in MarkAllocated(b) : o \in G(p, b, m)
      <4>. DEFINE H(b) == UNION {G(p, b, m) : m \in MarkAllocated(b)}
      <4>1. o \in UNION {H(b) : b \in free}
        BY <2>1, <2>5
      <4>. HIDE DEF G
      <4>2. PICK b \in free : o \in H(b)
        <5>. HIDE DEF H
        <5>. QED
          BY <4>1
      <4>. QED
        BY <4>2
    <3>2. PICK m \in MarkAllocated(b), l \in L(p, b) : o = R(l, m)
      BY <3>1
    <3>. DEFINE t == Bitmap(p)
                e == E(p, b)
                lba == SectorIn(b, r.cursor)
    <3>3. SameFile(t, r) /\ t.inode = r.inode /\ Loaded(t, 0, Junks)
      BY <2>2, <2>5, JunksType DEF Loaded, EntType
    <3>4. t \in EntType /\ b \in BlockNumbers \ {0}
      BY <1>1, <3>3
    <3>5. SameFile(e, t) /\ Kept(e, t) /\ Entered(e, t, b)
      <4>1. e = [t EXCEPT !.inode.i_block[0] = b]
        OBVIOUS
      <4>2. b \in BlockNumbers
        BY <3>4
      <4>. HIDE DEF t, e, SameFile, Kept
      <4>. QED
        BY <3>4, <4>1, <4>2, EnteredType
    <3>6. l \in ext2_load_buffer(p.disk, e, lba)
      OBVIOUS
    <3>. HIDE DEF t, e
    <3>7. lba \in Lbas /\ r.cursor \in Nat
      <4>1. r.cursor \in Nat
        BY <1>1, SizeFacts DEF EntType
      <4>. QED
        BY <3>4, <4>1, SectorType
    <3>8. SameFile(e, r) /\ Entered(e, r, b)
      BY <3>3, <3>5 DEF Entered
    <3>9. ~e.dirty /\ EntOK(e) /\ p.disk \in [Lbas -> Sector]
      <4>1. p.disk \in [Lbas -> Sector]
        BY <1>1, <2>2, <2>5, StoredType
      <4>2. ~e.dirty
        BY <3>3, <3>5 DEF Loaded
      <4>. QED
        BY <3>8, <4>1, <4>2 DEF EntOK
    <3>10. /\ SameFile(l.fe, e) /\ l.fe.inode = e.inode
           /\ l.disk = Stored(p.disk, e) /\ Loaded(l.fe, lba, Stored(p.disk, e)[lba])
      BY <3>6, <3>7, <3>9, LoadOutcome
    <3>11. Stored(p.disk, e) = Stored(disk, r)
      BY <2>2, <2>5, <3>9 DEF Stored
    <3>12. Marked(b, m)
      BY <3>2 DEF MarkAllocated, Marked
    <3>13. /\ o.ok = TRUE /\ o.disk = l.disk /\ o.fe = l.fe /\ o.free = m.free
           /\ o.unmarked = m.unmarked /\ o.astray = FALSE
      BY <3>2
    <3>14. Allocated(r, o, b)
      BY <3>8, <3>10, <3>11, <3>12, <3>13 DEF Allocated, Entered, Marked
    <3>. QED
      BY <3>14 DEF Selected
  <2>. QED
    BY <2>2, <2>3, <2>4, <2>5
<1>. QED
  BY <1>2, <1>3

\* ext2_select_buffer finds the sector, does not, or allocates a block for it.
LEMMA SelectOutcome ==
  ASSUME Typed, NEW r, EntOK(r), r.cursor < MaxSize, NEW o \in ext2_select_buffer(r)
  PROVE  Selected(r, o)
<1>1. disk \in [Lbas -> Sector] /\ r \in EntType /\ r.cursor \in Nat
  BY SizeFacts DEF Typed, EntOK, EntType
<1>2. CASE BlockAt(r, r.cursor) # 0
  <2>. DEFINE lba == SectorIn(BlockAt(r, r.cursor), r.cursor)
  <2>1. PICK l \in ext2_load_buffer(disk, r, lba) :
          o = Outcome(TRUE, l.disk, l.fe)
    BY <1>2 DEF ext2_select_buffer
  <2>2. lba \in Lbas
    <3>1. BlockAt(r, r.cursor) \in BlockNumbers \ {0}
      BY <1>1, <1>2, BlockAtType
    <3>. QED
      BY <1>1, <3>1, SectorType
  <2>3. /\ SameFile(l.fe, r) /\ l.fe.inode = r.inode
        /\ \/ l.disk = Stored(disk, r) /\ Loaded(l.fe, lba, Stored(disk, r)[lba])
           \/ Faulty /\ r.dirty /\ l.disk = disk /\ l.fe = r
    <3>. HIDE DEF lba
    <3>. QED
      BY <1>1, <2>1, <2>2, LoadOutcome
  <2>. QED
    BY <1>2, <2>1, <2>3 DEF Selected, Found, Kept, Outcome
<1>3. CASE BlockAt(r, r.cursor) = 0 /\ r.write
  BY <1>3, AllocateOutcome DEF ext2_select_buffer
<1>4. CASE BlockAt(r, r.cursor) = 0 /\ ~r.write
  <2>1. o = Outcome(FALSE, disk, r)
    BY <1>4 DEF ext2_select_buffer
  <2>. QED
    BY <1>1, <1>4, <2>1 DEF Selected, NotFound, SameFile, Kept, Outcome
<1>. QED
  BY <1>2, <1>3, <1>4

(***************************************************************************)
(* What ext2_select_buffer keeps.                                          *)
(***************************************************************************)

\* The handle sees the same bytes before and after, wherever its buffer is.
LEMMA SelectSeen ==
  ASSUME Typed, NEW r, EntOK(r), NEW o, Selected(r, o), NEW lba \in Lbas
  PROVE  /\ Seen(o.disk, o.fe, lba) = Seen(disk, r, lba)
         /\ o.disk = disk \/ o.disk = Stored(disk, r)
         /\ o.free \subseteq free /\ unmarked \subseteq o.unmarked
<1>1. disk \in [Lbas -> Sector]
  BY DEF Typed
<1>2. /\ \/ o.disk = Stored(disk, r) /\ ~o.fe.dirty
         \/ o.disk = disk /\ Kept(o.fe, r)
      /\ o.free \subseteq free /\ unmarked \subseteq o.unmarked
  BY DEF Selected, Found, NotFound, Allocated, Loaded, Marked
<1>3. CASE o.disk = Stored(disk, r) /\ ~o.fe.dirty
  BY <1>1, <1>2, <1>3, StoredType DEF Seen
<1>4. CASE o.disk = disk /\ Kept(o.fe, r)
  BY <1>2, <1>4 DEF Kept, Seen
<1>. QED
  BY <1>2, <1>3, <1>4

\* The blocks the handle can write to were within its reach or were free.
LEMMA SelectReach ==
  ASSUME Typed, NEW r, EntOK(r), r.cursor < MaxSize, NEW o, Selected(r, o),
         NEW b \in BlockNumbers \ {0},
         Reaches(o.fe, b) \/ (o.ok = TRUE /\ BlockOf(o.fe.lba) = b)
  PROVE  Reaches(r, b) \/ (b \in free /\ (b \notin o.free \/ b \in o.unmarked))
<1>1. /\ r \in EntType /\ r.cursor \in Nat /\ free \subseteq BlockNumbers \ {0}
      /\ r.cursor \div BlockSize \in Entries
  BY SizeFacts, EntryOfPosition DEF EntOK, EntType, Typed
<1>2. CASE Found(r, o)
  <2>1. o.fe.inode = r.inode /\ BlockAt(r, r.cursor) \in BlockNumbers \ {0}
    BY <1>1, <1>2, BlockAtType DEF Found
  <2>2. CASE Kept(o.fe, r) /\ r.dirty
    BY <2>1, <2>2 DEF Reaches, Kept
  <2>3. CASE Loaded(o.fe, SectorIn(BlockAt(r, r.cursor), r.cursor),
                    Stored(disk, r)[SectorIn(BlockAt(r, r.cursor), r.cursor)])
    <3>1. BlockOf(o.fe.lba) = BlockAt(r, r.cursor) /\ ~o.fe.dirty
      BY <1>1, <2>1, <2>3, SectorType DEF Loaded
    <3>2. Reaches(r, BlockAt(r, r.cursor))
      BY <1>1 DEF Reaches, BlockAt
    <3>. QED
      BY <2>1, <3>1, <3>2 DEF Reaches
  <2>. QED
    BY <1>2, <2>2, <2>3 DEF Found
<1>3. CASE NotFound(r, o)
  BY <1>3 DEF NotFound, Reaches, Loaded, Kept
<1>4. CASE \E c \in free : Allocated(r, o, c)
  <2>1. PICK c \in free : Allocated(r, o, c)
    BY <1>4
  <2>2. c \in BlockNumbers \ {0} /\ (c \notin o.free \/ c \in o.unmarked)
    BY <1>1, <2>1 DEF Allocated, Marked
  <2>3. r.inode.i_block \in [Entries -> BlockNumbers]
    BY <1>1 DEF EntType, InodeType
  <2>4. \A k \in Entries : o.fe.inode.i_block[k] \in {c, r.inode.i_block[k]}
    BY <2>1, <2>3 DEF Allocated, Entered
  <2>5. BlockOf(o.fe.lba) = c /\ ~o.fe.dirty
    BY <1>1, <2>1, <2>2, SectorType DEF Loaded, Allocated
  <2>. QED
    BY <2>2, <2>4, <2>5 DEF Reaches
<1>. QED
  BY <1>2, <1>3, <1>4 DEF Selected

\* Position 0 is in the first block.
LEMMA ZeroFirst == 0 \div BlockSize = 0
<1>1. 0 \in 0 .. BlockSize - 1 /\ 0 = BlockSize * 0 + 0
  BY BlockSizeType
<1>. QED
  BY <1>1, BlockSizeType, DivMod

\* A file without holes keeps its blocks, unless what was allocated is not at
\* the cursor, and the handle sees it whole.
LEMMA SelectWhole ==
  ASSUME Typed, NEW r, EntOK(r), r.cursor < MaxSize, Whole(disk, r), NEW o, Selected(r, o),
         o.ok = TRUE => BlockAt(o.fe, r.cursor) # 0
  PROVE  /\ Whole(o.disk, o.fe)
         /\ \A pos \in 0 .. r.inode.i_size - 1 : BlockAt(o.fe, pos) = BlockAt(r, pos)
<1>1. r \in EntType /\ r.inode.i_size \in 0 .. MaxSize /\ r.cursor \in Nat
  BY SizeFacts DEF EntOK, EntType, InodeType
<1>2. SameFile(o.fe, r)
  BY DEF Selected, Found, NotFound, Allocated
<1>3. CASE o.fe.inode = r.inode
  <2>1. \A pos \in 0 .. r.inode.i_size - 1 : BlockAt(o.fe, pos) = BlockAt(r, pos)
    BY <1>3 DEF BlockAt
  <2>2. SUFFICES ASSUME NEW pos \in 0 .. r.inode.i_size - 1
                 PROVE  /\ BlockAt(o.fe, pos) # 0
                        /\ Seen(o.disk, o.fe, SectorIn(BlockAt(o.fe, pos), pos))[pos % SectorSize] # Junk
    BY <1>3, <2>1 DEF Whole
  <2>3. pos \in Nat /\ pos < MaxSize /\ BlockAt(r, pos) # 0
    BY <1>1, SizeFacts DEF Whole
  <2>4. BlockAt(r, pos) \in BlockNumbers \ {0}
    BY <1>1, <2>3, BlockAtType
  <2>5. SectorIn(BlockAt(r, pos), pos) \in Lbas
    BY <2>3, <2>4, SectorType
  <2>6. Seen(o.disk, o.fe, SectorIn(BlockAt(r, pos), pos)) = Seen(disk, r, SectorIn(BlockAt(r, pos), pos))
    BY <2>5, SelectSeen
  <2>. QED
    BY <2>1, <2>3, <2>6 DEF Whole
<1>4. CASE \E b \in free : Allocated(r, o, b)
  <2>1. PICK b \in free : Allocated(r, o, b)
    BY <1>4
  <2>2. /\ BlockAt(r, r.cursor) = 0 /\ BlockAt(o.fe, r.cursor) # 0
        /\ o.fe.inode.i_block = [r.inode.i_block EXCEPT ![0] = b]
    BY <2>1 DEF Allocated, Entered
  <2>3. r.inode.i_block \in [Entries -> BlockNumbers]
    BY <1>1 DEF EntType, InodeType
  <2>4. r.cursor \div BlockSize = 0 /\ r.inode.i_block[0] = 0
    BY <2>2, <2>3 DEF BlockAt
  <2>5. r.inode.i_size = 0
    <3>1. SUFFICES ASSUME r.inode.i_size # 0 PROVE FALSE
      OBVIOUS
    <3>2. 0 \in 0 .. r.inode.i_size - 1
      BY <1>1, <3>1, SizeFacts
    <3>3. BlockAt(r, 0) # 0
      BY <3>2 DEF Whole
    <3>. QED
      BY <2>4, <3>3, ZeroFirst DEF BlockAt
  <2>6. 0 .. r.inode.i_size - 1 = {} /\ 0 .. o.fe.inode.i_size - 1 = {}
    BY <1>2, <2>5 DEF SameFile
  <2>. QED
    BY <2>6 DEF Whole
<1>. QED
  BY <1>3, <1>4 DEF Selected, Found, NotFound

(***************************************************************************)
(* What a call on the handle h leaves to the other handles and the volume. *)
(***************************************************************************)

\* A file gets no block but one that was free and no longer is, or is noted as
\* free all the same.
LEMMA PrivateStep ==
  ASSUME Private, free' \subseteq free, unmarked \subseteq unmarked', NEW f0,
         \A f \in Files : \A b \in BlockNumbers \ {0} : Holds(f, b)' =>
           Holds(f, b) \/ (f = f0 /\ b \in free /\ (b \notin free' \/ b \in unmarked'))
  PROVE  Private'
<1>1. SUFFICES ASSUME NEW f \in Files, NEW b \in (BlockNumbers \ {0}) \ unmarked', Holds(f, b)'
               PROVE  b \notin free' /\ \A g \in Files : Holds(g, b)' => g = f
  BY DEF Private
<1>2. b \notin free'
  BY <1>1 DEF Private
<1>3. ASSUME NEW g \in Files, Holds(g, b)' PROVE g = f
  BY <1>1, <1>3 DEF Private
<1>. QED
  BY <1>2, <1>3

\* The struct file_ent h becomes x.
LEMMA HandlePrivate ==
  ASSUME Typed, Private, NEW h \in Handles, NEW x, fe' = [fe EXCEPT ![h] = x],
         x.file = fe[h].file, inode' = inode, free' \subseteq free, unmarked \subseteq unmarked',
         \A b \in BlockNumbers \ {0} : Reaches(x, b) =>
           Reaches(fe[h], b) \/ (b \in free /\ (b \notin free' \/ b \in unmarked'))
  PROVE  Private'
<1>1. \A k \in Handles : fe'[k] = IF k = h THEN x ELSE fe[k]
  BY DEF Typed
<1>2. ASSUME NEW f \in Files, NEW b \in BlockNumbers \ {0}, Holds(f, b)'
      PROVE  Holds(f, b) \/ (f = fe[h].file /\ b \in free /\ (b \notin free' \/ b \in unmarked'))
  <2>1. CASE \E k \in Entries : inode[f].i_block[k] = b
    BY <2>1 DEF Holds
  <2>2. CASE \E k \in Handles : fe'[k].file = f /\ Reaches(fe'[k], b)
    <3>1. PICK k \in Handles : fe'[k].file = f /\ Reaches(fe'[k], b)
      BY <2>2
    <3>2. CASE k = h
      <4>1. fe[h].file = f /\ Reaches(x, b)
        BY <1>1, <3>1, <3>2
      <4>. QED
        BY <4>1 DEF Holds
    <3>3. CASE k # h
      <4>1. fe[k].file = f /\ Reaches(fe[k], b)
        BY <1>1, <3>1, <3>3
      <4>. QED
        BY <4>1 DEF Holds
    <3>. QED
      BY <3>2, <3>3
  <2>. QED
    BY <1>2, <2>1, <2>2 DEF Holds, Reaches
<1>3. PICK f0 : f0 = fe[h].file
  OBVIOUS
<1>. QED
  BY <1>2, <1>3, PrivateStep

\* What another file has on the device is not touched by storing the buffer.
LEMMA OthersKept ==
  ASSUME Typed, Private, NEW h \in Handles, NEW d, d = disk \/ d = Stored(disk, fe[h]),
         NEW f \in Files, f # fe[h].file, NEW b \in (BlockNumbers \ {0}) \ unmarked, Holds(f, b),
         NEW pos \in Nat
  PROVE  d[SectorIn(b, pos)] = disk[SectorIn(b, pos)]
<1>1. SUFFICES ASSUME fe[h].dirty, d = [disk EXCEPT ![fe[h].lba] = fe[h].buf],
                      SectorIn(b, pos) = fe[h].lba
               PROVE  FALSE
  <2>1. SectorIn(b, pos) \in Lbas /\ disk \in [Lbas -> Sector]
    BY SectorType DEF Typed
  <2>. QED
    BY <2>1 DEF Stored
<1>2. BlockOf(fe[h].lba) = b
  BY <1>1, SectorType
<1>3. fe[h].file \in Files
  BY <1>1 DEF Typed, EntOK, EntType
<1>4. Holds(fe[h].file, b)
  BY <1>1, <1>2 DEF Holds, Reaches
<1>. QED
  BY <1>3, <1>4 DEF Private

\* Storing the buffer writes no junk below the size of a file on the volume.
LEMMA VolumeKept ==
  ASSUME HandlesInv, ~overrun, NEW h \in Handles, fe[h].file # 0, inode' = inode,
         disk' = disk \/ disk' = Stored(disk, fe[h]),
         misplaced => misplaced', shared' = shared, unmarked \subseteq unmarked'
  PROVE  SizeAfterData'
<1>1. SUFFICES ASSUME ~misplaced, ~shared, unmarked = {},
                      NEW f \in Files, NEW pos \in 0 .. inode[f].i_size - 1
               PROVE  /\ inode[f].i_block[pos \div BlockSize] # 0
                      /\ disk'[SectorIn(inode[f].i_block[pos \div BlockSize], pos)][pos % SectorSize] # Junk
  BY DEF SizeAfterData
<1>. DEFINE b == inode[f].i_block[pos \div BlockSize]
<1>2. Typed /\ Private /\ Sound
  BY <1>1 DEF HandlesInv, Sound
<1>3. b # 0 /\ disk[SectorIn(b, pos)][pos % SectorSize] # Junk
  BY <1>1 DEF HandlesInv, SizeAfterData
<1>4. inode[f] \in InodeType /\ pos \in Nat /\ pos < MaxSize
  BY <1>1, <1>2, SizeFacts DEF Typed, InodeType
<1>5. pos \div BlockSize \in Entries
  BY <1>4, EntryOfPosition
<1>6. b \in (BlockNumbers \ {0}) \ unmarked /\ Holds(f, b)
  BY <1>1, <1>3, <1>4, <1>5 DEF InodeType, Holds
<1>7. CASE f # fe[h].file
  <2>. HIDE DEF b
  <2>1. disk'[SectorIn(b, pos)] = disk[SectorIn(b, pos)]
    BY <1>2, <1>4, <1>6, <1>7, OthersKept
  <2>. QED
    BY <1>3, <2>1 DEF b
<1>8. CASE f = fe[h].file
  <2>1. b = BlockAt(fe[h], pos)
    BY <1>1, <1>2, <1>8, SizeFacts DEF HandlesInv, Agrees, BlockAt
  <2>2. inode[f].i_size <= fe[h].inode.i_size
    BY <1>1, <1>8, SizeFacts DEF HandlesInv, Longer
  <2>3. fe[h].inode \in InodeType /\ EntOK(fe[h])
    BY <1>2 DEF Typed, EntOK, EntType
  <2>4. pos \in 0 .. fe[h].inode.i_size - 1
    BY <1>4, <2>2, <2>3, SizeFacts DEF InodeType
  <2>. HIDE DEF b
  <2>5. Seen(disk, fe[h], SectorIn(b, pos))[pos % SectorSize] # Junk
    BY <1>2, <2>1, <2>4 DEF HandlesInv, AllWhole, Whole
  <2>6. SectorIn(b, pos) \in Lbas
    BY <1>4, <1>6, SectorType
  <2>7. Stored(disk, fe[h])[SectorIn(b, pos)] = Seen(disk, fe[h], SectorIn(b, pos))
    BY <1>2, <2>3, <2>6, StoredType DEF Typed
  <2>. QED
    BY <1>3, <2>5, <2>7 DEF b
<1>. QED
  BY <1>7, <1>8

\* Another handle still sees its file whole.
LEMMA OthersWhole ==
  ASSUME HandlesInv, Sound, NEW h \in Handles, fe[h].file # 0,
         NEW d, d = disk \/ d = Stored(disk, fe[h]), NEW g \in Handles \ {h}, fe[g].file # 0
  PROVE  Whole(d, fe[g])
<1>1. Typed /\ Private /\ fe[g].file # fe[h].file /\ Whole(disk, fe[g])
  BY DEF HandlesInv, OneEach, Sound, AllWhole
<1>2. SUFFICES ASSUME NEW pos \in 0 .. fe[g].inode.i_size - 1
               PROVE  /\ BlockAt(fe[g], pos) # 0
                      /\ Seen(d, fe[g], SectorIn(BlockAt(fe[g], pos), pos))[pos % SectorSize] # Junk
  BY DEF Whole
<1>. DEFINE b == BlockAt(fe[g], pos)
<1>3. b # 0 /\ Seen(disk, fe[g], SectorIn(b, pos))[pos % SectorSize] # Junk
  BY <1>1, <1>2 DEF Whole
<1>4. fe[g] \in EntType /\ fe[g].file \in Files /\ pos \in Nat /\ pos < MaxSize
  BY <1>1, <1>2, SizeFacts DEF Typed, EntType, InodeType
<1>5. b \in (BlockNumbers \ {0}) \ unmarked
  BY <1>3, <1>4, BlockAtType DEF Sound
<1>6. Holds(fe[g].file, b)
  <2>1. pos \div BlockSize \in Entries
    BY <1>4, EntryOfPosition
  <2>. QED
    BY <1>4, <2>1 DEF Holds, Reaches, BlockAt
<1>. HIDE DEF b
<1>7. d[SectorIn(b, pos)] = disk[SectorIn(b, pos)]
  BY <1>1, <1>4, <1>5, <1>6, OthersKept
<1>. QED
  BY <1>3, <1>7 DEF Seen, b

(***************************************************************************)
(* The steps.                                                              *)
(***************************************************************************)

\* The struct file_ent of h becomes x.
Becomes(h, x) ==
  /\ EntOK(x) /\ x.file = fe[h].file /\ fe' = [fe EXCEPT ![h] = x]
  /\ x.inode.i_size >= fe[h].inode.i_size
  /\ \A b \in BlockNumbers \ {0} : Reaches(x, b) =>
       Reaches(fe[h], b) \/ (b \in free /\ (b \notin free' \/ b \in unmarked'))
  /\ Sound' => /\ Whole(disk', x)
               /\ \A pos \in 0 .. fe[h].inode.i_size - 1 : BlockAt(x, pos) = BlockAt(fe[h], pos)

\* A call on the handle h that changes neither another handle nor an inode on
\* the volume.
LEMMA HandleStep ==
  ASSUME HandlesInv, ~overrun, NEW h \in Handles, fe[h].file # 0, NEW x, Becomes(h, x),
         disk' = disk \/ disk' = Stored(disk, fe[h]), free' \subseteq free,
         unmarked \subseteq unmarked', unmarked' \subseteq BlockNumbers \ {0}, astray' \in BOOLEAN,
         overrun' \in BOOLEAN, misplaced' \in BOOLEAN, misplaced => misplaced',
         closing' \in {0, h}, closing' = h => ~x.dirty /\ ~overrun',
         UNCHANGED <<inode, shared>>
  PROVE  HandlesInv'
<1>1. Typed /\ OneEach /\ Private /\ Longer /\ Agrees
  BY DEF HandlesInv
<1>2. /\ EntOK(x) /\ x.file = fe[h].file /\ x \in EntType
      /\ \A k \in Handles : fe'[k] = IF k = h THEN x ELSE fe[k]
      /\ fe' \in [Handles -> EntType]
  BY <1>1 DEF Becomes, EntOK, Typed
<1>3. Typed'
  <2>1. disk' \in [Lbas -> Sector]
    BY <1>1, StoredType DEF Typed
  <2>2. \A k \in Handles : EntOK(fe'[k])
    BY <1>1, <1>2 DEF Typed
  <2>3. closing' \in Handles \cup {0} /\ (closing' # 0 => fe'[closing'].file # 0 /\ ~fe'[closing'].dirty)
    BY <1>2, SizeFacts
  <2>4. overrun' => closing' = 0
    OBVIOUS
  <2>. QED
    BY <1>1, <1>2, <2>1, <2>2, <2>3, <2>4 DEF Typed, EntOK
<1>4. OneEach'
  BY <1>1, <1>2 DEF OneEach
<1>5. Private'
  BY <1>1, HandlePrivate DEF Becomes
<1>6. Longer'
  <2>1. fe[h].file \in Files /\ fe[h].inode.i_size \in Nat /\ x.inode.i_size \in Nat
    BY <1>1, <1>2, SizeFacts DEF Typed, EntType, InodeType
  <2>2. \A f \in Files : inode[f].i_size \in Nat
    BY <1>1, SizeFacts DEF Typed, InodeType
  <2>3. ~shared => inode[fe[h].file].i_size <= x.inode.i_size
    BY <1>1, <2>1, <2>2 DEF Longer, Becomes
  <2>. QED
    BY <1>1, <1>2, <2>3 DEF Longer
<1>7. Sound' => Sound
  BY DEF Sound
<1>8. Agrees'
  <2>1. SUFFICES ASSUME Sound', NEW k \in Handles, fe'[k].file # 0,
                        NEW pos \in 0 .. inode[fe'[k].file].i_size - 1
                 PROVE  inode[fe'[k].file].i_block[pos \div BlockSize]
                          = fe'[k].inode.i_block[pos \div BlockSize]
    BY DEF Agrees
  <2>2. CASE k # h
    BY <1>1, <1>2, <1>7, <2>1, <2>2 DEF Agrees
  <2>3. CASE k = h
    <3>1. fe'[k] = x /\ fe'[k].file = fe[h].file
      BY <1>2, <2>3
    <3>2. inode[fe[h].file].i_block[pos \div BlockSize] = BlockAt(fe[h], pos)
      BY <1>1, <1>7, <2>1, <3>1 DEF Agrees, BlockAt
    <3>3. pos \in 0 .. fe[h].inode.i_size - 1
      <4>1. inode[fe[h].file].i_size <= fe[h].inode.i_size
        BY <1>1, <1>7, <2>1 DEF Longer, Sound
      <4>2. fe[h].file \in Files /\ fe[h].inode.i_size \in Nat
        BY <1>1, SizeFacts DEF Typed, EntType, InodeType
      <4>3. inode[fe[h].file].i_size \in Nat
        BY <1>1, <4>2, SizeFacts DEF Typed, InodeType
      <4>. QED
        BY <2>1, <3>1, <4>1, <4>2, <4>3
    <3>4. BlockAt(x, pos) = BlockAt(fe[h], pos)
      BY <2>1, <3>3 DEF Becomes
    <3>. QED
      BY <3>1, <3>2, <3>4 DEF BlockAt
  <2>. QED
    BY <2>2, <2>3
<1>9. AllWhole'
  <2>1. SUFFICES ASSUME Sound', NEW k \in Handles, fe'[k].file # 0
                 PROVE  Whole(disk', fe'[k])
    BY DEF AllWhole, Whole, BlockAt, Seen
  <2>2. CASE k = h
    BY <1>2, <2>1, <2>2 DEF Becomes
  <2>3. CASE k # h
    <3>1. fe'[k] = fe[k] /\ fe[k].file # 0 /\ k \in Handles \ {h} /\ Sound
      BY <1>2, <1>7, <2>1, <2>3
    <3>2. PICK d : d = disk'
      OBVIOUS
    <3>3. Whole(d, fe[k])
      BY <3>1, <3>2, OthersWhole
    <3>. QED
      BY <3>1, <3>2, <3>3
  <2>. QED
    BY <2>2, <2>3
<1>10. SizeAfterData'
  BY VolumeKept
<1>. QED
  BY <1>3, <1>4, <1>5, <1>6, <1>8, <1>9, <1>10 DEF HandlesInv

\* A chunk is a sequence of bytes.
LEMMA ChunkType ==
  ASSUME NEW s \in Chunks
  PROVE  /\ Len(s) \in 1 .. MaxCount
         /\ \A i \in 1 .. Len(s) : s[i] \in Bytes
         /\ s \in [1 .. Len(s) -> Bytes]
<1>1. PICK k \in 1 .. MaxCount : s \in [1 .. k -> Bytes]
  BY DEF Chunks
<1>2. k \in Nat /\ Len(s) = k
  BY <1>1, SizeFacts
<1>. QED
  BY <1>1, <1>2

\* The room counted at a position is at least what is left of the sector.
LEMMA SpaceType ==
  ASSUME NEW pos \in Nat
  PROVE  /\ ext2_buffer_space(pos) \in Nat
         /\ pos % SectorSize \in Nat /\ pos % SectorSize < SectorSize
         /\ ext2_buffer_space(pos) >= SectorSize - (pos % SectorSize)
<1>1. pos % SectorSize \in 0 .. SectorSize - 1
  BY PositionType DEF Offsets
<1>2. SectorSize * 2 <= SectorSize * SectorsPerBlock
  <2>1. 2 * SectorSize <= SectorsPerBlock * SectorSize
    BY SizeFacts, Monotonic
  <2>. QED
    BY <2>1, SizeFacts
<1>3. BlockSize \in Nat /\ 2 * SectorSize <= BlockSize
  BY <1>2, BlockSizeType, SizeFacts DEF BlockSize
<1>. QED
  BY <1>1, <1>3, SizeFacts DEF ext2_buffer_space

\* ext2_write fills the buffer with bytes ...
LEMMA PokedType ==
  ASSUME NEW r \in EntType, NEW s \in Chunks, NEW n \in 0 .. Len(s)
  PROVE  Poked(r, s, n) \in Sector
<1>1. r.cursor \in Nat /\ r.buf \in Sector
  BY SizeFacts DEF EntType
<1>2. PICK c \in Nat : c = r.cursor % SectorSize
  BY <1>1, SpaceType
<1>3. Len(s) \in Nat /\ \A i \in 1 .. Len(s) : s[i] \in Bytes
  BY ChunkType
<1>4. ASSUME NEW k \in Offsets, k \in c .. c + n - 1 PROVE s[k - c + 1] \in Bytes
  BY <1>2, <1>3, <1>4 DEF Offsets
<1>. QED
  BY <1>1, <1>2, <1>4 DEF Poked, Sector

Written(r, s, n) == AfterWrite([r EXCEPT !.buf = Poked(r, s, n)], n)

IsWritten(x, r, s, n) ==
  /\ x \in EntType /\ x.file = r.file /\ x.write = r.write /\ x.append = r.append
  /\ x.cursor = r.cursor + n /\ x.lba = r.lba /\ x.dirty = TRUE /\ x.fs_dirty = TRUE
  /\ x.buf = Poked(r, s, n) /\ x.inode.i_block = r.inode.i_block
  /\ x.inode.i_size = IF r.cursor + n > r.inode.i_size THEN r.cursor + n ELSE r.inode.i_size

\* ... and moves the cursor, and the end of the file if it has to.
LEMMA WriteFields ==
  ASSUME NEW r \in EntType, NEW s \in Chunks, NEW n \in 0 .. Len(s), r.cursor + n <= MaxSize,
         NEW x, x = Written(r, s, n)
  PROVE  IsWritten(x, r, s, n)
<1>. DEFINE p == [r EXCEPT !.buf = Poked(r, s, n)]
            size == IF r.cursor + n > r.inode.i_size THEN r.cursor + n ELSE r.inode.i_size
            i == [r.inode EXCEPT !.i_size = size]
<1>1. /\ p \in EntType /\ p.cursor = r.cursor /\ p.inode = r.inode /\ p.file = r.file
      /\ p.write = r.write /\ p.append = r.append /\ p.lba = r.lba /\ p.buf = Poked(r, s, n)
  BY PokedType DEF EntType
<1>2. r.cursor \in Nat /\ r.inode \in InodeType /\ n \in Nat
  BY SizeFacts, ChunkType DEF EntType
<1>3. size \in 0 .. MaxSize /\ r.cursor + n \in 0 .. MaxSize
  BY <1>2, SizeFacts DEF InodeType
<1>4. i \in InodeType /\ i.i_size = size /\ i.i_block = r.inode.i_block
  <2>. HIDE DEF size
  <2>. QED
    BY <1>2, <1>3 DEF InodeType
<1>5. x = [p EXCEPT !.cursor = r.cursor + n, !.dirty = TRUE, !.fs_dirty = TRUE, !.inode = i]
  <2>1. x = [p EXCEPT !.cursor = p.cursor + n, !.dirty = TRUE, !.fs_dirty = TRUE,
               !.inode.i_size = IF p.cursor + n > p.inode.i_size THEN p.cursor + n ELSE p.inode.i_size]
    BY DEF AfterWrite, Written
  <2>. HIDE DEF p
  <2>2. x = [p EXCEPT !.cursor = r.cursor + n, !.dirty = TRUE, !.fs_dirty = TRUE,
                      !.inode.i_size = size]
    BY <1>1, <2>1
  <2>. HIDE DEF size
  <2>. QED
    BY <1>1, <2>2 DEF EntType
<1>. HIDE DEF p, i
<1>6. /\ x \in EntType /\ x.cursor = r.cursor + n /\ x.dirty = TRUE /\ x.inode = i
      /\ x.fs_dirty = TRUE
      /\ x.file = p.file /\ x.write = p.write /\ x.append = p.append /\ x.lba = p.lba
      /\ x.buf = p.buf
  BY <1>1, <1>3, <1>4, <1>5 DEF EntType
<1>. QED
  BY <1>1, <1>4, <1>6 DEF IsWritten

\* The byte of the buffer at an offset after a write of n bytes.
LEMMA PokedAt ==
  ASSUME NEW r \in EntType, NEW s \in Chunks, NEW n \in 0 .. Len(s), NEW k \in Offsets
  PROVE  LET c == r.cursor % SectorSize
         IN  /\ k \in c .. c + n - 1 =>
                  k - c + 1 \in 1 .. Len(s) /\ Poked(r, s, n)[k] = s[k - c + 1]
             /\ k \notin c .. c + n - 1 => Poked(r, s, n)[k] = r.buf[k]
<1>1. r.cursor \in Nat
  BY SizeFacts DEF EntType
<1>2. PICK c \in Nat : c = r.cursor % SectorSize
  BY <1>1, SpaceType
<1>3. Len(s) \in Nat
  BY ChunkType
<1>4. k \in c .. c + n - 1 => k - c + 1 \in 1 .. Len(s)
  BY <1>2, <1>3 DEF Offsets
<1>. QED
  BY <1>2, <1>4 DEF Poked

\* A write into the loaded sector under the cursor leaves the file whole.
LEMMA PokeWhole ==
  ASSUME NEW r, EntOK(r), NEW d, Whole(d, r), ~r.dirty => r.buf = d[r.lba],
         BlockAt(r, r.cursor) # 0, r.lba = SectorIn(BlockAt(r, r.cursor), r.cursor),
         NEW s \in Chunks, NEW n \in 0 .. Len(s), r.cursor + n <= MaxSize,
         (r.cursor % SectorSize) + n <= SectorSize,
         NEW x, x = Written(r, s, n)
  PROVE  Whole(d, x)
<1>1. r \in EntType /\ r.cursor \in Nat /\ r.inode.i_size \in Nat /\ r.cursor <= r.inode.i_size
  BY SizeFacts DEF EntOK, EntType, InodeType
<1>2. n \in Nat /\ Len(s) \in Nat /\ \A i \in 1 .. Len(s) : s[i] # Junk
  BY ChunkType, SizeFacts
<1>3. /\ x.lba = r.lba /\ x.dirty = TRUE /\ x.buf = Poked(r, s, n)
      /\ x.inode.i_block = r.inode.i_block
      /\ x.inode.i_size = IF r.cursor + n > r.inode.i_size THEN r.cursor + n ELSE r.inode.i_size
  <2>1. IsWritten(x, r, s, n)
    BY <1>1, WriteFields
  <2>. QED
    BY <2>1 DEF IsWritten
<1>4. SUFFICES ASSUME NEW pos \in 0 .. x.inode.i_size - 1
               PROVE  /\ BlockAt(x, pos) # 0
                      /\ Seen(d, x, SectorIn(BlockAt(x, pos), pos))[pos % SectorSize] # Junk
  BY DEF Whole
<1>5. pos \in Nat /\ pos % SectorSize \in Offsets
  <2>1. pos \in Nat
    BY <1>1, <1>2, <1>3, <1>4
  <2>. QED
    BY <2>1, PositionType
<1>6. PICK c \in Nat : c = r.cursor % SectorSize
  BY <1>1, SpaceType
<1>7. BlockAt(x, pos) = BlockAt(r, pos)
  BY <1>3 DEF BlockAt
<1>8. PICK k \in Offsets : k = pos % SectorSize
  BY <1>5
<1>9. /\ k \in c .. c + n - 1 => k - c + 1 \in 1 .. Len(s) /\ x.buf[k] = s[k - c + 1]
      /\ k \notin c .. c + n - 1 => x.buf[k] = r.buf[k]
  BY <1>1, <1>3, <1>6, PokedAt
<1>10. CASE pos < r.inode.i_size
  <2>1. /\ BlockAt(r, pos) # 0
        /\ Seen(d, r, SectorIn(BlockAt(r, pos), pos))[k] # Junk
    <3>1. pos \in 0 .. r.inode.i_size - 1
      BY <1>1, <1>5, <1>10
    <3>. QED
      BY <1>8, <3>1 DEF Whole
  <2>2. CASE SectorIn(BlockAt(r, pos), pos) # r.lba
    BY <1>3, <1>7, <1>8, <2>1, <2>2 DEF Seen
  <2>3. CASE SectorIn(BlockAt(r, pos), pos) = r.lba
    <3>1. r.buf[k] # Junk
      BY <2>1, <2>3 DEF Seen
    <3>2. x.buf[k] # Junk
      BY <1>2, <1>9, <3>1
    <3>. QED
      BY <1>3, <1>7, <1>8, <2>1, <2>3, <3>2 DEF Seen
  <2>. QED
    BY <2>2, <2>3
<1>11. CASE pos >= r.inode.i_size
  <2>1. r.cursor <= pos /\ pos < r.cursor + n
    BY <1>1, <1>2, <1>3, <1>4, <1>5, <1>11
  <2>2. c + (pos - r.cursor) < SectorSize /\ c + n <= SectorSize
    BY <1>1, <1>2, <1>5, <1>6, <2>1, SizeFacts
  <2>3. /\ pos \div BlockSize = r.cursor \div BlockSize
        /\ (pos % BlockSize) \div SectorSize = (r.cursor % BlockSize) \div SectorSize
        /\ pos % SectorSize = c + (pos - r.cursor)
    BY <1>1, <1>5, <1>6, <2>1, <2>2, SameSector
  <2>4. BlockAt(r, pos) = BlockAt(r, r.cursor)
    BY <2>3 DEF BlockAt
  <2>5. SectorIn(BlockAt(r, pos), pos) = r.lba
    BY <2>3, <2>4 DEF SectorIn
  <2>6. k \in c .. c + n - 1
    BY <1>1, <1>2, <1>5, <1>8, <2>1, <2>3
  <2>7. x.buf[k] # Junk
    BY <1>2, <1>9, <2>6
  <2>. QED
    BY <1>3, <1>7, <1>8, <2>4, <2>5, <2>7 DEF Seen
<1>. QED
  BY <1>1, <1>5, <1>10, <1>11

\* A call may be made: what the handle h is then.
LEMMA CallableFacts ==
  ASSUME HandlesInv, NEW h \in Handles, Callable(h)
  PROVE  /\ Typed /\ ~overrun /\ ~astray /\ closing = 0 /\ fe[h].file \in Files /\ fe[h].file # 0
         /\ EntOK(fe[h]) /\ fe[h] \in EntType
         /\ fe[h].cursor \in Nat /\ fe[h].inode.i_size \in 0 .. MaxSize
         /\ Sound => Whole(disk, fe[h])
  BY SizeFacts DEF HandlesInv, Callable, Idle, Typed, EntOK, EntType, InodeType, AllWhole

\* ext2_lseek preserves the invariant.
LEMMA SeekStep ==
  ASSUME HandlesInv, NEW h \in Handles, NEW pos \in 0 .. MaxSize, ext2_lseek(h, pos)
  PROVE  HandlesInv'
<1>. USE DEF ext2_lseek
<1>. DEFINE x == [fe[h] EXCEPT !.cursor = pos]
<1>1. /\ Typed /\ ~overrun /\ closing = 0 /\ fe[h].file # 0 /\ fe[h] \in EntType
      /\ EntOK(fe[h])
      /\ Sound => Whole(disk, fe[h])
  BY CallableFacts
<1>2. /\ x \in EntType /\ x.file = fe[h].file /\ x.inode = fe[h].inode /\ Kept(x, fe[h])
      /\ x.cursor = pos
  BY <1>1 DEF EntType, Kept
<1>3. fe' = [fe EXCEPT ![h] = x]
  BY <1>1 DEF Typed
<1>. HIDE DEF x
<1>4. EntOK(x)
  <2>1. pos <= fe[h].inode.i_size
    OBVIOUS
  <2>. QED
    BY <1>1, <1>2, <2>1 DEF EntOK, Kept
<1>5. \A b \in BlockNumbers \ {0} : Reaches(x, b) => Reaches(fe[h], b)
  BY <1>2 DEF Reaches, Kept
<1>6. Sound' => Sound
  BY DEF Sound
<1>7. Sound' => Whole(disk', x)
  BY <1>1, <1>2, <1>6 DEF Whole, BlockAt, Seen, Kept
<1>8. x.inode.i_size >= fe[h].inode.i_size
  BY <1>1, <1>2, SizeFacts DEF EntType, InodeType
<1>9. Becomes(h, x)
  BY <1>2, <1>3, <1>4, <1>5, <1>7, <1>8 DEF Becomes, BlockAt
<1>. QED
  <2>1. overrun' \in BOOLEAN /\ misplaced' \in BOOLEAN /\ closing' = 0
    BY <1>1 DEF Typed
  <2>2. /\ free' = free /\ disk' = disk /\ misplaced' = misplaced /\ UNCHANGED <<inode, shared>>
        /\ unmarked' = unmarked /\ astray' = astray
    OBVIOUS
  <2>3. unmarked' \subseteq BlockNumbers \ {0} /\ astray' \in BOOLEAN
    BY <1>1, <2>2 DEF Typed
  <2>. QED
    BY <1>1, <1>9, <2>1, <2>2, <2>3, HandleStep, SizeFacts

\* The struct file_ent is fit for use after ext2_select_buffer, and if that
\* succeeds the buffer holds a sector.
LEMMA SelectEnt ==
  ASSUME Typed, NEW r, EntOK(r), r.cursor < MaxSize, NEW o, Selected(r, o)
  PROVE  /\ EntOK(o.fe) /\ SameFile(o.fe, r) /\ o.ok \in BOOLEAN
         /\ o.ok = TRUE => o.fe.lba # 0 /\ (~o.fe.dirty => o.fe.buf = o.disk[o.fe.lba])
<1>1. /\ r \in EntType /\ r.cursor \in Nat /\ free \subseteq BlockNumbers \ {0}
      /\ r.cursor <= r.inode.i_size /\ (r.dirty => r.lba # 0 /\ r.file # 0)
  BY SizeFacts DEF EntOK, EntType, Typed
<1>2. SameFile(o.fe, r) /\ o.ok \in BOOLEAN
  BY DEF Selected, Found, NotFound, Allocated
<1>3. \/ Kept(o.fe, r)
      \/ ~o.fe.dirty
  BY DEF Selected, Found, NotFound, Allocated, Loaded
<1>4. EntOK(o.fe)
  BY <1>1, <1>2, <1>3 DEF EntOK, Kept, SameFile
<1>5. CASE Found(r, o)
  <2>1. BlockAt(r, r.cursor) \in BlockNumbers \ {0}
    BY <1>1, <1>5, BlockAtType DEF Found
  <2>2. SectorIn(BlockAt(r, r.cursor), r.cursor) # 0
    BY <1>1, <2>1, SectorType, LbaType
  <2>. QED
    BY <1>1, <1>2, <1>4, <1>5, <2>2 DEF Found, Loaded, Kept
<1>6. CASE NotFound(r, o)
  BY <1>2, <1>4, <1>6 DEF NotFound
<1>7. CASE \E b \in free : Allocated(r, o, b)
  <2>1. PICK b \in free : Allocated(r, o, b)
    BY <1>7
  <2>2. SectorIn(b, r.cursor) # 0
    <3>1. b \in BlockNumbers \ {0}
      BY <1>1
    <3>. QED
      BY <1>1, <3>1, SectorType, LbaType
  <2>. QED
    BY <1>1, <1>2, <1>4, <2>1, <2>2 DEF Allocated, Loaded, Kept
<1>. QED
  BY <1>5, <1>6, <1>7 DEF Selected

\* What ext2_read and ext2_write do to the handle: its buffer is selected for
\* the cursor of r, which it had or took, and it becomes x.
LEMMA CopyStep ==
  ASSUME HandlesInv, NEW h \in Handles, Callable(h),
         NEW r, EntOK(r), r.file = fe[h].file, r.inode = fe[h].inode, Kept(r, fe[h]),
         r.cursor < MaxSize, NEW o, Selected(r, o),
         disk' = o.disk, free' = o.free, unmarked' = o.unmarked, astray' = o.astray,
         UNCHANGED <<inode, closing, shared>>,
         overrun' \in BOOLEAN, misplaced' \in BOOLEAN, misplaced => misplaced',
         Sound' /\ o.ok = TRUE => BlockAt(o.fe, r.cursor) # 0,
         NEW x, fe' = [fe EXCEPT ![h] = x], EntOK(x), x.file = r.file, x.lba = o.fe.lba,
         x.inode.i_block = o.fe.inode.i_block, x.inode.i_size >= r.inode.i_size,
         x.dirty => o.fe.dirty \/ o.ok = TRUE,
         Sound' /\ Whole(o.disk, o.fe) => Whole(o.disk, x)
  PROVE  HandlesInv'
<1>1. /\ Typed /\ ~overrun /\ closing = 0 /\ fe[h].file # 0
      /\ Sound => Whole(disk, fe[h])
  BY CallableFacts
<1>2. /\ o.disk = disk \/ o.disk = Stored(disk, r)
      /\ o.free \subseteq free
      /\ unmarked \subseteq o.unmarked /\ o.unmarked \subseteq BlockNumbers \ {0} /\ o.astray \in BOOLEAN
  <2>1. PICK d : d = Stored(disk, r)
    OBVIOUS
  <2>2. unmarked \subseteq BlockNumbers \ {0} /\ free \subseteq BlockNumbers \ {0}
    BY <1>1 DEF Typed
  <2>. QED
    BY <2>1, <2>2 DEF Selected, Found, NotFound, Allocated, Marked
<1>3. Stored(disk, r) = Stored(disk, fe[h])
  BY DEF Kept, Stored
<1>4. ASSUME NEW b \in BlockNumbers \ {0}, Reaches(x, b)
      PROVE  Reaches(fe[h], b) \/ (b \in free /\ (b \notin free' \/ b \in unmarked'))
  <2>1. Reaches(o.fe, b) \/ (o.ok = TRUE /\ BlockOf(o.fe.lba) = b)
    BY <1>4 DEF Reaches
  <2>2. Reaches(r, b) \/ (b \in free /\ (b \notin o.free \/ b \in o.unmarked))
    BY <1>1, <2>1, SelectReach
  <2>. QED
    BY <2>2 DEF Reaches, Kept
<1>5. ASSUME Sound'
      PROVE  /\ Whole(disk', x)
             /\ \A pos \in 0 .. fe[h].inode.i_size - 1 : BlockAt(x, pos) = BlockAt(fe[h], pos)
  <2>1. Whole(disk, r)
    <3>1. Sound
      BY <1>2, <1>5 DEF Sound, Callable, Idle
    <3>. QED
      BY <1>1, <3>1 DEF Whole, BlockAt, Seen, Kept
  <2>2. /\ Whole(o.disk, o.fe)
        /\ \A pos \in 0 .. r.inode.i_size - 1 : BlockAt(o.fe, pos) = BlockAt(r, pos)
    BY <1>1, <1>5, <2>1, SelectWhole
  <2>. QED
    BY <1>5, <2>2 DEF BlockAt
<1>6. Becomes(h, x)
  BY <1>4, <1>5 DEF Becomes
<1>. QED
  BY <1>1, <1>2, <1>3, <1>6, HandleStep, SizeFacts

\* What a copy that is recorded neither as misplaced nor as an overrun shows.
LEMMA CopiesFacts ==
  ASSUME NEW r, NEW n, Copies(r, n)
  PROVE  /\ overrun' \in BOOLEAN /\ misplaced' \in BOOLEAN
         /\ misplaced => misplaced'
         /\ ~misplaced' => BlockAt(r, r.cursor) # 0 /\ r.lba = SectorIn(BlockAt(r, r.cursor), r.cursor)
         /\ ~overrun' => ~((r.cursor % SectorSize) + n > SectorSize)
<1>1. /\ overrun' = ((r.cursor % SectorSize) + n > SectorSize)
      /\ misplaced' = (misplaced \/ BlockAt(r, r.cursor) = 0
                                 \/ r.lba # SectorIn(BlockAt(r, r.cursor), r.cursor))
  BY DEF Copies
<1>2. overrun' \in BOOLEAN
  BY <1>1
<1>3. misplaced' \in BOOLEAN
  BY <1>1
<1>4. misplaced => misplaced'
  BY <1>1
<1>5. ~misplaced' => BlockAt(r, r.cursor) # 0 /\ r.lba = SectorIn(BlockAt(r, r.cursor), r.cursor)
  BY <1>1
<1>6. ~overrun' => ~((r.cursor % SectorSize) + n > SectorSize)
  BY <1>1
<1>. QED
  BY <1>2, <1>3, <1>4, <1>5, <1>6

\* ext2_read preserves the invariant.
LEMMA ReadStep ==
  ASSUME HandlesInv, NEW h \in Handles, NEW count \in 1 .. MaxCount, ext2_read(h, count)
  PROVE  HandlesInv'
<1>. USE DEF ext2_read
<1>. DEFINE r == fe[h]
<1>1. /\ Typed /\ EntOK(r) /\ r.cursor \in Nat /\ r.inode.i_size \in 0 .. MaxSize
      /\ r.cursor < r.inode.i_size /\ Callable(h)
  BY CallableFacts
<1>2. r.cursor < MaxSize
  BY <1>1, SizeFacts
<1>. DEFINE N(e) == MinOf(MinOf(count, ext2_buffer_space(e.cursor)), e.inode.i_size - e.cursor)
<1>3. PICK o \in ext2_select_buffer(r) :
        /\ disk' = o.disk /\ free' = o.free /\ unmarked' = o.unmarked /\ astray' = o.astray
        /\ IF o.ok
           THEN fe' = [fe EXCEPT ![h] = AfterRead(o.fe, N(o.fe))] /\ Copies(o.fe, N(o.fe))
           ELSE fe' = [fe EXCEPT ![h] = o.fe] /\ UNCHANGED <<overrun, misplaced>>
  OBVIOUS
<1>4. Selected(r, o)
  BY <1>1, <1>2, <1>3, SelectOutcome
<1>5. /\ EntOK(o.fe) /\ SameFile(o.fe, r) /\ o.ok \in BOOLEAN
      /\ o.ok = TRUE => o.fe.lba # 0 /\ (~o.fe.dirty => o.fe.buf = o.disk[o.fe.lba])
  BY <1>1, <1>2, <1>4, SelectEnt
<1>6. Kept(r, fe[h]) /\ UNCHANGED <<inode, closing, shared>>
  BY DEF Kept
<1>7. CASE o.ok = FALSE
  <2>1. fe' = [fe EXCEPT ![h] = o.fe] /\ UNCHANGED <<overrun, misplaced>>
    BY <1>3, <1>7
  <2>2. /\ overrun' \in BOOLEAN /\ misplaced' \in BOOLEAN /\ o.fe.file = r.file
        /\ o.fe.inode.i_size >= r.inode.i_size
    BY <1>1, <1>5, <2>1, SizeFacts DEF Typed, SameFile
  <2>. HIDE DEF ext2_read
  <2>. QED
    BY <1>1, <1>2, <1>3, <1>4, <1>5, <1>6, <1>7, <2>1, <2>2, CopyStep
<1>8. CASE o.ok = TRUE
  <2>. DEFINE n == N(o.fe)
              x == AfterRead(o.fe, n)
  <2>1. fe' = [fe EXCEPT ![h] = x] /\ Copies(o.fe, n)
    BY <1>3, <1>8
  <2>2. /\ overrun' \in BOOLEAN /\ misplaced' \in BOOLEAN
        /\ misplaced => misplaced'
        /\ ~misplaced' => BlockAt(o.fe, r.cursor) # 0
    <3>1. o.fe.cursor = r.cursor
      BY <1>5 DEF SameFile
    <3>. HIDE DEF n, x, ext2_read
    <3>2. PICK e, m : e = o.fe /\ m = n
      OBVIOUS
    <3>. QED
      BY <2>1, <3>1, <3>2, CopiesFacts
  <2>3. n \in Nat /\ o.fe.cursor + n <= o.fe.inode.i_size
    <3>1. ext2_buffer_space(r.cursor) \in Nat
      BY <1>1, SpaceType
    <3>. QED
      BY <1>1, <1>5, <3>1, SizeFacts DEF MinOf, SameFile
  <2>. HIDE DEF n
  <2>4. /\ x \in EntType /\ x.file = o.fe.file /\ x.inode = o.fe.inode /\ Kept(x, o.fe)
        /\ x.cursor = o.fe.cursor + n
    <3>1. o.fe \in EntType /\ o.fe.cursor + n \in 0 .. MaxSize
      BY <1>1, <1>5, <2>3, SizeFacts DEF SameFile, EntType, InodeType
    <3>. QED
      BY <3>1 DEF AfterRead, Kept, EntType
  <2>. HIDE DEF x
  <2>5. EntOK(x) /\ x.file = r.file /\ x.inode.i_size >= r.inode.i_size
    BY <1>1, <1>5, <2>3, <2>4, SizeFacts DEF EntOK, Kept, SameFile
  <2>6. Whole(o.disk, o.fe) => Whole(o.disk, x)
    BY <2>4 DEF Whole, BlockAt, Seen, Kept
  <2>7. /\ x.lba = o.fe.lba /\ x.inode.i_block = o.fe.inode.i_block /\ x.dirty = o.fe.dirty
        /\ Sound' => BlockAt(o.fe, r.cursor) # 0
    BY <2>2, <2>4 DEF Kept, Sound
  <2>. HIDE DEF ext2_read
  <2>. QED
    BY <1>1, <1>2, <1>3, <1>4, <1>6, <2>1, <2>2, <2>5, <2>6, <2>7, CopyStep
<1>. QED
  BY <1>5, <1>7, <1>8

\* The struct file_ent whose buffer ext2_write selects: O_APPEND moves the cursor.
AtEnd(r) == IF r.append THEN [r EXCEPT !.cursor = r.inode.i_size] ELSE r

\* O_APPEND moves the cursor and nothing else.
LEMMA AtEndFacts ==
  ASSUME NEW r, EntOK(r)
  PROVE  /\ EntOK(AtEnd(r)) /\ AtEnd(r).file = r.file /\ AtEnd(r).inode = r.inode
         /\ Kept(AtEnd(r), r) /\ AtEnd(r).cursor \in Nat
         /\ AtEnd(r).cursor = IF r.append THEN r.inode.i_size ELSE r.cursor
         /\ AtEnd(r).append = r.append
<1>1. /\ r \in EntType /\ r.inode.i_size \in 0 .. MaxSize /\ r.cursor <= r.inode.i_size
      /\ r.cursor \in Nat /\ (r.dirty => r.lba # 0 /\ r.file # 0)
  BY SizeFacts DEF EntOK, EntType, InodeType
<1>2. CASE ~r.append
  BY <1>1, <1>2 DEF AtEnd, Kept
<1>3. CASE r.append
  <2>1. AtEnd(r) = [r EXCEPT !.cursor = r.inode.i_size]
    BY <1>3 DEF AtEnd
  <2>2. /\ AtEnd(r) \in EntType /\ AtEnd(r).file = r.file /\ AtEnd(r).inode = r.inode
        /\ Kept(AtEnd(r), r) /\ AtEnd(r).cursor = r.inode.i_size /\ AtEnd(r).append = r.append
    BY <1>1, <2>1 DEF EntType, Kept
  <2>3. EntOK(AtEnd(r))
    BY <1>1, <2>2, SizeFacts DEF EntOK, Kept
  <2>. QED
    BY <1>1, <1>3, <2>2, <2>3, SizeFacts
<1>. QED
  BY <1>2, <1>3

\* ext2_write preserves the invariant.
LEMMA WriteStep ==
  ASSUME HandlesInv, NEW h \in Handles, NEW s \in Chunks, ext2_write(h, s)
  PROVE  HandlesInv'
<1>. DEFINE r == AtEnd(fe[h])
            N(e) == MinOf(Len(s), ext2_buffer_space(e.cursor))
<1>1. /\ Callable(h) /\ r.cursor + Len(s) <= MaxSize
      /\ UNCHANGED <<inode, closing, shared>>
      /\ \E o \in ext2_select_buffer(r) :
           /\ disk' = o.disk /\ free' = o.free /\ unmarked' = o.unmarked /\ astray' = o.astray
           /\ IF o.ok
              THEN fe' = [fe EXCEPT ![h] = Written(o.fe, s, N(o.fe))] /\ Copies(o.fe, N(o.fe))
              ELSE fe' = [fe EXCEPT ![h] = o.fe] /\ UNCHANGED <<overrun, misplaced>>
  BY DEF ext2_write, AtEnd, Written
<1>2. PICK o \in ext2_select_buffer(r) :
        /\ disk' = o.disk /\ free' = o.free /\ unmarked' = o.unmarked /\ astray' = o.astray
        /\ IF o.ok
           THEN fe' = [fe EXCEPT ![h] = Written(o.fe, s, N(o.fe))] /\ Copies(o.fe, N(o.fe))
           ELSE fe' = [fe EXCEPT ![h] = o.fe] /\ UNCHANGED <<overrun, misplaced>>
  BY <1>1
<1>3. Typed /\ EntOK(fe[h])
  BY <1>1, CallableFacts
<1>4. /\ EntOK(r) /\ r.file = fe[h].file /\ r.inode = fe[h].inode
      /\ Kept(r, fe[h]) /\ r.cursor \in Nat
  BY <1>3, AtEndFacts
<1>. HIDE DEF r
<1>5. Len(s) \in Nat \ {0} /\ r.cursor < MaxSize
  BY <1>1, <1>4, ChunkType, SizeFacts
<1>6. Selected(r, o)
  BY <1>2, <1>3, <1>4, <1>5, SelectOutcome
<1>7. /\ EntOK(o.fe) /\ SameFile(o.fe, r) /\ o.ok \in BOOLEAN
      /\ o.ok = TRUE => o.fe.lba # 0 /\ (~o.fe.dirty => o.fe.buf = o.disk[o.fe.lba])
  BY <1>3, <1>4, <1>5, <1>6, SelectEnt
<1>8. r.inode.i_size \in Nat /\ o.fe.cursor = r.cursor /\ o.fe.inode.i_size = r.inode.i_size
  BY <1>4, <1>7, SizeFacts DEF EntOK, EntType, InodeType, SameFile
<1>9. CASE o.ok = FALSE
  <2>1. fe' = [fe EXCEPT ![h] = o.fe] /\ UNCHANGED <<overrun, misplaced>>
    BY <1>2, <1>9
  <2>2. /\ overrun' \in BOOLEAN /\ misplaced' \in BOOLEAN /\ o.fe.file = r.file
        /\ o.fe.inode.i_size >= r.inode.i_size
    BY <1>3, <1>7, <1>8, <2>1 DEF Typed, SameFile
  <2>. QED
    BY <1>1, <1>2, <1>4, <1>5, <1>6, <1>7, <1>9, <2>1, <2>2, CopyStep
<1>10. CASE o.ok = TRUE
  <2>1. PICK n : n = N(o.fe)
    OBVIOUS
  <2>2. PICK x : x = Written(o.fe, s, n)
    OBVIOUS
  <2>3. fe' = [fe EXCEPT ![h] = x] /\ Copies(o.fe, n)
    BY <1>2, <1>10, <2>1, <2>2
  <2>4. PICK e : e = o.fe
    OBVIOUS
  <2>5. /\ overrun' \in BOOLEAN /\ misplaced' \in BOOLEAN
        /\ misplaced => misplaced'
        /\ ~misplaced' => BlockAt(e, e.cursor) # 0 /\ e.lba = SectorIn(BlockAt(e, e.cursor), e.cursor)
        /\ ~overrun' => ~((e.cursor % SectorSize) + n > SectorSize)
    BY <2>3, <2>4, CopiesFacts
  <2>6. n \in 0 .. Len(s) /\ e.cursor + n <= MaxSize /\ e \in EntType
    <3>1. ext2_buffer_space(r.cursor) \in Nat
      BY <1>4, SpaceType
    <3>. QED
      BY <1>1, <1>4, <1>5, <1>7, <1>8, <2>1, <2>4, <3>1, SizeFacts DEF MinOf, SameFile
  <2>7. IsWritten(x, e, s, n)
    BY <2>2, <2>4, <2>6, WriteFields
  <2>8. /\ x.file = r.file /\ x.lba = o.fe.lba /\ x.inode.i_block = o.fe.inode.i_block
        /\ x.inode.i_size >= r.inode.i_size
    <3>1. x.file = r.file /\ x.lba = o.fe.lba /\ x.inode.i_block = o.fe.inode.i_block
      BY <1>7, <2>4, <2>7 DEF IsWritten, SameFile
    <3>2. x.inode.i_size = IF r.cursor + n > r.inode.i_size THEN r.cursor + n ELSE r.inode.i_size
      BY <1>8, <2>4, <2>7 DEF IsWritten
    <3>. QED
      BY <1>4, <1>5, <1>8, <2>6, <3>1, <3>2
  <2>9. EntOK(x)
    <3>1. x.cursor <= x.inode.i_size
      BY <1>4, <1>5, <1>8, <2>4, <2>6, <2>7 DEF IsWritten
    <3>2. x.lba # 0 /\ x.file # 0
      BY <1>1, <1>4, <1>7, <1>10, <2>8 DEF Callable
    <3>. QED
      BY <2>7, <3>1, <3>2 DEF IsWritten, EntOK
  <2>10. ASSUME Sound', Whole(o.disk, o.fe) PROVE Whole(o.disk, x)
    <3>1. /\ BlockAt(e, e.cursor) # 0 /\ e.lba = SectorIn(BlockAt(e, e.cursor), e.cursor)
          /\ ~((e.cursor % SectorSize) + n > SectorSize)
      BY <2>5, <2>10 DEF Sound
    <3>2. (e.cursor % SectorSize) + n <= SectorSize
      <4>1. e.cursor % SectorSize \in Nat
        BY <1>4, <1>8, <2>4, SpaceType
      <4>. QED
        BY <1>5, <2>6, <3>1, <4>1, SizeFacts
    <3>3. EntOK(e) /\ (~e.dirty => e.buf = o.disk[e.lba])
      BY <1>7, <1>10, <2>4
    <3>4. PICK d : d = o.disk
      OBVIOUS
    <3>. QED
      BY <2>2, <2>4, <2>6, <2>10, <3>1, <3>2, <3>3, <3>4, PokeWhole
  <2>11. Sound' => BlockAt(o.fe, r.cursor) # 0
    BY <1>8, <2>4, <2>5 DEF Sound
  <2>. QED
    BY <1>1, <1>2, <1>4, <1>5, <1>6, <1>10, <2>3, <2>5, <2>8, <2>9, <2>10, <2>11, CopyStep
<1>. QED
  BY <1>7, <1>9, <1>10

\* The first half of ext2_close preserves the invariant.
LEMMA CloseStoreStep ==
  ASSUME HandlesInv, NEW h \in Handles, CloseStore(h)
  PROVE  HandlesInv'
<1>1. /\ Callable(h) /\ fe[h].dirty
      /\ UNCHANGED <<inode, free, unmarked, astray, overrun, misplaced, shared>>
  BY DEF CloseStore
<1>2. PICK o \in ext2_store_buffer(disk, fe[h]) :
        disk' = o.disk /\ fe' = [fe EXCEPT ![h] = o.fe] /\ closing' = IF o.ok THEN h ELSE 0
  BY DEF CloseStore
<1>3. /\ Typed /\ ~overrun /\ fe[h].file # 0 /\ EntOK(fe[h]) /\ disk \in [Lbas -> Sector]
      /\ overrun \in BOOLEAN /\ misplaced \in BOOLEAN /\ astray \in BOOLEAN
      /\ unmarked \subseteq BlockNumbers \ {0}
      /\ Sound => Whole(disk, fe[h])
  BY <1>1, CallableFacts DEF Typed
<1>4. /\ SameFile(o.fe, fe[h]) /\ o.fe.inode = fe[h].inode
      /\ \/ /\ o.ok = TRUE /\ o.disk = [disk EXCEPT ![fe[h].lba] = fe[h].buf]
            /\ Loaded(o.fe, fe[h].lba, fe[h].buf)
         \/ o.ok = FALSE /\ Faulty /\ o.disk = disk /\ o.fe = fe[h]
  BY <1>2, <1>3, StoreOutcome
<1>5. PICK x : x = o.fe
  OBVIOUS
<1>6. /\ EntOK(x) /\ x.file = fe[h].file /\ fe' = [fe EXCEPT ![h] = x] /\ x.inode = fe[h].inode
      /\ x.dirty => fe[h].dirty /\ x.lba = fe[h].lba
  BY <1>2, <1>3, <1>4, <1>5 DEF EntOK, SameFile, Loaded
<1>7. disk' = disk \/ disk' = Stored(disk, fe[h])
  BY <1>1, <1>2, <1>4 DEF Stored
<1>8. \A lba \in Lbas : Seen(disk', x, lba) = Seen(disk, fe[h], lba)
  <2>1. CASE o.disk = disk /\ o.fe = fe[h]
    BY <1>2, <1>5, <2>1
  <2>2. CASE o.disk = [disk EXCEPT ![fe[h].lba] = fe[h].buf] /\ Loaded(o.fe, fe[h].lba, fe[h].buf)
    BY <1>1, <1>2, <1>3, <1>5, <2>2 DEF Seen, Loaded
  <2>. QED
    BY <1>4, <2>1, <2>2
<1>9. Sound' => Whole(disk', x)
  <2>1. SUFFICES ASSUME Sound', NEW pos \in 0 .. x.inode.i_size - 1
                 PROVE  /\ BlockAt(x, pos) # 0
                        /\ Seen(disk', x, SectorIn(BlockAt(x, pos), pos))[pos % SectorSize] # Junk
    BY DEF Whole
  <2>2. Whole(disk, fe[h])
    BY <1>1, <1>3, <2>1 DEF Sound
  <2>3. fe[h] \in EntType /\ pos \in Nat /\ pos < MaxSize /\ pos \in 0 .. fe[h].inode.i_size - 1
    BY <1>3, <1>6, <2>1, SizeFacts DEF EntOK, EntType, InodeType
  <2>4. BlockAt(x, pos) = BlockAt(fe[h], pos) /\ BlockAt(fe[h], pos) # 0
    BY <1>6, <2>2, <2>3 DEF BlockAt, Whole
  <2>5. BlockAt(fe[h], pos) \in BlockNumbers \ {0}
    BY <2>3, <2>4, BlockAtType
  <2>6. SectorIn(BlockAt(fe[h], pos), pos) \in Lbas
    BY <2>3, <2>5, SectorType
  <2>. QED
    BY <1>8, <2>2, <2>3, <2>4, <2>6 DEF Whole
<1>10. \A b \in BlockNumbers \ {0} : Reaches(x, b) => Reaches(fe[h], b)
  BY <1>6 DEF Reaches
<1>11. x.inode.i_size >= fe[h].inode.i_size
  BY <1>3, <1>6, SizeFacts DEF EntOK, EntType, InodeType
<1>12. Becomes(h, x)
  BY <1>6, <1>9, <1>10, <1>11 DEF Becomes, BlockAt
<1>13. closing' \in {0, h} /\ (closing' = h => ~x.dirty /\ ~overrun')
  <2>1. CASE o.ok = TRUE
    BY <1>1, <1>2, <1>3, <1>4, <1>5, <2>1 DEF Loaded
  <2>2. CASE o.ok = FALSE
    BY <1>2, <2>2, SizeFacts
  <2>. QED
    BY <1>4, <2>1, <2>2
<1>. QED
  BY <1>1, <1>3, <1>7, <1>12, <1>13, HandleStep

\* A struct file_ent that is not in use.
LEMMA ClosedFacts ==
  /\ EntOK(Closed) /\ Closed \in EntType /\ Closed.file = 0 /\ ~Closed.dirty
<1>1. [i_size |-> 0, i_block |-> [k \in Entries |-> 0]] \in InodeType
  BY SizeFacts DEF InodeType, BlockNumbers
<1>2. [k \in Offsets |-> Junk] \in Sector
  BY DEF Sector
<1>3. Closed \in EntType
  BY <1>1, <1>2, SizeFacts DEF EntType, Closed
<1>4. Closed.cursor <= Closed.inode.i_size
  BY DEF Closed
<1>. QED
  BY <1>3, <1>4 DEF EntOK, Closed

\* The second half of ext2_close preserves the invariant.
LEMMA CloseFlushStep ==
  ASSUME HandlesInv, NEW h \in Handles, CloseFlush(h)
  PROVE  HandlesInv'
<1>1. /\ Typed /\ OneEach /\ Private /\ Longer /\ Agrees /\ AllWhole /\ SizeAfterData
      /\ fe' = [fe EXCEPT ![h] = Closed] /\ closing' = 0
      /\ UNCHANGED <<disk, free, unmarked, astray, overrun, misplaced, shared>>
  BY DEF HandlesInv, CloseFlush
<1>2. fe[h].file # 0 /\ ~fe[h].dirty /\ ~overrun
  BY <1>1, SizeFacts DEF CloseFlush, Callable, Idle, Typed
<1>3. /\ fe[h] \in EntType /\ fe[h].file \in Files /\ fe[h].inode \in InodeType
      /\ \A k \in Handles : fe'[k] = IF k = h THEN Closed ELSE fe[k]
      /\ fe' \in [Handles -> EntType] /\ \A k \in Handles : EntOK(fe'[k])
  BY <1>1, <1>2, ClosedFacts DEF Typed, EntType
<1>4. /\ inode' \in [Files -> InodeType]
      /\ \A f \in Files : inode'[f] = inode[f] \/ (f = fe[h].file /\ inode'[f] = fe[h].inode)
  BY <1>1, <1>3 DEF CloseFlush, Typed
<1>5. Typed' /\ OneEach'
  BY <1>1, <1>3, <1>4, ClosedFacts DEF Typed, OneEach
<1>6. Private'
  <2>1. ASSUME NEW f \in Files, NEW b \in BlockNumbers \ {0}, Holds(f, b)' PROVE Holds(f, b)
    <3>1. CASE \E k \in Entries : inode'[f].i_block[k] = b
      BY <1>4, <3>1 DEF Holds, Reaches
    <3>2. CASE \E k \in Handles : fe'[k].file = f /\ Reaches(fe'[k], b)
      <4>1. PICK k \in Handles : fe'[k].file = f /\ Reaches(fe'[k], b)
        BY <3>2
      <4>2. k # h /\ fe'[k] = fe[k]
        BY <1>3, <4>1, ClosedFacts, SizeFacts
      <4>. QED
        BY <4>1, <4>2 DEF Holds
    <3>. QED
      BY <2>1, <3>1, <3>2 DEF Holds, Reaches
  <2>. QED
    BY <1>1, <2>1, PrivateStep
<1>7. ASSUME NEW k \in Handles, fe'[k].file # 0, ~shared
      PROVE  k # h /\ fe'[k] = fe[k] /\ fe[k].file # 0 /\ inode'[fe[k].file] = inode[fe[k].file]
  <2>1. k # h /\ fe'[k] = fe[k]
    BY <1>3, <1>7, ClosedFacts
  <2>2. fe[k].file # fe[h].file /\ fe[k].file \in Files
    BY <1>1, <1>2, <1>3, <1>7, <2>1 DEF OneEach, Typed, EntType
  <2>. QED
    BY <1>4, <1>7, <2>1, <2>2
<1>8. Longer'
  BY <1>1, <1>7 DEF Longer
<1>9. Agrees'
  BY <1>1, <1>7 DEF Agrees, Sound
<1>10. AllWhole'
  <2>1. SUFFICES ASSUME Sound, NEW k \in Handles, fe'[k].file # 0 PROVE Whole(disk, fe'[k])
    BY <1>1 DEF AllWhole, Whole, BlockAt, Seen, Sound
  <2>. QED
    BY <1>1, <1>7, <2>1 DEF AllWhole, Sound
<1>11. SizeAfterData'
  <2>1. SUFFICES ASSUME ~misplaced, ~shared, unmarked = {},
                        NEW f \in Files, NEW pos \in 0 .. inode'[f].i_size - 1
                 PROVE  /\ inode'[f].i_block[pos \div BlockSize] # 0
                        /\ disk[SectorIn(inode'[f].i_block[pos \div BlockSize], pos)][pos % SectorSize] # Junk
    BY <1>1 DEF SizeAfterData
  <2>2. CASE inode'[f] = inode[f]
    BY <1>1, <2>1, <2>2 DEF SizeAfterData
  <2>3. CASE f = fe[h].file /\ inode'[f] = fe[h].inode
    <3>1. Whole(disk, fe[h])
      BY <1>1, <1>2, <2>1 DEF AllWhole, Sound
    <3>2. pos \in 0 .. fe[h].inode.i_size - 1
      BY <2>1, <2>3
    <3>. QED
      BY <1>2, <2>3, <3>1, <3>2 DEF Whole, Seen, BlockAt
  <2>. QED
    BY <1>4, <2>2, <2>3
<1>. QED
  BY <1>5, <1>6, <1>8, <1>9, <1>10, <1>11 DEF HandlesInv

\* ext2_open preserves the invariant.
LEMMA OpenStep ==
  ASSUME HandlesInv, NEW h \in Handles, NEW f \in Files, NEW w \in BOOLEAN, NEW a \in BOOLEAN,
         ext2_open(h, f, w, a)
  PROVE  HandlesInv'
<1>. DEFINE x == [Closed EXCEPT !.file = f, !.inode = OpenInode(f), !.write = w, !.append = a]
<1>1. /\ Typed /\ OneEach /\ Private /\ Longer /\ Agrees /\ AllWhole /\ SizeAfterData
      /\ closing = 0 /\ ~overrun /\ fe' = [fe EXCEPT ![h] = x]
      /\ UNCHANGED <<disk, inode, free, unmarked, astray, closing, overrun, misplaced>>
  BY DEF HandlesInv, ext2_open, Idle
<1>2. /\ shared' \in BOOLEAN
      /\ shared => shared'
      /\ ~shared' => \A k \in Handles : fe[k].file # f
  <2>1. shared' = (shared \/ \E k \in Handles : fe[k].file = f)
    BY DEF ext2_open
  <2>. QED
    BY <2>1
<1>3. /\ x \in EntType /\ x.file = f /\ x.inode = inode[f] /\ ~x.dirty /\ EntOK(x)
  <2>1. inode[f] \in InodeType /\ Closed \in EntType
    BY <1>1, ClosedFacts DEF Typed
  <2>2. /\ x \in EntType /\ x.file = f /\ x.inode = inode[f] /\ x.dirty = Closed.dirty
        /\ x.cursor = Closed.cursor
    BY <2>1 DEF EntType, OpenInode
  <2>3. Closed.cursor = 0 /\ Closed.dirty = FALSE
    BY DEF Closed
  <2>4. x.cursor <= x.inode.i_size
    BY <2>1, <2>2, <2>3, SizeFacts DEF InodeType
  <2>. QED
    BY <2>2, <2>3, <2>4 DEF EntOK
<1>. HIDE DEF x
<1>4. /\ \A k \in Handles : fe'[k] = IF k = h THEN x ELSE fe[k]
      /\ fe' \in [Handles -> EntType]
  BY <1>1, <1>3 DEF Typed
<1>5. Typed'
  BY <1>1, <1>2, <1>3, <1>4 DEF Typed
<1>6. OneEach'
  BY <1>1, <1>2, <1>3, <1>4 DEF OneEach
<1>7. Private'
  <2>1. ASSUME NEW g \in Files, NEW b \in BlockNumbers \ {0}, Holds(g, b)' PROVE Holds(g, b)
    <3>1. CASE \E k \in Entries : inode[g].i_block[k] = b
      BY <3>1 DEF Holds
    <3>2. CASE \E k \in Handles : fe'[k].file = g /\ Reaches(fe'[k], b)
      <4>1. PICK k \in Handles : fe'[k].file = g /\ Reaches(fe'[k], b)
        BY <3>2
      <4>2. CASE k # h
        BY <1>4, <4>1, <4>2 DEF Holds
      <4>3. CASE k = h
        <5>1. x.file = g /\ Reaches(x, b)
          BY <1>4, <4>1, <4>3
        <5>. QED
          BY <1>3, <5>1 DEF Holds, Reaches
      <4>. QED
        BY <4>2, <4>3
    <3>. QED
      BY <1>1, <2>1, <3>1, <3>2 DEF Holds, Reaches
  <2>. QED
    BY <1>1, <2>1, PrivateStep
<1>8. Longer'
  <2>1. inode[f].i_size <= inode[f].i_size
    BY <1>1, SizeFacts DEF Typed, InodeType
  <2>. QED
    BY <1>1, <1>2, <1>3, <1>4, <2>1 DEF Longer
<1>9. Agrees'
  BY <1>1, <1>2, <1>3, <1>4 DEF Agrees, Sound
<1>10. AllWhole'
  <2>1. SUFFICES ASSUME Sound, NEW k \in Handles, fe'[k].file # 0 PROVE Whole(disk, fe'[k])
    BY <1>1, <1>2 DEF AllWhole, Whole, BlockAt, Seen, Sound
  <2>2. CASE k # h
    BY <1>1, <1>4, <2>1, <2>2 DEF AllWhole
  <2>3. CASE k = h
    <3>1. Whole(disk, x)
      BY <1>1, <1>3, <2>1 DEF SizeAfterData, Sound, Whole, Seen, BlockAt
    <3>. QED
      BY <1>4, <2>3, <3>1
  <2>. QED
    BY <2>2, <2>3
<1>11. SizeAfterData'
  BY <1>1, <1>2 DEF SizeAfterData
<1>. QED
  BY <1>5, <1>6, <1>7, <1>8, <1>9, <1>10, <1>11 DEF HandlesInv

\* The volume alone: with every handle closed the invariant is about the inodes.
LEMMA AllClosed ==
  ASSUME fe = [h \in Handles |-> Closed]
  PROVE  /\ fe \in [Handles -> EntType]
         /\ \A h \in Handles : EntOK(fe[h]) /\ fe[h].file = 0
         /\ OneEach /\ Longer /\ Agrees /\ AllWhole
         /\ \A f \in Files : \A b : Holds(f, b) <=> \E k \in Entries : inode[f].i_block[k] = b
<1>1. /\ fe \in [Handles -> EntType]
      /\ \A h \in Handles : fe[h] = Closed /\ EntOK(fe[h]) /\ fe[h].file = 0
  BY ClosedFacts
<1>2. OneEach /\ Longer /\ Agrees /\ AllWhole
  BY <1>1 DEF OneEach, Longer, Agrees, AllWhole
<1>. QED
  BY <1>1, <1>2, SizeFacts DEF Holds

\* A power failure preserves the invariant.
LEMMA CrashStep ==
  ASSUME HandlesInv, Crash
  PROVE  HandlesInv'
<1>1. /\ Typed /\ Private /\ SizeAfterData /\ ~overrun
      /\ fe' = [h \in Handles |-> Closed] /\ closing' = 0
      /\ UNCHANGED <<disk, inode, free, unmarked, astray, overrun, misplaced, shared>>
  BY DEF HandlesInv, Crash
<1>2. /\ fe' \in [Handles -> EntType]
      /\ \A h \in Handles : fe'[h] = Closed /\ EntOK(fe'[h]) /\ fe'[h].file = 0
  BY <1>1, ClosedFacts
<1>3. Typed'
  BY <1>1, <1>2 DEF Typed
<1>4. OneEach' /\ Longer' /\ Agrees' /\ AllWhole'
  BY <1>2 DEF OneEach, Longer, Agrees, AllWhole
<1>5. Private'
  <2>1. ASSUME NEW f \in Files, NEW b \in BlockNumbers \ {0}, Holds(f, b)' PROVE Holds(f, b)
    BY <1>1, <1>2, <2>1, SizeFacts DEF Holds
  <2>. QED
    BY <1>1, <2>1, PrivateStep
<1>6. SizeAfterData'
  BY <1>1 DEF SizeAfterData
<1>. QED
  BY <1>3, <1>4, <1>5, <1>6 DEF HandlesInv

\* A volume as mkfs and earlier callers leave it satisfies the invariant.
LEMMA HandlesInit == Init => HandlesInv
<1>. SUFFICES ASSUME Init PROVE HandlesInv
  OBVIOUS
<1>. USE DEF Init
<1>1. /\ fe \in [Handles -> EntType]
      /\ \A h \in Handles : EntOK(fe[h]) /\ fe[h].file = 0
      /\ OneEach /\ Longer /\ Agrees /\ AllWhole
      /\ \A f \in Files : \A b : Holds(f, b) <=> \E k \in Entries : inode[f].i_block[k] = b
  BY AllClosed
<1>2. Typed
  <2>1. disk \in [Lbas -> Sector] /\ inode \in [Files -> InodeType] /\ free \subseteq BlockNumbers \ {0}
    BY VolumeAssumption
  <2>2. closing = 0
    BY SizeFacts
  <2>. QED
    BY <1>1, <2>1, <2>2 DEF Typed
<1>3. Private
  BY <1>1, VolumeAssumption DEF Private
<1>4. SizeAfterData
  BY VolumeAssumption DEF SizeAfterData
<1>. QED
  BY <1>1, <1>2, <1>3, <1>4 DEF HandlesInv

\* Every call of every caller, and every power failure.
LEMMA HandlesNext == HandlesInv /\ [Next]_vars => HandlesInv'
<1>. SUFFICES ASSUME HandlesInv, [Next]_vars PROVE HandlesInv'
  OBVIOUS
<1>1. CASE UNCHANGED vars
  <2>1. /\ UNCHANGED <<disk, inode, free, unmarked, astray, fe, closing, overrun, misplaced, shared>>
        /\ Typed /\ OneEach /\ Private /\ Longer /\ Agrees /\ AllWhole /\ SizeAfterData
    BY <1>1 DEF vars, HandlesInv
  <2>2. Typed' /\ OneEach' /\ Longer' /\ SizeAfterData'
    BY <2>1 DEF Typed, OneEach, Longer, SizeAfterData
  <2>3. Private'
    BY <2>1 DEF Private, Holds, Reaches
  <2>4. Agrees' /\ AllWhole'
    BY <2>1 DEF Agrees, AllWhole, Sound, Whole, Seen, BlockAt
  <2>. QED
    BY <2>2, <2>3, <2>4 DEF HandlesInv
<1>2. CASE Next
  BY <1>2, OpenStep, SeekStep, ReadStep, WriteStep, CloseStoreStep, CloseFlushStep, CrashStep DEF Next
<1>. QED
  BY <1>1, <1>2

(***************************************************************************)
(* The theorems.                                                           *)
(***************************************************************************)

\* The inductive invariant holds in every reachable state.
THEOREM HandlesInvariant == Spec => []HandlesInv
<1>. QED
  BY HandlesInit, HandlesNext, PTL DEF Spec

\* Every variable has its type: a dirty buffer always has a sector to go to, the
\* cursor is within the file, and no file is open twice unless it was shared.
THEOREM HandlesTypes == Spec => []TypeOK
<1>1. HandlesInv => TypeOK
  <2>. SUFFICES ASSUME HandlesInv PROVE TypeOK
    OBVIOUS
  <2>1. Typed /\ OneEach
    BY DEF HandlesInv
  <2>2. ASSUME NEW h \in Handles
        PROVE  /\ fe[h].file \in Files \cup {0} /\ fe[h].inode \in InodeType
               /\ fe[h].cursor \in 0 .. fe[h].inode.i_size
               /\ fe[h].lba \in Lbas \cup {0} /\ fe[h].buf \in Sector
               /\ fe[h].dirty => fe[h].lba # 0
    BY <2>1, SizeFacts DEF Typed, EntOK, EntType, InodeType
  <2>. QED
    BY <2>1, <2>2 DEF TypeOK, Typed, OneEach
<1>. QED
  BY <1>1, HandlesInvariant, PTL

\* Whatever fails and however files are shared or grow, the modified buffer of
\* a handle is never on its way into a block of another file, unless that block
\* was handed out although its bit could not be stored.
THEOREM HandlesIsolated == Spec => []Isolated
<1>1. HandlesInv => Isolated
  <2>. SUFFICES ASSUME HandlesInv, NEW h \in Handles, NEW f \in Files, fe[h].dirty, fe[h].file # f,
                       BlockOf(fe[h].lba) \notin unmarked, NEW k \in Entries
                PROVE  /\ BlockOf(fe[h].lba) # inode[f].i_block[k]
                       /\ \A g \in HandlesOf(f) : BlockOf(fe[h].lba) # fe[g].inode.i_block[k]
    BY DEF Isolated, BlockOf
  <2>1. Typed /\ Private /\ fe[h].lba \in Lbas /\ fe[h].file \in Files
    BY DEF HandlesInv, Typed, EntOK, EntType
  <2>2. PICK b \in (BlockNumbers \ {0}) \ unmarked : b = BlockOf(fe[h].lba)
    BY <2>1, LbaType
  <2>3. Holds(fe[h].file, b)
    BY <2>2 DEF Holds, Reaches
  <2>4. ~Holds(f, b)
    BY <2>1, <2>3 DEF Private
  <2>. QED
    BY <2>2, <2>4 DEF Holds, Reaches, HandlesOf
<1>. QED
  BY <1>1, HandlesInvariant, PTL

\* Wherever power or a write fails, every byte below a size on the volume was
\* written, unless a copy went to the wrong sector, a file was open twice or the
\* bit of a block that was handed out could not be stored.
THEOREM HandlesSizeAfterData == Spec => []SizeAfterData
<1>1. HandlesInv => SizeAfterData
  BY DEF HandlesInv
<1>. QED
  BY <1>1, HandlesInvariant, PTL

\* As long as no file is open twice, no call makes a file on the volume shorter.
THEOREM HandlesNeverShrink == Spec => NeverShrinks
<1>. DEFINE Kept1 == ~shared => \A f \in Files : inode'[f].i_size >= inode[f].i_size
<1>1. HandlesInv /\ [Next]_vars => [Kept1]_vars
  <2>. SUFFICES ASSUME HandlesInv, Next, ~shared, NEW f \in Files
                PROVE  inode'[f].i_size >= inode[f].i_size
    BY DEF vars
  <2>1. Typed /\ Longer /\ inode[f].i_size \in Nat
    BY SizeFacts DEF HandlesInv, Typed, InodeType
  <2>2. CASE inode' = inode
    BY <2>1, <2>2
  <2>3. CASE \E h \in Handles : CloseFlush(h)
    <3>1. PICK h \in Handles : CloseFlush(h)
      BY <2>3
    <3>2. fe[h].file \in Files /\ fe[h].file # 0 /\ fe[h].inode.i_size \in Nat
      BY <2>1, <3>1, SizeFacts DEF CloseFlush, Callable, Idle, Typed, EntType, InodeType
    <3>3. inode' = inode \/ inode' = [inode EXCEPT ![fe[h].file] = fe[h].inode]
      BY <3>1 DEF CloseFlush
    <3>. QED
      BY <2>1, <2>2, <3>2, <3>3 DEF Longer, Typed
  <2>. QED
    BY <2>2, <2>3 DEF Next, ext2_open, ext2_lseek, ext2_read, ext2_write, CloseStore, Crash
<1>. QED
  BY <1>1, HandlesInvariant, PTL DEF Spec, NeverShrinks
=============================================================================
