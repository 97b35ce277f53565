-------------------------- MODULE DirectoryProofs --------------------------
(***************************************************************************)
(* Theorems about Directory, for every block and sector size, every set of *)
(* names and of initial directories whose headers and names lie within     *)
(* sectors, and any number of files and power failures.  What a walk along *)
(* the chain comes to is shown by looking at the first record it would     *)
(* miss.                                                                   *)
(***************************************************************************)
EXTENDS Directory, WellFoundedInduction, TLAPS

(***************************************************************************)
(* Numbers.                                                                *)
(***************************************************************************)

\* A set of natural numbers that is not empty has a least element.
LEMMA LeastElement ==
  ASSUME NEW S \in SUBSET Nat, S # {}
  PROVE  \E x \in S : \A y \in S : x <= y
<1>. DEFINE R == OpToRel(<, Nat)
<1>1. IsWellFoundedOn(R, Nat)
  BY NatLessThanWellFounded
<1>2. \A x, y \in Nat : y < x => <<y, x>> \in R
  BY DEF OpToRel
<1>. HIDE DEF R
<1>3. PICK x \in S : \A y \in S : ~ (<<y, x>> \in R)
  BY <1>1, WFMin
<1>4. \A y \in S : ~ (y < x)
  BY <1>2, <1>3
<1>. QED
  BY <1>3, <1>4

\* Quotient and remainder of a number in the form they are looked for.
LEMMA DivMod ==
  ASSUME NEW k \in Nat \ {0}, NEW q \in Nat, NEW r \in 0 .. k - 1, NEW x, x = k * q + r
  PROVE  x \div k = q /\ x % k = r
  OBVIOUS

\* A number is made of its quotient and its remainder.
LEMMA DivModSplit ==
  ASSUME NEW k \in Nat \ {0}, NEW a \in Nat
  PROVE  a \div k \in Nat /\ a % k \in 0 .. k - 1 /\ k * (a \div k) + (a % k) = a
  OBVIOUS

\* Multiplication is monotonic.
LEMMA Monotonic ==
  ASSUME NEW k \in Nat, NEW a \in Nat, NEW b \in Nat, a <= b
  PROVE  k * a <= k * b
  OBVIOUS

\* The parts of SizeAssumption a proof can use as they are.
LEMMA Sizes ==
  /\ SectorSize \in Nat \ {0} /\ BlockSize \in Nat \ {0} /\ BlockSize % 4 = 0
  /\ Chunk \in Nat \ {0} /\ Chunk % 4 = 0
  /\ Offsets \subseteq Nat /\ \A o \in Offsets : o % 4 = 0
  /\ MaxFiles \in Nat /\ MaxCrashes \in Nat
<1>1. SectorSize \in Nat \ {0}
  BY SizeAssumption DEF Header
<1>2. BlockSize # 0
  <2>1. SUFFICES ASSUME BlockSize = 0 PROVE FALSE
    OBVIOUS
  <2>2. 0 \div SectorSize = 0
    BY <1>1, DivMod
  <2>. QED
    BY <2>1, <2>2, SizeAssumption
<1>. QED
  BY <1>1, <1>2, SizeAssumption

\* The names, and how long their entries are.
LEMMA NameFacts ==
  /\ NoName \notin DOMAIN NameLen /\ NoName \notin Names
  /\ \A n \in Names : n \in DOMAIN NameLen
  /\ \A n \in DOMAIN NameLen : NameLen[n] \in 1 .. 255
  /\ \A n \in Names : Chunk + EntryLen(NameLen[n]) + 12 <= BlockSize
  BY SizeAssumption

\* The room an entry takes is a multiple of 4 and enough for header and name.
LEMMA EntryFacts ==
  ASSUME NEW len \in 0 .. 255
  PROVE  /\ EntryLen(len) \in Nat /\ EntryLen(len) % 4 = 0
         /\ EntryLen(len) >= Header + len
         /\ len >= 1 => EntryLen(len) >= 12
  BY DEF EntryLen, Header

\* A number of bytes that is one of whole blocks.
Whole(size) == size % BlockSize = 0

\* Numbers of whole blocks are a block apart.
LEMMA WholeApart ==
  ASSUME NEW a \in Nat, NEW b \in Nat, Whole(a), Whole(b), a < b
  PROVE  a + BlockSize <= b
<1>. DEFINE q == a \div BlockSize
            r == b \div BlockSize
<1>1. q \in Nat /\ r \in Nat /\ a = BlockSize * q /\ b = BlockSize * r
  BY DivModSplit, Sizes DEF Whole
<1>. HIDE DEF q, r
<1>2. q + 1 <= r
  <2>1. SUFFICES ASSUME r <= q PROVE FALSE
    BY <1>1
  <2>2. BlockSize * r <= BlockSize * q
    BY <1>1, <2>1, Sizes, Monotonic
  <2>. QED
    BY <1>1, <2>2
<1>3. BlockSize * (q + 1) <= BlockSize * r
  BY <1>1, <1>2, Sizes, Monotonic
<1>4. BlockSize * (q + 1) = BlockSize * q + BlockSize
  BY <1>1, Sizes
<1>. QED
  BY <1>1, <1>3, <1>4, Sizes

\* One more block, and one less.
LEMMA WholeNext ==
  ASSUME NEW a \in Nat, Whole(a)
  PROVE  /\ Whole(a + BlockSize)
         /\ a >= BlockSize => Whole(a - BlockSize)
         /\ a % 4 = 0
<1>. DEFINE q == a \div BlockSize
<1>1. q \in Nat /\ a = BlockSize * q
  BY DivModSplit, Sizes DEF Whole
<1>. HIDE DEF q
<1>2. Whole(a + BlockSize)
  <2>1. a + BlockSize = BlockSize * (q + 1) + 0
    BY <1>1, Sizes
  <2>. QED
    BY <1>1, <2>1, DivMod, Sizes DEF Whole
<1>3. ASSUME a >= BlockSize PROVE Whole(a - BlockSize)
  <2>1. q # 0
    BY <1>1, <1>3, Sizes
  <2>2. a - BlockSize = BlockSize * (q - 1) + 0
    BY <1>1, Sizes
  <2>. QED
    BY <1>1, <2>1, <2>2, DivMod, Sizes DEF Whole
<1>4. a % 4 = 0
  <2>1. PICK b \in Nat : BlockSize = 4 * b
    BY DivModSplit, Sizes
  <2>2. a = 4 * (b * q) + 0 /\ b * q \in Nat
    BY <1>1, <2>1
  <2>. QED
    BY <2>2, DivMod
<1>. QED
  BY <1>2, <1>3, <1>4

\* A header at the beginning of a block does not leave its sector.
LEMMA WholeWithin ==
  ASSUME NEW a \in Nat, Whole(a)
  PROVE  Within(a, Header)
<1>. DEFINE q == a \div BlockSize
            r == BlockSize \div SectorSize
<1>1. q \in Nat /\ a = BlockSize * q
  BY DivModSplit, Sizes DEF Whole
<1>2. BlockSize % SectorSize = 0 /\ SectorSize >= Header
  BY SizeAssumption
<1>3. r \in Nat /\ BlockSize = SectorSize * r
  <2>1. SectorSize \in Nat \ {0} /\ BlockSize \in Nat
    BY Sizes
  <2>2. r \in Nat /\ SectorSize * r + (BlockSize % SectorSize) = BlockSize
    BY <2>1, DivModSplit
  <2>. HIDE DEF r
  <2>. QED
    BY <1>2, <2>1, <2>2
<1>. HIDE DEF q, r
<1>4. a = SectorSize * (r * q) + 0 /\ r * q \in Nat
  BY <1>1, <1>3, Sizes
<1>5. a % SectorSize = 0
  <2>. DEFINE x == r * q
  <2>1. x \in Nat /\ a = SectorSize * x + 0
    BY <1>4
  <2>. HIDE DEF x
  <2>2. SectorSize \in Nat \ {0} /\ 0 \in 0 .. SectorSize - 1
    BY Sizes
  <2>. QED
    BY <2>1, <2>2, DivMod
<1>. QED
  BY <1>2, <1>5, Sizes DEF Within, Header

(***************************************************************************)
(* Reading.                                                                *)
(***************************************************************************)

\* A walk begins at its start and goes on as long as it can.
LEMMA Walk ==
  ASSUME NEW next, NEW start
  PROVE  /\ Visited(next, start) \subseteq DOMAIN next
         /\ start \in DOMAIN next => start \in Visited(next, start)
         /\ \A o \in Visited(next, start) :
              next[o] \in DOMAIN next => next[o] \in Visited(next, start)
  BY DEF Visited

\* The offsets at which there is an inode.
Used == {o \in Offsets : o < dir.size /\ dir.hdr[o].inode # 0}

\* ext2_readdir begins at 0 and goes on from record to record.
LEMMA ListedFacts ==
  /\ Listed \subseteq Used
  /\ 0 \in Used => 0 \in Listed
  /\ \A o \in Listed : NextEntry(o) \in Used => NextEntry(o) \in Listed
<1>. DEFINE next == [o \in Used |-> NextEntry(o)]
<1>1. Listed = Visited(next, 0)
  BY DEF Listed, Used
<1>2. DOMAIN next = Used /\ \A o \in Used : next[o] = NextEntry(o)
  OBVIOUS
<1>. HIDE DEF next
<1>3. Listed \subseteq Used
  BY <1>1, <1>2, Walk
<1>4. 0 \in Used => 0 \in Listed
  BY <1>1, <1>2, Walk
<1>5. ASSUME NEW o \in Listed, NextEntry(o) \in Used PROVE NextEntry(o) \in Listed
  <2>1. next[o] = NextEntry(o)
    BY <1>2, <1>3
  <2>. QED
    BY <1>1, <1>2, <1>5, <2>1, Walk
<1>. QED
  BY <1>3, <1>4, <1>5

\* The loop of ext2_lookup_path returns the inode of the first hit.
LEMMA LookupFacts ==
  ASSUME NEW n
  PROVE  \/ Lookup(n) = 0 /\ \A o \in Listed : ~Carries(o, n)
         \/ \E o \in Listed : /\ Carries(o, n) /\ Lookup(n) = dir.hdr[o].inode
                             /\ \A p \in Listed : Carries(p, n) => o <= p
<1>. DEFINE hits == {o \in Listed : Carries(o, n)}
            c == CHOOSE o \in hits : \A p \in hits : o <= p
<1>1. CASE hits = {}
  BY <1>1 DEF Lookup
<1>2. CASE hits # {}
  <2>1. hits \in SUBSET Nat
    BY ListedFacts, Sizes DEF Used
  <2>2. \E o \in hits : \A p \in hits : o <= p
    BY <1>2, <2>1, LeastElement
  <2>3. c \in hits /\ \A p \in hits : c <= p
    BY <2>2
  <2>4. Lookup(n) = dir.hdr[c].inode
    BY <1>2 DEF Lookup
  <2>. QED
    BY <2>3, <2>4
<1>. QED
  BY <1>1, <1>2

\* What a lookup returns is an inode number.
LEMMA LookupType ==
  ASSUME dir \in DirType, NEW n
  PROVE  Lookup(n) \in 0 .. MaxFiles + 20
<1>1. CASE Lookup(n) = 0
  BY <1>1, Sizes
<1>2. ASSUME NEW o \in Listed, Lookup(n) = dir.hdr[o].inode
      PROVE  Lookup(n) \in 0 .. MaxFiles + 20
  <2>1. o \in Offsets
    BY ListedFacts DEF Used
  <2>2. dir.hdr[o] \in HeaderType
    BY <2>1 DEF DirType
  <2>. QED
    BY <1>2, <2>2 DEF HeaderType
<1>. QED
  BY <1>1, <1>2, LookupFacts

(***************************************************************************)
(* Writing.                                                                *)
(***************************************************************************)

\* What a header put over a directory leaves of the name at q.
Left(nam, o, q) ==
  IF nam[q] # NoName /\ q < o + Header /\ o < q + NameLen[nam[q]] THEN NoName ELSE nam[q]

\* A header put into a directory changes that header and destroys names.
LEMMA PutHeaderFacts ==
  ASSUME NEW d \in DirType, NEW o \in Offsets, NEW h \in HeaderType
  PROVE  /\ PutHeader(d, o, h) \in DirType
         /\ PutHeader(d, o, h).size = d.size
         /\ PutHeader(d, o, h).hdr = [d.hdr EXCEPT ![o] = h]
         /\ \A q \in Offsets : PutHeader(d, o, h).nam[q] = Left(d.nam, o, q)
<1>. DEFINE e == PutHeader(d, o, h)
            nam == [q \in DOMAIN d.nam |-> Left(d.nam, o, q)]
<1>1. d = [size |-> d.size, hdr |-> d.hdr, nam |-> d.nam]
      /\ d.size \in Nat /\ d.hdr \in [Offsets -> HeaderType]
      /\ d.nam \in [Offsets -> DOMAIN NameLen \cup {NoName}]
  BY DEF DirType
<1>2. e = [size |-> d.size, hdr |-> [d.hdr EXCEPT ![o] = h], nam |-> nam]
  <2>1. e = [d EXCEPT !.hdr[o] = h, !.nam = nam]
    BY DEF PutHeader, Left
  <2>. HIDE DEF e, nam
  <2>. QED
    BY <1>1, <2>1
<1>3. nam \in [Offsets -> DOMAIN NameLen \cup {NoName}]
  BY <1>1 DEF Left
<1>4. [d.hdr EXCEPT ![o] = h] \in [Offsets -> HeaderType]
  BY <1>1
<1>5. \A q \in Offsets : nam[q] = Left(d.nam, o, q)
  BY <1>1
<1>. HIDE DEF nam
<1>. QED
  BY <1>1, <1>2, <1>3, <1>4, <1>5 DEF DirType

\* A name put into a directory changes that name.
LEMMA PutNameFacts ==
  ASSUME NEW d \in DirType, NEW o \in Offsets, NEW n \in Names, o + Header \in Offsets
  PROVE  /\ PutName(d, o, n) \in DirType
         /\ PutName(d, o, n).size = d.size /\ PutName(d, o, n).hdr = d.hdr
         /\ PutName(d, o, n).nam = [d.nam EXCEPT ![o + Header] = n]
<1>1. d = [size |-> d.size, hdr |-> d.hdr, nam |-> d.nam]
      /\ d.size \in Nat /\ d.hdr \in [Offsets -> HeaderType]
      /\ d.nam \in [Offsets -> DOMAIN NameLen \cup {NoName}]
  BY DEF DirType
<1>2. PutName(d, o, n) = [size |-> d.size, hdr |-> d.hdr, nam |-> [d.nam EXCEPT ![o + Header] = n]]
  BY <1>1 DEF PutName
<1>3. [d.nam EXCEPT ![o + Header] = n] \in [Offsets -> DOMAIN NameLen \cup {NoName}]
  BY <1>1, NameFacts
<1>. QED
  BY <1>1, <1>2, <1>3 DEF DirType

(***************************************************************************)
(* Types.  A scan stays in its block and its buffer because of what every  *)
(* header says, one in use or not: the next record begins where the least  *)
(* record still fits and in no sector's last 4 bytes, or the block ends    *)
(* with this one.                                                          *)
(***************************************************************************)

LinkAt(h, o, size) ==
  /\ h.rec_len % 4 = 0
  /\ o + h.rec_len + 12 <= size \/ o + h.rec_len = size
  /\ h.rec_len # 0 /\ o + h.rec_len < size => Within(o + h.rec_len, Header)

Linked(hdr) == \A o \in Offsets : o + 12 <= dir.size => LinkAt(hdr[o], o, dir.size)

\* There are offsets for what an append may write.
Roomy == \A o \in 0 .. dir.size + Chunk - 1 : o % 4 = 0 => o \in Offsets

Writing == {"shrink", "header", "name", "close"}

\* An append is at a record of the last block.
Placed ==
  /\ name \in Names /\ Whole(dir.size) /\ dir.size >= BlockSize
  /\ offset \in Offsets /\ dir.size <= offset + BlockSize /\ offset + 12 <= dir.size
  /\ Within(offset, Header)

\* What it writes next has a place, and what it copied fitted the buffer.
Aimed ==
  /\ at \in Offsets /\ at + Header \in Offsets /\ at + 12 <= dir.size
  /\ phase # "shrink" => Within(at, Header)
  /\ phase \in {"name", "close"} => Within(at + Header, NameLen[name])

\* The last record will end behind its name, where the new one begins.
Shrinking ==
  /\ offset + Header + dir.hdr[offset].name_len <= at
  /\ at - offset \in 8 .. BlockSize /\ (at - offset) % 4 = 0

\* The new record has room for its name.
Fits ==
  /\ at + Header + NameLen[name] <= dir.size
  /\ dir.size - at \in 12 .. BlockSize /\ (dir.size - at) % 4 = 0

TypeInv ==
  /\ TypeOK
  /\ ~grown => Whole(dir.size) /\ Roomy /\ ~first
  /\ ~grown /\ phase # "overrun" => Linked(dir.hdr)
  /\ grown => phase \notin {"scan", "shrink"}
  /\ phase \in {"scan"} \cup Writing => Placed
  /\ phase \in Writing => Aimed
  /\ phase = "shrink" => Shrinking
  /\ ~grown /\ phase \in {"shrink", "header"} => Fits

\* The fields of the header at an offset.
LEMMA HeaderFacts ==
  ASSUME NEW d \in DirType, NEW o \in Offsets
  PROVE  /\ d.hdr[o] \in HeaderType /\ o \in Nat /\ d.size \in Nat
         /\ d.hdr[o].rec_len \in 0 .. BlockSize /\ d.hdr[o].name_len \in 0 .. 255
         /\ d.hdr[o].inode \in 0 .. MaxFiles + 20
<1>1. d.hdr[o] \in HeaderType /\ d.size \in Nat
  BY DEF DirType
<1>. QED
  BY <1>1, Sizes DEF HeaderType

\* The header of a new entry.
LEMMA NewEntryFacts ==
  ASSUME TypeInv, name \in Names, NEW r \in 0 .. BlockSize
  PROVE  /\ NewEntry(r) \in HeaderType
         /\ NewEntry(r).rec_len = r /\ NewEntry(r).name_len = NameLen[name]
         /\ NewEntry(r).inode = made
<1>1. made \in 0 .. MaxFiles + 20 /\ NameLen[name] \in 0 .. 255
  BY NameFacts, Sizes DEF TypeInv, TypeOK
<1>. QED
  BY <1>1 DEF NewEntry, HeaderType

\* In the loop the directory is as it was when the append began.
LEMMA ScanFacts ==
  ASSUME TypeInv, phase = "scan"
  PROVE  /\ ~grown /\ ~first /\ Placed /\ Roomy /\ Linked(dir.hdr) /\ Whole(dir.size)
         /\ dir \in DirType /\ dir.size \in Nat /\ offset \in Nat /\ offset % 4 = 0
<1>1. ~grown /\ ~first /\ Placed /\ Roomy /\ Linked(dir.hdr) /\ Whole(dir.size) /\ dir \in DirType
  BY DEF TypeInv, TypeOK
<1>. QED
  BY <1>1, Sizes DEF Placed, DirType

\* If there is room behind the last record, that is where an entry fits.
LEMMA BehindFacts ==
  ASSUME TypeInv, phase = "scan", ~MoreRecords(offset), Room
  PROVE  /\ Behind \in Offsets /\ Behind + Header \in Offsets
         /\ offset + Header + dir.hdr[offset].name_len <= Behind
         /\ Behind + 12 <= dir.size
         /\ Behind - offset \in 8 .. BlockSize /\ (Behind - offset) % 4 = 0
         /\ dir.size - Behind \in 12 .. BlockSize /\ (dir.size - Behind) % 4 = 0
         /\ Behind + Header + NameLen[name] <= dir.size
<1>. DEFINE h == dir.hdr[offset]
            old == EntryLen(h.name_len)
            new == EntryLen(NameLen[name])
<1>1. Placed /\ Roomy /\ LinkAt(h, offset, dir.size) /\ dir \in DirType
  BY ScanFacts DEF Placed, Linked
<1>2. /\ h.rec_len \in 0 .. BlockSize /\ h.name_len \in 0 .. 255 /\ offset \in Nat
      /\ dir.size \in Nat /\ offset % 4 = 0
  BY <1>1, HeaderFacts, Sizes DEF Placed
<1>3. old \in Nat /\ old % 4 = 0 /\ old >= Header + h.name_len
  BY <1>2, EntryFacts
<1>4. new \in Nat /\ new % 4 = 0 /\ new >= 12
  BY <1>1, NameFacts, EntryFacts DEF Placed
<1>5. h.rec_len - old > new /\ offset + h.rec_len >= dir.size /\ Behind = offset + old
  BY <1>2 DEF Room, MoreRecords, Behind
<1>6. dir.size % 4 = 0 /\ dir.size <= offset + BlockSize
  BY <1>1, <1>2, WholeNext DEF Placed
<1>7. offset + h.rec_len + 12 <= dir.size \/ offset + h.rec_len = dir.size
  BY <1>1 DEF LinkAt
<1>. HIDE DEF h, old, new
<1>8. Behind + 12 <= dir.size /\ Behind \in Nat
  BY <1>2, <1>3, <1>4, <1>5, <1>7
<1>9. Behind % 4 = 0 /\ (Behind + Header) % 4 = 0
  BY <1>2, <1>3, <1>5 DEF Header
<1>10. Behind \in Offsets /\ Behind + Header \in Offsets
  BY <1>1, <1>2, <1>8, <1>9, Sizes DEF Roomy, Header
<1>11. Behind - offset \in 8 .. BlockSize /\ (Behind - offset) % 4 = 0
  <2>1. Behind - offset = old /\ old >= 8 /\ old <= BlockSize
    BY <1>2, <1>3, <1>4, <1>5, Sizes DEF Header
  <2>. QED
    BY <1>3, <2>1, Sizes
<1>12. dir.size - Behind \in 12 .. BlockSize /\ (dir.size - Behind) % 4 = 0
  <2>1. dir.size - Behind >= 12 /\ dir.size - Behind <= BlockSize
    BY <1>2, <1>3, <1>5, <1>6, <1>8, Sizes
  <2>2. (dir.size - Behind) % 4 = 0
    BY <1>2, <1>6, <1>8, <1>9
  <2>. QED
    BY <1>2, <1>8, <2>1, <2>2, Sizes
<1>13. offset + Header + h.name_len <= Behind
  BY <1>2, <1>3, <1>5 DEF Header
<1>14. Behind + Header + NameLen[name] <= dir.size
  <2>1. NameLen[name] \in 0 .. 255 /\ new >= Header + NameLen[name]
    BY <1>1, NameFacts, EntryFacts DEF Placed, new
  <2>. QED
    BY <1>2, <1>3, <1>4, <1>5, <1>7, <2>1 DEF Header
<1>. QED
  BY <1>8, <1>10, <1>11, <1>12, <1>13, <1>14 DEF h
\* What an initial directory is like.
LEMMA FirstDirFacts ==
  ASSUME NEW d \in FirstDirs
  PROVE  /\ d \in DirType /\ Whole(d.size) /\ Chained(d, d.size) /\ Readable(d)
         /\ \A o \in 0 .. d.size + Chunk - 1 : o % 4 = 0 => o \in Offsets
         /\ \A o \in Written(d) : o + 12 <= d.size /\ d.hdr[o].rec_len % 4 = 0
  BY DirsAssumption DEF Whole

LEMMA TypeInit ==
  ASSUME Init
  PROVE  TypeInv
<1>1. dir \in FirstDirs /\ phase = "idle" /\ grown = FALSE /\ first = FALSE
  BY DEF Init
<1>2. TypeOK
  <2>1. dir \in DirType
    BY <1>1, FirstDirFacts
  <2>2. added \in [Names -> 0 .. MaxFiles]
    BY Sizes DEF Init
  <2>3. at = 0 /\ result = 0 /\ made = 0 /\ torn = FALSE /\ crashes = 0
    BY DEF Init
  <2>4. 0 \in 0 .. MaxFiles + 20 /\ 0 \in 0 .. MaxFiles /\ 0 \in 0 .. MaxCrashes
    BY Sizes
  <2>. QED
    BY <1>1, <2>1, <2>2, <2>3, <2>4 DEF TypeOK
<1>3. Roomy /\ Whole(dir.size)
  BY <1>1, FirstDirFacts DEF Roomy
<1>4. Linked(dir.hdr)
  <2>1. SUFFICES ASSUME NEW o \in Offsets, o + 12 <= dir.size PROVE LinkAt(dir.hdr[o], o, dir.size)
    BY DEF Linked
  <2>2. dir.size \in Nat /\ o \in Nat /\ dir.hdr[o].rec_len \in Nat
    BY <1>1, FirstDirFacts, HeaderFacts
  <2>3. CASE o \in Written(dir)
    <3>1. dir.hdr[o].rec_len % 4 = 0
      BY <1>1, <2>3, FirstDirFacts
    <3>2. o + dir.hdr[o].rec_len \in Written(dir) \cup {dir.size}
      BY <1>1, <2>3, FirstDirFacts DEF Chained
    <3>3. \A p \in Written(dir) : p + 12 <= dir.size /\ Within(p, Header)
      BY <1>1, FirstDirFacts DEF Readable
    <3>4. o + dir.hdr[o].rec_len < dir.size => Within(o + dir.hdr[o].rec_len, Header)
      BY <2>2, <3>2, <3>3
    <3>. QED
      BY <3>1, <3>2, <3>3, <3>4 DEF LinkAt
  <2>4. CASE o \notin Written(dir)
    <3>1. dir.hdr[o].rec_len = 0
      BY <2>1, <2>2, <2>4 DEF Written
    <3>. QED
      BY <2>1, <2>2, <3>1 DEF LinkAt
  <2>. QED
    BY <2>3, <2>4
<1>. QED
  BY <1>1, <1>2, <1>3, <1>4 DEF TypeInv, Writing

\* A step of the loop, or one that begins it.
LEMMA TypeScanning ==
  ASSUME TypeInv, UNCHANGED <<dir, at, first, added, torn, grown, crashes>>, ~grown,
         phase \in {"idle", "scan"}, phase' \in {"idle", "scan"},
         result' \in 0 .. MaxFiles + 20, made' \in 0 .. MaxFiles,
         phase' = "scan" =>
           /\ name' \in Names /\ dir.size >= BlockSize
           /\ offset' \in Offsets /\ dir.size <= offset' + BlockSize /\ offset' + 12 <= dir.size
           /\ Within(offset', Header)
  PROVE  TypeInv'
<1>1. Whole(dir.size) /\ Roomy /\ ~first /\ Linked(dir.hdr) /\ TypeOK /\ dir.size \in Nat
  BY DEF TypeInv, TypeOK, DirType
<1>2. phase' = "scan" => Placed'
  BY <1>1 DEF Placed, Within
<1>3. phase' = "scan" => offset' \in dir.size - BlockSize .. dir.size - Header
  <2>1. phase' = "scan" => offset' \in Nat
    BY Sizes
  <2>. QED
    BY <1>1, <2>1, Sizes DEF Header
<1>4. TypeOK'
  BY <1>1, <1>3 DEF TypeOK, Within
<1>5. Roomy' /\ Linked(dir.hdr)'
  BY <1>1 DEF Roomy, Linked
<1>. QED
  BY <1>1, <1>2, <1>4, <1>5 DEF TypeInv, Writing

LEMMA TypeOpen ==
  ASSUME TypeInv, NEW n \in Names, ext2_open(n)
  PROVE  TypeInv'
<1>1. dir \in DirType /\ dir.size \in Nat /\ made \in 0 .. MaxFiles /\ result \in 0 .. MaxFiles + 20
  BY DEF TypeInv, TypeOK, DirType
<1>2. /\ UNCHANGED <<dir, at, first, added, torn, grown, crashes>> /\ phase = "idle" /\ ~grown
      /\ phase' \in {"idle", "scan"}
  BY DEF ext2_open
<1>3. result' \in 0 .. MaxFiles + 20
  BY <1>1, LookupType, Sizes DEF ext2_open
<1>4. made' \in 0 .. MaxFiles
  BY <1>1, Sizes DEF ext2_open
<1>5. ASSUME phase' = "scan"
      PROVE  /\ name' \in Names /\ dir.size >= BlockSize
             /\ offset' \in Offsets /\ dir.size <= offset' + BlockSize /\ offset' + 12 <= dir.size
             /\ Within(offset', Header)
  <2>1. name' = n /\ Whole(dir.size) /\ dir.size >= BlockSize /\ offset' = dir.size - BlockSize
    BY <1>1, <1>2, <1>5, Sizes DEF ext2_open, Whole
  <2>2. (dir.size - BlockSize) % 4 = 0 /\ Whole(dir.size - BlockSize) /\ dir.size - BlockSize \in Nat
    BY <1>1, <2>1, Sizes, WholeNext
  <2>3. BlockSize >= 12
    BY NameFacts, EntryFacts, Sizes
  <2>4. dir.size - BlockSize \in Offsets
    BY <1>1, <1>2, <2>1, <2>2, Sizes DEF TypeInv, Roomy
  <2>5. Within(dir.size - BlockSize, Header)
    BY <2>2, WholeWithin
  <2>. QED
    BY <1>1, <2>1, <2>3, <2>4, <2>5, Sizes
<1>. QED
  BY <1>2, <1>3, <1>4, <1>5, TypeScanning

LEMMA TypeScan ==
  ASSUME TypeInv, ScanRecord
  PROVE  TypeInv'
<1>1. /\ UNCHANGED <<dir, phase, name, at, first, result, hist>> /\ phase = "scan"
      /\ MoreRecords(offset) /\ offset' = offset + dir.hdr[offset].rec_len
  BY DEF ScanRecord, Advance
<1>2. /\ ~grown /\ Placed /\ Roomy /\ Linked(dir.hdr) /\ dir \in DirType
      /\ dir.size \in Nat /\ offset \in Nat /\ offset % 4 = 0
  BY <1>1, ScanFacts
<1>3. LinkAt(dir.hdr[offset], offset, dir.size) /\ dir.hdr[offset].rec_len \in Nat
  BY <1>2, HeaderFacts DEF Placed, Linked
<1>4. offset' \in Nat /\ offset' >= offset /\ offset' + 12 <= dir.size /\ offset' % 4 = 0
  <2>. DEFINE r == dir.hdr[offset].rec_len
  <2>1. r \in Nat /\ r % 4 = 0 /\ (offset + r + 12 <= dir.size \/ offset + r = dir.size)
    BY <1>3 DEF LinkAt
  <2>2. offset + r < dir.size /\ offset' = offset + r
    BY <1>1 DEF MoreRecords
  <2>. HIDE DEF r
  <2>3. offset + r \in Nat /\ (offset + r) % 4 = 0
    BY <1>2, <2>1
  <2>. QED
    BY <1>2, <2>1, <2>2, <2>3
<1>5. offset' \in Offsets
  <2>1. offset' \in 0 .. dir.size + Chunk - 1
    BY <1>2, <1>4, Sizes
  <2>. QED
    BY <1>2, <1>4, <2>1 DEF Roomy
<1>6. dir.size <= offset' + BlockSize
  BY <1>2, <1>4, Sizes DEF Placed
<1>7. Within(offset', Header)
  <2>1. CASE dir.hdr[offset].rec_len = 0
    <3>1. offset' = offset
      BY <1>1, <1>2, <2>1
    <3>. QED
      BY <1>2, <3>1 DEF Placed
  <2>2. CASE dir.hdr[offset].rec_len # 0
    BY <1>1, <1>3, <2>2 DEF LinkAt, MoreRecords
  <2>. QED
    BY <2>1, <2>2
<1>8. result \in 0 .. MaxFiles + 20 /\ made \in 0 .. MaxFiles
  BY DEF TypeInv, TypeOK
<1>9. UNCHANGED <<dir, at, first, added, torn, grown, crashes>> /\ UNCHANGED made
  BY <1>1 DEF hist
<1>10. name' \in Names /\ dir.size >= BlockSize
  BY <1>1, <1>2 DEF Placed
<1>. QED
  BY <1>1, <1>2, <1>4, <1>5, <1>6, <1>7, <1>8, <1>9, <1>10, TypeScanning

LEMMA TypeAppend ==
  ASSUME TypeInv, AppendInBlock
  PROVE  TypeInv'
<1>1. /\ phase = "scan" /\ ~MoreRecords(offset) /\ Room /\ phase' = "shrink" /\ at' = Behind
      /\ UNCHANGED <<dir, name, offset, first, result, made, added, torn, grown, crashes>>
  BY DEF AppendInBlock, hist
<1>2. /\ Behind \in Offsets /\ Behind + Header \in Offsets
      /\ offset + Header + dir.hdr[offset].name_len <= Behind
      /\ Behind + 12 <= dir.size
      /\ Behind - offset \in 8 .. BlockSize /\ (Behind - offset) % 4 = 0
      /\ dir.size - Behind \in 12 .. BlockSize /\ (dir.size - Behind) % 4 = 0
      /\ Behind + Header + NameLen[name] <= dir.size
  BY <1>1, BehindFacts
<1>3. ~grown /\ ~first /\ Placed /\ Roomy /\ Linked(dir.hdr) /\ Whole(dir.size)
  BY <1>1, ScanFacts
<1>4. TypeOK'
  BY <1>1, <1>2 DEF TypeInv, TypeOK
<1>5. Placed' /\ Roomy' /\ Linked(dir.hdr)'
  BY <1>1, <1>3 DEF Placed, Roomy, Linked, Within
<1>6. Aimed' /\ Shrinking' /\ Fits'
  BY <1>1, <1>2 DEF Aimed, Shrinking, Fits, Header
<1>. QED
  BY <1>1, <1>3, <1>4, <1>5, <1>6 DEF TypeInv

\* The directory once the shrunk record is stored.
LEMMA ShrunkFacts ==
  ASSUME TypeInv, StoreShrunk
  PROVE  /\ dir' \in DirType /\ dir'.size = dir.size
         /\ dir'.hdr[offset] = [dir.hdr[offset] EXCEPT !.rec_len = at - offset]
         /\ dir'.hdr[offset] \in HeaderType
         /\ dir'.hdr[offset].rec_len = at - offset
         /\ dir'.hdr[offset].inode = dir.hdr[offset].inode
         /\ dir'.hdr[offset].name_len = dir.hdr[offset].name_len
         /\ \A p \in Offsets \ {offset} : dir'.hdr[p] = dir.hdr[p]
         /\ \A q \in Offsets : dir'.nam[q] = Left(dir.nam, offset, q)
<1>. DEFINE h == [dir.hdr[offset] EXCEPT !.rec_len = at - offset]
<1>1. dir \in DirType /\ offset \in Offsets /\ Shrinking /\ dir.hdr \in [Offsets -> HeaderType]
  BY DEF TypeInv, TypeOK, StoreShrunk, Writing, Placed, DirType
<1>2. dir.hdr[offset] \in HeaderType /\ at - offset \in 0 .. BlockSize
  BY <1>1, HeaderFacts, Sizes DEF Shrinking
<1>3. /\ h \in HeaderType /\ h.rec_len = at - offset /\ h.inode = dir.hdr[offset].inode
      /\ h.name_len = dir.hdr[offset].name_len
  BY <1>2 DEF HeaderType
<1>4. dir' = PutHeader(dir, offset, h)
  BY DEF StoreShrunk
<1>. HIDE DEF h
<1>5. /\ dir' \in DirType /\ dir'.size = dir.size /\ dir'.hdr = [dir.hdr EXCEPT ![offset] = h]
      /\ \A q \in Offsets : dir'.nam[q] = Left(dir.nam, offset, q)
  BY <1>1, <1>3, <1>4, PutHeaderFacts
<1>6. dir'.hdr[offset] = h /\ \A p \in Offsets \ {offset} : dir'.hdr[p] = dir.hdr[p]
  BY <1>1, <1>5
<1>7. h = [dir.hdr[offset] EXCEPT !.rec_len = at - offset]
  BY DEF h
<1>. QED
  BY <1>3, <1>5, <1>6, <1>7

LEMMA TypeShrunk ==
  ASSUME TypeInv, StoreShrunk
  PROVE  TypeInv'
<1>1. /\ phase = "shrink" /\ phase' = Copied(at, Header, "header")
      /\ UNCHANGED <<name, offset, at, first, result, made, added, torn, grown, crashes>>
  BY DEF StoreShrunk, hist
<1>2. /\ dir' \in DirType /\ dir'.size = dir.size
      /\ dir'.hdr[offset].rec_len = at - offset
      /\ \A p \in Offsets \ {offset} : dir'.hdr[p] = dir.hdr[p]
  BY ShrunkFacts
<1>3. /\ ~grown /\ ~first /\ Placed /\ Roomy /\ Linked(dir.hdr) /\ Whole(dir.size)
      /\ Aimed /\ Shrinking /\ Fits /\ TypeOK
  BY <1>1 DEF TypeInv, Writing
<1>4. (phase' = "header" /\ Within(at, Header)) \/ phase' = "overrun"
  BY <1>1 DEF Copied
<1>5. TypeOK'
  BY <1>1, <1>2, <1>3, <1>4 DEF TypeOK
<1>6. Placed' /\ Roomy' /\ Whole(dir'.size) /\ Fits'
  BY <1>1, <1>2, <1>3 DEF Placed, Roomy, Within, Fits
<1>7. phase' = "header" => Aimed'
  BY <1>1, <1>2, <1>3, <1>4 DEF Aimed, Within, Header
<1>8. ASSUME phase' = "header" PROVE Linked(dir.hdr)'
  <2>1. SUFFICES ASSUME NEW o \in Offsets, o + 12 <= dir.size
                 PROVE  LinkAt(dir'.hdr[o], o, dir.size)
    BY <1>2 DEF Linked
  <2>2. CASE o = offset
    <3>1. offset \in Nat /\ at \in Nat /\ Within(at, Header) /\ at + 12 <= dir.size
          /\ (at - offset) % 4 = 0 /\ dir.size \in Nat
      BY <1>2, <1>3, <1>4, <1>8, Sizes DEF Placed, Aimed, Shrinking, DirType
    <3>2. offset + (at - offset) = at
      BY <3>1
    <3>. QED
      BY <1>2, <2>2, <3>1, <3>2 DEF LinkAt
  <2>3. CASE o # offset
    BY <1>2, <1>3, <2>1, <2>3 DEF Linked
  <2>. QED
    BY <2>2, <2>3
<1>. QED
  BY <1>1, <1>3, <1>4, <1>5, <1>6, <1>7, <1>8 DEF TypeInv, Writing

\* The place of the entry of the new block path.
LEMMA NewBlockFacts ==
  ASSUME TypeInv, phase = "scan",
         NEW o \in {dir.size - BlockSize, dir.size + Chunk - BlockSize}
  PROVE  o \in Offsets /\ o + Header \in Offsets /\ o + 12 <= dir.size
<1>1. /\ dir.size \in Nat /\ name \in Names /\ Whole(dir.size) /\ dir.size >= BlockSize /\ Roomy
  BY ScanFacts DEF Placed
<1>2. Chunk + EntryLen(NameLen[name]) + 12 <= BlockSize /\ EntryLen(NameLen[name]) \in Nat
      /\ EntryLen(NameLen[name]) >= 12
  BY <1>1, NameFacts, EntryFacts, Sizes
<1>3. o \in Nat /\ o + 12 <= dir.size
  BY <1>1, <1>2, Sizes
<1>4. o % 4 = 0
  <2>1. (dir.size - BlockSize) % 4 = 0 /\ dir.size - BlockSize \in Nat
    BY <1>1, Sizes, WholeNext
  <2>2. dir.size + Chunk - BlockSize = (dir.size - BlockSize) + Chunk
    BY <1>1, Sizes
  <2>. QED
    BY <2>1, <2>2, Sizes
<1>5. (o + Header) % 4 = 0
  BY <1>3, <1>4 DEF Header
<1>. QED
  BY <1>1, <1>3, <1>4, <1>5, Sizes DEF Roomy, Header

LEMMA TypeNewBlock ==
  ASSUME TypeInv, OverwriteLastBlock \/ ReplaceFirstBlock
  PROVE  TypeInv'
<1>1. PICK o \in {dir.size - BlockSize, dir.size + Chunk - BlockSize}, r \in BOOLEAN : NewBlock(o, r)
  BY DEF OverwriteLastBlock, ReplaceFirstBlock
<1>2. /\ phase = "scan" /\ phase' = Copied(o, Header, "header") /\ at' = o /\ first' = r /\ grown' = TRUE
      /\ UNCHANGED <<dir, name, offset, result, made, added, torn, crashes>>
  BY <1>1 DEF NewBlock
<1>3. o \in Offsets /\ o + Header \in Offsets /\ o + 12 <= dir.size
  BY <1>2, NewBlockFacts
<1>4. (phase' = "header" /\ Within(o, Header)) \/ phase' = "overrun"
  BY <1>2 DEF Copied
<1>5. TypeOK'
  BY <1>2, <1>3, <1>4 DEF TypeInv, TypeOK
<1>6. Placed'
  BY <1>2, ScanFacts DEF Placed, Within
<1>7. phase' = "header" => Aimed'
  BY <1>2, <1>3, <1>4 DEF Aimed, Within, Header
<1>. QED
  BY <1>2, <1>4, <1>5, <1>6, <1>7 DEF TypeInv, Writing

\* The directory once the new header is stored, in the block that was there.
LEMMA HeaderStored ==
  ASSUME TypeInv, StoreHeader, ~grown
  PROVE  /\ dir' \in DirType /\ dir'.size = dir.size
         /\ dir'.hdr[at] = NewEntry(dir.size - at)
         /\ \A p \in Offsets \ {at} : dir'.hdr[p] = dir.hdr[p]
         /\ \A q \in Offsets : dir'.nam[q] = Left(dir.nam, at, q)
<1>1. phase = "header" /\ dir \in DirType /\ dir.hdr \in [Offsets -> HeaderType] /\ at \in Offsets
      /\ name \in Names /\ dir.size - at \in 0 .. BlockSize /\ ~first
  BY Sizes DEF TypeInv, TypeOK, StoreHeader, Writing, Placed, DirType, Aimed, Fits
<1>2. NewEntry(dir.size - at) \in HeaderType
  BY <1>1, NewEntryFacts
<1>3. dir' = PutHeader(dir, at, NewEntry(dir.size - at))
  BY <1>1 DEF StoreHeader, OnVolume, RestOfBlock
<1>4. /\ dir' \in DirType /\ dir'.size = dir.size
      /\ dir'.hdr = [dir.hdr EXCEPT ![at] = NewEntry(dir.size - at)]
      /\ \A q \in Offsets : dir'.nam[q] = Left(dir.nam, at, q)
  BY <1>1, <1>2, <1>3, PutHeaderFacts
<1>. QED
  BY <1>1, <1>4

LEMMA TypeHeader ==
  ASSUME TypeInv, StoreHeader
  PROVE  TypeInv'
<1>1. /\ phase = "header" /\ phase' = Copied(at + Header, NameLen[name], "name")
      /\ UNCHANGED <<name, offset, at, first, result, made, added, torn, grown, crashes>>
  BY DEF StoreHeader, hist
<1>2. TypeOK /\ Placed /\ Aimed /\ dir \in DirType
  BY <1>1 DEF TypeInv, TypeOK, Writing
<1>3. dir' \in DirType /\ dir'.size = dir.size
  <2>1. CASE ~grown
    BY <2>1, HeaderStored
  <2>2. CASE grown /\ OnVolume
    <3>1. BlockSize \in 0 .. BlockSize /\ name \in Names /\ at \in Offsets
      BY <1>2, Sizes DEF Placed, Aimed
    <3>2. NewEntry(BlockSize) \in HeaderType
      BY <3>1, NewEntryFacts
    <3>3. dir' = PutHeader(dir, at, NewEntry(BlockSize))
      BY <2>2 DEF StoreHeader
    <3>. QED
      BY <1>2, <3>1, <3>2, <3>3, PutHeaderFacts
  <2>3. CASE grown /\ ~OnVolume
    BY <1>2, <2>3 DEF StoreHeader
  <2>. QED
    BY <2>1, <2>2, <2>3
<1>4. (phase' = "name" /\ Within(at + Header, NameLen[name])) \/ phase' = "overrun"
  BY <1>1 DEF Copied
<1>5. TypeOK'
  BY <1>1, <1>2, <1>3, <1>4 DEF TypeOK
<1>6. Placed'
  BY <1>1, <1>2, <1>3 DEF Placed, Within
<1>7. phase' = "name" => Aimed'
  BY <1>1, <1>2, <1>3, <1>4 DEF Aimed, Within, Header
<1>8. ASSUME ~grown PROVE Roomy' /\ Whole(dir'.size) /\ ~first /\ Linked(dir.hdr)'
  <2>1. Roomy /\ Whole(dir.size) /\ ~first /\ Linked(dir.hdr) /\ Fits
    BY <1>1, <1>8 DEF TypeInv
  <2>2. /\ dir'.hdr[at] = NewEntry(dir.size - at)
        /\ \A p \in Offsets \ {at} : dir'.hdr[p] = dir.hdr[p]
    BY <1>8, HeaderStored
  <2>3. dir'.hdr[at].rec_len = dir.size - at
    BY <2>2 DEF NewEntry
  <2>4. at + (dir.size - at) = dir.size /\ at \in Nat /\ dir.size \in Nat
    BY <1>2, Sizes DEF Aimed, DirType
  <2>5. ASSUME NEW o \in Offsets, o + 12 <= dir.size PROVE LinkAt(dir'.hdr[o], o, dir.size)
    <3>1. CASE o = at
      BY <2>1, <2>3, <2>4, <3>1 DEF LinkAt, Fits
    <3>2. CASE o # at
      BY <2>1, <2>2, <2>5, <3>2 DEF Linked
    <3>. QED
      BY <3>1, <3>2
  <2>. QED
    BY <1>3, <2>1, <2>5 DEF Roomy, Linked
<1>. QED
  BY <1>1, <1>4, <1>5, <1>6, <1>7, <1>8 DEF TypeInv, Writing

\* The directory once the name is stored, in the block that was there.
LEMMA NameStored ==
  ASSUME TypeInv, StoreName, ~grown
  PROVE  /\ dir' \in DirType /\ dir'.size = dir.size /\ dir'.hdr = dir.hdr
         /\ at + Header \in Offsets /\ dir'.nam[at + Header] = name
         /\ \A q \in Offsets \ {at + Header} : dir'.nam[q] = dir.nam[q]
<1>1. /\ dir \in DirType /\ at \in Offsets /\ at + Header \in Offsets /\ name \in Names /\ ~first
      /\ dir.nam \in [Offsets -> DOMAIN NameLen \cup {NoName}]
  BY DEF TypeInv, TypeOK, StoreName, Writing, Placed, Aimed, DirType
<1>2. dir' = PutName(dir, at, name)
  BY <1>1 DEF StoreName, OnVolume
<1>3. /\ dir' \in DirType /\ dir'.size = dir.size /\ dir'.hdr = dir.hdr
      /\ dir'.nam = [dir.nam EXCEPT ![at + Header] = name]
  BY <1>1, <1>2, PutNameFacts
<1>. QED
  BY <1>1, <1>3

LEMMA TypeName ==
  ASSUME TypeInv, StoreName
  PROVE  TypeInv'
<1>1. /\ phase = "name" /\ phase' = "close"
      /\ UNCHANGED <<name, offset, at, first, result, made, added, torn, grown, crashes>>
  BY DEF StoreName, hist
<1>2. TypeOK /\ Placed /\ Aimed /\ dir \in DirType
  BY <1>1 DEF TypeInv, TypeOK, Writing
<1>3. dir' \in DirType /\ dir'.size = dir.size /\ dir'.hdr = dir.hdr
  <2>1. CASE OnVolume
    <3>1. dir' = PutName(dir, at, name)
      BY <2>1 DEF StoreName
    <3>2. name \in Names /\ at \in Offsets /\ at + Header \in Offsets
      BY <1>2 DEF Placed, Aimed
    <3>3. /\ PutName(dir, at, name) \in DirType /\ PutName(dir, at, name).size = dir.size
          /\ PutName(dir, at, name).hdr = dir.hdr
      BY <1>2, <3>2, PutNameFacts
    <3>. QED
      BY <3>1, <3>3
  <2>2. CASE ~OnVolume
    BY <1>2, <2>2 DEF StoreName
  <2>. QED
    BY <2>1, <2>2
<1>4. TypeOK'
  BY <1>1, <1>2, <1>3 DEF TypeOK
<1>5. Placed' /\ Aimed'
  BY <1>1, <1>2, <1>3 DEF Placed, Aimed, Within, Header
<1>6. ASSUME ~grown PROVE Roomy' /\ Whole(dir'.size) /\ ~first /\ Linked(dir.hdr)'
  <2>1. Roomy /\ Whole(dir.size) /\ ~first /\ Linked(dir.hdr)
    BY <1>1, <1>6 DEF TypeInv
  <2>. QED
    BY <1>3, <2>1 DEF Roomy, Linked
<1>. QED
  BY <1>1, <1>4, <1>5, <1>6 DEF TypeInv, Writing

\* The directory with its new first block.
LEMMA ReplacedType ==
  ASSUME TypeInv, phase = "close"
  PROVE  Replaced \in DirType
<1>. DEFINE hdr == [p \in Offsets |-> IF p < BlockSize THEN Unused ELSE dir.hdr[p]]
            nam == [p \in Offsets |-> IF p < BlockSize THEN NoName ELSE dir.nam[p]]
            blank == [dir EXCEPT !.size = dir.size + Chunk, !.hdr = hdr, !.nam = nam]
<1>1. /\ dir \in DirType /\ dir.size \in Nat /\ at \in Offsets /\ at + Header \in Offsets
      /\ name \in Names /\ dir.hdr \in [Offsets -> HeaderType]
      /\ dir.nam \in [Offsets -> DOMAIN NameLen \cup {NoName}]
  BY DEF TypeInv, TypeOK, Writing, Aimed, Placed, DirType
<1>2. Unused \in HeaderType
  BY Sizes DEF Unused, HeaderType
<1>3. hdr \in [Offsets -> HeaderType] /\ nam \in [Offsets -> DOMAIN NameLen \cup {NoName}]
  BY <1>1, <1>2
<1>4. Replaced = IF OnVolume THEN blank
                 ELSE PutName(PutHeader(blank, at, NewEntry(BlockSize)), at, name)
  BY DEF Replaced
<1>. HIDE DEF hdr, nam
<1>5. blank \in DirType
  <2>1. dir.size + Chunk \in Nat
    BY <1>1, Sizes
  <2>. QED
    BY <1>1, <1>3, <2>1 DEF DirType
<1>. HIDE DEF blank
<1>6. NewEntry(BlockSize) \in HeaderType
  <2>1. BlockSize \in 0 .. BlockSize
    BY Sizes
  <2>. QED
    BY <1>1, <2>1, NewEntryFacts
<1>7. PutHeader(blank, at, NewEntry(BlockSize)) \in DirType
  BY <1>1, <1>5, <1>6, PutHeaderFacts
<1>8. PutName(PutHeader(blank, at, NewEntry(BlockSize)), at, name) \in DirType
  BY <1>1, <1>7, PutNameFacts
<1>. QED
  BY <1>4, <1>5, <1>8

LEMMA TypeDone ==
  ASSUME TypeInv, Done
  PROVE  TypeInv'
<1>1. /\ phase = "close" /\ dir' = (IF first THEN Replaced ELSE dir) /\ result' = made
      /\ added' = [added EXCEPT ![name] = made] /\ phase' = "idle"
      /\ at' = 0 /\ first' = FALSE /\ UNCHANGED <<made, torn, grown, crashes>>
  BY DEF Done
<1>2. name \in Names /\ dir' \in DirType
  BY <1>1, ReplacedType DEF TypeInv, TypeOK, Writing, Placed
<1>3. TypeOK'
  <2>1. made \in 0 .. MaxFiles /\ made \in 0 .. MaxFiles + 20
    BY Sizes DEF TypeInv, TypeOK
  <2>2. added' \in [Names -> 0 .. MaxFiles]
    BY <1>1, <1>2, <2>1 DEF TypeInv, TypeOK
  <2>. QED
    BY <1>1, <1>2, <2>1, <2>2 DEF TypeInv, TypeOK
<1>4. ASSUME ~grown PROVE Whole(dir'.size) /\ Roomy' /\ Linked(dir.hdr)'
  <2>1. Whole(dir.size) /\ Roomy /\ Linked(dir.hdr) /\ dir' = dir
    BY <1>1, <1>4 DEF TypeInv
  <2>. QED
    BY <2>1 DEF Roomy, Linked
<1>. QED
  BY <1>1, <1>3, <1>4 DEF TypeInv, Writing

LEMMA TypeCrash ==
  ASSUME TypeInv, Crash
  PROVE  TypeInv'
<1>1. /\ crashes < MaxCrashes /\ crashes' = crashes + 1 /\ torn' \in BOOLEAN /\ phase # "overrun"
      /\ phase' = "idle" /\ at' = 0 /\ first' = FALSE /\ result' = 0
      /\ UNCHANGED <<dir, made, added, grown>>
  BY DEF Crash, TypeInv, TypeOK
<1>2. crashes' \in 0 .. MaxCrashes /\ result' \in 0 .. MaxFiles + 20
  BY <1>1, Sizes DEF TypeInv, TypeOK
<1>3. TypeOK'
  BY <1>1, <1>2 DEF TypeInv, TypeOK
<1>4. ASSUME ~grown PROVE Whole(dir'.size) /\ Roomy' /\ Linked(dir.hdr)'
  <2>1. Whole(dir.size) /\ Roomy /\ Linked(dir.hdr) /\ dir' = dir
    BY <1>1, <1>4 DEF TypeInv
  <2>. QED
    BY <2>1 DEF Roomy, Linked
<1>. QED
  BY <1>1, <1>3, <1>4 DEF TypeInv, Writing

LEMMA TypeStep ==
  ASSUME TypeInv, [Next]_vars
  PROVE  TypeInv'
<1>1. CASE UNCHANGED vars
  <2>1. UNCHANGED <<dir, phase, name, offset, at, first, result, made, added, torn, grown, crashes>>
    BY <1>1 DEF vars, hist
  <2>2. (Placed => Placed') /\ (Aimed => Aimed') /\ (Shrinking => Shrinking') /\ (Fits => Fits')
    BY <2>1 DEF Placed, Aimed, Shrinking, Fits, Within, Header
  <2>3. (Roomy => Roomy') /\ (Linked(dir.hdr) => Linked(dir.hdr)')
    BY <2>1 DEF Roomy, Linked
  <2>4. TypeOK'
    BY <2>1 DEF TypeInv, TypeOK, Within
  <2>. QED
    BY <2>1, <2>2, <2>3, <2>4 DEF TypeInv
<1>2. CASE Next
  BY <1>2, TypeOpen, TypeScan, TypeAppend, TypeShrunk, TypeNewBlock, TypeHeader, TypeName,
     TypeDone, TypeCrash DEF Next, ext2_append_to_directory
<1>. QED
  BY <1>1, <1>2

LEMMA TypeAlways == Spec => []TypeInv
<1>1. Init => TypeInv
  BY TypeInit
<1>2. TypeInv /\ [Next]_vars => TypeInv'
  BY TypeStep
<1>. QED
  BY <1>1, <1>2, PTL DEF Spec

\* The loop of ext2_append_to_directory reads nothing but headers of the last
\* block, none across the end of its buffer, and every header it writes or a
\* power failure leaves has its type: rec_len is never negative nor more than a
\* block.  The directories it begins with have no header across a sector's end.
THEOREM DirectoryTypes == Spec => []TypeOK
<1>1. TypeInv => TypeOK
  BY DEF TypeInv
<1>. QED
  BY <1>1, TypeAlways, PTL

(***************************************************************************)
(* The chain of records.  An append takes it from end to end of the        *)
(* directory through a state in which it ends where the new record will    *)
(* be, and that is what a power failure in between leaves.                 *)
(***************************************************************************)

\* The chain depends on the length and the headers only.
LEMMA SameChain ==
  ASSUME NEW d \in DirType, NEW e \in DirType, NEW end, e.size = d.size,
         \A o \in Offsets : e.hdr[o] = d.hdr[o]
  PROVE  Written(e) = Written(d) /\ (Chained(d, end) => Chained(e, end))
<1>1. Written(e) = Written(d) /\ Starts(e) = Starts(d)
  BY DEF Written, Starts
<1>2. \A o \in Written(d) : o \in Offsets
  BY DEF Written
<1>3. ASSUME Chained(d, end) PROVE Chained(e, end)
  <2>1. Starts(e) \subseteq Written(e)
    BY <1>1, <1>3 DEF Chained
  <2>2. \A o \in Offsets \ Written(e) : o < e.size => e.hdr[o].inode = 0
    BY <1>1, <1>3 DEF Chained
  <2>3. ASSUME NEW o \in Written(e)
        PROVE  /\ e.hdr[o].rec_len >= Header + e.hdr[o].name_len
               /\ o + e.hdr[o].rec_len \in Written(e) \cup {end}
               /\ o + e.hdr[o].rec_len <= end
               /\ \A p \in Written(e) : o < p => o + e.hdr[o].rec_len <= p
               /\ o # 0 => \E p \in Written(e) : p + e.hdr[p].rec_len = o
    <3>1. o \in Written(d) /\ e.hdr[o] = d.hdr[o]
      BY <1>1, <1>2, <2>3
    <3>2. o # 0 => \E p \in Written(d) : p + d.hdr[p].rec_len = o
      BY <1>3, <3>1 DEF Chained
    <3>3. o # 0 => \E p \in Written(e) : p + e.hdr[p].rec_len = o
      BY <1>1, <1>2, <3>2
    <3>. QED
      BY <1>1, <1>3, <3>1, <3>3 DEF Chained
  <2>. QED
    BY <2>1, <2>2, <2>3 DEF Chained
<1>. QED
  BY <1>1, <1>3

\* What Chained says of one record.
LEMMA ChainedAt ==
  ASSUME NEW d \in DirType, NEW end, Chained(d, end), NEW o \in Written(d)
  PROVE  /\ o \in Offsets /\ o \in Nat /\ o < d.size /\ d.hdr[o].rec_len \in Nat
         /\ d.hdr[o].name_len \in Nat /\ d.hdr[o].rec_len >= Header + d.hdr[o].name_len
         /\ o < o + d.hdr[o].rec_len
         /\ o + d.hdr[o].rec_len \in Written(d) \cup {end} /\ o + d.hdr[o].rec_len <= end
         /\ \A p \in Written(d) : o < p => o + d.hdr[o].rec_len <= p
         /\ o # 0 => \E p \in Written(d) : p + d.hdr[p].rec_len = o
<1>1. o \in Offsets /\ o < d.size
  BY DEF Written
<1>2. o \in Nat /\ d.hdr[o].rec_len \in Nat /\ d.hdr[o].name_len \in Nat
  <2>1. o \in Nat /\ d.hdr[o].rec_len \in 0 .. BlockSize /\ d.hdr[o].name_len \in 0 .. 255
    BY <1>1, HeaderFacts
  <2>. QED
    BY <2>1
<1>3. d.hdr[o].rec_len >= Header + d.hdr[o].name_len
  BY DEF Chained
<1>4. o < o + d.hdr[o].rec_len
  BY <1>2, <1>3 DEF Header
<1>. QED
  BY <1>1, <1>2, <1>3, <1>4 DEF Chained

\* The last record shrinks: the chain ends at b, where no record is yet.
LEMMA ChainShrunk ==
  ASSUME NEW d \in DirType, NEW e \in DirType, e.size = d.size, Chained(d, d.size),
         NEW o \in Written(d), o + d.hdr[o].rec_len = d.size,
         NEW b \in Nat, b < d.size, o + Header + d.hdr[o].name_len <= b,
         e.hdr[o] = [d.hdr[o] EXCEPT !.rec_len = b - o],
         \A p \in Offsets \ {o} : e.hdr[p] = d.hdr[p]
  PROVE  /\ Written(e) = Written(d) /\ Chained(e, b)
         /\ \A p \in Written(d) : p <= o /\ p # b
<1>1. /\ o \in Offsets /\ o \in Nat /\ o < d.size /\ d.size \in Nat
      /\ d.hdr[o] \in HeaderType /\ d.hdr[o].name_len \in Nat
  BY ChainedAt, HeaderFacts
<1>2. /\ e.hdr[o].rec_len = b - o /\ e.hdr[o].name_len = d.hdr[o].name_len
      /\ e.hdr[o].inode = d.hdr[o].inode
  BY <1>1 DEF HeaderType
<1>3. b - o > 0 /\ o < b
  BY <1>1 DEF Header
<1>4. \A p \in Written(d) : p \in Nat /\ p < d.size /\ p \in Offsets
  BY ChainedAt
<1>5. \A p \in Written(d) : p <= o /\ p # b
  <2>1. \A p \in Written(d) : o < p => d.size <= p
    BY ChainedAt
  <2>. QED
    BY <1>1, <1>3, <1>4, <2>1
<1>6. Written(e) = Written(d)
  <2>1. ASSUME NEW p \in Offsets PROVE p \in Written(e) <=> p \in Written(d)
    <3>1. CASE p = o
      <4>1. e.hdr[o].rec_len # 0
        BY <1>1, <1>2, <1>3
      <4>2. o \in Written(e)
        BY <1>1, <4>1 DEF Written
      <4>. QED
        BY <3>1, <4>2
    <3>2. CASE p # o
      BY <2>1, <3>2 DEF Written
    <3>. QED
      BY <3>1, <3>2
  <2>. QED
    BY <2>1 DEF Written
<1>7. Starts(e) \subseteq Written(e)
  BY <1>6 DEF Chained, Starts
<1>8. \A p \in Offsets \ Written(e) : p < e.size => e.hdr[p].inode = 0
  BY <1>2, <1>6 DEF Chained
<1>9. ASSUME NEW p \in Written(e)
      PROVE  /\ e.hdr[p].rec_len >= Header + e.hdr[p].name_len
             /\ p + e.hdr[p].rec_len \in Written(e) \cup {b}
             /\ p + e.hdr[p].rec_len <= b
             /\ \A q \in Written(e) : p < q => p + e.hdr[p].rec_len <= q
             /\ p # 0 => \E q \in Written(e) : q + e.hdr[q].rec_len = p
  <2>1. p \in Written(d) /\ p \in Offsets /\ p \in Nat /\ p < d.size
    BY <1>4, <1>6
  <2>2. p # 0 => \E q \in Written(e) : q + e.hdr[q].rec_len = p
    <3>1. SUFFICES ASSUME p # 0 PROVE \E q \in Written(e) : q + e.hdr[q].rec_len = p
      OBVIOUS
    <3>2. PICK q \in Written(d) : q + d.hdr[q].rec_len = p
      BY <2>1, <3>1, ChainedAt
    <3>3. q # o
      BY <1>1, <2>1, <3>2
    <3>. QED
      BY <1>4, <1>6, <3>2, <3>3
  <2>3. CASE p = o
    <3>1. p + e.hdr[p].rec_len = b /\ e.hdr[p].rec_len >= Header + e.hdr[p].name_len
      <4>1. o + (b - o) = b /\ b - o >= Header + d.hdr[o].name_len
        BY <1>1 DEF Header
      <4>. QED
        BY <1>2, <2>3, <4>1
    <3>2. \A q \in Written(e) : p < q => p + e.hdr[p].rec_len <= q
      BY <1>1, <1>4, <1>5, <1>6, <2>3
    <3>. QED
      BY <2>2, <3>1, <3>2
  <2>4. CASE p # o
    <3>1. e.hdr[p] = d.hdr[p] /\ p < o
      BY <1>1, <1>5, <2>1, <2>4
    <3>2. /\ p + d.hdr[p].rec_len \in Written(d) \cup {d.size} /\ p + d.hdr[p].rec_len <= o
          /\ d.hdr[p].rec_len >= Header + d.hdr[p].name_len /\ d.hdr[p].rec_len \in Nat
          /\ \A q \in Written(d) : p < q => p + d.hdr[p].rec_len <= q
      BY <2>1, <3>1, ChainedAt
    <3>3. p + d.hdr[p].rec_len \in Written(d) /\ p + d.hdr[p].rec_len <= b
      BY <1>1, <1>3, <2>1, <3>2
    <3>. QED
      BY <1>6, <2>2, <3>1, <3>2, <3>3
  <2>. QED
    BY <2>3, <2>4
<1>10. Chained(e, b)
  BY <1>7, <1>8, <1>9 DEF Chained
<1>. QED
  BY <1>5, <1>6, <1>10

\* A record where the chain ends makes it reach the end of the directory.
LEMMA ChainExtended ==
  ASSUME NEW d \in DirType, NEW e \in DirType, e.size = d.size,
         NEW b \in Offsets, b < d.size, Chained(d, b), d.hdr[b].rec_len = 0,
         \E p \in Written(d) : p + d.hdr[p].rec_len = b,
         e.hdr[b].rec_len = d.size - b, e.hdr[b].rec_len >= Header + e.hdr[b].name_len,
         \A p \in Offsets \ {b} : e.hdr[p] = d.hdr[p]
  PROVE  Written(e) = Written(d) \cup {b} /\ Chained(e, d.size)
<1>1. b \in Nat /\ d.size \in Nat /\ d.size - b # 0 /\ b \notin Written(d)
  BY HeaderFacts DEF Written
<1>2. Written(e) = Written(d) \cup {b}
  BY <1>1 DEF Written
<1>3. \A p \in Written(d) : p \in Nat /\ p \in Offsets /\ p # b /\ e.hdr[p] = d.hdr[p]
  BY <1>1, ChainedAt
<1>4. \A p \in Written(d) : p < b
  BY <1>1, <1>3, ChainedAt
<1>5. Starts(e) \subseteq Written(e)
  BY <1>2 DEF Chained, Starts
<1>6. \A p \in Offsets \ Written(e) : p < e.size => e.hdr[p].inode = 0
  BY <1>2 DEF Chained
<1>7. ASSUME NEW p \in Written(e)
      PROVE  /\ e.hdr[p].rec_len >= Header + e.hdr[p].name_len
             /\ p + e.hdr[p].rec_len \in Written(e) \cup {d.size}
             /\ p + e.hdr[p].rec_len <= d.size
             /\ \A q \in Written(e) : p < q => p + e.hdr[p].rec_len <= q
             /\ p # 0 => \E q \in Written(e) : q + e.hdr[q].rec_len = p
  <2>1. CASE p = b
    <3>1. p + e.hdr[p].rec_len = d.size
      BY <1>1, <2>1
    <3>2. \A q \in Written(e) : ~(p < q)
      BY <1>1, <1>2, <1>3, <1>4, <2>1
    <3>3. \E q \in Written(e) : q + e.hdr[q].rec_len = p
      BY <1>2, <1>3, <2>1
    <3>4. p + e.hdr[p].rec_len <= d.size
      BY <1>1, <3>1
    <3>. QED
      BY <2>1, <3>1, <3>2, <3>3, <3>4
  <2>2. CASE p \in Written(d)
    <3>1. /\ p + d.hdr[p].rec_len \in Written(d) \cup {b} /\ p + d.hdr[p].rec_len <= b
          /\ d.hdr[p].rec_len >= Header + d.hdr[p].name_len /\ d.hdr[p].rec_len \in Nat
          /\ \A q \in Written(d) : p < q => p + d.hdr[p].rec_len <= q
          /\ p # 0 => \E q \in Written(d) : q + d.hdr[q].rec_len = p
      BY <2>2, ChainedAt
    <3>2. p + e.hdr[p].rec_len \in Written(e) /\ p + e.hdr[p].rec_len <= d.size
      BY <1>1, <1>2, <1>3, <2>2, <3>1
    <3>3. \A q \in Written(e) : p < q => p + e.hdr[p].rec_len <= q
      BY <1>2, <1>3, <2>2, <3>1
    <3>4. p # 0 => \E q \in Written(e) : q + e.hdr[q].rec_len = p
      BY <1>2, <1>3, <3>1
    <3>. QED
      BY <1>3, <2>2, <3>1, <3>2, <3>3, <3>4
  <2>. QED
    BY <1>2, <2>1, <2>2
<1>. QED
  BY <1>2, <1>5, <1>6, <1>7 DEF Chained

\* A directory whose chain ends too early keeps every later append in its loop.
\* The chain ends where the new record will be while only the shrunk one is
\* stored, and that is what a power failure then leaves.
Chain ==
  /\ torn => phase \in {"idle", "scan"} /\ \E e \in Nat : e < dir.size /\ Chained(dir, e)
  /\ ~torn /\ phase \notin {"header", "overrun"} => Chained(dir, dir.size)
  /\ ~torn /\ phase \in {"scan", "shrink"} => offset \in Written(dir)
  /\ phase = "shrink" => offset + dir.hdr[offset].rec_len = dir.size
  /\ phase = "header" => /\ Chained(dir, at) /\ dir.hdr[at].rec_len = 0
                         /\ \E p \in Written(dir) : p + dir.hdr[p].rec_len = at
  /\ phase \in {"name", "close"} => at \in Written(dir) /\ dir.hdr[at] = NewEntry(dir.size - at)
  /\ phase = "overrun" => \E e \in Nat : Chained(dir, e)
  /\ phase # "overrun" => Readable(dir)

ChainInv == ~grown => Chain

LEMMA ChainInit ==
  ASSUME Init
  PROVE  ChainInv
<1>1. dir \in FirstDirs /\ phase = "idle" /\ torn = FALSE
  BY DEF Init
<1>2. Chained(dir, dir.size) /\ Readable(dir)
  BY <1>1, FirstDirFacts
<1>. QED
  BY <1>1, <1>2 DEF ChainInv, Chain

\* The chain, of the state after a step.
LEMMA ChainPrimed ==
  /\ \A e : Chained(dir, e)' <=> Chained(dir', e)
  /\ Chained(dir, dir.size)' <=> Chained(dir', dir'.size)
  /\ Chained(dir, at)' <=> Chained(dir', at')
  /\ Written(dir)' = Written(dir') /\ (Readable(dir)' <=> Readable(dir'))
  BY DEF Chained, Written, Starts, Readable, Within, Header

\* After a power failure left the chain too short, no scan ends.
LEMMA TornScans ==
  ASSUME TypeInv, Chain, torn, phase = "scan"
  PROVE  MoreRecords(offset)
<1>1. PICK e \in Nat : e < dir.size /\ Chained(dir, e)
  BY DEF Chain
<1>2. dir \in DirType /\ offset \in Offsets /\ dir.size \in Nat /\ offset + 12 <= dir.size
  BY ScanFacts DEF Placed
<1>3. dir.hdr[offset].rec_len \in Nat /\ offset \in Nat
  BY <1>2, HeaderFacts
<1>4. CASE offset \in Written(dir)
  <2>1. offset + dir.hdr[offset].rec_len <= e
    BY <1>1, <1>2, <1>4, ChainedAt
  <2>. QED
    BY <1>1, <1>2, <1>3, <2>1 DEF MoreRecords
<1>5. CASE offset \notin Written(dir)
  <2>1. dir.hdr[offset].rec_len = 0
    BY <1>2, <1>3, <1>5 DEF Written
  <2>. QED
    BY <1>2, <1>3, <2>1 DEF MoreRecords
<1>. QED
  BY <1>4, <1>5

LEMMA ChainOpen ==
  ASSUME TypeInv, ChainInv, NEW n \in Names, ext2_open(n)
  PROVE  ChainInv'
<1>1. UNCHANGED <<dir, torn, grown>> /\ phase = "idle" /\ phase' \in {"idle", "scan"}
  BY DEF ext2_open
<1>2. ASSUME ~grown PROVE Chain'
  <2>1. Chain
    BY <1>2 DEF ChainInv
  <2>2. ASSUME ~torn, phase' = "scan" PROVE offset' \in Written(dir)
    <3>1. offset' = dir.size - BlockSize /\ dir.size >= BlockSize
      BY <1>1, <2>2, Sizes DEF ext2_open, TypeInv, TypeOK, DirType
    <3>2. dir.size \in Nat /\ Whole(dir.size) /\ Roomy /\ Chained(dir, dir.size)
      BY <1>1, <1>2, <2>1, <2>2 DEF Chain, TypeInv, TypeOK, DirType
    <3>3. Whole(offset') /\ offset' \in Nat /\ offset' % 4 = 0 /\ offset' < dir.size
      BY <3>1, <3>2, WholeNext, Sizes
    <3>4. offset' \in Starts(dir)
      <4>1. offset' \in Offsets
        <5>1. dir.size \in Nat /\ offset' \in Nat /\ offset' < dir.size
          BY <3>2, <3>3
        <5>2. offset' \in 0 .. dir.size + Chunk - 1
          BY <5>1, Sizes
        <5>. QED
          BY <3>2, <3>3, <5>2 DEF Roomy
      <4>. QED
        BY <3>3, <4>1 DEF Starts, Whole
    <3>. QED
      BY <3>2, <3>4 DEF Chained
  <2>. QED
    BY <1>1, <2>1, <2>2, ChainPrimed DEF Chain
<1>. QED
  BY <1>1, <1>2 DEF ChainInv

LEMMA ChainScan ==
  ASSUME TypeInv, ChainInv, ScanRecord
  PROVE  ChainInv'
<1>1. /\ UNCHANGED <<dir, phase, torn, grown>> /\ phase = "scan"
      /\ MoreRecords(offset) /\ offset' = offset + dir.hdr[offset].rec_len
  BY DEF ScanRecord, Advance, hist
<1>2. ASSUME ~grown PROVE Chain'
  <2>1. Chain
    BY <1>2 DEF ChainInv
  <2>2. ASSUME ~torn PROVE offset' \in Written(dir)
    <3>1. offset \in Written(dir) /\ Chained(dir, dir.size) /\ dir \in DirType /\ dir.size \in Nat
      BY <1>1, <2>1, <2>2 DEF Chain, TypeInv, TypeOK, DirType
    <3>2. offset' \in Written(dir) \cup {dir.size}
      BY <1>1, <3>1, ChainedAt
    <3>3. offset' # dir.size
      BY <1>1, <3>1 DEF MoreRecords
    <3>. QED
      BY <3>2, <3>3
  <2>. QED
    BY <1>1, <2>1, <2>2, ChainPrimed DEF Chain
<1>. QED
  BY <1>1, <1>2 DEF ChainInv

\* An append in the block: the loop ended at the last record of a whole chain.
LEMMA ChainAppend ==
  ASSUME TypeInv, ChainInv, AppendInBlock
  PROVE  ChainInv'
<1>1. /\ phase = "scan" /\ ~MoreRecords(offset) /\ phase' = "shrink"
      /\ UNCHANGED <<dir, offset, torn, grown>>
  BY DEF AppendInBlock, hist
<1>2. Chain /\ dir \in DirType /\ dir.size \in Nat
  BY <1>1, ScanFacts DEF ChainInv
<1>3. ~torn
  BY <1>1, <1>2, TornScans
<1>4. offset \in Written(dir) /\ Chained(dir, dir.size) /\ Readable(dir)
  BY <1>1, <1>2, <1>3 DEF Chain
<1>5. offset + dir.hdr[offset].rec_len = dir.size
  <2>1. /\ offset \in Nat /\ dir.hdr[offset].rec_len \in Nat
        /\ offset + dir.hdr[offset].rec_len <= dir.size
    BY <1>2, <1>4, ChainedAt
  <2>. QED
    BY <1>1, <1>2, <2>1 DEF MoreRecords
<1>. QED
  BY <1>1, <1>3, <1>4, <1>5, ChainPrimed DEF ChainInv, Chain

\* The shrunk record alone ends the chain where the new one will be.
LEMMA ShrunkChain ==
  ASSUME TypeInv, Chain, StoreShrunk
  PROVE  /\ ~torn /\ ~grown /\ Chained(dir', at) /\ Written(dir') = Written(dir)
         /\ dir'.hdr[at].rec_len = 0 /\ Readable(dir')
         /\ offset \in Written(dir) /\ offset + dir'.hdr[offset].rec_len = at
         /\ \A p \in Written(dir) : p <= offset /\ p # at
<1>1. phase = "shrink" /\ dir \in DirType /\ dir.size \in Nat
  BY DEF StoreShrunk, TypeInv, TypeOK, DirType
<1>2. ~torn /\ ~grown /\ Chained(dir, dir.size) /\ offset \in Written(dir) /\ Readable(dir)
      /\ offset + dir.hdr[offset].rec_len = dir.size
  BY <1>1 DEF Chain, TypeInv
<1>3. /\ at \in Offsets /\ at \in Nat /\ at < dir.size /\ offset \in Nat
      /\ offset + Header + dir.hdr[offset].name_len <= at
  <2>1. Aimed /\ Shrinking /\ Placed
    BY <1>1 DEF TypeInv, Writing
  <2>. QED
    BY <1>1, <2>1, Sizes DEF Aimed, Shrinking, Placed
<1>4. /\ dir' \in DirType /\ dir'.size = dir.size
      /\ dir'.hdr[offset] = [dir.hdr[offset] EXCEPT !.rec_len = at - offset]
      /\ \A p \in Offsets \ {offset} : dir'.hdr[p] = dir.hdr[p]
  BY ShrunkFacts
<1>5. /\ Written(dir') = Written(dir) /\ Chained(dir', at)
      /\ \A p \in Written(dir) : p <= offset /\ p # at
  BY <1>1, <1>2, <1>3, <1>4, ChainShrunk
<1>6. dir'.hdr[at].rec_len = 0
  <2>1. at \notin Written(dir')
    BY <1>5
  <2>. QED
    BY <1>3, <1>4, <2>1 DEF Written
<1>7. offset + dir'.hdr[offset].rec_len = at
  BY <1>3, ShrunkFacts
<1>8. Readable(dir')
  <2>1. \A p \in Written(dir) : dir'.hdr[p].name_len = dir.hdr[p].name_len
    BY ShrunkFacts DEF Written
  <2>. QED
    BY <1>2, <1>5, <2>1 DEF Readable
<1>. QED
  BY <1>2, <1>5, <1>6, <1>7, <1>8

LEMMA ChainStoreShrunk ==
  ASSUME TypeInv, ChainInv, StoreShrunk
  PROVE  ChainInv'
<1>1. /\ phase = "shrink" /\ phase' \in {"header", "overrun"} /\ UNCHANGED <<offset, at, torn, grown>>
  BY DEF StoreShrunk, Copied, hist
<1>2. Chain /\ at \in Nat
  BY <1>1, Sizes DEF ChainInv, TypeInv, Writing, Aimed
<1>3. /\ ~torn /\ Chained(dir', at) /\ Written(dir') = Written(dir) /\ dir'.hdr[at].rec_len = 0
      /\ Readable(dir') /\ \E p \in Written(dir') : p + dir'.hdr[p].rec_len = at
  BY <1>2, ShrunkChain
<1>4. Chain'
  BY <1>1, <1>2, <1>3, ChainPrimed DEF Chain
<1>. QED
  BY <1>4 DEF ChainInv

\* The new header makes it reach the end of the directory again.
LEMMA HeaderChain ==
  ASSUME TypeInv, Chain, StoreHeader, ~grown
  PROVE  /\ ~torn /\ Chained(dir', dir'.size) /\ Written(dir') = Written(dir) \cup {at}
         /\ dir'.size = dir.size /\ \A p \in Written(dir) : p < at
         /\ dir'.hdr[at].inode = made /\ dir'.hdr[at].name_len = NameLen[name]
<1>1. phase = "header" /\ dir \in DirType /\ dir.size \in Nat
  BY DEF StoreHeader, TypeInv, TypeOK, DirType
<1>2. /\ ~torn /\ Chained(dir, at) /\ dir.hdr[at].rec_len = 0
      /\ \E p \in Written(dir) : p + dir.hdr[p].rec_len = at
  BY <1>1 DEF Chain
<1>3. /\ at \in Offsets /\ at \in Nat /\ at < dir.size
      /\ at + Header + NameLen[name] <= dir.size /\ name \in Names
  <2>1. Aimed /\ Fits /\ Placed
    BY <1>1 DEF TypeInv, Writing
  <2>. QED
    BY <1>1, <2>1, Sizes DEF Aimed, Fits, Placed
<1>4. /\ dir' \in DirType /\ dir'.size = dir.size
      /\ dir'.hdr[at] = NewEntry(dir.size - at)
      /\ \A p \in Offsets \ {at} : dir'.hdr[p] = dir.hdr[p]
  BY HeaderStored
<1>5. /\ dir'.hdr[at].rec_len = dir.size - at /\ dir'.hdr[at].inode = made
      /\ dir'.hdr[at].name_len = NameLen[name]
  BY <1>4 DEF NewEntry
<1>6. dir'.hdr[at].rec_len >= Header + dir'.hdr[at].name_len
  <2>1. NameLen[name] \in Nat
    BY <1>3, NameFacts
  <2>2. dir.size - at >= Header + NameLen[name]
    BY <1>1, <1>3, <2>1 DEF Header
  <2>. QED
    BY <1>5, <2>2
<1>7. Written(dir') = Written(dir) \cup {at} /\ Chained(dir', dir.size)
  BY <1>1, <1>2, <1>3, <1>4, <1>5, <1>6, ChainExtended
<1>8. ASSUME NEW p \in Written(dir) PROVE p < at
  <2>1. p \in Nat /\ p < p + dir.hdr[p].rec_len /\ p + dir.hdr[p].rec_len <= at
        /\ dir.hdr[p].rec_len \in Nat
    BY <1>1, <1>2, ChainedAt
  <2>. QED
    BY <1>3, <2>1
<1>. QED
  BY <1>2, <1>4, <1>5, <1>7, <1>8

LEMMA ChainStoreHeader ==
  ASSUME TypeInv, ChainInv, StoreHeader
  PROVE  ChainInv'
<1>1. /\ phase = "header"
      /\ \/ phase' = "name" /\ Within(at + Header, NameLen[name])
         \/ phase' = "overrun"
      /\ UNCHANGED <<name, offset, at, torn, grown, made>>
  BY DEF StoreHeader, Copied, hist
<1>2. SUFFICES ASSUME ~grown PROVE Chain'
  BY <1>1 DEF ChainInv
<1>3. Chain /\ dir.size \in Nat /\ Within(at, Header) /\ Readable(dir)
  <2>1. Chain /\ Aimed /\ dir.size \in Nat
    BY <1>1, <1>2 DEF ChainInv, TypeInv, TypeOK, DirType, Writing
  <2>. QED
    BY <1>1, <2>1 DEF Chain, Aimed
<1>4. /\ ~torn /\ Chained(dir', dir'.size) /\ Written(dir') = Written(dir) \cup {at}
      /\ dir'.size = dir.size /\ \A p \in Written(dir) : p < at
      /\ dir'.hdr[at].inode = made /\ dir'.hdr[at].name_len = NameLen[name]
  BY <1>2, <1>3, HeaderChain
<1>5. dir'.hdr[at] = NewEntry(dir.size - at) /\ \A p \in Offsets \ {at} : dir'.hdr[p] = dir.hdr[p]
  BY <1>2, HeaderStored
<1>6. NewEntry(dir.size - at)' = NewEntry(dir.size - at)
  BY <1>1, <1>4 DEF NewEntry
<1>7. phase' = "name" => Readable(dir')
  <2>1. SUFFICES ASSUME phase' = "name", NEW p \in Written(dir')
                 PROVE  Within(p, Header) /\ Within(p + Header, dir'.hdr[p].name_len)
    BY DEF Readable
  <2>2. CASE p = at
    BY <1>1, <1>3, <1>4, <2>1, <2>2
  <2>3. CASE p # at
    <3>1. p \in Written(dir) /\ dir'.hdr[p] = dir.hdr[p]
      BY <1>4, <1>5, <2>1, <2>3 DEF Written
    <3>. QED
      BY <1>3, <3>1 DEF Readable
  <2>. QED
    BY <2>2, <2>3
<1>. QED
  BY <1>1, <1>3, <1>4, <1>5, <1>6, <1>7, ChainPrimed DEF Chain

LEMMA ChainStoreName ==
  ASSUME TypeInv, ChainInv, StoreName
  PROVE  ChainInv'
<1>1. phase = "name" /\ phase' = "close" /\ UNCHANGED <<name, at, torn, grown, made>>
  BY DEF StoreName, hist
<1>2. SUFFICES ASSUME ~grown PROVE Chain'
  BY <1>1 DEF ChainInv
<1>3. Chain /\ dir \in DirType
  BY <1>2 DEF ChainInv, TypeInv, TypeOK
<1>4. dir' \in DirType /\ dir'.size = dir.size /\ dir'.hdr = dir.hdr
  BY <1>2, NameStored
<1>5. /\ ~torn /\ Chained(dir, dir.size) /\ at \in Written(dir)
      /\ dir.hdr[at] = NewEntry(dir.size - at) /\ Readable(dir)
  BY <1>1, <1>3 DEF Chain
<1>6. Written(dir') = Written(dir) /\ Chained(dir', dir.size)
  BY <1>3, <1>4, <1>5, SameChain
<1>7. Readable(dir')
  BY <1>4, <1>5, <1>6 DEF Readable
<1>8. NewEntry(dir.size - at)' = NewEntry(dir.size - at)
  BY <1>1, <1>4 DEF NewEntry
<1>. QED
  BY <1>1, <1>4, <1>5, <1>6, <1>7, <1>8, ChainPrimed DEF Chain

LEMMA ChainDone ==
  ASSUME TypeInv, ChainInv, Done
  PROVE  ChainInv'
<1>1. phase = "close" /\ phase' = "idle" /\ UNCHANGED <<torn, grown>>
      /\ dir' = (IF first THEN Replaced ELSE dir)
  BY DEF Done
<1>2. SUFFICES ASSUME ~grown PROVE Chain'
  BY <1>1 DEF ChainInv
<1>3. Chain /\ dir' = dir
  BY <1>1, <1>2 DEF ChainInv, TypeInv
<1>. QED
  BY <1>1, <1>3, ChainPrimed DEF Chain

\* Torn is exactly a crash between the two headers.
LEMMA ChainCrash ==
  ASSUME TypeInv, ChainInv, Crash
  PROVE  ChainInv'
<1>1. /\ phase \notin {"idle", "overrun"} /\ phase' = "idle" /\ UNCHANGED <<dir, grown>>
      /\ torn' = (torn \/ (phase = "header" /\ ~grown))
  BY DEF Crash
<1>2. SUFFICES ASSUME ~grown PROVE Chain'
  BY <1>1 DEF ChainInv
<1>3. Chain /\ torn \in BOOLEAN /\ Readable(dir)
  BY <1>1, <1>2 DEF ChainInv, TypeInv, TypeOK, Chain
<1>4. CASE phase = "header"
  <2>1. Chained(dir, at) /\ at \in Nat /\ at < dir.size /\ torn'
    <3>1. Chained(dir, at) /\ torn' /\ at \in Nat /\ at + 12 <= dir.size /\ dir.size \in Nat
      BY <1>1, <1>2, <1>3, <1>4, Sizes DEF Chain, TypeInv, TypeOK, DirType, Writing, Aimed
    <3>. QED
      BY <3>1
  <2>. QED
    BY <1>1, <1>3, <2>1, ChainPrimed DEF Chain
<1>5. CASE phase # "header"
  BY <1>1, <1>3, <1>5, ChainPrimed DEF Chain
<1>. QED
  BY <1>4, <1>5

LEMMA ChainStep ==
  ASSUME TypeInv, ChainInv, [Next]_vars
  PROVE  ChainInv'
<1>1. CASE UNCHANGED vars
  <2>1. UNCHANGED <<dir, phase, name, offset, at, made, torn, grown>>
    BY <1>1 DEF vars, hist
  <2>2. NewEntry(dir.size - at)' = NewEntry(dir.size - at)
    BY <2>1 DEF NewEntry
  <2>3. Chain => Chain'
    BY <2>1, <2>2, ChainPrimed DEF Chain
  <2>. QED
    BY <2>1, <2>3 DEF ChainInv
<1>2. CASE OverwriteLastBlock \/ ReplaceFirstBlock
  BY <1>2 DEF OverwriteLastBlock, ReplaceFirstBlock, NewBlock, ChainInv
<1>3. CASE Next /\ ~(OverwriteLastBlock \/ ReplaceFirstBlock)
  BY <1>3, ChainOpen, ChainScan, ChainAppend, ChainStoreShrunk, ChainStoreHeader, ChainStoreName,
     ChainDone, ChainCrash DEF Next, ext2_append_to_directory
<1>. QED
  BY <1>1, <1>2, <1>3

LEMMA ChainAlways == Spec => [](TypeInv /\ ChainInv)
<1>1. Init => TypeInv /\ ChainInv
  BY TypeInit, ChainInit
<1>2. TypeInv /\ ChainInv /\ [Next]_vars => (TypeInv /\ ChainInv)'
  BY TypeStep, ChainStep
<1>. QED
  BY <1>1, <1>2, PTL DEF Spec

\* The records of a block are those the chain comes to from its beginning.
LEMMA RecordsFacts ==
  ASSUME NEW s \in Nat
  PROVE  /\ \A o \in RecordsFrom(s) : o \in Written(dir) /\ s <= o /\ o < s + BlockSize
         /\ s \in Written(dir) => s \in RecordsFrom(s)
         /\ \A o \in RecordsFrom(s) :
              /\ o + dir.hdr[o].rec_len \in Written(dir)
              /\ s <= o + dir.hdr[o].rec_len /\ o + dir.hdr[o].rec_len < s + BlockSize
              => o + dir.hdr[o].rec_len \in RecordsFrom(s)
<1>. DEFINE block == {o \in Written(dir) : s <= o /\ o < s + BlockSize}
            next == [o \in block |-> o + dir.hdr[o].rec_len]
<1>1. RecordsFrom(s) = Visited(next, s)
  BY DEF RecordsFrom
<1>2. DOMAIN next = block /\ \A o \in block : next[o] = o + dir.hdr[o].rec_len
  OBVIOUS
<1>3. s \in Written(dir) => s \in block
  BY Sizes
<1>. HIDE DEF next
<1>4. RecordsFrom(s) \subseteq block
  BY <1>1, <1>2, Walk
<1>5. s \in block => s \in RecordsFrom(s)
  BY <1>1, <1>2, Walk
<1>6. ASSUME NEW o \in RecordsFrom(s), o + dir.hdr[o].rec_len \in block
      PROVE  o + dir.hdr[o].rec_len \in RecordsFrom(s)
  <2>1. next[o] = o + dir.hdr[o].rec_len
    BY <1>2, <1>4
  <2>. QED
    BY <1>1, <1>2, <1>6, <2>1, Walk
<1>. QED
  BY <1>3, <1>4, <1>5, <1>6

\* The beginnings of blocks.
LEMMA StartFacts ==
  ASSUME TypeInv, ~grown
  PROVE  /\ \A s \in Starts(dir) : s \in Nat /\ s \in Offsets /\ Whole(s) /\ s + BlockSize <= dir.size
         /\ \A s \in Nat : Whole(s) /\ s < dir.size => s \in Starts(dir)
<1>1. dir.size \in Nat /\ Roomy /\ Whole(dir.size)
  BY DEF TypeInv, TypeOK, DirType
<1>2. ASSUME NEW s \in Starts(dir)
      PROVE  s \in Nat /\ s \in Offsets /\ Whole(s) /\ s + BlockSize <= dir.size
  <2>1. s \in Nat /\ s \in Offsets /\ Whole(s) /\ s < dir.size
    BY <1>2, Sizes DEF Starts, Whole
  <2>. QED
    BY <1>1, <2>1, WholeApart
<1>3. ASSUME NEW s \in Nat, Whole(s), s < dir.size PROVE s \in Starts(dir)
  <2>1. s % 4 = 0 /\ s \in 0 .. dir.size + Chunk - 1
    BY <1>1, <1>3, WholeNext, Sizes
  <2>2. s \in Offsets
    BY <1>1, <2>1 DEF Roomy
  <2>. QED
    BY <1>3, <2>2 DEF Starts, Whole
<1>. QED
  BY <1>2, <1>3

\* Where the chain is whole, the records of a block reach exactly to its end:
\* the next block begins with a record, and none reaches into another.
LEMMA ChainTiles ==
  ASSUME TypeInv, ~grown, Chained(dir, dir.size), Readable(dir), NEW s \in Starts(dir)
  PROVE  Tiles(s)
<1>1. dir \in DirType /\ dir.size \in Nat
  BY DEF TypeInv, TypeOK, DirType
<1>2. s \in Nat /\ Whole(s) /\ s + BlockSize <= dir.size
  BY StartFacts
<1>3. s \in RecordsFrom(s)
  BY <1>2, RecordsFacts DEF Chained
<1>4. s + BlockSize \in Written(dir) \/ s + BlockSize = dir.size
  <2>1. s + BlockSize \in Nat /\ Whole(s + BlockSize)
    BY <1>2, WholeNext, Sizes
  <2>2. s + BlockSize < dir.size => s + BlockSize \in Written(dir)
    BY <2>1, StartFacts DEF Chained
  <2>. QED
    BY <1>1, <1>2, <2>1, <2>2
<1>5. ASSUME NEW o \in RecordsFrom(s)
      PROVE  /\ dir.hdr[o].rec_len >= Header + dir.hdr[o].name_len
             /\ o + dir.hdr[o].rec_len \in RecordsFrom(s) \cup {s + BlockSize}
             /\ Within(o, Header) /\ Within(o + Header, dir.hdr[o].name_len)
  <2>. DEFINE q == o + dir.hdr[o].rec_len
  <2>1. o \in Written(dir) /\ s <= o /\ o < s + BlockSize
    BY <1>2, RecordsFacts
  <2>2. /\ o \in Nat /\ dir.hdr[o].rec_len \in Nat /\ dir.hdr[o].rec_len >= Header + dir.hdr[o].name_len
        /\ q \in Written(dir) \cup {dir.size} /\ q <= dir.size
        /\ \A p \in Written(dir) : o < p => q <= p
    BY <1>1, <2>1, ChainedAt
  <2>3. q \in Nat /\ s <= q
    BY <1>2, <2>1, <2>2
  <2>4. q \in RecordsFrom(s) \cup {s + BlockSize}
    <3>1. q <= s + BlockSize
      BY <1>4, <2>1, <2>2
    <3>2. CASE q < s + BlockSize
      <4>1. q # dir.size
        BY <1>1, <1>2, <2>3, <3>2, Sizes
      <4>2. q \in Written(dir)
        BY <2>2, <4>1
      <4>. QED
        BY <1>2, <2>3, <3>2, <4>2, RecordsFacts
    <3>3. CASE ~(q < s + BlockSize)
      BY <1>2, <2>3, <3>1, <3>3, Sizes
    <3>. QED
      BY <3>2, <3>3
  <2>5. Within(o, Header) /\ Within(o + Header, dir.hdr[o].name_len)
    BY <2>1 DEF Readable
  <2>. QED
    BY <2>2, <2>4, <2>5
<1>. QED
  BY <1>3, <1>5 DEF Tiles

\* Between calls the records of every block tile it exactly, and no header or
\* name lies across a sector's end, so that the next append ends, after any
\* number of files and power failures, unless the new block path was taken or
\* power failed between the stores of the shrunk record and of the new header.
THEOREM ChainHolds == Spec => []ChainSound
<1>1. TypeInv /\ ChainInv => ChainSound
  <2>1. SUFFICES ASSUME TypeInv, ChainInv, phase = "idle", ~torn, ~grown, NEW o \in Starts(dir)
                 PROVE  Tiles(o)
    BY DEF ChainSound
  <2>2. Chained(dir, dir.size) /\ Readable(dir)
    BY <2>1 DEF ChainInv, Chain
  <2>. QED
    BY <2>1, <2>2, ChainTiles
<1>. QED
  BY <1>1, ChainAlways, PTL

\* Every turn of the loop of ext2_append_to_directory moves on to a later record.
Advances == [][ScanRecord /\ ~torn /\ ~grown => offset < offset']_vars

\* The loop never reads the same record twice, so it takes no more turns than
\* there are records: with DirectoryTypes, which keeps it within the block, the
\* safety half of AppendEnds.
THEOREM ScanAdvances == Spec => Advances
<1>1. TypeInv /\ ChainInv => (ScanRecord /\ ~torn /\ ~grown => offset < offset')
  <2>1. SUFFICES ASSUME TypeInv, ChainInv, ScanRecord, ~torn, ~grown PROVE offset < offset'
    OBVIOUS
  <2>2. offset \in Written(dir) /\ Chained(dir, dir.size) /\ dir \in DirType
    BY <2>1 DEF ChainInv, Chain, ScanRecord, TypeInv, TypeOK
  <2>3. offset' = offset + dir.hdr[offset].rec_len
    BY <2>1 DEF ScanRecord, Advance
  <2>. QED
    BY <2>2, <2>3, ChainedAt
<1>. QED
  BY <1>1, ChainAlways, PTL DEF Advances

(***************************************************************************)
(* The names in the directory.                                             *)
(***************************************************************************)

\* Carries and what hides a record from ext2_readdir, for a given directory.
Has(d, o, n) ==
  o + Header \in Offsets /\ d.nam[o + Header] = n /\ NameLen[n] = d.hdr[o].name_len

Hidden(d, o) == \E r \in Written(d) : r <= o /\ d.hdr[r].inode = 0

\* A record has the name n and the inode i, and a reader of the directory that
\* looks for n comes to it first, or to none.
Holds(d, n, i) ==
  \E o \in Written(d) :
    /\ d.hdr[o].inode = i /\ Has(d, o, n)
    /\ Hidden(d, o) \/ \A p \in Written(d) : p < o => ~Has(d, p, n)

\* Two directories have the same records up to the one at b, lengths aside.
SameBut(d, e, b) ==
  /\ \A o \in Written(d) \cup Written(e) : o <= b
  /\ Written(d) \ {b} = Written(e) \ {b}
  /\ \A o \in Written(d) \ {b} :
       /\ e.hdr[o].inode = d.hdr[o].inode /\ e.hdr[o].name_len = d.hdr[o].name_len
       /\ \A n \in DOMAIN NameLen : Has(d, o, n) <=> Has(e, o, n)

\* No name is in the directory twice to a reader, since it was looked up before
\* it was added.
Named ==
  /\ \A n \in Names : added[n] <= made /\ (added[n] # 0 => Holds(dir, n, added[n]))
  /\ phase \in {"scan"} \cup Writing =>
       /\ \A n \in Names : added[n] < made
       /\ \A o \in Written(dir) :
            Has(dir, o, name) /\ ~Hidden(dir, o) => phase \in {"name", "close"} /\ o = at
  /\ phase = "close" => dir.nam[at + Header] = name

NameInv == ~grown => Named

\* Every header of a chain is a record of some block.
LEMMA AllRecords ==
  ASSUME TypeInv, ~grown, NEW end, Chained(dir, end), NEW o \in Written(dir)
  PROVE  o \in Records
<1>. DEFINE S == Written(dir) \ Records
<1>1. SUFFICES ASSUME S # {} PROVE FALSE
  OBVIOUS
<1>2. dir \in DirType /\ dir.size \in Nat
  BY DEF TypeInv, TypeOK, DirType
<1>3. S \in SUBSET Nat
  BY Sizes DEF Written
<1>4. PICK x \in S : \A y \in S : x <= y
  BY <1>1, <1>3, LeastElement
<1>5. x \in Written(dir) /\ x \notin Records /\ x \in Nat /\ x < dir.size
  BY <1>2, <1>4, ChainedAt
<1>6. x \notin Starts(dir)
  <2>1. SUFFICES ASSUME x \in Starts(dir) PROVE FALSE
    OBVIOUS
  <2>2. x \in RecordsFrom(x)
    BY <1>5, RecordsFacts
  <2>. QED
    BY <1>5, <2>1, <2>2 DEF Records
<1>7. x # 0
  <2>1. Whole(0)
    BY Sizes, DivMod DEF Whole
  <2>. QED
    BY <1>5, <1>6, <2>1, StartFacts
<1>8. PICK p \in Written(dir) : p + dir.hdr[p].rec_len = x
  BY <1>2, <1>5, <1>7, ChainedAt
<1>9. p \in Nat /\ p < x /\ \A q \in Written(dir) : p < q => x <= q
  BY <1>2, <1>8, ChainedAt
<1>10. p \in Records
  <2>1. p \notin S
    BY <1>3, <1>4, <1>5, <1>9
  <2>. QED
    BY <2>1
<1>11. PICK s \in Starts(dir) : p \in RecordsFrom(s)
  BY <1>10 DEF Records
<1>12. s \in Nat /\ Whole(s) /\ s <= p /\ p < s + BlockSize
  BY <1>11, StartFacts, RecordsFacts
<1>13. CASE x < s + BlockSize
  <2>1. s <= x
    BY <1>5, <1>9, <1>12
  <2>2. x \in RecordsFrom(s)
    BY <1>5, <1>8, <1>11, <1>12, <1>13, <2>1, RecordsFacts
  <2>. QED
    BY <1>5, <1>11, <2>2 DEF Records
<1>14. CASE ~(x < s + BlockSize)
  <2>1. s + BlockSize \in Starts(dir)
    <3>1. s + BlockSize \in Nat /\ Whole(s + BlockSize)
      BY <1>12, WholeNext, Sizes
    <3>2. s + BlockSize < dir.size
      BY <1>2, <1>5, <1>14, <3>1
    <3>. QED
      BY <3>1, <3>2, StartFacts
  <2>2. s + BlockSize \in Written(dir)
    BY <2>1 DEF Chained
  <2>3. x <= s + BlockSize
    BY <1>9, <1>12, <2>2
  <2>4. x = s + BlockSize
    BY <1>5, <1>12, <1>14, <2>3, Sizes
  <2>. QED
    BY <1>6, <2>1, <2>4
<1>. QED
  BY <1>13, <1>14

\* ext2_readdir comes to every record that nothing hides.
LEMMA AllListed ==
  ASSUME TypeInv, NEW end, Chained(dir, end), NEW o \in Written(dir), ~Hidden(dir, o)
  PROVE  o \in Listed
<1>. DEFINE S == {p \in Written(dir) : p <= o /\ p \notin Listed}
<1>1. dir \in DirType /\ dir.size \in Nat /\ o \in Nat
  BY ChainedAt DEF TypeInv, TypeOK, DirType
<1>2. SUFFICES ASSUME S # {} PROVE FALSE
  BY <1>1
<1>3. S \in SUBSET Nat
  BY Sizes DEF Written
<1>4. PICK x \in S : \A y \in S : x <= y
  BY <1>2, <1>3, LeastElement
<1>5. x \in Written(dir) /\ x <= o /\ x \notin Listed /\ x \in Nat
  BY <1>3, <1>4
<1>6. x \in Used
  BY <1>5 DEF Hidden, Used, Written
<1>7. x # 0
  BY <1>5, <1>6, ListedFacts
<1>8. PICK p \in Written(dir) : p + dir.hdr[p].rec_len = x
  BY <1>1, <1>5, <1>7, ChainedAt
<1>9. p \in Nat /\ p < x
  BY <1>1, <1>8, ChainedAt
<1>10. p \in Listed
  <2>1. p <= o
    BY <1>1, <1>5, <1>9
  <2>2. p \notin S
    BY <1>4, <1>5, <1>9
  <2>. QED
    BY <2>1, <2>2
<1>11. NextEntry(p) = x
  BY <1>8 DEF NextEntry
<1>. QED
  BY <1>5, <1>6, <1>10, <1>11, ListedFacts

\* It comes to nothing but records.
LEMMA ListedWritten ==
  ASSUME NEW end, Chained(dir, end), NEW o \in Listed
  PROVE  o \in Written(dir)
  BY ListedFacts DEF Used, Chained, Written

\* A lookup finds what the directory holds, and what it does not find is hidden.
LEMMA LookupHolds ==
  ASSUME TypeInv, NEW end, Chained(dir, end), NEW n
  PROVE  /\ Lookup(n) = 0 => \A o \in Written(dir) : Has(dir, o, n) => Hidden(dir, o)
         /\ \A o \in Written(dir) :
              /\ Has(dir, o, n) /\ ~Hidden(dir, o)
              /\ \A p \in Written(dir) : p < o => ~Has(dir, p, n)
              => Lookup(n) = dir.hdr[o].inode
<1>1. \A o : Has(dir, o, n) <=> Carries(o, n)
  BY DEF Has, Carries
<1>2. \A o \in Written(dir) : o \in Nat /\ (~Hidden(dir, o) => dir.hdr[o].inode # 0)
  BY Sizes DEF Written, Hidden
<1>3. ASSUME NEW o \in Written(dir), Has(dir, o, n), ~Hidden(dir, o)
      PROVE  \E q \in Written(dir) : /\ q <= o /\ Has(dir, q, n) /\ q \in Listed
                                    /\ Lookup(n) = dir.hdr[q].inode
  <2>1. o \in Listed
    BY <1>3, AllListed
  <2>2. PICK q \in Listed : /\ Carries(q, n) /\ Lookup(n) = dir.hdr[q].inode
                            /\ \A p \in Listed : Carries(p, n) => q <= p
    BY <1>1, <1>3, <2>1, LookupFacts
  <2>. QED
    BY <1>1, <1>3, <2>1, <2>2, ListedWritten
<1>4. ASSUME Lookup(n) = 0, NEW o \in Written(dir), Has(dir, o, n) PROVE Hidden(dir, o)
  <2>1. SUFFICES ASSUME ~Hidden(dir, o) PROVE FALSE
    OBVIOUS
  <2>2. PICK q \in Listed : Lookup(n) = dir.hdr[q].inode
    BY <1>3, <1>4, <2>1
  <2>. QED
    BY <1>4, <2>2, ListedFacts DEF Used
<1>5. ASSUME NEW o \in Written(dir), Has(dir, o, n), ~Hidden(dir, o),
             \A p \in Written(dir) : p < o => ~Has(dir, p, n)
      PROVE  Lookup(n) = dir.hdr[o].inode
  <2>1. PICK q \in Written(dir) : q <= o /\ Has(dir, q, n) /\ Lookup(n) = dir.hdr[q].inode
    BY <1>3, <1>5
  <2>2. q = o
    BY <1>2, <1>5, <2>1
  <2>. QED
    BY <2>1, <2>2
<1>. QED
  BY <1>4, <1>5

\* There is a chain at all times, to the end of the directory or not as far.
LEMMA SomeChain ==
  ASSUME TypeInv, Chain
  PROVE  \E end \in Nat : Chained(dir, end)
<1>1. dir.size \in Nat
  BY DEF TypeInv, TypeOK, DirType
<1>2. CASE torn \/ phase = "overrun"
  BY <1>2 DEF Chain
<1>3. CASE phase = "header"
  BY <1>3, Sizes DEF Chain, TypeInv, Writing, Aimed
<1>4. CASE ~torn /\ phase \notin {"header", "overrun"}
  BY <1>1, <1>4 DEF Chain
<1>. QED
  BY <1>2, <1>3, <1>4

\* What NameInv says is what the property says of chain and lookup.
LEMMA NamesFound ==
  ASSUME TypeInv, ChainInv, NameInv
  PROVE  NothingLost
<1>1. SUFFICES ASSUME ~grown, NEW n \in Names, added[n] # 0
               PROVE  \E o \in Records :
                        /\ dir.hdr[o].inode = added[n] /\ Carries(o, n)
                        /\ \/ Lookup(n) = added[n]
                           \/ \E p \in Records : p < o /\ dir.hdr[p].inode = 0
  BY DEF NothingLost
<1>2. PICK end \in Nat : Chained(dir, end)
  BY <1>1, SomeChain DEF ChainInv
<1>3. PICK o \in Written(dir) :
        /\ dir.hdr[o].inode = added[n] /\ Has(dir, o, n)
        /\ Hidden(dir, o) \/ \A p \in Written(dir) : p < o => ~Has(dir, p, n)
  BY <1>1 DEF NameInv, Named, Holds
<1>4. o \in Records /\ Carries(o, n)
  BY <1>1, <1>2, <1>3, AllRecords DEF Has, Carries
<1>5. CASE Hidden(dir, o)
  <2>1. PICK r \in Written(dir) : r <= o /\ dir.hdr[r].inode = 0
    BY <1>5 DEF Hidden
  <2>2. r \in Records /\ r # o /\ r \in Nat /\ o \in Nat
    BY <1>1, <1>2, <1>3, <2>1, AllRecords, Sizes DEF Written
  <2>3. r < o
    BY <2>1, <2>2
  <2>. QED
    BY <1>3, <1>4, <2>1, <2>2, <2>3
<1>6. CASE ~Hidden(dir, o)
  <2>1. Lookup(n) = dir.hdr[o].inode
    BY <1>2, <1>3, <1>6, LookupHolds
  <2>. QED
    BY <1>3, <1>4, <2>1
<1>. QED
  BY <1>5, <1>6

\* What hides a record does so in both.
LEMMA HiddenSame ==
  ASSUME NEW d, NEW e, NEW b \in Nat, SameBut(d, e, b), NEW o \in Nat, o < b, Hidden(d, o)
  PROVE  Hidden(e, o)
<1>1. PICK r \in Written(d) : r <= o /\ d.hdr[r].inode = 0
  BY DEF Hidden
<1>2. r \in Nat
  BY Sizes DEF Written
<1>3. r # b
  BY <1>1, <1>2
<1>4. r \in Written(e) /\ e.hdr[r].inode = 0
  BY <1>1, <1>3 DEF SameBut
<1>. QED
  BY <1>1, <1>4 DEF Hidden

\* A name that one holds with an inode that is not that at b, the other holds.
LEMMA HoldsSame ==
  ASSUME NEW d, NEW e, NEW b \in Nat, SameBut(d, e, b), NEW n \in DOMAIN NameLen, NEW i,
         Holds(d, n, i), b \in Written(d) => d.hdr[b].inode # i
  PROVE  Holds(e, n, i)
<1>1. PICK o \in Written(d) :
        /\ d.hdr[o].inode = i /\ Has(d, o, n)
        /\ Hidden(d, o) \/ \A p \in Written(d) : p < o => ~Has(d, p, n)
  BY DEF Holds
<1>2. o \in Nat /\ o # b /\ o <= b
  BY <1>1, Sizes DEF Written, SameBut
<1>3. o < b
  BY <1>2
<1>4. o \in Written(e) /\ e.hdr[o].inode = i /\ Has(e, o, n)
  BY <1>1, <1>2 DEF SameBut
<1>5. Hidden(d, o) => Hidden(e, o)
  BY <1>2, <1>3, HiddenSame
<1>6. ASSUME \A p \in Written(d) : p < o => ~Has(d, p, n), NEW p \in Written(e), p < o
      PROVE  ~Has(e, p, n)
  <2>1. p \in Nat
    BY Sizes DEF Written
  <2>2. p # b
    BY <1>2, <1>6, <2>1
  <2>3. p \in Written(d) /\ (Has(d, p, n) <=> Has(e, p, n))
    BY <2>2 DEF SameBut
  <2>. QED
    BY <1>6, <2>3
<1>. QED
  BY <1>1, <1>4, <1>5, <1>6 DEF Holds

\* Named, of the state after a step.
LEMMA NamedNext ==
  ASSUME \A n \in Names : added'[n] <= made' /\ (added'[n] # 0 => Holds(dir', n, added'[n])),
         phase' \in {"scan"} \cup Writing => \A n \in Names : added'[n] < made',
         phase' \in {"scan"} \cup Writing =>
           \A o \in Written(dir') : /\ Has(dir', o, name') /\ ~Hidden(dir', o)
                                   => phase' \in {"name", "close"} /\ o = at',
         phase' = "close" => dir'.nam[at' + Header] = name'
  PROVE  Named'
<1>1. \A n : Holds(dir, n, added[n])' <=> Holds(dir', n, added'[n])
  BY DEF Holds, Has, Hidden, Written
<1>2. \A o : /\ Has(dir, o, name)' <=> Has(dir', o, name')
            /\ Hidden(dir, o)' <=> Hidden(dir', o)
  BY DEF Has, Hidden, Written
<1>3. Written(dir)' = Written(dir') /\ (at + Header)' = at' + Header
  BY DEF Written, Header
<1>. QED
  BY <1>1, <1>2, <1>3 DEF Named, Writing

LEMMA NameInit ==
  ASSUME Init
  PROVE  NameInv
  BY Sizes DEF Init, NameInv, Named, Writing

LEMMA NameOpen ==
  ASSUME TypeInv, ChainInv, NameInv, NEW n \in Names, ext2_open(n)
  PROVE  NameInv'
<1>1. /\ UNCHANGED <<dir, added, grown>> /\ phase = "idle" /\ phase' \in {"idle", "scan"}
      /\ \/ phase' = "idle" /\ made' \in {made, made + 1}
         \/ phase' = "scan" /\ name' = n /\ made' = made + 1 /\ Lookup(n) = 0
  BY DEF ext2_open
<1>2. SUFFICES ASSUME ~grown PROVE Named'
  BY <1>1 DEF NameInv
<1>3. Named /\ Chain
  BY <1>2 DEF NameInv, ChainInv
<1>4. made \in Nat /\ \A m \in Names : added[m] \in Nat /\ added[m] <= made
  BY <1>3, Sizes DEF TypeInv, TypeOK, Named
<1>5. \A m \in Names : added'[m] <= made' /\ (added'[m] # 0 => Holds(dir', m, added'[m]))
  BY <1>1, <1>3, <1>4 DEF Named
<1>6. ASSUME phase' = "scan"
      PROVE  /\ \A m \in Names : added'[m] < made'
             /\ \A o \in Written(dir') : Has(dir', o, name') => Hidden(dir', o)
  <2>1. name' = n /\ made' = made + 1 /\ Lookup(n) = 0
    BY <1>1, <1>6
  <2>2. PICK end : Chained(dir, end)
    BY <1>3, SomeChain
  <2>3. \A o \in Written(dir) : Has(dir, o, n) => Hidden(dir, o)
    BY <2>1, <2>2, LookupHolds
  <2>. QED
    BY <1>1, <1>4, <2>1, <2>3
<1>. QED
  BY <1>1, <1>5, <1>6, NamedNext DEF Writing

\* A step that stores nothing, or a power failure, leaves the names alone.
LEMMA NameQuiet ==
  ASSUME TypeInv, ChainInv, NameInv, ScanRecord \/ AppendInBlock \/ Crash
  PROVE  NameInv'
<1>1. /\ UNCHANGED <<dir, added, made, grown>>
      /\ \/ phase = "scan" /\ phase' \in {"scan", "shrink"} /\ name' = name
         \/ phase' = "idle"
  BY DEF ScanRecord, AppendInBlock, Crash, hist
<1>2. SUFFICES ASSUME ~grown PROVE Named'
  BY <1>1 DEF NameInv
<1>3. Named
  BY <1>2 DEF NameInv
<1>4. \A n \in Names : added'[n] <= made' /\ (added'[n] # 0 => Holds(dir', n, added'[n]))
  BY <1>1, <1>3 DEF Named
<1>5. ASSUME phase' \in {"scan"} \cup Writing
      PROVE  /\ \A n \in Names : added'[n] < made'
             /\ \A o \in Written(dir') : ~(Has(dir', o, name') /\ ~Hidden(dir', o))
  BY <1>1, <1>3, <1>5 DEF Named, Writing
<1>. QED
  BY <1>1, <1>4, <1>5, NamedNext DEF Writing

\* A header at x leaves the name of a record that is that one, or ends before it.
LEMMA KeepsName ==
  ASSUME NEW d \in DirType, NEW e \in DirType, NEW x \in Nat, NEW p \in Nat,
         p + Header \in Offsets, NEW n \in DOMAIN NameLen,
         e.nam[p + Header] = Left(d.nam, x, p + Header),
         p = x \/ p + Header + NameLen[n] <= x
  PROVE  d.nam[p + Header] = n <=> e.nam[p + Header] = n
<1>. DEFINE q == p + Header
<1>1. q \in Nat /\ n # NoName /\ NameLen[n] \in Nat /\ e.nam[q] = Left(d.nam, x, q)
  BY NameFacts DEF Header
<1>2. ~(q < x + Header /\ x < q + NameLen[n])
  BY <1>1 DEF Header
<1>. HIDE DEF q
<1>3. d.nam[q] = n => e.nam[q] = n
  BY <1>1, <1>2 DEF Left
<1>4. e.nam[q] = n => d.nam[q] = n
  BY <1>1 DEF Left
<1>. QED
  BY <1>3, <1>4 DEF q

\* The shrunk record keeps its name, and every other record too.
LEMMA ShrunkNames ==
  ASSUME TypeInv, Chain, StoreShrunk
  PROVE  SameBut(dir, dir', at)
<1>1. /\ Written(dir') = Written(dir) /\ offset \in Written(dir)
      /\ \A p \in Written(dir) : p <= offset /\ p # at
  BY ShrunkChain
<1>2. /\ dir \in DirType /\ Chained(dir, dir.size) /\ offset \in Nat /\ at \in Nat /\ offset < at
  <2>1. phase = "shrink" /\ Aimed /\ Shrinking /\ Placed /\ dir \in DirType
    BY DEF StoreShrunk, TypeInv, TypeOK, Writing
  <2>2. Chained(dir, dir.size)
    BY <2>1 DEF Chain
  <2>. QED
    BY <2>1, <2>2, Sizes DEF Aimed, Shrinking, Placed
<1>3. /\ dir' \in DirType /\ \A q \in Offsets : dir'.nam[q] = Left(dir.nam, offset, q)
      /\ \A p \in Written(dir) : /\ dir'.hdr[p].inode = dir.hdr[p].inode
                                 /\ dir'.hdr[p].name_len = dir.hdr[p].name_len
  BY ShrunkFacts DEF Written
<1>4. ASSUME NEW p \in Written(dir), NEW n \in DOMAIN NameLen, p + Header \in Offsets,
             NameLen[n] = dir.hdr[p].name_len
      PROVE  dir.nam[p + Header] = n <=> dir'.nam[p + Header] = n
  <2>1. p \in Nat /\ p <= offset /\ NameLen[n] \in Nat
    BY <1>1, Sizes, NameFacts DEF Written
  <2>2. p = offset \/ p + Header + NameLen[n] <= offset
    <3>1. SUFFICES ASSUME p < offset PROVE p + Header + NameLen[n] <= offset
      BY <1>2, <2>1
    <3>2. /\ p + dir.hdr[p].rec_len <= offset /\ dir.hdr[p].rec_len >= Header + dir.hdr[p].name_len
          /\ dir.hdr[p].rec_len \in Nat
      BY <1>1, <1>2, <3>1, ChainedAt
    <3>. QED
      BY <1>2, <1>4, <2>1, <3>2 DEF Header
  <2>3. dir'.nam[p + Header] = Left(dir.nam, offset, p + Header)
    BY <1>3, <1>4
  <2>. QED
    BY <1>2, <1>3, <1>4, <2>1, <2>2, <2>3, KeepsName
<1>5. \A p \in Written(dir), n \in DOMAIN NameLen : Has(dir, p, n) <=> Has(dir', p, n)
  BY <1>3, <1>4 DEF Has
<1>6. \A p \in Written(dir) : p <= at
  <2>1. \A p \in Written(dir) : p \in Nat
    BY Sizes DEF Written
  <2>. QED
    BY <1>1, <1>2, <2>1
<1>. QED
  BY <1>1, <1>3, <1>5, <1>6 DEF SameBut

\* The new header lies behind every name.
LEMMA HeaderNames ==
  ASSUME TypeInv, Chain, StoreHeader, ~grown
  PROVE  SameBut(dir, dir', at)
<1>1. /\ Written(dir') = Written(dir) \cup {at} /\ \A p \in Written(dir) : p < at
  BY HeaderChain
<1>2. dir \in DirType /\ Chained(dir, at) /\ at \in Nat
  <2>1. phase = "header" /\ Aimed /\ dir \in DirType
    BY DEF StoreHeader, TypeInv, TypeOK, Writing
  <2>. QED
    BY <2>1, Sizes DEF Chain, Aimed
<1>3. /\ dir' \in DirType /\ \A q \in Offsets : dir'.nam[q] = Left(dir.nam, at, q)
      /\ \A p \in Offsets \ {at} : dir'.hdr[p] = dir.hdr[p]
  BY HeaderStored
<1>4. \A p \in Written(dir) : p \in Nat /\ p \in Offsets /\ p # at /\ dir'.hdr[p] = dir.hdr[p]
  BY <1>1, <1>2, <1>3, Sizes DEF Written
<1>5. ASSUME NEW p \in Written(dir), NEW n \in DOMAIN NameLen, p + Header \in Offsets,
             NameLen[n] = dir.hdr[p].name_len
      PROVE  dir.nam[p + Header] = n <=> dir'.nam[p + Header] = n
  <2>1. /\ p \in Nat /\ NameLen[n] \in Nat /\ dir.hdr[p].rec_len \in Nat
        /\ p + dir.hdr[p].rec_len <= at /\ dir.hdr[p].rec_len >= Header + dir.hdr[p].name_len
    BY <1>2, <1>4, ChainedAt, NameFacts
  <2>2. p + Header + NameLen[n] <= at
    BY <1>2, <1>5, <2>1 DEF Header
  <2>3. dir'.nam[p + Header] = Left(dir.nam, at, p + Header)
    BY <1>3, <1>5
  <2>. QED
    BY <1>2, <1>3, <1>5, <2>1, <2>2, <2>3, KeepsName
<1>6. \A p \in Written(dir), n \in DOMAIN NameLen : Has(dir, p, n) <=> Has(dir', p, n)
  BY <1>4, <1>5 DEF Has
<1>7. \A p \in Written(dir) \cup Written(dir') : p <= at
  BY <1>1, <1>2, <1>4
<1>8. Written(dir) \ {at} = Written(dir') \ {at}
  BY <1>1
<1>. QED
  BY <1>4, <1>6, <1>7, <1>8 DEF SameBut

\* The name goes behind the new header.
LEMMA NameNames ==
  ASSUME TypeInv, Chain, StoreName, ~grown
  PROVE  SameBut(dir, dir', at) /\ Written(dir') = Written(dir)
<1>1. /\ dir' \in DirType /\ dir'.size = dir.size /\ dir'.hdr = dir.hdr
      /\ \A q \in Offsets \ {at + Header} : dir'.nam[q] = dir.nam[q]
  BY NameStored
<1>2. /\ phase = "name" /\ dir \in DirType /\ dir.size \in Nat /\ Chained(dir, dir.size)
      /\ at \in Written(dir) /\ dir.hdr[at] = NewEntry(dir.size - at)
  BY DEF StoreName, TypeInv, TypeOK, DirType, Chain
<1>3. Written(dir') = Written(dir)
  BY <1>1 DEF Written
<1>4. \A p \in Written(dir) : p \in Nat /\ p <= at /\ at \in Nat
  <2>1. dir.hdr[at].rec_len = dir.size - at /\ at \in Nat
    <3>1. NewEntry(dir.size - at).rec_len = dir.size - at
      BY DEF NewEntry
    <3>2. at \in Nat
      BY <1>2, Sizes DEF Written
    <3>. QED
      BY <1>2, <3>1, <3>2
  <2>2. at + dir.hdr[at].rec_len = dir.size
    BY <1>2, <2>1
  <2>3. \A p \in Written(dir) : p \in Nat /\ p < dir.size /\ (at < p => dir.size <= p)
    BY <1>2, <2>2, ChainedAt
  <2>. QED
    BY <1>2, <2>1, <2>3
<1>5. ASSUME NEW p \in Written(dir) \ {at}, NEW n \in DOMAIN NameLen
      PROVE  Has(dir, p, n) <=> Has(dir', p, n)
  <2>1. p + Header # at + Header
    BY <1>4 DEF Header
  <2>. QED
    BY <1>1, <2>1 DEF Has
<1>. QED
  BY <1>1, <1>3, <1>4, <1>5 DEF SameBut

\* What a store that changes only the record at at does to the names.
LEMMA NamesKept ==
  ASSUME Named, SameBut(dir, dir', at), at \in Nat, phase \in Writing, name \in Names,
         made \in Nat, \A n \in Names : added[n] \in Nat,
         at \in Written(dir) => dir.hdr[at].inode = made,
         UNCHANGED <<name, at, added, made>>,
         phase' \in {"header", "name", "close", "overrun"},
         phase' = "header" => at \notin Written(dir'),
         phase' = "close" => dir'.nam[at + Header] = name
  PROVE  Named'
<1>1. \A n \in Names : added'[n] <= made' /\ added'[n] < made'
  BY DEF Named
<1>2. ASSUME NEW n \in Names, added'[n] # 0 PROVE Holds(dir', n, added'[n])
  <2>1. Holds(dir, n, added[n]) /\ added[n] < made
    BY <1>2 DEF Named
  <2>2. at \in Written(dir) => dir.hdr[at].inode # added[n]
    BY <2>1
  <2>3. Holds(dir', n, added[n])
    BY <2>1, <2>2, NameFacts, HoldsSame
  <2>. QED
    BY <2>3
<1>3. ASSUME NEW o \in Written(dir'), Has(dir', o, name), ~Hidden(dir', o) PROVE o = at
  <2>1. SUFFICES ASSUME o # at PROVE FALSE
    OBVIOUS
  <2>2. o \in Nat /\ o <= at /\ name \in DOMAIN NameLen
    BY NameFacts, Sizes DEF Written, SameBut
  <2>3. o \in Written(dir) /\ Has(dir, o, name)
    BY <1>3, <2>1, <2>2 DEF SameBut
  <2>4. Hidden(dir, o)
    BY <2>1, <2>3 DEF Named
  <2>5. o < at
    BY <2>1, <2>2
  <2>. QED
    BY <1>3, <2>2, <2>4, <2>5, HiddenSame
<1>4. ASSUME phase' \in Writing, NEW o \in Written(dir'), Has(dir', o, name'), ~Hidden(dir', o)
      PROVE  phase' \in {"name", "close"} /\ o = at'
  BY <1>3, <1>4 DEF Writing
<1>. QED
  BY <1>1, <1>2, <1>4, NamedNext DEF Writing

LEMMA NameStore ==
  ASSUME TypeInv, ChainInv, NameInv, StoreShrunk \/ StoreHeader \/ StoreName
  PROVE  NameInv'
<1>1. /\ UNCHANGED <<name, at, added, made, grown>> /\ phase \in Writing
      /\ phase' \in {"header", "name", "close", "overrun"}
  BY DEF StoreShrunk, StoreHeader, StoreName, Copied, Writing, hist
<1>2. SUFFICES ASSUME ~grown PROVE Named'
  BY <1>1 DEF NameInv
<1>3. Named /\ Chain /\ at \in Nat /\ name \in Names
  BY <1>1, <1>2, Sizes DEF NameInv, ChainInv, TypeInv, Aimed, Placed
<1>4. made \in Nat /\ \A n \in Names : added[n] \in Nat
  BY Sizes DEF TypeInv, TypeOK
<1>5. CASE StoreShrunk
  <2>1. SameBut(dir, dir', at) /\ at \notin Written(dir) /\ at \notin Written(dir')
    BY <1>3, <1>5, ShrunkNames, ShrunkChain
  <2>2. phase' # "close"
    BY <1>5 DEF StoreShrunk, Copied
  <2>. QED
    BY <1>1, <1>3, <1>4, <2>1, <2>2, NamesKept
<1>6. CASE StoreHeader
  <2>1. SameBut(dir, dir', at)
    BY <1>2, <1>3, <1>6, HeaderNames
  <2>2. \A p \in Written(dir) : p < at
    BY <1>2, <1>3, <1>6, HeaderChain
  <2>3. at \notin Written(dir)
    BY <1>3, <2>2
  <2>4. phase' \notin {"header", "close"}
    BY <1>6 DEF StoreHeader, Copied
  <2>. QED
    BY <1>1, <1>3, <1>4, <2>1, <2>3, <2>4, NamesKept
<1>7. CASE StoreName
  <2>1. SameBut(dir, dir', at)
    BY <1>2, <1>3, <1>7, NameNames
  <2>2. dir.hdr[at].inode = made
    BY <1>3, <1>7 DEF Chain, StoreName, NewEntry
  <2>3. dir'.nam[at + Header] = name
    BY <1>2, <1>7, NameStored
  <2>4. phase' = "close"
    BY <1>7 DEF StoreName
  <2>. QED
    BY <1>1, <1>3, <1>4, <2>1, <2>2, <2>3, <2>4, NamesKept
<1>. QED
  BY <1>5, <1>6, <1>7

LEMMA NameDone ==
  ASSUME TypeInv, ChainInv, NameInv, Done
  PROVE  NameInv'
<1>1. /\ phase = "close" /\ phase' = "idle" /\ UNCHANGED <<made, grown>>
      /\ dir' = (IF first THEN Replaced ELSE dir) /\ added' = [added EXCEPT ![name] = made]
  BY DEF Done
<1>2. SUFFICES ASSUME ~grown PROVE Named'
  BY <1>1 DEF NameInv
<1>3. Named /\ Chain /\ dir' = dir
  BY <1>1, <1>2 DEF NameInv, ChainInv, TypeInv
<1>4. /\ name \in Names /\ made \in Nat /\ added \in [Names -> 0 .. MaxFiles]
      /\ at + Header \in Offsets
  <2>1. TypeOK /\ Placed /\ Aimed
    BY <1>1 DEF TypeInv, Writing
  <2>. QED
    BY <2>1, Sizes DEF TypeOK, Placed, Aimed
<1>5. Holds(dir, name, made)
  <2>1. at \in Written(dir) /\ dir.hdr[at].inode = made /\ dir.hdr[at].name_len = NameLen[name]
    BY <1>1, <1>3 DEF Chain, NewEntry
  <2>2. Has(dir, at, name)
    BY <1>1, <1>3, <1>4, <2>1 DEF Has, Named
  <2>3. ASSUME NEW p \in Written(dir), p < at, Has(dir, p, name) PROVE Hidden(dir, at)
    <3>1. p \in Nat /\ at \in Nat /\ p # at
      BY <2>1, <2>3, Sizes DEF Written
    <3>2. Hidden(dir, p)
      BY <1>1, <1>3, <2>3, <3>1 DEF Named, Writing
    <3>3. PICK r \in Written(dir) : r <= p /\ dir.hdr[r].inode = 0
      BY <3>2 DEF Hidden
    <3>4. r \in Nat
      BY Sizes DEF Written
    <3>5. r <= at
      BY <2>3, <3>1, <3>3, <3>4
    <3>. QED
      BY <3>3, <3>5 DEF Hidden
  <2>. QED
    BY <2>1, <2>2, <2>3 DEF Holds
<1>6. ASSUME NEW n \in Names
      PROVE  added'[n] <= made' /\ (added'[n] # 0 => Holds(dir', n, added'[n]))
  <2>1. CASE n = name
    <3>1. added'[n] = made
      BY <1>1, <1>4, <2>1
    <3>. QED
      BY <1>1, <1>3, <1>4, <1>5, <2>1, <3>1
  <2>2. CASE n # name
    <3>1. added'[n] = added[n]
      BY <1>1, <1>4, <2>2
    <3>. QED
      BY <1>1, <1>3, <3>1 DEF Named
  <2>. QED
    BY <2>1, <2>2
<1>. QED
  BY <1>1, <1>6, NamedNext DEF Writing

LEMMA NameStep ==
  ASSUME TypeInv, ChainInv, NameInv, [Next]_vars
  PROVE  NameInv'
<1>1. CASE UNCHANGED vars
  <2>1. UNCHANGED <<dir, phase, name, at, made, added, grown>>
    BY <1>1 DEF vars, hist
  <2>2. Named => Named'
    BY <2>1, NamedNext DEF Named
  <2>. QED
    BY <2>1, <2>2 DEF NameInv
<1>2. CASE OverwriteLastBlock \/ ReplaceFirstBlock
  BY <1>2 DEF OverwriteLastBlock, ReplaceFirstBlock, NewBlock, NameInv
<1>3. CASE Next /\ ~(OverwriteLastBlock \/ ReplaceFirstBlock)
  BY <1>3, NameOpen, NameQuiet, NameStore, NameDone DEF Next, ext2_append_to_directory
<1>. QED
  BY <1>1, <1>2, <1>3

\* No append takes an earlier entry away, finished, under way or interrupted by
\* a power failure after any of its stores: what ext2_open created is in the
\* chain with its name and its inode, and a lookup of the name returns that
\* inode, unless a record without an inode lies before it.
THEOREM NamesStay == Spec => []NothingLost
<1>1. Init => NameInv
  BY NameInit
<1>2. TypeInv /\ ChainInv /\ NameInv /\ [Next]_vars => NameInv'
  BY NameStep
<1>3. TypeInv /\ ChainInv /\ NameInv => NothingLost
  BY NamesFound
<1>. QED
  BY <1>1, <1>2, <1>3, ChainAlways, PTL DEF Spec

=============================================================================
