-------------------------- MODULE ImageDiskProofs --------------------------
(***************************************************************************)
(* Theorems about ImageDisk, for every width of blockno_t that is a        *)
(* multiple of the sector size, every image and every partition table.     *)
(***************************************************************************)
EXTENDS ImageDisk, TLAPS

(***************************************************************************)
(* Arithmetic that wraps.                                                  *)
(***************************************************************************)

\* Quotient and remainder of a number in the form they are looked for.
LEMMA DivMod ==
  ASSUME NEW k \in Nat \ {0}, NEW g \in Nat, NEW r \in 0 .. k - 1, NEW x, x = k * g + r
  PROVE  x \div k = g /\ x % k = r
  OBVIOUS

\* A number is made of its quotient and its remainder.
LEMMA DivModSplit ==
  ASSUME NEW k \in Nat \ {0}, NEW a \in Nat
  PROVE  a \div k \in Nat /\ a % k \in 0 .. k - 1 /\ k * (a \div k) + (a % k) = a
  OBVIOUS

\* A small number is its own remainder.
LEMMA ModSmall ==
  ASSUME NEW k \in Nat \ {0}, NEW x \in 0 .. k - 1
  PROVE  x % k = x
  OBVIOUS

\* Multiplication is monotonic.
LEMMA Monotonic ==
  ASSUME NEW k \in Nat, NEW a \in Int, NEW b \in Int, a <= b
  PROVE  k * a <= k * b
  OBVIOUS

\* The part of SizeAssumption that is linear.
LEMMA Sizes ==
  /\ Width \in Nat \ {0} /\ BLOCK_SIZE \in Nat \ {0}
  /\ MaxImage \in Nat /\ MaxImage <= Width
  BY SizeAssumption

\* The offset of any block number is that of a whole sector below 2^32, and
\* the range check looks at the last byte of that sector: both computations
\* wrap at the same place.
LEMMA WrapsAlike ==
  ASSUME NEW block \in Nat
  PROVE  /\ SectorAt(block) \in Nat
         /\ OffsetOf(block) = BLOCK_SIZE * SectorAt(block)
         /\ InImage(block) <=> OffsetOf(block) + BLOCK_SIZE - 1 <= block_fs_size
<1>. DEFINE q == Width \div BLOCK_SIZE
            r == block % q
            a == block \div q
<1>1. q \in Nat \ {0} /\ Width = BLOCK_SIZE * q
  <2>1. q \in Nat /\ BLOCK_SIZE * q + (Width % BLOCK_SIZE) = Width
    BY DivModSplit, SizeAssumption
  <2>2. BLOCK_SIZE * q = Width
    BY <2>1, SizeAssumption
  <2>3. q # 0
    BY <2>2, SizeAssumption
  <2>. QED
    BY <2>1, <2>2, <2>3
<1>. HIDE DEF q
<1>2. a \in Nat /\ r \in 0 .. q - 1 /\ block = q * a + r
  BY <1>1, DivModSplit
<1>. HIDE DEF a, r
<1>3. /\ BLOCK_SIZE * r \in Nat
      /\ BLOCK_SIZE * r + BLOCK_SIZE <= Width
  <2>1. BLOCK_SIZE * (r + 1) <= BLOCK_SIZE * q
    BY <1>1, <1>2, Monotonic, SizeAssumption
  <2>. QED
    BY <2>1, <1>1, <1>2, SizeAssumption
<1>4. block * BLOCK_SIZE = Width * a + BLOCK_SIZE * r
  BY <1>1, <1>2, SizeAssumption
<1>. DEFINE c == BLOCK_SIZE * r
<1>5. c \in 0 .. Width - 1 /\ c + BLOCK_SIZE - 1 \in 0 .. Width - 1
  BY <1>3, SizeAssumption
<1>6. c \div BLOCK_SIZE = r
  BY <1>2, DivMod, SizeAssumption
<1>7. (block + 1) * BLOCK_SIZE - 1 = Width * a + (c + BLOCK_SIZE - 1)
  BY <1>4, <1>2, <1>1, SizeAssumption
<1>. HIDE DEF c
<1>8. OffsetOf(block) = c
  BY <1>2, <1>4, <1>5, DivMod, SizeAssumption DEF OffsetOf, c
<1>9. SectorAt(block) = r
  BY <1>6, <1>8 DEF SectorAt
<1>10. ((block + 1) * BLOCK_SIZE - 1) % Width = c + BLOCK_SIZE - 1
  BY <1>2, <1>5, <1>7, DivMod, SizeAssumption
<1>. QED
  BY <1>2, <1>8, <1>9, <1>10 DEF InImage, c

\* A block number of the image does not wrap: it is the sector it names.
LEMMA NoWrapInImage ==
  ASSUME NEW block \in Nat, block * BLOCK_SIZE < Width
  PROVE  SectorAt(block) = block /\ OffsetOf(block) = BLOCK_SIZE * block
<1>. DEFINE c == block * BLOCK_SIZE
<1>1. c \in 0 .. Width - 1 /\ c = BLOCK_SIZE * block
  BY SizeAssumption
<1>2. c \div BLOCK_SIZE = block
  BY DivMod, SizeAssumption
<1>. HIDE DEF c
<1>3. c % Width = c
  BY <1>1, ModSmall, Sizes
<1>. QED
  BY <1>1, <1>2, <1>3 DEF SectorAt, OffsetOf, c

(***************************************************************************)
(* The inductive invariant.  Requests are made only for sectors of listed  *)
(* partitions, and what makes an entry of the list one of the table's that *)
(* passed the test has to be carried along with the properties.            *)
(***************************************************************************)

\* A driver that is ready has the image it was made from.
Loaded ==
  ready => /\ block_fs_size = image.size /\ image.size < MaxImage
           /\ wrote \in [0 .. image.size \div BLOCK_SIZE -> Values \cup {NoValue}]

\* The list is made of valid entries of the table, at most one for each entry
\* that was looked at.
ListSound ==
  /\ retval \in Seq(Entries)
  /\ Len(retval) <= IF entry = 0 THEN Len(image.table) ELSE entry - 1
  /\ entry # 0 \/ retval # <<>> => ready
  /\ \A i \in DOMAIN retval :
       Valid(retval[i]) /\ \E j \in DOMAIN image.table : retval[i] = image.table[j]

\* The last request was for a block number and passed the check if it was served.
LastSound ==
  /\ last.asked \in Blockno \cup {-1}
  /\ last.asked # -1 => ready
  /\ last.ok => last.asked # -1 /\ InImage(last.asked)

IInv ==
  /\ image \in [size : ImageSizes, table : Tables] /\ ready \in BOOLEAN
  /\ TypeOK /\ Loaded /\ ListSound /\ LastSound
  /\ Served /\ ReadsBack

\* The facts about the image and its table that every step keeps.
LEMMA TableFacts ==
  ASSUME IInv
  PROVE  /\ image.size \in Nat /\ image.table \in Seq(Entries)
         /\ Len(image.table) \in Nat \ {0}
         /\ 0 .. image.size \div BLOCK_SIZE # {}
<1>1. image.size \in Nat /\ image.table \in Seq(Entries) /\ image.table # <<>>
  BY SizeAssumption DEF IInv
<1>2. image.size \div BLOCK_SIZE \in Nat
  BY <1>1, DivModSplit, SizeAssumption
<1>. QED
  BY <1>1, <1>2

\* The initial states satisfy the invariant.
LEMMA ImageInit == Init => IInv
<1>. SUFFICES ASSUME Init PROVE IInv
  OBVIOUS
<1>1. image.table \in Seq(Entries) /\ Len(image.table) \in Nat
  BY SizeAssumption DEF Init
<1>2. TypeOK /\ Loaded
  BY <1>1 DEF Init, TypeOK, Loaded, NoRequest
<1>3. ListSound
  BY <1>1 DEF Init, ListSound
<1>4. LastSound /\ Served /\ ReadsBack
  BY DEF Init, LastSound, Served, ReadsBack, NoRequest
<1>. QED
  BY <1>2, <1>3, <1>4 DEF Init, IInv

\* A sector of a listed partition, asked for as start + n.
LEMMA ListedSector ==
  ASSUME IInv, ready, NoneWraps,
         NEW i \in DOMAIN retval, NEW n \in 0 .. retval[i].length - 1
  PROVE  LET block == (retval[i].lba_start + n) % Width
         IN  /\ InImage(block)
             /\ SectorAt(block) = block
             /\ block \in 0 .. image.size \div BLOCK_SIZE
<1>. DEFINE e == retval[i]
            v == block_fs_size \div BLOCK_SIZE
<1>1. e \in Entries /\ Valid(e) /\ e.lba_start + e.length < Width
  BY DEF IInv, ListSound, NoneWraps
<1>2. block_fs_size = image.size /\ image.size \in Nat /\ image.size < Width
  BY TableFacts, SizeAssumption DEF IInv, Loaded
<1>3. v \in Nat /\ BLOCK_SIZE * v <= block_fs_size
  <2>1. /\ v \in Nat /\ block_fs_size % BLOCK_SIZE \in 0 .. BLOCK_SIZE - 1
        /\ BLOCK_SIZE * v + (block_fs_size % BLOCK_SIZE) = block_fs_size
    BY <1>2, DivModSplit, Sizes
  <2>. HIDE DEF v
  <2>. QED
    BY <2>1, <1>2, Sizes
<1>. DEFINE sum == e.lba_start + e.length
            block == e.lba_start + n
<1>4. sum \in 0 .. Width - 1 /\ block \in 0 .. sum - 1
  BY <1>1, SizeAssumption DEF Entries, Blockno
<1>5. sum % Width <= v
  BY <1>1 DEF Valid, block_get_volume_size
<1>. HIDE DEF e, v
<1>6. sum <= v
  <2>. HIDE DEF sum
  <2>. QED
    BY <1>3, <1>4, <1>5, ModSmall, Sizes
<1>7. block % Width = block
  <2>1. block \in 0 .. Width - 1
    BY <1>4, Sizes
  <2>. HIDE DEF block
  <2>. QED
    BY <2>1, ModSmall, Sizes
<1>8. block \in Nat /\ block + 1 <= v
  BY <1>3, <1>4, <1>6
<1>. HIDE DEF block
<1>9. BLOCK_SIZE * (block + 1) <= BLOCK_SIZE * v
  BY <1>3, <1>8, Monotonic, SizeAssumption
<1>10. BLOCK_SIZE * block + BLOCK_SIZE <= block_fs_size
  BY <1>3, <1>8, <1>9, <1>2, SizeAssumption
<1>11. SectorAt(block) = block /\ OffsetOf(block) = BLOCK_SIZE * block
  <2>1. block * BLOCK_SIZE < Width
    BY <1>2, <1>8, <1>10, SizeAssumption
  <2>. QED
    BY <2>1, <1>8, NoWrapInImage
<1>12. InImage(block)
  <2>1. InImage(block) <=> OffsetOf(block) + BLOCK_SIZE - 1 <= block_fs_size
    BY <1>8, WrapsAlike
  <2>. QED
    BY <2>1, <1>2, <1>8, <1>10, <1>11, Sizes
<1>13. block \in 0 .. image.size \div BLOCK_SIZE
  BY <1>2, <1>3, <1>8 DEF v
<1>. QED
  BY <1>7, <1>11, <1>12, <1>13 DEF block, e

\* Every step keeps the invariant.
LEMMA ImageNext == IInv /\ [Next]_vars => IInv'
<1>. SUFFICES ASSUME IInv, [Next]_vars PROVE IInv'
  OBVIOUS
<1>0. /\ image.size \in Nat /\ image.table \in Seq(Entries)
      /\ Len(image.table) \in Nat \ {0}
      /\ 0 .. image.size \div BLOCK_SIZE # {}
  BY TableFacts
<1>1. CASE block_init
  <2>. USE <1>1 DEF block_init
  <2>1. image' = image /\ retval' = retval /\ entry' = entry /\ retval = <<>> /\ entry = 0
    BY DEF IInv, ListSound
  <2>2. TypeOK' /\ ready' \in BOOLEAN
    <3>1. DOMAIN Blank(image.size) # {} /\ DOMAIN <<>> = {}
      BY <1>0 DEF Blank
    <3>2. Blank(image.size) \in [0 .. image.size \div BLOCK_SIZE -> Values \cup {NoValue}]
      BY DEF Blank
    <3>3. Blank(image.size) # <<>>
      BY <3>1
    <3>4. CASE blocks' = Blank(image.size) /\ ready' = TRUE
      BY <3>4, <1>0, <2>1, <3>2, <3>3 DEF IInv, TypeOK, NoRequest
    <3>5. CASE UNCHANGED <<blocks, ready>>
      BY <3>5, <1>0, <2>1 DEF IInv, TypeOK, NoRequest
    <3>. QED
      BY <3>4, <3>5
  <2>3. Loaded'
    BY <1>0, <2>1 DEF IInv, Loaded, Blank
  <2>4. ListSound'
    BY <1>0, <2>1 DEF IInv, ListSound
  <2>5. LastSound' /\ Served'
    BY DEF LastSound, Served, NoRequest
  <2>6. ReadsBack'
    BY DEF IInv, ReadsBack, Blank
  <2>. QED
    BY <2>1, <2>2, <2>3, <2>4, <2>5, <2>6 DEF IInv
<1>2. CASE block_halt
  <2>. USE <1>2 DEF block_halt
  <2>1. TypeOK' /\ Loaded'
    BY <1>0 DEF IInv, TypeOK, Loaded, NoRequest
  <2>2. ListSound'
    BY <1>0 DEF IInv, ListSound
  <2>3. LastSound' /\ Served' /\ ReadsBack'
    BY DEF LastSound, Served, ReadsBack, NoRequest
  <2>. QED
    BY <2>1, <2>2, <2>3 DEF IInv
<1>3. CASE read_partition_table
  <2>. USE <1>3 DEF read_partition_table
  <2>1. TypeOK' /\ Loaded'
    BY <1>0 DEF IInv, TypeOK, Loaded, NoRequest, Emptied
  <2>2. ListSound'
    BY <1>0 DEF IInv, ListSound, Emptied
  <2>3. LastSound' /\ Served' /\ ReadsBack'
    BY DEF IInv, LastSound, Served, ReadsBack, NoRequest, NoneWraps
  <2>. QED
    BY <2>1, <2>2, <2>3 DEF IInv
<1>4. CASE LookAtEntry
  <2>. USE <1>4 DEF LookAtEntry
  <2>. DEFINE e == image.table[entry]
  <2>1. entry \in 1 .. Len(image.table) /\ e \in Entries /\ entry \in DOMAIN image.table
    BY <1>0 DEF IInv, TypeOK
  <2>2. /\ retval' \in Seq(Entries) /\ Len(retval') <= entry
        /\ \A i \in DOMAIN retval' : \/ retval'[i] = e /\ Valid(e)
                                     \/ i \in DOMAIN retval /\ retval'[i] = retval[i]
    <3>1. retval \in Seq(Entries) /\ Len(retval) <= entry - 1
      BY <2>1 DEF IInv, ListSound
    <3>2. CASE Valid(e)
      <4>1. retval' = Append(retval, e)
        BY <3>2
      <4>. QED
        BY <2>1, <3>1, <3>2, <4>1
    <3>3. CASE ~Valid(e)
      <4>1. retval' = retval
        BY <3>3
      <4>. QED
        BY <2>1, <3>1, <4>1
    <3>. QED
      BY <3>2, <3>3
  <2>3. TypeOK' /\ Loaded'
    BY <1>0, <2>1, <2>2 DEF IInv, TypeOK, Loaded
  <2>4. ListSound'
    <3>1. Len(retval') <= IF entry' = 0 THEN Len(image'.table) ELSE entry' - 1
      BY <1>0, <2>1, <2>2
    <3>2. ready'
      BY DEF IInv, ListSound
    <3>3. ASSUME NEW i \in DOMAIN retval'
          PROVE  Valid(retval'[i]) /\ \E j \in DOMAIN image.table : retval'[i] = image.table[j]
      BY <2>1, <2>2 DEF IInv, ListSound
    <3>4. \A x : Valid(x)' <=> Valid(x)
      BY DEF Valid, block_get_volume_size
    <3>. QED
      BY <2>2, <3>1, <3>2, <3>3, <3>4 DEF ListSound
  <2>5. LastSound' /\ Served' /\ ReadsBack'
    BY DEF IInv, LastSound, Served, ReadsBack, NoneWraps, InImage
  <2>. QED
    BY <2>3, <2>4, <2>5 DEF IInv
<1>5. CASE Request
  <2>. USE <1>5
  <2>0. PICK i \in DOMAIN retval : \E n \in 0 .. retval[i].length - 1 :
          LET b == (retval[i].lba_start + n) % Width
          IN  block_read(b) \/ \E v \in Values : block_write(b, v)
    BY DEF Request
  <2>1. PICK n \in 0 .. retval[i].length - 1 :
          LET b == (retval[i].lba_start + n) % Width
          IN  block_read(b) \/ \E v \in Values : block_write(b, v)
    BY <2>0
  <2>2. ready /\ entry = 0
    BY DEF Request
  <2>3. PICK b \in Blockno : b = (retval[i].lba_start + n) % Width
    <3>1. retval[i] \in Entries
      BY DEF IInv, ListSound
    <3>2. retval[i].lba_start + n \in Nat
      BY <3>1 DEF Entries, Blockno
    <3>3. (retval[i].lba_start + n) % Width \in 0 .. Width - 1
      BY <3>2, DivModSplit, Sizes
    <3>. QED
      BY <3>3 DEF Blockno
  <2>4. NoneWraps => /\ InImage(b) /\ SectorAt(b) = b
                     /\ b \in 0 .. image.size \div BLOCK_SIZE
    BY <2>2, <2>3, ListedSector
  <2>5. /\ image' = image /\ block_fs_size' = block_fs_size /\ ready' = ready
        /\ retval' = retval /\ entry' = entry
        /\ last'.asked = b /\ (last'.ok <=> InImage(b))
    <3>1. CASE block_read(b)
      BY <3>1 DEF block_read, InImage
    <3>2. CASE \E v \in Values : block_write(b, v)
      BY <3>2 DEF block_write
    <3>. QED
      BY <2>1, <2>3, <3>1, <3>2
  <2>6. (InImage(b)' <=> InImage(b)) /\ (NoneWraps' <=> NoneWraps)
    BY <2>5 DEF InImage, NoneWraps
  <2>7. ListSound'
    BY <2>5 DEF IInv, ListSound, Valid, block_get_volume_size
  <2>8. LastSound'
    <3>1. InImage(last.asked)' <=> InImage(b)'
      BY <2>5 DEF InImage
    <3>. QED
      BY <2>2, <2>3, <2>5, <2>6, <3>1, Sizes DEF LastSound, Blockno
  <2>9. Served'
    BY <2>4, <2>5, <2>6 DEF Served
  <2>10. TypeOK' /\ Loaded' /\ ReadsBack'
    <3>1. CASE block_read(b)
      <4>1. blocks' = blocks /\ wrote' = wrote
        BY <3>1 DEF block_read
      <4>2. last'.ok \in BOOLEAN
        BY <3>1 DEF block_read
      <4>. QED
        BY <2>5, <2>6, <4>1, <4>2 DEF IInv, TypeOK, Loaded, ReadsBack
    <3>2. ASSUME NEW v \in Values, block_write(b, v)
          PROVE  TypeOK' /\ Loaded' /\ ReadsBack'
      <4>. DEFINE D == 0 .. image.size \div BLOCK_SIZE
                  T == Values \cup {NoValue}
      <4>1. blocks \in [D -> T] /\ wrote \in [D -> T]
        BY <2>2 DEF IInv, TypeOK, Loaded
      <4>2. /\ blocks' = IF InImage(b) THEN [blocks EXCEPT ![SectorAt(b)] = v] ELSE blocks
            /\ wrote' = IF InImage(b) /\ b \in DOMAIN wrote
                        THEN [wrote EXCEPT ![b] = v] ELSE wrote
        BY <3>2 DEF block_write
      <4>3. blocks' \in [D -> T] /\ wrote' \in [D -> T]
        BY <4>1, <4>2
      <4>4. NoneWraps => \A s \in D : blocks'[s] = wrote'[s]
        BY <2>2, <2>4, <4>1, <4>2 DEF IInv, ReadsBack
      <4>5. last'.ok \in BOOLEAN
        BY <3>2 DEF block_write, InImage
      <4>6. D # {} /\ blocks' # <<>>
        <5>1. D # {} /\ DOMAIN blocks' = D
          BY <1>0, <4>3
        <5>2. DOMAIN <<>> = {}
          OBVIOUS
        <5>. QED
          BY <5>1, <5>2
      <4>. QED
        BY <2>2, <2>5, <2>6, <4>3, <4>4, <4>5, <4>6 DEF IInv, TypeOK, Loaded, ReadsBack
    <3>. QED
      BY <2>1, <2>3, <3>1, <3>2
  <2>. QED
    BY <2>2, <2>5, <2>7, <2>8, <2>9, <2>10 DEF IInv
<1>6. CASE UNCHANGED vars
  BY <1>6 DEF vars, IInv, TypeOK, Loaded, ListSound, LastSound, Served, ReadsBack,
              NoneWraps, Valid, block_get_volume_size, InImage
<1>. QED
  BY <1>1, <1>2, <1>3, <1>4, <1>5, <1>6 DEF Next

\* A request that passed the check ends within the image: the check lets the
\* sector's last byte be at most one byte behind it, and a whole sector ends
\* there only in an image that is one byte short.
LEMMA CheckedWithin == IInv => WithinImage
<1>. SUFFICES ASSUME IInv, last.ok, NotOneShort
              PROVE  OffsetOf(last.asked) + BLOCK_SIZE <= block_fs_size
  BY DEF WithinImage
<1>. DEFINE b == last.asked
            s == SectorAt(b)
<1>1. b \in Nat /\ InImage(b) /\ ready
  BY DEF IInv, LastSound, Blockno
<1>2. block_fs_size \in Nat
  BY <1>1, TableFacts DEF IInv, Loaded
<1>3. /\ s \in Nat /\ OffsetOf(b) = BLOCK_SIZE * s
      /\ OffsetOf(b) + BLOCK_SIZE - 1 <= block_fs_size
  BY <1>1, WrapsAlike
<1>. HIDE DEF b, s
<1>4. OffsetOf(b) + BLOCK_SIZE - 1 # block_fs_size
  <2>1. SUFFICES ASSUME block_fs_size = BLOCK_SIZE * s + (BLOCK_SIZE - 1) PROVE FALSE
    BY <1>2, <1>3, Sizes
  <2>2. PICK r \in 0 .. BLOCK_SIZE - 1 : r = BLOCK_SIZE - 1
    BY Sizes
  <2>3. block_fs_size % BLOCK_SIZE = BLOCK_SIZE - 1
    <3>1. block_fs_size = BLOCK_SIZE * s + r
      BY <2>1, <2>2
    <3>2. block_fs_size % BLOCK_SIZE = r
      BY <1>3, <3>1, DivMod, Sizes
    <3>. QED
      BY <2>2, <3>2
  <2>. QED
    BY <2>3 DEF NotOneShort
<1>5. OffsetOf(b) \in Nat
  BY <1>3, Sizes
<1>. QED
  BY <1>2, <1>3, <1>4, <1>5, Sizes DEF b

(***************************************************************************)
(* The theorems.                                                           *)
(***************************************************************************)

\* The inductive invariant holds in every reachable state.
THEOREM ImageInvariant == Spec => []IInv
<1>. QED
  BY ImageInit, ImageNext, PTL DEF Spec

\* Every variable has its type: the memory is there exactly while the driver is
\* ready, and read_partition_table never lists more than the table holds.
THEOREM ImageTypes == Spec => []TypeOK
<1>1. IInv => TypeOK
  BY DEF IInv
<1>. QED
  BY <1>1, ImageInvariant, PTL

\* read_partition_table and block_read or block_write agree on where the device
\* ends: if no entry wraps, every sector of every listed partition is served.
THEOREM ImageServed == Spec => []Served
<1>1. IInv => Served
  BY DEF IInv
<1>. QED
  BY <1>1, ImageInvariant, PTL

\* If no entry wraps, no write reaches the memory of another sector.
THEOREM ImageReadsBack == Spec => []ReadsBack
<1>1. IInv => ReadsBack
  BY DEF IInv
<1>. QED
  BY <1>1, ImageInvariant, PTL

\* Whichever entries wrap, block_read and block_write keep within the memory of
\* an image that is not one byte short of a whole sector.
THEOREM ImageWithin == Spec => []WithinImage
<1>. QED
  BY CheckedWithin, ImageInvariant, PTL
=============================================================================
