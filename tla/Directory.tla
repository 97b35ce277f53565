------------------------------ MODULE Directory ------------------------------
(***************************************************************************)
(* A directory as embext_directory.c and ext2_readdir see it: blocks, each *)
(* covered by a chain of records linked by rec_len.  ext2_open looks a     *)
(* name up and, if it is not there, ext2_append_to_directory walks the     *)
(* chain of the last block, shrinks its last record and puts the new one   *)
(* behind it, or starts a new block.                                       *)
(*                                                                         *)
(* Every write goes to the one-sector buffer of the handle, and            *)
(* ext2_load_buffer stores a dirty buffer before the next access, be it to *)
(* the same sector or another.  So the shrunk record, the new header and   *)
(* the name reach the volume one after the other, each with the store that *)
(* the access after it makes, and power may fail between any two.          *)
(*                                                                         *)
(* A header is kept at its byte offset, the name after it at its own       *)
(* offset; they may lie in different sectors.  Offsets are multiples of 4. *)
(***************************************************************************)
EXTENDS Integers, FiniteSets

CONSTANTS
  BlockSize,    \* ext2_block_size(context)
  SectorSize,   \* sizeof(fe->buffer.buffer)
  Chunk,        \* sizeof(buffer), what the new block is filled with at a time
  Names,        \* the names files are created with
  NameLen,      \* strlen of each name, those of the initial entries included
  Offsets,      \* the offsets a header or a name may have
  FirstDirs,    \* the directories of the initial volumes
  MaxFiles,     \* bound: files created
  MaxCrashes    \* bound: power failures

VARIABLES
  dir,      \* the directory on the volume: size, headers and names
  phase,    \* "idle", "scan" in the loop over the records, or what is in the
            \* buffer: the "shrink" of the last record, the new "header", the
            \* "name"; "close" once that is stored, "overrun" if it did not fit
  name,     \* the name being added
  offset,   \* last_block + this_offset in the loop
  at,       \* where the new entry goes
  first,    \* a new block is the first block of the handle's inode
  result,   \* what ext2_open found or made: an inode number, 0 if it failed
  made,     \* history: inodes allocated
  added,    \* history: the inode of every name whose append returned 0
  torn,     \* history: power failed between a shrunk record and the new one
  grown,    \* history: the new block path was taken
  crashes   \* history: power failures

hist == <<made, added, torn, grown, crashes>>
vars == <<dir, phase, name, offset, at, first, result, hist>>

Header  == 8                       \* sizeof(struct ext2_dir_header)
Unused  == [inode |-> 0, rec_len |-> 0, name_len |-> 0]
NoName  == "none"

HeaderType == [inode : 0 .. MaxFiles + 20, rec_len : 0 .. BlockSize, name_len : 0 .. 255]
DirType == [size : Nat, hdr : [Offsets -> HeaderType],
            nam : [Offsets -> DOMAIN NameLen \cup {NoName}]]

\* Mutant: the length of the name is rounded down.
RoundedDown(len) == (len \div 4) * 4 + Header

\* minimum_old_entry_len and minimum_new_entry_len
EntryLen(len) == (len \div 4 + (IF len % 4 # 0 THEN 1 ELSE 0)) * 4 + Header

\* An access of n bytes at o does not leave the sector in the buffer.
Within(o, n) == (o % SectorSize) + n <= SectorSize

\* The least record, with a name of one character, takes 12 bytes.  In the code
\* Chunk is 128, a block has at least 1024 bytes and an entry at most 264.
ASSUME SizeAssumption ==
  /\ SectorSize \in Nat /\ SectorSize >= Header /\ BlockSize % SectorSize = 0 /\ BlockSize \div SectorSize > 1
  /\ BlockSize \in Nat /\ BlockSize % 4 = 0 /\ Chunk \in Nat \ {0} /\ Chunk % 4 = 0
  /\ NoName \notin DOMAIN NameLen /\ Names \subseteq DOMAIN NameLen
  /\ \A n \in DOMAIN NameLen : NameLen[n] \in 1 .. 255
  /\ \A n \in Names : Chunk + EntryLen(NameLen[n]) + 12 <= BlockSize
  /\ Offsets \subseteq Nat /\ \A o \in Offsets : o % 4 = 0
  /\ MaxFiles \in Nat /\ MaxCrashes \in Nat

\* The headers there are in a directory, and the beginnings of its blocks.
Written(d) == {o \in Offsets : o < d.size /\ d.hdr[o].rec_len # 0}
Starts(d)  == {o \in Offsets : o < d.size /\ o % BlockSize = 0}

\* The records of a directory form one chain from 0 to end: a record begins at
\* every block and wherever another ends, none reaches into the next or is too
\* short for its name, and there are no headers but theirs.
Chained(d, end) ==
  /\ Starts(d) \subseteq Written(d)
  /\ \A o \in Offsets \ Written(d) : o < d.size => d.hdr[o].inode = 0
  /\ \A o \in Written(d) :
       /\ d.hdr[o].rec_len >= Header + d.hdr[o].name_len
       /\ o + d.hdr[o].rec_len \in Written(d) \cup {end}
       /\ o + d.hdr[o].rec_len <= end
       /\ \A p \in Written(d) : o < p => o + d.hdr[o].rec_len <= p
       /\ o # 0 => \E p \in Written(d) : p + d.hdr[p].rec_len = o

\* Neither a header nor a name leaves its sector.  A header that does, 4 bytes
\* before the end of one, would be read and shrunk past the end of the buffer.
Readable(d) ==
  \A o \in Written(d) : Within(o, Header) /\ Within(o + Header, d.hdr[o].name_len)

\* Whoever made the volume left whole blocks of such records, none of which
\* ends off a multiple of 4 or begins where the least record does not fit, and
\* zeros behind their names.
ASSUME DirsAssumption ==
  \A d \in FirstDirs :
    /\ d \in DirType /\ d.size % BlockSize = 0 /\ Chained(d, d.size) /\ Readable(d)
    /\ \A o \in 0 .. d.size + Chunk - 1 : o % 4 = 0 => o \in Offsets
    /\ \A o \in Written(d) : o + 12 <= d.size /\ d.hdr[o].rec_len % 4 = 0

Init ==
  /\ dir \in FirstDirs
  /\ phase = "idle"
  /\ name = NoName
  /\ offset = 0
  /\ at = 0
  /\ first = FALSE
  /\ result = 0
  /\ made = 0
  /\ added = [n \in Names |-> 0]
  /\ torn = FALSE
  /\ grown = FALSE
  /\ crashes = 0

(***************************************************************************)
(* Reading.                                                                *)
(***************************************************************************)

\* Mutant: the reader takes records to be as short as they can be.
PackedNext(o) == o + Header + dir.hdr[o].name_len

\* Where ext2_readdir leaves the cursor after the record at o.
NextEntry(o) == o + dir.hdr[o].rec_len

\* Where a walk comes that begins at start and goes on from o to next[o] until
\* next says no more: the least set that is closed under it.
Visited(next, start) ==
  LET closed == {S \in SUBSET DOMAIN next :
                   /\ start \in DOMAIN next => start \in S
                   /\ \A o \in S : next[o] \in DOMAIN next => next[o] \in S}
  IN  {o \in DOMAIN next : \A S \in closed : o \in S}

\* The records ext2_readdir returns one after the other: it ends with the file,
\* and at the first record without an inode.
Listed ==
  LET used == {o \in Offsets : o < dir.size /\ dir.hdr[o].inode # 0}
  IN  Visited([o \in used |-> NextEntry(o)], 0)

\* The record at o carries the name n, all of it.
Carries(o, n) ==
  /\ o + Header \in Offsets /\ dir.nam[o + Header] = n
  /\ NameLen[n] = dir.hdr[o].name_len

\* The loop of ext2_lookup_path over one level: the first entry with the name.
Lookup(n) ==
  LET hits == {o \in Listed : Carries(o, n)}
  IN  IF hits = {} THEN 0
      ELSE dir.hdr[CHOOSE o \in hits : \A p \in hits : o <= p].inode

(***************************************************************************)
(* Writing.                                                                *)
(***************************************************************************)

\* Bytes of a header put over a stored name destroy it.
PutHeader(d, o, h) ==
  [d EXCEPT !.hdr[o] = h,
            !.nam = [q \in DOMAIN d.nam |->
                       IF d.nam[q] # NoName /\ q < o + Header /\ o < q + NameLen[d.nam[q]]
                       THEN NoName ELSE d.nam[q]]]

\* The name of the entry at o.
PutName(d, o, n) == [d EXCEPT !.nam[o + Header] = n]

\* ext2_open of a name in the directory, with O_CREAT.  An inode is allocated
\* and the append begins; a directory whose length is not a whole number of
\* blocks, or that has none, is refused and the inode stays allocated.  The
\* directory is not followed beyond the new block path.
ext2_open(n) ==
  /\ phase = "idle" /\ ~grown
  /\ IF Lookup(n) # 0
     THEN /\ result' = Lookup(n)
          /\ UNCHANGED <<phase, name, offset, made>>
     ELSE /\ made < MaxFiles
          /\ made' = made + 1
          /\ result' = 0
          /\ IF dir.size % BlockSize # 0 \/ dir.size < BlockSize
             THEN UNCHANGED <<phase, name, offset>>
             ELSE /\ phase' = "scan"
                  /\ name' = n
                  /\ offset' = dir.size - BlockSize
  /\ UNCHANGED <<dir, at, first, added, torn, grown, crashes>>

\* Mutant: the loop goes on past a record that ends with the block.
PastTheEnd(o) == o + dir.hdr[o].rec_len <= dir.size

\* this_offset + dir_header.rec_len < block_size
MoreRecords(o) == o + dir.hdr[o].rec_len < dir.size

\* Mutant: this_offset does not move.
Stays(o) == o

\* this_offset += dir_header.rec_len
Advance(o) == o + dir.hdr[o].rec_len

\* One turn of the loop over the records of the last block.
ScanRecord ==
  /\ phase = "scan" /\ MoreRecords(offset)
  /\ offset' = Advance(offset)
  /\ UNCHANGED <<dir, phase, name, at, first, result, hist>>

\* Room behind the last record, which must be more than the new one needs.
Room == dir.hdr[offset].rec_len - EntryLen(dir.hdr[offset].name_len) > EntryLen(NameLen[name])

\* The header of the new entry.
NewEntry(rec_len) == [inode |-> made, rec_len |-> rec_len, name_len |-> NameLen[name]]

\* dir_header.rec_len = block_size - this_offset
RestOfBlock(o) == dir.size - o

\* Where the new entry goes if it fits behind the last record.
Behind == offset + EntryLen(dir.hdr[offset].name_len)

\* What comes after n bytes were copied to o: the buffer holds that part, or the
\* copy ran past the end of the buffer, as in FileHandles, and the model stops.
Copied(o, n, part) == IF Within(o, n) THEN part ELSE "overrun"

\* There is room: the record the loop ended at, shrunk, is in the buffer.
AppendInBlock ==
  /\ phase = "scan" /\ ~MoreRecords(offset) /\ Room
  /\ at' = Behind
  /\ phase' = "shrink"
  /\ UNCHANGED <<dir, name, offset, first, result, hist>>

\* The access to the new record stores the shrunk one.
StoreShrunk ==
  /\ phase = "shrink"
  /\ dir' = PutHeader(dir, offset, [dir.hdr[offset] EXCEPT !.rec_len = at - offset])
  /\ phase' = Copied(at, Header, "header")
  /\ UNCHANGED <<name, offset, at, first, result, hist>>

\* The new block path: zeros are appended, and the new header goes to o, a
\* block before what is then the end.
NewBlock(o, replaced) ==
  /\ phase = "scan" /\ ~MoreRecords(offset) /\ ~Room
  /\ at' = o
  /\ first' = replaced
  /\ grown' = TRUE
  /\ phase' = Copied(o, Header, "header")
  /\ UNCHANGED <<dir, name, offset, result, made, added, torn, crashes>>

\* No block can be allocated: every write of zeros fails, which nobody looks
\* at, and the new header goes to the beginning of what is still the last block.
OverwriteLastBlock == NewBlock(dir.size - BlockSize, FALSE)

\* One block can be allocated, which is all a volume ever gives (see
\* Ext2Volume): ext2_select_buffer makes it the first block of the directory,
\* the first Chunk of zeros reaches it and makes the directory that much longer,
\* and the writes after that fail.
ReplaceFirstBlock == NewBlock(dir.size + Chunk - BlockSize, TRUE)

\* The directory on the volume has the block the entry goes to: a new first
\* block is none of its blocks until ext2_close writes the inode.
OnVolume == ~first \/ at >= BlockSize

\* The access to the name stores the new header.
StoreHeader ==
  /\ phase = "header"
  /\ dir' = IF OnVolume
            THEN PutHeader(dir, at, NewEntry(IF grown THEN BlockSize ELSE RestOfBlock(at)))
            ELSE dir
  /\ phase' = Copied(at + Header, NameLen[name], "name")
  /\ UNCHANGED <<name, offset, at, first, result, hist>>

\* ext2_close stores the name.
StoreName ==
  /\ phase = "name"
  /\ dir' = IF OnVolume THEN PutName(dir, at, name) ELSE dir
  /\ phase' = "close"
  /\ UNCHANGED <<name, offset, at, first, result, hist>>

\* The directory with a new first block, taken to have held zeros, and in it the
\* entry if that is where it went.
Replaced ==
  LET blank == [dir EXCEPT !.size = @ + Chunk,
                           !.hdr = [p \in Offsets |-> IF p < BlockSize THEN Unused ELSE @[p]],
                           !.nam = [p \in Offsets |-> IF p < BlockSize THEN NoName ELSE @[p]]]
  IN  IF OnVolume THEN blank
      ELSE PutName(PutHeader(blank, at, NewEntry(BlockSize)), at, name)

\* ext2_close writes the inode of the directory and the append returns 0.
Done ==
  /\ phase = "close"
  /\ dir' = IF first THEN Replaced ELSE dir
  /\ result' = made
  /\ added' = [added EXCEPT ![name] = made]
  /\ phase' = "idle" /\ name' = NoName /\ offset' = 0 /\ at' = 0 /\ first' = FALSE
  /\ UNCHANGED <<made, torn, grown, crashes>>

\* Power fails; the buffer and the handles are gone.
Crash ==
  /\ phase \notin {"idle", "overrun"} /\ crashes < MaxCrashes
  /\ crashes' = crashes + 1
  /\ torn' = (torn \/ (phase = "header" /\ ~grown))
  /\ phase' = "idle" /\ name' = NoName /\ offset' = 0 /\ at' = 0 /\ first' = FALSE
  /\ result' = 0
  /\ UNCHANGED <<dir, made, added, grown>>

ext2_append_to_directory ==
  \/ ScanRecord \/ AppendInBlock \/ OverwriteLastBlock \/ ReplaceFirstBlock
  \/ StoreShrunk \/ StoreHeader \/ StoreName \/ Done

Next == (\E n \in Names : ext2_open(n)) \/ ext2_append_to_directory \/ Crash

\* A call that has begun is carried on by the processor it runs on.
Fairness == WF_vars(ext2_append_to_directory)

Spec == Init /\ [][Next]_vars /\ Fairness

(***************************************************************************)
(* Properties.                                                             *)
(***************************************************************************)

\* Every variable has its type, and a scan is at a record of the last block
\* whose header it can read without leaving its buffer.
TypeOK ==
  /\ dir \in DirType
  /\ phase \in {"idle", "scan", "shrink", "header", "name", "close", "overrun"}
  /\ phase = "scan" => /\ name \in Names /\ offset \in dir.size - BlockSize .. dir.size - Header
                       /\ Within(offset, Header)
  /\ at \in Offsets \cup {0} /\ first \in BOOLEAN
  /\ result \in 0 .. MaxFiles + 20 /\ made \in 0 .. MaxFiles
  /\ added \in [Names -> 0 .. MaxFiles]
  /\ torn \in BOOLEAN /\ grown \in BOOLEAN /\ crashes \in 0 .. MaxCrashes

\* The records of the block that starts there, used or not.
RecordsFrom(start) ==
  LET block == {o \in Written(dir) : start <= o /\ o < start + BlockSize}
  IN  Visited([o \in block |-> o + dir.hdr[o].rec_len], start)

Records == UNION {RecordsFrom(o) : o \in Starts(dir)}

\* The records from start on end where the block does, each is long enough for
\* its name, and header and name can be read without leaving the buffer.
Tiles(start) ==
  /\ start \in RecordsFrom(start)
  /\ \A o \in RecordsFrom(start) :
       /\ dir.hdr[o].rec_len >= Header + dir.hdr[o].name_len
       /\ o + dir.hdr[o].rec_len \in RecordsFrom(start) \cup {start + BlockSize}
       /\ Within(o, Header) /\ Within(o + Header, dir.hdr[o].name_len)

\* Between calls the records of every block tile it exactly, however many files
\* were created and wherever power failed, unless the new block path was taken
\* or power failed after the shrunk record and before the new one was stored,
\* be they in one sector or two.
\* The loop of ext2_append_to_directory relies on it: a record of length 0
\* would keep it where it is.
ChainSound == phase = "idle" /\ ~torn /\ ~grown => \A o \in Starts(dir) : Tiles(o)

\* No append takes an earlier entry away, even one that is under way or that
\* power interrupted: a file ext2_open created is still in the chain with its
\* name and its inode, and the lookup finds it, unless it lies behind a record
\* without an inode, at which ext2_readdir ends.
NothingLost ==
  ~grown => \A n \in Names : added[n] # 0 =>
    \E o \in Records :
      /\ dir.hdr[o].inode = added[n] /\ Carries(o, n)
      /\ Lookup(n) = added[n] \/ \E p \in Records : p < o /\ dir.hdr[p].inode = 0

\* The walk over the records ends and so does the call, whatever files were
\* created before, provided power never failed between a shrunk record and the
\* new one.
AppendEnds == (phase = "scan" /\ ~torn) ~> (phase \in {"idle", "overrun"})

=============================================================================
