------------------------------ MODULE ByteStore ------------------------------
(***************************************************************************)
(* What the file calls of embext.h promise a caller who opens each file    *)
(* once and does not seek past its end: a file is a sequence of bytes,     *)
(* ext2_write replaces the bytes at the cursor, or appends them, and       *)
(* touches nothing else, ext2_read returns the bytes at the cursor, both   *)
(* move the cursor by what they copied, and no other call changes a file.  *)
(***************************************************************************)
EXTENDS Integers, Sequences

CONSTANTS
  Files,    \* the files of the volume
  Bytes,    \* the bytes a caller may write
  MaxChunk  \* bound: bytes written by one call

VARIABLES
  content,  \* the bytes of every file
  handle,   \* the cursor of every file's handle, and whether it was opened O_APPEND
  last      \* the file and the bytes of ext2_read, if it was the last call

NothingRead == [file |-> 0, bytes |-> <<>>]

Chunks == UNION {[1 .. k -> Bytes] : k \in 1 .. MaxChunk}

\* c with the bytes s in place of what is at position pos, grown if needed.
Overlay(c, pos, s) ==
  [i \in 1 .. IF pos + Len(s) > Len(c) THEN pos + Len(s) ELSE Len(c) |->
     IF i \in pos + 1 .. pos + Len(s) THEN s[i - pos] ELSE c[i]]

Write(f) ==
  LET old == content[f]
      pos == IF handle[f].append THEN Len(old) ELSE handle[f].cursor
  IN
  /\ last' = NothingRead
  /\ \E s \in Chunks :
       /\ handle' = [handle EXCEPT ![f].cursor = pos + Len(s)]
       /\ content' = [content EXCEPT ![f] = Overlay(old, pos, s)]

Read(f) ==
  LET pos == handle[f].cursor
  IN
  /\ UNCHANGED content
  /\ \E to \in pos + 1 .. Len(content[f]) :
       /\ handle' = [handle EXCEPT ![f].cursor = to]
       /\ last' = [file |-> f, bytes |-> SubSeq(content[f], pos + 1, to)]

\* Opening, closing, seeking, and a read or write that fails.
Other ==
  /\ last' = NothingRead
  /\ UNCHANGED content

Next == Other \/ \E f \in Files : Read(f) \/ Write(f)

Spec == [][Next]_<<content, handle, last>>
=============================================================================
