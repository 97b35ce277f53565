------------------------------- MODULE SDCard -------------------------------
(***************************************************************************)
(* The SD card driver (block_sd.c) and the card it talks to over SPI, two  *)
(* processes that share a byte-wide line.  A step of the driver is the     *)
(* sending of a command or of a data block, or one turn of one of its      *)
(* polling loops; the card powers up, fetches and programs on its own, and *)
(* may be pulled out and replaced at any time.  The line reads 0xFF, 255,  *)
(* while nobody drives it.                                                 *)
(*                                                                         *)
(* The build has neither a card-present nor a write-protect pin (SD_CP,    *)
(* SD_WP undefined).  Callers read and write only after a block_init that  *)
(* returned 0.                                                             *)
(***************************************************************************)
EXTENDS Integers, Sequences

CONSTANTS
  Retries,      \* SD_RETRIES: polls of sd_command before it gives up
  Ncr,          \* polls a card may leave a command unanswered
  SectorBytes,  \* BLOCK_SIZE, the factor of block <<= 9
  AddressMod,   \* 2^32, the modulus of a command's argument
  Kinds,        \* kinds of cards: "SC1", "SC2" (answers CMD8) and "HC"
  SizeOf,       \* the number of sectors of each kind
  Garbage,      \* the size computed from a CSD of 255s
  Blocks,       \* the block numbers callers ask for
  MaxSwaps      \* bound: removals of a card

VARIABLES
  slot,     \* the card in the slot, or Empty
  mode,     \* its state: "raw", "idle", "warm" (powered up) or "ready"
  inbox,    \* commands it has received and not answered
  polls,    \* polls since it received the first of them
  data,     \* its data transfer
  call,     \* the driver function called last
  at,       \* where it is: a command awaiting its response or a later loop
  tries,    \* i in sd_command
  card,     \* SDCard card, the driver's global
  asked,    \* the block argument of the call
  ret,      \* what the last call returned
  up,       \* the last block_init returned 0
  served,   \* history: the sector the card transferred during the call, or -1
  clean,    \* history: no removal, error token or refusal during the call
  fresh,    \* history: card was filled by a clean block_init from this card
  swaps     \* history: removals

host == <<call, at, tries, card, asked, ret, up>>
hist == <<served, clean, fresh, swaps>>
vars == <<slot, mode, inbox, polls, data, host, hist>>

\* A card answers before the driver gives up: at most 8 bytes against 1000.
ASSUME RetriesAssumption == Ncr \in Nat /\ Retries \in Nat /\ Ncr < Retries

ASSUME SizesAssumption ==
  /\ SectorBytes \in Nat \ {0} /\ AddressMod \in Nat \ {0}
  /\ Kinds \subseteq {"SC1", "SC2", "HC"}
  /\ SizeOf \in [Kinds -> Nat] /\ Garbage \in Nat
  /\ \A k \in Kinds : k # "HC" => SizeOf[k] * SectorBytes <= AddressMod
  /\ \A k \in Kinds : SizeOf[k] <= AddressMod
  /\ Blocks \subseteq 0 .. AddressMod - 1 /\ MaxSwaps \in Nat

Empty == [kind |-> "none", protected |-> FALSE]
Cards == [kind : Kinds, protected : BOOLEAN]
NoData == [phase |-> "none", sector |-> -1]

Init ==
  /\ slot \in Cards \cup {Empty}
  /\ mode = "raw"
  /\ inbox = <<>>
  /\ polls = 0
  /\ data = NoData
  /\ call = "block_init" /\ at = "none" /\ tries = 0
  /\ card = [card_type |-> "NONE", read_only |-> FALSE, size |-> 0, error |-> 0]
  /\ asked = 0
  /\ ret = -1
  /\ up = FALSE
  /\ served = -1
  /\ clean = TRUE
  /\ fresh = FALSE
  /\ swaps = 0

(***************************************************************************)
(* The card.                                                               *)
(***************************************************************************)

\* The type the driver should find.
TypeOf(kind) == IF kind = "HC" THEN "HC" ELSE "SC"

\* The sector an address stands for: a byte address on standard capacity
\* cards, a sector number on high capacity ones; -1 if there is none.
SectorAt(kind, addr) ==
  LET s == IF kind = "HC" THEN addr ELSE addr \div SectorBytes
  IN  IF (kind # "HC" /\ addr % SectorBytes # 0) \/ s >= SizeOf[kind] THEN -1 ELSE s

\* A card that was not sent CMD0 since it got power takes no command.
Listens(m, cmd) == slot # Empty /\ (cmd = "CMD0" \/ m # "raw")

\* The responses to a command, with what they make of the card; 4 is any R1
\* with an error bit.
Answers(c) ==
  LET s == SectorAt(slot.kind, c.arg)
      Says(r) == [r |-> r, mode |-> mode, data |-> data]
      Moves(phase, sector) == [Says(0) EXCEPT !.data = [phase |-> phase, sector |-> sector]]
  IN
  CASE c.cmd = "CMD0" -> {[r |-> 1, mode |-> "idle", data |-> NoData]}
    [] c.cmd = "CMD8" -> {Says(IF slot.kind = "SC1" THEN 5 ELSE 1), Says(4)}
    [] c.cmd = "CMD55" -> {Says(IF mode = "ready" THEN 0 ELSE 1)}
    [] c.cmd = "ACMD41" -> {IF mode = "idle" THEN Says(1)
                            ELSE [Says(0) EXCEPT !.mode = "ready"], Says(4)}
    [] c.cmd = "CMD9" -> {Says(4)} \cup {o \in {Moves("fetching", -1)} : mode = "ready"}
    [] c.cmd = "CMD17" -> {Says(4)} \cup
         {o \in {Moves("fetching", s)} : mode = "ready" /\ s # -1}
    [] c.cmd = "CMD24" -> {Says(4)} \cup
         {o \in {Moves("receiving", s)} : mode = "ready" /\ s # -1}

\* Initialisation after CMD0 ends some time.
PowerUp ==
  /\ mode = "idle"
  /\ mode' = "warm"
  /\ UNCHANGED <<slot, inbox, polls, data, host, hist>>

\* The data asked for is there, or the card has an error token to send.
Fetch ==
  /\ data.phase = "fetching"
  /\ data' \in {[data EXCEPT !.phase = "token"], [data EXCEPT !.phase = "error"]}
  /\ UNCHANGED <<slot, mode, inbox, polls, host, hist>>

\* The block received is in the flash.
Program ==
  /\ data.phase = "busy"
  /\ data' = NoData
  /\ served' = data.sector
  /\ UNCHANGED <<slot, mode, inbox, polls, host, clean, fresh, swaps>>

Remove ==
  /\ slot # Empty /\ swaps < MaxSwaps
  /\ slot' = Empty /\ mode' = "raw" /\ inbox' = <<>> /\ polls' = 0 /\ data' = NoData
  /\ clean' = FALSE /\ fresh' = FALSE
  /\ swaps' = swaps + 1
  /\ UNCHANGED <<host, served>>

Insert ==
  /\ slot = Empty
  /\ slot' \in Cards
  /\ UNCHANGED <<mode, inbox, polls, data, host, hist>>

(***************************************************************************)
(* The driver.  sd_command sends a command and polls; what follows it in   *)
(* the function that called it is AfterCommand.                            *)
(***************************************************************************)

\* The card, whose earlier commands are rest, receives one more.
Send(cmd, arg, rest, m) ==
  /\ inbox' = IF Listens(m, cmd) THEN Append(rest, [cmd |-> cmd, arg |-> arg]) ELSE rest
  /\ at' = cmd /\ tries' = 0

Return(value, rest) == at' = "none" /\ tries' = 0 /\ ret' = value /\ inbox' = rest

\* card_type = SD_CARD_ERROR and return -1; only a silent CMD0 sets an error.
Fail(error, rest) ==
  /\ Return(-1, rest)
  /\ card' = [card EXCEPT !.card_type = "ERROR", !.error = IF error # 0 THEN error ELSE @]

\* Mutant: the block number is the address, whatever the card.
NeverShifted(block) == block

\* block <<= 9 for standard capacity cards, in 32 bits.
Address(block) ==
  IF card.card_type = "SC" THEN (block * SectorBytes) % AddressMod ELSE block

block_init ==
  /\ at = "none"
  /\ call' = "block_init"
  /\ Send("CMD0", 0, inbox, mode)
  /\ up' = FALSE /\ fresh' = FALSE
  /\ clean' = TRUE /\ served' = -1
  /\ UNCHANGED <<slot, mode, polls, data, card, asked, ret, swaps>>

\* block_read and block_write up to their command.
Transfer(name, cmd, block) ==
  /\ at = "none" /\ up
  /\ call' = name /\ asked' = block
  /\ Send(cmd, Address(block), inbox, mode)
  /\ clean' = TRUE /\ served' = -1
  /\ UNCHANGED <<slot, mode, polls, data, card, ret, up, fresh, swaps>>

block_read(block)  == Transfer("block_read", "CMD17", block)
block_write(block) == Transfer("block_write", "CMD24", block)

\* Mutant: ACMD41 is repeated for as long as the card answers.
WhileAnswered(r) == r # 255

\* while(c == 1): the card is still initialising.
RepeatACMD41(r) == r = 1

\* What the driver does with the response r, the card having rest left to
\* answer and being in mode m.
AfterCommand(r, rest, m) ==
  \/ /\ at = "CMD0" /\ r = 255
     /\ Fail(2, rest)
  \/ /\ at = "CMD0" /\ r # 255
     /\ Send("CMD8", 0, rest, m) /\ UNCHANGED <<card, ret>>
  \/ /\ at = "CMD8" /\ r = 5
     /\ card' = [card EXCEPT !.card_type = "SC"]
     /\ Send("CMD55", 0, rest, m) /\ UNCHANGED ret
  \/ /\ at = "CMD8" /\ r = 1                 \* the four echo bytes are right
     /\ card' = [card EXCEPT !.card_type = "HC"]
     /\ Send("CMD55", 0, rest, m) /\ UNCHANGED ret
  \/ /\ at = "CMD8" /\ r # 5                 \* an error, or wrong echo bytes
     /\ Fail(0, rest)
  \/ /\ at = "CMD55"
     /\ Send("ACMD41", 0, rest, m) /\ UNCHANGED <<card, ret>>
  \/ /\ at = "ACMD41" /\ RepeatACMD41(r)
     /\ Send("CMD55", 0, rest, m) /\ UNCHANGED <<card, ret>>
  \/ /\ at = "ACMD41" /\ ~RepeatACMD41(r)
     /\ Send("CMD9", 0, rest, m) /\ UNCHANGED <<card, ret>>
  \/ /\ at = "CMD9" /\ r # 0
     /\ Fail(0, rest)
  \/ /\ at \in {"CMD17", "CMD24"} /\ r # 0
     /\ Return(r, rest) /\ UNCHANGED card
  \/ /\ at \in {"CMD9", "CMD17", "CMD24"} /\ r = 0
     /\ at' = CASE at = "CMD9" -> "csd" [] at = "CMD17" -> "token" [] at = "CMD24" -> "block"
     /\ tries' = 0 /\ inbox' = rest /\ UNCHANGED <<card, ret>>

Commands == {"CMD0", "CMD8", "CMD55", "ACMD41", "CMD9", "CMD17", "CMD24"}

\* A poll of sd_command that reads the response.
PollAnswer ==
  /\ at \in Commands /\ inbox # <<>>
  /\ \E o \in Answers(Head(inbox)) :
       /\ mode' = o.mode /\ data' = o.data
       /\ AfterCommand(o.r, Tail(inbox), o.mode)
  /\ polls' = 0
  /\ UNCHANGED <<slot, call, asked, up, hist>>

\* Mutants: sd_command gives up after one poll, or one poll too late.
GivesUpAtOnce(n) == n >= 1
GivesUpLate(n)   == n > Retries

\* for(i=0;i<SD_RETRIES;i++)
GivesUp(n) == n >= Retries

\* A poll that reads 255.  The wait for the response to CMD55 has no bound.
PollSilent ==
  /\ at \in Commands
  /\ inbox = <<>> \/ polls < Ncr
  /\ polls' = IF inbox = <<>> THEN 0 ELSE polls + 1
  /\ IF at # "CMD55" /\ GivesUp(tries + 1)
     THEN AfterCommand(255, inbox, mode)
     ELSE /\ tries' = IF at = "CMD55" THEN tries ELSE tries + 1
          /\ UNCHANGED <<at, inbox, card, ret>>
  /\ UNCHANGED <<slot, mode, data, call, asked, up, hist>>

\* while(c == 0xFF): any other byte ends the wait for the CSD, the data error
\* token too.
WaitCSD ==
  /\ at = "csd"
  /\ at' = IF data.phase \in {"token", "error"} THEN "csdbytes" ELSE at
  /\ data' = CASE data.phase = "token" -> [data EXCEPT !.phase = "sending"]
               [] data.phase = "error" -> NoData
               [] OTHER -> data
  /\ clean' = (clean /\ data.phase # "error")
  /\ UNCHANGED <<slot, mode, inbox, polls, call, tries, card, asked, ret, up, served, fresh, swaps>>

\* Mutant: the type guessed from CMD8 is kept.
GuessedType(c, s) ==
  [c EXCEPT !.size = SizeOf[s.kind], !.read_only = @ \/ s.protected]

\* The fields the CSD of the card s gives.  read_only is only ever set.  How the
\* size is computed from the fields of the CSD is left out: it is the card's.
FromCSD(c, s) ==
  [c EXCEPT !.card_type = TypeOf(s.kind), !.size = SizeOf[s.kind],
            !.read_only = @ \/ s.protected]

\* The CSD is read, or sixteen times 255 where there is none.
ReadCSD ==
  /\ at = "csdbytes"
  /\ card' = IF data.phase = "sending" THEN FromCSD(card, slot)
             ELSE [card EXCEPT !.card_type = "HC", !.size = Garbage, !.read_only = TRUE]
  /\ data' = NoData
  /\ Return(0, inbox)
  /\ up' = TRUE /\ fresh' = clean
  /\ UNCHANGED <<slot, mode, polls, call, asked, served, clean, swaps>>

\* while(c != 0xFE): the data error token is read and waited on.
WaitToken ==
  /\ at = "token"
  /\ at' = IF data.phase = "token" THEN "bytes" ELSE at
  /\ data' = CASE data.phase = "token" -> [data EXCEPT !.phase = "sending"]
               [] data.phase = "error" -> NoData
               [] OTHER -> data
  /\ clean' = (clean /\ data.phase # "error")
  /\ UNCHANGED <<slot, mode, inbox, polls, call, tries, card, asked, ret, up, served, fresh, swaps>>

\* The 512 bytes and the checksum.
ReadBlock ==
  /\ at = "bytes"
  /\ served' = data.sector
  /\ data' = NoData
  /\ Return(0, inbox)
  /\ UNCHANGED <<slot, mode, polls, call, card, asked, up, clean, fresh, swaps>>

\* The start token, 512 bytes and a checksum go out; the data response that
\* comes back, which may be a refusal, is not looked at.
WriteBlock ==
  /\ at = "block"
  /\ at' = "busy"
  /\ \/ /\ data' = IF data.phase = "receiving" THEN [data EXCEPT !.phase = "busy"] ELSE data
        /\ UNCHANGED clean
     \/ /\ data.phase = "receiving"
        /\ data' = NoData
        /\ clean' = FALSE
  /\ UNCHANGED <<slot, mode, inbox, polls, call, tries, card, asked, ret, up, served, fresh, swaps>>

\* Mutant: the wait is for the data response, which has been read already.
AwaitsResponse(byte) == byte # 5

\* while(spi_xfer(SD_SPI, 0xFF) != 0xFF)
StillBusy(byte) == byte # 255

WaitBusy ==
  /\ at = "busy"
  /\ IF StillBusy(IF data.phase = "busy" THEN 0 ELSE 255)
     THEN UNCHANGED <<at, tries, ret, inbox>>
     ELSE Return(0, inbox)
  /\ UNCHANGED <<slot, mode, polls, data, call, card, asked, up, hist>>

\* The driver goes on with the call in progress.
Driver ==
  \/ PollAnswer \/ PollSilent \/ WaitCSD \/ ReadCSD
  \/ WaitToken \/ ReadBlock \/ WriteBlock \/ WaitBusy

Next ==
  \/ block_init
  \/ \E b \in Blocks : block_read(b) \/ block_write(b)
  \/ Driver
  \/ PowerUp \/ Fetch \/ Program
  \/ Remove \/ Insert

\* The processor runs, and a card that has power finishes what it is doing.
\* Nothing makes callers call, or cards be pulled out.
Fairness == WF_vars(Driver) /\ WF_vars(PowerUp) /\ WF_vars(Fetch) /\ WF_vars(Program)

Spec == Init /\ [][Next]_vars /\ Fairness

(***************************************************************************)
(* Properties.                                                             *)
(***************************************************************************)

\* Every variable has its type; sd_command never polls more than SD_RETRIES
\* times, and a transfer in progress on the card is one of the card's sectors.
TypeOK ==
  /\ slot \in Cards \cup {Empty}
  /\ mode \in {"raw", "idle", "warm", "ready"} /\ (slot = Empty => mode = "raw")
  /\ inbox \in Seq([cmd : Commands, arg : 0 .. AddressMod - 1])
  /\ polls \in 0 .. Ncr
  /\ data.phase \in {"none", "fetching", "token", "error", "sending", "receiving", "busy"}
  /\ data.sector \in -1 .. AddressMod
  /\ call \in {"block_init", "block_read", "block_write"}
  /\ at \in Commands \cup {"none", "csd", "csdbytes", "token", "bytes", "block", "busy"}
  /\ tries \in 0 .. Retries - 1
  /\ card \in [card_type : {"NONE", "SC", "HC", "ERROR"}, read_only : BOOLEAN,
               size : Nat, error : {0, 2}]
  /\ asked \in Blocks \cup {0}
  /\ ret \in {-1, 0, 1, 4, 5, 255}
  /\ served \in -1 .. AddressMod
  /\ {up, clean, fresh} \subseteq BOOLEAN
  /\ swaps \in 0 .. MaxSwaps

\* A response the driver reads belongs to the command it has just sent: the
\* card never has an older command left to answer, whether sd_command gave up
\* before, the card was swapped or a call was cut short.
OneOutstanding ==
  inbox # <<>> => Len(inbox) = 1 /\ Head(inbox).cmd = at

\* After a block_init without interference the driver knows the card: its
\* type, hence the unit of its addresses, and its write protection if it has
\* one, and the size is not one of an earlier card.  This outlives failed
\* transfers, but no removal.
CardKnown ==
  fresh => /\ up
           /\ card.card_type = TypeOf(slot.kind)
           /\ card.size = SizeOf[slot.kind]
           /\ slot.protected => card.read_only

\* block_read and block_write that return 0 on a card the driver knows have
\* moved the sector the caller asked for, if it is on the volume and the card
\* neither sent an error nor was pulled out: the byte addresses of standard
\* capacity cards and the 32-bit shift do not lead anywhere else.
ServedAsked ==
  /\ at = "none" /\ call # "block_init" /\ ret = 0
  /\ clean /\ fresh /\ asked < card.size
  => served = asked

\* A write that returns 0 is on the card: "0 on success, anything else to
\* indicate an error".
WriteReported == (at = "none" /\ call = "block_write" /\ ret = 0) => served # -1

\* No call hangs unless the card is pulled out during it or sends an error
\* token.
CallsEnd == (at # "none") ~> (at = "none" \/ ~clean)

\* block_write returns whatever happens: its only unbounded wait also ends when
\* the card is gone.
WritesEnd == (at # "none" /\ call = "block_write") ~> (at = "none")
=============================================================================
