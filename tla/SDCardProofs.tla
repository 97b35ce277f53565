---------------------------- MODULE SDCardProofs ----------------------------
(***************************************************************************)
(* Theorems about SDCard, for every retry count, card size, address width  *)
(* and sequence of removals.  Only safety is proved: that calls end is a   *)
(* matter of fairness and stays with TLC.                                  *)
(***************************************************************************)
EXTENDS SDCard, SequenceTheorems, TLAPS

(***************************************************************************)
(* The inductive invariant.                                                *)
(***************************************************************************)

Phases    == {"none", "fetching", "token", "error", "sending", "receiving", "busy"}
CardType  == [card_type : {"NONE", "SC", "HC", "ERROR"}, read_only : BOOLEAN,
              size : Nat, error : {0, 2}]
InitSteps == {"CMD0", "CMD8", "CMD55", "ACMD41", "CMD9", "csd", "csdbytes"}

\* A command that was received is answered within Ncr polls of sd_command, and
\* each of them is counted by the driver too.
Paced ==
  /\ inbox = <<>> => polls = 0
  /\ inbox # <<>> /\ at # "CMD55" => tries = polls

\* An empty slot neither answers nor moves data.
Absent == slot = Empty => inbox = <<>> /\ data = NoData /\ ~fresh

\* Each step belongs to one function, the card's type is not trusted during
\* block_init, and data moves only after a command that asked for it.
Staged ==
  /\ at \in InitSteps => call = "block_init" /\ ~fresh
  /\ at \in {"CMD17", "token", "bytes"} => call = "block_read"
  /\ at \in {"CMD24", "block", "busy"} => call = "block_write"
  /\ at \in Commands \cup {"none"} => data = NoData
  /\ at = "csdbytes" /\ clean => data.phase = "sending"
  /\ at = "block" => data = NoData \/ data.phase = "receiving"
  /\ at = "busy" => data = NoData \/ data.phase = "busy"

\* The sector asked for is one of a card that the driver knows, and nothing
\* went wrong so far.
Sure == call # "block_init" /\ clean /\ fresh /\ asked < card.size

\* Where the sector asked for is on its way.
Moving ==
  /\ inbox # <<>> /\ call # "block_init" => Head(inbox).arg = Address(asked)
  /\ Sure =>
       /\ at = "token" => data.phase \in {"fetching", "token", "error"} /\ data.sector = asked
       /\ at = "bytes" => data.phase = "sending" /\ data.sector = asked
       /\ at = "block" => data.phase = "receiving" /\ data.sector = asked
       /\ at = "busy"  => \/ data.phase = "busy" /\ data.sector = asked
                          \/ data.phase # "busy" /\ served = asked

SDInv ==
  /\ TypeOK /\ data \in [phase : Phases, sector : -1 .. AddressMod]
  /\ OneOutstanding /\ Paced /\ Absent /\ Staged
  /\ CardKnown /\ Moving /\ ServedAsked

(***************************************************************************)
(* Addresses.                                                              *)
(***************************************************************************)

\* A number is made of its quotient and its remainder.
LEMMA DivModSplit ==
  ASSUME NEW k \in Nat \ {0}, NEW a \in Nat
  PROVE  a \div k \in Nat /\ a % k \in 0 .. k - 1 /\ k * (a \div k) + (a % k) = a
  OBVIOUS

\* Quotient and remainder of a multiple.
LEMMA DivMultiple ==
  ASSUME NEW k \in Nat \ {0}, NEW g \in Nat
  PROVE  (g * k) \div k = g /\ (g * k) % k = 0
  OBVIOUS

\* A small number is its own remainder.
LEMMA ModSmall ==
  ASSUME NEW k \in Nat \ {0}, NEW x \in 0 .. k - 1
  PROVE  x % k = x
  OBVIOUS

\* Multiplication is strictly monotonic.
LEMMA StrictlyMonotonic ==
  ASSUME NEW k \in Nat \ {0}, NEW a \in Int, NEW b \in Int, a < b
  PROVE  a * k < b * k
  OBVIOUS

\* The constants that only their type is needed of.
LEMMA SizeFacts ==
  /\ SectorBytes \in Nat \ {0} /\ AddressMod \in Nat \ {0} /\ Garbage \in Nat
  /\ Kinds \subseteq {"SC1", "SC2", "HC"} /\ SizeOf \in [Kinds -> Nat]
  /\ \A k \in Kinds : SizeOf[k] <= AddressMod
  /\ Blocks \subseteq 0 .. AddressMod - 1 /\ MaxSwaps \in Nat
  /\ Ncr \in Nat /\ Retries \in Nat /\ Ncr < Retries
  BY SizesAssumption, RetriesAssumption

\* The empty slot is not a card.
LEMMA EmptyNoCard == Empty \notin Cards
  BY SizeFacts DEF Empty, Cards

\* An address is a number of 32 bits.
LEMMA AddressType ==
  ASSUME NEW b \in Blocks \cup {0}
  PROVE  Address(b) \in 0 .. AddressMod - 1
<1>1. b \in 0 .. AddressMod - 1
  BY SizeFacts
<1>2. b * SectorBytes \in Nat
  BY <1>1, SizeFacts
<1>3. (b * SectorBytes) % AddressMod \in 0 .. AddressMod - 1
  BY <1>2, DivModSplit, SizeFacts
<1>. QED
  BY <1>1, <1>3 DEF Address

\* A sector of a card is below the card's size.
LEMMA SectorType ==
  ASSUME NEW k \in Kinds, NEW a \in 0 .. AddressMod - 1
  PROVE  SectorAt(k, a) \in -1 .. AddressMod
<1>1. a \div SectorBytes \in Nat
  <2>1. a \in Nat /\ SectorBytes \in Nat \ {0}
    BY SizeFacts
  <2>. QED
    BY <2>1, DivModSplit
<1>2. SizeOf[k] \in Nat /\ SizeOf[k] <= AddressMod
  BY SizeFacts
<1>. QED
  BY <1>1, <1>2, SizeFacts DEF SectorAt

\* On a card whose type the driver knows, the address of a sector of the card
\* leads to that sector.
LEMMA RightSector ==
  ASSUME NEW k \in Kinds, NEW b \in Nat, b < SizeOf[k], card.card_type = TypeOf(k)
  PROVE  SectorAt(k, Address(b)) = b
<1>1. SizeOf[k] \in Nat
  BY SizeFacts
<1>2. CASE k = "HC"
  BY <1>1, <1>2 DEF TypeOf, Address, SectorAt
<1>3. CASE k # "HC"
  <2>1. SizeOf[k] * SectorBytes <= AddressMod
    BY <1>3, SizesAssumption
  <2>2. b * SectorBytes < SizeOf[k] * SectorBytes
    BY <1>1, StrictlyMonotonic, SizeFacts
  <2>3. b * SectorBytes \in 0 .. AddressMod - 1
    BY <1>1, <2>1, <2>2, SizeFacts
  <2>4. (b * SectorBytes) % AddressMod = b * SectorBytes
    BY <2>3, ModSmall, SizeFacts
  <2>5. (b * SectorBytes) \div SectorBytes = b /\ (b * SectorBytes) % SectorBytes = 0
    BY DivMultiple, SizeFacts
  <2>. QED
    BY <1>1, <1>3, <2>4, <2>5 DEF TypeOf, Address, SectorAt
<1>. QED
  BY <1>2, <1>3

(***************************************************************************)
(* Steps of the card.                                                      *)
(***************************************************************************)

\* The initial states satisfy the invariant.
LEMMA SDInit == Init => SDInv
<1>. SUFFICES ASSUME Init PROVE SDInv
  OBVIOUS
<1>. USE DEF Init
<1>1. TypeOK
  <2>1. inbox \in Seq([cmd : Commands, arg : 0 .. AddressMod - 1])
    OBVIOUS
  <2>2. /\ polls \in 0 .. Ncr /\ tries \in 0 .. Retries - 1 /\ swaps \in 0 .. MaxSwaps
        /\ served \in -1 .. AddressMod /\ data.sector \in -1 .. AddressMod
    BY SizeFacts DEF NoData
  <2>. QED
    BY <2>1, <2>2 DEF TypeOK, NoData
<1>2. data \in [phase : Phases, sector : -1 .. AddressMod]
  BY SizeFacts DEF NoData, Phases
<1>3. OneOutstanding /\ Paced /\ Absent /\ Staged
  BY DEF OneOutstanding, Paced, Absent, Staged, InitSteps
<1>4. CardKnown /\ Moving /\ ServedAsked
  BY DEF CardKnown, Moving, Sure, ServedAsked
<1>. QED
  BY <1>1, <1>2, <1>3, <1>4 DEF SDInv

\* The card powers up.
LEMMA PowerUpStep ==
  ASSUME SDInv, PowerUp PROVE SDInv'
  BY DEF PowerUp, SDInv, TypeOK, OneOutstanding, Paced, Absent, Staged, CardKnown, Moving, Sure,
         ServedAsked, Address, host, hist

\* The card fetches a block.
LEMMA FetchStep ==
  ASSUME SDInv, Fetch PROVE SDInv'
<1>. USE DEF SDInv, Fetch, host, hist
<1>1. /\ data'.phase \in {"token", "error"} /\ data'.sector = data.sector
      /\ data' \in [phase : Phases, sector : -1 .. AddressMod]
  BY DEF Phases
<1>2. TypeOK'
  BY <1>1 DEF TypeOK
<1>3. OneOutstanding' /\ Paced' /\ CardKnown' /\ ServedAsked'
  BY DEF OneOutstanding, Paced, CardKnown, ServedAsked
<1>4. Absent' /\ Staged'
  BY <1>1 DEF Absent, Staged, NoData
<1>5. Moving'
  BY <1>1, <1>4 DEF Moving, Sure, Address
<1>. QED
  BY <1>1, <1>2, <1>3, <1>4, <1>5

\* The card programs a block.
LEMMA ProgramStep ==
  ASSUME SDInv, Program PROVE SDInv'
<1>. USE DEF SDInv, Program, host
<1>1. data' \in [phase : Phases, sector : -1 .. AddressMod] /\ at # "none"
  BY SizeFacts DEF Phases, NoData, Staged
<1>2. TypeOK'
  BY <1>1 DEF TypeOK, NoData
<1>3. OneOutstanding' /\ Paced' /\ CardKnown' /\ ServedAsked'
  BY <1>1 DEF OneOutstanding, Paced, CardKnown, ServedAsked
<1>4. Absent' /\ Staged'
  BY DEF Absent, Staged, NoData
<1>5. Moving'
  BY DEF Moving, Sure, Address, NoData
<1>. QED
  BY <1>1, <1>2, <1>3, <1>4, <1>5

\* The card is taken out.
LEMMA RemoveStep ==
  ASSUME SDInv, Remove PROVE SDInv'
<1>. USE DEF SDInv, Remove, host
<1>1. data' \in [phase : Phases, sector : -1 .. AddressMod]
  BY SizeFacts DEF Phases, NoData
<1>2. TypeOK'
  <2>1. inbox' \in Seq([cmd : Commands, arg : 0 .. AddressMod - 1])
    OBVIOUS
  <2>2. polls' \in 0 .. Ncr /\ swaps' \in 0 .. MaxSwaps
    BY SizeFacts DEF TypeOK
  <2>3. data'.phase = "none" /\ data'.sector = -1 /\ -1 \in -1 .. AddressMod
    BY SizeFacts DEF NoData
  <2>4. {up', clean', fresh'} \subseteq BOOLEAN
    BY DEF TypeOK
  <2>. QED
    BY <2>1, <2>2, <2>3, <2>4 DEF TypeOK
<1>3. OneOutstanding' /\ Paced' /\ CardKnown' /\ ServedAsked' /\ Absent'
  BY DEF OneOutstanding, Paced, CardKnown, ServedAsked, Absent
<1>4. Staged' /\ Moving'
  BY DEF Staged, Moving, Sure
<1>. QED
  BY <1>1, <1>2, <1>3, <1>4

\* A card is put in.
LEMMA InsertStep ==
  ASSUME SDInv, Insert PROVE SDInv'
<1>. USE DEF SDInv, Insert, host, hist
<1>1. TypeOK'
  BY EmptyNoCard DEF TypeOK
<1>2. OneOutstanding' /\ Paced' /\ CardKnown' /\ ServedAsked' /\ Absent'
  BY EmptyNoCard DEF OneOutstanding, Paced, CardKnown, ServedAsked, Absent
<1>3. Staged' /\ Moving'
  BY DEF Staged, Moving, Sure, Address
<1>. QED
  BY <1>1, <1>2, <1>3

(***************************************************************************)
(* Steps of the driver.                                                    *)
(***************************************************************************)

\* A queue of one command.
LEMMA OneItem ==
  ASSUME NEW S, NEW c \in S
  PROVE  Append(<<>>, c) \in Seq(S) /\ Len(Append(<<>>, c)) = 1 /\ Head(Append(<<>>, c)) = c
  OBVIOUS

\* Its first item is an item.
LEMMA HeadType ==
  ASSUME NEW S, NEW q \in Seq(S), q # <<>>
  PROVE  Head(q) \in S /\ (Len(q) = 1 => Tail(q) = <<>>)
<1>1. Head(q) \in S /\ Tail(q) \in Seq(S) /\ Len(Tail(q)) = Len(q) - 1
  BY HeadTailProperties
<1>2. \A t \in Seq(S) : Len(t) = 0 => t = <<>>
  BY EmptySeq
<1>3. ASSUME Len(q) = 1 PROVE Len(Tail(q)) = 0
  BY <1>1, <1>3
<1>. QED
  BY <1>1, <1>2, <1>3, Zenon

\* The card has received the command k and nothing else, or does not listen.
Queued(k, x) ==
  /\ at' = k /\ tries' = 0
  /\ inbox' \in Seq([cmd : Commands, arg : 0 .. AddressMod - 1])
  /\ inbox' # <<>> => /\ slot # Empty /\ Len(inbox') = 1
                      /\ Head(inbox').cmd = k /\ Head(inbox').arg = x

\* Sending a command when the card has none left to answer.
LEMMA Sent ==
  ASSUME NEW k \in Commands, NEW x \in 0 .. AddressMod - 1, NEW m, Send(k, x, <<>>, m)
  PROVE  Queued(k, x)
<1>. DEFINE c == [cmd |-> k, arg |-> x]
<1>1. c \in [cmd : Commands, arg : 0 .. AddressMod - 1]
  OBVIOUS
<1>2. inbox' = <<>> \/ (slot # Empty /\ inbox' = Append(<<>>, c))
  BY DEF Send, Listens
<1>. HIDE DEF c
<1>3. CASE inbox' = <<>>
  BY <1>3 DEF Send, Queued
<1>4. CASE slot # Empty /\ inbox' = Append(<<>>, c)
  <2>1. inbox' \in Seq([cmd : Commands, arg : 0 .. AddressMod - 1]) /\ Len(inbox') = 1 /\ Head(inbox') = c
    BY <1>1, <1>4, OneItem
  <2>. QED
    BY <1>4, <2>1 DEF Send, Queued, c
<1>. QED
  BY <1>2, <1>3, <1>4

\* Between calls the card has no command left.
LEMMA NothingLeft ==
  ASSUME SDInv, at \notin Commands
  PROVE  inbox = <<>> /\ polls = 0
<1>1. inbox \in Seq([cmd : Commands, arg : 0 .. AddressMod - 1])
  BY DEF SDInv, TypeOK
<1>2. ASSUME inbox # <<>> PROVE FALSE
  <2>1. Head(inbox) \in [cmd : Commands, arg : 0 .. AddressMod - 1]
    BY <1>1, <1>2, HeadType
  <2>. QED
    BY <1>2, <2>1 DEF SDInv, OneOutstanding
<1>. QED
  BY <1>2 DEF SDInv, Paced

\* The driver starts to initialise a card.
LEMMA InitStep ==
  ASSUME SDInv, block_init PROVE SDInv'
<1>. USE DEF block_init
<1>1. inbox = <<>> /\ polls = 0 /\ at = "none"
  BY NothingLeft DEF Commands
<1>2. Queued("CMD0", 0)
  <2>1. 0 \in 0 .. AddressMod - 1 /\ "CMD0" \in Commands
    BY SizeFacts DEF Commands
  <2>. QED
    BY <1>1, <2>1, Sent
<1>. USE DEF Queued
<1>3. TypeOK'
  <2>1. tries' \in 0 .. Retries - 1 /\ served' \in -1 .. AddressMod
    BY <1>2, SizeFacts
  <2>2. {up', clean', fresh'} \subseteq BOOLEAN
    BY DEF SDInv, TypeOK
  <2>. QED
    BY <1>2, <2>1, <2>2 DEF SDInv, TypeOK, Commands
<1>4. OneOutstanding' /\ Paced' /\ Absent' /\ Staged'
  BY <1>1, <1>2 DEF SDInv, OneOutstanding, Paced, Absent, Staged, Commands, InitSteps
<1>5. CardKnown' /\ Moving' /\ ServedAsked'
  BY <1>2 DEF CardKnown, Moving, Sure, ServedAsked
<1>. QED
  BY <1>3, <1>4, <1>5 DEF SDInv

\* The file system asks for a block.
LEMMA TransferStep ==
  ASSUME SDInv, NEW b \in Blocks, block_read(b) \/ block_write(b) PROVE SDInv'
<1>1. PICK p \in {<<"block_read", "CMD17">>, <<"block_write", "CMD24">>} : Transfer(p[1], p[2], b)
  BY DEF block_read, block_write
<1>. USE <1>1 DEF Transfer
<1>2. inbox = <<>> /\ polls = 0 /\ at = "none" /\ data = NoData
  BY NothingLeft DEF Commands, SDInv, Staged
<1>3. Queued(p[2], Address(b))
  <2>1. Address(b) \in 0 .. AddressMod - 1 /\ p[2] \in Commands
    BY AddressType DEF Commands
  <2>. QED
    BY <1>2, <2>1, Sent
<1>. USE DEF Queued
<1>4. TypeOK'
  <2>1. tries' \in 0 .. Retries - 1 /\ served' \in -1 .. AddressMod
    BY <1>3, SizeFacts
  <2>. QED
    BY <1>3, <2>1 DEF SDInv, TypeOK, Commands
<1>5. OneOutstanding' /\ Paced' /\ Absent' /\ Staged'
  BY <1>2, <1>3 DEF SDInv, OneOutstanding, Paced, Absent, Staged, Commands, InitSteps
<1>6. CardKnown' /\ Moving' /\ ServedAsked'
  BY <1>3 DEF SDInv, CardKnown, Moving, Sure, ServedAsked, Address
<1>. QED
  BY <1>4, <1>5, <1>6 DEF SDInv

\* What a response may be and what it does to the card: data is on its way
\* only after a command that asked for it was accepted.
LEMMA AnswerFacts ==
  ASSUME SDInv, at \in Commands, inbox # <<>>, NEW o \in Answers(Head(inbox))
  PROVE  /\ slot \in Cards
         /\ o.r \in {0, 1, 4, 5} /\ o.mode \in {"raw", "idle", "warm", "ready"}
         /\ o.data \in [phase : Phases, sector : -1 .. AddressMod]
         /\ IF at \in {"CMD9", "CMD17", "CMD24"} /\ o.r = 0
            THEN /\ o.data.phase = IF at = "CMD24" THEN "receiving" ELSE "fetching"
                 /\ at # "CMD9" => o.data.sector = SectorAt(slot.kind, Head(inbox).arg)
            ELSE o.data = NoData
<1>. DEFINE c == Head(inbox)
            s == SectorAt(slot.kind, c.arg)
<1>1. c \in [cmd : Commands, arg : 0 .. AddressMod - 1] /\ c.cmd = at
  BY HeadType DEF SDInv, TypeOK, OneOutstanding
<1>2. slot \in Cards
  BY DEF SDInv, TypeOK, Absent
<1>3. slot.kind \in Kinds
  BY <1>2 DEF Cards
<1>4. s \in -1 .. AddressMod /\ -1 \in -1 .. AddressMod
  <2>1. c.arg \in 0 .. AddressMod - 1
    BY <1>1
  <2>2. -1 \in -1 .. AddressMod
    BY SizeFacts
  <2>. QED
    BY <1>3, <2>1, <2>2, SectorType
<1>5. data = NoData /\ mode \in {"raw", "idle", "warm", "ready"}
  BY DEF SDInv, TypeOK, Staged
<1>6. NoData \in [phase : Phases, sector : -1 .. AddressMod]
  BY <1>4 DEF NoData, Phases
<1>7. o \in Answers(c)
  OBVIOUS
<1>. HIDE DEF c, s
<1>8. CASE at = "CMD0"
  BY <1>1, <1>2, <1>6, <1>7, <1>8 DEF Answers
<1>9. CASE at \in {"CMD8", "CMD55"}
  BY <1>1, <1>2, <1>5, <1>6, <1>7, <1>9 DEF Answers
<1>10. CASE at = "ACMD41"
  BY <1>1, <1>2, <1>5, <1>6, <1>7, <1>10 DEF Answers
<1>11. CASE at \in {"CMD9", "CMD17", "CMD24"}
  <2>. DEFINE x == [r |-> 0, mode |-> mode,
                    data |-> [phase |-> IF at = "CMD24" THEN "receiving" ELSE "fetching",
                              sector |-> IF at = "CMD9" THEN -1 ELSE s]]
  <2>1. o = [r |-> 4, mode |-> mode, data |-> data] \/ o = x
    BY <1>1, <1>7, <1>11 DEF Answers, s
  <2>2. CASE o = [r |-> 4, mode |-> mode, data |-> data]
    BY <1>2, <1>5, <1>6, <2>2
  <2>3. CASE o = x
    BY <1>2, <1>4, <1>5, <1>11, <2>3 DEF Phases, s, c
  <2>. QED
    BY <2>1, <2>2, <2>3
<1>. QED
  BY <1>8, <1>9, <1>10, <1>11 DEF Commands

\* Where the driver is after the response r.
Went(r) ==
  /\ tries' = 0 /\ card' \in CardType /\ ret' \in {-1, 0, 1, 4, 5, 255}
  /\ inbox' \in Seq([cmd : Commands, arg : 0 .. AddressMod - 1])
  /\ inbox' # <<>> => /\ slot # Empty /\ Len(inbox') = 1
                      /\ Head(inbox').cmd = at' /\ Head(inbox').arg = 0
  /\ at \in {"CMD17", "CMD24"} =>
       /\ card' = card /\ inbox' = <<>>
       /\ IF r = 0 THEN at' = IF at = "CMD17" THEN "token" ELSE "block"
                   ELSE at' = "none" /\ ret' # 0
  /\ at \notin {"CMD17", "CMD24"} =>
       IF at = "CMD9" /\ r = 0 THEN at' = "csd" /\ inbox' = <<>>
                              ELSE at' \in (Commands \cap InitSteps) \cup {"none"}

\* It goes there whether a command was answered or not.
LEMMA AfterCommandEffect ==
  ASSUME SDInv, at \in Commands, NEW r \in {0, 1, 4, 5, 255}, NEW m, AfterCommand(r, <<>>, m)
  PROVE  Went(r)
<1>. USE DEF Went
<1>. DEFINE Q == Seq([cmd : Commands, arg : 0 .. AddressMod - 1])
<1>1. card \in CardType /\ ret \in {-1, 0, 1, 4, 5, 255}
  BY DEF SDInv, TypeOK, CardType
<1>2. 0 \in 0 .. AddressMod - 1 /\ <<>> \in Q
  BY SizeFacts
<1>3. ASSUME NEW k \in Commands \cap InitSteps, Send(k, 0, <<>>, m)
      PROVE  Queued(k, 0)
  BY <1>2, <1>3, Sent
<1>4. ASSUME NEW error \in {0, 2}, Fail(error, <<>>)
      PROVE  at' = "none" /\ tries' = 0 /\ inbox' = <<>> /\ ret' = -1 /\ card' \in CardType
  BY <1>1, <1>4 DEF Fail, Return, CardType
<1>5. {"CMD8", "CMD55", "ACMD41", "CMD9"} \subseteq Commands \cap InitSteps
  BY DEF Commands, InitSteps
<1>. HIDE DEF Q
<1>6. CASE at = "CMD0"
  <2>1. CASE Fail(2, <<>>)
    BY <1>2, <1>4, <1>6, <2>1 DEF Q
  <2>2. CASE Send("CMD8", 0, <<>>, m) /\ UNCHANGED <<card, ret>>
    <3>1. Queued("CMD8", 0)
      BY <1>3, <1>5, <2>2
    <3>. QED
      BY <1>1, <1>5, <1>6, <2>2, <3>1 DEF Queued
  <2>. QED
    BY <1>6, <2>1, <2>2 DEF AfterCommand
<1>7. CASE at = "CMD8"
  <2>1. CASE Fail(0, <<>>)
    BY <1>2, <1>4, <1>7, <2>1 DEF Q
  <2>2. ASSUME NEW t \in {"SC", "HC"}, card' = [card EXCEPT !.card_type = t],
               Send("CMD55", 0, <<>>, m), UNCHANGED ret
        PROVE  Queued("CMD55", 0) /\ card' \in CardType
    <3>1. card' \in CardType
      BY <1>1, <2>2 DEF CardType
    <3>. QED
      BY <1>3, <1>5, <2>2, <3>1
  <2>3. CASE Queued("CMD55", 0) /\ card' \in CardType /\ UNCHANGED ret
    BY <1>1, <1>5, <1>7, <2>3 DEF Queued
  <2>4. Fail(0, <<>>) \/ (/\ \E t \in {"SC", "HC"} : card' = [card EXCEPT !.card_type = t]
                          /\ Send("CMD55", 0, <<>>, m) /\ UNCHANGED ret)
    BY <1>7 DEF AfterCommand
  <2>. QED
    BY <2>1, <2>2, <2>3, <2>4
<1>8. CASE at \in {"CMD55", "ACMD41"}
  <2>1. PICK k \in {"CMD55", "ACMD41", "CMD9"} : Send(k, 0, <<>>, m) /\ UNCHANGED <<card, ret>>
    BY <1>8 DEF AfterCommand
  <2>2. k \in Commands \cap InitSteps /\ Queued(k, 0)
    BY <1>3, <1>5, <2>1
  <2>. QED
    BY <1>1, <1>8, <2>1, <2>2 DEF Queued
<1>9. CASE at = "CMD9"
  <2>1. CASE r # 0
    <3>1. Fail(0, <<>>)
      BY <1>9, <2>1 DEF AfterCommand
    <3>. QED
      BY <1>2, <1>4, <1>9, <2>1, <3>1 DEF Q
  <2>2. CASE r = 0
    <3>1. at' = "csd" /\ tries' = 0 /\ inbox' = <<>> /\ UNCHANGED <<card, ret>>
      BY <1>9, <2>2 DEF AfterCommand
    <3>. QED
      BY <1>1, <1>2, <1>9, <2>2, <3>1 DEF Q
  <2>. QED
    BY <2>1, <2>2
<1>10. CASE at \in {"CMD17", "CMD24"}
  <2>1. CASE r # 0
    <3>1. at' = "none" /\ tries' = 0 /\ ret' = r /\ inbox' = <<>> /\ card' = card
      BY <1>10, <2>1 DEF AfterCommand, Return
    <3>. QED
      BY <1>1, <1>2, <1>10, <2>1, <3>1 DEF Q
  <2>2. CASE r = 0
    <3>1. /\ at' = IF at = "CMD17" THEN "token" ELSE "block"
          /\ tries' = 0 /\ inbox' = <<>> /\ UNCHANGED <<card, ret>>
      BY <1>10, <2>2 DEF AfterCommand
    <3>. QED
      BY <1>1, <1>2, <1>10, <2>2, <3>1 DEF Q
  <2>. QED
    BY <2>1, <2>2
<1>. QED
  BY <1>6, <1>7, <1>8, <1>9, <1>10 DEF Commands

\* The steps of sd_command keep what is not about the transfer.
LEMMA WentKeeps ==
  ASSUME SDInv, at \in Commands, NEW r \in {0, 1, 4, 5, 255}, Went(r),
         data' \in [phase : Phases, sector : -1 .. AddressMod],
         ~(at \in {"CMD9", "CMD17", "CMD24"} /\ r = 0) => data' = NoData,
         at = "CMD24" /\ r = 0 => data'.phase = "receiving",
         mode' \in {"raw", "idle", "warm", "ready"}, slot = Empty => mode' = mode,
         slot = Empty => data' = NoData,
         polls' = 0, UNCHANGED <<slot, call, asked, up, hist>>
  PROVE  /\ TypeOK' /\ OneOutstanding' /\ Paced' /\ Absent' /\ Staged' /\ CardKnown'
         /\ ServedAsked'
         /\ (inbox' # <<>> /\ call' # "block_init" => FALSE)
<1>. USE DEF SDInv, hist
<1>0. at' \in Commands \cup {"none", "csd", "token", "block"}
  BY DEF Went
<1>1. TypeOK'
  <2>1. polls' \in 0 .. Ncr /\ tries' \in 0 .. Retries - 1
    BY SizeFacts DEF Went
  <2>2. data'.phase \in Phases /\ data'.sector \in -1 .. AddressMod
    OBVIOUS
  <2>. QED
    BY <1>0, <2>1, <2>2 DEF TypeOK, Went, CardType, Phases
<1>2. OneOutstanding' /\ Absent'
  BY DEF OneOutstanding, Absent, Went
<1>3. Paced'
  BY DEF Paced, Went
<1>4. CASE at \in {"CMD17", "CMD24"}
  <2>1. card' = card /\ inbox' = <<>> /\ at' \in {"token", "block", "none"}
    BY <1>4 DEF Went
  <2>2. Staged'
    BY <1>4, <2>1 DEF Staged, Went, InitSteps, Commands
  <2>3. CardKnown'
    BY <2>1 DEF CardKnown
  <2>4. ServedAsked'
    BY <1>4, <2>1 DEF ServedAsked, Went
  <2>. QED
    BY <1>1, <1>2, <1>3, <2>1, <2>2, <2>3, <2>4
<1>5. CASE at \notin {"CMD17", "CMD24"}
  <2>1. at \in InitSteps
    BY <1>5 DEF Commands, InitSteps
  <2>2. call' = "block_init" /\ ~fresh' /\ ~fresh
    BY <2>1 DEF Staged
  <2>3. at' \in (Commands \cap InitSteps) \cup {"none", "csd"}
    BY <1>5 DEF Went
  <2>4. at' # "csd" => data' = NoData
    BY <1>5 DEF Went
  <2>5. Staged'
    BY <2>2, <2>3, <2>4 DEF Staged, InitSteps, Commands
  <2>6. CardKnown' /\ ServedAsked'
    BY <2>2 DEF CardKnown, ServedAsked
  <2>. QED
    BY <1>1, <1>2, <1>3, <2>2, <2>5, <2>6
<1>. QED
  BY <1>4, <1>5

\* The driver polls and the card answers.
LEMMA PollAnswerStep ==
  ASSUME SDInv, PollAnswer PROVE SDInv'
<1>. USE DEF PollAnswer
<1>1. PICK o \in Answers(Head(inbox)) :
         mode' = o.mode /\ data' = o.data /\ AfterCommand(o.r, Tail(inbox), o.mode)
  OBVIOUS
<1>2. /\ slot \in Cards
      /\ o.r \in {0, 1, 4, 5} /\ o.mode \in {"raw", "idle", "warm", "ready"}
      /\ o.data \in [phase : Phases, sector : -1 .. AddressMod]
      /\ IF at \in {"CMD9", "CMD17", "CMD24"} /\ o.r = 0
         THEN /\ o.data.phase = IF at = "CMD24" THEN "receiving" ELSE "fetching"
              /\ at # "CMD9" => o.data.sector = SectorAt(slot.kind, Head(inbox).arg)
         ELSE o.data = NoData
  BY AnswerFacts
<1>3. Tail(inbox) = <<>>
  BY HeadType DEF SDInv, TypeOK, OneOutstanding
<1>4. o.r \in {0, 1, 4, 5, 255} /\ Went(o.r)
  <2>1. o.r \in {0, 1, 4, 5, 255}
    BY <1>2
  <2>2. at \in Commands /\ AfterCommand(o.r, <<>>, o.mode)
    BY <1>1, <1>3
  <2>. QED
    BY <2>1, <2>2, AfterCommandEffect
<1>5. slot # Empty
  BY <1>2, EmptyNoCard
<1>6. /\ TypeOK' /\ OneOutstanding' /\ Paced' /\ Absent' /\ Staged' /\ CardKnown'
      /\ ServedAsked' /\ (inbox' # <<>> /\ call' # "block_init" => FALSE)
  BY <1>1, <1>2, <1>4, <1>5, WentKeeps
<1>7. Moving'
  <2>1. SUFFICES ASSUME Sure'
                 PROVE  /\ at' = "token" => data'.phase = "fetching" /\ data'.sector = asked
                        /\ at' = "block" => data'.phase = "receiving" /\ data'.sector = asked
                        /\ at' \notin {"bytes", "busy"}
    BY <1>6 DEF Moving
  <2>2. /\ call # "block_init" /\ fresh /\ asked < card'.size /\ clean
    BY <2>1 DEF Sure, hist
  <2>3. at \in {"CMD17", "CMD24"}
    BY <2>2 DEF SDInv, Staged, InitSteps, Commands
  <2>4. card' = card
    BY <1>4, <2>3 DEF Went
  <2>5. card.card_type = TypeOf(slot.kind) /\ card.size = SizeOf[slot.kind]
    BY <2>2 DEF SDInv, CardKnown
  <2>6. slot.kind \in Kinds /\ asked \in Nat
    BY <1>2, SizeFacts DEF Cards, SDInv, TypeOK
  <2>7. Head(inbox).arg = Address(asked)
    BY <2>2 DEF SDInv, Moving
  <2>8. SectorAt(slot.kind, Head(inbox).arg) = asked
    BY <2>2, <2>4, <2>5, <2>6, <2>7, RightSector
  <2>. QED
    BY <1>1, <1>2, <1>4, <2>3, <2>8 DEF Went
<1>. QED
  BY <1>1, <1>2, <1>6, <1>7 DEF SDInv

\* The driver polls and nothing answers.
LEMMA PollSilentStep ==
  ASSUME SDInv, PollSilent PROVE SDInv'
<1>. USE DEF PollSilent
<1>1. CASE at # "CMD55" /\ GivesUp(tries + 1)
  <2>1. inbox = <<>>
    <3>1. SUFFICES ASSUME inbox # <<>> PROVE FALSE
      OBVIOUS
    <3>2. tries = polls /\ polls < Ncr /\ polls \in Nat /\ tries + 1 >= Retries
      BY <1>1, <3>1 DEF SDInv, TypeOK, Paced, GivesUp
    <3>. QED
      BY <3>2, SizeFacts
  <2>2. AfterCommand(255, <<>>, mode) /\ polls' = 0
    BY <1>1, <2>1
  <2>3. Went(255)
    BY <2>2, AfterCommandEffect
  <2>4. data' = data /\ data = NoData /\ data \in [phase : Phases, sector : -1 .. AddressMod]
    BY DEF SDInv, Staged
  <2>5. mode' = mode /\ mode \in {"raw", "idle", "warm", "ready"}
    BY DEF SDInv, TypeOK
  <2>6. /\ TypeOK' /\ OneOutstanding' /\ Paced' /\ Absent' /\ Staged' /\ CardKnown'
        /\ ServedAsked' /\ (inbox' # <<>> /\ call' # "block_init" => FALSE)
    BY <2>2, <2>3, <2>4, <2>5, WentKeeps
  <2>7. at' \notin {"token", "bytes", "block", "busy"}
    BY <2>3 DEF Went, Commands
  <2>8. Moving'
    BY <2>6, <2>7 DEF Moving
  <2>. QED
    BY <2>4, <2>6, <2>8 DEF SDInv
<1>2. CASE ~(at # "CMD55" /\ GivesUp(tries + 1))
  <2>1. /\ tries' = IF at = "CMD55" THEN tries ELSE tries + 1
        /\ UNCHANGED <<slot, mode, inbox, data, call, at, card, asked, ret, up, hist>>
    BY <1>2
  <2>2. /\ polls' = IF inbox = <<>> THEN 0 ELSE polls + 1
        /\ polls' \in 0 .. Ncr /\ tries' \in 0 .. Retries - 1
    BY <1>2, <2>1, SizeFacts DEF SDInv, TypeOK, GivesUp
  <2>3. TypeOK'
    BY <2>1, <2>2 DEF SDInv, TypeOK, hist
  <2>4. Paced'
    BY <2>1, <2>2 DEF SDInv, Paced
  <2>5. OneOutstanding' /\ Absent' /\ Staged' /\ CardKnown'
    BY <2>1 DEF SDInv, OneOutstanding, Absent, Staged, CardKnown, hist
  <2>6. Moving' /\ ServedAsked'
    BY <2>1 DEF SDInv, Moving, Sure, ServedAsked, Address, hist
  <2>. QED
    BY <2>1, <2>3, <2>4, <2>5, <2>6 DEF SDInv
<1>. QED
  BY <1>1, <1>2

\* The driver waits for the CSD.
LEMMA WaitCSDStep ==
  ASSUME SDInv, WaitCSD PROVE SDInv'
<1>. USE DEF SDInv, WaitCSD
<1>1. /\ data' \in [phase : Phases, sector : -1 .. AddressMod]
      /\ data.phase = "token" => data'.phase = "sending"
      /\ data = NoData => data' = NoData
  BY SizeFacts DEF Phases, NoData
<1>2. TypeOK'
  <2>1. data'.phase \in Phases /\ data'.sector \in -1 .. AddressMod
    BY <1>1
  <2>2. clean' \in BOOLEAN
    OBVIOUS
  <2>. QED
    BY <2>1, <2>2 DEF TypeOK, Phases
<1>3. call = "block_init" /\ ~fresh /\ at' \in {"csd", "csdbytes"}
  BY DEF Staged, InitSteps
<1>4. OneOutstanding' /\ Paced' /\ Absent'
  <2>1. inbox = <<>> /\ polls = 0
    BY NothingLeft DEF Commands
  <2>. QED
    BY <2>1, <1>1 DEF OneOutstanding, Paced, Absent
<1>5. Staged'
  BY <1>1, <1>3 DEF Staged, InitSteps, Commands
<1>6. CardKnown' /\ Moving' /\ ServedAsked'
  BY <1>3 DEF CardKnown, Moving, Sure, ServedAsked
<1>. QED
  BY <1>1, <1>2, <1>4, <1>5, <1>6

\* The driver reads the CSD.
LEMMA ReadCSDStep ==
  ASSUME SDInv, ReadCSD PROVE SDInv'
<1>. USE DEF SDInv, ReadCSD, Return
<1>1. data' \in [phase : Phases, sector : -1 .. AddressMod]
  BY SizeFacts DEF NoData, Phases
<1>2. inbox = <<>> /\ polls = 0
  BY NothingLeft DEF Commands
<1>3. call = "block_init"
  BY DEF Staged, InitSteps
<1>4. data.phase = "sending" => slot \in Cards /\ slot # Empty
  BY DEF Absent, NoData, TypeOK
<1>5. card \in CardType
  BY DEF TypeOK, CardType
<1>6. CASE data.phase = "sending"
  <2>1. slot.kind \in Kinds /\ slot.protected \in BOOLEAN
    BY <1>4, <1>6 DEF Cards
  <2>2. SizeOf[slot.kind] \in Nat /\ TypeOf(slot.kind) \in {"SC", "HC"}
    BY <2>1, SizeFacts DEF TypeOf
  <2>3. card' = FromCSD(card, slot)
    BY <1>6
  <2>4. /\ card' \in CardType /\ card'.card_type = TypeOf(slot.kind)
        /\ card'.size = SizeOf[slot.kind]
        /\ slot.protected => card'.read_only
    BY <1>5, <2>1, <2>2, <2>3 DEF FromCSD, CardType
  <2>. QED
    <3>1. CardKnown'
      BY <2>4 DEF CardKnown
    <3>2. Absent' /\ OneOutstanding' /\ Paced'
      BY <1>2, <1>4, <1>6 DEF Absent, OneOutstanding, Paced
    <3>3. TypeOK'
      <4>1. tries' \in 0 .. Retries - 1 /\ data'.phase = "none" /\ data'.sector \in -1 .. AddressMod
        BY <1>1, SizeFacts DEF NoData
      <4>2. {up', clean', fresh'} \subseteq BOOLEAN
        BY DEF TypeOK
      <4>. QED
        BY <2>4, <4>1, <4>2, <1>2 DEF TypeOK, CardType
    <3>4. Staged' /\ Moving' /\ ServedAsked'
      BY <1>2, <1>3 DEF Staged, Moving, Sure, ServedAsked, InitSteps
    <3>. QED
      BY <1>1, <3>1, <3>2, <3>3, <3>4
<1>7. CASE data.phase # "sending"
  <2>1. ~clean /\ ~fresh'
    BY <1>7 DEF Staged
  <2>2. card' \in CardType
    BY <1>5, <1>7, SizeFacts DEF CardType
  <2>3. CardKnown' /\ Absent' /\ OneOutstanding' /\ Paced'
    BY <1>2, <2>1 DEF CardKnown, Absent, OneOutstanding, Paced
  <2>4. TypeOK'
    <3>1. tries' \in 0 .. Retries - 1 /\ data'.phase = "none" /\ data'.sector \in -1 .. AddressMod
      BY <1>1, SizeFacts DEF NoData
    <3>2. {up', clean', fresh'} \subseteq BOOLEAN
      BY DEF TypeOK
    <3>. QED
      BY <2>2, <3>1, <3>2, <1>2 DEF TypeOK, CardType
  <2>5. Staged' /\ Moving' /\ ServedAsked'
    BY <1>2, <1>3 DEF Staged, Moving, Sure, ServedAsked, InitSteps
  <2>. QED
    BY <1>1, <2>3, <2>4, <2>5
<1>. QED
  BY <1>6, <1>7

\* The driver waits for the token of a block.
LEMMA WaitTokenStep ==
  ASSUME SDInv, WaitToken PROVE SDInv'
<1>. USE DEF SDInv, WaitToken
<1>1. /\ data' \in [phase : Phases, sector : -1 .. AddressMod]
      /\ data.phase = "token" => data'.phase = "sending" /\ data'.sector = data.sector
      /\ data.phase \notin {"token", "error"} => data' = data
      /\ data = NoData => data' = NoData
  BY SizeFacts DEF Phases, NoData
<1>2. TypeOK'
  <2>1. data'.phase \in Phases /\ data'.sector \in -1 .. AddressMod
    BY <1>1
  <2>2. clean' \in BOOLEAN
    OBVIOUS
  <2>. QED
    BY <2>1, <2>2 DEF TypeOK, Phases
<1>3. OneOutstanding' /\ Paced' /\ Absent'
  <2>1. inbox = <<>> /\ polls = 0
    BY NothingLeft DEF Commands
  <2>. QED
    BY <2>1, <1>1 DEF OneOutstanding, Paced, Absent
<1>4. Staged' /\ at' \in {"token", "bytes"}
  BY DEF Staged, InitSteps, Commands
<1>5. CardKnown' /\ ServedAsked'
  BY <1>4 DEF CardKnown, ServedAsked
<1>6. Moving'
  BY <1>1, <1>4 DEF Moving, Sure, Address
<1>. QED
  BY <1>1, <1>2, <1>3, <1>4, <1>5, <1>6

\* The driver reads a block.
LEMMA ReadBlockStep ==
  ASSUME SDInv, ReadBlock PROVE SDInv'
<1>. USE DEF SDInv, ReadBlock, Return
<1>1. data' \in [phase : Phases, sector : -1 .. AddressMod]
  BY SizeFacts DEF NoData, Phases
<1>2. inbox = <<>> /\ polls = 0 /\ at' = "none"
  BY NothingLeft DEF Commands
<1>3. TypeOK'
  <2>1. tries' \in 0 .. Retries - 1 /\ data'.phase = "none" /\ data'.sector \in -1 .. AddressMod
    BY <1>1, SizeFacts DEF NoData
  <2>. QED
    BY <1>2, <2>1 DEF TypeOK
<1>4. OneOutstanding' /\ Paced' /\ Absent' /\ Staged' /\ CardKnown'
  BY <1>2 DEF OneOutstanding, Paced, Absent, Staged, CardKnown, InitSteps
<1>5. Moving' /\ ServedAsked'
  BY <1>2 DEF Moving, Sure, ServedAsked
<1>. QED
  BY <1>1, <1>3, <1>4, <1>5

\* The driver sends a block.
LEMMA WriteBlockStep ==
  ASSUME SDInv, WriteBlock PROVE SDInv'
<1>. USE DEF SDInv, WriteBlock
<1>1. /\ data' \in [phase : Phases, sector : -1 .. AddressMod]
      /\ data = NoData => data' = NoData
      /\ data.phase = "receiving" => data' = NoData \/ data'.phase = "busy"
      /\ clean' /\ data.phase = "receiving" => data'.phase = "busy" /\ data'.sector = data.sector
      /\ clean' => clean
  BY SizeFacts DEF Phases, NoData
<1>2. TypeOK'
  <2>1. data'.phase \in Phases /\ data'.sector \in -1 .. AddressMod
    BY <1>1
  <2>2. clean' \in BOOLEAN
    BY DEF TypeOK
  <2>. QED
    BY <2>1, <2>2 DEF TypeOK, Phases
<1>3. OneOutstanding' /\ Paced' /\ Absent'
  <2>1. inbox = <<>> /\ polls = 0
    BY NothingLeft DEF Commands
  <2>. QED
    BY <2>1, <1>1 DEF OneOutstanding, Paced, Absent
<1>4. Staged' /\ CardKnown' /\ ServedAsked'
  BY <1>1 DEF Staged, InitSteps, Commands, CardKnown, ServedAsked
<1>5. Moving'
  BY <1>1 DEF Moving, Sure, Address
<1>. QED
  BY <1>1, <1>2, <1>3, <1>4, <1>5

\* The driver waits until the card has programmed the block.
LEMMA WaitBusyStep ==
  ASSUME SDInv, WaitBusy PROVE SDInv'
<1>. USE DEF SDInv, WaitBusy, Return, hist
<1>1. inbox = <<>> /\ polls = 0 /\ inbox' = <<>>
  BY NothingLeft DEF Commands
<1>2. CASE data.phase = "busy"
  <2>1. UNCHANGED vars
    BY <1>2 DEF StillBusy, vars, host
  <2>. QED
    BY <2>1 DEF vars, host, TypeOK, OneOutstanding, Paced, Absent, Staged, CardKnown, Moving, Sure,
         ServedAsked, Address
<1>3. CASE data.phase # "busy"
  <2>1. at' = "none" /\ tries' = 0 /\ ret' = 0
    BY <1>3 DEF StillBusy
  <2>2. TypeOK'
    <3>1. tries' \in 0 .. Retries - 1
      BY <2>1, SizeFacts
    <3>. QED
      BY <1>1, <2>1, <3>1 DEF TypeOK
  <2>3. OneOutstanding' /\ Paced' /\ Absent' /\ CardKnown'
    BY <1>1, <2>1 DEF OneOutstanding, Paced, Absent, CardKnown
  <2>4. Staged'
    <3>1. data = NoData /\ data' = NoData
      BY <1>3 DEF Staged
    <3>. QED
      BY <2>1, <3>1 DEF Staged, InitSteps
  <2>5. Moving' /\ ServedAsked'
    BY <1>1, <1>3, <2>1 DEF Moving, Sure, ServedAsked
  <2>. QED
    BY <2>2, <2>3, <2>4, <2>5
<1>. QED
  BY <1>2, <1>3

\* Every step of the driver, of the card and of whoever handles it.
LEMMA SDNext == SDInv /\ [Next]_vars => SDInv'
<1>. SUFFICES ASSUME SDInv, [Next]_vars PROVE SDInv'
  OBVIOUS
<1>1. CASE UNCHANGED vars
  BY <1>1 DEF vars, host, hist, SDInv, TypeOK, OneOutstanding, Paced, Absent, Staged, CardKnown,
         Moving, Sure, ServedAsked, Address
<1>. QED
  BY <1>1, InitStep, TransferStep, PollAnswerStep, PollSilentStep, WaitCSDStep, ReadCSDStep,
     WaitTokenStep, ReadBlockStep, WriteBlockStep, WaitBusyStep, PowerUpStep, FetchStep,
     ProgramStep, RemoveStep, InsertStep
     DEF Next, Driver

(***************************************************************************)
(* The theorems.                                                           *)
(***************************************************************************)

\* The inductive invariant holds in every reachable state.
THEOREM SDInvariant == Spec => []SDInv
<1>. QED
  BY SDInit, SDNext, PTL DEF Spec

\* Every variable has its type; sd_command stops within SD_RETRIES polls.
THEOREM SDTypes == Spec => []TypeOK
<1>1. SDInv => TypeOK
  BY DEF SDInv
<1>. QED
  BY <1>1, SDInvariant, PTL

\* Whatever was pulled out or given up before, the response sd_command reads is
\* that of the command it sent, for any card that answers before SD_RETRIES.
THEOREM SDOneOutstanding == Spec => []OneOutstanding
<1>1. SDInv => OneOutstanding
  BY DEF SDInv
<1>. QED
  BY <1>1, SDInvariant, PTL

\* After a block_init without interference card holds the type, the size and
\* the protection of the card in the slot, until that card is removed.
THEOREM SDCardKnown == Spec => []CardKnown
<1>1. SDInv => CardKnown
  BY DEF SDInv
<1>. QED
  BY <1>1, SDInvariant, PTL

\* block_read and block_write that return 0 on a known card have moved the
\* sector asked for, for any card whose byte addresses fit 32 bits.
THEOREM SDServedAsked == Spec => []ServedAsked
<1>1. SDInv => ServedAsked
  BY DEF SDInv
<1>. QED
  BY <1>1, SDInvariant, PTL
=============================================================================
