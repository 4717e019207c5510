---------------------------- MODULE SpiSd_proofs ----------------------------
(***************************************************************************)
(* The invariants of the SPI port and the SD card, for every block size,   *)
(* card size, delay and clock: the card owes no bytes while it waits for a *)
(* command, never runs over a reply, and stands where the block it serves  *)
(* says.  The refinement of SDStream follows from the last of them.        *)
(***************************************************************************)
EXTENDS SpiSd, SequenceTheorems, TLAPS

\* Two blocks fit a card: it is a whole number of blocks long, and longer than one.
LEMMA TwoBlocks == 2 * BlockSize <= CardSize
<1> USE SizeAssumption
<1> DEFINE p == CardSize \div BlockSize
<1>1. p \in Nat /\ CardSize = BlockSize * p BY SMT
<1> HIDE DEF p
<1>2. p # 0 /\ p # 1 BY <1>1
<1>3. p >= 2 BY <1>1, <1>2
<1>4. BlockSize * p >= BlockSize * 2 BY <1>1, <1>3
<1> QED BY <1>1, <1>4

\* The addresses of a block's bytes: those of the last bytes of the card are followed by
\* the first one, those of a block that begins in the MBR are not.
LEMMA Addresses ==
  ASSUME NEW a \in Address, NEW n \in 0 .. BlockSize
  PROVE  /\ a \in Nat /\ a < CardSize
         /\ Behind(a, n) = IF a + n < CardSize THEN a + n ELSE a + n - CardSize
         /\ Behind(a, n) \in Address
         /\ a < BlockSize => Behind(a, n) = a + n
         /\ Behind(a, 0) = a
<1> USE SizeAssumption, TwoBlocks
<1>1. a \in Nat /\ a < CardSize /\ n \in Nat /\ n <= BlockSize BY DEF Address
<1>2. (a + n) % CardSize = IF a + n < CardSize THEN a + n ELSE a + n - CardSize BY <1>1
<1>3. (a + 0) % CardSize = a BY <1>1
<1> QED BY <1>1, <1>2, <1>3 DEF Behind, Address

\* The byte behind the n-th one of a block is the next one.
LEMMA Onward ==
  ASSUME NEW a \in Address, NEW n \in 0 .. BlockSize - 1
  PROVE  /\ (Behind(a, n) + 1) % CardSize = Behind(a, n + 1)
         /\ a < BlockSize => Behind(a, n) + 1 = Behind(a, n + 1)
<1> USE SizeAssumption, TwoBlocks
<1>1. a \in Nat /\ a < CardSize /\ n \in Nat /\ n + 1 \in 0 .. BlockSize /\ n \in 0 .. BlockSize
  BY DEF Address
<1>2. Behind(a, n) = IF a + n < CardSize THEN a + n ELSE a + n - CardSize
  BY <1>1, Addresses
<1>3. Behind(a, n + 1) = IF a + (n + 1) < CardSize THEN a + (n + 1) ELSE a + (n + 1) - CardSize
  BY <1>1, Addresses
<1>4. ASSUME NEW x \in 0 .. CardSize - 1
      PROVE  (x + 1) % CardSize = IF x + 1 < CardSize THEN x + 1 ELSE 0
  OBVIOUS
<1>5. Behind(a, n) \in 0 .. CardSize - 1 BY <1>1, <1>2
<1>6. (Behind(a, n) + 1) % CardSize = IF Behind(a, n) + 1 < CardSize THEN Behind(a, n) + 1 ELSE 0
  BY <1>4, <1>5
<1> QED BY <1>1, <1>2, <1>3, <1>5, <1>6

\* A block at a block address ends before the next one, and before the end of the card.
LEMMA AlignedBlocks ==
  ASSUME NEW a \in Address, a % BlockSize = 0
  PROVE  a + BlockSize <= CardSize /\ (a < BlockSize => a = 0)
<1> USE SizeAssumption
<1> DEFINE q == a \div BlockSize
           p == CardSize \div BlockSize
<1>1. a \in Nat /\ a < CardSize BY DEF Address
<1>2. q \in Nat /\ p \in Nat /\ a = BlockSize * q /\ CardSize = BlockSize * p
  BY <1>1
<1> HIDE DEF q, p
<1>3. q + 1 <= p
  <2> SUFFICES ASSUME p <= q PROVE FALSE BY <1>2
  <2>1. BlockSize * p <= BlockSize * q BY <1>2
  <2> QED BY <2>1, <1>1, <1>2
<1>4. BlockSize * (q + 1) <= BlockSize * p BY <1>2, <1>3
<1>5. BlockSize * (q + 1) = a + BlockSize BY <1>2
<1>6. a < BlockSize => a = 0 BY <1>1
<1> QED BY <1>2, <1>4, <1>5, <1>6

Pending == Seq(CardBytes) \ {<<>>}

\* Every reply is a non-empty sequence of bytes of the card.
LEMMA ReplyType ==
  /\ \A command \in Commands : Reply[command] \in Pending
  /\ BlockEnd \in Pending /\ BlockGap \in Pending
<1>1. BlockEnd \in Pending /\ BlockGap \in Pending
  BY DEF Pending, BlockEnd, BlockGap, CardBytes
<1>2. Commands = {"CMD0", "CMD1", "CMD8", "CMD12", "CMD17", "CMD18", "CMD24", "ACMD41",
                  "CMD55", "CMD58", "unknown"}
  BY DEF Commands, Reply
<1>3. /\ Reply["CMD0"] \in Pending /\ Reply["CMD1"] \in Pending /\ Reply["CMD8"] \in Pending
      /\ Reply["CMD12"] \in Pending
  BY DEF Reply, Pending, CardBytes
<1>4. /\ Reply["CMD17"] \in Pending /\ Reply["CMD18"] \in Pending /\ Reply["CMD24"] \in Pending
      /\ Reply["ACMD41"] \in Pending
  BY DEF Reply, Pending, CardBytes
<1>5. /\ Reply["CMD55"] \in Pending /\ Reply["CMD58"] \in Pending
      /\ Reply["unknown"] \in Pending
  BY DEF Reply, Pending, CardBytes
<1> QED BY <1>1, <1>2, <1>3, <1>4, <1>5

\* Sending the next byte of a reply.
LEMMA SendByte ==
  ASSUME NEW r \in Pending
  PROVE  Head(r) \in CardBytes /\ Tail(r) \in Seq(CardBytes)
BY HeadTailProperties DEF Pending

IInv == TypeOK /\ CommandStatesClean /\ ReplyNeverOverruns /\ CardInStep

\* The power-on state of avr8 and init_sd satisfies the invariant.
LEMMA InitIInv == Init => IInv
<1> SUFFICES ASSUME Init PROVE IInv
  OBVIOUS
<1>1. 0 \in Address
  BY SizeAssumption DEF Address
<1>2. "unknown" \in Commands BY DEF Commands, Reply
<1>3. <<>> \in Seq(CardBytes) OBVIOUS
<1>4. TypeOK
  <2>1. 0 \in 0 .. BlockSize /\ 0 \in 0 .. BlockDelay BY SizeAssumption, ClockAssumption
  <2> QED BY <1>1, <1>2, <1>3, <2>1 DEF Init, TypeOK, CardBytes
<1>5. CommandStatesClean /\ ReplyNeverOverruns /\ CardInStep
  BY DEF Init, CommandStatesClean, ReplyNeverOverruns, CardInStep, Session, ReplyStates, DataStates
<1> QED BY <1>4, <1>5 DEF IInv

\* The card's part of the invariant, for a step of the card's state machine.
CardType == /\ SPDR \in HostBytes \cup CardBytes
            /\ spiState \in {"IDLE"} \cup ArgStates \cup ReplyStates \cup DataStates
            /\ spiCommand \in Commands /\ spiArg \in Address
            /\ spiByteCount \in 0 .. BlockSize
            /\ spiCommandDelay \in 0 .. BlockDelay
            /\ response \in Seq(CardBytes)
            /\ inMBR \in BOOLEAN /\ position \in Nat

CardInv == CardType /\ CommandStatesClean /\ ReplyNeverOverruns /\ CardInStep

\* One step of the card (update_spi) keeps it, whatever its state was.
LEMMA UpdateSpiInv ==
  ASSUME CardInv, spiByte \in HostBytes, UpdateSpi PROVE CardInv'
<1> USE SizeAssumption, ClockAssumption
        DEF CardInv, CardType, CommandStatesClean, ReplyNeverOverruns, CardInStep, Session,
            Served, ArgStates, ReplyStates, DataStates, still
<1>1. CASE Idle
  <2>1. spiByte # "FF" => spiByte \in Commands BY IssuedAssumption DEF HostBytes
  <2> QED BY <1>1, <2>1 DEF Idle, CardBytes
<1>2. CASE Argument
  BY <1>2 DEF Argument, CardBytes
<1>3. CASE Execute
  <2>1. Reply[spiCommand] \in Pending BY ReplyType
  <2>2. spiArg \in Nat /\ Behind(spiArg, 0) = spiArg BY Addresses
  <2>3. spiByteCount = 0 BY <1>3 DEF Execute
  <2>4. CASE spiCommand \in {"CMD17", "CMD24"}
    <3>1. spiByteCount' = BlockSize /\ spiCommandDelay' = spiCommandDelay
      BY <1>3, <2>4 DEF Execute, CountAfter
    <3>2. position' = spiArg /\ inMBR' = (spiArg < BlockSize)
      BY <1>3, <2>4 DEF Execute, Seeks, SDSeekToOffset
    <3>3. spiState' \in {"RESPOND_SINGLE", "WRITE_SINGLE"}
      BY <1>3, <2>4 DEF Execute, StateAfter
    <3>4. Served' = 0 BY <3>3
    <3> HIDE DEF Served
    <3>5. CardType'
      BY <1>3, <2>1, <2>2, <3>1, <3>2, <3>3 DEF Execute, Pending, CardBytes
    <3>6. CommandStatesClean' /\ ReplyNeverOverruns'
      BY <1>3, <2>1, <3>3 DEF Execute, Pending
    <3>7. CardInStep'
      BY <1>3, <2>2, <3>1, <3>2, <3>3, <3>4 DEF Execute
    <3> QED BY <3>5, <3>6, <3>7
  <2>5. CASE spiCommand = "CMD18"
    <3>1. spiByteCount' = 0 /\ spiCommandDelay' = 0
      BY <1>3, <2>5 DEF Execute, CountAfter
    <3>2. position' = spiArg /\ inMBR' = (spiArg < BlockSize)
      BY <1>3, <2>5 DEF Execute, Seeks, SDSeekToOffset
    <3>3. spiState' = "RESPOND_MULTI"
      BY <1>3, <2>5 DEF Execute, StateAfter
    <3>4. Served' = 0 BY <3>3
    <3> HIDE DEF Served
    <3>5. CardType'
      BY <1>3, <2>1, <2>2, <3>1, <3>2, <3>3 DEF Execute, Pending, CardBytes
    <3>6. CommandStatesClean' /\ ReplyNeverOverruns'
      BY <1>3, <2>1, <3>3 DEF Execute, Pending
    <3>7. CardInStep'
      BY <1>3, <2>2, <3>1, <3>2, <3>3, <3>4 DEF Execute
    <3> QED BY <3>5, <3>6, <3>7
  <2>6. CASE spiCommand \notin {"CMD17", "CMD24", "CMD18"}
    <3>1. spiByteCount' = 0 /\ spiCommandDelay' = spiCommandDelay
      BY <1>3, <2>3, <2>6 DEF Execute, CountAfter
    <3>2. spiState' = "RESPOND_SINGLE" /\ UNCHANGED still
      BY <1>3, <2>6 DEF Execute, StateAfter, Seeks
    <3> QED BY <1>3, <2>1, <3>1, <3>2 DEF Execute, Pending, CardBytes
  <2> QED BY <2>4, <2>5, <2>6
<1>4. CASE RespondSingle
  <2>1. Head(response) \in CardBytes /\ Tail(response) \in Seq(CardBytes)
    BY <1>4, SendByte DEF RespondSingle, Pending
  <2> QED BY <1>4, <2>1 DEF RespondSingle, More, AfterReply
<1>5. CASE RespondMulti
  <2>1. Head(response) \in CardBytes /\ Tail(response) \in Seq(CardBytes)
    BY <1>5, SendByte DEF RespondMulti, Pending
  <2>2. spiArg \in Nat /\ Behind(spiArg, 0) = spiArg BY Addresses
  <2>3. /\ position = spiArg /\ (inMBR <=> spiArg < BlockSize)
        /\ UNCHANGED <<spiCommand, spiArg, position, inMBR>>
    BY <1>5, <2>2 DEF RespondMulti
  <2>4. CASE spiCommandDelay # 0
    <3>1. spiCommandDelay - 1 \in 0 .. BlockDelay BY <2>4
    <3>2. /\ spiCommandDelay' = spiCommandDelay - 1 /\ SPDR' = "FF"
          /\ UNCHANGED <<spiState, response, spiByteCount>>
      BY <1>5, <2>4 DEF RespondMulti
    <3>3. Served' = 0 BY <1>5, <3>2 DEF RespondMulti
    <3> HIDE DEF Served
    <3>4. CardType' BY <2>3, <3>1, <3>2 DEF CardBytes
    <3>5. CommandStatesClean' /\ ReplyNeverOverruns' BY <1>5, <3>2 DEF RespondMulti
    <3>6. CardInStep' BY <1>5, <2>2, <2>3, <3>2, <3>3 DEF RespondMulti
    <3> QED BY <3>4, <3>5, <3>6
  <2>5. CASE spiCommandDelay = 0
    <3>1. spiCommandDelay' \in 0 .. BlockDelay BY <1>5, <2>5 DEF RespondMulti
    <3>2. CASE More
      <4>1. /\ SPDR' = Head(response) /\ response' = Tail(response)
            /\ Tail(response) # <<>> /\ UNCHANGED <<spiState, spiByteCount>>
        BY <1>5, <2>5, <3>2 DEF RespondMulti, More
      <4>2. Served' = 0 BY <1>5, <4>1 DEF RespondMulti
      <4> HIDE DEF Served
      <4>3. CardType' BY <2>1, <2>3, <3>1, <4>1
      <4>4. CommandStatesClean' /\ ReplyNeverOverruns' BY <1>5, <4>1 DEF RespondMulti
      <4>5. CardInStep' BY <1>5, <2>2, <2>3, <4>1, <4>2 DEF RespondMulti
      <4> QED BY <4>3, <4>4, <4>5
    <3>3. CASE ~More
      <4>1. spiState' = "READ_MULTIPLE_BLOCK" /\ spiByteCount' = BlockSize
        BY <1>5, <2>5, <3>3 DEF RespondMulti
      <4>2. Served' = 0 BY <4>1
      <4> QED BY <1>5, <2>1, <2>2, <2>3, <2>5, <3>1, <4>1, <4>2 DEF RespondMulti
    <3> QED BY <3>2, <3>3
  <2> QED BY <2>4, <2>5
<1>6. CASE ReadSingleBlock
  <2>1. spiByteCount >= 1 /\ BlockSize - spiByteCount \in 0 .. BlockSize - 1
    BY <1>6 DEF ReadSingleBlock
  <2>2. /\ position = Behind(spiArg, BlockSize - spiByteCount)
        /\ (inMBR <=> spiArg < BlockSize) /\ UNCHANGED <<spiArg, inMBR>>
        /\ UNCHANGED <<spiCommand, spiCommandDelay>> /\ SPDR' = "data"
    BY <1>6 DEF ReadSingleBlock, SDReadByte
  <2>3. spiByteCount' = spiByteCount - 1 /\ spiByteCount - 1 \in 0 .. BlockSize
    BY <1>6, <2>1 DEF ReadSingleBlock
  <2>4. position' = Behind(spiArg, BlockSize - spiByteCount + 1)
    <3>1. position' = (IF inMBR THEN position + 1 ELSE (position + 1) % CardSize)
      BY <1>6 DEF ReadSingleBlock, SDReadByte
    <3> QED BY <2>1, <2>2, <3>1, Onward
  <2>5. BlockSize - spiByteCount + 1 = BlockSize - (spiByteCount - 1)
        /\ BlockSize - (spiByteCount - 1) \in 0 .. BlockSize
    BY <2>1
  <2>6. position' \in Nat BY <2>4, <2>5, Addresses DEF Address
  <2>7. CASE spiByteCount = 1
    BY <1>6, <2>2, <2>3, <2>6, <2>7, ReplyType DEF ReadSingleBlock, Pending, CardBytes
  <2>8. CASE spiByteCount # 1
    <3>1. spiByteCount - 1 >= 1 BY <2>1, <2>8
    <3>2. UNCHANGED <<response, spiState>> BY <1>6, <2>8 DEF ReadSingleBlock
    <3>3. Served' = BlockSize - (spiByteCount - 1) BY <1>6, <2>3, <3>2 DEF ReadSingleBlock
    <3> HIDE DEF Served
    <3>4. CardType' BY <2>2, <2>3, <2>6, <3>2 DEF CardBytes
    <3>5. CommandStatesClean' /\ ReplyNeverOverruns' BY <1>6, <3>2 DEF ReadSingleBlock
    <3>6. CardInStep' BY <1>6, <2>2, <2>3, <2>4, <2>5, <3>1, <3>2, <3>3 DEF ReadSingleBlock
    <3> QED BY <3>4, <3>5, <3>6
  <2> QED BY <2>7, <2>8
<1>7. CASE StopReading
  BY <1>7 DEF StopReading, CardBytes, Commands, Reply
<1>8. CASE ReadMultipleBlock
  <2>1. spiByteCount >= 1 /\ BlockSize - spiByteCount \in 0 .. BlockSize - 1
    BY <1>8 DEF ReadMultipleBlock
  <2>2. /\ position = Behind(spiArg, BlockSize - spiByteCount)
        /\ (inMBR <=> spiArg < BlockSize)
        /\ UNCHANGED <<spiCommand, spiCommandDelay>> /\ SPDR' = "data"
    BY <1>8 DEF ReadMultipleBlock, SDReadByte
  <2>3. CASE spiByteCount = 1
    <3>1. NextBlock \in Address /\ NextBlock \in Nat /\ Behind(NextBlock, 0) = NextBlock
      <4>1. BlockSize \in 0 .. BlockSize OBVIOUS
      <4>2. NextBlock \in Address BY <4>1, Addresses DEF NextBlock, Behind
      <4> QED BY <4>2, Addresses
    <3>2. /\ spiArg' = NextBlock /\ position' = NextBlock
          /\ inMBR' = (NextBlock < BlockSize)
          /\ spiByteCount' = BlockSize /\ spiState' = "RESPOND_MULTI"
          /\ response' = BlockGap
      BY <1>8, <2>3 DEF ReadMultipleBlock, SDSeekToOffset
    <3>3. Served' = 0 BY <3>2
    <3> HIDE DEF Served
    <3>4. CardType' BY <2>2, <3>1, <3>2, ReplyType DEF Pending, CardBytes
    <3>5. CommandStatesClean' /\ ReplyNeverOverruns' BY <3>2, ReplyType DEF Pending
    <3>6. CardInStep' BY <3>1, <3>2, <3>3
    <3> QED BY <3>4, <3>5, <3>6
  <2>4. CASE spiByteCount # 1
    <3>1. BlockSize - spiByteCount + 1 = BlockSize - (spiByteCount - 1)
          /\ BlockSize - (spiByteCount - 1) \in 0 .. BlockSize
          /\ spiByteCount - 1 >= 1 /\ spiByteCount - 1 \in 0 .. BlockSize
      BY <2>1, <2>4
    <3>2. /\ position' = (IF inMBR THEN position + 1 ELSE (position + 1) % CardSize)
          /\ spiByteCount' = spiByteCount - 1
          /\ UNCHANGED <<spiArg, response, spiState, inMBR>>
      BY <1>8, <2>4 DEF ReadMultipleBlock, SDReadByte
    <3>3. position' = Behind(spiArg, BlockSize - (spiByteCount - 1))
      BY <2>1, <2>2, <3>1, <3>2, Onward
    <3>4. position' \in Nat BY <3>1, <3>3, Addresses DEF Address
    <3>5. Served' = BlockSize - (spiByteCount - 1) BY <1>8, <3>2 DEF ReadMultipleBlock
    <3> HIDE DEF Served
    <3>6. CardType' BY <2>2, <3>1, <3>2, <3>4 DEF CardBytes
    <3>7. CommandStatesClean' /\ ReplyNeverOverruns' BY <1>8, <3>2 DEF ReadMultipleBlock
    <3>8. CardInStep' BY <1>8, <2>2, <3>1, <3>2, <3>3, <3>5 DEF ReadMultipleBlock
    <3> QED BY <3>6, <3>7, <3>8
  <2> QED BY <2>3, <2>4
<1>9. CASE WriteSingle
  <2>1. Head(response) \in CardBytes /\ Tail(response) \in Seq(CardBytes)
    BY <1>9, SendByte DEF WriteSingle, Pending
  <2> QED BY <1>9, <2>1 DEF WriteSingle, More
<1>10. CASE WriteSingleBlock
  BY <1>10, ReplyType DEF WriteSingleBlock, Pending, CardBytes
<1> QED BY <1>1, <1>2, <1>3, <1>4, <1>5, <1>6, <1>7, <1>8, <1>9, <1>10 DEF UpdateSpi

\* An access to the port leaves the card alone.
LEMMA PortWriteInv == IInv /\ PortWrite => IInv'
<1> SUFFICES ASSUME IInv, PortWrite PROVE IInv'
  OBVIOUS
<1> USE DEF IInv, TypeOK, card
<1>1. ASSUME UNCHANGED card
      PROVE  CommandStatesClean' /\ ReplyNeverOverruns' /\ CardInStep'
  BY <1>1 DEF CommandStatesClean, ReplyNeverOverruns, CardInStep, Session, Served
<1>2. ASSUME NEW v \in HostBytes, WriteSPDR(v) PROVE IInv'
  <2>1. /\ SPIF' \in BOOLEAN /\ spiTransfer' \in BOOLEAN /\ ran' \in BOOLEAN
        /\ UNCHANGED SPE
    BY <1>2 DEF WriteSPDR, FlipSPIF
  <2>2. /\ spiByte' \in HostBytes \cup {"00"} /\ (spiTransfer' => spiByte' \in HostBytes)
        /\ spiClock' \in Nat /\ UNCHANGED spiCycleWait
    BY <1>2 DEF WriteSPDR
  <2>3. TypeOK' BY <1>2, <2>1, <2>2 DEF WriteSPDR
  <2> QED BY <1>1, <1>2, <2>3 DEF WriteSPDR
<1>3. ASSUME NEW enable \in BOOLEAN, NEW w \in Waits, WriteSPCR(enable, w) PROVE IInv'
  BY <1>1, <1>3, ClockAssumption DEF WriteSPCR
<1>4. ASSUME NEW flag \in BOOLEAN, NEW w \in Waits, WriteSPSR(flag, w) PROVE IInv'
  BY <1>1, <1>4, ClockAssumption DEF WriteSPSR
<1> QED BY <1>2, <1>3, <1>4 DEF PortWrite

\* So does the end of a transfer, which runs that step ...
LEMMA CompleteInv == IInv /\ Complete => IInv'
<1> SUFFICES ASSUME IInv, NEW cycles \in 1 .. MaxCycles, NEW taken \in BOOLEAN,
                    EndTransfer(cycles, taken)
             PROVE  IInv'
  BY DEF Complete
<1>1. CardInv BY DEF IInv, TypeOK, CardInv, CardType
<1>2. spiByte \in HostBytes BY DEF EndTransfer, IInv, TypeOK
<1>3. CardInv' BY <1>1, <1>2, UpdateSpiInv DEF EndTransfer
<1>4. TypeOK' BY <1>3 DEF CardInv, CardType, EndTransfer, IInv, TypeOK
<1> QED BY <1>3, <1>4 DEF CardInv, IInv

\* ... an instruction that ends no transfer ...
LEMMA ContinueInv == IInv /\ Continue => IInv'
<1> SUFFICES ASSUME IInv, NEW cycles \in 1 .. MaxCycles, NEW taken \in BOOLEAN,
                    KeepTransfer(cycles, taken)
             PROVE  IInv'
  BY DEF Continue
<1> USE DEF IInv, TypeOK, card
<1>1. CommandStatesClean' /\ ReplyNeverOverruns' /\ CardInStep'
  BY DEF KeepTransfer, CommandStatesClean, ReplyNeverOverruns, CardInStep, Session, Served
<1>2. SPE /\ spiTransfer => spiClock - cycles \in Nat
  BY ClockAssumption DEF KeepTransfer
<1>3. TypeOK' BY <1>2 DEF KeepTransfer
<1> QED BY <1>1, <1>3

\* ... and every step.
LEMMA NextInv == IInv /\ [Next]_vars => IInv'
<1>1. IInv /\ UNCHANGED vars => IInv'
  BY DEF vars, IInv, TypeOK, CommandStatesClean, ReplyNeverOverruns, CardInStep, Session, Served
<1> QED BY <1>1, PortWriteInv, CompleteInv, ContinueInv DEF Next

\* The inductive invariant holds in every reachable state: the type invariant,
\* the clean command states, the bounded replies and the card that stands in step.
THEOREM Invariance == Spec => []IInv
<1> QED BY InitIInv, NextInv, PTL DEF Spec

\* Every variable of the port and the card keeps its type.
THEOREM TypeCorrect == Spec => []TypeOK
<1>1. IInv => TypeOK BY DEF IInv
<1> QED BY <1>1, Invariance, PTL

\* The card owes no bytes while it waits for a command.
THEOREM CommandsStartClean == Spec => []CommandStatesClean
<1>1. IInv => CommandStatesClean BY DEF IInv
<1> QED BY <1>1, Invariance, PTL

\* The reply pointer never runs over the end of the reply.
THEOREM RepliesBounded == Spec => []ReplyNeverOverruns
<1>1. IInv => ReplyNeverOverruns BY DEF IInv
<1> QED BY <1>1, Invariance, PTL

\* The card stands where the block that it serves says.
THEOREM InStep == Spec => []CardInStep
<1>1. IInv => CardInStep BY DEF IInv
<1> QED BY <1>1, Invariance, PTL

\* A byte comes from the part of the card in which its address lies exactly until the block
\* crosses the end of the MBR, or the last address, which a block at a block address does
\* not: this is all that keeps SDReadByte inside emulatedMBR (avr8.cpp:2426-2461).
THEOREM RightPart == Spec => []PartOfCard
<1>1. IInv => PartOfCard
  <2> SUFFICES ASSUME IInv, spiState \in {"READ_SINGLE_BLOCK", "READ_MULTIPLE_BLOCK"}
               PROVE  /\ ~Crossed <=> (inMBR <=> position < BlockSize)
                      /\ spiArg % BlockSize = 0 => ~Crossed
    BY DEF PartOfCard
  <2>1. spiArg \in Address /\ spiByteCount \in 1 .. BlockSize
    BY SizeAssumption DEF IInv, TypeOK, CardInStep, DataStates
  <2>2. position = Behind(spiArg, Served) /\ (inMBR <=> spiArg < BlockSize)
    BY DEF IInv, CardInStep, Session
  <2>3. Served \in 0 .. BlockSize - 1 BY <2>1, SizeAssumption DEF Served, DataStates
  <2> HIDE DEF Served
  <2>4. /\ spiArg \in Nat /\ spiArg < CardSize
        /\ position = IF spiArg + Served < CardSize THEN spiArg + Served
                      ELSE spiArg + Served - CardSize
    BY <2>1, <2>2, <2>3, Addresses, SizeAssumption
  <2>5. ~Crossed <=> (inMBR <=> position < BlockSize)
    BY <2>2, <2>3, <2>4, SizeAssumption, TwoBlocks DEF Crossed
  <2>6. ASSUME spiArg % BlockSize = 0 PROVE ~Crossed
    BY <2>1, <2>3, <2>4, <2>6, AlignedBlocks, SizeAssumption DEF Crossed
  <2> QED BY <2>5, <2>6
<1> QED BY <1>1, Invariance, PTL
-----------------------------------------------------------------------------
(* The start token *)

\* A reply that leads into a data block ends in the start token.  StartToken needs it of
\* every state in which the reply is still under way, not only of its last byte.
Announced == response # <<>> /\ response[Len(response)] = "FE"
Announces ==
    \/ spiState = "RESPOND_SINGLE" /\ spiByteCount # 0
    \/ spiState \in {"RESPOND_MULTI", "WRITE_SINGLE"}
TokenInv == Announces => Announced

\* Sending a byte leaves the end of a reply where it was, until that end is sent.
LEMMA SendToken ==
  ASSUME response \in Pending, Announced
  PROVE  /\ Tail(response) = <<>> => Head(response) = "FE"
         /\ response' = Tail(response) /\ Tail(response) # <<>> => Announced'
<1> DEFINE n == Len(response)
           t == Tail(response)
<1>1. /\ response \in Seq(CardBytes) /\ response # <<>> /\ n \in Nat /\ n >= 1
      /\ t \in Seq(CardBytes) /\ Len(t) = n - 1
      /\ \A i \in 1 .. n - 1 : t[i] = response[i + 1]
      /\ Head(response) = response[1]
  BY HeadTailProperties, EmptySeq DEF Pending
<1>2. response[n] = "FE" BY DEF Announced
<1> HIDE DEF n
<1>3. t = <<>> => n = 1
  <2>1. t = <<>> => Len(t) = 0 BY EmptySeq
  <2> QED BY <1>1, <2>1
<1>4. t # <<>> => t[n - 1] = "FE"
  <2>1. t # <<>> => Len(t) # 0 BY <1>1, EmptySeq
  <2> QED BY <1>1, <1>2, <2>1
<1> HIDE DEF t
<1>5. response' = t /\ t # <<>> => Announced' BY <1>1, <1>4 DEF Announced
<1> QED BY <1>1, <1>2, <1>3, <1>5 DEF t

\* The replies that lead into a block, and the gap between two blocks, end in the token.
LEMMA TokensSent ==
  /\ \A command \in Seeks : Reply[command] # <<>> /\ Reply[command][Len(Reply[command])] = "FE"
  /\ BlockGap # <<>> /\ BlockGap[Len(BlockGap)] = "FE"
BY DEF Reply, Seeks, BlockGap

\* No step of the card starts a block that the token has not announced.
LEMMA UpdateSpiToken ==
  ASSUME CardInv, TokenInv, UpdateSpi
  PROVE  /\ TokenInv'
         /\ spiState \notin DataStates /\ spiState' \in DataStates => SPDR' = "FE"
<1> USE DEF TokenInv, DataStates
<1>1. CASE Idle
  BY <1>1 DEF Idle, Announces
<1>2. CASE Argument
  BY <1>2 DEF Argument, Announces
<1>3. CASE Execute
  <2>1. Announces' => spiCommand \in Seeks
    <3>1. spiByteCount = 0
      BY <1>3 DEF Execute, CardInv, CommandStatesClean, ArgStates
    <3>2. spiCommand \notin Seeks => spiState' = "RESPOND_SINGLE" /\ spiByteCount' = 0
      BY <1>3, <3>1 DEF Execute, StateAfter, CountAfter, Seeks
    <3> QED BY <3>2 DEF Announces
  <2>2. Announces' => Announced' BY <1>3, <2>1, TokensSent DEF Execute, Announced
  <2>3. spiState' \notin DataStates BY <1>3 DEF Execute, StateAfter
  <2> QED BY <2>2, <2>3
<1>4. CASE RespondSingle
  <2>1. response \in Pending /\ spiState = "RESPOND_SINGLE" /\ UNCHANGED spiByteCount
        /\ SPDR' = Head(response) /\ response' = Tail(response)
    BY <1>4 DEF RespondSingle, CardInv, CardType, ReplyNeverOverruns, ReplyStates, Pending
  <2>2. CASE More
    <3>1. spiState' = "RESPOND_SINGLE" BY <1>4, <2>1, <2>2 DEF RespondSingle
    <3>2. Announces' => Announces BY <2>1, <3>1 DEF Announces
    <3>3. Announces => Announced' BY <2>1, <2>2, SendToken DEF More
    <3> QED BY <3>1, <3>2, <3>3
  <2>3. CASE ~More
    <3>1. spiState' = AfterReply BY <1>4, <2>3 DEF RespondSingle
    <3>2. ~Announces' /\ (spiState' \in DataStates => Announces)
      BY <2>1, <3>1 DEF AfterReply, Announces
    <3>3. Announces => SPDR' = "FE" BY <2>1, <2>3, SendToken DEF More
    <3> QED BY <3>2, <3>3
  <2> QED BY <2>2, <2>3
<1>5. CASE RespondMulti
  <2>1. response \in Pending /\ spiState = "RESPOND_MULTI" /\ Announced
    BY <1>5 DEF RespondMulti, CardInv, CardType, ReplyNeverOverruns, ReplyStates, Pending, Announces
  <2>2. CASE spiCommandDelay # 0
    <3>1. UNCHANGED <<spiState, response>> BY <1>5, <2>2 DEF RespondMulti
    <3> QED BY <2>1, <3>1 DEF Announced
  <2>3. CASE spiCommandDelay = 0
    <3>1. /\ SPDR' = Head(response) /\ response' = Tail(response)
          /\ spiState' = IF More THEN spiState ELSE "READ_MULTIPLE_BLOCK"
      BY <1>5, <2>3 DEF RespondMulti
    <3>2. More => Announced' BY <2>1, <3>1, SendToken DEF More
    <3>3. ~More => SPDR' = "FE" BY <2>1, <3>1, SendToken DEF More
    <3>4. ~More => ~Announces' BY <3>1 DEF Announces
    <3> QED BY <2>1, <3>1, <3>2, <3>3, <3>4
  <2> QED BY <2>2, <2>3
<1>6. CASE ReadSingleBlock
  <2>1. spiState \in DataStates BY <1>6 DEF ReadSingleBlock
  <2>2. spiByteCount \in Nat BY DEF CardInv, CardType
  <2>3. ~Announces' BY <1>6, <2>2 DEF ReadSingleBlock, Announces
  <2> QED BY <2>1, <2>3
<1>7. CASE StopReading
  BY <1>7 DEF StopReading, Announces
<1>8. CASE ReadMultipleBlock
  <2>1. spiState \in DataStates BY <1>8 DEF ReadMultipleBlock
  <2>2. Announces' => response' = BlockGap BY <1>8 DEF ReadMultipleBlock, Announces
  <2> QED BY <2>1, <2>2, TokensSent DEF Announced
<1>9. CASE WriteSingle
  <2>1. response \in Pending /\ spiState = "WRITE_SINGLE" /\ Announced
    BY <1>9 DEF WriteSingle, CardInv, CardType, ReplyNeverOverruns, ReplyStates, Pending, Announces
  <2>2. /\ SPDR' = Head(response) /\ response' = Tail(response)
        /\ spiState' \in (IF More THEN {spiState} ELSE {"WRITE_SINGLE_BLOCK", "IDLE"})
    BY <1>9 DEF WriteSingle
  <2>3. More => Announced' BY <2>1, <2>2, SendToken DEF More
  <2>4. ~More => SPDR' = "FE" BY <2>1, <2>2, SendToken DEF More
  <2>5. ~More => ~Announces' BY <2>2 DEF Announces
  <2> QED BY <2>1, <2>2, <2>3, <2>4, <2>5
<1>10. CASE WriteSingleBlock
  <2>1. spiState \in DataStates BY <1>10 DEF WriteSingleBlock
  <2>2. spiByteCount \in Nat BY DEF CardInv, CardType
  <2>3. ~Announces' BY <1>10, <2>2 DEF WriteSingleBlock, Announces
  <2> QED BY <2>1, <2>3
<1> QED BY <1>1, <1>2, <1>3, <1>4, <1>5, <1>6, <1>7, <1>8, <1>9, <1>10 DEF UpdateSpi

\* Nor does any other step.
LEMMA TokenStep ==
  IInv /\ TokenInv /\ [Next]_vars
    => /\ TokenInv'
       /\ spiState \notin DataStates /\ spiState' \in DataStates => SPDR' = "FE"
<1> SUFFICES ASSUME IInv, TokenInv, [Next]_vars
             PROVE  /\ TokenInv'
                    /\ spiState \notin DataStates /\ spiState' \in DataStates => SPDR' = "FE"
  OBVIOUS
<1>1. CASE Complete
  <2>1. CardInv BY DEF IInv, TypeOK, CardInv, CardType
  <2>2. UpdateSpi BY <1>1 DEF Complete, EndTransfer
  <2> QED BY <2>1, <2>2, UpdateSpiToken
<1>2. CASE PortWrite \/ Continue \/ UNCHANGED vars
  <2>1. UNCHANGED <<spiState, spiByteCount, response>>
    BY <1>2 DEF PortWrite, Continue, WriteSPDR, WriteSPCR, WriteSPSR, KeepTransfer, vars, card
  <2> QED BY <2>1 DEF TokenInv, Announces, Announced
<1> QED BY <1>1, <1>2 DEF Next

\* No block is served that the start block token did not announce: the last byte sent
\* before the first byte of data is the token (avr8.cpp:2138-2302 and 2352-2379).
THEOREM TokensAnnounce == Spec => StartToken
<1>1. Init => TokenInv BY DEF Init, TokenInv, Announces
<1>2. IInv /\ TokenInv /\ [Next]_vars
        => [spiState \notin DataStates /\ spiState' \in DataStates => SPDR' = "FE"]_vars
  BY TokenStep
<1>3. IInv /\ TokenInv /\ [Next]_vars => TokenInv' BY TokenStep
<1> QED BY <1>1, <1>2, <1>3, Invariance, PTL DEF Spec, StartToken
-----------------------------------------------------------------------------
(* Why a reply and a block end *)

\* The states between the execution of a command and the next one, without a multiple
\* block read, which ends only when the host stops it.
Answering == {"RESPOND_SINGLE", "READ_SINGLE_BLOCK", "WRITE_SINGLE", "WRITE_SINGLE_BLOCK"}

\* The bytes to exchange before the card takes commands again: the rest of the reply, the
\* rest of the block and its end.
BlockLeft == IF spiByteCount = 0 THEN 0 ELSE spiByteCount + Len(BlockEnd)
Left == IF spiState \in ReplyStates THEN Len(response) + BlockLeft ELSE BlockLeft

OneNearer ==
    /\ Left' = Left - 1
    /\ spiState' = "IDLE" <=> Left' = 0
    /\ spiState' # "IDLE" => spiState' \in Answering

\* Each byte exchanged brings the end one byte nearer, nothing else moves it.
AnswerEnds ==
    [][(spiState \in Answering) => IF Complete THEN OneNearer ELSE UNCHANGED card]_vars

\* How much of a reply is left when its next byte is sent.
LEMMA ReplyLeft ==
  ASSUME NEW r \in Pending
  PROVE  /\ Len(r) \in Nat /\ Len(r) >= 1 /\ Len(Tail(r)) = Len(r) - 1
         /\ Tail(r) = <<>> <=> Len(r) = 1
<1>1. r \in Seq(CardBytes) /\ r # <<>> BY DEF Pending
<1>2. Len(r) \in Nat /\ Len(r) >= 1 BY <1>1, EmptySeq
<1>3. Tail(r) \in Seq(CardBytes) /\ Len(Tail(r)) = Len(r) - 1 BY <1>1, HeadTailProperties
<1>4. Tail(r) = <<>> <=> Len(Tail(r)) = 0 BY <1>3, EmptySeq
<1> DEFINE n == Len(r)
           m == Len(Tail(r))
<1>5. n \in Nat /\ n >= 1 /\ m = n - 1 /\ (Tail(r) = <<>> <=> m = 0) BY <1>2, <1>3, <1>4
<1> HIDE DEF n, m
<1>6. (Tail(r) = <<>> <=> n = 1) BY <1>5
<1> QED BY <1>5, <1>6 DEF n, m

\* A byte of a block served or taken, the last of which starts the end of the block.
LEMMA BlockByte ==
  ASSUME CardInv, spiState \in {"READ_SINGLE_BLOCK", "WRITE_SINGLE_BLOCK"},
         spiByteCount' = spiByteCount - 1,
         IF spiByteCount = 1 THEN response' = BlockEnd /\ spiState' = "RESPOND_SINGLE"
         ELSE UNCHANGED <<response, spiState>>
  PROVE  OneNearer
<1>1. Len(BlockEnd) = 2 BY DEF BlockEnd
<1>2. spiByteCount \in Nat /\ spiByteCount >= 1
  BY SizeAssumption DEF CardInv, CardType, CardInStep, DataStates
<1>3. Left = spiByteCount + 2 BY <1>1, <1>2 DEF Left, BlockLeft, ReplyStates
<1>4. CASE spiByteCount = 1
  <2>1. Left' = 2 BY <1>1, <1>4 DEF Left, BlockLeft, ReplyStates
  <2> QED BY <1>3, <1>4, <2>1 DEF OneNearer, Answering
<1>5. CASE spiByteCount # 1
  <2>1. Left' = spiByteCount - 1 + 2 BY <1>1, <1>2, <1>5 DEF Left, BlockLeft, ReplyStates
  <2> QED BY <1>2, <1>3, <1>5, <2>1 DEF OneNearer, Answering
<1> QED BY <1>4, <1>5

\* A byte of a reply, the last of which leads into the block, if there is one.
LEMMA ReplyByte ==
  ASSUME CardInv, RespondSingle \/ WriteSingle PROVE OneNearer
<1> DEFINE n == Len(response)
           m == Len(Tail(response))
<1>1. spiState \in {"RESPOND_SINGLE", "WRITE_SINGLE"} BY DEF RespondSingle, WriteSingle
<1>2. response \in Pending
  BY <1>1 DEF CardInv, CardType, ReplyNeverOverruns, ReplyStates, Pending
<1>3. n \in Nat /\ n >= 1 /\ m = n - 1 /\ (More <=> n # 1) BY <1>2, ReplyLeft DEF More
<1>4. spiByteCount \in Nat BY DEF CardInv, CardType
<1>5. BlockLeft' = BlockLeft /\ BlockLeft \in Nat /\ (BlockLeft = 0 <=> spiByteCount = 0)
  <2>1. Len(BlockEnd) = 2 BY DEF BlockEnd
  <2>2. spiByteCount' = spiByteCount BY DEF RespondSingle, WriteSingle
  <2> QED BY <1>4, <2>1, <2>2 DEF BlockLeft
<1>6. Left = n + BlockLeft BY <1>1 DEF Left, ReplyStates
<1>7. response' = Tail(response) BY DEF RespondSingle, WriteSingle
<1>8. CASE More
  <2>1. spiState' = spiState BY <1>8 DEF RespondSingle, WriteSingle
  <2>2. Left' = m + BlockLeft BY <1>1, <1>5, <1>7, <2>1 DEF Left, ReplyStates
  <2> HIDE DEF n, m
  <2>3. Left' = Left - 1 /\ Left' # 0 BY <1>3, <1>5, <1>6, <1>8, <2>2
  <2> QED BY <1>1, <2>1, <2>3 DEF OneNearer, Answering
<1>9. CASE ~More
  <2>1. IF spiByteCount = 0 THEN spiState' = "IDLE"
        ELSE spiState' \in {"READ_SINGLE_BLOCK", "WRITE_SINGLE_BLOCK"}
    BY <1>9 DEF RespondSingle, WriteSingle, AfterReply
  <2>2. Left' = BlockLeft BY <1>5, <2>1 DEF Left, ReplyStates
  <2> HIDE DEF n, m
  <2>3. Left' = Left - 1 BY <1>3, <1>5, <1>6, <1>9, <2>2
  <2>4. Left' = 0 <=> spiByteCount = 0 BY <1>5, <2>2
  <2> QED BY <2>1, <2>3, <2>4 DEF OneNearer, Answering
<1> QED BY <1>8, <1>9

\* A reply to any command but CMD18, with the block it leads into, takes exactly as many
\* exchanged bytes as are left of it, and then the card takes commands again: together
\* with a host that goes on exchanging bytes, this is why a single block read ends
\* (avr8.cpp:2259-2275 and 2307-2379).
THEOREM AnswersEnd == Spec => AnswerEnds
<1>1. IInv /\ [Next]_vars =>
        [(spiState \in Answering) => IF Complete THEN OneNearer ELSE UNCHANGED card]_vars
  <2> SUFFICES ASSUME IInv, Next, spiState \in Answering
               PROVE  IF Complete THEN OneNearer ELSE UNCHANGED card
    OBVIOUS
  <2>1. CASE Complete
    <3>1. CardInv BY DEF IInv, TypeOK, CardInv, CardType
    <3>2. UpdateSpi BY <2>1 DEF Complete, EndTransfer
    <3>3. RespondSingle \/ ReadSingleBlock \/ WriteSingle \/ WriteSingleBlock
      BY <3>2 DEF UpdateSpi, Answering, Idle, Argument, Execute, RespondMulti,
                  StopReading, ReadMultipleBlock
    <3>4. CASE RespondSingle \/ WriteSingle BY <3>1, <3>4, <2>1, ReplyByte
    <3>5. CASE ReadSingleBlock
      <4>1. OneNearer BY <3>1, <3>5, BlockByte DEF ReadSingleBlock
      <4> QED BY <2>1, <4>1
    <3>6. CASE WriteSingleBlock
      <4>1. OneNearer BY <3>1, <3>6, BlockByte DEF WriteSingleBlock
      <4> QED BY <2>1, <4>1
    <3> QED BY <3>3, <3>4, <3>5, <3>6
  <2>2. CASE ~Complete
    <3>1. PortWrite \/ Continue BY <2>2 DEF Next
    <3>2. UNCHANGED card
      BY <3>1 DEF PortWrite, Continue, WriteSPDR, WriteSPCR, WriteSPSR, KeepTransfer
    <3> QED BY <2>2, <3>2
  <2> QED BY <2>1, <2>2
<1> QED BY <1>1, Invariance, PTL DEF Spec, AnswerEnds
-----------------------------------------------------------------------------
(* Refinement *)

\* A byte served in a read session comes from the next address of the stream.
LEMMA ServeByte ==
  ASSUME IInv, spiState \in {"READ_SINGLE_BLOCK", "READ_MULTIPLE_BLOCK"}
  PROVE  /\ (IF inMBR THEN position + 1 ELSE (position + 1) % CardSize) = Stream!After(position)
         /\ spiByteCount = 1 => Stream!After(position) = NextBlock
<1> DEFINE n == BlockSize - spiByteCount
<1>1. spiArg \in Address /\ spiByteCount \in 1 .. BlockSize /\ position = Behind(spiArg, n)
      /\ (inMBR <=> spiArg < BlockSize)
  BY SizeAssumption DEF IInv, TypeOK, CardInStep, Session, Served, DataStates
<1>2. n \in 0 .. BlockSize - 1 /\ (spiByteCount = 1 => n + 1 = BlockSize)
  BY <1>1, SizeAssumption
<1> HIDE DEF n
<1>3. Stream!After(position) = Behind(spiArg, n + 1) BY <1>1, <1>2, Onward DEF Stream!After
<1>4. inMBR => position + 1 = Behind(spiArg, n + 1) BY <1>1, <1>2, Onward
<1> QED BY <1>2, <1>3, <1>4 DEF Stream!After, NextBlock, Behind

\* A step of the card opens a session, serves its next byte, stops or does
\* nothing, as the abstract stream says.
LEMMA UpdateSpiStreams ==
  ASSUME IInv, UpdateSpi PROVE Stream!Next \/ UNCHANGED <<Session, position, Owed>>
<1> USE DEF Session, Owed, ArgStates, still
<1>1. CASE Idle \/ Argument
  BY <1>1 DEF Idle, Argument
<1>2. CASE Execute
  <2>1. Session = "none" /\ spiArg \in Stream!Address /\ spiByteCount = 0
    BY <1>2 DEF Execute, IInv, TypeOK, CommandStatesClean, Address, Stream!Address
  <2>2. CASE spiCommand \in Seeks
    <3>1. position' = spiArg BY <1>2, <2>2 DEF Execute, SDSeekToOffset
    <3>2. Session' \in {"none", "single", "multi"} OBVIOUS
    <3>3. Owed' = IF Session' = "single" THEN BlockSize ELSE 0
      BY <1>2, <2>2 DEF Execute, StateAfter, CountAfter, Seeks
    <3> HIDE DEF Session, Owed
    <3>4. Stream!Open(Session', spiArg) BY <2>1, <3>1, <3>3 DEF Stream!Open
    <3> QED BY <2>1, <3>2, <3>4 DEF Stream!Next
  <2>3. CASE spiCommand \notin Seeks
    <3>1. spiState' = "RESPOND_SINGLE" /\ spiByteCount' = 0
      BY <1>2, <2>1, <2>3 DEF Execute, StateAfter, CountAfter, Seeks
    <3> QED BY <1>2, <2>1, <2>3, <3>1 DEF Execute
  <2> QED BY <2>2, <2>3
<1>3. CASE RespondSingle
  BY <1>3 DEF RespondSingle, AfterReply
<1>4. CASE RespondMulti
  BY <1>4 DEF RespondMulti
<1>5. CASE ReadSingleBlock
  <2>1. spiState = "READ_SINGLE_BLOCK" /\ spiByteCount \in Nat
    BY <1>5 DEF ReadSingleBlock, IInv, TypeOK
  <2>2. position' = Stream!After(position)
    BY <1>5, <2>1, ServeByte DEF ReadSingleBlock, SDReadByte
  <2>3. Session = "single" /\ Owed = spiByteCount BY <2>1
  <2>4. Session' = (IF Owed = 1 THEN "none" ELSE "single") /\ Owed' = Owed - 1
    <3>1. CASE spiByteCount = 1
      <4>1. spiState' = "RESPOND_SINGLE" /\ spiByteCount' = 0
        BY <1>5, <3>1 DEF ReadSingleBlock
      <4> QED BY <2>3, <3>1, <4>1
    <3>2. CASE spiByteCount # 1
      <4>1. spiState' = "READ_SINGLE_BLOCK" /\ spiByteCount' = spiByteCount - 1
        BY <1>5, <2>1, <3>2 DEF ReadSingleBlock
      <4> QED BY <2>3, <3>2, <4>1
    <3> QED BY <3>1, <3>2
  <2> HIDE DEF Session, Owed
  <2> QED BY <2>2, <2>3, <2>4 DEF Stream!Serve, Stream!Next
<1>6. CASE StopReading
  BY <1>6 DEF StopReading, Stream!Stop, Stream!Next
<1>7. CASE ReadMultipleBlock
  <2>1. spiState = "READ_MULTIPLE_BLOCK" BY <1>7 DEF ReadMultipleBlock
  <2>2. Session = "multi" /\ Session' = "multi" BY <1>7 DEF ReadMultipleBlock
  <2>3. Owed = 0 /\ Owed' = 0 BY <2>2
  <2>4. position' = Stream!After(position)
    BY <1>7, <2>1, ServeByte DEF ReadMultipleBlock, SDReadByte, SDSeekToOffset
  <2> HIDE DEF Session, Owed
  <2> QED BY <2>2, <2>3, <2>4 DEF Stream!Serve, Stream!Next
<1>8. CASE WriteSingle
  BY <1>8 DEF WriteSingle, IInv, CardInStep
<1>9. CASE WriteSingleBlock
  BY <1>9 DEF WriteSingleBlock
<1> QED BY <1>1, <1>2, <1>3, <1>4, <1>5, <1>6, <1>7, <1>8, <1>9 DEF UpdateSpi

\* The data bytes of a read session come from consecutive card addresses, from
\* the one commanded on, a block's number of them in a single read, for every address,
\* every block size and any number of blocks.
THEOREM Refinement == Spec => ImplementsStream
<1>1. Init => Stream!Init
  BY DEF Init, Stream!Init, Session, Owed
<1>2. IInv /\ [Next]_vars => [Stream!Next]_(Stream!vars)
  <2> SUFFICES ASSUME IInv, [Next]_vars
               PROVE  Stream!Next \/ UNCHANGED <<Session, position, Owed>>
    BY DEF Stream!vars
  <2>1. CASE Complete
    BY <2>1, UpdateSpiStreams DEF Complete, EndTransfer
  <2>2. CASE PortWrite \/ Continue \/ UNCHANGED vars
    BY <2>2 DEF PortWrite, Continue, WriteSPDR, WriteSPCR, WriteSPSR, KeepTransfer, vars,
                card, Session, Owed
  <2> QED BY <2>1, <2>2 DEF Next
<1> QED BY <1>1, <1>2, Invariance, PTL DEF Spec, ImplementsStream, Stream!Spec
=============================================================================
