------------------------------- MODULE SpiSd -------------------------------
(***************************************************************************)
(* The SPI port of src/avr8.cpp and the SD card behind it.  The program    *)
(* writes a byte to SPDR; update_hardware_ins counts the transfer down by  *)
(* the cycles of every instruction and, when it is over, runs one step of  *)
(* the card's state machine (update_spi), which replaces SPDR by the       *)
(* card's answer and raises SPIF.                                          *)
(*                                                                         *)
(* Bytes are tokens: a command byte is its name, 0xFF "FF" and so on, a    *)
(* byte of the card's contents "data"; the contents themselves belong to   *)
(* SDEmu.  The four argument bytes are an address, any address, that is    *)
(* known when the last of them arrives.  A card is present (SD_ENABLED).   *)
(***************************************************************************)
EXTENDS Integers, Sequences

CONSTANTS
    BlockSize,    \* bytes in a block: 512, also the length of the emulated MBR
    CardSize,     \* addresses are u32: 2^32
    BlockDelay,   \* bytes before the first block of a multiple block read: 250
    Waits,        \* cycles per byte of the clock dividers: 16 to 1024
    Issued,       \* the commands that the host issues
    MaxCycles     \* cycles of the longest instruction

ASSUME SizeAssumption == /\ BlockSize \in Nat /\ BlockSize >= 1
                         /\ CardSize \in Nat /\ CardSize > BlockSize
                         /\ CardSize % BlockSize = 0
ASSUME ClockAssumption == /\ BlockDelay \in Nat
                          /\ Waits \subseteq Nat
                          /\ MaxCycles \in Nat /\ MaxCycles >= 1

Address == 0 .. CardSize - 1

\* What the card answers to a command.
Reply == [CMD0    |-> <<"FF", "01">>,
          CMD1    |-> <<"00", "00">>,
          CMD8    |-> <<"FF", "01", "00", "00", "01", "arg">>,
          CMD12   |-> <<"FF", "FF", "00">>,
          CMD17   |-> <<"FF", "00", "FE">>,
          CMD18   |-> <<"FF", "00", "FE">>,
          CMD24   |-> <<"00", "00", "FE">>,
          ACMD41  |-> <<"FF", "00">>,
          CMD55   |-> <<"FF", "01">>,
          CMD58   |-> <<"FF", "00", "80", "FF", "80", "00">>,
          unknown |-> <<"02", "05">>]

Commands  == DOMAIN Reply
ASSUME IssuedAssumption == Issued \subseteq Commands
HostBytes == Issued \cup {"FF"}
CardBytes == {"FF", "00", "01", "02", "05", "80", "FE", "arg", "data"}

\* Mutated form: the next block is not announced.
BlockGapNoToken == <<"00", "00", "FF", "FF">>

BlockEnd == <<"00", "00">>                       \* the CRC
BlockGap == <<"00", "00", "FF", "FF", "FE">>     \* CRC, delay, start block

ArgStates   == {"ARG_X_HI", "ARG_X_LO", "ARG_Y_HI", "ARG_Y_LO", "ARG_CRC"}
ReplyStates == {"RESPOND_SINGLE", "RESPOND_MULTI", "WRITE_SINGLE"}
DataStates  == {"READ_SINGLE_BLOCK", "READ_MULTIPLE_BLOCK", "WRITE_SINGLE_BLOCK"}

VARIABLES
    SPE, SPIF, SPDR,                      \* the port: SPCR bit 6, SPSR bit 7
    spiByte, spiTransfer, spiClock, spiCycleWait,
    spiState, spiCommand, spiArg,         \* the card
    spiByteCount, spiCommandDelay,
    response,                             \* spiResponsePtr .. spiResponseEnd
    inMBR, position,                      \* emulatedReadPos, or SDEmu's position
    ran                                   \* the instruction has accessed a port

port == <<SPE, SPIF, SPDR, spiByte, spiTransfer, spiClock, spiCycleWait>>
card == <<spiState, spiCommand, spiArg, spiByteCount, spiCommandDelay, response,
          inMBR, position>>
vars == <<SPE, SPIF, SPDR, spiByte, spiTransfer, spiClock, spiCycleWait, spiState,
          spiCommand, spiArg, spiByteCount, spiCommandDelay, response,
          inMBR, position, ran>>

Init ==
    /\ SPE = FALSE /\ SPIF = FALSE /\ SPDR = "00" /\ spiByte = "00"
    /\ spiTransfer = FALSE /\ spiClock = 0 /\ spiCycleWait = 0
    /\ spiState = "IDLE" /\ spiCommand = "unknown" /\ spiArg = 0
    /\ spiByteCount = 0 /\ spiCommandDelay = 0 /\ response = <<>>
    /\ inMBR = TRUE /\ position = 0
    /\ ran = FALSE
-----------------------------------------------------------------------------
(* The card's place.  emulatedReadPos is 0xFFFFFFFF outside the MBR, so one of  *)
(* the two positions of the code is in use at a time.                            *)

\* Mutated form: off by one at the end of the MBR.
SDSeekPastMBR(a) == inMBR' = (a <= BlockSize) /\ position' = a

SDSeekToOffset(a) == inMBR' = (a < BlockSize) /\ position' = a

\* Inside the MBR the position is an index that runs on, past its end too.
SDReadByte ==
    /\ SPDR' = "data"
    /\ position' = IF inMBR THEN position + 1 ELSE (position + 1) % CardSize
    /\ UNCHANGED inMBR

still == <<inMBR, position>>
-----------------------------------------------------------------------------
(* update_spi: one byte exchanged with the card *)

Idle ==
    /\ spiState = "IDLE"
    /\ \/ /\ spiByte = "FF"
          /\ SPDR' = "FF"
          /\ UNCHANGED <<spiState, spiCommand>>
       \/ /\ spiByte # "FF"
          /\ spiCommand' = spiByte
          /\ SPDR' = "00"
          /\ spiState' = "ARG_X_HI"
    /\ UNCHANGED <<spiArg, spiByteCount, spiCommandDelay, response, still>>

Argument ==
    /\ \/ spiState = "ARG_X_HI" /\ spiState' = "ARG_X_LO" /\ UNCHANGED spiArg
       \/ spiState = "ARG_X_LO" /\ spiState' = "ARG_Y_HI" /\ UNCHANGED spiArg
       \/ spiState = "ARG_Y_HI" /\ spiState' = "ARG_Y_LO" /\ UNCHANGED spiArg
       \/ spiState = "ARG_Y_LO" /\ spiState' = "ARG_CRC" /\ spiArg' \in Address
    /\ SPDR' = "00"
    /\ UNCHANGED <<spiCommand, spiByteCount, spiCommandDelay, response, still>>

\* The bytes that follow the reply to a command. An unknown command leaves
\* the count alone.
CountAfter(command) ==
    IF command \in {"CMD17", "CMD24"} THEN BlockSize
    ELSE IF command = "unknown" THEN spiByteCount
    ELSE 0

StateAfter(command) ==
    IF command = "CMD18" THEN "RESPOND_MULTI"
    ELSE IF command = "CMD24" THEN "WRITE_SINGLE"
    ELSE "RESPOND_SINGLE"

\* The commands that move the card. Mutated form: not a multiple block read.
SeeksSingleOnly == {"CMD17", "CMD24"}
Seeks == {"CMD17", "CMD18", "CMD24"}

\* The byte after the argument is the CRC: the command is executed.
Execute ==
    /\ spiState = "ARG_CRC"
    /\ SPDR' = "00"
    /\ response' = Reply[spiCommand]
    /\ spiState' = StateAfter(spiCommand)
    /\ spiByteCount' = CountAfter(spiCommand)
    /\ spiCommandDelay' = IF spiCommand = "CMD18" THEN 0 ELSE spiCommandDelay
    /\ IF spiCommand \in Seeks
       THEN SDSeekToOffset(spiArg)
       ELSE UNCHANGED still
    /\ UNCHANGED <<spiCommand, spiArg>>

\* Where the last byte of a reply leads, and when there is one more to come.
\* Mutated forms: not back to idle; the end is noticed one byte late.
AfterReplyRepeats == IF spiByteCount # 0 THEN "READ_SINGLE_BLOCK" ELSE "ARG_CRC"
AfterReply == IF spiByteCount # 0 THEN "READ_SINGLE_BLOCK" ELSE "IDLE"
MoreLate == response # <<>>
More == Tail(response) # <<>>

RespondSingle ==
    /\ spiState = "RESPOND_SINGLE"
    /\ SPDR' = Head(response)
    /\ response' = Tail(response)
    /\ spiState' = IF More THEN spiState ELSE AfterReply
    /\ UNCHANGED <<spiCommand, spiArg, spiByteCount, spiCommandDelay, still>>

RespondMulti ==
    /\ spiState = "RESPOND_MULTI"
    /\ \/ /\ spiCommandDelay # 0
          /\ spiCommandDelay' = spiCommandDelay - 1
          /\ SPDR' = "FF"
          /\ UNCHANGED <<spiState, response, spiByteCount>>
       \/ /\ spiCommandDelay = 0
          /\ SPDR' = Head(response)
          /\ response' = Tail(response)
          /\ spiCommandDelay' = IF Head(response) = "00" /\ spiByteCount = 0
                                THEN BlockDelay ELSE 0
          /\ IF More
             THEN UNCHANGED <<spiState, spiByteCount>>
             ELSE spiState' = "READ_MULTIPLE_BLOCK" /\ spiByteCount' = BlockSize
    /\ UNCHANGED <<spiCommand, spiArg, still>>

ReadSingleBlock ==
    /\ spiState = "READ_SINGLE_BLOCK"
    /\ SDReadByte
    /\ spiByteCount' = spiByteCount - 1
    /\ IF spiByteCount = 1
       THEN response' = BlockEnd /\ spiState' = "RESPOND_SINGLE"
       ELSE UNCHANGED <<response, spiState>>
    /\ UNCHANGED <<spiCommand, spiArg, spiCommandDelay>>

\* The last byte of a block of a multiple block read moves the card to the next
\* block: the seek overrides the step of SDReadByte.
\* Mutated forms: the address is not advanced; it does not wrap at 2^32.
NextBlockSame == spiArg
NextBlockNoWrap == spiArg + BlockSize
NextBlock == (spiArg + BlockSize) % CardSize

\* Mutated form: the bytes owed are kept.
StopReadingKeepsCount ==
    /\ spiState = "READ_MULTIPLE_BLOCK" /\ SPDR = "CMD12"
    /\ spiCommand' = "CMD12"
    /\ SPDR' = "00"
    /\ spiState' = "ARG_X_HI"
    /\ UNCHANGED <<spiArg, spiByteCount, spiCommandDelay, response, still>>

\* CMD12 in the middle of a block ends a multiple block read.
StopReading ==
    /\ spiState = "READ_MULTIPLE_BLOCK" /\ SPDR = "CMD12"
    /\ spiCommand' = "CMD12"
    /\ SPDR' = "00"
    /\ spiState' = "ARG_X_HI"
    /\ spiByteCount' = 0
    /\ UNCHANGED <<spiArg, spiCommandDelay, response, still>>

ReadMultipleBlock ==
    /\ spiState = "READ_MULTIPLE_BLOCK" /\ SPDR # "CMD12"
    /\ IF spiByteCount # 1
       THEN /\ SDReadByte
            /\ spiByteCount' = spiByteCount - 1
            /\ UNCHANGED <<spiArg, response, spiState>>
       ELSE /\ SPDR' = "data"
            /\ response' = BlockGap
            /\ spiArg' = NextBlock
            /\ SDSeekToOffset(NextBlock)
            /\ spiByteCount' = BlockSize
            /\ spiState' = "RESPOND_MULTI"
    /\ UNCHANGED <<spiCommand, spiCommandDelay>>

WriteSingle ==
    /\ spiState = "WRITE_SINGLE"
    /\ SPDR' = Head(response)
    /\ response' = Tail(response)
    /\ spiState' = IF More THEN spiState
                   ELSE IF spiByteCount # 0 THEN "WRITE_SINGLE_BLOCK" ELSE "IDLE"
    /\ UNCHANGED <<spiCommand, spiArg, spiByteCount, spiCommandDelay, still>>

\* SDWriteByte drops the byte: the emulated card is read only.
WriteSingleBlock ==
    /\ spiState = "WRITE_SINGLE_BLOCK"
    /\ SPDR' = "FF"
    /\ spiByteCount' = spiByteCount - 1
    /\ IF spiByteCount = 1
       THEN response' = BlockEnd /\ spiState' = "RESPOND_SINGLE"
       ELSE UNCHANGED <<response, spiState>>
    /\ UNCHANGED <<spiCommand, spiArg, spiCommandDelay, still>>

UpdateSpi ==
    \/ Idle \/ Argument \/ Execute \/ RespondSingle \/ RespondMulti
    \/ ReadSingleBlock \/ StopReading \/ ReadMultipleBlock
    \/ WriteSingle \/ WriteSingleBlock
-----------------------------------------------------------------------------
(* The port *)

\* "clear interrupt", says the comment; what the code does is flip the bit.
FlipSPIF == SPIF' = ~SPIF

WriteSPDR(v) ==
    /\ ~ran
    /\ SPDR' = v
    /\ \/ /\ SPE
          /\ spiByte' = v
          /\ spiClock' = spiCycleWait
          /\ spiTransfer' = TRUE
          /\ FlipSPIF
       \/ ~SPE /\ UNCHANGED <<spiByte, spiClock, spiTransfer, SPIF>>
    /\ ran' = TRUE
    /\ UNCHANGED <<SPE, spiCycleWait, card>>

\* Writing SPCR or SPSR recomputes the clock divider.
WriteSPCR(enable, w) ==
    /\ ~ran
    /\ SPE' = enable
    /\ spiCycleWait' = w
    /\ ran' = TRUE
    /\ UNCHANGED <<SPIF, SPDR, spiByte, spiTransfer, spiClock, card>>

WriteSPSR(flag, w) ==
    /\ ~ran
    /\ SPIF' = flag
    /\ spiCycleWait' = w
    /\ ran' = TRUE
    /\ UNCHANGED <<SPE, SPDR, spiByte, spiTransfer, spiClock, card>>

\* update_hardware_ins after an instruction of the given cycles, in which the
\* transfer ends; taken: the SPI interrupt is dispatched and clears SPIF.
EndTransfer(cycles, taken) ==
    /\ SPE /\ spiTransfer /\ spiClock <= cycles
    /\ UpdateSpi
    /\ spiClock' = 0
    /\ spiTransfer' = FALSE
    /\ SPIF' = ~taken
    /\ ran' = FALSE
    /\ UNCHANGED <<SPE, spiByte, spiCycleWait>>

\* ... in which it does not.
KeepTransfer(cycles, taken) ==
    /\ ~(SPE /\ spiTransfer /\ spiClock <= cycles)
    /\ spiClock' = IF SPE /\ spiTransfer THEN spiClock - cycles ELSE spiClock
    /\ taken => SPIF
    /\ SPIF' = (SPIF /\ ~taken)
    /\ ran' = FALSE
    /\ UNCHANGED <<SPE, SPDR, spiByte, spiTransfer, spiCycleWait, card>>

Complete == \E cycles \in 1 .. MaxCycles, taken \in BOOLEAN : EndTransfer(cycles, taken)
Continue == \E cycles \in 1 .. MaxCycles, taken \in BOOLEAN : KeepTransfer(cycles, taken)

PortWrite ==
    \/ \E v \in HostBytes : WriteSPDR(v)
    \/ \E enable \in BOOLEAN, w \in Waits : WriteSPCR(enable, w)
    \/ \E flag \in BOOLEAN, w \in Waits : WriteSPSR(flag, w)

Next == PortWrite \/ Complete \/ Continue

\* The CPU finishes its instructions.
Spec == Init /\ [][Next]_vars
FairSpec == Spec /\ WF_vars(Complete \/ Continue)
-----------------------------------------------------------------------------
(* Properties *)

\* Every variable keeps its type.
TypeOK ==
    /\ SPE \in BOOLEAN /\ SPIF \in BOOLEAN /\ ran \in BOOLEAN
    /\ SPDR \in HostBytes \cup CardBytes
    /\ spiByte \in HostBytes \cup {"00"}
    /\ spiTransfer => spiByte \in HostBytes
    /\ spiTransfer \in BOOLEAN /\ spiClock \in Nat /\ spiCycleWait \in Nat
    /\ spiState \in {"IDLE"} \cup ArgStates \cup ReplyStates \cup DataStates
    /\ spiCommand \in Commands /\ spiArg \in Address
    /\ spiByteCount \in 0 .. BlockSize
    /\ spiCommandDelay \in 0 .. BlockDelay
    /\ response \in Seq(CardBytes)
    /\ inMBR \in BOOLEAN /\ position \in Nat

\* The card waits for a command with no bytes owed: the default branch of the
\* command switch (avr8.cpp:2257) does not reset spiByteCount, so a count left
\* over would make the reply to an unknown command continue with a data block.
CommandStatesClean ==
    spiState \in {"IDLE"} \cup ArgStates => spiByteCount = 0

\* The reply pointer is tested for equality with its end only after it has been
\* dereferenced and moved (avr8.cpp:2270, 2290, 2368): a state that replies is
\* never entered, or stayed in, with nothing left to send.
ReplyNeverOverruns == spiState \in ReplyStates => response # <<>>

\* The read session that is open, and how much of the block has been served.
Session ==
    IF spiState = "READ_SINGLE_BLOCK" \/ (spiState = "RESPOND_SINGLE" /\ spiByteCount # 0)
    THEN "single"
    ELSE IF spiState \in {"RESPOND_MULTI", "READ_MULTIPLE_BLOCK"} THEN "multi"
    ELSE "none"

Served == IF spiState \in DataStates THEN BlockSize - spiByteCount ELSE 0

\* The address n bytes behind a.
Behind(a, n) == (a + n) % CardSize

\* Throughout a read session the card stands exactly as far behind the address spiArg
\* as bytes of the block have been served, in the MBR or behind it as that address
\* says; a block is never served shifted or short, whatever came before it.
CardInStep ==
    /\ Session # "none" => /\ position = Behind(spiArg, Served)
                           /\ inMBR <=> spiArg < BlockSize
    /\ spiState \in DataStates => spiByteCount >= 1
    /\ spiState \in ReplyStates => spiByteCount \in {0, BlockSize}
    /\ spiState = "WRITE_SINGLE" => spiByteCount = BlockSize

\* The block at spiArg has been served past the end of the MBR, or past the last address.
Crossed == \/ spiArg < BlockSize /\ spiArg + Served >= BlockSize
           \/ spiArg + Served >= CardSize

\* SDReadByte indexes the emulated MBR with a position it never checks (avr8.cpp:2431),
\* and only a seek chooses between the MBR and the volume.  So a byte comes from the
\* part of the card in which its address lies until the block crosses the border between
\* the two, and never after that: the MBR is then read past its end, or the volume below
\* its beginning.  Blocks whose address the host has aligned do not cross it.
PartOfCard ==
    spiState \in {"READ_SINGLE_BLOCK", "READ_MULTIPLE_BLOCK"} =>
        /\ ~Crossed <=> (inMBR <=> position < BlockSize)
        /\ spiArg % BlockSize = 0 => ~Crossed

\* No block is served that the start block token did not announce.
StartToken ==
    [][spiState \notin DataStates /\ spiState' \in DataStates => SPDR' = "FE"]_vars

\* The data bytes of a read session come from consecutive addresses starting at
\* the one commanded, over any number of blocks; a single read is of a block's bytes.
Owed == IF Session = "single" THEN spiByteCount ELSE 0
Stream == INSTANCE SDStream WITH session <- Session, next <- position, left <- Owed
ImplementsStream == Stream!Spec

\* A single block read that the host keeps clocking comes to its end: the card
\* takes commands again.
HostKeepsClocking == []<><<Complete>>_vars
SingleReadEnds ==
    HostKeepsClocking => (spiState = "RESPOND_SINGLE" ~> spiState = "IDLE")

\* SPIF is down while a byte is on its way: the write that starts the transfer
\* is there to "clear interrupt" (avr8.cpp:502).
TransferClearsSPIF == spiTransfer => ~SPIF
=============================================================================
