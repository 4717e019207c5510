----------------------------- MODULE Controllers -----------------------------
(***************************************************************************)
(* The joypads and the Uzebox keyboard behind PORTA and PINA: write_io     *)
(* (PORTA) in src/avr8.cpp, the polls of the drivers and uzekb_handle_key. *)
(* Both devices hang on the same latch and clock lines; the keyboard's     *)
(* data comes in on the line of the second pad.                            *)
(***************************************************************************)
EXTENDS Integers, Sequences

CONSTANTS
    Buttons,     \* of a pad: 12
    Width,       \* bits of latched_buttons: 32
    PAD_LEFT, PAD_RIGHT, PAD_UP, PAD_DOWN,
    KbBits,      \* bits of a scan code: 8
    ScanCodes,   \* the codes of keys, sequences of bits, the highest first
    KB_BREAK,    \* the code that precedes the one of a key that goes up: 0xf0
    KB_SEND_END, \* the byte that ends a transfer
    Presses,     \* bound of the model: the sets of buttons a poll may find pressed
    MaxCodes     \* bound of the model: codes queued in a run

ASSUME WidthAssumption == Buttons \in Nat \ {0} /\ Width \in Nat /\ Width > Buttons
ASSUME PadAssumption ==
    /\ {PAD_LEFT, PAD_RIGHT, PAD_UP, PAD_DOWN} \subseteq 0 .. Buttons - 1
    /\ PAD_LEFT # PAD_RIGHT /\ PAD_UP # PAD_DOWN
    /\ {PAD_LEFT, PAD_RIGHT} \cap {PAD_UP, PAD_DOWN} = {}
ASSUME KbAssumption ==
    /\ KbBits \in Nat \ {0}
    /\ ScanCodes \cup {KB_BREAK, KB_SEND_END} \subseteq [1 .. KbBits -> {0, 1}]
    /\ [i \in 1 .. KbBits |-> 0] \notin ScanCodes \cup {KB_BREAK}
ASSUME BoundsAssumption == Presses \subseteq SUBSET (0 .. Buttons - 1) /\ MaxCodes \in Nat

Bit == {0, 1}
Pad == {0, 1}
Word == [0 .. Width - 1 -> Bit]     \* the bits of an u32, the lowest at 0
KbByte == [1 .. KbBits -> Bit]      \* the bits of an u8, the highest at 1
Ones == [i \in 0 .. Width - 1 |-> 1]
Zero == [i \in 1 .. KbBits |-> 0]

VARIABLES
    buttons,            \* of the driver, a 0 for a button that is pressed
    latched_buttons,
    new_input_mode,
    PORTA,              \* latch and clock, and all its other bits as one
    PINA,               \* the data lines of the two pads
    uzeKbState, uzeKbEnabled, uzeKbClock, uzeKbDataOut, uzeKbDataIn, uzeKbScanCodeQueue,
    sample,             \* history: buttons at the last latch
    clocks,             \* history: the clocks since, up to Width
    read,               \* history: the bits read in the current byte of the keyboard
    pressed, received   \* history: the codes queued, and those the program has read

pads == <<buttons, latched_buttons, new_input_mode, sample, clocks>>
kb == <<uzeKbState, uzeKbEnabled, uzeKbClock, uzeKbDataOut, uzeKbDataIn, uzeKbScanCodeQueue,
        read, received>>
vars == <<pads, PORTA, PINA, kb, pressed>>

Init ==
    /\ buttons = [i \in Pad |-> Ones]
    /\ latched_buttons = buttons
    /\ new_input_mode = FALSE
    /\ PORTA = [latch |-> 0, clock |-> 0, rest |-> 0]
    /\ PINA = [i \in Pad |-> 0]
    /\ uzeKbState = "KB_STOP" /\ uzeKbEnabled = FALSE
    /\ uzeKbClock = 0 /\ uzeKbDataOut = Zero /\ uzeKbDataIn = Zero
    /\ uzeKbScanCodeQueue = <<>>
    /\ sample = buttons /\ clocks = 0
    /\ read = <<>> /\ pressed = <<>> /\ received = <<>>
-----------------------------------------------------------------------------
(* Joypads *)

\* The opposites of a pad pressed at once: the second is let go.
\* Mutated form: both are.
ReleaseBoth(w, a, b) == IF w[a] = 0 /\ w[b] = 0 THEN [w EXCEPT ![a] = 1, ![b] = 1] ELSE w
Release(w, a, b) == IF w[a] = 0 /\ w[b] = 0 THEN [w EXCEPT ![b] = 1] ELSE w
Latched(w) == Release(Release(w, PAD_LEFT, PAD_RIGHT), PAD_UP, PAD_DOWN)

Shifted(w) == [i \in 0 .. Width - 1 |-> IF i < Width - 1 THEN w[i + 1] ELSE 0]

\* w < 0xFFFFF, a one for each bit that is no button.
\* Mutated form: w <= 0xFFFFF.
BelowOrEqual(w) == \A i \in Width - Buttons .. Width - 1 : w[i] = 0
Below(w) == /\ \A i \in Width - Buttons .. Width - 1 : w[i] = 0
            /\ \E i \in 0 .. Width - Buttons - 1 : w[i] = 0

\* The lines a write lets fall; the code looks for one that falls alone.
Falls(new, line) == new[line] = 0 /\ PORTA[line] = 1
FallsAlone(new, line) == {l \in DOMAIN PORTA : Falls(new, l)} = {line}
IsLatch(new) == FallsAlone(new, "latch")
IsClock(new) == FallsAlone(new, "clock")

\* The data lines: in the new mode the bit before the shift, at a clock; in the old one
\* the bit after it, at every write.
Lowest(l) == [i \in Pad |-> l[i][0]]
PadLines(new) == IF new_input_mode THEN (IF IsClock(new) THEN Lowest(latched_buttons) ELSE PINA)
                 ELSE IF new_input_mode' THEN PINA ELSE Lowest(latched_buttons')

\* The mode changes for ever at the first clock with few bits left to shift.
WritePads(new) ==
    /\ latched_buttons' =
         CASE IsLatch(new) -> [i \in Pad |-> Latched(buttons[i])]
           [] IsClock(new) -> [i \in Pad |-> Shifted(latched_buttons[i])]
           [] OTHER -> latched_buttons
    /\ new_input_mode' = (new_input_mode \/ (IsClock(new) /\ Below(Shifted(latched_buttons[1]))))
    /\ sample' = IF IsLatch(new) THEN buttons ELSE sample
    /\ clocks' = CASE IsLatch(new) -> 0
                   [] IsClock(new) /\ clocks < Width -> clocks + 1
                   [] OTHER -> clocks
    /\ UNCHANGED buttons
-----------------------------------------------------------------------------
(* Keyboard *)

LeftShifted(b, in) == Append(Tail(b), in)

\* The program starts a transfer by raising latch with clock low, then both back.
KbStop(new) ==
    /\ uzeKbState = "KB_STOP"
    /\ IF new.latch = 1 /\ new.clock = 0
       THEN uzeKbState' = "KB_TX_START" /\ uzeKbEnabled' = TRUE
       ELSE UNCHANGED <<uzeKbState, uzeKbEnabled>>
    /\ UNCHANGED <<uzeKbClock, uzeKbDataOut, uzeKbDataIn, uzeKbScanCodeQueue, read, received>>

KbStart(new) ==
    /\ uzeKbState = "KB_TX_START"
    /\ IF new.latch = 0 /\ new.clock = 1
       THEN uzeKbState' = "KB_TX_READY" /\ uzeKbClock' = KbBits
       ELSE UNCHANGED <<uzeKbState, uzeKbClock>>
    /\ UNCHANGED <<uzeKbEnabled, uzeKbDataOut, uzeKbDataIn, uzeKbScanCodeQueue, read, received>>

\* The next byte to send.
\* Mutated form: the key stays in the queue while it is the only one.
FetchLast == IF Len(uzeKbScanCodeQueue) > 1 THEN Tail(uzeKbScanCodeQueue) ELSE uzeKbScanCodeQueue
AfterFetch == IF uzeKbScanCodeQueue = <<>> THEN <<>> ELSE Tail(uzeKbScanCodeQueue)
Fetched == IF uzeKbScanCodeQueue = <<>> THEN Zero ELSE Head(uzeKbScanCodeQueue)

\* The clocks left after one of them: none once the program has sent KB_SEND_END.
\* Mutated form: the count is not set again.
NextClockNoReload(out) == uzeKbClock - 1
NextClock(out) == IF uzeKbClock = 1 /\ out # KB_SEND_END THEN KbBits ELSE uzeKbClock - 1

\* A clock takes a bit out of the keyboard and the level of latch into it.
KbClock(new) ==
    LET first == uzeKbClock = KbBits
        in == IF first THEN Fetched ELSE uzeKbDataIn
        out == LeftShifted(IF first THEN Zero ELSE uzeKbDataOut, new.latch)
        bits == Append(read, PINA'[1])
        last == uzeKbClock = 1
    IN  /\ PINA' = [PadLines(new) EXCEPT ![1] = Head(in)]
        /\ uzeKbScanCodeQueue' = IF first THEN AfterFetch ELSE uzeKbScanCodeQueue
        /\ uzeKbDataOut' = out
        /\ uzeKbDataIn' = LeftShifted(in, 0)
        /\ uzeKbState' = IF last /\ out = KB_SEND_END THEN "KB_STOP" ELSE uzeKbState
        /\ uzeKbClock' = NextClock(out)
        /\ read' = IF last THEN <<>> ELSE bits
        /\ received' = IF last /\ bits # Zero THEN Append(received, bits) ELSE received
        /\ UNCHANGED uzeKbEnabled

\* PORTA is written: the pads first, then the keyboard.
Write(new) ==
    /\ WritePads(new)
    /\ PORTA' = new
    /\ \/ (KbStop(new) \/ KbStart(new)) /\ PINA' = PadLines(new)
       \/ uzeKbState = "KB_TX_READY" /\ IsClock(new) /\ KbClock(new)
       \/ uzeKbState = "KB_TX_READY" /\ ~IsClock(new) /\ UNCHANGED kb /\ PINA' = PadLines(new)
    /\ UNCHANGED pressed
-----------------------------------------------------------------------------
(* The event loop at the end of a frame *)

\* The driver samples the first pad; the second is never pressed.
Poll ==
    /\ \E P \in Presses :
         buttons' = [buttons EXCEPT ![0] = [i \in 0 .. Width - 1 |-> IF i \in P THEN 0 ELSE 1]]
    /\ UNCHANGED <<latched_buttons, new_input_mode, sample, clocks, PORTA, PINA, kb, pressed>>

\* A key goes down or up once the program has found the keyboard; one that is not in the
\* table has no code of its own.  The driver has to report it: the libretro driver's poll
\* returns 0 whatever the user does (input_driver_libretro.cpp:71-75), so in that build
\* there are only the runs without this action.
Key(down, code) ==
    LET codes == (IF down THEN <<>> ELSE <<KB_BREAK>>) \o code
    IN  /\ uzeKbEnabled /\ Len(pressed) + Len(codes) <= MaxCodes
        /\ uzeKbScanCodeQueue' = uzeKbScanCodeQueue \o codes
        /\ pressed' = pressed \o codes
        /\ UNCHANGED <<pads, PORTA, PINA, uzeKbState, uzeKbEnabled, uzeKbClock, uzeKbDataOut,
                       uzeKbDataIn, read, received>>

Next ==
    \/ \E new \in [latch : Bit, clock : Bit, rest : Bit] : Write(new)
    \/ Poll
    \/ \E down \in BOOLEAN, code \in {<<>>} \cup {<<c>> : c \in ScanCodes} : Key(down, code)

Spec == Init /\ [][Next]_vars
-----------------------------------------------------------------------------
(* Properties *)

\* The types of the variables.
TypeOK ==
    /\ buttons \in [Pad -> Word] /\ latched_buttons \in [Pad -> Word] /\ sample \in [Pad -> Word]
    /\ new_input_mode \in BOOLEAN
    /\ PORTA \in [latch : Bit, clock : Bit, rest : Bit]
    /\ PINA \in [Pad -> Bit]
    /\ uzeKbState \in {"KB_STOP", "KB_TX_START", "KB_TX_READY"} /\ uzeKbEnabled \in BOOLEAN
    /\ uzeKbClock \in 0 .. KbBits
    /\ uzeKbDataOut \in KbByte /\ uzeKbDataIn \in KbByte
    /\ uzeKbScanCodeQueue \in Seq(ScanCodes \cup {KB_BREAK})
    /\ clocks \in 0 .. Width
    /\ read \in Seq(Bit) /\ pressed \in Seq(ScanCodes \cup {KB_BREAK}) /\ received \in Seq(KbByte)

\* What a pad sends as its bit i for the sample w: a button is pressed unless its opposite
\* is too and has precedence, and zeros follow the last bit.
Sent(w, i) ==
    CASE i \notin 0 .. Width - 1 -> 0
      [] i = PAD_RIGHT -> IF w[PAD_LEFT] = 0 THEN 1 ELSE w[i]
      [] i = PAD_DOWN -> IF w[PAD_UP] = 0 THEN 1 ELSE w[i]
      [] OTHER -> w[i]

OnLine(i) == IF ~new_input_mode THEN PINA[i] = Sent(sample[i], clocks)
             ELSE clocks \in 1 .. Width - 1 => PINA[i] = Sent(sample[i], clocks - 1)

\* After every write to PORTA (the steps that neither poll nor queue a key) the line of the
\* first pad shows the bit that the clocks since the latch select, of the sample taken at
\* that latch, whatever was polled since: bit n in the old mode, bit n - 1 in the new one,
\* also across the change of mode and while the keyboard uses the same clock. The second
\* line does while there is no keyboard (latched_buttons, avr8.cpp:387-418).
BitsOfOneSample ==
    [][buttons' = buttons /\ pressed' = pressed
         => OnLine(0)' /\ (~uzeKbEnabled' => OnLine(1)')]_vars

\* The emulation changes its mode, which the code infers from what is left of the second
\* pad's register, only for a program that has clocked more bits than a pad has buttons
\* since one latch: one that reads twelve bits keeps the mode it was written for
\* (avr8.cpp:412).
ModeOfLongReads == [][new_input_mode' # new_input_mode => clocks' > Buttons]_vars

\* The byte on its way: the bits the program has read of it and those still to shift.
InFlight ==
    LET byte == read \o SubSeq(uzeKbDataIn, 1, KbBits - Len(read))
    IN  IF read = <<>> \/ byte = Zero THEN <<>> ELSE <<byte>>

\* Every code queued is read once and in order off the second pad's line, wherever a key
\* event falls between two clocks, however the program's reads of the pads clock the
\* keyboard, and across the end of one transfer and the start of the next
\* (uzeKbScanCodeQueue, avr8.cpp:422-479 and 2003-2013).
KeysInOrder == pressed = received \o InFlight \o uzeKbScanCodeQueue
=============================================================================
