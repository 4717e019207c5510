-------------------------------- MODULE Video --------------------------------
(***************************************************************************)
(* The scanline synchronisation of write_io (PORTB) in src/avr8.cpp and    *)
(* the frame loop of retro_run in src/uzem_libretro.cpp.                   *)
(*                                                                         *)
(* The program writes the sync signal to bit 0 of PORTB; the emulator      *)
(* finds the frames in it by the time between two pulses.  The frontend    *)
(* asks for one frame at a time and may move to another buffer between     *)
(* two of them, or restore a savestate.                                    *)
(***************************************************************************)
EXTENDS Integers

CONSTANTS
    HSYNC_HALF_PERIOD, Slack,   \* 910 +- 10 cycles start a frame
    HSYNC_PERIOD,               \* the cycles of a line, 1820
    Lines,                      \* 224
    Above,                      \* the pulses before the first line, 38
    left_edge, Width,           \* VIDEO_LEFT_EDGE, VIDEO_DISP_WIDTH: 168 and 720
    Ring,                       \* the size of scanline_buf, 2048
    Cycles,                     \* the values of cycleCounter, 2^32
    EepromCycles                \* what an EEPROM access adds to it, 4

ASSUME PeriodAssumption == /\ HSYNC_HALF_PERIOD \in Nat /\ Slack \in Nat
                           /\ HSYNC_PERIOD \in Nat \ {0}
\* Above stays clear of the mark of NoFrame.
ASSUME FrameAssumption == Lines \in Nat \ {0} /\ Above \in 1 .. 998
ASSUME EdgeAssumption == /\ left_edge \in Nat \ {0} /\ Width \in Nat \ {0}
                         /\ left_edge + 2 * (Width - 1) <= HSYNC_PERIOD
                         /\ HSYNC_PERIOD <= Ring
ASSUME RingAssumption == /\ Ring \in Nat \ {0} /\ Cycles \in Nat \ {0}
                         /\ Cycles % Ring = 0
ASSUME EepromAssumption == EepromCycles \in Nat

VARIABLES
    run,                \* where retro_run is
    scanline_count,     \* NoFrame between two frames
    cycleCounter,
    prevCyclesCounter,  \* at the last pulse
    left_edge_cycle,    \* at the last pulse of this frame
    saved,              \* left_edge_cycle in the frontend's savestate
    own,                \* history: the slots of scanline_buf filled since the last pulse
    since,              \* history: the cycles since the last pulse, up to Ring + 1
    holes,              \* history: the EEPROM was accessed since the last pulse
    rows                \* history: how each row of the frontend's buffer was drawn

vars == <<run, scanline_count, cycleCounter, prevCyclesCounter, left_edge_cycle, saved,
          own, since, holes, rows>>

NoFrame == 0 - 999
\* Mutated form: the line after the sync pulse is the first of the picture.
scanline_topAtOnce == 0
scanline_top == 0 - Above

Line == 0 .. Lines - 1
Slot == 0 .. Ring - 1
Clock == 0 .. Cycles - 1

\* A row not drawn since retro_run began, drawn from pixels of its own line, with
\* others, from a line of odd length or with holes, and drawn twice.
Drawn == {"missing", "own", "torn", "uneven", "twice"}

Init ==
    /\ run = "idle"
    /\ scanline_count = NoFrame
    /\ cycleCounter = Cycles - 1
    /\ prevCyclesCounter = 0
    /\ left_edge_cycle = cycleCounter
    /\ saved = left_edge_cycle
    /\ own = {}
    /\ since = 0
    /\ holes = FALSE
    /\ rows = [n \in Line |-> "missing"]
-----------------------------------------------------------------------------
(* The emulated machine: avr8::exec as far as the picture goes *)

\* retro_run goes on executing instructions.
Executing == \/ run = "sync" /\ scanline_count = NoFrame
             \/ run = "draw" /\ scanline_count # NoFrame

Capped(n) == IF n > Ring THEN Ring + 1 ELSE n

\* A cycle puts one pixel into the ring.
Cycle ==
    LET now == (cycleCounter + 1) % Cycles
    IN  /\ Executing
        /\ cycleCounter' = now
        /\ own' = own \cup {now % Ring}
        /\ since' = Capped(since + 1)
        /\ UNCHANGED <<run, scanline_count, prevCyclesCounter, left_edge_cycle, saved, holes, rows>>

\* An EEPROM access only advances the clock.
EepromAccess ==
    /\ Executing
    /\ cycleCounter' = (cycleCounter + EepromCycles) % Cycles
    /\ since' = Capped(since + EepromCycles)
    /\ holes' = TRUE
    /\ UNCHANGED <<run, scanline_count, prevCyclesCounter, left_edge_cycle, saved, own, rows>>

\* The slots render_line reads.
Source(i) == (left_edge + left_edge_cycle + 2 * i) % Ring

\* render_line, as far as the history tells rows apart.
Rendered(n) ==
    IF rows[n] # "missing" THEN "twice"
    ELSE IF \A i \in 0 .. Width - 1 : Source(i) \in own THEN "own"
    ELSE IF since = HSYNC_PERIOD /\ ~holes THEN "torn" ELSE "uneven"

elapsedCycles == (cycleCounter - prevCyclesCounter) % Cycles
IsSync == elapsedCycles \in HSYNC_HALF_PERIOD - Slack .. HSYNC_HALF_PERIOD + Slack

\* What every pulse ends with.
PulseDone ==
    /\ prevCyclesCounter' = cycleCounter
    /\ own' = {}
    /\ since' = 0
    /\ holes' = FALSE
    /\ UNCHANGED <<run, cycleCounter, saved>>

\* Writes of PORTB with bit 0 set: a pulse that starts a frame or is not looked at ...
Search ==
    /\ Executing /\ scanline_count = NoFrame
    /\ scanline_count' = IF IsSync THEN scanline_top ELSE scanline_count
    /\ PulseDone
    /\ UNCHANGED <<left_edge_cycle, rows>>

\* ... and one that ends a line, the last of which ends the frame.
\* Mutated forms: no end of the frame, the next frame at once; the first row left out.
NextLineNoEnd(n) == n + 1
NextLineAgain(n) == IF n + 1 = Lines THEN scanline_top ELSE n + 1
NextLine(n) == IF n + 1 = Lines THEN NoFrame ELSE n + 1
IsRowBelowFirst(n) == n > 0
IsRow(n) == n >= 0
EndLine ==
    /\ Executing /\ scanline_count # NoFrame
    /\ rows' = IF IsRow(scanline_count)
               THEN [rows EXCEPT ![scanline_count] = Rendered(scanline_count)] ELSE rows
    /\ scanline_count' = NextLine(scanline_count)
    /\ left_edge_cycle' = cycleCounter
    /\ PulseDone

Pulse == Search \/ EndLine
-----------------------------------------------------------------------------
(* The frontend *)

\* retro_run is called, perhaps with another buffer.
Begin ==
    /\ run = "idle"
    /\ run' = "sync"
    /\ rows' = [n \in Line |-> "missing"]
    /\ UNCHANGED <<scanline_count, cycleCounter, prevCyclesCounter, left_edge_cycle, saved,
                   own, since, holes>>

\* The two loops of retro_run end; the second hands the buffer to video_cb.
LoopEnds ==
    /\ \/ run = "sync" /\ scanline_count # NoFrame /\ run' = "draw"
       \/ run = "draw" /\ scanline_count = NoFrame /\ run' = "idle"
    /\ UNCHANGED <<scanline_count, cycleCounter, prevCyclesCounter, left_edge_cycle, saved,
                   own, since, holes, rows>>

\* retro_serialize and retro_unserialize; the clock is in neither.
Serialize ==
    /\ run = "idle"
    /\ saved' = left_edge_cycle
    /\ UNCHANGED <<run, scanline_count, cycleCounter, prevCyclesCounter, left_edge_cycle,
                   own, since, holes, rows>>

Unserialize ==
    /\ run = "idle"
    /\ left_edge_cycle' = saved
    /\ UNCHANGED <<run, scanline_count, cycleCounter, prevCyclesCounter, saved,
                   own, since, holes, rows>>

Next == Cycle \/ EepromAccess \/ Pulse \/ Begin \/ LoopEnds \/ Serialize \/ Unserialize

Spec == Init /\ [][Next]_vars

\* The frontend's loops end when their condition says so.
FairSpec == Spec /\ WF_vars(LoopEnds)
-----------------------------------------------------------------------------
(* Properties *)

\* The types of the variables; scanline_count never reaches Lines.
TypeOK ==
    /\ run \in {"idle", "sync", "draw"}
    /\ scanline_count \in {NoFrame} \cup scanline_top .. Lines - 1
    /\ cycleCounter \in Clock /\ prevCyclesCounter \in Clock
    /\ left_edge_cycle \in Clock /\ saved \in Clock
    /\ own \subseteq Slot
    /\ since \in 0 .. Ring + 1 /\ holes \in BOOLEAN
    /\ rows \in [Line -> Drawn]

\* What video_cb is given was drawn by this call of retro_run, every row once: no row is
\* left from a buffer of an earlier call, however the program's sync pulses come.
WholeFrame ==
    run = "draw" /\ scanline_count = NoFrame =>
        \A n \in Line : rows[n] \notin {"missing", "twice"}

\* A line of the regular length in which the EEPROM is not accessed is drawn from its own
\* pixels only, also in the frame after a savestate that brings a left_edge_cycle of
\* another time.
OwnPixels == \A n \in Line : rows[n] # "torn"

\* retro_run returns if the program goes on sending pulses half a line after another,
\* wherever in the search for a frame or in the frame they come.
RunReturns ==
    []<><<Pulse /\ IsSync>>_vars => (run # "idle" ~> run = "idle")
=============================================================================
