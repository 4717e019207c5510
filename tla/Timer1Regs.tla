----------------------------- MODULE Timer1Regs -----------------------------
(***************************************************************************)
(* The vocabulary of the 16 bit Timer1 of the emulated ATmega644: its      *)
(* registers, its interrupt flags and what one clock of the timer does to  *)
(* the counter.  Shared by Timer1Ref (a timer that is clocked every CPU    *)
(* cycle) and Timer1 (the event driven timer of src/avr8.cpp).             *)
(***************************************************************************)
EXTENDS Bytes

CONSTANTS
    Written,  \* the byte values that the program writes to the timer's ports
    NoWrite   \* no delayed output is pending

ASSUME WrittenAssumption == Written \subseteq Byte

\* TIFR1 is the set of the flags that are up.
Flags == {"TOV1", "OCF1A", "OCF1B"}

\* What matters of TCCR1B: a clock is selected (TCCR1B & 7), WGM12 is set.
Control == [run : BOOLEAN, ctc : BOOLEAN]
ASSUME NoWriteAssumption == NoWrite \notin Word /\ NoWrite \notin Control

Stopped == [run |-> FALSE, ctc |-> FALSE]

\* The flags that a timer counting at n raises when it is clocked; the
\* compare units are only emulated in CTC mode.
Matches(ctrl, n, ocra, ocrb) ==
    {f \in Flags : \/ f = "TOV1"  /\ n = Top
                   \/ f = "OCF1A" /\ ctrl.ctc /\ n = ocra
                   \/ f = "OCF1B" /\ ctrl.ctc /\ n = ocrb}

\* Mutated form of Advance: counts past 2^16.
AdvanceNoWrap(ctrl, n, ocra) ==
    IF ctrl.ctc /\ n = ocra THEN 0 ELSE n + 1

\* The counter after that clock: cleared on OCR1A in CTC mode, else counted
\* modulo 2^16.
Advance(ctrl, n, ocra) ==
    IF ctrl.ctc /\ n = ocra THEN 0 ELSE (n + 1) % (Top + 1)
=============================================================================
