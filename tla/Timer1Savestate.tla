--------------------------- MODULE Timer1Savestate ---------------------------
(***************************************************************************)
(* Timer1 under the savestates of src/uzem_libretro.cpp.  A savestate      *)
(* holds the I/O registers, TIFR1, TCCR1B, OCR1A and OCR1B among them; the *)
(* schedule (TCNT1, timer1_next, timer1_base), the raised flags and the    *)
(* latches are private members of avr8 that it does not hold.              *)
(*                                                                         *)
(* The frontend calls between two retro_run, that is between two           *)
(* instructions.  Each state of phase "exec" is one of those: an           *)
(* instruction of one cycle leads to it as an inner cycle does.            *)
(***************************************************************************)
EXTENDS Timer1

VARIABLE saved  \* the timer's part of the last savestate

savestateVars == <<vars, saved>>

Registers == [TIFR1 |-> TIFR1, TCCR1B |-> TCCR1B, OCR1A |-> OCR1A, OCR1B |-> OCR1B]

InitSavestate == Init /\ saved = Registers

RetroSerialize == phase = "exec" /\ saved' = Registers /\ UNCHANGED vars

RetroUnserialize ==
    /\ phase = "exec"
    /\ TIFR1' = saved.TIFR1 /\ TCCR1B' = saved.TCCR1B
    /\ OCR1A' = saved.OCR1A /\ OCR1B' = saved.OCR1B
    /\ UNCHANGED schedule
    /\ UNCHANGED <<itd_TIFR1, T16_latch, dly_TCCR1B, dly_TCNT1, phase, saved>>

NextSavestate == (Next /\ UNCHANGED saved) \/ RetroSerialize \/ RetroUnserialize

SpecSavestate == InitSavestate /\ [][NextSavestate]_savestateVars
=============================================================================
