------------------------------ MODULE Timer1Ref ------------------------------
(***************************************************************************)
(* What Timer1 promises.  The comment at src/avr8.cpp:637-641 says that    *)
(* locking timer1_next to zero, so that the timer is processed on every    *)
(* CPU cycle, "should have no effect": this module is that timer.  It has  *)
(* a counter and no schedule.                                              *)
(***************************************************************************)
EXTENDS Timer1Regs

VARIABLES
    count,       \* the counter as the program reads it
    due,         \* flags raised by the last clock, visible one cycle later
    TIFR1, TCCR1B, OCR1A, OCR1B,
    T16_latch,   \* the high byte latch of 16 bit accesses
    newControl,  \* TCCR1B written by this instruction, or NoWrite
    newCount,    \* TCNT1 written by this instruction, or NoWrite
    phase        \* where the current instruction is

vars == <<count, due, TIFR1, TCCR1B, OCR1A, OCR1B, T16_latch,
          newControl, newCount, phase>>

Init ==
    /\ count = 0 /\ due = {} /\ TIFR1 = {} /\ TCCR1B = Stopped
    /\ OCR1A = 0 /\ OCR1B = 0 /\ T16_latch = 0
    /\ newControl = NoWrite /\ newCount = NoWrite
    /\ phase = "exec"

\* One CPU cycle.
Clock ==
    /\ TIFR1' = TIFR1 \cup due
    /\ due'   = IF TCCR1B.run THEN Matches(TCCR1B, count, OCR1A, OCR1B) ELSE {}
    /\ count' = IF TCCR1B.run THEN Advance(TCCR1B, count, OCR1A) ELSE count
    /\ UNCHANGED <<TCCR1B, OCR1A, OCR1B, T16_latch, newControl, newCount>>

InnerCycle == phase = "exec" /\ Clock /\ UNCHANGED phase
LastCycle  == phase \in {"exec", "accessed"} /\ Clock /\ phase' = "done"

\* The program's port accesses.
Access == phase = "exec" /\ phase' = "accessed" /\ UNCHANGED <<count, due, TCCR1B>>

WriteOCR(a, b) ==
    /\ Access
    /\ OCR1A' = a /\ OCR1B' = b
    /\ UNCHANGED <<TIFR1, T16_latch, newControl, newCount>>

WriteFlags(F) ==
    /\ Access
    /\ TIFR1' = TIFR1 \ F
    /\ UNCHANGED <<OCR1A, OCR1B, T16_latch, newControl, newCount>>

WriteControl(c) ==
    /\ Access
    /\ newControl' = c
    /\ UNCHANGED <<TIFR1, OCR1A, OCR1B, T16_latch, newCount>>

WriteHigh(v) ==
    /\ Access
    /\ T16_latch' = v
    /\ UNCHANGED <<TIFR1, OCR1A, OCR1B, newControl, newCount>>

WriteLow(v) ==
    /\ Access
    /\ newCount' = Join(T16_latch, v)
    /\ UNCHANGED <<TIFR1, OCR1A, OCR1B, T16_latch, newControl>>

ReadLow ==
    /\ Access
    /\ T16_latch' = High(count)
    /\ UNCHANGED <<TIFR1, OCR1A, OCR1B, newControl, newCount>>

\* Between two instructions: what the program wrote takes effect, and the
\* interrupt unit may take one of the flags.
Finish(taken) ==
    /\ phase = "done"
    /\ taken \subseteq TIFR1
    /\ TIFR1'  = TIFR1 \ taken
    /\ TCCR1B' = IF newControl = NoWrite THEN TCCR1B ELSE newControl
    /\ count'  = IF newCount = NoWrite THEN count ELSE newCount
    /\ newControl' = NoWrite /\ newCount' = NoWrite
    /\ phase' = "exec"
    /\ UNCHANGED <<due, OCR1A, OCR1B, T16_latch>>

Next ==
    \/ InnerCycle \/ LastCycle
    \/ \E w \in Word : WriteOCR(w, OCR1B) \/ WriteOCR(OCR1A, w)
    \/ \E F \in SUBSET Flags : WriteFlags(F)
    \/ \E c \in Control : WriteControl(c)
    \/ \E v \in Written : WriteHigh(v) \/ WriteLow(v)
    \/ ReadLow
    \/ \E taken \in {{}} \cup {{f} : f \in Flags} : Finish(taken)

Spec == Init /\ [][Next]_vars
==============================================================================
