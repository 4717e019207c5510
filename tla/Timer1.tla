------------------------------- MODULE Timer1 -------------------------------
(***************************************************************************)
(* The event driven Timer1 of src/avr8.cpp.  The counter is not clocked on *)
(* every CPU cycle: update_hardware computes how many cycles remain until  *)
(* the next event (timer1_next), remembers that number (timer1_base) and   *)
(* then only counts timer1_next down.  In between, the counter a program   *)
(* reads is reconstructed as TCNT1 + timer1_base - timer1_next, and every  *)
(* port write that disturbs the schedule must fold the elapsed cycles into *)
(* TCNT1 and drop the schedule.                                            *)
(*                                                                         *)
(* An instruction is: any number of inner cycles, at most one port access, *)
(* the cycle that ends it, and update_hardware_ins.  Which interrupt is    *)
(* dispatched depends on SREG and TIMSK1, which are not part of the timer: *)
(* update_hardware_ins takes any raised flag or none.                      *)
(***************************************************************************)
EXTENDS Timer1Regs

VARIABLES
    TCNT1,         \* the counter when the schedule was made
    timer1_next,   \* cycles that remain until the next event
    timer1_base,   \* what timer1_next was when the schedule was made
    itd_TIFR1,     \* flags raised by the last processing, not yet in TIFR1
    TIFR1, TCCR1B, OCR1A, OCR1B,
    T16_latch,
    dly_TCCR1B,    \* dly_TCCR1B when DLY_TCCR1B is set in dly_out, or NoWrite
    dly_TCNT1,     \* dly_TCNT1H:dly_TCNT1L when DLY_TCNT1 is set, or NoWrite
    phase          \* where exec is in the current instruction

schedule == <<TCNT1, timer1_next, timer1_base>>
vars == <<TCNT1, timer1_next, timer1_base, itd_TIFR1, TIFR1, TCCR1B, OCR1A,
          OCR1B, T16_latch, dly_TCCR1B, dly_TCNT1, phase>>

\* The counter as the program reads it.
Count == TCNT1 + timer1_base - timer1_next

Init ==
    /\ TCNT1 = 0 /\ timer1_next = 0 /\ timer1_base = 0 /\ itd_TIFR1 = {}
    /\ TIFR1 = {} /\ TCCR1B = Stopped /\ OCR1A = 0 /\ OCR1B = 0
    /\ T16_latch = 0 /\ dly_TCCR1B = NoWrite /\ dly_TCNT1 = NoWrite
    /\ phase = "exec"
-----------------------------------------------------------------------------
\* Of d cycles, those that remain until the counter, now at n, reaches ocr.
Until(n, ocr, d) == IF n <= ocr /\ ocr - n < d THEN ocr - n ELSE d

\* Forgets that a compare match with OCR1A is an event.
CyclesToEventNoOCR1A(ctrl, n, ocra, ocrb) ==
    IF ctrl.ctc THEN Until(n, ocrb, Top - n) ELSE Top - n

CyclesToEvent(ctrl, n, ocra, ocrb) ==
    IF ctrl.ctc THEN Until(n, ocra, Until(n, ocrb, Top - n)) ELSE Top - n

\* The schedule made by a processing that raised the flags up and left the
\* counter at n: none while raised flags are still to be delivered.
\* Mutated form: makes one all the same.
NewScheduleAlways(up, n) ==
    IF TCCR1B.run THEN CyclesToEvent(TCCR1B, n, OCR1A, OCR1B) ELSE 0

NewSchedule(up, n) ==
    IF TCCR1B.run /\ up = {} THEN CyclesToEvent(TCCR1B, n, OCR1A, OCR1B) ELSE 0

\* The full processing of the timer, on a cycle with no schedule left.
Process ==
    LET n  == TCNT1 + timer1_base
        up == IF TCCR1B.run THEN Matches(TCCR1B, n, OCR1A, OCR1B) ELSE {}
        to == IF TCCR1B.run THEN Advance(TCCR1B, n, OCR1A) ELSE n
    IN  /\ TCNT1' = to
        /\ itd_TIFR1' = up
        /\ TIFR1' = TIFR1 \cup itd_TIFR1
        /\ timer1_next' = NewSchedule(up, to)
        /\ timer1_base' = NewSchedule(up, to)

CountDown ==
    /\ timer1_next' = timer1_next - 1
    /\ UNCHANGED <<TCNT1, timer1_base, itd_TIFR1, TIFR1>>

\* update_hardware and update_hardware_fast: one CPU cycle.
UpdateHardware ==
    /\ \/ timer1_next = 0 /\ Process
       \/ timer1_next # 0 /\ CountDown
    /\ UNCHANGED <<TCCR1B, OCR1A, OCR1B, T16_latch, dly_TCCR1B, dly_TCNT1>>

InnerCycle == phase = "exec" /\ UpdateHardware /\ UNCHANGED phase
LastCycle  == phase \in {"exec", "accessed"} /\ UpdateHardware /\ phase' = "done"
-----------------------------------------------------------------------------
Access == phase = "exec" /\ phase' = "accessed" /\ UNCHANGED <<itd_TIFR1, TCCR1B>>

\* Fold the elapsed part of the schedule into TCNT1 and drop the schedule.
\* Mutated form: the schedule is kept.
RescheduleKeeps == UNCHANGED schedule

Reschedule ==
    /\ TCNT1' = TCNT1 + timer1_base - timer1_next
    /\ timer1_base' = 0
    /\ timer1_next' = 0

WriteOCR(a, b) ==
    /\ Access
    /\ OCR1A' = a /\ OCR1B' = b
    /\ Reschedule
    /\ UNCHANGED <<TIFR1, T16_latch, dly_TCCR1B, dly_TCNT1>>

WriteOCR1AH(v) == WriteOCR(Join(v, Low(OCR1A)), OCR1B)
WriteOCR1AL(v) == WriteOCR(Join(High(OCR1A), v), OCR1B)
WriteOCR1BH(v) == WriteOCR(OCR1A, Join(v, Low(OCR1B)))
WriteOCR1BL(v) == WriteOCR(OCR1A, Join(High(OCR1B), v))

WriteTIFR1(F) ==
    /\ Access
    /\ TIFR1' = TIFR1 \ F
    /\ UNCHANGED schedule
    /\ UNCHANGED <<OCR1A, OCR1B, T16_latch, dly_TCCR1B, dly_TCNT1>>

WriteTCCR1B(c) ==
    /\ Access
    /\ dly_TCCR1B' = c
    /\ UNCHANGED schedule
    /\ UNCHANGED <<TIFR1, OCR1A, OCR1B, T16_latch, dly_TCNT1>>

WriteTCNT1H(v) ==
    /\ Access
    /\ T16_latch' = v
    /\ UNCHANGED schedule
    /\ UNCHANGED <<TIFR1, OCR1A, OCR1B, dly_TCCR1B, dly_TCNT1>>

WriteTCNT1L(v) ==
    /\ Access
    /\ dly_TCNT1' = Join(T16_latch, v)
    /\ UNCHANGED schedule
    /\ UNCHANGED <<TIFR1, OCR1A, OCR1B, T16_latch, dly_TCCR1B>>

ReadTCNT1L ==
    /\ Access
    /\ T16_latch' = High(Count)
    /\ UNCHANGED schedule
    /\ UNCHANGED <<TIFR1, OCR1A, OCR1B, dly_TCCR1B, dly_TCNT1>>
-----------------------------------------------------------------------------
\* The delayed outputs: a new TCCR1B is a state change that folds the
\* schedule, a new TCNT1 replaces the counter.
ApplyDelayed ==
    /\ TCCR1B' = IF dly_TCCR1B = NoWrite THEN TCCR1B ELSE dly_TCCR1B
    /\ \/ dly_TCCR1B = NoWrite /\ dly_TCNT1 = NoWrite /\ UNCHANGED schedule
       \/ dly_TCCR1B # NoWrite /\ dly_TCNT1 = NoWrite /\ Reschedule
       \/ /\ dly_TCNT1 # NoWrite
          /\ TCNT1' = dly_TCNT1
          /\ timer1_base' = 0
          /\ timer1_next' = 0
    /\ dly_TCCR1B' = NoWrite
    /\ dly_TCNT1' = NoWrite

\* The timer's part of update_hardware_ins; taken is the flag of the interrupt
\* that is dispatched, if one is.
UpdateHardwareIns(taken) ==
    /\ phase = "done"
    /\ ApplyDelayed
    /\ taken \subseteq TIFR1
    /\ TIFR1' = TIFR1 \ taken
    /\ phase' = "exec"
    /\ UNCHANGED <<itd_TIFR1, OCR1A, OCR1B, T16_latch>>

Cycle == InnerCycle \/ LastCycle

TimerWrite ==
    \/ \E v \in Written : \/ WriteOCR1AH(v) \/ WriteOCR1AL(v)
                       \/ WriteOCR1BH(v) \/ WriteOCR1BL(v)
                       \/ WriteTCNT1H(v) \/ WriteTCNT1L(v)
    \/ \E c \in Control : WriteTCCR1B(c)
    \/ \E F \in SUBSET Flags : WriteTIFR1(F)

InstructionEnd == \E taken \in {{}} \cup {{f} : f \in Flags} : UpdateHardwareIns(taken)

Next == Cycle \/ TimerWrite \/ ReadTCNT1L \/ InstructionEnd

\* The frontend keeps running instructions (retro_run), and every instruction
\* calls update_hardware at least once, on its last cycle.
Fairness == WF_vars(LastCycle) /\ WF_vars(InstructionEnd)

Spec == Init /\ [][Next]_vars
FairSpec == Spec /\ Fairness
-----------------------------------------------------------------------------
(* Properties *)

\* Every variable keeps its type; the counter the program reads stays within
\* 16 bits although the schedule is added to it without a mask
\* (avr8.cpp:599, 648, 757).
TypeOK ==
    /\ TCNT1 \in Word /\ timer1_next \in Word /\ timer1_base \in Word
    /\ Count \in Word
    /\ itd_TIFR1 \subseteq Flags /\ TIFR1 \subseteq Flags
    /\ TCCR1B \in Control /\ OCR1A \in Word /\ OCR1B \in Word
    /\ T16_latch \in Byte
    /\ dly_TCCR1B \in Control \cup {NoWrite} /\ dly_TCNT1 \in Word \cup {NoWrite}
    /\ phase \in {"exec", "accessed", "done"}

\* The counter values at which the running timer has something to raise.
Events == {Top} \cup (IF TCCR1B.ctc THEN {OCR1A, OCR1B} ELSE {})

\* Counting timer1_next down never carries the counter over a compare match or
\* an overflow: "timer1_next stores the cycles remaining until the next event"
\* (avr8.cpp:637).
NoEventSkipped == \A e \in Events : ~(Count <= e /\ e < Count + timer1_next)

\* The inductive form.  The schedule made at TCNT1 stays within 16 bits and
\* never runs over its end; there is none while raised flags wait to be
\* delivered or the timer is stopped (avr8.cpp:652, 688, 713); and no event lies
\* inside the whole scheduled stretch, the elapsed part included, so that any
\* port write may drop the rest of it.
ScheduleInv ==
    /\ timer1_next <= timer1_base
    /\ TCNT1 + timer1_base <= Top
    /\ (itd_TIFR1 # {} \/ ~TCCR1B.run) => timer1_base = 0
    /\ \A e \in Events : ~(TCNT1 <= e /\ e < TCNT1 + timer1_base)

\* The event driven timer cannot be told from the timer that is clocked every
\* cycle: locking timer1_next to zero "should have no effect" (avr8.cpp:639).
Ref == INSTANCE Timer1Ref WITH count <- Count, due <- itd_TIFR1,
           newControl <- dly_TCCR1B, newCount <- dly_TCNT1
ImplementsRef == Ref!Spec

\* A timer left running in CTC mode raises OCF1A again and again, whatever the
\* schedule was when the program last touched it: the kernel's scanline timing
\* hangs on it.
LeftRunning == TCCR1B = [run |-> TRUE, ctc |-> TRUE]
CompareRecurs ==
    (<>[]LeftRunning /\ <>[][~TimerWrite]_vars) => []<>("OCF1A" \in itd_TIFR1)
=============================================================================
