---------------------------- MODULE Timer1_proofs ----------------------------
(***************************************************************************)
(* The invariant of the event driven Timer1 and its refinement of the      *)
(* timer that is clocked every cycle, for every radix, every set of bytes  *)
(* the program writes and every order of accesses.                         *)
(*                                                                         *)
(* NoEventSkipped is not inductive: a port write that drops the schedule   *)
(* turns its elapsed part into the counter, so the invariant has to know   *)
(* that there was no event in the elapsed part either (ScheduleInv).       *)
(***************************************************************************)
EXTENDS Timer1, TLAPS

USE RadixAssumption

-----------------------------------------------------------------------------
(* Bytes and words *)

\* The largest word is a number.
LEMMA TopType == Top \in Nat /\ Top >= 3
<1>1. Radix * Radix >= 2 * Radix BY SMT
<1>2. Radix * Radix \in Nat BY SMT
<1> QED BY <1>1, <1>2 DEF Top

\* Two bytes make a word ...
LEMMA JoinType ==
  ASSUME NEW hi \in Byte, NEW lo \in Byte PROVE Join(hi, lo) \in Word
<1>1. hi * Radix <= (Radix - 1) * Radix BY SMT DEF Byte
<1>2. (Radix - 1) * Radix = Radix * Radix - Radix BY SMT
<1>3. hi * Radix \in Nat /\ Radix * Radix \in Nat BY SMT DEF Byte
<1> QED BY <1>1, <1>2, <1>3 DEF Byte, Word, Join, Top

\* ... and a word splits into two bytes.
LEMMA HighLowType ==
  ASSUME NEW w \in Word PROVE High(w) \in Byte /\ Low(w) \in Byte
<1>1. w \in Nat /\ w < Radix * Radix BY TopType DEF Word, Top
<1>2. High(w) \in Int /\ Low(w) \in Byte BY <1>1, SMT DEF High, Low, Byte
<1>3. w = Radix * High(w) + Low(w) BY <1>1, SMT DEF High, Low
<1>4. High(w) >= 0 BY <1>1, SMT DEF High
<1>5. ASSUME High(w) >= Radix PROVE FALSE
  <2>1. Radix * High(w) >= Radix * Radix BY <1>2, <1>5, SMT
  <2> QED BY <2>1, <1>1, <1>2, <1>3, SMT DEF Byte
<1> QED BY <1>2, <1>4, <1>5 DEF Byte
-----------------------------------------------------------------------------

\* A clock of the timer keeps the counter a word.
LEMMA AdvanceType ==
  ASSUME NEW c \in Control, NEW n \in Word, NEW a \in Word
  PROVE  /\ Advance(c, n, a) \in Word
         /\ n < Top /\ ~(c.ctc /\ n = a) => Advance(c, n, a) = n + 1
<1> DEFINE T == Top + 1
<1>1. T \in Nat /\ T >= 1 /\ n + 1 \in Nat BY TopType DEF Word
<1> HIDE DEF T
<1>2. (n + 1) % T \in 0 .. T - 1 BY <1>1, SMT
<1>3. n + 1 < T => (n + 1) % T = n + 1 BY <1>1, SMT
<1>4. T = Top + 1 BY DEF T
<1> QED BY <1>1, <1>2, <1>3, <1>4, TopType DEF Advance, Word
-----------------------------------------------------------------------------
(* Invariance *)

IInv == TypeOK /\ ScheduleInv

\* The constructor of avr8 leaves no schedule.
LEMMA InitIInv == Init => IInv
<1> SUFFICES ASSUME Init PROVE IInv
  OBVIOUS
<1>1. 0 \in Word /\ 0 \in Byte BY TopType DEF Word, Byte
<1>2. TypeOK
  BY <1>1, TopType DEF Init, TypeOK, Count, Control, Stopped
<1>3. ScheduleInv
  BY TopType DEF Init, ScheduleInv, Events, Stopped
<1> QED BY <1>2, <1>3 DEF IInv

\* The schedule that a processing makes ends at the first event or before it.
LEMMA ScheduleMade ==
  ASSUME NEW c \in Control, NEW n \in Word, NEW a \in Word, NEW b \in Word
  PROVE  LET d == CyclesToEvent(c, n, a, b)
         IN  /\ d \in Word /\ n + d <= Top
             /\ c.ctc => ~(n <= a /\ a < n + d) /\ ~(n <= b /\ b < n + d)
<1>1. Top - n \in Word /\ n \in Nat /\ a \in Nat /\ b \in Nat BY TopType DEF Word
<1> DEFINE d1 == Until(n, b, Top - n)
           d2 == Until(n, a, d1)
<1>2. d1 \in Word /\ d1 <= Top - n /\ ~(n <= b /\ b < n + d1)
  BY <1>1, TopType DEF Until, Word
<1>3. d2 \in Word /\ d2 <= d1 /\ ~(n <= a /\ a < n + d2)
  BY <1>1, <1>2, TopType DEF Until, Word
<1>4. CyclesToEvent(c, n, a, b) = IF c.ctc THEN d2 ELSE Top - n
  BY DEF CyclesToEvent
<1> HIDE DEF d1, d2
<1> QED BY <1>1, <1>2, <1>3, <1>4, TopType DEF Word

\* A full processing of the timer (update_hardware with timer1_next = 0).
LEMMA ProcessIInv == IInv /\ timer1_next = 0 /\ Process /\ UNCHANGED <<TCCR1B, OCR1A,
    OCR1B, T16_latch, dly_TCCR1B, dly_TCNT1>> /\ phase' \in {"exec", "accessed", "done"}
    => IInv'
<1> SUFFICES ASSUME IInv, timer1_next = 0, Process,
                    UNCHANGED <<TCCR1B, OCR1A, OCR1B, T16_latch, dly_TCCR1B, dly_TCNT1>>,
                    phase' \in {"exec", "accessed", "done"}
             PROVE  IInv'
  OBVIOUS
<1> DEFINE n  == TCNT1 + timer1_base
           up == IF TCCR1B.run THEN Matches(TCCR1B, n, OCR1A, OCR1B) ELSE {}
           to == IF TCCR1B.run THEN Advance(TCCR1B, n, OCR1A) ELSE n
           d  == NewSchedule(up, to)
<1>1. n \in Word BY TopType DEF IInv, TypeOK, ScheduleInv, Word
<1>2. TCCR1B \in Control /\ OCR1A \in Word /\ OCR1B \in Word
  BY DEF IInv, TypeOK
<1>3. to \in Word BY <1>1, <1>2, AdvanceType
<1>4. up \subseteq Flags BY DEF Matches
<1>5. /\ TCNT1' = to /\ itd_TIFR1' = up /\ timer1_next' = d /\ timer1_base' = d
      /\ TIFR1' = TIFR1 \cup itd_TIFR1
  BY DEF Process
<1>6. /\ d \in Word /\ to + d <= Top
      /\ up # {} \/ ~TCCR1B.run => d = 0
      /\ TCCR1B.ctc => ~(to <= OCR1A /\ OCR1A < to + d) /\ ~(to <= OCR1B /\ OCR1B < to + d)
  <2>1. CASE TCCR1B.run /\ up = {}
    <3>1. d = CyclesToEvent(TCCR1B, to, OCR1A, OCR1B) BY <2>1 DEF NewSchedule
    <3> HIDE DEF d, to, up
    <3> QED BY <3>1, <2>1, <1>2, <1>3, ScheduleMade
  <2>2. CASE ~(TCCR1B.run /\ up = {})
    <3>1. d = 0 BY <2>2 DEF NewSchedule
    <3> HIDE DEF d, to, up
    <3> QED BY <3>1, <1>2, <1>3, TopType DEF Word
  <2> QED BY <2>1, <2>2
<1> HIDE DEF n, up, to, d
<1>7. TypeOK'
  BY <1>3, <1>4, <1>5, <1>6, TopType DEF IInv, TypeOK, Count, Word
<1>8. ScheduleInv'
  <2>1. \A e \in Events' : ~(to <= e /\ e < to + d)
    BY <1>2, <1>3, <1>6, TopType DEF Events, Word
  <2> QED BY <1>3, <1>5, <1>6, <2>1, TopType DEF ScheduleInv, Word
<1> QED BY <1>7, <1>8 DEF IInv

\* An update_hardware call, wherever in the instruction it happens.
LEMMA UpdateHardwareIInv ==
  ASSUME IInv, UpdateHardware, phase' \in {"exec", "accessed", "done"}
  PROVE  IInv'
<1>1. CASE timer1_next = 0
  BY <1>1, ProcessIInv DEF UpdateHardware
<1>2. CASE timer1_next # 0
  <2>1. CountDown /\ UNCHANGED <<TCCR1B, OCR1A, OCR1B, T16_latch, dly_TCCR1B, dly_TCNT1>>
    BY <1>2 DEF UpdateHardware
  <2>2. TypeOK'
    BY <1>2, <2>1, TopType DEF IInv, TypeOK, ScheduleInv, CountDown, Count, Word
  <2>3. Events' = Events
    BY <2>1 DEF Events
  <2>4. ScheduleInv'
    BY <1>2, <2>1, <2>3, TopType DEF IInv, TypeOK, ScheduleInv, CountDown, Word
  <2> QED BY <2>2, <2>4 DEF IInv
<1> QED BY <1>1, <1>2

\* A counter with no schedule: what every port write that drops it leaves.
LEMMA NoScheduleInv ==
  ASSUME NEW n \in Word, TCNT1' = n, timer1_base' = 0, timer1_next' = 0,
         OCR1A' \in Word, OCR1B' \in Word
  PROVE  ScheduleInv' /\ Count' \in Word
<1>1. ASSUME NEW e \in Events' PROVE ~(n <= e /\ e < n + 0)
  <2>1. e \in Word BY TopType DEF Events, Word
  <2> QED BY <2>1 DEF Word
<1>2. n + 0 <= Top /\ n + 0 - 0 \in Word
  BY TopType DEF Word
<1> QED BY <1>1, <1>2 DEF ScheduleInv, Count

\* Folding the elapsed cycles into TCNT1 keeps it a word.
LEMMA RescheduleType ==
  ASSUME IInv, Reschedule
  PROVE  TCNT1' = Count /\ Count \in Word /\ timer1_base' = 0 /\ timer1_next' = 0
BY DEF IInv, TypeOK, Reschedule, Count

\* A write to a compare register.
LEMMA WriteOCRIInv ==
  ASSUME IInv, NEW a \in Word, NEW b \in Word, WriteOCR(a, b) PROVE IInv'
<1>1. TCNT1' = Count /\ Count \in Word /\ timer1_base' = 0 /\ timer1_next' = 0
  BY RescheduleType DEF WriteOCR
<1>2. ScheduleInv' /\ Count' \in Word
  BY <1>1, NoScheduleInv DEF WriteOCR, Access, IInv, TypeOK
<1>3. TypeOK'
  BY <1>1, <1>2, TopType DEF WriteOCR, Access, IInv, TypeOK, Word
<1> QED BY <1>2, <1>3 DEF IInv

\* A step that touches neither schedule nor events keeps the invariant.
LEMMA KeepsSchedule ==
  ASSUME IInv, UNCHANGED schedule, UNCHANGED <<itd_TIFR1, TCCR1B, OCR1A, OCR1B>>
  PROVE  ScheduleInv' /\ Count' \in Word /\ TCNT1' \in Word /\ timer1_next' \in Word
         /\ timer1_base' \in Word
<1>1. Events' = Events BY DEF Events
<1> QED BY <1>1 DEF IInv, TypeOK, ScheduleInv, Count, schedule

\* All port writes.
LEMMA TimerWriteIInv == IInv /\ TimerWrite => IInv'
<1> SUFFICES ASSUME IInv, TimerWrite PROVE IInv'
  OBVIOUS
<1>1. /\ OCR1A \in Word /\ OCR1B \in Word /\ High(OCR1A) \in Byte /\ Low(OCR1A) \in Byte
      /\ High(OCR1B) \in Byte /\ Low(OCR1B) \in Byte
  BY HighLowType DEF IInv, TypeOK
<1>2. ASSUME NEW v \in Written,
             WriteOCR1AH(v) \/ WriteOCR1AL(v) \/ WriteOCR1BH(v) \/ WriteOCR1BL(v)
      PROVE  IInv'
  <2>1. /\ Join(v, Low(OCR1A)) \in Word /\ Join(High(OCR1A), v) \in Word
        /\ Join(v, Low(OCR1B)) \in Word /\ Join(High(OCR1B), v) \in Word
    BY <1>1, JoinType, WrittenAssumption
  <2> QED BY <1>1, <1>2, <2>1, WriteOCRIInv
          DEF WriteOCR1AH, WriteOCR1AL, WriteOCR1BH, WriteOCR1BL
<1>3. ASSUME NEW v \in Written, WriteTCNT1H(v) PROVE IInv'
  <2>1. ScheduleInv' /\ Count' \in Word /\ TCNT1' \in Word /\ timer1_next' \in Word
        /\ timer1_base' \in Word
    BY <1>3, KeepsSchedule DEF WriteTCNT1H, Access
  <2> QED BY <1>3, <2>1, WrittenAssumption DEF WriteTCNT1H, Access, IInv, TypeOK
<1>4. ASSUME NEW v \in Written, WriteTCNT1L(v) PROVE IInv'
  <2>1. ScheduleInv' /\ Count' \in Word /\ TCNT1' \in Word /\ timer1_next' \in Word
        /\ timer1_base' \in Word
    BY <1>4, KeepsSchedule DEF WriteTCNT1L, Access
  <2>2. Join(T16_latch, v) \in Word
    BY JoinType, WrittenAssumption DEF IInv, TypeOK
  <2> QED BY <1>4, <2>1, <2>2 DEF WriteTCNT1L, Access, IInv, TypeOK
<1>5. ASSUME NEW c \in Control, WriteTCCR1B(c) PROVE IInv'
  <2>1. ScheduleInv' /\ Count' \in Word /\ TCNT1' \in Word /\ timer1_next' \in Word
        /\ timer1_base' \in Word
    BY <1>5, KeepsSchedule DEF WriteTCCR1B, Access
  <2> QED BY <1>5, <2>1 DEF WriteTCCR1B, Access, IInv, TypeOK
<1>6. ASSUME NEW F \in SUBSET Flags, WriteTIFR1(F) PROVE IInv'
  <2>1. ScheduleInv' /\ Count' \in Word /\ TCNT1' \in Word /\ timer1_next' \in Word
        /\ timer1_base' \in Word
    BY <1>6, KeepsSchedule DEF WriteTIFR1, Access
  <2> QED BY <1>6, <2>1 DEF WriteTIFR1, Access, IInv, TypeOK
<1> QED BY <1>2, <1>3, <1>4, <1>5, <1>6 DEF TimerWrite

\* Reading the counter only moves the latch.
LEMMA ReadTCNT1LIInv == IInv /\ ReadTCNT1L => IInv'
<1> SUFFICES ASSUME IInv, ReadTCNT1L PROVE IInv'
  OBVIOUS
<1>1. ScheduleInv' /\ Count' \in Word /\ TCNT1' \in Word /\ timer1_next' \in Word
        /\ timer1_base' \in Word
  BY KeepsSchedule DEF ReadTCNT1L, Access
<1>2. High(Count) \in Byte
  BY HighLowType DEF IInv, TypeOK
<1> QED BY <1>1, <1>2 DEF ReadTCNT1L, Access, IInv, TypeOK

\* The delayed outputs, and a dispatched interrupt.
LEMMA UpdateHardwareInsIInv ==
  ASSUME IInv, NEW taken, UpdateHardwareIns(taken) PROVE IInv'
<1> USE DEF UpdateHardwareIns, ApplyDelayed
<1>1. TCCR1B' \in Control BY DEF IInv, TypeOK
<1>2. /\ ScheduleInv' /\ Count' \in Word /\ TCNT1' \in Word
      /\ timer1_next' \in Word /\ timer1_base' \in Word
  <2>1. CASE dly_TCCR1B = NoWrite /\ dly_TCNT1 = NoWrite
    BY <2>1, KeepsSchedule
  <2>2. CASE dly_TCCR1B # NoWrite /\ dly_TCNT1 = NoWrite
    <3>1. TCNT1' = Count /\ Count \in Word /\ timer1_base' = 0 /\ timer1_next' = 0
      BY <2>2, RescheduleType
    <3> QED BY <1>1, <3>1, NoScheduleInv, TopType DEF IInv, TypeOK, Word
  <2>3. CASE dly_TCNT1 # NoWrite
    <3>1. TCNT1' = dly_TCNT1 /\ dly_TCNT1 \in Word /\ timer1_base' = 0 /\ timer1_next' = 0
      BY <2>3 DEF IInv, TypeOK
    <3> QED BY <1>1, <3>1, NoScheduleInv, TopType DEF IInv, TypeOK, Word
  <2> QED BY <2>1, <2>2, <2>3
<1>3. TypeOK'
  BY <1>1, <1>2 DEF IInv, TypeOK
<1> QED BY <1>2, <1>3 DEF IInv

\* Every step keeps the invariant.
LEMMA NextIInv == IInv /\ [Next]_vars => IInv'
<1> SUFFICES ASSUME IInv, [Next]_vars PROVE IInv'
  OBVIOUS
<1>1. CASE Cycle
  BY <1>1, UpdateHardwareIInv DEF Cycle, InnerCycle, LastCycle
<1>2. CASE TimerWrite
  BY <1>2, TimerWriteIInv
<1>3. CASE ReadTCNT1L
  BY <1>3, ReadTCNT1LIInv
<1>4. CASE InstructionEnd
  BY <1>4, UpdateHardwareInsIInv DEF InstructionEnd
<1>5. CASE UNCHANGED vars
  <2>1. ScheduleInv' /\ Count' \in Word
    BY <1>5, KeepsSchedule DEF vars, schedule
  <2> QED BY <1>5, <2>1 DEF vars, IInv, TypeOK
<1> QED BY <1>1, <1>2, <1>3, <1>4, <1>5 DEF Next

\* The inductive invariant holds in every reachable state: types, and no event
\* inside the scheduled stretch.
THEOREM Invariance == Spec => []IInv
<1>1. Init => IInv BY InitIInv
<1>2. IInv /\ [Next]_vars => IInv' BY NextIInv
<1> QED BY <1>1, <1>2, PTL DEF Spec

\* The counter a program reads, and the schedule behind it, never leave 16 bits.
THEOREM TypeCorrect == Spec => []TypeOK
<1>1. IInv => TypeOK BY DEF IInv
<1> QED BY <1>1, Invariance, PTL

\* A schedule never extends over its end, never coexists with undelivered flags,
\* and never covers an event.
THEOREM ScheduleCorrect == Spec => []ScheduleInv
<1>1. IInv => ScheduleInv BY DEF IInv
<1> QED BY <1>1, Invariance, PTL

\* Counting down never carries the counter over a compare match or an overflow.
THEOREM EventsNotSkipped == Spec => []NoEventSkipped
<1>1. IInv => NoEventSkipped
  <2> SUFFICES ASSUME IInv, NEW e \in Events PROVE ~(Count <= e /\ e < Count + timer1_next)
    BY DEF NoEventSkipped
  <2>1. e \in Word BY TopType DEF Events, IInv, TypeOK, Word
  <2> QED BY <2>1, TopType DEF IInv, TypeOK, ScheduleInv, Count, Word
<1> QED BY <1>1, Invariance, PTL
-----------------------------------------------------------------------------
(* Refinement *)

\* A cycle without a schedule is a clock of the reference timer.
LEMMA ProcessImplements ==
  ASSUME IInv, timer1_next = 0, Process,
         UNCHANGED <<TCCR1B, OCR1A, OCR1B, T16_latch, dly_TCCR1B, dly_TCNT1>>
  PROVE  Ref!Clock
<1> DEFINE n  == TCNT1 + timer1_base
           up == IF TCCR1B.run THEN Matches(TCCR1B, n, OCR1A, OCR1B) ELSE {}
           to == IF TCCR1B.run THEN Advance(TCCR1B, n, OCR1A) ELSE n
           d  == NewSchedule(up, to)
<1>1. n \in Word /\ n = Count
  BY TopType DEF IInv, TypeOK, ScheduleInv, Count, Word
<1>2. to \in Word
  BY <1>1, AdvanceType DEF IInv, TypeOK
<1>3. d \in Int
  <2>1. CASE TCCR1B.run /\ up = {}
    <3>1. d = CyclesToEvent(TCCR1B, to, OCR1A, OCR1B) BY <2>1 DEF NewSchedule
    <3> HIDE DEF d, to, up
    <3>2. TCCR1B \in Control /\ OCR1A \in Word /\ OCR1B \in Word BY DEF IInv, TypeOK
    <3> QED BY <3>1, <3>2, <1>2, ScheduleMade DEF Word
  <2>2. CASE ~(TCCR1B.run /\ up = {})
    BY <2>2 DEF NewSchedule
  <2> QED BY <2>1, <2>2
<1>4. /\ TCNT1' = to /\ itd_TIFR1' = up /\ timer1_next' = d /\ timer1_base' = d
      /\ TIFR1' = TIFR1 \cup itd_TIFR1
  BY DEF Process
<1>5. Count' = to
  <2> HIDE DEF to, d
  <2> QED BY <1>2, <1>3, <1>4, TopType DEF Count, Word
<1> QED BY <1>1, <1>4, <1>5 DEF Ref!Clock, Ref!Matches, Matches, Ref!Advance, Advance,
        Ref!Flags, Flags, Ref!Top, Top

\* A cycle that counts the schedule down is one too: the reference timer counts
\* up by one and raises nothing, because no event is skipped.
LEMMA CountDownImplements ==
  ASSUME IInv, timer1_next # 0, CountDown,
         UNCHANGED <<TCCR1B, OCR1A, OCR1B, T16_latch, dly_TCCR1B, dly_TCNT1>>
  PROVE  Ref!Clock
<1> USE DEF IInv, TypeOK, ScheduleInv
<1>1. TCCR1B.run /\ itd_TIFR1 = {} BY TopType DEF Word
<1>2. Count \in Word /\ Count < Top BY TopType DEF Count, Word
<1>3. TCCR1B.ctc => Count # OCR1A /\ Count # OCR1B
  <2>1. TCCR1B.ctc => OCR1A \in Events /\ OCR1B \in Events BY DEF Events
  <2> QED BY <2>1, TopType DEF Count, Word
<1>4. Matches(TCCR1B, Count, OCR1A, OCR1B) = {} BY <1>2, <1>3, TopType DEF Matches, Word
<1>5. Advance(TCCR1B, Count, OCR1A) = Count + 1 BY <1>2, <1>3, AdvanceType
<1>6. Count' = Count + 1 BY TopType DEF CountDown, Count, Word
<1> QED BY <1>1, <1>4, <1>5, <1>6 DEF CountDown, Ref!Clock, Ref!Matches, Matches,
        Ref!Advance, Advance, Ref!Flags, Flags, Ref!Top, Top

\* A CPU cycle of the event driven timer is a clock of the reference timer.
LEMMA UpdateHardwareImplements ==
  ASSUME IInv, UpdateHardware PROVE Ref!Clock
BY ProcessImplements, CountDownImplements DEF UpdateHardware

\* A port access that keeps the schedule, or folds it, does not move the counter.
LEMMA CountKept ==
  ASSUME IInv, Reschedule \/ UNCHANGED schedule PROVE Count' = Count
<1>1. CASE Reschedule
  <2>1. TCNT1' = Count /\ Count \in Word /\ timer1_base' = 0 /\ timer1_next' = 0
    BY <1>1, RescheduleType
  <2> QED BY <2>1, TopType DEF Count, Word
<1>2. CASE UNCHANGED schedule
  BY <1>2 DEF schedule, Count
<1> QED BY <1>1, <1>2

\* A port write is the same port write there ...
LEMMA TimerWriteImplements ==
  ASSUME IInv, TimerWrite PROVE Ref!Next
<1> USE DEF Access, Ref!Access
<1>1. /\ OCR1A \in Word /\ OCR1B \in Word /\ High(OCR1A) \in Byte /\ Low(OCR1A) \in Byte
      /\ High(OCR1B) \in Byte /\ Low(OCR1B) \in Byte
  BY HighLowType DEF IInv, TypeOK
<1>2. ASSUME NEW a \in Word, NEW b \in Word, WriteOCR(a, b) PROVE Ref!WriteOCR(a, b)
  <2>1. Count' = Count BY <1>2, CountKept DEF WriteOCR
  <2> QED BY <1>2, <2>1 DEF WriteOCR, Ref!WriteOCR
<1>3. ASSUME NEW v \in Written,
             WriteOCR1AH(v) \/ WriteOCR1AL(v) \/ WriteOCR1BH(v) \/ WriteOCR1BL(v)
      PROVE  Ref!Next
  <2>1. /\ Join(v, Low(OCR1A)) \in Word /\ Join(High(OCR1A), v) \in Word
        /\ Join(v, Low(OCR1B)) \in Word /\ Join(High(OCR1B), v) \in Word
    BY <1>1, JoinType, WrittenAssumption
  <2>2. \E w \in Word : Ref!WriteOCR(w, OCR1B) \/ Ref!WriteOCR(OCR1A, w)
    BY <1>1, <1>2, <1>3, <2>1 DEF WriteOCR1AH, WriteOCR1AL, WriteOCR1BH, WriteOCR1BL
  <2>3. Ref!Word = Word BY DEF Ref!Word, Word, Ref!Top, Top
  <2> QED BY <2>2, <2>3 DEF Ref!Next
<1>4. ASSUME NEW v \in Written, WriteTCNT1H(v) PROVE Ref!WriteHigh(v)
  <2>1. Count' = Count BY <1>4, CountKept DEF WriteTCNT1H
  <2> QED BY <1>4, <2>1 DEF WriteTCNT1H, Ref!WriteHigh
<1>5. ASSUME NEW v \in Written, WriteTCNT1L(v) PROVE Ref!WriteLow(v)
  <2>1. Count' = Count BY <1>5, CountKept DEF WriteTCNT1L
  <2> QED BY <1>5, <2>1 DEF WriteTCNT1L, Ref!WriteLow, Join, Ref!Join
<1>6. ASSUME NEW c \in Control, WriteTCCR1B(c) PROVE Ref!WriteControl(c)
  <2>1. Count' = Count BY <1>6, CountKept DEF WriteTCCR1B
  <2> QED BY <1>6, <2>1 DEF WriteTCCR1B, Ref!WriteControl
<1>7. ASSUME NEW F \in SUBSET Flags, WriteTIFR1(F) PROVE Ref!WriteFlags(F)
  <2>1. Count' = Count BY <1>7, CountKept DEF WriteTIFR1
  <2> QED BY <1>7, <2>1 DEF WriteTIFR1, Ref!WriteFlags
<1>8. Ref!Control = Control /\ Ref!Flags = Flags
  BY DEF Ref!Control, Control, Ref!Flags, Flags
<1> QED BY <1>3, <1>4, <1>5, <1>6, <1>7, <1>8 DEF TimerWrite, Ref!Next

\* ... and a read latches the same high byte.
LEMMA ReadTCNT1LImplements ==
  ASSUME IInv, ReadTCNT1L PROVE Ref!ReadLow
<1>1. Count' = Count BY CountKept DEF ReadTCNT1L
<1> QED BY <1>1 DEF ReadTCNT1L, Ref!ReadLow, Access, Ref!Access, High, Ref!High

\* The delayed outputs take effect in both timers at the same instruction end.
LEMMA UpdateHardwareInsImplements ==
  ASSUME IInv, NEW taken, UpdateHardwareIns(taken) PROVE Ref!Finish(taken)
<1> USE DEF UpdateHardwareIns, ApplyDelayed
<1>1. Count' = IF dly_TCNT1 = NoWrite THEN Count ELSE dly_TCNT1
  <2>1. CASE dly_TCNT1 = NoWrite BY <2>1, CountKept
  <2>2. CASE dly_TCNT1 # NoWrite
    <3>1. TCNT1' = dly_TCNT1 /\ dly_TCNT1 \in Word /\ timer1_base' = 0 /\ timer1_next' = 0
      BY <2>2 DEF IInv, TypeOK
    <3> QED BY <2>2, <3>1, TopType DEF Count, Word
  <2> QED BY <2>1, <2>2
<1> QED BY <1>1 DEF Ref!Finish

\* Locking timer1_next to zero has no effect: for every counter width and every
\* order of port accesses, interrupts and cycles, the event driven timer behaves
\* like the timer that is clocked on every cycle (avr8.cpp:637-641).
THEOREM Refinement == Spec => ImplementsRef
<1>1. Init => Ref!Init
  BY DEF Init, Ref!Init, Count, Stopped, Ref!Stopped
<1>2. IInv /\ [Next]_vars => [Ref!Next]_(Ref!vars)
  <2> SUFFICES ASSUME IInv, [Next]_vars PROVE Ref!Next \/ UNCHANGED Ref!vars
    OBVIOUS
  <2>1. CASE Cycle
    BY <2>1, UpdateHardwareImplements
       DEF Cycle, InnerCycle, LastCycle, Ref!Next, Ref!InnerCycle, Ref!LastCycle
  <2>2. CASE TimerWrite
    BY <2>2, TimerWriteImplements
  <2>3. CASE ReadTCNT1L
    BY <2>3, ReadTCNT1LImplements DEF Ref!Next
  <2>4. CASE InstructionEnd
    BY <2>4, UpdateHardwareInsImplements DEF InstructionEnd, Ref!Next, Ref!Flags, Flags
  <2>5. CASE UNCHANGED vars
    BY <2>5 DEF vars, Ref!vars, Count
  <2> QED BY <2>1, <2>2, <2>3, <2>4, <2>5 DEF Next
<1> QED BY <1>1, <1>2, Invariance, PTL DEF Spec, ImplementsRef, Ref!Spec
-----------------------------------------------------------------------------
(* Why a compare match recurs *)

\* The cycles until the counter stands at OCR1A.
ToMatch == IF Count <= OCR1A THEN OCR1A - Count ELSE OCR1A - Count + Top + 1

\* The clock that finds the counter at OCR1A raises the flag and clears the counter,
\* every other one brings the match a cycle nearer; reads and ends of instructions
\* that write no counter do not move it.
MatchNearer ==
    [][LeftRunning =>
         /\ Cycle => IF Count = OCR1A THEN "OCF1A" \in itd_TIFR1' /\ Count' = 0
                     ELSE ToMatch' = ToMatch - 1
         /\ ReadTCNT1L \/ (InstructionEnd /\ dly_TCNT1 = NoWrite) => ToMatch' = ToMatch]_vars

\* A cycle, with or without a schedule, is a clock of the reference timer.
LEMMA CycleNearer ==
  ASSUME IInv, LeftRunning, UpdateHardware
  PROVE  IF Count = OCR1A THEN "OCF1A" \in itd_TIFR1' /\ Count' = 0
         ELSE ToMatch' = ToMatch - 1
<1>1. /\ itd_TIFR1' = Matches(TCCR1B, Count, OCR1A, OCR1B)
      /\ Count' = Advance(TCCR1B, Count, OCR1A)
  <2>1. Ref!Clock BY UpdateHardwareImplements
  <2>2. TCCR1B.run BY DEF LeftRunning
  <2> QED BY <2>1, <2>2 DEF Ref!Clock, Ref!Matches, Matches, Ref!Advance, Advance,
          Ref!Flags, Flags, Ref!Top, Top
<1>2. Count \in 0 .. Top /\ OCR1A \in 0 .. Top /\ OCR1A' = OCR1A
  BY DEF IInv, TypeOK, Word, UpdateHardware
<1>3. TCCR1B.ctc BY DEF LeftRunning
<1>4. CASE Count = OCR1A
  BY <1>1, <1>3, <1>4 DEF Matches, Flags, Advance
<1>5. CASE Count # OCR1A
  <2>1. Count' = IF Count = Top THEN 0 ELSE Count + 1
    <3>1. Count' = ((Count + 1) % (Top + 1)) BY <1>1, <1>5 DEF Advance
    <3> HIDE DEF Count, Top
    <3> QED BY <3>1, <1>2, TopType, SMT
  <2> HIDE DEF Count, Top
  <2> QED BY <2>1, <1>2, <1>5, TopType DEF ToMatch
<1> QED BY <1>4, <1>5

\* Whatever schedule there was when the program last touched the timer, OCF1A is raised
\* by the cycle that follows ToMatch others, and from then on every OCR1A + 1 cycles, as
\* the kernel's scanline timing needs (avr8.cpp:637-690).
THEOREM MatchesRecur == Spec => MatchNearer
<1>1. IInv /\ [Next]_vars => [LeftRunning =>
         /\ Cycle => IF Count = OCR1A THEN "OCF1A" \in itd_TIFR1' /\ Count' = 0
                     ELSE ToMatch' = ToMatch - 1
         /\ ReadTCNT1L \/ (InstructionEnd /\ dly_TCNT1 = NoWrite) => ToMatch' = ToMatch]_vars
  <2> SUFFICES ASSUME IInv, LeftRunning
               PROVE  /\ Cycle => IF Count = OCR1A THEN "OCF1A" \in itd_TIFR1' /\ Count' = 0
                                  ELSE ToMatch' = ToMatch - 1
                      /\ ReadTCNT1L \/ (InstructionEnd /\ dly_TCNT1 = NoWrite)
                            => ToMatch' = ToMatch
    OBVIOUS
  <2>1. ASSUME Cycle PROVE UpdateHardware BY <2>1 DEF Cycle, InnerCycle, LastCycle
  <2>2. ASSUME ReadTCNT1L PROVE ToMatch' = ToMatch
    <3>1. Count' = Count BY <2>2, CountKept DEF ReadTCNT1L
    <3> QED BY <2>2, <3>1 DEF ReadTCNT1L, ToMatch
  <2>3. ASSUME InstructionEnd, dly_TCNT1 = NoWrite PROVE ToMatch' = ToMatch
    <3>1. Reschedule \/ UNCHANGED schedule
      BY <2>3 DEF InstructionEnd, UpdateHardwareIns, ApplyDelayed
    <3>2. Count' = Count BY <3>1, CountKept
    <3> QED BY <2>3, <3>2 DEF InstructionEnd, UpdateHardwareIns, ToMatch
  <2> QED BY <2>1, <2>2, <2>3, CycleNearer
<1> QED BY <1>1, Invariance, PTL DEF Spec, MatchNearer
=============================================================================
