------------------------- MODULE Controllers_proofs -------------------------
(***************************************************************************)
(* The promises of the joypads and the keyboard, for every number of       *)
(* buttons and bits, every table of scan codes and every number of codes   *)
(* queued: a read of a pad is of one sample, keys arrive once and in       *)
(* order, and only long reads change the input mode.                       *)
(***************************************************************************)
EXTENDS Controllers, SequenceTheorems, TLAPS

\* The bits of a register.
Index == 0 .. Width - 1

\* The numbers the proofs calculate with.
LEMMA Numbers ==
  /\ Buttons \in Nat /\ Buttons >= 1 /\ Width \in Nat /\ Width > Buttons
  /\ KbBits \in Nat /\ KbBits >= 1
  /\ {PAD_LEFT, PAD_RIGHT, PAD_UP, PAD_DOWN} \subseteq Index
BY WidthAssumption, PadAssumption, KbAssumption DEF Index
-----------------------------------------------------------------------------
(* The registers of the pads *)

\* Letting go of a button keeps a register.
LEMMA ReleaseType ==
  ASSUME NEW w \in Word, NEW a, NEW b PROVE Release(w, a, b) \in Word
BY DEF Release, Word, Bit

\* What is latched is what Sent says bit by bit, since the four directions differ.
LEMMA LatchedIsSent ==
  ASSUME NEW w \in Word
  PROVE  /\ Latched(w) \in Word
         /\ \A i \in Index : Latched(w)[i] = Sent(w, i)
<1> DEFINE v == Release(w, PAD_LEFT, PAD_RIGHT)
           u == Release(v, PAD_UP, PAD_DOWN)
<1>1. v \in Word /\ u \in Word BY ReleaseType
<1>2. \A i \in Index : v[i] = IF i = PAD_RIGHT /\ w[PAD_LEFT] = 0 /\ w[PAD_RIGHT] = 0 THEN 1 ELSE w[i]
  BY DEF Release, Word, Index
<1>3. \A i \in Index : u[i] = IF i = PAD_DOWN /\ v[PAD_UP] = 0 /\ v[PAD_DOWN] = 0 THEN 1 ELSE v[i]
  BY <1>1 DEF Release, Word, Index
<1>4. /\ PAD_LEFT \in Index /\ PAD_RIGHT \in Index /\ PAD_UP \in Index /\ PAD_DOWN \in Index
      /\ PAD_LEFT # PAD_RIGHT /\ PAD_UP # PAD_DOWN /\ PAD_LEFT # PAD_UP /\ PAD_LEFT # PAD_DOWN
      /\ PAD_RIGHT # PAD_UP /\ PAD_RIGHT # PAD_DOWN
  BY Numbers, PadAssumption
<1> HIDE DEF u, v
<1>5. \A i \in Index : w[i] \in {0, 1} BY DEF Word, Bit, Index
<1>6. v[PAD_UP] = w[PAD_UP] /\ v[PAD_DOWN] = w[PAD_DOWN] BY <1>2, <1>4
<1>7. ASSUME NEW i \in Index PROVE u[i] = Sent(w, i)
  <2>1. CASE i = PAD_RIGHT
    <3>1. u[i] = v[i] BY <1>3, <1>4, <2>1
    <3>2. Sent(w, i) = IF w[PAD_LEFT] = 0 THEN 1 ELSE w[i] BY <1>4, <2>1 DEF Sent, Index
    <3> QED BY <3>1, <3>2, <1>2, <1>4, <1>5, <2>1
  <2>2. CASE i = PAD_DOWN
    <3>1. u[i] = IF w[PAD_UP] = 0 /\ w[PAD_DOWN] = 0 THEN 1 ELSE w[i] BY <1>2, <1>3, <1>4, <1>6, <2>2
    <3>2. Sent(w, i) = IF w[PAD_UP] = 0 THEN 1 ELSE w[i] BY <1>4, <2>2 DEF Sent, Index
    <3> QED BY <3>1, <3>2, <1>4, <1>5, <2>2
  <2>3. CASE i # PAD_RIGHT /\ i # PAD_DOWN
    <3>1. u[i] = w[i] BY <1>2, <1>3, <2>3
    <3>2. Sent(w, i) = w[i] BY <2>3 DEF Sent, Index
    <3> QED BY <3>1, <3>2
  <2> QED BY <2>1, <2>2, <2>3
<1> QED BY <1>1, <1>7 DEF Latched, u, v

\* Behind the register zeros are sent, and in it bits.
LEMMA SentType ==
  ASSUME NEW w \in Word, NEW i \in Nat
  PROVE  Sent(w, i) \in Bit /\ (i >= Width => Sent(w, i) = 0)
<1>1. CASE i \in Index
  <2>1. Latched(w) \in Word /\ Sent(w, i) = Latched(w)[i] BY <1>1, LatchedIsSent
  <2>2. Sent(w, i) \in Bit BY <1>1, <2>1 DEF Word, Index
  <2> QED BY <1>1, <2>2, Numbers DEF Index
<1>2. CASE i \notin Index
  <2>1. i # PAD_RIGHT /\ i # PAD_DOWN BY <1>2, Numbers
  <2>2. Sent(w, i) = 0 BY <1>2, <2>1 DEF Sent, Index
  <2> QED BY <2>2 DEF Bit
<1> QED BY <1>1, <1>2, Numbers DEF Index

\* A register that is shifted.
LEMMA ShiftedIs ==
  ASSUME NEW w \in Word
  PROVE  /\ Shifted(w) \in Word
         /\ \A i \in Index : Shifted(w)[i] = IF i + 1 \in Index THEN w[i + 1] ELSE 0
BY Numbers DEF Shifted, Word, Bit, Index

\* The second pad's sample has no button in it, and sends ones.
LEMMA OnesSent == /\ Ones \in Word
                  /\ \A i \in Nat : Sent(Ones, i) = IF i < Width THEN 1 ELSE 0
<1>1. Ones \in Word BY DEF Ones, Word, Bit
<1>2. \A i \in Index : Ones[i] = 1 BY DEF Ones, Index
<1>3. ASSUME NEW i \in Nat PROVE Sent(Ones, i) = IF i < Width THEN 1 ELSE 0
  <2>1. CASE i < Width
    <3>1. i \in Index BY <2>1, Numbers DEF Index
    <3>2. Ones[i] = 1 /\ Ones[PAD_LEFT] = 1 /\ Ones[PAD_UP] = 1 BY <1>2, <3>1, Numbers
    <3>3. Sent(Ones, i) = 1 BY <3>1, <3>2 DEF Sent, Index
    <3> QED BY <3>3, <2>1
  <2>2. CASE ~(i < Width) BY <2>2, <1>1, SentType, Numbers
  <2> QED BY <2>1, <2>2
<1> QED BY <1>1, <1>3
-----------------------------------------------------------------------------
(* A write to PORTA, as far as the pads go *)

\* The second pad is never pressed.
Second == buttons[1] = Ones /\ sample[1] = Ones

\* What is left in the registers is what is still to be sent of the samples.
InPlace == \A p \in Pad, i \in Index : latched_buttons[p][i] = Sent(sample[p], i + clocks)

\* The types of the pads' variables.
PadsOK ==
    /\ buttons \in [Pad -> Word] /\ latched_buttons \in [Pad -> Word] /\ sample \in [Pad -> Word]
    /\ new_input_mode \in BOOLEAN /\ clocks \in 0 .. Width

\* The bit v is the right one on a line after n clocks: OnLine without its variables.
Shows(mode, w, n, v) ==
    IF ~mode THEN v = Sent(w, n) ELSE n \in 1 .. Width - 1 => v = Sent(w, n - 1)

\* A latch is no clock.
LEMMA OneLine == ASSUME NEW new PROVE ~(IsLatch(new) /\ IsClock(new))
<1> SUFFICES ASSUME IsLatch(new), IsClock(new) PROVE FALSE OBVIOUS
<1>1. {"latch"} = {"clock"} BY DEF IsLatch, IsClock, FallsAlone
<1> QED BY <1>1

\* The three things that a write can be to the pads.
LEMMA LatchStep ==
  ASSUME PadsOK, Second, NEW new, WritePads(new), IsLatch(new)
  PROVE  /\ PadsOK' /\ Second' /\ InPlace'
         /\ clocks' = 0 /\ sample' = buttons /\ new_input_mode' = new_input_mode
<1>1. ~IsClock(new) BY OneLine
<1>2. /\ latched_buttons' = [p \in Pad |-> Latched(buttons[p])]
      /\ new_input_mode' = new_input_mode /\ sample' = buttons /\ clocks' = 0
      /\ buttons' = buttons
  BY <1>1 DEF WritePads, PadsOK
<1>3. \A p \in Pad : buttons[p] \in Word BY DEF PadsOK
<1>4. latched_buttons' \in [Pad -> Word] BY <1>2, <1>3, LatchedIsSent
<1>5. PadsOK' BY <1>2, <1>4, Numbers DEF PadsOK
<1>6. ASSUME NEW p \in Pad, NEW i \in Index
      PROVE  latched_buttons'[p][i] = Sent(sample'[p], i + clocks')
  <2>1. latched_buttons'[p] = Latched(buttons[p]) /\ sample'[p] = buttons[p] BY <1>2
  <2>2. Latched(buttons[p])[i] = Sent(buttons[p], i) BY <1>3, LatchedIsSent
  <2>3. i + clocks' = i BY <1>2 DEF Index
  <2> QED BY <2>1, <2>2, <2>3
<1> QED BY <1>2, <1>5, <1>6 DEF Second, InPlace

LEMMA ClockStep ==
  ASSUME PadsOK, Second, InPlace, NEW new, WritePads(new), IsClock(new)
  PROVE  /\ PadsOK' /\ Second' /\ InPlace'
         /\ clocks' = IF clocks < Width THEN clocks + 1 ELSE Width
         /\ sample' = sample
         /\ new_input_mode' = (new_input_mode \/ Below(Shifted(latched_buttons[1])))
<1>1. ~IsLatch(new) BY OneLine
<1>2. clocks \in Nat /\ clocks <= Width /\ Width \in Nat BY Numbers DEF PadsOK
<1>3. /\ latched_buttons' = [p \in Pad |-> Shifted(latched_buttons[p])]
      /\ sample' = sample /\ buttons' = buttons
      /\ new_input_mode' = (new_input_mode \/ Below(Shifted(latched_buttons[1])))
  BY <1>1 DEF WritePads
<1>4. clocks' = IF clocks < Width THEN clocks + 1 ELSE Width
  <2>1. CASE clocks < Width BY <1>1, <2>1 DEF WritePads
  <2>2. CASE ~(clocks < Width)
    <3>1. clocks' = clocks BY <1>1, <2>2 DEF WritePads
    <3> QED BY <3>1, <2>2, <1>2
  <2> QED BY <2>1, <2>2
<1>5. \A p \in Pad : latched_buttons[p] \in Word /\ sample[p] \in Word BY DEF PadsOK
<1>6. latched_buttons' \in [Pad -> Word] BY <1>3, <1>5, ShiftedIs
<1>7. new_input_mode' \in BOOLEAN BY <1>3, Zenon DEF PadsOK, Below
<1>8. PadsOK' BY <1>2, <1>3, <1>4, <1>6, <1>7 DEF PadsOK
<1>9. ASSUME NEW p \in Pad, NEW i \in Index
      PROVE  latched_buttons'[p][i] = Sent(sample'[p], i + clocks')
  <2>1. latched_buttons'[p] = Shifted(latched_buttons[p]) /\ sample'[p] = sample[p] BY <1>3
  <2>2. latched_buttons'[p][i] = IF i + 1 \in Index THEN latched_buttons[p][i + 1] ELSE 0
    BY <1>5, <2>1, ShiftedIs
  <2>3. i \in Nat /\ i <= Width - 1 /\ i + clocks' \in Nat BY <1>2, <1>4 DEF Index
  <2>4. CASE i + 1 \in Index /\ clocks < Width
    <3>1. latched_buttons[p][i + 1] = Sent(sample[p], (i + 1) + clocks) BY <2>4 DEF InPlace
    <3>2. (i + 1) + clocks = i + clocks' BY <1>2, <1>4, <2>3, <2>4
    <3> QED BY <2>1, <2>2, <2>4, <3>1, <3>2
  <2>5. CASE i + 1 \in Index /\ ~(clocks < Width)
    <3>1. latched_buttons[p][i + 1] = Sent(sample[p], (i + 1) + clocks) BY <2>5 DEF InPlace
    <3>2. (i + 1) + clocks \in Nat /\ (i + 1) + clocks >= Width /\ i + clocks' >= Width
      BY <1>2, <1>4, <2>3, <2>5
    <3> QED BY <1>5, <2>1, <2>2, <2>3, <2>5, <3>1, <3>2, SentType
  <2>6. CASE i + 1 \notin Index
    <3>1. i + clocks' >= Width BY <1>2, <1>4, <2>3, <2>6 DEF Index
    <3> QED BY <1>5, <2>1, <2>2, <2>3, <2>6, <3>1, SentType
  <2> QED BY <2>4, <2>5, <2>6
<1> QED BY <1>3, <1>4, <1>8, <1>9 DEF Second, InPlace

LEMMA NeitherStep ==
  ASSUME PadsOK, Second, InPlace, NEW new, WritePads(new), ~IsLatch(new), ~IsClock(new)
  PROVE  UNCHANGED pads
<1>1. new_input_mode' = new_input_mode BY DEF WritePads, PadsOK
<1> QED BY <1>1 DEF WritePads, pads

\* The mode changes only when the ones of the second pad, which is not pressed, have moved
\* out of the places of the buttons.
LEMMA BelowIsLate ==
  ASSUME PadsOK, Second, InPlace, NEW new, WritePads(new), IsClock(new),
         Below(Shifted(latched_buttons[1]))
  PROVE  clocks' > Buttons /\ clocks > 0
<1>1. /\ latched_buttons[1] \in Word /\ clocks \in Nat /\ clocks <= Width
      /\ clocks' = IF clocks < Width THEN clocks + 1 ELSE Width
  BY ClockStep, Numbers DEF PadsOK, Pad
<1>2. PICK i \in 0 .. Width - Buttons - 1 : Shifted(latched_buttons[1])[i] = 0 BY DEF Below
<1>3. i \in Nat /\ i + Buttons < Width /\ i \in Index /\ i + 1 \in Index
  BY <1>2, Numbers DEF Index
<1>4. latched_buttons[1][i + 1] = 0 BY <1>1, <1>2, <1>3, ShiftedIs
<1>5. Sent(Ones, (i + 1) + clocks) = 0 BY <1>3, <1>4 DEF InPlace, Second, Pad
<1>6. (i + 1) + clocks \in Nat /\ ~((i + 1) + clocks < Width) BY <1>1, <1>3, <1>5, OnesSent
<1> QED BY <1>1, <1>3, <1>6, Numbers

\* A line that is right stays right, and any is from the first latch or clock on.
LEMMA LineShows ==
  ASSUME PadsOK, Second, InPlace, PINA \in [Pad -> Bit], NEW new, WritePads(new),
         NEW p \in Pad, clocks > 0 => Shows(new_input_mode, sample[p], clocks, PINA[p])
  PROVE  Shows(new_input_mode', sample'[p], clocks', PadLines(new)[p])
<1> DEFINE v == PadLines(new)[p]
<1>1. clocks \in Nat /\ clocks <= Width /\ Width \in Nat BY Numbers DEF PadsOK
<1>2. 0 \in Index /\ \A i \in Nat : 0 + i = i BY Numbers DEF Index
<1>3. latched_buttons[p][0] = Sent(sample[p], clocks) BY <1>1, <1>2 DEF InPlace
<1>4. ASSUME ~new_input_mode' PROVE v = Sent(sample'[p], clocks')
  <2>1. ~new_input_mode BY <1>4 DEF WritePads
  <2>2. v = latched_buttons'[p][0] BY <1>4, <2>1 DEF PadLines, Lowest
  <2>3. InPlace' /\ clocks' \in Nat
    <3>1. CASE IsLatch(new) BY <3>1, LatchStep, Numbers
    <3>2. CASE IsClock(new) BY <3>2, <1>1, ClockStep
    <3>3. CASE ~IsLatch(new) /\ ~IsClock(new)
      BY <3>3, <1>1, NeitherStep DEF pads, InPlace
    <3> QED BY <3>1, <3>2, <3>3
  <2> QED BY <1>2, <2>2, <2>3 DEF InPlace
<1>5. ASSUME new_input_mode', clocks' \in 1 .. Width - 1 PROVE v = Sent(sample'[p], clocks' - 1)
  <2>1. CASE IsLatch(new)
    <3>1. clocks' = 0 BY <2>1, LatchStep
    <3>2. clocks' > 0 BY <1>1, <1>5
    <3> QED BY <3>1, <3>2
  <2>2. CASE IsClock(new)
    <3>1. /\ clocks' = IF clocks < Width THEN clocks + 1 ELSE Width
          /\ sample' = sample
          /\ new_input_mode \/ Below(Shifted(latched_buttons[1]))
      BY <2>2, <1>5, ClockStep
    <3>2. clocks < Width /\ clocks' - 1 = clocks BY <1>1, <1>5, <3>1
    <3>3. CASE new_input_mode
      <4>1. v = latched_buttons[p][0] BY <2>2, <3>3 DEF PadLines, Lowest
      <4> QED BY <4>1, <1>3, <3>1, <3>2
    <3>4. CASE ~new_input_mode
      <4>1. v = PINA[p] BY <1>5, <3>4 DEF PadLines
      <4>2. clocks > 0 BY <2>2, <3>1, <3>4, BelowIsLate
      <4>3. PINA[p] = Sent(sample[p], clocks) BY <3>4, <4>2 DEF Shows
      <4> QED BY <4>1, <4>3, <3>1, <3>2
    <3> QED BY <3>3, <3>4
  <2>3. CASE ~IsLatch(new) /\ ~IsClock(new)
    <3>1. UNCHANGED pads BY <2>3, NeitherStep
    <3>2. new_input_mode /\ clocks \in 1 .. Width - 1 /\ sample' = sample /\ clocks' = clocks
      BY <1>5, <3>1 DEF pads
    <3>3. v = PINA[p] BY <2>3, <3>2 DEF PadLines
    <3>4. clocks > 0 BY <3>2
    <3> QED BY <3>2, <3>3, <3>4 DEF Shows
  <2> QED BY <2>1, <2>2, <2>3
<1> HIDE DEF v
<1>6. Shows(new_input_mode', sample'[p], clocks', v) BY <1>4, <1>5 DEF Shows
<1> QED BY <1>6 DEF v

\* A line has a bit on it.
LEMMA PadLinesType ==
  ASSUME PadsOK, PadsOK', PINA \in [Pad -> Bit], NEW new
  PROVE  PadLines(new) \in [Pad -> Bit]
<1>1. 0 \in Index BY Numbers DEF Index
<1>2. ASSUME NEW l \in [Pad -> Word] PROVE Lowest(l) \in [Pad -> Bit]
  BY <1>1 DEF Lowest, Word, Index
<1> QED BY <1>2 DEF PadLines, PadsOK

\* All that a write does to the pads.
LEMMA PadsStep ==
  ASSUME PadsOK, Second, InPlace, PINA \in [Pad -> Bit], NEW new, WritePads(new)
  PROVE  /\ PadsOK' /\ Second' /\ InPlace' /\ PadLines(new) \in [Pad -> Bit]
         /\ new_input_mode' # new_input_mode => clocks' > Buttons
<1>1. CASE IsLatch(new) BY <1>1, LatchStep, PadLinesType
<1>2. CASE IsClock(new) BY <1>2, ClockStep, BelowIsLate, PadLinesType DEF PadsOK
<1>3. CASE ~IsLatch(new) /\ ~IsClock(new)
  <2>1. UNCHANGED pads BY <1>3, NeitherStep
  <2>2. PadsOK' /\ Second' /\ InPlace' BY <2>1 DEF pads, PadsOK, Second, InPlace
  <2> QED BY <2>1, <2>2, PadLinesType DEF pads
<1> QED BY <1>1, <1>2, <1>3
-----------------------------------------------------------------------------
(* Bytes of the keyboard *)

\* The byte of which some bits have been read and the others wait in data.
Flight(bits, data) == bits \o SubSeq(data, 1, KbBits - Len(bits))

\* The codes a byte stands for.
Codes(b) == IF b = Zero THEN <<>> ELSE <<b>>

\* A range from 1 has one upper end.
LEMMA SameRange ==
  ASSUME NEW m \in Nat, NEW n \in Nat, 1 .. m = 1 .. n
  PROVE  m = n
<1>1. m >= 1 => m \in 1 .. n BY SMT
<1>2. n >= 1 => n \in 1 .. m BY SMT
<1> QED BY <1>1, <1>2

\* Bytes are equal if their bits are.
LEMMA SameByte ==
  ASSUME NEW b \in KbByte, NEW c \in KbByte, \A i \in 1 .. KbBits : b[i] = c[i]
  PROVE  b = c
<1>1. b = [i \in 1 .. KbBits |-> b[i]] BY DEF KbByte
<1>2. c = [i \in 1 .. KbBits |-> c[i]] BY DEF KbByte
<1>3. [i \in 1 .. KbBits |-> b[i]] = [i \in 1 .. KbBits |-> c[i]] OBVIOUS
<1> QED BY <1>1, <1>2, <1>3, Zenon

\* Bytes are the sequences of their length.
LEMMA ByteIsSeq ==
  ASSUME NEW b
  PROVE  b \in KbByte <=> b \in Seq(Bit) /\ Len(b) = KbBits
<1>1. KbBits \in Nat BY Numbers
<1>2. ASSUME b \in KbByte PROVE b \in Seq(Bit) /\ Len(b) = KbBits
  <2>1. b \in [1 .. KbBits -> Bit] BY <1>2 DEF KbByte
  <2>2. b \in Seq(Bit) BY <1>1, <2>1, SeqDef
  <2>3. Len(b) \in Nat /\ DOMAIN b = 1 .. Len(b) BY <2>2, LenProperties
  <2>4. 1 .. Len(b) = 1 .. KbBits BY <2>1, <2>3
  <2>5. Len(b) = KbBits BY <1>1, <2>3, <2>4, SameRange
  <2> QED BY <2>2, <2>5
<1>3. ASSUME b \in Seq(Bit), Len(b) = KbBits PROVE b \in KbByte
  BY <1>3, LenProperties DEF KbByte
<1> QED BY <1>2, <1>3

\* A byte that is shifted left.
LEMMA LeftShiftedIs ==
  ASSUME NEW b \in KbByte, NEW in \in Bit
  PROVE  /\ LeftShifted(b, in) \in KbByte
         /\ Head(b) = b[1] /\ b[1] \in Bit
         /\ \A i \in 1 .. KbBits - 1 : LeftShifted(b, in)[i] = b[i + 1]
<1>0. KbBits \in Nat /\ KbBits >= 1 BY Numbers
<1>1. b \in Seq(Bit) /\ Len(b) = KbBits BY ByteIsSeq
<1>2. b # <<>> BY <1>0, <1>1, EmptySeq
<1> DEFINE u == Tail(b)
           c == Append(u, in)
<1>3. u \in Seq(Bit) /\ Len(u) = KbBits - 1 /\ \A i \in 1 .. KbBits - 1 : u[i] = b[i + 1]
  BY <1>1, <1>2, HeadTailProperties
<1>4. Head(b) = b[1] BY <1>1, <1>2
<1>5. b[1] \in Bit BY <1>0, <1>1, ElementOfSeq
<1> HIDE DEF u
<1>6. /\ c \in Seq(Bit) /\ Len(c) = Len(u) + 1
      /\ \A i \in 1 .. Len(u) : c[i] = u[i]
  BY <1>3, AppendProperties
<1> HIDE DEF c
<1>7. Len(c) = KbBits BY <1>0, <1>3, <1>6
<1>8. c \in KbByte BY <1>6, <1>7, ByteIsSeq
<1>9. \A i \in 1 .. KbBits - 1 : c[i] = b[i + 1] BY <1>3, <1>6
<1> QED BY <1>4, <1>5, <1>8, <1>9 DEF c, u, LeftShifted

\* The bits of a byte on its way.
LEMMA FlightIs ==
  ASSUME NEW bits \in Seq(Bit), NEW data \in KbByte, Len(bits) <= KbBits
  PROVE  /\ Flight(bits, data) \in KbByte
         /\ \A i \in 1 .. KbBits :
              Flight(bits, data)[i] = IF i <= Len(bits) THEN bits[i] ELSE data[i - Len(bits)]
<1> DEFINE n == Len(bits)
           rest == SubSeq(data, 1, KbBits - n)
           b == bits \o rest
<1>0. KbBits \in Nat /\ n \in Nat /\ n <= KbBits BY Numbers, LenProperties
<1>1. \A i \in 1 .. KbBits - n : data[i] \in Bit BY <1>0 DEF KbByte
<1> HIDE DEF n
<1>2. /\ rest \in Seq(Bit) /\ Len(rest) = IF 1 <= KbBits - n THEN (KbBits - n) - 1 + 1 ELSE 0
      /\ \A i \in 1 .. (KbBits - n) - 1 + 1 : rest[i] = data[1 + i - 1]
  BY <1>0, <1>1, SubSeqProperties
<1> HIDE DEF rest
<1>3. Len(rest) = KbBits - n /\ \A i \in 1 .. KbBits - n : rest[i] = data[i] BY <1>0, <1>2
<1>4. /\ b \in Seq(Bit) /\ Len(b) = n + Len(rest)
      /\ \A i \in 1 .. n + Len(rest) : b[i] = IF i <= n THEN bits[i] ELSE rest[i - n]
  BY <1>2, ConcatProperties DEF n
<1> HIDE DEF b
<1>5. n + Len(rest) = KbBits BY <1>0, <1>3
<1>6. b \in KbByte BY <1>4, <1>5, ByteIsSeq
<1>7. ASSUME NEW i \in 1 .. KbBits PROVE b[i] = IF i <= n THEN bits[i] ELSE data[i - n]
  <2>1. CASE i <= n BY <1>4, <1>5, <2>1
  <2>2. CASE ~(i <= n)
    <3>1. i - n \in 1 .. KbBits - n BY <1>0, <2>2
    <3> QED BY <1>3, <1>4, <1>5, <2>2, <3>1
  <2> QED BY <2>1, <2>2
<1>8. b = Flight(bits, data) BY DEF b, rest, n, Flight
<1> QED BY <1>6, <1>7, <1>8 DEF n

\* Reading a bit and shifting the rest leaves the byte the same.
LEMMA FlightKept ==
  ASSUME NEW bits \in Seq(Bit), NEW data \in KbByte, Len(bits) < KbBits, NEW in \in Bit
  PROVE  Flight(Append(bits, data[1]), LeftShifted(data, in)) = Flight(bits, data)
<1> DEFINE n == Len(bits)
           more == Append(bits, data[1])
           next == LeftShifted(data, in)
<1>0. KbBits \in Nat /\ n \in Nat /\ n < KbBits BY Numbers, LenProperties
<1>1. /\ next \in KbByte /\ data[1] \in Bit
      /\ \A i \in 1 .. KbBits - 1 : next[i] = data[i + 1]
  BY LeftShiftedIs
<1>2. /\ more \in Seq(Bit) /\ Len(more) = n + 1
      /\ \A i \in 1 .. n : more[i] = bits[i]
      /\ more[n + 1] = data[1]
  BY <1>1, AppendProperties
<1> HIDE DEF more, next
<1> DEFINE b == Flight(bits, data)
           c == Flight(more, next)
<1>3. /\ b \in KbByte
      /\ \A i \in 1 .. KbBits : b[i] = IF i <= n THEN bits[i] ELSE data[i - n]
  BY <1>0, FlightIs
<1>4. n + 1 <= KbBits BY <1>0
<1>5. /\ c \in KbByte
      /\ \A i \in 1 .. KbBits : c[i] = IF i <= n + 1 THEN more[i] ELSE next[i - (n + 1)]
  BY <1>1, <1>2, <1>4, FlightIs
<1> HIDE DEF b, c, n
<1>6. ASSUME NEW i \in 1 .. KbBits PROVE c[i] = b[i]
  <2>1. CASE i <= n
    <3>1. i \in 1 .. n /\ i <= n + 1 BY <1>0, <2>1
    <3> QED BY <1>2, <1>3, <1>5, <2>1, <3>1
  <2>2. CASE i = n + 1
    <3>1. ~(i <= n) /\ i - n = 1 /\ i <= n + 1 BY <1>0, <2>2
    <3>2. b[i] = data[1] BY <1>3, <3>1
    <3>3. c[i] = data[1] BY <1>2, <1>5, <2>2, <3>1
    <3> QED BY <3>2, <3>3
  <2>3. CASE i > n + 1
    <3>1. /\ ~(i <= n) /\ ~(i <= n + 1) /\ i - (n + 1) \in 1 .. KbBits - 1
          /\ i - (n + 1) + 1 = i - n
      BY <1>0, <2>3
    <3>2. b[i] = data[i - n] BY <1>3, <3>1
    <3>3. c[i] = next[i - (n + 1)] BY <1>5, <3>1
    <3>4. next[i - (n + 1)] = data[i - n] BY <1>1, <3>1
    <3> QED BY <3>2, <3>3, <3>4
  <2> QED BY <1>0, <2>1, <2>2, <2>3
<1>7. c = b BY <1>3, <1>5, <1>6, SameByte
<1> QED BY <1>7 DEF b, c, more, next

\* A byte none and one all of whose bits have been read.
LEMMA FlightEnds ==
  ASSUME NEW data \in KbByte
  PROVE  /\ Flight(<<>>, data) = data
         /\ \A bits \in KbByte : Flight(bits, data) = bits
<1>1. KbBits \in Nat BY Numbers
<1>2. <<>> \in Seq(Bit) /\ Len(<<>>) = 0 BY EmptySeq
<1>3. Flight(<<>>, data) = data
  <2> DEFINE e == <<>>
  <2>0. e \in Seq(Bit) /\ Len(e) = 0 /\ Len(e) <= KbBits BY <1>1, <1>2
  <2> HIDE DEF e
  <2>1. /\ Flight(e, data) \in KbByte
        /\ \A i \in 1 .. KbBits : Flight(e, data)[i] = IF i <= 0 THEN e[i] ELSE data[i - 0]
    BY <1>1, <2>0, FlightIs
  <2>2. \A i \in 1 .. KbBits : Flight(e, data)[i] = data[i] BY <1>1, <2>1
  <2>3. Flight(e, data) = data BY <2>1, <2>2, SameByte
  <2> QED BY <2>3 DEF e
<1>4. ASSUME NEW bits \in KbByte PROVE Flight(bits, data) = bits
  <2>1. bits \in Seq(Bit) /\ Len(bits) = KbBits BY ByteIsSeq
  <2>2. /\ Flight(bits, data) \in KbByte
        /\ \A i \in 1 .. KbBits :
             Flight(bits, data)[i] = IF i <= KbBits THEN bits[i] ELSE data[i - KbBits]
    BY <1>1, <2>1, FlightIs
  <2>3. \A i \in 1 .. KbBits : Flight(bits, data)[i] = bits[i] BY <1>1, <2>2
  <2> QED BY <2>2, <2>3, SameByte
<1> QED BY <1>3, <1>4
-----------------------------------------------------------------------------
(* The keyboard's part of a write *)

\* The types of the keyboard's variables.
KbOK ==
    /\ uzeKbState \in {"KB_STOP", "KB_TX_START", "KB_TX_READY"} /\ uzeKbEnabled \in BOOLEAN
    /\ uzeKbClock \in 0 .. KbBits
    /\ uzeKbDataOut \in KbByte /\ uzeKbDataIn \in KbByte
    /\ uzeKbScanCodeQueue \in Seq(ScanCodes \cup {KB_BREAK})
    /\ read \in Seq(Bit) /\ received \in Seq(KbByte)

\* While bytes are sent the clocks left and the bits read make up a byte; otherwise nothing
\* of a byte has been read.
Phase ==
    /\ uzeKbState # "KB_STOP" => uzeKbEnabled
    /\ IF uzeKbState = "KB_TX_READY" THEN uzeKbClock \in 1 .. KbBits /\ Len(read) = KbBits - uzeKbClock
       ELSE read = <<>>

\* A code is a byte that is not zero.
LEMMA CodeIsByte ==
  ASSUME NEW c \in ScanCodes \cup {KB_BREAK}
  PROVE  c \in KbByte /\ c # Zero
<1>1. c \in [1 .. KbBits -> {0, 1}] BY KbAssumption
<1>2. c # Zero BY KbAssumption DEF Zero
<1> QED BY <1>1, <1>2 DEF KbByte, Bit

LEMMA ZeroIsByte == Zero \in KbByte
BY DEF Zero, KbByte, Bit

\* A sequence is its first element and the others.
LEMMA HeadAndTail ==
  ASSUME NEW S, NEW q \in Seq(S), q # <<>>
  PROVE  q = <<Head(q)>> \o Tail(q)
<1>1. Len(q) \in Nat /\ Len(q) >= 1 BY EmptySeq, LenProperties
<1>2. 1 \in 1 .. Len(q) /\ Len(q) \in 1 .. Len(q) BY <1>1
<1>3. SubSeq(q, 1, Len(q)) = <<q[1]>> \o SubSeq(q, 1 + 1, Len(q)) BY <1>2, SubSeqRecursiveFirst
<1>4. Head(q) = q[1] /\ 1 + 1 = 2 OBVIOUS
<1> QED BY <1>3, <1>4, SubSeqFull, TailIsSubSeq

\* What the keyboard sends next, and what is left in its queue.
LEMMA FetchedIs ==
  ASSUME KbOK
  PROVE  /\ Fetched \in KbByte /\ AfterFetch \in Seq(ScanCodes \cup {KB_BREAK})
         /\ uzeKbScanCodeQueue = Codes(Fetched) \o AfterFetch
<1> DEFINE S == ScanCodes \cup {KB_BREAK}
           q == uzeKbScanCodeQueue
<1>1. q \in Seq(S) BY DEF KbOK
<1>2. CASE q = <<>>
  <2>1. Fetched = Zero /\ AfterFetch = <<>> BY <1>2 DEF Fetched, AfterFetch
  <2>2. Codes(Fetched) = <<>> BY <2>1 DEF Codes
  <2>3. <<>> \o <<>> = <<>> /\ <<>> \in Seq(S) BY EmptySeq, ConcatEmptySeq
  <2> QED BY <1>2, <2>1, <2>2, <2>3, ZeroIsByte
<1>3. CASE q # <<>>
  <2>1. Fetched = Head(q) /\ AfterFetch = Tail(q) BY <1>3 DEF Fetched, AfterFetch
  <2>2. Head(q) \in S /\ Tail(q) \in Seq(S) BY <1>1, <1>3, HeadTailProperties
  <2>3. Fetched \in KbByte /\ Fetched # Zero BY <2>1, <2>2, CodeIsByte
  <2>4. q = <<Head(q)>> \o Tail(q) BY <1>1, <1>3, HeadAndTail
  <2>5. Codes(Fetched) = <<Head(q)>> BY <2>1, <2>3 DEF Codes
  <2> QED BY <2>1, <2>2, <2>3, <2>4, <2>5
<1> QED BY <1>2, <1>3

\* Codes are bytes, alone and in the queue.
LEMMA CodesType ==
  ASSUME NEW b \in KbByte PROVE Codes(b) \in Seq(KbByte)
<1>1. <<>> \in Seq(KbByte) BY EmptySeq
<1>2. <<b>> \in Seq(KbByte) OBVIOUS
<1> QED BY <1>1, <1>2 DEF Codes

LEMMA QueueOfBytes ==
  ASSUME NEW q \in Seq(ScanCodes \cup {KB_BREAK}) PROVE q \in Seq(KbByte)
<1>1. ScanCodes \cup {KB_BREAK} \subseteq KbByte BY CodeIsByte
<1> QED BY <1>1, SeqMonotonic

\* A clock takes one bit of the byte in flight, and the byte when it was the last.
LEMMA KbClockStep ==
  ASSUME KbOK, Phase, KeysInOrder, pressed' = pressed,
         NEW new \in [latch : Bit, clock : Bit, rest : Bit], PadLines(new) \in [Pad -> Bit],
         uzeKbState = "KB_TX_READY", KbClock(new)
  PROVE  KbOK' /\ Phase' /\ KeysInOrder' /\ PINA' \in [Pad -> Bit] /\ PINA'[0] = PadLines(new)[0]
<1> DEFINE first == uzeKbClock = KbBits
           in == IF first THEN Fetched ELSE uzeKbDataIn
           out == LeftShifted(IF first THEN Zero ELSE uzeKbDataOut, new.latch)
           bits == Append(read, in[1])
           last == uzeKbClock = 1
           b == Flight(read, in)
           queue == IF first THEN AfterFetch ELSE uzeKbScanCodeQueue
<1>0. /\ KbBits \in Nat /\ uzeKbClock \in Nat /\ 1 <= uzeKbClock /\ uzeKbClock <= KbBits
      /\ read \in Seq(Bit) /\ Len(read) = KbBits - uzeKbClock /\ uzeKbEnabled
  BY Numbers DEF KbOK, Phase
<1>1. in \in KbByte /\ queue \in Seq(ScanCodes \cup {KB_BREAK}) BY FetchedIs DEF KbOK
<1>2. out \in KbByte
  <2>1. (IF first THEN Zero ELSE uzeKbDataOut) \in KbByte BY ZeroIsByte DEF KbOK
  <2>2. new.latch \in Bit OBVIOUS
  <2> QED BY <2>1, <2>2, LeftShiftedIs
<1>3. 0 \in Bit BY DEF Bit
<1>4. /\ LeftShifted(in, 0) \in KbByte /\ Head(in) = in[1] /\ in[1] \in Bit
  BY <1>1, <1>3, LeftShiftedIs
<1>5. /\ PINA' = [PadLines(new) EXCEPT ![1] = Head(in)]
      /\ uzeKbScanCodeQueue' = queue
      /\ uzeKbDataOut' = out /\ uzeKbDataIn' = LeftShifted(in, 0)
      /\ uzeKbState' = (IF last /\ out = KB_SEND_END THEN "KB_STOP" ELSE uzeKbState)
      /\ uzeKbClock' = NextClock(out) /\ uzeKbEnabled' = uzeKbEnabled
      /\ read' = (IF last THEN <<>> ELSE Append(read, PINA'[1]))
      /\ received' = (IF last /\ Append(read, PINA'[1]) # Zero THEN Append(received, Append(read, PINA'[1])) ELSE received)
  BY DEF KbClock
<1>6. PINA' \in [Pad -> Bit] /\ PINA'[0] = PadLines(new)[0] /\ PINA'[1] = in[1]
  BY <1>4, <1>5 DEF Pad
<1>7. /\ read' = (IF last THEN <<>> ELSE bits)
      /\ received' = (IF last /\ bits # Zero THEN Append(received, bits) ELSE received)
  BY <1>5, <1>6
<1>8. /\ bits \in Seq(Bit) /\ Len(bits) = Len(read) + 1 /\ bits # <<>>
  BY <1>0, <1>4, AppendProperties
<1>9. b \in KbByte /\ Flight(bits, LeftShifted(in, 0)) = b
  <2>1. Len(read) < KbBits /\ Len(read) <= KbBits BY <1>0
  <2> QED BY <1>0, <1>1, <1>3, <2>1, FlightIs, FlightKept
<1>10. last => bits = b
  <2> SUFFICES ASSUME last PROVE bits = b OBVIOUS
  <2>1. Len(bits) = KbBits BY <1>0, <1>8
  <2>2. bits \in KbByte BY <1>8, <2>1, ByteIsSeq
  <2>3. Flight(bits, LeftShifted(in, 0)) = bits BY <1>4, <2>2, FlightEnds
  <2> QED BY <1>9, <2>3
<1>11. pressed = (received \o Codes(b)) \o queue
  <2>1. pressed = (received \o InFlight) \o uzeKbScanCodeQueue BY DEF KeysInOrder
  <2>2. CASE first
    <3>1. read = <<>> BY <1>0, <2>2, EmptySeq
    <3>2. in = Fetched /\ queue = AfterFetch BY <2>2
    <3>3. b = Fetched BY <1>1, <3>1, <3>2, FlightEnds
    <3>4. InFlight = <<>> BY <3>1 DEF InFlight
    <3>5. uzeKbScanCodeQueue = Codes(Fetched) \o AfterFetch BY FetchedIs
    <3>6. /\ received \in Seq(KbByte) /\ Codes(Fetched) \in Seq(KbByte)
          /\ AfterFetch \in Seq(KbByte)
      BY FetchedIs, CodesType, QueueOfBytes DEF KbOK
    <3>7. received \o <<>> = received BY <3>6, ConcatEmptySeq
    <3>8. received \o (Codes(Fetched) \o AfterFetch) = (received \o Codes(Fetched)) \o AfterFetch
      BY <3>6, ConcatAssociative
    <3> QED BY <2>1, <3>2, <3>3, <3>4, <3>5, <3>7, <3>8
  <2>3. CASE ~first
    <3>1. read # <<>>
      <4>1. Len(read) # 0 BY <1>0, <2>3
      <4> QED BY <4>1, EmptySeq
    <3>2. InFlight = Codes(b) BY <2>3, <3>1 DEF InFlight, Codes, Flight
    <3> QED BY <2>1, <2>3, <3>2
  <2> QED BY <2>2, <2>3
<1> HIDE DEF in, out, bits, b, queue
<1>12. KeysInOrder'
  <2>1. CASE last
    <3>1. read' = <<>> BY <1>7, <2>1
    <3>2. InFlight' = <<>> BY <3>1 DEF InFlight
    <3>3. received' = received \o Codes(b)
      <4>1. received \in Seq(KbByte) BY DEF KbOK
      <4>2. CASE b = Zero
        <5>1. received' = received /\ Codes(b) = <<>> BY <1>7, <1>10, <2>1, <4>2 DEF Codes
        <5>2. received \o <<>> = received BY <4>1, ConcatEmptySeq
        <5> QED BY <5>1, <5>2
      <4>3. CASE b # Zero
        <5>1. received' = Append(received, b) /\ Codes(b) = <<b>>
          BY <1>7, <1>10, <2>1, <4>3 DEF Codes
        <5>2. Append(received, b) = received \o <<b>> BY <1>9, <4>1, AppendIsConcat
        <5> QED BY <5>1, <5>2
      <4> QED BY <4>2, <4>3
    <3>4. received' \in Seq(KbByte)
      BY <1>9, <3>3, CodesType, ConcatProperties DEF KbOK
    <3>5. received' \o <<>> = received' BY <3>4, ConcatEmptySeq
    <3> QED BY <1>5, <1>11, <3>2, <3>3, <3>5 DEF KeysInOrder
  <2>2. CASE ~last
    <3>1. read' = bits /\ received' = received BY <1>7, <2>2
    <3>2. read' # <<>> BY <1>8, <3>1
    <3>3. Flight(read', uzeKbDataIn') = b BY <1>5, <1>9, <3>1
    <3>4. InFlight' = Codes(b) BY <3>2, <3>3 DEF InFlight, Codes, Flight
    <3> QED BY <1>5, <1>11, <3>1, <3>4 DEF KeysInOrder
  <2> QED BY <2>1, <2>2
<1>13. Phase' /\ uzeKbClock' \in 0 .. KbBits
  <2>1. CASE last /\ out # KB_SEND_END
    <3>1. uzeKbClock' = KbBits /\ read' = <<>> /\ uzeKbState' = "KB_TX_READY"
      BY <1>5, <1>7, <2>1 DEF NextClock
    <3>2. Len(read') = 0 BY <3>1, EmptySeq
    <3> QED BY <1>0, <1>5, <3>1, <3>2 DEF Phase
  <2>2. CASE last /\ out = KB_SEND_END
    <3>1. uzeKbClock' = 0 /\ read' = <<>> /\ uzeKbState' = "KB_STOP"
      BY <1>5, <1>7, <2>2 DEF NextClock
    <3>2. uzeKbState' # "KB_TX_READY" /\ 0 \in 0 .. KbBits BY <1>0, <3>1
    <3> QED BY <3>1, <3>2 DEF Phase
  <2>3. CASE ~last
    <3>1. uzeKbClock' = uzeKbClock - 1 /\ read' = bits /\ uzeKbState' = "KB_TX_READY"
      BY <1>5, <1>7, <2>3 DEF NextClock
    <3>2. uzeKbClock - 1 \in 1 .. KbBits /\ uzeKbClock - 1 \in 0 .. KbBits BY <1>0, <2>3
    <3>3. Len(read') = KbBits - (uzeKbClock - 1) BY <1>0, <1>8, <3>1
    <3> QED BY <1>0, <1>5, <3>1, <3>2, <3>3 DEF Phase
  <2> QED BY <2>1, <2>2, <2>3
<1>14. KbOK'
  <2>1. read' \in Seq(Bit) BY <1>7, <1>8, EmptySeq
  <2>2. received' \in Seq(KbByte)
    <3>1. last => Append(received, bits) \in Seq(KbByte)
      BY <1>9, <1>10, AppendProperties DEF KbOK
    <3> QED BY <1>7, <3>1 DEF KbOK
  <2> QED BY <1>1, <1>2, <1>4, <1>5, <1>13, <2>1, <2>2 DEF KbOK
<1> QED BY <1>6, <1>12, <1>13, <1>14
-----------------------------------------------------------------------------
(* The inductive invariant *)

\* From the first latch or clock on each line has its bit on it, the second as long as there
\* is no keyboard.
Lines ==
    \A p \in Pad : clocks > 0 /\ (p = 0 \/ ~uzeKbEnabled)
                     => Shows(new_input_mode, sample[p], clocks, PINA[p])

IInv == TypeOK /\ Second /\ InPlace /\ Lines /\ Phase /\ KeysInOrder

LEMMA TypeIs ==
  TypeOK <=> /\ PadsOK /\ KbOK
             /\ PORTA \in [latch : Bit, clock : Bit, rest : Bit] /\ PINA \in [Pad -> Bit]
             /\ pressed \in Seq(ScanCodes \cup {KB_BREAK})
BY DEF TypeOK, PadsOK, KbOK

LEMMA OnLineIs ==
  ASSUME NEW p \in Pad
  PROVE  OnLine(p) <=> Shows(new_input_mode, sample[p], clocks, PINA[p])
BY DEF OnLine, Shows

LEMMA Initially == Init => IInv
<1> SUFFICES ASSUME Init PROVE IInv OBVIOUS
<1>1. Ones \in Word /\ Zero \in KbByte BY OnesSent, ZeroIsByte
<1>2. <<>> \in Seq(ScanCodes \cup {KB_BREAK}) /\ <<>> \in Seq(Bit) /\ <<>> \in Seq(KbByte)
  BY EmptySeq
<1>3. 0 \in 0 .. Width /\ 0 \in 0 .. KbBits /\ 0 \in Bit BY Numbers DEF Bit
<1>4. PadsOK BY <1>1, <1>3 DEF Init, PadsOK
<1>5. KbOK BY <1>1, <1>2, <1>3 DEF Init, KbOK
<1>6. PORTA \in [latch : Bit, clock : Bit, rest : Bit] /\ PINA \in [Pad -> Bit]
  BY <1>3 DEF Init
<1>7. TypeOK BY <1>2, <1>4, <1>5, <1>6, TypeIs DEF Init
<1>8. Second BY DEF Init, Second, Pad
<1>9. InPlace
  <2> SUFFICES ASSUME NEW p \in Pad, NEW i \in Index
               PROVE  latched_buttons[p][i] = Sent(sample[p], i + clocks)
    BY DEF InPlace
  <2>1. i \in Nat /\ i < Width /\ i + clocks = i BY Numbers DEF Index, Init
  <2>2. latched_buttons[p] = Ones /\ sample[p] = Ones BY DEF Init
  <2>3. Ones[i] = 1 BY DEF Ones, Index
  <2> QED BY <2>1, <2>2, <2>3, OnesSent
<1>10. Lines BY DEF Init, Lines
<1>11. Phase BY DEF Init, Phase
<1>12. KeysInOrder
  <2>1. InFlight = <<>> BY DEF Init, InFlight
  <2>2. <<>> \o <<>> = <<>> BY EmptySeq, ConcatEmptySeq
  <2> QED BY <2>1, <2>2 DEF Init, KeysInOrder
<1> QED BY <1>7, <1>8, <1>9, <1>10, <1>11, <1>12 DEF IInv

\* What the two properties of a step ask of a write.
LinesRight == OnLine(0)' /\ (~uzeKbEnabled' => OnLine(1)')
ModeKept == new_input_mode' # new_input_mode => clocks' > Buttons

\* The keyboard leaves the first line alone, and the second until it is there.
LEMMA KbStep ==
  ASSUME KbOK, Phase, KeysInOrder,
         NEW new \in [latch : Bit, clock : Bit, rest : Bit], PadLines(new) \in [Pad -> Bit],
         Write(new)
  PROVE  /\ KbOK' /\ Phase' /\ KeysInOrder' /\ PINA' \in [Pad -> Bit]
         /\ PINA'[0] = PadLines(new)[0]
         /\ ~uzeKbEnabled' => ~uzeKbEnabled /\ PINA' = PadLines(new)
<1>0. pressed' = pressed BY DEF Write
<1>1. CASE KbStop(new) /\ PINA' = PadLines(new)
  <2>1. KbOK' BY <1>1 DEF KbOK, KbStop
  <2>2. Phase' BY <1>1 DEF Phase, KbStop
  <2>3. KeysInOrder' BY <1>0, <1>1 DEF KeysInOrder, InFlight, KbStop
  <2>4. ~uzeKbEnabled' => ~uzeKbEnabled BY <1>1 DEF KbStop
  <2> QED BY <1>1, <2>1, <2>2, <2>3, <2>4
<1>2. CASE KbStart(new) /\ PINA' = PadLines(new)
  <2>1. KbBits \in Nat /\ KbBits \in 1 .. KbBits /\ KbBits \in 0 .. KbBits BY Numbers
  <2>2. KbOK' BY <1>2, <2>1 DEF KbOK, KbStart
  <2>3. Phase'
    <3>1. read = <<>> /\ read' = <<>> /\ uzeKbEnabled /\ uzeKbEnabled' = uzeKbEnabled
      BY <1>2 DEF Phase, KbStart
    <3>2. CASE uzeKbState' = "KB_TX_READY"
      <4>1. uzeKbClock' = KbBits BY <1>2, <3>2 DEF KbStart
      <4>2. Len(read') = 0 BY <3>1, EmptySeq
      <4> QED BY <2>1, <3>1, <3>2, <4>1, <4>2 DEF Phase
    <3>3. CASE uzeKbState' # "KB_TX_READY" BY <3>1, <3>3 DEF Phase
    <3> QED BY <3>2, <3>3
  <2>4. KeysInOrder' BY <1>0, <1>2 DEF KeysInOrder, InFlight, KbStart
  <2> QED BY <1>2, <2>2, <2>3, <2>4 DEF KbStart
<1>3. CASE uzeKbState = "KB_TX_READY" /\ IsClock(new) /\ KbClock(new)
  <2>1. uzeKbEnabled' BY <1>3 DEF KbClock, Phase
  <2> QED BY <1>0, <1>3, <2>1, KbClockStep
<1>4. CASE uzeKbState = "KB_TX_READY" /\ ~IsClock(new) /\ UNCHANGED kb /\ PINA' = PadLines(new)
  <2>1. KbOK' BY <1>4 DEF KbOK, kb
  <2>2. Phase' BY <1>4 DEF Phase, kb
  <2>3. KeysInOrder' BY <1>0, <1>4 DEF KeysInOrder, InFlight, kb
  <2> QED BY <1>4, <2>1, <2>2, <2>3 DEF kb
<1> QED BY <1>1, <1>2, <1>3, <1>4 DEF Write

LEMMA WriteStep ==
  ASSUME IInv, NEW new \in [latch : Bit, clock : Bit, rest : Bit], Write(new)
  PROVE  IInv' /\ LinesRight /\ ModeKept
<1>1. /\ PadsOK /\ KbOK /\ PINA \in [Pad -> Bit] /\ pressed \in Seq(ScanCodes \cup {KB_BREAK})
      /\ Second /\ InPlace /\ Phase /\ KeysInOrder
  BY TypeIs DEF IInv
<1>2. WritePads(new) /\ PORTA' = new /\ pressed' = pressed BY DEF Write
<1>3. /\ PadsOK' /\ Second' /\ InPlace' /\ PadLines(new) \in [Pad -> Bit] /\ ModeKept
  BY <1>1, <1>2, PadsStep DEF ModeKept
<1>4. /\ KbOK' /\ Phase' /\ KeysInOrder' /\ PINA' \in [Pad -> Bit]
      /\ PINA'[0] = PadLines(new)[0]
      /\ ~uzeKbEnabled' => ~uzeKbEnabled /\ PINA' = PadLines(new)
  BY <1>1, <1>3, KbStep
<1>5. TypeOK' BY <1>1, <1>2, <1>3, <1>4 DEF TypeOK, PadsOK, KbOK
<1>6. ASSUME NEW p \in Pad, p = 0 \/ ~uzeKbEnabled'
      PROVE  Shows(new_input_mode', sample'[p], clocks', PINA'[p])
  <2>1. clocks > 0 => Shows(new_input_mode, sample[p], clocks, PINA[p])
    BY <1>4, <1>6 DEF IInv, Lines
  <2>2. Shows(new_input_mode', sample'[p], clocks', PadLines(new)[p])
    BY <1>1, <1>2, <2>1, LineShows
  <2> QED BY <1>4, <1>6, <2>2
<1>7. Lines' BY <1>6 DEF Lines
<1>8. LinesRight BY <1>6 DEF LinesRight, OnLine, Shows, Pad
<1> QED BY <1>1, <1>3, <1>4, <1>5, <1>7, <1>8 DEF IInv

\* A poll changes only what the next latch will take, and not the second pad.
LEMMA PollStep == IInv /\ Poll => IInv' /\ ModeKept /\ pressed' = pressed
<1> SUFFICES ASSUME IInv, Poll PROVE IInv' /\ ModeKept /\ pressed' = pressed OBVIOUS
<1>1. PICK P \in Presses :
        buttons' = [buttons EXCEPT ![0] = [i \in 0 .. Width - 1 |-> IF i \in P THEN 0 ELSE 1]]
  BY DEF Poll
<1>2. [i \in 0 .. Width - 1 |-> IF i \in P THEN 0 ELSE 1] \in Word BY DEF Word, Bit
<1>3. TypeOK' BY <1>1, <1>2 DEF IInv, TypeOK, Poll, kb
<1>4. Second' BY <1>1 DEF IInv, TypeOK, Second, Poll, Pad
<1>5. InPlace' BY DEF IInv, InPlace, Poll
<1>6. Lines' BY DEF IInv, Lines, Poll, kb
<1>7. Phase' BY DEF IInv, Phase, Poll, kb
<1>8. KeysInOrder' BY DEF IInv, KeysInOrder, InFlight, Poll, kb
<1> QED BY <1>3, <1>4, <1>5, <1>6, <1>7, <1>8 DEF IInv, ModeKept, Poll

\* What is in flight is a byte or nothing.
LEMMA InFlightType ==
  ASSUME KbOK, Phase PROVE InFlight \in Seq(KbByte)
<1>1. CASE read = <<>>
  <2>1. InFlight = <<>> BY <1>1 DEF InFlight
  <2> QED BY <2>1, EmptySeq
<1>2. CASE read # <<>>
  <2>1. InFlight = Codes(Flight(read, uzeKbDataIn)) BY <1>2 DEF InFlight, Codes, Flight
  <2>2. Len(read) <= KbBits BY <1>2, Numbers DEF Phase
  <2>3. Flight(read, uzeKbDataIn) \in KbByte BY <2>2, FlightIs DEF KbOK
  <2> QED BY <2>1, <2>3, CodesType
<1> QED BY <1>1, <1>2

\* A key puts its codes behind those that wait.
LEMMA KeyStep ==
  ASSUME IInv, NEW down \in BOOLEAN, NEW code \in {<<>>} \cup {<<c>> : c \in ScanCodes},
         Key(down, code)
  PROVE  IInv' /\ ModeKept /\ buttons' = buttons
         /\ (pressed' = pressed => UNCHANGED vars)
<1> DEFINE S == ScanCodes \cup {KB_BREAK}
           codes == (IF down THEN <<>> ELSE <<KB_BREAK>>) \o code
           q == uzeKbScanCodeQueue
<1>1. /\ TypeOK /\ q \in Seq(S) /\ pressed \in Seq(S) /\ received \in Seq(KbByte)
      /\ read \in Seq(Bit) /\ uzeKbDataIn \in KbByte
  BY DEF IInv, TypeOK
<1>2. codes \in Seq(S)
  <2>1. <<>> \in Seq(S) /\ <<KB_BREAK>> \in Seq(S) BY EmptySeq
  <2>2. CASE code = <<>> BY <2>1, <2>2, ConcatProperties
  <2>3. ASSUME NEW c \in ScanCodes, code = <<c>> PROVE codes \in Seq(S)
    <3>1. code \in Seq(S) BY <2>3
    <3> QED BY <2>1, <3>1, ConcatProperties
  <2> QED BY <2>2, <2>3
<1>3. /\ q' = q \o codes /\ pressed' = pressed \o codes
      /\ UNCHANGED <<pads, PORTA, PINA, uzeKbState, uzeKbEnabled, uzeKbClock, uzeKbDataOut,
                     uzeKbDataIn, read, received>>
  BY DEF Key
<1> HIDE DEF codes
<1>4. q' \in Seq(S) /\ pressed' \in Seq(S) BY <1>1, <1>2, <1>3, ConcatProperties
<1>5. TypeOK' BY <1>1, <1>3, <1>4 DEF TypeOK, pads
<1>6. Second' /\ InPlace' /\ ModeKept BY <1>3 DEF IInv, Second, InPlace, ModeKept, pads
<1>7. Lines' BY <1>3 DEF IInv, Lines, pads
<1>8. Phase' BY <1>3 DEF IInv, Phase
<1>9. KeysInOrder'
  <2>1. pressed = (received \o InFlight) \o q BY DEF IInv, KeysInOrder
  <2>2. InFlight' = InFlight /\ received' = received BY <1>3 DEF InFlight
  <2>3. InFlight \in Seq(KbByte) BY <1>1, TypeIs, InFlightType DEF IInv
  <2>4. received \o InFlight \in Seq(KbByte) /\ q \in Seq(KbByte) /\ codes \in Seq(KbByte)
    BY <1>1, <1>2, <2>3, ConcatProperties, QueueOfBytes
  <2> DEFINE front == received \o InFlight
  <2>5. pressed = front \o q /\ front \in Seq(KbByte) BY <2>1, <2>4
  <2>6. pressed' = front' \o q' <=> (front \o q) \o codes = front \o (q \o codes)
    BY <1>3, <2>2, <2>5
  <2>7. KeysInOrder' <=> pressed' = front' \o q' BY DEF KeysInOrder
  <2> HIDE DEF front, q
  <2>8. q \in Seq(KbByte) /\ codes \in Seq(KbByte) BY <2>4
  <2>9. (front \o q) \o codes = front \o (q \o codes)
    <3>1. \A s, t, u \in Seq(KbByte) : (s \o t) \o u = s \o (t \o u) BY ConcatAssociative
    <3>2. front \in Seq(KbByte) BY <2>5
    <3> QED BY <2>8, <3>1, <3>2, Zenon
  <2> QED BY <2>6, <2>7, <2>9
<1>10. ASSUME pressed' = pressed PROVE UNCHANGED vars
  <2>1. codes = <<>>
    <3>1. pressed \o codes = pressed BY <1>3, <1>10
    <3> HIDE DEF S
    <3>2. pressed \in Seq(S) /\ codes \in Seq(S) BY <1>1, <1>2
    <3> QED BY <3>1, <3>2, ConcatEqualIffEmpty
  <2>2. q' = q BY <1>1, <1>3, <2>1, ConcatEmptySeq
  <2> QED BY <1>3, <1>10, <2>2 DEF vars, kb
<1> QED BY <1>3, <1>5, <1>6, <1>7, <1>8, <1>9, <1>10 DEF IInv, pads

\* A step of any kind, and what the properties of steps ask of it.
LEMMA Step ==
  IInv /\ [Next]_vars
    => /\ IInv' /\ ModeKept
       /\ buttons' = buttons /\ pressed' = pressed => LinesRight \/ UNCHANGED vars
<1> SUFFICES ASSUME IInv, [Next]_vars
             PROVE  /\ IInv' /\ ModeKept
                    /\ buttons' = buttons /\ pressed' = pressed => LinesRight \/ UNCHANGED vars
  OBVIOUS
<1>1. ASSUME NEW new \in [latch : Bit, clock : Bit, rest : Bit], Write(new)
      PROVE  IInv' /\ ModeKept /\ LinesRight
  BY <1>1, WriteStep
<1>2. CASE Poll
  <2>1. buttons' = buttons => UNCHANGED vars BY <1>2 DEF Poll, vars, pads
  <2> QED BY <1>2, <2>1, PollStep
<1>3. ASSUME NEW down \in BOOLEAN, NEW code \in {<<>>} \cup {<<c>> : c \in ScanCodes},
             Key(down, code)
      PROVE  IInv' /\ ModeKept /\ (pressed' = pressed => UNCHANGED vars)
  BY <1>3, KeyStep
<1>4. CASE UNCHANGED vars
  <2>1. UNCHANGED <<pads, PORTA, PINA, kb, pressed>> BY <1>4 DEF vars
  <2>2. TypeOK' BY <2>1 DEF IInv, TypeOK, pads, kb
  <2>3. Second' /\ InPlace' BY <2>1 DEF IInv, Second, InPlace, pads
  <2>4. Lines' BY <2>1 DEF IInv, Lines, pads, kb
  <2>5. Phase' BY <2>1 DEF IInv, Phase, kb
  <2>6. KeysInOrder' BY <2>1 DEF IInv, KeysInOrder, InFlight, kb
  <2>7. ModeKept BY <2>1 DEF ModeKept, pads
  <2> QED BY <1>4, <2>2, <2>3, <2>4, <2>5, <2>6, <2>7 DEF IInv
<1> QED BY <1>1, <1>2, <1>3, <1>4 DEF Next
-----------------------------------------------------------------------------
(* The theorems *)

THEOREM Invariant == Spec => []IInv
<1>1. IInv /\ [Next]_vars => IInv' BY Step
<1> QED BY Initially, <1>1, PTL DEF Spec

\* Every variable keeps its type.
THEOREM TypeCorrect == Spec => []TypeOK
<1>1. IInv => TypeOK BY DEF IInv
<1> QED BY Invariant, <1>1, PTL

\* Every code queued is read once and in order, wherever key events and the program's reads
\* of the pads fall (uzeKbScanCodeQueue, avr8.cpp:422-479 and 2003-2013).
THEOREM KeysArrive == Spec => []KeysInOrder
<1>1. IInv => KeysInOrder BY DEF IInv
<1> QED BY Invariant, <1>1, PTL

\* After every write to PORTA the lines show the bit that the clocks since the latch select
\* of the sample taken at that latch (latched_buttons, avr8.cpp:387-418).
THEOREM ReadsOfOneSample == Spec => BitsOfOneSample
<1>1. IInv /\ [Next]_vars
        => [buttons' = buttons /\ pressed' = pressed
              => OnLine(0)' /\ (~uzeKbEnabled' => OnLine(1)')]_vars
  BY Step DEF LinesRight
<1> QED BY Invariant, <1>1, PTL DEF Spec, BitsOfOneSample

\* The input mode changes only after more clocks than a pad has buttons (avr8.cpp:412).
THEOREM ShortReadsKeepMode == Spec => ModeOfLongReads
<1>1. IInv /\ [Next]_vars => [new_input_mode' # new_input_mode => clocks' > Buttons]_vars
  BY Step DEF ModeKept
<1> QED BY Invariant, <1>1, PTL DEF Spec, ModeOfLongReads
=============================================================================
