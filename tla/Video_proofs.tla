---------------------------- MODULE Video_proofs ----------------------------
(***************************************************************************)
(* The invariants of the scanline synchronisation, for every line length,  *)
(* number of lines, size of the ring of pixels and edge: what retro_run    *)
(* hands out is a whole frame, and its regular lines are drawn from their  *)
(* own pixels.                                                             *)
(***************************************************************************)
EXTENDS Video, TLAPS

\* The remainder is determined by the division.
LEMMA Remainder ==
  ASSUME NEW d \in Nat \ {0}, NEW q \in Nat, NEW rest \in 0 .. d - 1
  PROVE  (d * q + rest) % d = rest
<1> DEFINE x == d * q + rest
           p == x \div d
           m == x % d
<1>1. x \in Nat BY SMT
<1>2. p \in Nat /\ m \in 0 .. d - 1 /\ x = d * p + m BY <1>1, SMT
<1>3. d * p + m = d * q + rest BY <1>2
<1> HIDE DEF x, p, m
<1>4. ~(p < q)
  <2> SUFFICES ASSUME p < q PROVE FALSE OBVIOUS
  <2>1. q - p \in Nat /\ q - p >= 1 BY <1>2
  <2>2. d * (q - p) >= d BY <2>1, SMT
  <2>3. d * (q - p) = d * q - d * p BY <1>2, SMT
  <2> QED BY <2>2, <2>3, <1>2, <1>3
<1>5. ~(q < p)
  <2> SUFFICES ASSUME q < p PROVE FALSE OBVIOUS
  <2>1. p - q \in Nat /\ p - q >= 1 BY <1>2
  <2>2. d * (p - q) >= d BY <2>1, SMT
  <2>3. d * (p - q) = d * p - d * q BY <1>2, SMT
  <2> QED BY <2>2, <2>3, <1>2, <1>3
<1>6. p = q BY <1>2, <1>4, <1>5
<1> QED BY <1>2, <1>3, <1>6 DEF m, x

\* A number is a multiple of the divisor and its remainder.
LEMMA Division ==
  ASSUME NEW d \in Nat \ {0}, NEW x \in Nat
  PROVE  /\ x \div d \in Nat /\ x % d \in 0 .. d - 1
         /\ x = d * (x \div d) + (x % d)
BY SMT

\* The clock wraps at a multiple of the ring: it does not move the place in the ring.
LEMMA WrapKeepsPlace ==
  ASSUME NEW x \in Nat
  PROVE  (x % Cycles) % Ring = x % Ring
<1> DEFINE p == Cycles \div Ring
           q == x \div Cycles
           y == x % Cycles
           k == y \div Ring
           m == y % Ring
<1>1. Ring \in Nat \ {0} /\ Cycles \in Nat \ {0} /\ Cycles % Ring = 0 BY RingAssumption
<1>2. p \in Nat /\ Cycles = Ring * p BY <1>1, Division
<1>3. q \in Nat /\ y \in Nat /\ x = Cycles * q + y BY <1>1, Division
<1>4. k \in Nat /\ m \in 0 .. Ring - 1 /\ y = Ring * k + m BY <1>1, <1>3, Division
<1> HIDE DEF p, q, y, k, m
<1>5. Cycles * q = Ring * (p * q) BY <1>1, <1>2, <1>3, SMT
<1>6. p * q \in Nat BY <1>2, <1>3, SMT
<1>7. Ring * (p * q) + Ring * k = Ring * (p * q + k) BY <1>1, <1>4, <1>6, SMT
<1>8. p * q + k \in Nat BY <1>4, <1>6
<1>9. x = Ring * (p * q + k) + m BY <1>3, <1>4, <1>5, <1>6, <1>7, <1>1
<1>10. x % Ring = m BY <1>1, <1>4, <1>8, <1>9, Remainder
<1> QED BY <1>10 DEF m, y

\* Numbers at the same place in the ring have successors at the same place.
LEMMA SamePlaceNext ==
  ASSUME NEW a \in Nat, NEW b \in Nat, a % Ring = b % Ring
  PROVE  (a + 1) % Ring = (b + 1) % Ring
<1> DEFINE i == a \div Ring
           j == b \div Ring
           m == a % Ring
<1>1. Ring \in Nat \ {0} BY RingAssumption
<1>2. i \in Nat /\ m \in 0 .. Ring - 1 /\ a = Ring * i + m BY <1>1, Division
<1>3. j \in Nat /\ b = Ring * j + m BY <1>1, Division
<1> HIDE DEF i, j, m
<1>4. CASE m + 1 < Ring
  <2>1. m + 1 \in 0 .. Ring - 1 BY <1>1, <1>2, <1>4
  <2>2. (Ring * i + (m + 1)) % Ring = m + 1 BY <1>1, <1>2, <2>1, Remainder
  <2>3. (Ring * j + (m + 1)) % Ring = m + 1 BY <1>1, <1>3, <2>1, Remainder
  <2>4. Ring * i \in Nat /\ Ring * j \in Nat BY <1>1, <1>2, <1>3, SMT
  <2>5. a + 1 = Ring * i + (m + 1) /\ b + 1 = Ring * j + (m + 1) BY <1>2, <1>3, <2>4
  <2> QED BY <2>2, <2>3, <2>5
<1>5. CASE m + 1 = Ring
  <2>1. Ring * (i + 1) = Ring * i + Ring /\ Ring * (j + 1) = Ring * j + Ring
    BY <1>1, <1>2, <1>3, SMT
  <2>2. Ring * i \in Nat /\ Ring * j \in Nat BY <1>1, <1>2, <1>3, SMT
  <2>3. a + 1 = Ring * (i + 1) + 0 /\ b + 1 = Ring * (j + 1) + 0
    BY <1>1, <1>2, <1>3, <1>5, <2>1, <2>2
  <2>4. i + 1 \in Nat /\ j + 1 \in Nat /\ 0 \in 0 .. Ring - 1 BY <1>1, <1>2, <1>3
  <2>5. (Ring * (i + 1) + 0) % Ring = 0 BY <1>1, <2>4, Remainder
  <2>6. (Ring * (j + 1) + 0) % Ring = 0 BY <1>1, <2>4, Remainder
  <2> QED BY <2>3, <2>5, <2>6
<1> QED BY <1>1, <1>2, <1>4, <1>5
-----------------------------------------------------------------------------
\* What retro_run has of its frame: nothing while it searches, then the rows above the
\* current line, each once.
Progress ==
  /\ run = "idle" => scanline_count = NoFrame
  /\ run = "sync" => /\ scanline_count \in {NoFrame, scanline_top}
                     /\ \A n \in Line : rows[n] = "missing"
  /\ run = "draw" => \A n \in Line :
                        IF scanline_count = NoFrame \/ n < scanline_count
                        THEN rows[n] \notin {"missing", "twice"}
                        ELSE rows[n] = "missing"

\* Within a frame, the pixels since the last pulse lie one behind the other in the ring;
\* below the first line of the frame its edge is that pulse.
Placed ==
  scanline_count # NoFrame =>
    /\ scanline_count # scanline_top => left_edge_cycle = prevCyclesCounter
    /\ ~holes /\ since <= Ring =>
         /\ cycleCounter % Ring = (prevCyclesCounter + since) % Ring
         /\ \A k \in 1 .. since : (prevCyclesCounter + k) % Ring \in own

IInv == TypeOK /\ Progress /\ Placed /\ OwnPixels

\* The numbers of the lines, with NoFrame apart from them.
LEMMA Numbers ==
  /\ NoFrame \in Int /\ scanline_top \in Int /\ NoFrame < scanline_top
  /\ scanline_top < 0 /\ Lines \in Nat /\ Lines >= 1
BY FrameAssumption DEF NoFrame, scanline_top

\* The types of the numbers the proofs calculate with.
LEMMA Clocks ==
  ASSUME TypeOK
  PROVE  /\ cycleCounter \in Nat /\ prevCyclesCounter \in Nat /\ left_edge_cycle \in Nat
         /\ since \in Nat /\ scanline_count \in Int
         /\ Ring \in Nat \ {0} /\ Cycles \in Nat \ {0}
<1>1. Ring \in Nat \ {0} /\ Cycles \in Nat \ {0} BY RingAssumption
<1> QED BY <1>1, Numbers DEF TypeOK, Clock

LEMMA InitInv == Init => IInv
<1> SUFFICES ASSUME Init PROVE IInv OBVIOUS
<1>1. TypeOK
  <2>1. Cycles - 1 \in Clock /\ 0 \in Clock BY RingAssumption DEF Clock
  <2>2. 0 \in 0 .. Ring + 1 BY RingAssumption
  <2>3. rows \in [Line -> Drawn] BY DEF Init, Drawn
  <2> QED BY <2>1, <2>2, <2>3 DEF Init, TypeOK
<1>2. Progress /\ Placed /\ OwnPixels BY DEF Init, Progress, Placed, OwnPixels
<1> QED BY <1>1, <1>2 DEF IInv

LEMMA CyclePreserves == ASSUME IInv, Cycle PROVE IInv'
<1> DEFINE now == (cycleCounter + 1) % Cycles
<1>0. TypeOK BY DEF IInv
<1>1. /\ cycleCounter' = now /\ own' = own \cup {now % Ring}
      /\ since' = Capped(since + 1)
      /\ UNCHANGED <<run, scanline_count, prevCyclesCounter, left_edge_cycle, saved, holes, rows>>
  BY DEF Cycle
<1>2. now % Ring = (cycleCounter + 1) % Ring BY <1>0, Clocks, WrapKeepsPlace
<1>3. now \in Clock /\ now % Ring \in Slot
  <2>1. cycleCounter + 1 \in Nat BY <1>0, Clocks
  <2>2. now \in 0 .. Cycles - 1 BY <2>1, <1>0, Clocks, Division
  <2>3. now \in Nat BY <2>2, <1>0, Clocks
  <2>4. now % Ring \in 0 .. Ring - 1 BY <2>3, <1>0, Clocks, Division
  <2> QED BY <2>2, <2>4 DEF Clock, Slot
<1> HIDE DEF now
<1>4. since' \in 0 .. Ring + 1 BY <1>0, <1>1, Clocks DEF Capped
<1>5. TypeOK' BY <1>0, <1>1, <1>3, <1>4 DEF TypeOK
<1>6. Progress' /\ OwnPixels' BY <1>1 DEF IInv, Progress, OwnPixels
<1>7. Placed'
  <2> SUFFICES ASSUME scanline_count # NoFrame, ~holes, since' <= Ring
               PROVE  /\ now % Ring = (prevCyclesCounter + since') % Ring
                      /\ \A k \in 1 .. since' : (prevCyclesCounter + k) % Ring \in own'
    BY <1>1 DEF IInv, Placed
  <2>1. since' = since + 1 /\ since <= Ring BY <1>0, <1>1, Clocks DEF Capped
  <2>2. /\ cycleCounter % Ring = (prevCyclesCounter + since) % Ring
        /\ \A k \in 1 .. since : (prevCyclesCounter + k) % Ring \in own
    BY <2>1 DEF IInv, Placed
  <2>3. prevCyclesCounter + since \in Nat /\ cycleCounter \in Nat BY <1>0, Clocks
  <2>4. (cycleCounter + 1) % Ring = (prevCyclesCounter + since + 1) % Ring
    BY <2>2, <2>3, SamePlaceNext
  <2>5. prevCyclesCounter + since + 1 = prevCyclesCounter + since' BY <2>1, <1>0, Clocks
  <2>6. now % Ring = (prevCyclesCounter + since') % Ring BY <1>2, <2>4, <2>5
  <2>7. ASSUME NEW k \in 1 .. since' PROVE (prevCyclesCounter + k) % Ring \in own'
    <3>1. k \in 1 .. since \/ k = since' BY <2>1, <1>0, Clocks
    <3> QED BY <3>1, <2>2, <2>6, <1>1
  <2> QED BY <2>6, <2>7
<1> QED BY <1>5, <1>6, <1>7 DEF IInv

LEMMA EepromPreserves == ASSUME IInv, EepromAccess PROVE IInv'
<1>0. TypeOK BY DEF IInv
<1>1. /\ cycleCounter' = (cycleCounter + EepromCycles) % Cycles
      /\ since' = Capped(since + EepromCycles) /\ holes' = TRUE
      /\ UNCHANGED <<run, scanline_count, prevCyclesCounter, left_edge_cycle, saved, own, rows>>
  BY DEF EepromAccess
<1>2. EepromCycles \in Nat BY EepromAssumption
<1>3. cycleCounter + EepromCycles \in Nat BY <1>0, <1>2, Clocks
<1>4. cycleCounter' \in Clock
  <2>1. (cycleCounter + EepromCycles) % Cycles \in 0 .. Cycles - 1
    BY <1>3, <1>0, Clocks, Division
  <2> QED BY <2>1, <1>1 DEF Clock
<1>5. since' \in 0 .. Ring + 1 BY <1>0, <1>1, <1>2, Clocks DEF Capped
<1>6. TypeOK' BY <1>0, <1>1, <1>4, <1>5 DEF TypeOK
<1>7. Progress' /\ OwnPixels' /\ Placed' BY <1>1 DEF IInv, Progress, OwnPixels, Placed
<1> QED BY <1>6, <1>7 DEF IInv

\* After a pulse the ring has no pixels of the new line.
LEMMA PulseStarts ==
  ASSUME IInv, PulseDone
  PROVE  /\ since' = 0 /\ holes' = FALSE /\ own' = {}
         /\ cycleCounter' = cycleCounter /\ prevCyclesCounter' = cycleCounter
         /\ run' = run /\ saved' = saved
         /\ cycleCounter' % Ring = (prevCyclesCounter' + since') % Ring
         /\ \A k \in 1 .. since' : (prevCyclesCounter' + k) % Ring \in own'
<1>0. TypeOK BY DEF IInv
<1>1. /\ since' = 0 /\ holes' = FALSE /\ own' = {}
      /\ cycleCounter' = cycleCounter /\ prevCyclesCounter' = cycleCounter
      /\ run' = run /\ saved' = saved
  BY DEF PulseDone
<1>2. cycleCounter + 0 = cycleCounter BY <1>0, Clocks
<1>3. 1 .. 0 = {} BY SMT
<1> QED BY <1>1, <1>2, <1>3

LEMMA SearchPreserves == ASSUME IInv, Search PROVE IInv'
<1>0. TypeOK BY DEF IInv
<1>1. /\ scanline_count = NoFrame /\ Executing /\ PulseDone
      /\ scanline_count' \in {NoFrame, scanline_top}
      /\ UNCHANGED <<left_edge_cycle, rows>>
  BY DEF Search
<1>2. run = "sync" BY <1>1 DEF Executing
<1>3. TypeOK'
  <2>1. scanline_top \in scanline_top .. Lines - 1 BY Numbers
  <2>2. 0 \in 0 .. Ring + 1 BY RingAssumption
  <2> QED BY <1>0, <1>1, <2>1, <2>2, PulseStarts DEF TypeOK
<1>4. Progress' BY <1>1, <1>2, PulseStarts DEF IInv, Progress
<1>5. Placed' BY <1>1, PulseStarts DEF Placed
<1>6. OwnPixels' BY <1>1 DEF IInv, OwnPixels
<1> QED BY <1>3, <1>4, <1>5, <1>6 DEF IInv

\* A row is drawn once, and from its own pixels if its line was regular.
LEMMA RowDrawn ==
  ASSUME IInv, run = "draw", scanline_count # NoFrame, IsRow(scanline_count)
  PROVE  /\ scanline_count \in Line
         /\ Rendered(scanline_count) \in {"own", "uneven"}
<1>0. TypeOK BY DEF IInv
<1>1. scanline_count \in Line
  <2>1. scanline_count \in scanline_top .. Lines - 1 BY <1>0 DEF TypeOK
  <2>2. scanline_count >= 0 BY DEF IsRow
  <2> QED BY <2>1, <2>2, Numbers DEF Line
<1>2. rows[scanline_count] = "missing"
  <2>1. ~(scanline_count < scanline_count) BY <1>0, Clocks
  <2> QED BY <1>1, <2>1 DEF IInv, Progress
<1>3. ASSUME since = HSYNC_PERIOD, ~holes, NEW i \in 0 .. Width - 1
      PROVE  Source(i) \in own
  <2> DEFINE k == left_edge + 2 * i
  <2>1. /\ left_edge \in Nat \ {0} /\ Width \in Nat \ {0} /\ HSYNC_PERIOD \in Nat
        /\ left_edge + 2 * (Width - 1) <= HSYNC_PERIOD /\ HSYNC_PERIOD <= Ring
    BY EdgeAssumption, PeriodAssumption
  <2>2. k \in 1 .. since BY <2>1, <1>3
  <2>3. scanline_count # scanline_top
    <3>1. scanline_count >= 0 BY DEF IsRow
    <3> QED BY <3>1, Numbers, <1>0, Clocks
  <2>4. left_edge_cycle = prevCyclesCounter BY <2>3 DEF IInv, Placed
  <2>5. since <= Ring BY <2>1, <1>3
  <2>6. (prevCyclesCounter + k) % Ring \in own BY <2>2, <2>5, <1>3 DEF IInv, Placed
  <2>7. left_edge + left_edge_cycle + 2 * i = prevCyclesCounter + k
    BY <2>1, <2>4, <1>0, Clocks
  <2> QED BY <2>6, <2>7 DEF Source
<1>4. Rendered(scanline_count) \in {"own", "uneven"} BY <1>2, <1>3 DEF Rendered
<1> QED BY <1>1, <1>4

LEMMA EndLinePreserves == ASSUME IInv, EndLine PROVE IInv'
<1>0. TypeOK BY DEF IInv
<1>1. /\ scanline_count # NoFrame /\ Executing /\ PulseDone
      /\ scanline_count' = NextLine(scanline_count)
      /\ left_edge_cycle' = cycleCounter
      /\ rows' = IF IsRow(scanline_count)
                 THEN [rows EXCEPT ![scanline_count] = Rendered(scanline_count)] ELSE rows
  BY DEF EndLine
<1>2. run = "draw" BY <1>1 DEF Executing
<1>3. scanline_count \in scanline_top .. Lines - 1 BY <1>0, <1>1 DEF TypeOK
<1>4. rows \in [Line -> Drawn] BY <1>0 DEF TypeOK
<1>5. rows' \in [Line -> Drawn] BY <1>1, <1>2, <1>4, RowDrawn DEF Drawn
<1>6. /\ scanline_count' \in {NoFrame} \cup (scanline_top .. Lines - 1)
      /\ scanline_count' # NoFrame => scanline_count' = scanline_count + 1
      /\ scanline_count' = NoFrame => scanline_count = Lines - 1
  BY <1>1, <1>3, Numbers DEF NextLine
<1>7. TypeOK'
  <2>1. 0 \in 0 .. Ring + 1 BY RingAssumption
  <2> QED BY <1>0, <1>1, <1>5, <1>6, <2>1, PulseStarts DEF TypeOK
<1>8. ASSUME NEW n \in Line
      PROVE  IF scanline_count' = NoFrame \/ n < scanline_count'
             THEN rows'[n] \notin {"missing", "twice"} ELSE rows'[n] = "missing"
  <2>1. n \in 0 .. Lines - 1 BY DEF Line
  <2>2. CASE n = scanline_count
    <3>1. IsRow(scanline_count) BY <2>1, <2>2 DEF IsRow
    <3>2. rows'[n] \in {"own", "uneven"} BY <3>1, <2>2, <1>1, <1>2, <1>4, RowDrawn
    <3>3. scanline_count' = NoFrame \/ n < scanline_count' BY <2>1, <2>2, <1>6
    <3> QED BY <3>2, <3>3
  <2>3. CASE n # scanline_count
    <3>1. rows'[n] = rows[n] BY <2>3, <1>1, <1>4
    <3>2. IF n < scanline_count THEN rows[n] \notin {"missing", "twice"} ELSE rows[n] = "missing"
      BY <1>1, <1>2 DEF IInv, Progress
    <3>3. (scanline_count' = NoFrame \/ n < scanline_count') <=> n < scanline_count
      BY <2>1, <2>3, <1>3, <1>6, Numbers
    <3> QED BY <3>1, <3>2, <3>3
  <2> QED BY <2>2, <2>3
<1>9. run' = "draw" BY <1>1, <1>2, PulseStarts
<1>10. Progress' BY <1>8, <1>9 DEF Progress
<1>11. Placed' BY <1>1, PulseStarts DEF Placed
<1>12. OwnPixels'
  <2> SUFFICES ASSUME NEW n \in Line PROVE rows'[n] # "torn" BY DEF OwnPixels
  <2>1. rows[n] # "torn" BY DEF IInv, OwnPixels
  <2> QED BY <2>1, <1>1, <1>2, <1>4, RowDrawn
<1> QED BY <1>7, <1>10, <1>11, <1>12 DEF IInv

\* The frontend's own steps.
LEMMA FrontendPreserves ==
  ASSUME IInv, Begin \/ LoopEnds \/ Serialize \/ Unserialize
  PROVE  IInv'
<1>0. TypeOK BY DEF IInv
<1>1. CASE Begin
  <2>1. rows' \in [Line -> Drawn] /\ \A n \in Line : rows'[n] = "missing" BY <1>1 DEF Begin, Drawn
  <2>2. /\ run = "idle" /\ run' = "sync"
        /\ UNCHANGED <<scanline_count, cycleCounter, prevCyclesCounter, left_edge_cycle, saved,
                       own, since, holes>>
    BY <1>1 DEF Begin
  <2>3. TypeOK' BY <1>0, <2>1, <2>2 DEF TypeOK
  <2>4. Progress' BY <2>1, <2>2 DEF IInv, Progress
  <2>5. Placed' BY <2>2 DEF IInv, Placed
  <2>6. OwnPixels' BY <2>1 DEF OwnPixels
  <2> QED BY <2>3, <2>4, <2>5, <2>6 DEF IInv
<1>2. CASE LoopEnds
  <2>1. /\ \/ run = "sync" /\ scanline_count # NoFrame /\ run' = "draw"
           \/ run = "draw" /\ scanline_count = NoFrame /\ run' = "idle"
        /\ UNCHANGED <<scanline_count, cycleCounter, prevCyclesCounter, left_edge_cycle, saved,
                       own, since, holes, rows>>
    BY <1>2 DEF LoopEnds
  <2>2. TypeOK' BY <1>0, <2>1 DEF TypeOK
  <2>3. Progress'
    <3>1. CASE run = "sync" /\ scanline_count # NoFrame /\ run' = "draw"
      <4>1. scanline_count = scanline_top /\ \A n \in Line : rows[n] = "missing"
        BY <3>1 DEF IInv, Progress
      <4>2. \A n \in Line : ~(n < scanline_count) BY <4>1, Numbers DEF Line
      <4> QED BY <3>1, <4>1, <4>2, <2>1 DEF Progress
    <3>2. CASE run = "draw" /\ scanline_count = NoFrame /\ run' = "idle"
      BY <3>2, <2>1 DEF Progress
    <3> QED BY <2>1, <3>1, <3>2
  <2>4. Placed' /\ OwnPixels' BY <2>1 DEF IInv, Placed, OwnPixels
  <2> QED BY <2>2, <2>3, <2>4 DEF IInv
<1>3. CASE Serialize \/ Unserialize
  <2>1. /\ run = "idle" /\ left_edge_cycle' \in Clock /\ saved' \in Clock
        /\ UNCHANGED <<run, scanline_count, cycleCounter, prevCyclesCounter, own, since, holes, rows>>
    BY <1>0, <1>3 DEF Serialize, Unserialize, TypeOK
  <2>2. scanline_count = NoFrame BY <2>1 DEF IInv, Progress
  <2>3. TypeOK' BY <1>0, <2>1 DEF TypeOK
  <2>4. Progress' /\ OwnPixels' BY <2>1 DEF IInv, Progress, OwnPixels
  <2>5. Placed' BY <2>1, <2>2 DEF Placed
  <2> QED BY <2>3, <2>4, <2>5 DEF IInv
<1> QED BY <1>1, <1>2, <1>3

LEMMA NextInv == IInv /\ [Next]_vars => IInv'
<1> SUFFICES ASSUME IInv, [Next]_vars PROVE IInv' OBVIOUS
<1>1. CASE Cycle BY <1>1, CyclePreserves
<1>2. CASE EepromAccess BY <1>2, EepromPreserves
<1>3. CASE Pulse BY <1>3, SearchPreserves, EndLinePreserves DEF Pulse
<1>4. CASE Begin \/ LoopEnds \/ Serialize \/ Unserialize BY <1>4, FrontendPreserves
<1>5. CASE UNCHANGED vars
  BY <1>5 DEF vars, IInv, TypeOK, Progress, Placed, OwnPixels
<1> QED BY <1>1, <1>2, <1>3, <1>4, <1>5 DEF Next

\* The invariant holds in every reachable state.
THEOREM Invariant == Spec => []IInv
<1> QED BY InitInv, NextInv, PTL DEF Spec
-----------------------------------------------------------------------------
\* The types hold, and scanline_count stays below Lines: write_io ends the frame there.
THEOREM TypeCorrect == Spec => []TypeOK
<1>1. IInv => TypeOK BY DEF IInv
<1> QED BY <1>1, Invariant, PTL

\* The buffer retro_run hands to video_cb was drawn by this call, every row once.
THEOREM FramesWhole == Spec => []WholeFrame
<1>1. IInv => WholeFrame BY DEF IInv, Progress, WholeFrame
<1> QED BY <1>1, Invariant, PTL

\* Regular lines are drawn from their own pixels, after a savestate too.
THEOREM PixelsOwn == Spec => []OwnPixels
<1>1. IInv => OwnPixels BY DEF IInv
<1> QED BY <1>1, Invariant, PTL
=============================================================================
