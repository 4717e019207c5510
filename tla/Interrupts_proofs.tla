-------------------------- MODULE Interrupts_proofs --------------------------
(***************************************************************************)
(* The stack in RAM holds what the program and the interrupts pushed, for  *)
(* every radix, RAM size, vector table and program that balances its       *)
(* stack; calls, returns and handlers implement an unbounded stack.        *)
(*                                                                         *)
(* The frames are described by Stacked, a relation between an address, a   *)
(* memory and a sequence: the lemmas about it mention no variable.         *)
(***************************************************************************)
EXTENDS Interrupts, SequenceTheorems, TLAPS

USE RadixAssumption, RamAssumption

-----------------------------------------------------------------------------
(* Bytes and words *)

\* The largest word is a number.
LEMMA TopType == Top \in Nat /\ Top >= 3
<1>1. Radix * Radix >= 2 * Radix BY SMT
<1>2. Radix * Radix \in Nat BY SMT
<1> QED BY <1>1, <1>2 DEF Top

\* Two bytes make a word ...
LEMMA JoinType ==
  ASSUME NEW hi \in Byte, NEW lo \in Byte PROVE Join(hi, lo) \in Word
<1>1. hi * Radix <= (Radix - 1) * Radix BY SMT DEF Byte
<1>2. (Radix - 1) * Radix = Radix * Radix - Radix BY SMT
<1>3. hi * Radix \in Nat /\ Radix * Radix \in Nat BY SMT DEF Byte
<1> QED BY <1>1, <1>2, <1>3 DEF Byte, Word, Join, Top

\* ... and a word splits into two bytes.
LEMMA HighLowType ==
  ASSUME NEW w \in Word PROVE High(w) \in Byte /\ Low(w) \in Byte
<1>1. w \in Nat /\ w < Radix * Radix BY TopType DEF Word, Top
<1>2. High(w) \in Int /\ Low(w) \in Byte BY <1>1, SMT DEF High, Low, Byte
<1>3. w = Radix * High(w) + Low(w) BY <1>1, SMT DEF High, Low
<1>4. High(w) >= 0 BY <1>1, SMT DEF High
<1>5. ASSUME High(w) >= Radix PROVE FALSE
  <2>1. Radix * High(w) >= Radix * Radix BY <1>2, <1>5, SMT
  <2> QED BY <2>1, <1>1, <1>2, <1>3, SMT DEF Byte
<1> QED BY <1>2, <1>4, <1>5 DEF Byte

\* The two bytes of a word make that word.
LEMMA JoinHighLow ==
  ASSUME NEW w \in Word PROVE Join(High(w), Low(w)) = w
<1>1. w \in Nat BY TopType DEF Word
<1>2. w = Radix * (w \div Radix) + (w % Radix) BY <1>1, SMT
<1>3. (w \div Radix) \in Int /\ w % Radix \in Int BY <1>1, SMT
<1> DEFINE q == w \div Radix
           r == w % Radix
<1>4. q \in Int /\ r \in Int /\ w = Radix * q + r BY <1>2, <1>3
<1>5. Join(High(w), Low(w)) = q * Radix + r BY DEF Join, High, Low
<1> HIDE DEF q, r
<1> QED BY <1>4, <1>5, SMT

\* The next word, modulo 2^16, is a word.
LEMMA NextWord ==
  ASSUME NEW w \in Nat PROVE w % (Top + 1) \in Word
<1> DEFINE T == Top + 1
<1>1. T \in Nat /\ T >= 1 BY TopType
<1> HIDE DEF T
<1>2. w % T \in 0 .. T - 1 BY <1>1, SMT
<1>3. T = Top + 1 BY DEF T
<1> QED BY <1>2, <1>3, TopType DEF Word
-----------------------------------------------------------------------------
(* SP *)

\* DEC_SP subtracts one from the 16 bit stack pointer ...
LEMMA DecAddress ==
  ASSUME NEW s \in Byte \X Byte, Address(s) >= 1
  PROVE  Dec(s) \in Byte \X Byte /\ Address(Dec(s)) = Address(s) - 1
<1> DEFINE h == s[1]
           l == s[2]
<1>1. h \in Byte /\ l \in Byte OBVIOUS
<1>2. h \in 0 .. Radix - 1 /\ l \in 0 .. Radix - 1 BY <1>1 DEF Byte
<1>3. Dec(s) = <<IF l = 0 THEN (h - 1) % Radix ELSE h, (l - 1) % Radix>> BY DEF Dec
<1>4. Address(s) = h * Radix + l BY DEF Address, Join
<1> HIDE DEF h, l
<1>5. CASE l = 0
  <2>1. h >= 1 BY <1>2, <1>4, <1>5, SMT
  <2>2. (h - 1) % Radix = h - 1 BY <1>2, <2>1, SMT
  <2>3. (l - 1) % Radix = Radix - 1 BY <1>5, SMT
  <2>4. Dec(s) = <<h - 1, Radix - 1>> BY <1>3, <1>5, <2>2, <2>3
  <2>5. (h - 1) * Radix + (Radix - 1) = h * Radix - 1 BY <1>2, SMT
  <2>6. Address(Dec(s)) = (h - 1) * Radix + (Radix - 1) BY <2>4 DEF Address, Join
  <2> QED BY <1>2, <1>4, <1>5, <2>1, <2>4, <2>5, <2>6 DEF Byte
<1>6. CASE l # 0
  <2>1. (l - 1) % Radix = l - 1 BY <1>2, <1>6, SMT
  <2>2. Dec(s) = <<h, l - 1>> BY <1>3, <1>6, <2>1
  <2>3. Address(Dec(s)) = h * Radix + (l - 1) BY <2>2 DEF Address, Join
  <2>4. h * Radix \in Int BY <1>2
  <2> QED BY <1>2, <1>4, <1>6, <2>2, <2>3, <2>4 DEF Byte
<1> QED BY <1>5, <1>6

\* ... and INC_SP adds one.
LEMMA IncAddress ==
  ASSUME NEW s \in Byte \X Byte, Address(s) < Top
  PROVE  Inc(s) \in Byte \X Byte /\ Address(Inc(s)) = Address(s) + 1
<1> DEFINE h == s[1]
           l == s[2]
<1>1. h \in Byte /\ l \in Byte OBVIOUS
<1>2. h \in 0 .. Radix - 1 /\ l \in 0 .. Radix - 1 BY <1>1 DEF Byte
<1>3. Inc(s) = <<IF l = Radix - 1 THEN (h + 1) % Radix ELSE h, (l + 1) % Radix>> BY DEF Inc
<1>4. Address(s) = h * Radix + l BY DEF Address, Join
<1>5. Top = Radix * Radix - 1 BY DEF Top
<1> HIDE DEF h, l
<1>6. CASE l = Radix - 1
  <2>1. h < Radix - 1
    <3>1. h = Radix - 1 => h * Radix = (Radix - 1) * Radix OBVIOUS
    <3>2. (Radix - 1) * Radix = Radix * Radix - Radix BY SMT
    <3>3. h * Radix \in Int /\ Radix * Radix \in Int BY <1>2
    <3>4. h * Radix + l < Radix * Radix - 1 BY <1>4, <1>5
    <3> QED BY <1>2, <1>6, <3>1, <3>2, <3>3, <3>4
  <2>2. (h + 1) % Radix = h + 1 BY <1>2, <2>1, SMT
  <2>3. (l + 1) % Radix = 0 BY <1>6, SMT
  <2>4. Inc(s) = <<h + 1, 0>> BY <1>3, <1>6, <2>2, <2>3
  <2>5. (h + 1) * Radix = h * Radix + Radix BY <1>2, SMT
  <2>6. Address(Inc(s)) = (h + 1) * Radix + 0 BY <2>4 DEF Address, Join
  <2>7. h * Radix \in Int BY <1>2
  <2> QED BY <1>2, <1>4, <1>6, <2>1, <2>4, <2>5, <2>6, <2>7 DEF Byte
<1>7. CASE l # Radix - 1
  <2>1. (l + 1) % Radix = l + 1 BY <1>2, <1>7, SMT
  <2>2. Inc(s) = <<h, l + 1>> BY <1>3, <1>7, <2>1
  <2>3. Address(Inc(s)) = h * Radix + (l + 1) BY <2>2 DEF Address, Join
  <2>4. h * Radix \in Int BY <1>2
  <2> QED BY <1>2, <1>4, <1>7, <2>2, <2>3, <2>4 DEF Byte
<1> QED BY <1>6, <1>7

\* SP is a word.
LEMMA AddressType ==
  ASSUME NEW s \in Byte \X Byte PROVE Address(s) \in Word
<1>1. s[1] \in Byte /\ s[2] \in Byte OBVIOUS
<1> QED BY <1>1, JoinType DEF Address

\* The bounds of RAM.
LEMMA RamBounds == /\ RamEnd \in Nat /\ RamEnd <= Top
                   /\ RamEnd = RamBase + RamSize - 1
                   /\ RamBase \in Nat /\ RamBase >= 1 /\ RamSize \in Nat /\ RamSize >= 2
BY TopType DEF RamEnd, Word

\* Inside RAM the index mask does nothing.
LEMMA SlotInRam ==
  ASSUME NEW s \in Byte \X Byte, RamBase <= Address(s), Address(s) <= RamEnd
  PROVE  Slot(s) = Address(s) - RamBase /\ Slot(s) \in 0 .. RamSize - 1
<1> DEFINE d == Address(s) - RamBase
<1>1. d \in 0 .. RamSize - 1 BY AddressType, TopType, RamBounds DEF Word
<1>2. Slot(s) = d % RamSize BY DEF Slot
<1> HIDE DEF d
<1>3. d % RamSize = d BY <1>1, SMT
<1> QED BY <1>1, <1>2, <1>3 DEF d
-----------------------------------------------------------------------------
(* Frames *)

\* A frame is as long as what was pushed.
LEMMA SizeType ==
  ASSUME NEW f \in Frame
  PROVE  /\ Size(f.kind) \in {1, 2} /\ End(f) \in Int /\ f.at \in Nat
         /\ End(f) = f.at - Size(f.kind)
BY TopType DEF Frame, Size, End, Word

\* All but the top frame.
LEMMA FrontType ==
  ASSUME NEW fs \in Seq(Frame), fs # <<>>
  PROVE  /\ Len(fs) \in Nat /\ Len(fs) >= 1
         /\ Front(fs) \in Seq(Frame) /\ Len(Front(fs)) = Len(fs) - 1
         /\ \A n \in 1 .. Len(fs) - 1 : Front(fs)[n] = fs[n]
         /\ Last(fs) = fs[Len(fs)] /\ Last(fs) \in Frame
<1> DEFINE k == Len(fs)
           gs == Front(fs)
<1>1. k \in Nat /\ k >= 1 BY EmptySeq
<1>2. Last(fs) = fs[k] /\ fs[k] \in Frame BY <1>1 DEF Last
<1>3. gs = SubSeq(fs, 1, k - 1) BY DEF Front
<1>4. \A i \in 1 .. k - 1 : fs[i] \in Frame BY <1>1
<1> HIDE DEF gs, k
<1>5. k - 1 \in Int BY <1>1
<1>6. /\ SubSeq(fs, 1, k - 1) \in Seq(Frame)
      /\ Len(SubSeq(fs, 1, k - 1)) = IF 1 <= k - 1 THEN (k - 1) - 1 + 1 ELSE 0
      /\ \A i \in 1 .. (k - 1) - 1 + 1 : SubSeq(fs, 1, k - 1)[i] = fs[1 + i - 1]
  BY <1>4, <1>5, SubSeqProperties
<1>7. gs \in Seq(Frame) /\ Len(gs) = k - 1 /\ \A n \in 1 .. k - 1 : gs[n] = fs[n]
  BY <1>1, <1>3, <1>6
<1> QED BY <1>1, <1>2, <1>7 DEF gs, k

\* What lies on the stack stays there when a frame is pushed below it.
LEMMA StackPush ==
  ASSUME NEW a \in Int, NEW m, NEW m2, NEW fs \in Seq(Frame), NEW f \in Frame,
         Stacked(a, m, fs), f.at = a, a <= RamEnd, a >= RamBase - 1,
         Holds(m2, f),
         \A i \in 0 .. RamSize - 1 : i > a - RamBase => m2[i] = m[i]
  PROVE  Stacked(End(f), m2, Append(fs, f))
<1> DEFINE gs == Append(fs, f)
           k == Len(fs)
<1>1. gs \in Seq(Frame) /\ Len(gs) = k + 1 /\ k \in Nat
      /\ gs[k + 1] = f /\ \A n \in 1 .. k : gs[n] = fs[n]
  BY AppendProperties
<1>2. \A n \in 1 .. k : /\ fs[n] \in Frame
                        /\ fs[n].at = Depth(fs, n - 1) /\ fs[n].at <= RamEnd
                        /\ a <= End(fs[n]) /\ Holds(m, fs[n])
  BY <1>1 DEF Stacked
<1>3. \A j, n \in 1 .. k : j < n => fs[n].at <= End(fs[j]) BY DEF Stacked
<1>4. a = Depth(fs, k) BY DEF Stacked
<1> HIDE DEF gs, k
<1>5. \A n \in 0 .. k : Depth(gs, n) = Depth(fs, n) BY <1>1 DEF Depth
<1>6. Depth(gs, k + 1) = End(f) /\ End(f) < a /\ End(f) \in Int
  BY <1>1, SizeType DEF Depth
<1>7. ASSUME NEW n \in 1 .. k PROVE Holds(m2, fs[n])
  <2>1. fs[n] \in Frame /\ fs[n].at <= RamEnd /\ a <= End(fs[n]) /\ Holds(m, fs[n]) BY <1>2
  <2>2. fs[n].at \in Nat /\ Size(fs[n].kind) \in {1, 2}
        /\ End(fs[n]) = fs[n].at - Size(fs[n].kind)
    BY <2>1, SizeType
  <2>3. CASE fs[n].kind = "byte"
    <3>1. fs[n].at - RamBase \in 0 .. RamSize - 1 /\ fs[n].at - RamBase > a - RamBase
      BY <2>1, <2>2, <2>3, RamBounds DEF Size
    <3>2. m2[fs[n].at - RamBase] = m[fs[n].at - RamBase] BY <3>1
    <3> QED BY <2>1, <2>3, <3>2 DEF Holds
  <2>4. CASE fs[n].kind # "byte"
    <3> DEFINE p == fs[n].at
    <3>0. p \in Nat /\ p <= RamEnd /\ a <= p - 2 BY <2>1, <2>2, <2>4 DEF Size
    <3> HIDE DEF p
    <3>1. p - RamBase \in 0 .. RamSize - 1 /\ p - RamBase > a - RamBase BY <3>0, RamBounds
    <3>2. p - 1 - RamBase \in 0 .. RamSize - 1 /\ p - 1 - RamBase > a - RamBase
      BY <3>0, RamBounds
    <3>3. m2[p - RamBase] = m[p - RamBase] /\ m2[p - 1 - RamBase] = m[p - 1 - RamBase]
      BY <3>1, <3>2
    <3> QED BY <2>1, <2>4, <3>3 DEF Holds, p
  <2> QED BY <2>3, <2>4
<1>8. ASSUME NEW n \in 1 .. k + 1
      PROVE  /\ gs[n].at = Depth(gs, n - 1) /\ gs[n].at <= RamEnd
             /\ End(f) <= End(gs[n]) /\ Holds(m2, gs[n])
  <2>1. CASE n = k + 1 BY <1>1, <1>4, <1>5, <1>6, <2>1
  <2>2. CASE n # k + 1
    <3>1. n \in 1 .. k /\ n - 1 \in 0 .. k BY <1>1, <2>2
    <3>2. End(fs[n]) \in Int BY <1>2, <3>1, SizeType
    <3> QED BY <1>1, <1>2, <1>5, <1>6, <1>7, <3>1, <3>2
  <2> QED BY <2>1, <2>2
<1>9. ASSUME NEW j \in 1 .. k + 1, NEW n \in 1 .. k + 1, j < n
      PROVE  gs[n].at <= End(gs[j])
  <2>1. j \in 1 .. k BY <1>1, <1>9
  <2>2. CASE n = k + 1 BY <1>1, <1>2, <2>1, <2>2
  <2>3. CASE n # k + 1
    <3>1. n \in 1 .. k BY <1>1, <2>3
    <3> QED BY <1>1, <1>3, <1>9, <2>1, <3>1
  <2> QED BY <2>2, <2>3
<1> QED BY <1>1, <1>6, <1>8, <1>9 DEF Stacked, gs

\* The frame on top is the one SP points below, and without it the others are
\* still stacked.
LEMMA StackPop ==
  ASSUME NEW a \in Int, NEW m, NEW fs \in Seq(Frame), Stacked(a, m, fs), fs # <<>>
  PROVE  /\ Front(fs) \in Seq(Frame) /\ Last(fs) \in Frame
         /\ a = End(Last(fs)) /\ Holds(m, Last(fs))
         /\ Last(fs).at <= RamEnd
         /\ Stacked(Last(fs).at, m, Front(fs))
<1> DEFINE k == Len(fs)
           gs == Front(fs)
<1>1. k \in Nat /\ k >= 1 BY FrontType
<1>2. gs \in Seq(Frame) /\ Len(gs) = k - 1 /\ \A n \in 1 .. k - 1 : gs[n] = fs[n]
  BY FrontType
<1>3. Last(fs) = fs[k] /\ fs[k] \in Frame BY FrontType
<1>4. \A n \in 1 .. k : /\ fs[n].at = Depth(fs, n - 1) /\ fs[n].at <= RamEnd
                        /\ a <= End(fs[n]) /\ Holds(m, fs[n])
  BY DEF Stacked
<1>5. \A j, n \in 1 .. k : j < n => fs[n].at <= End(fs[j]) BY DEF Stacked
<1>6. a = Depth(fs, k) BY DEF Stacked
<1> HIDE DEF k, gs
<1>7. \A n \in 0 .. k - 1 : Depth(gs, n) = Depth(fs, n) BY <1>1, <1>2 DEF Depth
<1>8. fs[k].at = Depth(gs, Len(gs)) BY <1>1, <1>2, <1>4, <1>7
<1>9. \A n \in 1 .. k - 1 : /\ gs[n].at = Depth(gs, n - 1) /\ gs[n].at <= RamEnd
                            /\ fs[k].at <= End(gs[n]) /\ Holds(m, gs[n])
  BY <1>1, <1>2, <1>4, <1>5, <1>7
<1>10. \A j, n \in 1 .. k - 1 : j < n => gs[n].at <= End(gs[j])
  <2>1. 1 .. k - 1 \subseteq 1 .. k BY <1>1
  <2> QED BY <2>1, <1>2, <1>5
<1>11. Stacked(fs[k].at, m, gs) BY <1>2, <1>8, <1>9, <1>10 DEF Stacked
<1>12. a = End(fs[k]) BY <1>1, <1>6 DEF Depth
<1>13. fs[k].at <= RamEnd /\ Holds(m, fs[k]) BY <1>1, <1>4
<1> QED BY <1>2, <1>3, <1>11, <1>12, <1>13 DEF gs

\* Marking handlers as open moves no frame.
LEMMA OpenedStack ==
  ASSUME NEW fs \in Seq(Frame)
  PROVE  /\ Opened(fs) \in Seq(Frame) /\ Len(Opened(fs)) = Len(fs)
         /\ \A n \in 1 .. Len(fs) : Opened(fs)[n].open
         /\ Stripped(Opened(fs)) = Stripped(fs)
         /\ \A a, m : Stacked(a, m, fs) => Stacked(a, m, Opened(fs))
<1> DEFINE gs == Opened(fs)
           k == Len(fs)
<1>1. k \in Nat /\ DOMAIN fs = 1 .. k OBVIOUS
<1>2. DOMAIN gs = 1 .. k
      /\ \A n \in 1 .. k : gs[n] = [fs[n] EXCEPT !.open = TRUE]
  BY <1>1 DEF Opened
<1>3. \A n \in 1 .. k : fs[n] \in Frame OBVIOUS
<1>4. \A n \in 1 .. k : /\ gs[n] \in Frame /\ gs[n].open
                        /\ gs[n].kind = fs[n].kind /\ gs[n].value = fs[n].value
                        /\ gs[n].at = fs[n].at
  BY <1>2, <1>3 DEF Frame
<1>5. gs = [n \in 1 .. k |-> gs[n]] BY <1>1, <1>2 DEF Opened
<1>6. gs \in Seq(Frame) /\ Len(gs) = k
  BY <1>1, <1>4, <1>5, SeqDef
<1>7. Stripped(gs) = Stripped(fs)
  BY <1>1, <1>2, <1>4 DEF Stripped
<1>8. \A n \in 1 .. k : End(gs[n]) = End(fs[n]) BY <1>4 DEF End
<1>9. \A n \in 0 .. k : Depth(gs, n) = Depth(fs, n) BY <1>1, <1>8 DEF Depth
<1>10. \A n \in 1 .. k : \A m : Holds(m, fs[n]) => Holds(m, gs[n]) BY <1>4 DEF Holds
<1> HIDE DEF gs, k
<1>11. ASSUME NEW a, NEW m, Stacked(a, m, fs) PROVE Stacked(a, m, gs)
  <2>1. a = Depth(gs, Len(gs)) BY <1>1, <1>6, <1>9, <1>11 DEF Stacked, k
  <2>2. \A n \in 1 .. k : /\ gs[n].at = Depth(gs, n - 1) /\ gs[n].at <= RamEnd
                          /\ a <= End(gs[n]) /\ Holds(m, gs[n])
    BY <1>1, <1>4, <1>8, <1>9, <1>10, <1>11 DEF Stacked, k
  <2>3. \A j, n \in 1 .. k : j < n => gs[n].at <= End(gs[j])
    BY <1>4, <1>8, <1>11 DEF Stacked, k
  <2> QED BY <1>6, <2>1, <2>2, <2>3 DEF Stacked
<1> QED BY <1>4, <1>6, <1>7, <1>11 DEF gs, k

\* A word is pushed (CALL, trigger_interrupt) ...
LEMMA PushWordStack ==
  ASSUME NEW s \in Byte \X Byte, NEW m \in [0 .. RamSize - 1 -> Byte],
         NEW fs \in Seq(Frame), NEW w \in Word, NEW k \in {"call", "irq"},
         Stacked(Address(s), m, fs), Address(s) <= RamEnd,
         RamEnd - Address(s) + 2 <= RamSize
  PROVE  LET f  == [kind |-> k, value |-> w, at |-> Address(s), open |-> FALSE]
             m2 == [[m EXCEPT ![Slot(s)] = Low(w)] EXCEPT ![Slot(Dec(s))] = High(w)]
         IN  /\ f \in Frame /\ Append(fs, f) \in Seq(Frame)
             /\ m2 \in [0 .. RamSize - 1 -> Byte]
             /\ Dec(Dec(s)) \in Byte \X Byte /\ Address(Dec(Dec(s))) = Address(s) - 2
             /\ Stacked(Address(Dec(Dec(s))), m2, Append(fs, f))
<1> DEFINE a  == Address(s)
           f  == [kind |-> k, value |-> w, at |-> a, open |-> FALSE]
           m2 == [[m EXCEPT ![Slot(s)] = Low(w)] EXCEPT ![Slot(Dec(s))] = High(w)]
<1>1. a \in Word /\ a \in Nat BY AddressType, TopType DEF Word
<1>2. a >= RamBase + 1 /\ a <= RamEnd BY <1>1, RamBounds
<1>3. Dec(s) \in Byte \X Byte /\ Address(Dec(s)) = a - 1
  BY <1>1, <1>2, RamBounds, DecAddress
<1>4. Dec(Dec(s)) \in Byte \X Byte /\ Address(Dec(Dec(s))) = a - 2
  <2>1. Address(Dec(s)) >= 1 BY <1>1, <1>2, <1>3, RamBounds
  <2>2. Address(Dec(Dec(s))) = Address(Dec(s)) - 1 /\ Dec(Dec(s)) \in Byte \X Byte
    BY <1>3, <2>1, DecAddress
  <2> QED BY <1>1, <1>3, <2>2
<1>5. Slot(s) = a - RamBase /\ Slot(s) \in 0 .. RamSize - 1
  BY <1>1, <1>2, RamBounds, SlotInRam
<1>6. Slot(Dec(s)) = a - 1 - RamBase /\ Slot(Dec(s)) \in 0 .. RamSize - 1
  <2>1. RamBase <= Address(Dec(s)) /\ Address(Dec(s)) <= RamEnd
    BY <1>1, <1>2, <1>3, RamBounds
  <2> QED BY <1>3, <2>1, SlotInRam
<1>7. Low(w) \in Byte /\ High(w) \in Byte BY HighLowType
<1>8. /\ m2 \in [0 .. RamSize - 1 -> Byte]
      /\ m2[a - 1 - RamBase] = High(w) /\ m2[a - RamBase] = Low(w)
      /\ \A i \in 0 .. RamSize - 1 : i > a - RamBase => m2[i] = m[i]
  <2>1. a - 1 - RamBase # a - RamBase BY <1>1, RamBounds
  <2>2. \A i \in 0 .. RamSize - 1 : i > a - RamBase => i # a - 1 - RamBase BY <1>1, RamBounds
  <2> QED BY <1>5, <1>6, <1>7, <2>1, <2>2
<1>9. f \in Frame BY <1>1 DEF Frame
<1> HIDE DEF m2
<1>10. f.at = a /\ f.kind # "byte" /\ f.value = w /\ End(f) = a - 2 BY DEF End, Size
<1> HIDE DEF f
<1>11. Holds(m2, f) BY <1>8, <1>10, JoinHighLow DEF Holds
<1>12. a >= RamBase - 1 /\ a \in Int BY <1>1, <1>2, RamBounds
<1>13. Stacked(End(f), m2, Append(fs, f))
  BY <1>2, <1>8, <1>9, <1>10, <1>11, <1>12, StackPush
<1>14. Append(fs, f) \in Seq(Frame) BY <1>9, AppendProperties
<1> QED BY <1>4, <1>8, <1>9, <1>10, <1>13, <1>14 DEF f, m2

\* ... and a byte (PUSH).
LEMMA PushByteStack ==
  ASSUME NEW s \in Byte \X Byte, NEW m \in [0 .. RamSize - 1 -> Byte],
         NEW fs \in Seq(Frame), NEW v \in Byte,
         Stacked(Address(s), m, fs), Address(s) <= RamEnd,
         RamEnd - Address(s) + 1 <= RamSize
  PROVE  LET f  == [kind |-> "byte", value |-> v, at |-> Address(s), open |-> FALSE]
             m2 == [m EXCEPT ![Slot(s)] = v]
         IN  /\ f \in Frame /\ Append(fs, f) \in Seq(Frame)
             /\ m2 \in [0 .. RamSize - 1 -> Byte]
             /\ Dec(s) \in Byte \X Byte /\ Address(Dec(s)) = Address(s) - 1
             /\ Stacked(Address(Dec(s)), m2, Append(fs, f))
<1> DEFINE a  == Address(s)
           f  == [kind |-> "byte", value |-> v, at |-> a, open |-> FALSE]
           m2 == [m EXCEPT ![Slot(s)] = v]
<1>1. a \in Word /\ a \in Nat BY AddressType, TopType DEF Word
<1>2. a >= RamBase /\ a <= RamEnd BY <1>1, RamBounds
<1>3. Dec(s) \in Byte \X Byte /\ Address(Dec(s)) = a - 1
  BY <1>1, <1>2, RamBounds, DecAddress
<1>4. Slot(s) = a - RamBase /\ Slot(s) \in 0 .. RamSize - 1
  BY <1>1, <1>2, RamBounds, SlotInRam
<1>5. /\ m2 \in [0 .. RamSize - 1 -> Byte]
      /\ m2[a - RamBase] = v
      /\ \A i \in 0 .. RamSize - 1 : i > a - RamBase => m2[i] = m[i]
  BY <1>4, <1>1, RamBounds
<1>6. v \in Word
  <2>1. 0 \in Byte BY DEF Byte
  <2>2. Join(0, v) \in Word BY <2>1, JoinType
  <2>3. Join(0, v) = v BY DEF Join, Byte
  <2> QED BY <2>2, <2>3
<1>7. f \in Frame BY <1>1, <1>6 DEF Frame
<1> HIDE DEF m2
<1>8. f.at = a /\ f.kind = "byte" /\ f.value = v /\ End(f) = a - 1 BY DEF End, Size
<1> HIDE DEF f
<1>9. Holds(m2, f) BY <1>5, <1>8 DEF Holds
<1>10. a >= RamBase - 1 /\ a \in Int BY <1>1, <1>2, RamBounds
<1>11. Stacked(End(f), m2, Append(fs, f))
  BY <1>2, <1>5, <1>7, <1>8, <1>9, <1>10, StackPush
<1>12. Append(fs, f) \in Seq(Frame) BY <1>7, AppendProperties
<1> QED BY <1>3, <1>5, <1>7, <1>8, <1>11, <1>12 DEF f, m2

\* RET and RETI read the word of the frame on top ...
LEMMA PopWordStack ==
  ASSUME NEW s \in Byte \X Byte, NEW m \in [0 .. RamSize - 1 -> Byte],
         NEW fs \in Seq(Frame), fs # <<>>, Last(fs).kind \in {"call", "irq"},
         Stacked(Address(s), m, fs), RamEnd - Address(s) <= RamSize
  PROVE  /\ Front(fs) \in Seq(Frame) /\ Last(fs) \in Frame
         /\ Join(m[Slot(Inc(s))], m[Slot(Inc(Inc(s)))]) = Last(fs).value
         /\ Inc(Inc(s)) \in Byte \X Byte
         /\ Address(Inc(Inc(s))) = Address(s) + 2 /\ Address(s) + 2 <= RamEnd
         /\ Stacked(Address(Inc(Inc(s))), m, Front(fs))
<1> DEFINE a == Address(s)
           f == Last(fs)
<1>1. a \in Word /\ a \in Nat BY AddressType, TopType DEF Word
<1> HIDE DEF a
<1>2. /\ Front(fs) \in Seq(Frame) /\ f \in Frame /\ a = End(f) /\ Holds(m, f)
      /\ f.at <= RamEnd /\ Stacked(f.at, m, Front(fs))
  BY <1>1, StackPop DEF a
<1>3. f.kind # "byte" OBVIOUS
<1> HIDE DEF f
<1>4. f.at = a + 2 /\ f.at \in Nat BY <1>1, <1>2, <1>3, SizeType DEF Size
<1>5. a >= RamBase - 1 /\ a + 2 <= RamEnd BY <1>1, <1>2, <1>4, RamBounds DEF a
<1>6. Inc(s) \in Byte \X Byte /\ Address(Inc(s)) = a + 1
  <2>1. a < Top BY <1>1, <1>5, RamBounds, TopType
  <2> QED BY <2>1, IncAddress DEF a
<1>7. Inc(Inc(s)) \in Byte \X Byte /\ Address(Inc(Inc(s))) = a + 2
  <2>1. Address(Inc(s)) < Top BY <1>1, <1>5, <1>6, RamBounds, TopType
  <2>2. Address(Inc(Inc(s))) = Address(Inc(s)) + 1 /\ Inc(Inc(s)) \in Byte \X Byte
    BY <1>6, <2>1, IncAddress
  <2> QED BY <1>1, <1>6, <2>2
<1>8. Slot(Inc(s)) = a + 1 - RamBase
  <2>1. RamBase <= Address(Inc(s)) /\ Address(Inc(s)) <= RamEnd BY <1>1, <1>5, <1>6, RamBounds
  <2>2. Slot(Inc(s)) = Address(Inc(s)) - RamBase /\ Slot(Inc(s)) \in 0 .. RamSize - 1
    BY <1>6, <2>1, SlotInRam
  <2>3. Address(Inc(s)) - RamBase = (a + 1) - RamBase BY <1>6
  <2>4. (a + 1) - RamBase = a + 1 - RamBase BY <1>1, RamBounds
  <2> QED BY <2>2, <2>3, <2>4
<1>9. Slot(Inc(Inc(s))) = a + 2 - RamBase
  <2>1. RamBase <= Address(Inc(Inc(s))) /\ Address(Inc(Inc(s))) <= RamEnd
    BY <1>1, <1>5, <1>7, RamBounds
  <2>2. Slot(Inc(Inc(s))) = Address(Inc(Inc(s))) - RamBase BY <1>7, <2>1, SlotInRam
  <2>3. Address(Inc(Inc(s))) - RamBase = (a + 2) - RamBase BY <1>7
  <2>4. (a + 2) - RamBase = a + 2 - RamBase BY <1>1, RamBounds
  <2> QED BY <2>2, <2>3, <2>4
<1>10. Join(m[a + 1 - RamBase], m[a + 2 - RamBase]) = f.value
  <2>1. f.at - 1 - RamBase = a + 1 - RamBase /\ f.at - RamBase = a + 2 - RamBase
    BY <1>1, <1>4, RamBounds
  <2> QED BY <1>2, <1>3, <2>1 DEF Holds
<1> QED BY <1>2, <1>4, <1>5, <1>7, <1>8, <1>9, <1>10 DEF a, f

\* ... and POP the byte.
LEMMA PopByteStack ==
  ASSUME NEW s \in Byte \X Byte, NEW m \in [0 .. RamSize - 1 -> Byte],
         NEW fs \in Seq(Frame), fs # <<>>, Last(fs).kind = "byte",
         Stacked(Address(s), m, fs), RamEnd - Address(s) <= RamSize
  PROVE  /\ Front(fs) \in Seq(Frame) /\ Last(fs) \in Frame
         /\ m[Slot(Inc(s))] = Last(fs).value /\ Slot(Inc(s)) \in 0 .. RamSize - 1
         /\ Inc(s) \in Byte \X Byte
         /\ Address(Inc(s)) = Address(s) + 1 /\ Address(s) + 1 <= RamEnd
         /\ Stacked(Address(Inc(s)), m, Front(fs))
<1> DEFINE a == Address(s)
           f == Last(fs)
<1>1. a \in Word /\ a \in Nat BY AddressType, TopType DEF Word
<1> HIDE DEF a
<1>2. /\ Front(fs) \in Seq(Frame) /\ f \in Frame /\ a = End(f) /\ Holds(m, f)
      /\ f.at <= RamEnd /\ Stacked(f.at, m, Front(fs))
  BY <1>1, StackPop DEF a
<1>3. f.kind = "byte" OBVIOUS
<1> HIDE DEF f
<1>4. f.at = a + 1 /\ f.at \in Nat BY <1>1, <1>2, <1>3, SizeType DEF Size
<1>5. a >= RamBase - 1 /\ a + 1 <= RamEnd BY <1>1, <1>2, <1>4, RamBounds DEF a
<1>6. Inc(s) \in Byte \X Byte /\ Address(Inc(s)) = a + 1
  <2>1. a < Top BY <1>1, <1>5, RamBounds, TopType
  <2> QED BY <2>1, IncAddress DEF a
<1>7. Slot(Inc(s)) = a + 1 - RamBase /\ Slot(Inc(s)) \in 0 .. RamSize - 1
  <2>1. RamBase <= Address(Inc(s)) /\ Address(Inc(s)) <= RamEnd BY <1>1, <1>5, <1>6, RamBounds
  <2>2. Slot(Inc(s)) = Address(Inc(s)) - RamBase /\ Slot(Inc(s)) \in 0 .. RamSize - 1
    BY <1>6, <2>1, SlotInRam
  <2>3. Address(Inc(s)) - RamBase = (a + 1) - RamBase BY <1>6
  <2>4. (a + 1) - RamBase = a + 1 - RamBase BY <1>1, RamBounds
  <2> QED BY <2>2, <2>3, <2>4
<1>8. m[a + 1 - RamBase] = f.value
  <2>1. m[f.at - RamBase] = f.value BY <1>2, <1>3 DEF Holds
  <2>2. f.at - RamBase = a + 1 - RamBase BY <1>1, <1>4, RamBounds
  <2> QED BY <2>1, <2>2
<1> QED BY <1>2, <1>4, <1>5, <1>6, <1>7, <1>8 DEF a, f
-----------------------------------------------------------------------------
(* Nesting of handlers *)

\* Calls and bytes do not count.
LEMMA NestedAppend ==
  ASSUME NEW fs \in Seq(Frame), NEW f \in Frame, NEW i \in BOOLEAN,
         Nested(i, fs), ~ Irq(f)
  PROVE  Nested(i, Append(fs, f))
<1> DEFINE gs == Append(fs, f)
           k == Len(fs)
<1>1. Len(gs) = k + 1 /\ k \in Nat /\ gs[k + 1] = f /\ \A n \in 1 .. k : gs[n] = fs[n]
  BY AppendProperties
<1>2. /\ i => \A n \in 1 .. k : Irq(fs[n]) => fs[n].open
      /\ \A j, n \in 1 .. k : j < n /\ Irq(fs[j]) /\ Irq(fs[n]) => fs[j].open
  BY DEF Nested
<1> HIDE DEF gs, k
<1>3. \A n \in 1 .. k + 1 : Irq(gs[n]) => n \in 1 .. k /\ gs[n] = fs[n] BY <1>1
<1> QED BY <1>1, <1>2, <1>3 DEF Nested, gs

\* The interrupt that disables interrupts finds every other handler open.
LEMMA NestedIrq ==
  ASSUME NEW fs \in Seq(Frame), NEW f \in Frame, Nested(TRUE, fs)
  PROVE  Nested(FALSE, Append(fs, f))
<1> DEFINE gs == Append(fs, f)
           k == Len(fs)
<1>1. Len(gs) = k + 1 /\ k \in Nat /\ gs[k + 1] = f /\ \A n \in 1 .. k : gs[n] = fs[n]
  BY AppendProperties
<1>2. \A n \in 1 .. k : Irq(fs[n]) => fs[n].open BY DEF Nested
<1> HIDE DEF gs, k
<1>3. \A j, n \in 1 .. k + 1 : j < n => j \in 1 .. k BY <1>1
<1> QED BY <1>1, <1>2, <1>3 DEF Nested, gs

\* A handler that returns leaves the others as they were.
LEMMA NestedFront ==
  ASSUME NEW fs \in Seq(Frame), fs # <<>>, NEW i \in BOOLEAN, Nested(i, fs)
  PROVE  Nested(i, Front(fs))
<1> DEFINE gs == Front(fs)
           k == Len(fs)
<1>1. k \in Nat /\ Len(gs) = k - 1 /\ \A n \in 1 .. k - 1 : gs[n] = fs[n] BY FrontType
<1>2. /\ i => \A n \in 1 .. k : Irq(fs[n]) => fs[n].open
      /\ \A j, n \in 1 .. k : j < n /\ Irq(fs[j]) /\ Irq(fs[n]) => fs[j].open
  BY DEF Nested
<1> HIDE DEF gs, k
<1>3. \A n \in 1 .. k - 1 : n \in 1 .. k BY <1>1
<1> QED BY <1>1, <1>2, <1>3 DEF Nested, gs
-----------------------------------------------------------------------------
(* The inductive invariant *)

\* What the steps on the stack preserve, of a stack pointer, a memory, the
\* interrupt flag and the frames.
Safe(s, m, i, fs) ==
  /\ s \in Byte \X Byte /\ m \in [0 .. RamSize - 1 -> Byte]
  /\ i \in BOOLEAN /\ fs \in Seq(Frame)
  /\ RamEnd - Address(s) >= 0 /\ RamEnd - Address(s) + Reserve(i) <= RamSize
  /\ Stacked(Address(s), m, fs)
  /\ Nested(i, fs)

IInv ==
  /\ Safe(SP, sram, I, frames)
  /\ pc \in Word /\ raised \subseteq Sources /\ enabled \subseteq Sources
  /\ popped \in Byte /\ phase \in {"exec", "done"}

\* It is the four invariants of the runs taken together.
LEMMA IInvMeans == IInv <=> TypeOK /\ StackInRam /\ StackHolds /\ NoPreemption
BY DEF IInv, Safe, TypeOK, StackInRam, StackHolds, NoPreemption, Used

\* CALL pushes what it returns to; ...
LEMMA SafeCall ==
  ASSUME NEW s, NEW m, NEW i, NEW fs, NEW w \in Word, Safe(s, m, i, fs),
         RamEnd - Address(s) + 2 + Reserve(i) <= RamSize
  PROVE  Safe(Dec(Dec(s)), [[m EXCEPT ![Slot(s)] = Low(w)] EXCEPT ![Slot(Dec(s))] = High(w)],
              i, Append(fs, [kind |-> "call", value |-> w, at |-> Address(s), open |-> FALSE]))
<1> DEFINE f  == [kind |-> "call", value |-> w, at |-> Address(s), open |-> FALSE]
           m2 == [[m EXCEPT ![Slot(s)] = Low(w)] EXCEPT ![Slot(Dec(s))] = High(w)]
           d  == Dec(Dec(s))
<1>1. Address(s) \in Nat /\ Reserve(i) \in {0, 2}
  BY AddressType, TopType DEF Safe, Word, Reserve
<1>2. Address(s) <= RamEnd /\ RamEnd - Address(s) + 2 <= RamSize
  BY <1>1, RamBounds DEF Safe
<1>3. /\ f \in Frame /\ Append(fs, f) \in Seq(Frame) /\ m2 \in [0 .. RamSize - 1 -> Byte]
      /\ d \in Byte \X Byte /\ Address(d) = Address(s) - 2
      /\ Stacked(Address(d), m2, Append(fs, f))
  BY <1>2, PushWordStack DEF Safe
<1>4. ~ Irq(f) BY DEF Irq
<1> HIDE DEF f, m2, d
<1>5. Nested(i, Append(fs, f)) BY <1>3, <1>4, NestedAppend DEF Safe
<1>6. RamEnd - Address(d) >= 0 /\ RamEnd - Address(d) + Reserve(i) <= RamSize
  BY <1>1, <1>2, <1>3, RamBounds
<1> QED BY <1>3, <1>5, <1>6 DEF Safe, f, m2, d

\* ... trigger_interrupt, what it interrupts; ...
LEMMA SafeIrq ==
  ASSUME NEW s, NEW m, NEW fs, NEW w \in Word, Safe(s, m, TRUE, fs)
  PROVE  Safe(Dec(Dec(s)), [[m EXCEPT ![Slot(s)] = Low(w)] EXCEPT ![Slot(Dec(s))] = High(w)],
              FALSE, Append(fs, [kind |-> "irq", value |-> w, at |-> Address(s), open |-> FALSE]))
<1> DEFINE f  == [kind |-> "irq", value |-> w, at |-> Address(s), open |-> FALSE]
           m2 == [[m EXCEPT ![Slot(s)] = Low(w)] EXCEPT ![Slot(Dec(s))] = High(w)]
           d  == Dec(Dec(s))
<1>1. Address(s) \in Nat BY AddressType, TopType DEF Safe, Word
<1>2. Address(s) <= RamEnd /\ RamEnd - Address(s) + 2 <= RamSize
  <2>1. RamEnd - Address(s) >= 0 /\ RamEnd - Address(s) + 2 <= RamSize BY DEF Safe, Reserve
  <2> QED BY <1>1, <2>1, RamBounds
<1>3. /\ f \in Frame /\ Append(fs, f) \in Seq(Frame) /\ m2 \in [0 .. RamSize - 1 -> Byte]
      /\ d \in Byte \X Byte /\ Address(d) = Address(s) - 2
      /\ Stacked(Address(d), m2, Append(fs, f))
  BY <1>2, PushWordStack DEF Safe
<1> HIDE DEF f, m2, d
<1>4. Nested(FALSE, Append(fs, f)) BY <1>3, NestedIrq DEF Safe
<1>5. RamEnd - Address(d) >= 0 /\ RamEnd - Address(d) + Reserve(FALSE) <= RamSize
  BY <1>1, <1>2, <1>3, RamBounds DEF Reserve
<1> QED BY <1>3, <1>4, <1>5 DEF Safe, f, m2, d

\* ... and PUSH a register.
LEMMA SafePush ==
  ASSUME NEW s, NEW m, NEW i, NEW fs, NEW v \in Byte, Safe(s, m, i, fs),
         RamEnd - Address(s) + 1 + Reserve(i) <= RamSize
  PROVE  Safe(Dec(s), [m EXCEPT ![Slot(s)] = v], i,
              Append(fs, [kind |-> "byte", value |-> v, at |-> Address(s), open |-> FALSE]))
<1> DEFINE f  == [kind |-> "byte", value |-> v, at |-> Address(s), open |-> FALSE]
           m2 == [m EXCEPT ![Slot(s)] = v]
           d  == Dec(s)
<1>1. Address(s) \in Nat /\ Reserve(i) \in {0, 2}
  BY AddressType, TopType DEF Safe, Word, Reserve
<1>2. Address(s) <= RamEnd /\ RamEnd - Address(s) + 1 <= RamSize
  BY <1>1, RamBounds DEF Safe
<1>3. /\ f \in Frame /\ Append(fs, f) \in Seq(Frame) /\ m2 \in [0 .. RamSize - 1 -> Byte]
      /\ d \in Byte \X Byte /\ Address(d) = Address(s) - 1
      /\ Stacked(Address(d), m2, Append(fs, f))
  BY <1>2, PushByteStack DEF Safe
<1>4. ~ Irq(f) BY DEF Irq
<1> HIDE DEF f, m2, d
<1>5. Nested(i, Append(fs, f)) BY <1>3, <1>4, NestedAppend DEF Safe
<1>6. RamEnd - Address(d) >= 0 /\ RamEnd - Address(d) + Reserve(i) <= RamSize
  BY <1>1, <1>2, <1>3, RamBounds
<1> QED BY <1>3, <1>5, <1>6 DEF Safe, f, m2, d

\* RET takes the top frame off and returns to its value; ...
LEMMA SafeRet ==
  ASSUME NEW s, NEW m, NEW i, NEW fs, Safe(s, m, i, fs),
         fs # <<>>, Last(fs).kind \in {"call", "irq"}
  PROVE  /\ Safe(Inc(Inc(s)), m, i, Front(fs))
         /\ RamEnd - Address(Inc(Inc(s))) + 2 <= RamSize
         /\ Join(m[Slot(Inc(s))], m[Slot(Inc(Inc(s)))]) = Last(fs).value
         /\ Last(fs) \in Frame
<1> DEFINE d == Inc(Inc(s))
<1>1. Address(s) \in Nat /\ Reserve(i) \in {0, 2}
  BY AddressType, TopType DEF Safe, Word, Reserve
<1>2. RamEnd - Address(s) <= RamSize BY <1>1, RamBounds DEF Safe
<1>3. /\ Front(fs) \in Seq(Frame) /\ Last(fs) \in Frame
      /\ Join(m[Slot(Inc(s))], m[Slot(Inc(Inc(s)))]) = Last(fs).value
      /\ d \in Byte \X Byte /\ Address(d) = Address(s) + 2 /\ Address(s) + 2 <= RamEnd
      /\ Stacked(Address(d), m, Front(fs))
  BY <1>2, PopWordStack DEF Safe
<1>4. Nested(i, Front(fs)) BY NestedFront DEF Safe
<1> HIDE DEF d
<1>5. /\ RamEnd - Address(d) >= 0 /\ RamEnd - Address(d) + 2 <= RamSize
      /\ RamEnd - Address(d) + Reserve(i) <= RamSize
  BY <1>1, <1>2, <1>3, RamBounds
<1> QED BY <1>3, <1>4, <1>5 DEF Safe, d

\* ... POP, and reads its value.
LEMMA SafePop ==
  ASSUME NEW s, NEW m, NEW i, NEW fs, Safe(s, m, i, fs),
         fs # <<>>, Last(fs).kind = "byte"
  PROVE  /\ Safe(Inc(s), m, i, Front(fs))
         /\ m[Slot(Inc(s))] = Last(fs).value /\ m[Slot(Inc(s))] \in Byte
<1> DEFINE d == Inc(s)
<1>1. Address(s) \in Nat /\ Reserve(i) \in {0, 2}
  BY AddressType, TopType DEF Safe, Word, Reserve
<1>2. RamEnd - Address(s) <= RamSize /\ RamEnd - Address(s) + Reserve(i) <= RamSize
  BY <1>1, RamBounds DEF Safe
<1>3. /\ Front(fs) \in Seq(Frame)
      /\ m[Slot(Inc(s))] = Last(fs).value /\ Slot(Inc(s)) \in 0 .. RamSize - 1
      /\ d \in Byte \X Byte /\ Address(d) = Address(s) + 1 /\ Address(s) + 1 <= RamEnd
      /\ Stacked(Address(d), m, Front(fs))
  BY <1>2, PopByteStack DEF Safe
<1>4. m[Slot(Inc(s))] \in Byte BY <1>3 DEF Safe
<1>5. Nested(i, Front(fs)) BY NestedFront DEF Safe
<1> HIDE DEF d
<1>6. RamEnd - Address(d) >= 0 /\ RamEnd - Address(d) + Reserve(i) <= RamSize
  BY <1>1, <1>2, <1>3, RamBounds
<1> QED BY <1>3, <1>4, <1>5, <1>6 DEF Safe, d

\* Interrupts may be enabled where one has room, ...
LEMMA SafeEnable ==
  ASSUME NEW s, NEW m, NEW i, NEW fs, Safe(s, m, i, fs),
         RamEnd - Address(s) + 2 <= RamSize
  PROVE  Safe(s, m, TRUE, Opened(fs))
<1>1. Stacked(Address(s), m, Opened(fs)) BY OpenedStack DEF Safe
<1>2. Nested(TRUE, Opened(fs))
  <2>1. Len(Opened(fs)) = Len(fs) /\ \A n \in 1 .. Len(fs) : Opened(fs)[n].open
    BY OpenedStack DEF Safe
  <2> QED BY <2>1 DEF Nested
<1>3. Opened(fs) \in Seq(Frame) BY OpenedStack DEF Safe
<1> QED BY <1>1, <1>2, <1>3 DEF Safe, Reserve

\* ... and disabled anywhere.
LEMMA SafeDisable ==
  ASSUME NEW s, NEW m, NEW i, NEW fs, Safe(s, m, i, fs)
  PROVE  Safe(s, m, FALSE, fs)
<1>1. Nested(FALSE, fs) BY DEF Safe, Nested
<1>2. Address(s) \in Nat BY AddressType, TopType DEF Safe, Word
<1>3. RamEnd - Address(s) + Reserve(FALSE) <= RamSize BY <1>2, RamBounds DEF Safe, Reserve
<1> QED BY <1>1, <1>3 DEF Safe
-----------------------------------------------------------------------------
(* Invariance *)

\* The address behind an instruction.
LEMMA AfterType ==
  ASSUME NEW length \in {1, 2}, pc \in Word PROVE After(length) \in Word
<1>1. pc + length \in Nat BY TopType DEF Word
<1> QED BY <1>1, NextWord DEF After

\* SP points to the last byte of RAM, and the stack is empty.
LEMMA InitIInv == Init => IInv
<1> SUFFICES ASSUME Init PROVE IInv OBVIOUS
<1>1. SP \in Byte \X Byte /\ Address(SP) = RamEnd
  <2>1. RamEnd \in Word BY DEF RamEnd
  <2> QED BY <2>1, HighLowType, JoinHighLow DEF Init, Address
<1>2. sram \in [0 .. RamSize - 1 -> Byte] BY DEF Init, Byte
<1>3. frames \in Seq(Frame) /\ Len(frames) = 0 BY DEF Init
<1>4. Stacked(Address(SP), sram, frames) BY <1>1, <1>3 DEF Stacked, Depth
<1>5. Nested(I, frames) BY <1>3 DEF Nested
<1>6. RamEnd - Address(SP) >= 0 /\ RamEnd - Address(SP) + Reserve(I) <= RamSize
  BY <1>1, RamBounds DEF Init, Reserve
<1>7. Safe(SP, sram, I, frames) BY <1>1, <1>2, <1>3, <1>4, <1>5, <1>6 DEF Init, Safe
<1>8. pc \in Word /\ popped \in Byte BY TopType DEF Init, Word, Byte
<1> QED BY <1>7, <1>8 DEF IInv, Init

\* CALL, RCALL and ICALL.
LEMMA CallIInv ==
  ASSUME IInv, NEW to \in Targets, NEW length \in {1, 2}, Call(to, length) PROVE IInv'
<1> DEFINE w == After(length)
<1>1. /\ Safe(SP, sram, I, frames)
      /\ pc \in Word /\ raised \subseteq Sources /\ enabled \subseteq Sources /\ popped \in Byte
  BY DEF IInv
<1>2. w \in Word BY <1>1, AfterType
<1> HIDE DEF w
<1>3. RamEnd - Address(SP) + 2 + Reserve(I) <= RamSize BY DEF Call, Room, Used
<1>4. Safe(SP', sram', I', frames')
  <2>1. /\ SP' = Dec(Dec(SP)) /\ I' = I
        /\ sram' = [[sram EXCEPT ![Slot(SP)] = Low(w)] EXCEPT ![Slot(Dec(SP))] = High(w)]
        /\ frames' = Append(frames, [kind |-> "call", value |-> w, at |-> Address(SP),
                                     open |-> FALSE])
    BY DEF Call, PushWord, Note, w
  <2> QED BY <1>1, <1>2, <1>3, <2>1, SafeCall
<1>5. pc' \in Word BY ProgramAssumption DEF Call
<1>6. phase' \in {"exec", "done"} BY DEF Call, Execute
<1> QED BY <1>1, <1>4, <1>5, <1>6 DEF IInv, Call

\* PUSH.
LEMMA PushIInv ==
  ASSUME IInv, NEW v \in Pushed, Push(v) PROVE IInv'
<1>1. /\ Safe(SP, sram, I, frames)
      /\ pc \in Word /\ raised \subseteq Sources /\ enabled \subseteq Sources /\ popped \in Byte
  BY DEF IInv
<1>2. v \in Byte BY ProgramAssumption
<1>3. RamEnd - Address(SP) + 1 + Reserve(I) <= RamSize BY DEF Push, Room, Used
<1>4. Safe(SP', sram', I', frames')
  <2>1. /\ SP' = Dec(SP) /\ I' = I
        /\ sram' = [sram EXCEPT ![Slot(SP)] = v]
        /\ frames' = Append(frames, [kind |-> "byte", value |-> v, at |-> Address(SP),
                                     open |-> FALSE])
    BY DEF Push, PushByteAt, Note
  <2> QED BY <1>1, <1>2, <1>3, <2>1, SafePush
<1>5. pc' \in Word BY <1>1, AfterType DEF Push
<1>6. phase' \in {"exec", "done"} BY DEF Push, Execute
<1> QED BY <1>1, <1>4, <1>5, <1>6 DEF IInv, Push

\* RET and RETI.
LEMMA RetIInv ==
  ASSUME IInv, Ret \/ Reti PROVE IInv'
<1>1. /\ Safe(SP, sram, I, frames)
      /\ pc \in Word /\ raised \subseteq Sources /\ enabled \subseteq Sources /\ popped \in Byte
  BY DEF IInv
<1>2. frames # <<>> /\ Last(frames).kind \in {"call", "irq"} BY DEF Ret, Reti, OnTop
<1>3. /\ Safe(Inc(Inc(SP)), sram, I, Front(frames))
      /\ RamEnd - Address(Inc(Inc(SP))) + 2 <= RamSize
      /\ TopWord = Last(frames).value /\ Last(frames) \in Frame
  BY <1>1, <1>2, SafeRet DEF TopWord
<1>4. Safe(SP', sram', I', frames')
  <2>1. CASE Ret BY <1>3, <2>1 DEF Ret
  <2>2. CASE Reti BY <1>3, <2>2, SafeEnable DEF Reti
  <2> QED BY <2>1, <2>2
<1>5. pc' \in Word BY <1>3 DEF Ret, Reti, Frame
<1>6. phase' \in {"exec", "done"} BY DEF Ret, Reti, Execute
<1> QED BY <1>1, <1>4, <1>5, <1>6 DEF IInv, Ret, Reti

\* POP.
LEMMA PopIInv ==
  ASSUME IInv, Pop PROVE IInv'
<1>1. /\ Safe(SP, sram, I, frames)
      /\ pc \in Word /\ raised \subseteq Sources /\ enabled \subseteq Sources
  BY DEF IInv
<1>2. frames # <<>> /\ Last(frames).kind = "byte" BY DEF Pop, OnTop
<1>3. Safe(Inc(SP), sram, I, Front(frames)) /\ TopByte \in Byte
  BY <1>1, <1>2, SafePop DEF TopByte
<1>4. Safe(SP', sram', I', frames') BY <1>3 DEF Pop
<1>5. pc' \in Word BY <1>1, AfterType DEF Pop
<1>6. phase' \in {"exec", "done"} BY DEF Pop, Execute
<1> QED BY <1>1, <1>3, <1>4, <1>5, <1>6 DEF IInv, Pop

\* The instructions that leave the memory alone.
LEMMA OthersIInv ==
  ASSUME IInv,
         \/ \E to \in Targets : Jump(to)
         \/ Sei \/ Cli
         \/ \E E \in Masks : Enable(E)
         \/ \E s \in Sources : Acknowledge(s)
  PROVE  IInv'
<1>1. /\ Safe(SP, sram, I, frames)
      /\ pc \in Word /\ raised \subseteq Sources /\ enabled \subseteq Sources /\ popped \in Byte
  BY DEF IInv
<1>2. After(1) \in Word BY <1>1, AfterType
<1>3. ASSUME NEW to \in Targets, Jump(to) PROVE IInv'
  <2>1. Safe(SP', sram', I', frames') BY <1>1, <1>3 DEF Jump, memory
  <2>2. pc' \in Word BY <1>3, ProgramAssumption DEF Jump
  <2> QED BY <1>1, <1>3, <2>1, <2>2 DEF IInv, Jump, Execute
<1>4. CASE Sei
  <2>1. RamEnd - Address(SP) + 2 <= RamSize BY <1>4 DEF Sei, Used, Reserve
  <2>2. Safe(SP', sram', I', frames') BY <1>1, <1>4, <2>1, SafeEnable DEF Sei
  <2> QED BY <1>1, <1>2, <1>4, <2>2 DEF IInv, Sei, Execute
<1>5. CASE Cli
  <2>1. Safe(SP', sram', I', frames') BY <1>1, <1>5, SafeDisable DEF Cli, memory
  <2> QED BY <1>1, <1>2, <1>5, <2>1 DEF IInv, Cli, Execute
<1>6. ASSUME NEW E \in Masks, Enable(E) PROVE IInv'
  <2>1. Safe(SP', sram', I', frames') BY <1>1, <1>6 DEF Enable, memory
  <2>2. E \subseteq Sources BY ProgramAssumption
  <2> QED BY <1>1, <1>2, <1>6, <2>1, <2>2 DEF IInv, Enable, Execute
<1>7. ASSUME NEW s \in Sources, Acknowledge(s) PROVE IInv'
  <2>1. Safe(SP', sram', I', frames') BY <1>1, <1>7 DEF Acknowledge, memory
  <2> QED BY <1>1, <1>2, <1>7, <2>1 DEF IInv, Acknowledge, Execute
<1> QED BY <1>3, <1>4, <1>5, <1>6, <1>7

\* An interrupt is dispatched, ...
LEMMA DispatchIInv ==
  ASSUME IInv, NEW s \in Sources, Dispatch(s) PROVE IInv'
<1>1. /\ Safe(SP, sram, I, frames)
      /\ pc \in Word /\ raised \subseteq Sources /\ enabled \subseteq Sources /\ popped \in Byte
  BY DEF IInv
<1>2. I = TRUE BY <1>1 DEF Dispatch, Safe
<1>3. /\ SP' = Dec(Dec(SP)) /\ I' = FALSE
      /\ sram' = [[sram EXCEPT ![Slot(SP)] = Low(pc)] EXCEPT ![Slot(Dec(SP))] = High(pc)]
      /\ frames' = Append(frames, [kind |-> "irq", value |-> pc, at |-> Address(SP),
                                   open |-> FALSE])
  BY DEF Dispatch, TriggerInterrupt, PushWord, Note
<1>4. Safe(SP', sram', I', frames') BY <1>1, <1>2, <1>3, SafeIrq
<1>5. pc' \in Word BY SourcesAssumption DEF Dispatch, TriggerInterrupt
<1>6. raised' \subseteq Sources /\ enabled' \subseteq Sources /\ popped' \in Byte
  BY <1>1 DEF Dispatch
<1>7. phase' \in {"exec", "done"} BY DEF Dispatch
<1> QED BY <1>4, <1>5, <1>6, <1>7 DEF IInv

\* ... there is none, ...
LEMMA ResumeIInv ==
  ASSUME IInv, Resume PROVE IInv'
<1>1. Safe(SP', sram', I', frames') BY DEF IInv, Resume, memory
<1> QED BY <1>1 DEF IInv, Resume

\* ... or one is requested.
LEMMA RaiseIInv ==
  ASSUME IInv, NEW s \in Sources, Raise(s) PROVE IInv'
<1>1. Safe(SP', sram', I', frames') BY DEF IInv, Raise, memory
<1> QED BY <1>1 DEF IInv, Raise

\* Every step preserves the invariant.
LEMMA NextIInv == IInv /\ [Next]_vars => IInv'
<1> SUFFICES ASSUME IInv, [Next]_vars PROVE IInv' OBVIOUS
<1>1. CASE Instruction
  BY <1>1, CallIInv, PushIInv, RetIInv, PopIInv, OthersIInv DEF Instruction
<1>2. CASE UpdateHardwareIns BY <1>2, DispatchIInv, ResumeIInv DEF UpdateHardwareIns
<1>3. CASE \E s \in Sources : Raise(s) BY <1>3, RaiseIInv
<1>4. CASE UNCHANGED vars
  <2>1. Safe(SP', sram', I', frames') BY <1>4 DEF IInv, vars
  <2> QED BY <1>4, <2>1 DEF IInv, vars
<1> QED BY <1>1, <1>2, <1>3, <1>4 DEF Next

\* The invariant holds in every reachable state.
THEOREM Invariance == Spec => []IInv
BY InitIInv, NextIInv, PTL DEF Spec

\* The variables keep their types, and SP its two bytes.
THEOREM TypeCorrect == Spec => []TypeOK
<1>1. IInv => TypeOK BY IInvMeans
<1> QED BY <1>1, Invariance, PTL

\* trigger_interrupt, CALL and PUSH never write below RAM, whatever interrupts a
\* program that leaves room for one at a time.
THEOREM StackBounded == Spec => []StackInRam
<1>1. IInv => StackInRam BY IInvMeans
<1> QED BY <1>1, Invariance, PTL

\* What was pushed is found in RAM until it is popped, byte order and the borrow
\* between the two bytes of SP included.
THEOREM StackCorrect == Spec => []StackHolds
<1>1. IInv => StackHolds BY IInvMeans
<1> QED BY <1>1, Invariance, PTL

\* A handler is interrupted only when it has enabled interrupts itself.
THEOREM HandlersNotPreempted == Spec => []NoPreemption
<1>1. IInv => NoPreemption BY IInvMeans
<1> QED BY <1>1, Invariance, PTL
-----------------------------------------------------------------------------
(* Refinement *)

\* What a caller or a handler finds on the stack, without where it lies.
LEMMA StrippedType ==
  ASSUME NEW fs \in Seq(Frame)
  PROVE  /\ Stripped(fs) \in Seq([kind : {"call", "irq", "byte"}, value : Word])
         /\ Len(Stripped(fs)) = Len(fs)
         /\ \A n \in 1 .. Len(fs) :
              Stripped(fs)[n] = [kind |-> fs[n].kind, value |-> fs[n].value]
<1> DEFINE k == Len(fs)
           gs == Stripped(fs)
           Item == [kind : {"call", "irq", "byte"}, value : Word]
<1>1. k \in Nat /\ DOMAIN fs = 1 .. k OBVIOUS
<1>2. \A n \in 1 .. k : fs[n] \in Frame OBVIOUS
<1>3. gs = [n \in 1 .. k |-> [kind |-> fs[n].kind, value |-> fs[n].value]]
  BY <1>1 DEF Stripped
<1>4. \A n \in 1 .. k : [kind |-> fs[n].kind, value |-> fs[n].value] \in Item
  BY <1>2 DEF Frame
<1> HIDE DEF Item, gs, k
<1>5. gs \in [1 .. k -> Item] BY <1>3, <1>4
<1>6. gs \in Seq(Item) /\ Len(gs) = k BY <1>1, <1>5, SeqDef
<1> QED BY <1>3, <1>6 DEF Item, gs, k

\* Pushing a frame pushes its value ...
LEMMA StrippedAppend ==
  ASSUME NEW fs \in Seq(Frame), NEW f \in Frame
  PROVE  Stripped(Append(fs, f)) = Append(Stripped(fs), [kind |-> f.kind, value |-> f.value])
<1> DEFINE e == [kind |-> f.kind, value |-> f.value]
           gs == Stripped(fs)
           hs == Append(fs, f)
           k == Len(fs)
<1>1. hs \in Seq(Frame) /\ Len(hs) = k + 1 /\ k \in Nat
      /\ hs[k + 1] = f /\ \A n \in 1 .. k : hs[n] = fs[n]
  BY AppendProperties
<1>2. /\ gs \in Seq([kind : {"call", "irq", "byte"}, value : Word]) /\ Len(gs) = k
      /\ \A n \in 1 .. k : gs[n] = [kind |-> fs[n].kind, value |-> fs[n].value]
  BY StrippedType
<1>3. e \in [kind : {"call", "irq", "byte"}, value : Word] BY DEF Frame
<1> HIDE DEF e, gs
<1>4. /\ Append(gs, e) \in Seq([kind : {"call", "irq", "byte"}, value : Word])
      /\ Len(Append(gs, e)) = k + 1 /\ Append(gs, e)[k + 1] = e
      /\ \A n \in 1 .. k : Append(gs, e)[n] = gs[n]
  BY <1>2, <1>3, AppendProperties
<1> HIDE DEF hs
<1>5. /\ Stripped(hs) \in Seq([kind : {"call", "irq", "byte"}, value : Word])
      /\ Len(Stripped(hs)) = k + 1
      /\ \A n \in 1 .. k + 1 : Stripped(hs)[n] = [kind |-> hs[n].kind, value |-> hs[n].value]
  BY <1>1, StrippedType
<1>6. \A n \in 1 .. k + 1 : Stripped(hs)[n] = Append(gs, e)[n]
  <2> SUFFICES ASSUME NEW n \in 1 .. k + 1 PROVE Stripped(hs)[n] = Append(gs, e)[n] OBVIOUS
  <2>1. CASE n = k + 1 BY <1>1, <1>4, <1>5, <2>1 DEF e
  <2>2. CASE n # k + 1
    <3>1. n \in 1 .. k BY <1>1, <2>2
    <3> QED BY <1>1, <1>2, <1>4, <1>5, <3>1
  <2> QED BY <2>1, <2>2
<1>7. Stripped(hs) = Append(gs, e) BY <1>4, <1>5, <1>6, SeqEqual
<1> QED BY <1>7 DEF hs, gs, e

\* ... and taking it off takes its value off.
LEMMA StrippedFront ==
  ASSUME NEW fs \in Seq(Frame), fs # <<>>
  PROVE  /\ Stripped(Front(fs)) = Front(Stripped(fs)) /\ Stripped(fs) # <<>>
         /\ Last(Stripped(fs)) = [kind |-> Last(fs).kind, value |-> Last(fs).value]
<1> DEFINE gs == Stripped(fs)
           hs == Front(fs)
           k == Len(fs)
           Item == [kind : {"call", "irq", "byte"}, value : Word]
<1>1. /\ k \in Nat /\ k >= 1 /\ hs \in Seq(Frame) /\ Len(hs) = k - 1
      /\ Last(fs) = fs[k] /\ \A n \in 1 .. k - 1 : hs[n] = fs[n]
  BY FrontType
<1>2. /\ gs \in Seq(Item) /\ Len(gs) = k
      /\ \A n \in 1 .. k : gs[n] = [kind |-> fs[n].kind, value |-> fs[n].value]
  BY StrippedType
<1>3. Last(gs) = gs[k] BY <1>2 DEF Last
<1>4. Front(gs) = SubSeq(gs, 1, k - 1) BY <1>2 DEF Front
<1> HIDE DEF gs, hs, k, Item
<1>5. /\ SubSeq(gs, 1, k - 1) \in Seq(Item)
      /\ Len(SubSeq(gs, 1, k - 1)) = k - 1
      /\ \A n \in 1 .. k - 1 : SubSeq(gs, 1, k - 1)[n] = gs[n]
  <2>1. k - 1 \in Int /\ \A i \in 1 .. k - 1 : gs[i] \in Item BY <1>1, <1>2
  <2>2. /\ SubSeq(gs, 1, k - 1) \in Seq(Item)
        /\ Len(SubSeq(gs, 1, k - 1)) = IF 1 <= k - 1 THEN (k - 1) - 1 + 1 ELSE 0
        /\ \A i \in 1 .. (k - 1) - 1 + 1 : SubSeq(gs, 1, k - 1)[i] = gs[1 + i - 1]
    BY <2>1, SubSeqProperties
  <2> QED BY <1>1, <2>2
<1>6. /\ Stripped(hs) \in Seq(Item) /\ Len(Stripped(hs)) = k - 1
      /\ \A n \in 1 .. k - 1 : Stripped(hs)[n] = [kind |-> hs[n].kind, value |-> hs[n].value]
  BY <1>1, StrippedType DEF Item
<1>7. \A n \in 1 .. k - 1 : Stripped(hs)[n] = SubSeq(gs, 1, k - 1)[n]
  BY <1>1, <1>2, <1>5, <1>6
<1>8. Stripped(hs) = SubSeq(gs, 1, k - 1) BY <1>5, <1>6, <1>7, SeqEqual
<1>9. gs # <<>> BY <1>1, <1>2
<1>10. Last(gs) = [kind |-> fs[k].kind, value |-> fs[k].value] BY <1>1, <1>2, <1>3
<1> QED BY <1>1, <1>4, <1>8, <1>9, <1>10 DEF gs, hs

\* The operators of the abstract specification are those used here.
LEMMA IdealOperators ==
  /\ Ideal!Word = Word /\ Ideal!Byte = Byte /\ Ideal!Top = Top
  /\ Ideal!Requested = Requested
  /\ \A x : Ideal!Front(x) = Front(x) /\ Ideal!Last(x) = Last(x)
BY DEF Ideal!Word, Word, Ideal!Byte, Byte, Ideal!Top, Top, Ideal!Requested, Requested,
       Ideal!Front, Front, Ideal!Last, Last

\* A call pushes behind itself.
LEMMA CallImplements ==
  ASSUME IInv, NEW to \in Targets, NEW length \in {1, 2}, Call(to, length)
  PROVE  Ideal!Call
<1> DEFINE w == After(length)
           f == [kind |-> "call", value |-> w, at |-> Address(SP), open |-> FALSE]
<1>1. pc \in Word /\ frames \in Seq(Frame) /\ SP \in Byte \X Byte BY DEF IInv, Safe
<1>2. f \in Frame BY <1>1, AfterType, AddressType DEF Frame
<1>3. frames' = Append(frames, f) BY DEF Call, Note
<1>4. f.kind = "call" /\ f.value = w OBVIOUS
<1> HIDE DEF f
<1>5. Stripped(frames)' = Append(Stripped(frames), [kind |-> "call", value |-> w])
  BY <1>1, <1>2, <1>3, <1>4, StrippedAppend
<1>6. pc' \in Word BY ProgramAssumption DEF Call
<1>7. w = (pc + length) % (Ideal!Top + 1) BY IdealOperators DEF After
<1> HIDE DEF w
<1>8. Ideal!Push("call", (pc + length) % (Ideal!Top + 1)) BY <1>5, <1>7 DEF Ideal!Push
<1>9. Ideal!Execute BY DEF Call, Execute, Ideal!Execute
<1> QED BY <1>6, <1>8, <1>9, IdealOperators DEF Call, Ideal!Call

\* PUSH pushes a byte.
LEMMA PushImplements ==
  ASSUME IInv, NEW v \in Pushed, Push(v) PROVE Ideal!PushByte(v)
<1> DEFINE f == [kind |-> "byte", value |-> v, at |-> Address(SP), open |-> FALSE]
<1>1. /\ frames \in Seq(Frame) /\ Safe(SP, sram, I, frames)
      /\ RamEnd - Address(SP) + 1 + Reserve(I) <= RamSize /\ v \in Byte
  BY ProgramAssumption DEF IInv, Safe, Push, Room, Used
<1>2. f \in Frame
  <2>1. Address(SP) \in Nat /\ Reserve(I) \in {0, 2}
    BY <1>1, AddressType, TopType DEF Safe, Word, Reserve
  <2>2. Address(SP) <= RamEnd /\ RamEnd - Address(SP) + 1 <= RamSize
    BY <1>1, <2>1, RamBounds DEF Safe
  <2> QED BY <1>1, <2>2, PushByteStack DEF Safe
<1>3. frames' = Append(frames, f) BY DEF Push, Note
<1>4. f.kind = "byte" /\ f.value = v OBVIOUS
<1> HIDE DEF f
<1>5. Stripped(frames)' = Append(Stripped(frames), [kind |-> "byte", value |-> v])
  BY <1>1, <1>2, <1>3, <1>4, StrippedAppend
<1>6. pc' = (pc + 1) % (Ideal!Top + 1) BY IdealOperators DEF Push, After
<1>7. Ideal!Execute BY DEF Push, Execute, Ideal!Execute
<1> QED BY <1>5, <1>6, <1>7 DEF Push, Ideal!PushByte, Ideal!Push

\* RET and RETI go where the top of the stack says.
LEMMA RetImplements ==
  ASSUME IInv, Ret \/ Reti PROVE Ideal!Return
<1>1. Safe(SP, sram, I, frames) /\ frames \in Seq(Frame) BY DEF IInv, Safe
<1>2. frames # <<>> /\ Last(frames).kind \in {"call", "irq"} BY DEF Ret, Reti, OnTop
<1>3. /\ TopWord = Last(frames).value /\ Safe(Inc(Inc(SP)), sram, I, Front(frames))
      /\ Front(frames) \in Seq(Frame)
  BY <1>1, <1>2, SafeRet DEF TopWord, Safe
<1>4. /\ Stripped(Front(frames)) = Front(Stripped(frames)) /\ Stripped(frames) # <<>>
      /\ Last(Stripped(frames)) = [kind |-> Last(frames).kind, value |-> Last(frames).value]
  BY <1>1, <1>2, StrippedFront
<1>5. Last(Stripped(frames)).kind = Last(frames).kind
      /\ Last(Stripped(frames)).value = TopWord
  BY <1>3, <1>4
<1>6. Stripped(frames)' = Front(Stripped(frames))
  <2>1. Stripped(Opened(Front(frames))) = Stripped(Front(frames)) BY <1>3, OpenedStack
  <2> QED BY <1>4, <2>1 DEF Ret, Reti
<1>7. Ideal!Pop({"call", "irq"}) BY <1>2, <1>4, <1>5, <1>6, IdealOperators DEF Ideal!Pop
<1>8. pc' = Ideal!Last(Stripped(frames)).value BY <1>5, IdealOperators DEF Ret, Reti
<1>9. I' \in {I, TRUE} BY DEF Ret, Reti
<1>10. Ideal!Execute BY DEF Ret, Reti, Execute, Ideal!Execute
<1> QED BY <1>7, <1>8, <1>9, <1>10 DEF Ret, Reti, Ideal!Return

\* POP takes the byte last pushed.
LEMMA PopImplements ==
  ASSUME IInv, Pop PROVE Ideal!PopByte
<1>1. Safe(SP, sram, I, frames) /\ frames \in Seq(Frame) BY DEF IInv, Safe
<1>2. frames # <<>> /\ Last(frames).kind = "byte" BY DEF Pop, OnTop
<1>3. TopByte = Last(frames).value BY <1>1, <1>2, SafePop DEF TopByte
<1>4. /\ Stripped(Front(frames)) = Front(Stripped(frames)) /\ Stripped(frames) # <<>>
      /\ Last(Stripped(frames)) = [kind |-> Last(frames).kind, value |-> Last(frames).value]
  BY <1>1, <1>2, StrippedFront
<1>5. Last(Stripped(frames)).kind = "byte" /\ Last(Stripped(frames)).value = TopByte
  BY <1>2, <1>3, <1>4
<1>6. Stripped(frames)' = Front(Stripped(frames)) BY <1>4 DEF Pop
<1>7. Ideal!Pop({"byte"}) BY <1>4, <1>5, <1>6, IdealOperators DEF Ideal!Pop
<1>8. popped' = Ideal!Last(Stripped(frames)).value BY <1>5, IdealOperators DEF Pop
<1>9. pc' = (pc + 1) % (Ideal!Top + 1) BY IdealOperators DEF Pop, After
<1>10. Ideal!Execute BY DEF Pop, Execute, Ideal!Execute
<1> QED BY <1>7, <1>8, <1>9, <1>10 DEF Pop, Ideal!PopByte

\* The other instructions do not move the stack.
LEMMA OthersImplement ==
  ASSUME IInv,
         \/ \E to \in Targets : Jump(to)
         \/ Sei \/ Cli
         \/ \E E \in Masks : Enable(E)
         \/ \E s \in Sources : Acknowledge(s)
  PROVE  Ideal!Plain
<1>1. /\ frames \in Seq(Frame) /\ I \in BOOLEAN
      /\ pc \in Word /\ raised \subseteq Sources /\ enabled \subseteq Sources
  BY DEF IInv, Safe
<1>2. After(1) \in Word BY <1>1, AfterType
<1>3. Ideal!Execute /\ UNCHANGED popped
  BY DEF Jump, Sei, Cli, Enable, Acknowledge, Execute, Ideal!Execute
<1>4. pc' \in Word BY <1>2, ProgramAssumption DEF Jump, Sei, Cli, Enable, Acknowledge
<1>5. I' \in BOOLEAN BY <1>1 DEF Jump, Sei, Cli, Enable, Acknowledge
<1>6. raised' \subseteq raised BY DEF Jump, Sei, Cli, Enable, Acknowledge
<1>7. enabled' \subseteq Sources
  BY <1>1, ProgramAssumption DEF Jump, Sei, Cli, Enable, Acknowledge
<1>8. Stripped(frames)' = Stripped(frames)
  BY <1>1, OpenedStack DEF Jump, Sei, Cli, Enable, Acknowledge, memory
<1> QED BY <1>3, <1>4, <1>5, <1>6, <1>7, <1>8, IdealOperators DEF Ideal!Plain

\* An interrupt pushes where it came from, and enters its handler.
LEMMA DispatchImplements ==
  ASSUME IInv, NEW s \in Sources, Dispatch(s) PROVE Ideal!Interrupt(s)
<1> DEFINE f == [kind |-> "irq", value |-> pc, at |-> Address(SP), open |-> FALSE]
<1>1. pc \in Word /\ frames \in Seq(Frame) /\ SP \in Byte \X Byte BY DEF IInv, Safe
<1>2. f \in Frame BY <1>1, AddressType DEF Frame
<1>3. frames' = Append(frames, f) BY DEF Dispatch, TriggerInterrupt, Note
<1>4. f.kind = "irq" /\ f.value = pc OBVIOUS
<1> HIDE DEF f
<1>5. Stripped(frames)' = Append(Stripped(frames), [kind |-> "irq", value |-> pc])
  BY <1>1, <1>2, <1>3, <1>4, StrippedAppend
<1>6. Ideal!Push("irq", pc) BY <1>5 DEF Ideal!Push
<1>7. s \in Ideal!Requested BY IdealOperators DEF Dispatch, Chosen
<1> QED BY <1>6, <1>7 DEF Dispatch, TriggerInterrupt, Ideal!Interrupt

\* A return goes behind the last call, a handler to where it interrupted, a pop
\* gives back what was pushed: the bytes in RAM, moved by DEC_SP and INC_SP, are
\* an unbounded stack.
THEOREM Refinement == Spec => ImplementsCallStack
<1>1. Init => Ideal!Init
  <2> SUFFICES ASSUME Init PROVE Ideal!Init OBVIOUS
  <2>1. Stripped(frames) = <<>> BY DEF Init, Stripped
  <2> QED BY <2>1 DEF Init, Ideal!Init
<1>2. IInv /\ [Next]_vars => [Ideal!Next]_(Ideal!vars)
  <2> SUFFICES ASSUME IInv, [Next]_vars PROVE Ideal!Next \/ UNCHANGED Ideal!vars
    OBVIOUS
  <2>1. ASSUME NEW v \in Pushed, Push(v) PROVE Ideal!Next
    <3>1. v \in Ideal!Byte BY ProgramAssumption, IdealOperators
    <3> QED BY <2>1, <3>1, PushImplements DEF Ideal!Next
  <2>2. CASE Instruction
    BY <2>1, <2>2, CallImplements, RetImplements, PopImplements, OthersImplement
    DEF Instruction, Ideal!Next
  <2>3. ASSUME NEW s \in Sources, Dispatch(s) PROVE Ideal!Next
    BY <2>3, DispatchImplements DEF Ideal!Next
  <2>4. CASE Resume
    <3>1. Ideal!Resume BY <2>4, IdealOperators DEF Resume, Ideal!Resume, memory
    <3> QED BY <3>1 DEF Ideal!Next
  <2>5. ASSUME NEW s \in Sources, Raise(s) PROVE Ideal!Next
    <3>1. Ideal!Raise(s) BY <2>5 DEF Raise, Ideal!Raise, memory
    <3> QED BY <3>1 DEF Ideal!Next
  <2>6. CASE UNCHANGED vars BY <2>6 DEF vars, Ideal!vars
  <2> QED BY <2>2, <2>3, <2>4, <2>5, <2>6 DEF Next, UpdateHardwareIns
<1> QED BY <1>1, <1>2, Invariance, PTL DEF Spec, ImplementsCallStack, Ideal!Spec
=============================================================================
