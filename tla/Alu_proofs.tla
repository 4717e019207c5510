----------------------------- MODULE Alu_proofs -----------------------------
(***************************************************************************)
(* What the flags of the arithmetic instructions mean, for every width of  *)
(* a byte and every length of a chain.                                     *)
(***************************************************************************)
EXTENDS Alu, TLAPS

-----------------------------------------------------------------------------
(* Bytes and words *)

\* The largest word is a number.
LEMMA TopType == Top \in Nat /\ Top >= 3
<1> USE RadixAssumption
<1>1. Radix * Radix >= 2 * Radix BY SMT
<1>2. Radix * Radix \in Nat BY SMT
<1> QED BY <1>1, <1>2 DEF Top

\* Two bytes make a word ...
LEMMA JoinType ==
  ASSUME NEW hi \in Byte, NEW lo \in Byte PROVE Join(hi, lo) \in Word
<1> USE RadixAssumption
<1>1. hi * Radix <= (Radix - 1) * Radix BY SMT DEF Byte
<1>2. (Radix - 1) * Radix = Radix * Radix - Radix BY SMT
<1>3. hi * Radix \in Nat /\ Radix * Radix \in Nat BY SMT DEF Byte
<1> QED BY <1>1, <1>2, <1>3 DEF Byte, Word, Join, Top

\* ... and a word splits into two bytes.
LEMMA HighLowType ==
  ASSUME NEW w \in Word PROVE High(w) \in Byte /\ Low(w) \in Byte
<1> USE RadixAssumption
<1>1. w \in Nat /\ w < Radix * Radix BY TopType DEF Word, Top
<1>2. High(w) \in Int /\ Low(w) \in Byte BY <1>1, SMT DEF High, Low, Byte
<1>3. w = Radix * High(w) + Low(w) BY <1>1, SMT DEF High, Low
<1>4. High(w) >= 0 BY <1>1, SMT DEF High
<1>5. ASSUME High(w) >= Radix PROVE FALSE
  <2>1. Radix * High(w) >= Radix * Radix BY <1>2, <1>5, SMT
  <2> QED BY <2>1, <1>1, <1>2, <1>3, SMT DEF Byte
<1> QED BY <1>2, <1>4, <1>5 DEF Byte
-----------------------------------------------------------------------------
(* One byte: m = 2 * h is the number of its values, h the value of its top bit *)

\* A sum of two bytes and a carry is reduced by taking m away at most once.
LEMMA ModSum ==
  ASSUME NEW m \in Nat \ {0}, NEW x \in 0 .. 2 * m - 1
  PROVE  x % m = IF x < m THEN x ELSE x - m
<1>1. CASE x < m BY <1>1, SMT
<1>2. CASE x >= m
  <2>1. x - m \in 0 .. m - 1 BY <1>2, SMT
  <2>2. x = m + (x - m) BY SMT
  <2> QED BY <1>2, <2>1, <2>2, SMT
<1> QED BY <1>1, <1>2

\* A difference of two bytes and a borrow is reduced by adding m at most once.
LEMMA ModDifference ==
  ASSUME NEW m \in Nat \ {0}, NEW x \in 0 - m .. m - 1
  PROVE  x % m = IF x >= 0 THEN x ELSE x + m
<1>1. CASE x >= 0 BY <1>1, SMT
<1>2. CASE x < 0
  <2>1. x + m \in 0 .. m - 1 BY <1>2, SMT
  <2> QED BY <1>2, <2>1, SMT
<1> QED BY <1>1, <1>2

\* The same for bytes of 2 * h values.
LEMMA ByteSum ==
  ASSUME NEW h \in Nat \ {0}, NEW a \in 0 .. 2 * h - 1, NEW b \in 0 .. 2 * h - 1, NEW c \in {0, 1}
  PROVE  (a + b + c) % (2 * h) = IF a + b + c < 2 * h THEN a + b + c ELSE a + b + c - 2 * h
<1> DEFINE m == 2 * h
           x == a + b + c
<1>1. m \in Nat \ {0} /\ x \in 0 .. 2 * m - 1 BY SMT
<1> HIDE DEF m, x
<1>2. x % m = IF x < m THEN x ELSE x - m BY <1>1, ModSum
<1> QED BY <1>2 DEF m, x

\* And for differences.
LEMMA ByteDifference ==
  ASSUME NEW h \in Nat \ {0}, NEW a \in 0 .. 2 * h - 1, NEW b \in 0 .. 2 * h - 1, NEW c \in {0, 1}
  PROVE  (a - b - c) % (2 * h) = IF a - b - c >= 0 THEN a - b - c ELSE a - b - c + 2 * h
<1> DEFINE m == 2 * h
           x == a - b - c
<1>1. m \in Nat \ {0} /\ x \in 0 - m .. m - 1 BY SMT
<1> HIDE DEF m, x
<1>2. x % m = IF x >= 0 THEN x ELSE x + m BY <1>1, ModDifference
<1> QED BY <1>2 DEF m, x

\* What CARRIES and BORROWS at the top bit say of R ...
CarryFact(h, m, a, b, c, R) ==
    LET k == Carries(a >= h, b >= h, R >= h)
    IN  R \in 0 .. m - 1 /\ (k <=> a + b + c >= m) /\ R + Num(k) * m = a + b + c
BorrowFact(h, m, a, b, c, R) ==
    LET k == Borrows(a >= h, b >= h, R >= h)
    IN  R \in 0 .. m - 1 /\ (k <=> a - b - c < 0) /\ R + b + c = a + Num(k) * m

\* ... and V and S of the exact signed result e.
SignFact(h, V, R, e) == /\ V <=> (e < 0 - h \/ e >= h)
                        /\ ((R >= h) # V) <=> e < 0

\* CARRIES at the top bit is the carry of the sum.
LEMMA CarryOut ==
  ASSUME NEW h \in Nat \ {0}, NEW m \in Nat, m = 2 * h,
         NEW a \in 0 .. m - 1, NEW b \in 0 .. m - 1, NEW c \in {0, 1}
  PROVE  CarryFact(h, m, a, b, c, (a + b + c) % m)
<1> DEFINE R == (a + b + c) % m
<1>2. R = IF a + b + c < m THEN a + b + c ELSE a + b + c - m BY ByteSum
<1> HIDE DEF R
<1>3. R \in 0 .. m - 1 BY <1>2, SMT
<1>4. Carries(a >= h, b >= h, R >= h) <=> a + b + c >= m BY <1>2, <1>3, SMT DEF Carries
<1>5. R + Num(Carries(a >= h, b >= h, R >= h)) * m = a + b + c BY <1>2, <1>3, <1>4, SMT DEF Num
<1> QED BY <1>3, <1>4, <1>5 DEF R, CarryFact

\* BORROWS at the top bit is the borrow of the difference.
LEMMA BorrowOut ==
  ASSUME NEW h \in Nat \ {0}, NEW m \in Nat, m = 2 * h,
         NEW a \in 0 .. m - 1, NEW b \in 0 .. m - 1, NEW c \in {0, 1}
  PROVE  BorrowFact(h, m, a, b, c, (a - b - c) % m)
<1> DEFINE R == (a - b - c) % m
<1>2. R = IF a - b - c >= 0 THEN a - b - c ELSE a - b - c + m BY ByteDifference
<1> HIDE DEF R
<1>3. R \in 0 .. m - 1 BY <1>2, SMT
<1>4. Borrows(a >= h, b >= h, R >= h) <=> a - b - c < 0 BY <1>2, <1>3, SMT DEF Borrows
<1>5. R + b + c = a + Num(Borrows(a >= h, b >= h, R >= h)) * m BY <1>2, <1>3, <1>4, SMT DEF Num
<1> QED BY <1>3, <1>4, <1>5 DEF R, BorrowFact

\* V and S after an addition: the overflow and the sign of the exact signed sum.
LEMMA SignedSum ==
  ASSUME NEW h \in Nat \ {0}, NEW m \in Nat, m = 2 * h,
         NEW a \in 0 .. m - 1, NEW b \in 0 .. m - 1, NEW c \in {0, 1}
  PROVE  LET R == (a + b + c) % m
         IN  SignFact(h, AddOverflow(a >= h, b >= h, R >= h), R, Signed(a, m) + Signed(b, m) + c)
<1> DEFINE R == (a + b + c) % m
           e == Signed(a, m) + Signed(b, m) + c
           V == AddOverflow(a >= h, b >= h, R >= h)
<1>2. R = IF a + b + c < m THEN a + b + c ELSE a + b + c - m BY ByteSum
<1>3. e = (IF a >= h THEN a - m ELSE a) + (IF b >= h THEN b - m ELSE b) + c
      BY SMT DEF Signed
<1> HIDE DEF R, e
<1>4. V <=> (e < 0 - h \/ e >= h) BY <1>2, <1>3, SMT DEF AddOverflow
<1>5. ((R >= h) # V) <=> e < 0 BY <1>2, <1>3, SMT DEF AddOverflow
<1> HIDE DEF V
<1>6. SignFact(h, V, R, e) BY <1>4, <1>5 DEF SignFact
<1> QED BY <1>6 DEF V, R, e

\* V and S after a subtraction: the overflow and the sign of the exact signed difference.
LEMMA SignedDifference ==
  ASSUME NEW h \in Nat \ {0}, NEW m \in Nat, m = 2 * h,
         NEW a \in 0 .. m - 1, NEW b \in 0 .. m - 1, NEW c \in {0, 1}
  PROVE  LET R == (a - b - c) % m
         IN  SignFact(h, SubOverflow(a >= h, b >= h, R >= h), R, Signed(a, m) - Signed(b, m) - c)
<1> DEFINE R == (a - b - c) % m
           e == Signed(a, m) - Signed(b, m) - c
           V == SubOverflow(a >= h, b >= h, R >= h)
<1>2. R = IF a - b - c >= 0 THEN a - b - c ELSE a - b - c + m BY ByteDifference
<1>3. e = (IF a >= h THEN a - m ELSE a) - (IF b >= h THEN b - m ELSE b) - c
      BY SMT DEF Signed
<1> HIDE DEF R, e
<1>4. V <=> (e < 0 - h \/ e >= h) BY <1>2, <1>3, SMT DEF SubOverflow
<1>5. ((R >= h) # V) <=> e < 0 BY <1>2, <1>3, SMT DEF SubOverflow
<1> HIDE DEF V
<1>6. SignFact(h, V, R, e) BY <1>4, <1>5 DEF SignFact
<1> QED BY <1>6 DEF V, R, e
-----------------------------------------------------------------------------
(* A byte on top of a number below w *)

\* The number grows to one below w * Radix.
LEMMA Grows ==
  ASSUME NEW w \in Nat \ {0}, NEW d \in 0 .. w - 1, NEW a \in Byte
  PROVE  /\ w * Radix \in Nat \ {0}
         /\ d + w * a \in 0 .. w * Radix - 1
         /\ d + w * a = 0 <=> d = 0 /\ a = 0
<1>1. a \in Nat /\ a <= Radix - 1 /\ Radix \in Nat BY RadixAssumption DEF Byte
<1>2. w * a <= w * (Radix - 1) BY <1>1, SMT
<1>3. w * (Radix - 1) = w * Radix - w BY <1>1, SMT
<1>4. w * a \in Nat /\ w * Radix \in Nat BY <1>1, SMT
<1>5. w * Radix >= w BY RadixAssumption, SMT
<1>6. w * a = 0 <=> a = 0 BY <1>1, SMT
<1> HIDE DEF Byte
<1> QED BY <1>2, <1>3, <1>4, <1>5, <1>6, SMT

\* Its sign is that of the byte.
LEMMA SignedGrows ==
  ASSUME NEW w \in Nat \ {0}, NEW d \in 0 .. w - 1, NEW a \in Byte
  PROVE  Signed(d + w * a, w * Radix) = d + w * Signed(a, Radix)
<1>1. a \in Nat /\ Half \in Nat /\ Radix = 2 * Half BY WidthAssumption DEF Byte
<1>2. w * a \in Nat /\ w * Half \in Nat /\ w * Radix = 2 * (w * Half) BY <1>1, SMT
<1>3. CASE a >= Half
  <2>1. w * a >= w * Half BY <1>1, <1>3, SMT
  <2>2. Signed(d + w * a, w * Radix) = d + w * a - w * Radix BY <2>1, <1>2, SMT DEF Signed
  <2>3. w * (a - Radix) = w * a - w * Radix BY <1>1, SMT
  <2>4. Signed(a, Radix) = a - Radix BY <1>1, <1>3, SMT DEF Signed
  <2> QED BY <2>2, <2>3, <2>4, <1>2, SMT
<1>4. CASE a < Half
  <2>1. w * (a + 1) <= w * Half BY <1>1, <1>4, SMT
  <2>2. w * (a + 1) = w * a + w BY <1>1, SMT
  <2>3. Signed(d + w * a, w * Radix) = d + w * a BY <2>1, <2>2, <1>2, SMT DEF Signed
  <2>4. Signed(a, Radix) = a BY <1>1, <1>4, SMT DEF Signed
  <2> QED BY <2>3, <2>4
<1> QED BY <1>1, <1>3, <1>4

\* Sign and overflow of a number are those of its highest part.
LEMMA Scale ==
  ASSUME NEW w \in Nat \ {0}, NEW low \in 0 .. w - 1, NEW T \in Int, NEW h \in Nat,
         NEW v, v = low + w * T
  PROVE  /\ v \in Int
         /\ v < 0 <=> T < 0
         /\ 2 * v < 0 - w * (2 * h) <=> T < 0 - h
         /\ 2 * v >= w * (2 * h) <=> T >= h
<1>1. w * T \in Int /\ w * h \in Nat /\ w * (2 * h) = 2 * (w * h) BY SMT
<1>2. T < 0 => w * T <= 0 - w BY SMT
<1>3. T >= 0 => w * T >= 0 BY SMT
<1>4. T < 0 - h => w * T <= 0 - w * h - w
  <2> SUFFICES ASSUME T < 0 - h PROVE w * T <= 0 - w * h - w OBVIOUS
  <2>1. w * T <= w * (0 - h - 1) BY SMT
  <2>2. w * (0 - h - 1) = 0 - w * h - w BY SMT
  <2> QED BY <2>1, <2>2
<1>5. T >= 0 - h => w * T >= 0 - w * h
  <2> SUFFICES ASSUME T >= 0 - h PROVE w * T >= 0 - w * h OBVIOUS
  <2>1. w * T >= w * (0 - h) BY SMT
  <2>2. w * (0 - h) = 0 - w * h BY SMT
  <2> QED BY <2>1, <2>2
<1>6. T < h => w * T <= w * h - w
  <2> SUFFICES ASSUME T < h PROVE w * T <= w * h - w OBVIOUS
  <2>1. w * T <= w * (h - 1) BY SMT
  <2>2. w * (h - 1) = w * h - w BY SMT
  <2> QED BY <2>1, <2>2
<1>7. T >= h => w * T >= w * h BY SMT
<1> DEFINE p == w * T
           q == w * h
<1>8. /\ p \in Int /\ q \in Nat /\ v = low + p /\ w * (2 * h) = 2 * q
      /\ T < 0 => p <= 0 - w
      /\ T >= 0 => p >= 0
      /\ T < 0 - h => p <= 0 - q - w
      /\ T >= 0 - h => p >= 0 - q
      /\ T < h => p <= q - w
      /\ T >= h => p >= q
      BY <1>1, <1>2, <1>3, <1>4, <1>5, <1>6, <1>7
<1> HIDE DEF p, q
<1>9. v \in Int BY <1>8, SMT
<1>10. v < 0 <=> T < 0 BY <1>8, SMT
<1>11. 2 * v < 0 - w * (2 * h) <=> T < 0 - h BY <1>8, SMT
<1>12. 2 * v >= w * (2 * h) <=> T >= h BY <1>8, SMT
<1> QED BY <1>9, <1>10, <1>11, <1>12

\* What CarryChain says of the three kinds of chains.
SumIs(res, c, w, d, s) == res + c * w = d + s
DifferenceIs(res, c, w, d, s) == res + s = d + c * w
HalfIs(res, c, w, d, s) == 2 * res + c = d + s * w

\* A chain of additions stays right when a byte is added on top ...
LEMMA AddGrows ==
  ASSUME NEW w \in Nat \ {0}, NEW d \in Nat, NEW s \in Nat, NEW res \in Nat, NEW c \in {0, 1},
         NEW a \in Byte, NEW b \in Byte, NEW R \in Byte, NEW k \in {0, 1},
         SumIs(res, c, w, d, s), R + k * Radix = a + b + c
  PROVE  SumIs(res + w * R, k, w * Radix, d + w * a, s + w * b)
<1>1. a \in Nat /\ b \in Nat /\ R \in Nat /\ Radix \in Nat BY RadixAssumption DEF Byte
<1>2. w * (R + k * Radix) = w * (a + b + c) OBVIOUS
<1>3. w * (R + k * Radix) = w * R + k * (w * Radix) BY <1>1, SMT
<1>4. w * (a + b + c) = w * a + w * b + c * w BY <1>1, SMT
<1>5. w * a \in Nat /\ w * b \in Nat /\ c * w \in Nat /\ w * R \in Nat /\ k * (w * Radix) \in Nat
      BY <1>1, SMT
<1>6. res + c * w = d + s BY DEF SumIs
<1>7. (res + w * R) + k * (w * Radix) = (d + w * a) + (s + w * b)
      BY <1>2, <1>3, <1>4, <1>5, <1>6, SMT
<1> QED BY <1>7 DEF SumIs

\* ... one of subtractions when a byte is subtracted on top ...
LEMMA SubGrows ==
  ASSUME NEW w \in Nat \ {0}, NEW d \in Nat, NEW s \in Nat, NEW res \in Nat, NEW c \in {0, 1},
         NEW a \in Byte, NEW b \in Byte, NEW R \in Byte, NEW k \in {0, 1},
         DifferenceIs(res, c, w, d, s), R + b + c = a + k * Radix
  PROVE  DifferenceIs(res + w * R, k, w * Radix, d + w * a, s + w * b)
<1>1. a \in Nat /\ b \in Nat /\ R \in Nat /\ Radix \in Nat BY RadixAssumption DEF Byte
<1>2. w * (R + b + c) = w * (a + k * Radix) OBVIOUS
<1>3. w * (a + k * Radix) = w * a + k * (w * Radix) BY <1>1, SMT
<1>4. w * (R + b + c) = w * R + w * b + c * w BY <1>1, SMT
<1>5. w * a \in Nat /\ w * b \in Nat /\ c * w \in Nat /\ w * R \in Nat /\ k * (w * Radix) \in Nat
      BY <1>1, SMT
<1>6. res + s = d + c * w BY DEF DifferenceIs
<1>7. (res + w * R) + (s + w * b) = (d + w * a) + k * (w * Radix)
      BY <1>2, <1>3, <1>4, <1>5, <1>6, SMT
<1> QED BY <1>7 DEF DifferenceIs

HalfBelow(w, d, s, res, c) ==
    /\ w \in Nat \ {0} /\ d \in Nat /\ s \in Nat /\ res \in Nat /\ c \in {0, 1}
    /\ HalfIs(res, c, w, d, s)
HalfOn(a, c, R, k) ==
    /\ a \in Byte /\ R \in Byte /\ c \in {0, 1} /\ k \in {0, 1}
    /\ 2 * R + k = a + c * Radix
HalfGrown(w, d, s, res, a, R, k) == HalfIs(res * Radix + R, k, w * Radix, d * Radix + a, s)

\* ... and one of shifts when a byte is shifted below.
LEMMA ShiftGrows ==
  ASSUME NEW w, NEW d, NEW s, NEW res, NEW c, NEW a, NEW R, NEW k,
         HalfBelow(w, d, s, res, c), HalfOn(a, c, R, k)
  PROVE  HalfGrown(w, d, s, res, a, R, k)
<1>0. /\ w \in Nat \ {0} /\ d \in Nat /\ s \in Nat /\ res \in Nat /\ c \in {0, 1} /\ k \in {0, 1}
      /\ HalfIs(res, c, w, d, s) /\ 2 * R + k = a + c * Radix
      BY DEF HalfBelow, HalfOn
<1>1. a \in Nat /\ R \in Nat /\ Radix \in Nat BY RadixAssumption DEF Byte, HalfOn
<1>2. (2 * res + c) * Radix = (d + s * w) * Radix BY <1>0 DEF HalfIs
<1>3. (2 * res + c) * Radix = 2 * (res * Radix) + c * Radix BY <1>0, <1>1, SMT
<1>4. (d + s * w) * Radix = d * Radix + s * (w * Radix) BY <1>0, <1>1, SMT
<1>5. res * Radix \in Nat /\ d * Radix \in Nat /\ s * (w * Radix) \in Nat /\ c * Radix \in Nat
      BY <1>0, <1>1, SMT
<1>6. 2 * (res * Radix + R) + k = (d * Radix + a) + s * (w * Radix)
      BY <1>0, <1>1, <1>2, <1>3, <1>4, <1>5, SMT
<1> QED BY <1>6 DEF HalfIs, HalfGrown
-----------------------------------------------------------------------------
(* The half carry *)

\* Multiples of m do not change a remainder.
LEMMA ModShift ==
  ASSUME NEW m \in Nat \ {0}, NEW x \in Int, NEW q \in Int
  PROVE  (x + q * m) % m = x % m
<1> DEFINE p == x \div m
           y == x % m
<1>1. p \in Int /\ y \in 0 .. m - 1 /\ x = m * p + y BY SMT
<1> HIDE DEF p, y
<1>2. x + q * m = m * (p + q) + y BY <1>1, SMT
<1>3. p + q \in Int BY <1>1
<1>4. (m * (p + q) + y) % m = y
  <2> DEFINE t == p + q
  <2> HIDE DEF t
  <2>1. t \in Int BY <1>3 DEF t
  <2>2. (m * t + y) % m = y BY <2>1, <1>1, SMT
  <2> QED BY <2>2 DEF t
<1>5. (x + q * m) % m = y BY <1>2, <1>4
<1> QED BY <1>5 DEF y

\* A byte is its low nibble and a multiple of the nibble's size.
LEMMA LowNibble ==
  ASSUME NEW x \in Nat
  PROVE  /\ Low4(x) \in 0 .. 2 * Nibble - 1
         /\ \E q \in Int : x = Low4(x) + q * (2 * Nibble)
<1> DEFINE m == 2 * Nibble
           q == x \div m
           y == x % m
<1>1. m \in Nat \ {0} BY WidthAssumption, SMT
<1> HIDE DEF m
<1>2. q \in Int /\ y \in 0 .. m - 1 /\ x = m * q + y BY <1>1, SMT
<1>3. Low4(x) = y BY DEF Low4, m
<1> HIDE DEF q, y
<1>4. x = y + q * m BY <1>1, <1>2, SMT
<1> QED BY <1>2, <1>3, <1>4 DEF m

\* A byte has a whole number of nibble sizes.
LEMMA NibblesInRadix == \E k \in Nat : Radix = k * (2 * Nibble)
<1> DEFINE k == Half \div Nibble
<1>1. k \in Nat /\ Half = Nibble * k BY WidthAssumption, SMT
<1> HIDE DEF k
<1>2. Radix = k * (2 * Nibble) BY <1>1, WidthAssumption, SMT
<1> QED BY <1>1, <1>2

\* A byte's value modulo the nibble's size survives the reduction modulo Radix.
LEMMA LowOfMod ==
  ASSUME NEW x \in Int PROVE Low4(x % Radix) = x % (2 * Nibble)
<1>1. PICK k \in Nat : Radix = k * (2 * Nibble) BY NibblesInRadix
<1> DEFINE p == x \div Radix
           y == x % Radix
           m == 2 * Nibble
<1>2. p \in Int /\ y \in Int /\ x = Radix * p + y BY RadixAssumption, SMT
<1>3. m \in Nat \ {0} BY WidthAssumption, SMT
<1>4. Low4(y) = y % m BY DEF Low4
<1>5. Radix = k * m BY <1>1
<1> HIDE DEF p, y, m
<1> DEFINE q == k * p
<1>6. q \in Int /\ x = y + q * m BY <1>2, <1>3, <1>5, SMT
<1> HIDE DEF q
<1>7. (y + q * m) % m = y % m BY <1>2, <1>3, <1>6, ModShift
<1>8. Low4(y) = x % m BY <1>4, <1>6, <1>7
<1> QED BY <1>8 DEF y, m

\* CARRIES at bit 3 is the carry between the nibbles.
LEMMA HalfCarry ==
  ASSUME NEW a \in Byte, NEW b \in Byte, NEW c \in {0, 1}
  PROVE  Carries(Bit3(a), Bit3(b), Bit3((a + b + c) % Radix)) <=> Low4(a) + Low4(b) + c >= 2 * Nibble
<1> DEFINE la == Low4(a)
           lb == Low4(b)
           m == 2 * Nibble
           R == (a + b + c) % Radix
<1>1. a \in Nat /\ b \in Nat BY RadixAssumption DEF Byte
<1>2. la \in 0 .. m - 1 /\ lb \in 0 .. m - 1 BY <1>1, LowNibble
<1>3. PICK qa \in Int : a = la + qa * m BY <1>1, LowNibble
<1>4. PICK qb \in Int : b = lb + qb * m BY <1>1, LowNibble
<1>5. a + b + c \in Int BY <1>1
<1>6. Low4(R) = (a + b + c) % m BY <1>5, LowOfMod
<1>7. Nibble \in Nat \ {0} /\ m \in Nat \ {0} BY WidthAssumption, SMT
<1>8. Bit3(a) <=> la >= Nibble BY DEF Bit3, Low4
<1>9. Bit3(b) <=> lb >= Nibble BY DEF Bit3, Low4
<1>10. Bit3(R) <=> Low4(R) >= Nibble BY DEF Bit3, Low4
<1>11. m = 2 * Nibble OBVIOUS
<1> HIDE DEF la, lb, m, R
<1>16. CarryFact(Nibble, m, la, lb, c, (la + lb + c) % m) BY <1>2, <1>7, <1>11, CarryOut
<1>17. Carries(la >= Nibble, lb >= Nibble, ((la + lb + c) % m) >= Nibble) <=> la + lb + c >= m
       BY <1>16 DEF CarryFact
<1> DEFINE x == la + lb + c
           q == qa + qb
<1>12. x \in Int /\ q \in Int /\ a + b + c = x + q * m BY <1>2, <1>3, <1>4, <1>7, SMT
<1>13. (x + q * m) % m = x % m
  <2> HIDE DEF x, q
  <2> QED BY <1>7, <1>12, ModShift
<1>14. Low4(R) = (la + lb + c) % m BY <1>6, <1>12, <1>13 DEF x
<1>15. Carries(Bit3(a), Bit3(b), Bit3(R)) <=> la + lb + c >= m BY <1>8, <1>9, <1>10, <1>17, <1>14 DEF Carries
<1> QED BY <1>15 DEF la, lb, m, R

\* BORROWS at bit 3 is the borrow between the nibbles.
LEMMA HalfBorrow ==
  ASSUME NEW a \in Byte, NEW b \in Byte, NEW c \in {0, 1}
  PROVE  Borrows(Bit3(a), Bit3(b), Bit3((a - b - c) % Radix)) <=> Low4(a) - Low4(b) - c < 0
<1> DEFINE la == Low4(a)
           lb == Low4(b)
           m == 2 * Nibble
           R == (a - b - c) % Radix
<1>1. a \in Nat /\ b \in Nat BY RadixAssumption DEF Byte
<1>2. la \in 0 .. m - 1 /\ lb \in 0 .. m - 1 BY <1>1, LowNibble
<1>3. PICK qa \in Int : a = la + qa * m BY <1>1, LowNibble
<1>4. PICK qb \in Int : b = lb + qb * m BY <1>1, LowNibble
<1>5. a - b - c \in Int BY <1>1, SMT
<1>6. Low4(R) = (a - b - c) % m BY <1>5, LowOfMod
<1>7. Nibble \in Nat \ {0} /\ m \in Nat \ {0} BY WidthAssumption, SMT
<1>8. Bit3(a) <=> la >= Nibble BY DEF Bit3, Low4
<1>9. Bit3(b) <=> lb >= Nibble BY DEF Bit3, Low4
<1>10. Bit3(R) <=> Low4(R) >= Nibble BY DEF Bit3, Low4
<1>11. m = 2 * Nibble OBVIOUS
<1> HIDE DEF la, lb, m, R
<1>16. BorrowFact(Nibble, m, la, lb, c, (la - lb - c) % m) BY <1>2, <1>7, <1>11, BorrowOut
<1>17. Borrows(la >= Nibble, lb >= Nibble, ((la - lb - c) % m) >= Nibble) <=> la - lb - c < 0
       BY <1>16 DEF BorrowFact
<1> DEFINE x == la - lb - c
           q == qa - qb
<1>12. x \in Int /\ q \in Int /\ a - b - c = x + q * m BY <1>2, <1>3, <1>4, <1>7, SMT
<1>13. (x + q * m) % m = x % m
  <2> HIDE DEF x, q
  <2> QED BY <1>7, <1>12, ModShift
<1>14. Low4(R) = (la - lb - c) % m BY <1>6, <1>12, <1>13 DEF x
<1>15. Borrows(Bit3(a), Bit3(b), Bit3(R)) <=> la - lb - c < 0 BY <1>8, <1>9, <1>10, <1>17, <1>14 DEF Borrows
<1> QED BY <1>15 DEF la, lb, m, R
-----------------------------------------------------------------------------
(* The invariant, as facts about a chain c, an exact result e and flags f *)

Flags == [C : BOOLEAN, Z : BOOLEAN, N : BOOLEAN, V : BOOLEAN, S : BOOLEAN, H : BOOLEAN]
Kinds == {"add", "sub", "shift"}
Chains == [kind : Kinds, n : 1 .. MaxBytes + 1, w : Nat, d : Nat, s : Nat, res : Nat, zero : BOOLEAN]

ChainType(c) ==
    \/ c = Broken
    \/ c \in Chains /\ c.d < c.w /\ c.s < c.w /\ c.res < c.w
    \/ c \in [kind : {"product"}, d : Int, s : Int, frac : BOOLEAN]
ExactType(e) == e = None \/ e \in [width : Nat, value : Int, half : BOOLEAN]

CarryMeans(c, f) ==
    /\ c.kind = "add" => SumIs(c.res, Num(f.C), c.w, c.d, c.s)
    /\ c.kind = "sub" => DifferenceIs(c.res, Num(f.C), c.w, c.d, c.s)
    /\ c.kind = "shift" => HalfIs(c.res, Num(f.C), c.w, c.d, c.s)
ZeroMeans(c, f) == c.kind \in Kinds /\ c.zero => (f.Z <=> c.res = 0)
ExactMeans(e, f) ==
    e # None => /\ f.S <=> e.value < 0
                /\ f.V <=> 2 * e.value < 0 - e.width \/ 2 * e.value >= e.width
                /\ f.N <=> (f.S # f.V)
                /\ f.H <=> e.half

Good(c, e, f) == /\ f \in Flags /\ ChainType(c) /\ ExactType(e)
                 /\ CarryMeans(c, f) /\ ZeroMeans(c, f) /\ ExactMeans(e, f)

IInv == r \in [Register -> Byte] /\ Good(chain, exact, SREG)

\* These facts are the invariants of the run, but for the products.
LEMMA IInvMeans == IInv <=> TypeOK /\ CarryChain /\ ZeroOfChain /\ SignIsExact
<1>1. TypeOK <=> /\ r \in [Register -> Byte] /\ SREG \in Flags
                 /\ ChainType(chain) /\ ExactType(exact)
      BY Zenon DEF TypeOK, Flags, Chains, Kinds, ChainType, ExactType
<1>2. CarryChain <=> CarryMeans(chain, SREG) BY Zenon DEF CarryChain, CarryMeans, C, SumIs, DifferenceIs, HalfIs
<1>3. ZeroOfChain <=> ZeroMeans(chain, SREG) BY Zenon DEF ZeroOfChain, ZeroMeans, Kinds
<1>4. SignIsExact <=> ExactMeans(exact, SREG) BY Zenon DEF SignIsExact, ExactMeans
<1> QED BY <1>1, <1>2, <1>3, <1>4, Zenon DEF IInv, Good

-----------------------------------------------------------------------------
(* The steps of a chain of additions and of subtractions *)

\* A bit of arithmetic that every lemma on bytes needs.
LEMMA ByteRange ==
  /\ Half \in Nat \ {0} /\ Radix \in Nat \ {0} /\ Radix = 2 * Half
  /\ Byte = 0 .. Radix - 1
  /\ \A a \in Byte : a \in Nat /\ Signed(a, Radix) \in Int
BY WidthAssumption, RadixAssumption, SMT DEF Byte, Signed

CarryIs(kind, res, c, w, d, s) ==
    IF kind = "add" THEN SumIs(res, c, w, d, s) ELSE DifferenceIs(res, c, w, d, s)
Total(kind, x, y) == IF kind = "add" THEN x + y ELSE x - y

\* Flags set one by one: C = k, Z = z and H, and N, V and S as Signs has them ...
SetTo(f, R, V, k, z, H) == f = [Signs(SREG, Bit7(R), V) EXCEPT !.C = k, !.H = H, !.Z = z]

\* ... and what is then known of them, for the exact result T.
SetFact(f, T, z, H) ==
    /\ f \in Flags /\ T \in Int
    /\ f.Z <=> z
    /\ f.H <=> H
    /\ f.V <=> (T < 0 - Half \/ T >= Half)
    /\ f.S <=> T < 0
    /\ f.N <=> (f.S # f.V)

\* All there is to know of an addition or subtraction of bytes, with a carry c.
ByteFact(kind, a, b, c, R, f, z, H) ==
    /\ R \in Byte
    /\ CarryIs(kind, R, Num(f.C), Radix, a, b + c)
    /\ SetFact(f, Total(kind, Signed(a, Radix), Signed(b, Radix) + c), z, H)

\* The flags set one by one mean what they should.
LEMMA FlagsAre ==
  ASSUME SREG \in Flags, NEW R \in Byte, NEW T \in Int, NEW V \in BOOLEAN, SignFact(Half, V, R, T),
         NEW k \in BOOLEAN, NEW z \in BOOLEAN, NEW H \in BOOLEAN,
         NEW f, SetTo(f, R, V, k, z, H)
  PROVE  f.C = k /\ SetFact(f, T, z, H)
<1> DEFINE N == Bit7(R)
           S == N # V
<1>1. N \in BOOLEAN /\ S \in BOOLEAN BY DEF Bit7
<1>2. f = [[SREG EXCEPT !.N = N, !.V = V, !.S = S] EXCEPT !.C = k, !.H = H, !.Z = z]
      BY DEF Signs, SetTo
<1>3. (V <=> (T < 0 - Half \/ T >= Half)) /\ (((R >= Half) # V) <=> T < 0) BY DEF SignFact
<1>4. S <=> T < 0 BY <1>3 DEF Bit7
<1>5. N <=> (S # V) BY <1>1
<1> HIDE DEF N, S
<1>6. f = [C |-> k, Z |-> z, N |-> N, V |-> V, S |-> S, H |-> H] BY <1>2 DEF Flags
<1>7. /\ f \in Flags /\ f.C = k /\ f.Z = z /\ f.H = H /\ f.N = N /\ f.V = V /\ f.S = S
      BY <1>1, <1>6 DEF Flags
<1> QED BY <1>3, <1>4, <1>5, <1>7 DEF SetFact

\* ADD and ADC.
LEMMA AddFlags ==
  ASSUME SREG \in Flags, NEW a \in Byte, NEW b \in Byte, NEW c \in {0, 1}
  PROVE  LET R == (a + b + c) % Radix
         IN  ByteFact("add", a, b, c, R, AfterAdd(a, b, R), R = 0,
                      Low4(a) + Low4(b) + c >= 2 * Nibble)
<1> DEFINE R == (a + b + c) % Radix
           f == AfterAdd(a, b, R)
           x == Signed(a, Radix)
           y == Signed(b, Radix)
           T == x + y + c
           k == Carries(Bit7(a), Bit7(b), Bit7(R))
           V == AddOverflow(Bit7(a), Bit7(b), Bit7(R))
           H == Carries(Bit3(a), Bit3(b), Bit3(R))
           z == R = 0
           half == Low4(a) + Low4(b) + c >= 2 * Nibble
<1>1. CarryFact(Half, Radix, a, b, c, R) BY ByteRange, CarryOut
<1>2. R \in Byte /\ R + Num(k) * Radix = a + b + c BY <1>1, ByteRange DEF CarryFact, Bit7
<1>3. SignFact(Half, V, R, T)
  <2>1. SignFact(Half, AddOverflow(a >= Half, b >= Half, R >= Half), R, T) BY ByteRange, SignedSum
  <2> QED BY <2>1 DEF Bit7
<1>4. H <=> half BY HalfCarry
<1>5. k \in BOOLEAN /\ V \in BOOLEAN /\ H \in BOOLEAN /\ z \in BOOLEAN BY DEF Carries, AddOverflow
<1>6. x \in Int /\ y \in Int /\ a \in Int /\ b \in Int BY ByteRange
<1>7. SetTo(f, R, V, k, z, H) BY DEF AfterAdd, SetTo
<1> HIDE DEF R, f, k, V, H, z, x, y, half
<1>8. T \in Int BY <1>6
<1>9. T = x + (y + c) /\ a + b + c = a + (b + c) BY <1>6, SMT
<1> HIDE DEF T
<1>10. f.C = k /\ SetFact(f, T, z, H) BY <1>2, <1>3, <1>5, <1>7, <1>8, FlagsAre
<1>11. SetFact(f, x + (y + c), z, half) BY <1>4, <1>9, <1>10 DEF SetFact
<1>12. R + Num(f.C) * Radix = a + (b + c) BY <1>2, <1>9, <1>10
<1> QED BY <1>2, <1>11, <1>12 DEF R, f, x, y, z, half, ByteFact, CarryIs, SumIs, Total

\* SUB, CP, NEG, SBC and CPC, for any Z.
LEMMA SubFlags ==
  ASSUME SREG \in Flags, NEW a \in Byte, NEW b \in Byte, NEW c \in {0, 1}, NEW z \in BOOLEAN
  PROVE  LET R == (a - b - c) % Radix
         IN  ByteFact("sub", a, b, c, R, AfterSub(a, b, R, z), z, Low4(a) - Low4(b) - c < 0)
<1> DEFINE R == (a - b - c) % Radix
           f == AfterSub(a, b, R, z)
           x == Signed(a, Radix)
           y == Signed(b, Radix)
           T == x - y - c
           k == Borrows(Bit7(a), Bit7(b), Bit7(R))
           V == SubOverflow(Bit7(a), Bit7(b), Bit7(R))
           H == Borrows(Bit3(a), Bit3(b), Bit3(R))
           half == Low4(a) - Low4(b) - c < 0
<1>1. BorrowFact(Half, Radix, a, b, c, R) BY ByteRange, BorrowOut
<1>2. R \in Byte /\ R + b + c = a + Num(k) * Radix BY <1>1, ByteRange DEF BorrowFact, Bit7
<1>3. SignFact(Half, V, R, T)
  <2>1. SignFact(Half, SubOverflow(a >= Half, b >= Half, R >= Half), R, T) BY ByteRange, SignedDifference
  <2> QED BY <2>1 DEF Bit7
<1>4. H <=> half BY HalfBorrow
<1>5. k \in BOOLEAN /\ V \in BOOLEAN /\ H \in BOOLEAN BY DEF Borrows, SubOverflow
<1>6. x \in Int /\ y \in Int /\ b \in Int /\ R \in Int BY <1>2, ByteRange
<1>7. SetTo(f, R, V, k, z, H) BY DEF AfterSub, SetTo
<1> HIDE DEF R, f, k, V, H, x, y, half
<1>8. T \in Int BY <1>6
<1>9. T = x - (y + c) /\ R + b + c = R + (b + c) BY <1>6, SMT
<1> HIDE DEF T
<1>10. f.C = k /\ SetFact(f, T, z, H) BY <1>2, <1>3, <1>5, <1>7, <1>8, FlagsAre
<1>11. SetFact(f, x - (y + c), z, half) BY <1>4, <1>9, <1>10 DEF SetFact
<1>12. R + (b + c) = a + Num(f.C) * Radix BY <1>2, <1>9, <1>10
<1> QED BY <1>2, <1>11, <1>12 DEF R, f, x, y, half, ByteFact, CarryIs, DifferenceIs, Total
-----------------------------------------------------------------------------
(* Growing a chain of additions or of subtractions *)

Below(kind, w, d, s, res, c) ==
    /\ w \in Nat \ {0} /\ d \in Nat /\ s \in Nat /\ res \in Nat /\ c \in {0, 1}
    /\ CarryIs(kind, res, c, w, d, s)
OnTop(kind, a, b, c, R, k) ==
    /\ a \in Byte /\ b \in Byte /\ R \in Byte /\ c \in {0, 1} /\ k \in {0, 1}
    /\ CarryIs(kind, R, k, Radix, a, b + c)
Grown(kind, w, d, s, res, a, b, R, k) ==
    CarryIs(kind, res + w * R, k, w * Radix, d + w * a, s + w * b)

\* With a byte on top and the carry c from below, the carry stays right ...
LEMMA CarryGrows ==
  ASSUME NEW kind \in {"add", "sub"}, NEW w, NEW d, NEW s, NEW res, NEW c,
         NEW a, NEW b, NEW R, NEW k,
         Below(kind, w, d, s, res, c), OnTop(kind, a, b, c, R, k)
  PROVE  Grown(kind, w, d, s, res, a, b, R, k)
<1>0. /\ w \in Nat \ {0} /\ d \in Nat /\ s \in Nat /\ res \in Nat /\ c \in {0, 1} /\ k \in {0, 1}
      /\ a \in Byte /\ b \in Byte /\ R \in Byte
      /\ CarryIs(kind, res, c, w, d, s) /\ CarryIs(kind, R, k, Radix, a, b + c)
      BY DEF Below, OnTop
<1>1. a \in Nat /\ b \in Nat /\ R \in Nat /\ Radix \in Nat BY <1>0, RadixAssumption DEF Byte
<1>2. CASE kind = "add"
  <2>1. SumIs(res, c, w, d, s) BY <1>0, <1>2 DEF CarryIs
  <2>2. R + k * Radix = a + (b + c) BY <1>0, <1>2 DEF CarryIs, SumIs
  <2>3. R + k * Radix = a + b + c BY <1>0, <1>1, <2>2, SMT
  <2>4. SumIs(res + w * R, k, w * Radix, d + w * a, s + w * b) BY <2>1, <2>3, <1>0, AddGrows
  <2> QED BY <2>4, <1>2 DEF CarryIs, Grown
<1>3. CASE kind = "sub"
  <2>1. DifferenceIs(res, c, w, d, s) BY <1>0, <1>3 DEF CarryIs
  <2>2. R + (b + c) = a + k * Radix BY <1>0, <1>3 DEF CarryIs, DifferenceIs
  <2>3. R + b + c = a + k * Radix BY <1>0, <1>1, <2>2, SMT
  <2>4. DifferenceIs(res + w * R, k, w * Radix, d + w * a, s + w * b) BY <2>1, <2>3, <1>0, SubGrows
  <2> QED BY <2>4, <1>3 DEF CarryIs, Grown
<1> QED BY <1>2, <1>3

\* ... and the exact signed result is the result below and the byte's exact result on top.
LEMMA TotalGrows ==
  ASSUME NEW kind \in {"add", "sub"},
         NEW w \in Nat \ {0}, NEW d \in 0 .. w - 1, NEW s \in 0 .. w - 1, NEW res \in 0 .. w - 1,
         NEW c \in {0, 1}, NEW a \in Byte, NEW b \in Byte,
         CarryIs(kind, res, c, w, d, s)
  PROVE  Total(kind, Signed(d + w * a, w * Radix), Signed(s + w * b, w * Radix))
           = res + w * Total(kind, Signed(a, Radix), Signed(b, Radix) + c)
<1> DEFINE x == Signed(a, Radix)
           y == Signed(b, Radix)
<1>1. x \in Int /\ y \in Int BY ByteRange
<1>2. Signed(d + w * a, w * Radix) = d + w * x BY SignedGrows
<1>3. Signed(s + w * b, w * Radix) = s + w * y BY SignedGrows
<1> HIDE DEF x, y
<1> DEFINE p == w * x
           q == w * y
           t == c * w
<1>4. p \in Int /\ q \in Int /\ t \in Int BY <1>1, SMT
<1>5. /\ w * (x + (y + c)) = p + q + t
      /\ w * (x - (y + c)) = p - q - t
      BY <1>1, SMT
<1> HIDE DEF p, q, t
<1>6. CASE kind = "add"
  <2>1. res + t = d + s BY <1>6 DEF CarryIs, SumIs, t
  <2>2. (d + p) + (s + q) = res + (p + q + t) BY <2>1, <1>4, SMT
  <2>3. (d + p) + (s + q) = res + w * (x + (y + c)) BY <2>2, <1>5
  <2> QED BY <1>6, <1>2, <1>3, <2>3 DEF Total, p, q, x, y
<1>7. CASE kind = "sub"
  <2>1. res + s = d + t BY <1>7 DEF CarryIs, DifferenceIs, t
  <2>2. (d + p) - (s + q) = res + (p - q - t) BY <2>1, <1>4, SMT
  <2>3. (d + p) - (s + q) = res + w * (x - (y + c)) BY <2>2, <1>5
  <2> QED BY <1>7, <1>2, <1>3, <2>3 DEF Total, p, q, x, y
<1> QED BY <1>6, <1>7

\* What the flags f must say of a result of value v in a number of w values.
SignedFact(f, v, w) == /\ f.S <=> v < 0
                       /\ f.V <=> (2 * v < 0 - w \/ 2 * v >= w)
                       /\ f.N <=> (f.S # f.V)

\* A byte's flags say it of the whole number.
LEMMA SignedFactGrows ==
  ASSUME NEW w \in Nat \ {0}, NEW low \in 0 .. w - 1, NEW T,
         NEW f, NEW z, NEW H, SetFact(f, T, z, H)
  PROVE  low + w * T \in Int /\ SignedFact(f, low + w * T, w * Radix)
<1> DEFINE v == low + w * T
<1>1. Half \in Nat /\ T \in Int /\ w * Radix = w * (2 * Half) BY WidthAssumption DEF SetFact
<1> HIDE DEF v
<1>2. v = low + w * T BY DEF v
<1>3. v \in Int /\ (v < 0 <=> T < 0) BY <1>1, <1>2, Scale
<1>4. (2 * v < 0 - w * (2 * Half)) <=> T < 0 - Half BY <1>1, <1>2, Scale
<1>5. (2 * v >= w * (2 * Half)) <=> T >= Half BY <1>1, <1>2, Scale
<1>6. /\ f.V <=> (T < 0 - Half \/ T >= Half)
      /\ f.S <=> T < 0
      /\ f.N <=> (f.S # f.V)
      BY DEF SetFact
<1>7. f.V <=> (2 * v < 0 - w * Radix \/ 2 * v >= w * Radix) BY <1>1, <1>4, <1>5, <1>6
<1> QED BY <1>3, <1>6, <1>7 DEF SignedFact, v
-----------------------------------------------------------------------------
(* The invariant after an addition or subtraction *)

\* The flags after a byte make the exact result right ...
LEMMA ExactGood ==
  ASSUME NEW w \in Nat, NEW v \in Int, NEW H \in BOOLEAN,
         NEW f, SignedFact(f, v, w), f.H <=> H
  PROVE  LET e == [width |-> w, value |-> v, half |-> H] IN ExactType(e) /\ ExactMeans(e, f)
BY DEF ExactType, ExactMeans, SignedFact

\* ... and start a chain, when Z is that of the byte.
LEMMA StartGood ==
  ASSUME NEW kind \in {"add", "sub"}, NEW a \in Byte, NEW b \in Byte, NEW H \in BOOLEAN,
         NEW R, NEW f, ByteFact(kind, a, b, 0, R, f, R = 0, H)
  PROVE  LET c == Start(kind, a, b, R) IN Good(c, Exact(c, H), f)
<1> DEFINE c == Start(kind, a, b, R)
           x == Signed(a, Radix)
           y == Signed(b, Radix)
           v == Total(kind, x, y)
<1>1. /\ a \in Nat /\ b \in Nat /\ R \in Nat /\ Radix \in Nat \ {0} /\ R < Radix /\ a < Radix /\ b < Radix
      /\ x \in Int /\ y \in Int
      BY ByteRange, SMT DEF ByteFact
<1>2. b + 0 = b /\ y + 0 = y BY <1>1, SMT
<1>3. CarryIs(kind, R, Num(f.C), Radix, a, b) BY <1>2 DEF ByteFact
<1>4. SetFact(f, v, R = 0, H) BY <1>2 DEF ByteFact
<1>5. /\ c.kind = kind /\ c.n = 1 /\ c.w = Radix /\ c.d = a /\ c.s = b /\ c.res = R /\ c.zero = TRUE
      /\ ChainType(c)
      BY <1>1, MaxBytesAssumption DEF Start, ChainType, Chains, Kinds
<1>6. Exact(c, H) = [width |-> Radix, value |-> v, half |-> H]
      BY <1>5 DEF Exact, Total
<1>7. f \in Flags /\ v \in Int /\ (f.Z <=> R = 0) /\ (f.H <=> H) BY <1>4 DEF SetFact
<1> HIDE DEF c, v
<1>8. SignedFact(f, v, Radix)
  <2>1. f.V <=> (v < 0 - Half \/ v >= Half) BY <1>4 DEF SetFact
  <2>2. /\ v < 0 - Half <=> 2 * v < 0 - Radix
        /\ v >= Half <=> 2 * v >= Radix
        BY <1>7, ByteRange, SMT
  <2>3. f.V <=> (2 * v < 0 - Radix \/ 2 * v >= Radix) BY <2>1, <2>2, Zenon
  <2>4. (f.S <=> v < 0) /\ (f.N <=> (f.S # f.V)) BY <1>4 DEF SetFact
  <2> QED BY <2>3, <2>4 DEF SignedFact
<1>9. ExactType(Exact(c, H)) /\ ExactMeans(Exact(c, H), f) BY <1>1, <1>6, <1>7, <1>8, ExactGood
<1>10. CarryMeans(c, f)
  <2>1. CASE kind = "add" BY <2>1, <1>3, <1>5 DEF CarryMeans, CarryIs
  <2>2. CASE kind = "sub" BY <2>2, <1>3, <1>5 DEF CarryMeans, CarryIs
  <2> QED BY <2>1, <2>2
<1>11. ZeroMeans(c, f) BY <1>5, <1>7 DEF ZeroMeans
<1> QED BY <1>5, <1>7, <1>9, <1>10, <1>11 DEF Good, c

\* A chain that does not go on is none.
LEMMA BrokenGood ==
  ASSUME NEW f \in Flags, NEW H \in BOOLEAN
  PROVE  Exact(Broken, H) = None /\ Good(Broken, None, f)
BY DEF Exact, Good, Broken, None, ChainType, ExactType, CarryMeans, ZeroMeans, ExactMeans, Kinds

\* A byte continues the chain; z is what Z is said to mean of the whole afterwards.
LEMMA ContinueGood ==
  ASSUME NEW kind \in {"add", "sub"}, Good(chain, exact, SREG),
         NEW a \in Byte, NEW b \in Byte, NEW H \in BOOLEAN, NEW z \in BOOLEAN, NEW zf \in BOOLEAN,
         NEW R, NEW f, ByteFact(kind, a, b, C, R, f, zf, H),
         z /\ chain.kind = kind => chain.zero /\ zf = (SREG.Z /\ R = 0)
  PROVE  LET c == Continue(kind, a, b, R, z) IN Good(c, Exact(c, H), f)
<1> DEFINE c == Continue(kind, a, b, R, z)
           x == Signed(a, Radix)
           y == Signed(b, Radix)
           T == Total(kind, x, y + C)
<1>0. f \in Flags BY DEF ByteFact, SetFact
<1>1. CASE ~(chain.kind = kind /\ chain.n < MaxBytes)
      BY <1>0, <1>1, BrokenGood DEF Continue
<1>2. CASE chain.kind = kind /\ chain.n < MaxBytes
  <2> DEFINE w == chain.w
             d == chain.d
             s == chain.s
             res == chain.res
             v == res + w * T
  <2>1. chain \in Chains /\ d < w /\ s < w /\ res < w
        BY <1>2 DEF Good, ChainType, Broken, Kinds
  <2>2. /\ w \in Nat \ {0} /\ d \in 0 .. w - 1 /\ s \in 0 .. w - 1 /\ res \in 0 .. w - 1
        /\ chain.n \in Nat /\ MaxBytes \in Nat
        BY <2>1, MaxBytesAssumption, SMT DEF Chains
  <2>3. C \in {0, 1} /\ Num(f.C) \in {0, 1} /\ R \in Byte
        BY DEF C, Num, ByteFact
  <2>4. CarryIs(kind, res, C, w, d, s)
    <3>1. CarryMeans(chain, SREG) BY DEF Good
    <3>2. CASE kind = "add" BY <1>2, <3>1, <3>2 DEF CarryMeans, CarryIs, C
    <3>3. CASE kind = "sub" BY <1>2, <3>1, <3>3 DEF CarryMeans, CarryIs, C
    <3> QED BY <3>2, <3>3
  <2>5. CarryIs(kind, R, Num(f.C), Radix, a, b + C) /\ SetFact(f, T, zf, H) BY DEF ByteFact
  <2>6. /\ c = Extended(a, b, R, z)
        /\ c = [kind |-> kind, n |-> chain.n + 1, w |-> w * Radix, d |-> d + w * a,
                s |-> s + w * b, res |-> res + w * R, zero |-> z]
        BY <1>2, <2>1 DEF Continue, Extended, Chains
  <2> HIDE DEF c, w, d, s, res, T, x, y
  <2>7. /\ w * Radix \in Nat \ {0}
        /\ d + w * a \in 0 .. w * Radix - 1
        /\ s + w * b \in 0 .. w * Radix - 1
        /\ res + w * R \in 0 .. w * Radix - 1
        /\ res + w * R = 0 <=> res = 0 /\ R = 0
        BY <2>2, <2>3, Grows
  <2>8. CarryIs(kind, res + w * R, Num(f.C), w * Radix, d + w * a, s + w * b)
    <3>1. Below(kind, w, d, s, res, C) BY <2>2, <2>3, <2>4 DEF Below
    <3>2. OnTop(kind, a, b, C, R, Num(f.C)) BY <2>3, <2>5 DEF OnTop
    <3>3. Grown(kind, w, d, s, res, a, b, R, Num(f.C)) BY <3>1, <3>2, CarryGrows
    <3> QED BY <3>3 DEF Grown
  <2>9. Total(kind, Signed(d + w * a, w * Radix), Signed(s + w * b, w * Radix)) = v
        BY <2>2, <2>3, <2>4, TotalGrows DEF T, x, y
  <2>10. v \in Int /\ SignedFact(f, v, w * Radix) BY <2>2, <2>5, SignedFactGrows
  <2> HIDE DEF v
  <2> DEFINE W == w * Radix
             D == d + w * a
             S == s + w * b
             Q == res + w * R
  <2>11. /\ W \in Nat /\ D \in Nat /\ S \in Nat /\ Q \in Nat /\ D < W /\ S < W /\ Q < W
         /\ chain.n + 1 \in 1 .. MaxBytes + 1
         BY <1>2, <2>2, <2>7, SMT
  <2>12. c = [kind |-> kind, n |-> chain.n + 1, w |-> W, d |-> D, s |-> S, res |-> Q, zero |-> z]
         BY <2>6
  <2>13. Total(kind, Signed(D, W), Signed(S, W)) = v BY <2>9
  <2>14. SignedFact(f, v, W) /\ CarryIs(kind, Q, Num(f.C), W, D, S) BY <2>8, <2>10
  <2>15. Q = 0 <=> res = 0 /\ R = 0 BY <2>7
  <2> HIDE DEF W, D, S, Q
  <2>16. /\ c.kind = kind /\ c.w = W /\ c.d = D /\ c.s = S /\ c.res = Q /\ c.zero = z
         /\ ChainType(c)
         BY <2>11, <2>12 DEF ChainType, Chains, Kinds
  <2>17. Exact(c, H) = [width |-> W, value |-> v, half |-> H]
         BY <2>13, <2>16 DEF Exact, Total
  <2>18. f.H <=> H BY <2>5 DEF SetFact
  <2>19. ExactType(Exact(c, H)) /\ ExactMeans(Exact(c, H), f)
         BY <2>10, <2>11, <2>14, <2>17, <2>18, ExactGood
  <2>20. CarryMeans(c, f)
    <3>1. CASE kind = "add" BY <3>1, <2>14, <2>16 DEF CarryMeans, CarryIs
    <3>2. CASE kind = "sub" BY <3>2, <2>14, <2>16 DEF CarryMeans, CarryIs
    <3> QED BY <3>1, <3>2
  <2>21. ZeroMeans(c, f)
    <3> SUFFICES ASSUME z PROVE f.Z <=> Q = 0 BY <2>16 DEF ZeroMeans
    <3>1. chain.zero /\ (f.Z <=> (SREG.Z /\ R = 0)) BY <1>2, <2>5 DEF SetFact
    <3>2. SREG.Z <=> res = 0 BY <1>2, <3>1 DEF Good, ZeroMeans, Kinds, res
    <3> QED BY <3>1, <3>2, <2>15
  <2> QED BY <1>0, <2>16, <2>19, <2>20, <2>21 DEF Good, c
<1> QED BY <1>1, <1>2
-----------------------------------------------------------------------------
(* The instructions *)

\* The registers hold bytes.
LEMMA Registers ==
  ASSUME IInv, NEW d \in Register PROVE r[d] \in Byte
BY DEF IInv

\* ADD and LSL.
LEMMA AddStep ==
  ASSUME IInv, NEW d \in Register, NEW s \in Register, Add(d, s) PROVE IInv'
<1> DEFINE a == r[d]
           b == r[s]
           R == (a + b) % Radix
           H == Low4(a) + Low4(b) >= 2 * Nibble
<1>1. a \in Byte /\ b \in Byte /\ a + b + 0 = a + b
      BY Registers, ByteRange, SMT
<1>2. Low4(a) + Low4(b) + 0 = Low4(a) + Low4(b)
  <2>1. r[d] \in Nat /\ r[s] \in Nat BY Registers, ByteRange
  <2>2. Low4(r[d]) \in Int /\ Low4(r[s]) \in Int BY <2>1, LowNibble
  <2> QED BY <2>2
<1>3. SREG \in Flags BY DEF IInv, Good
<1>4. ByteFact("add", a, b, 0, (a + b + 0) % Radix, AfterAdd(a, b, (a + b + 0) % Radix),
               (a + b + 0) % Radix = 0, Low4(a) + Low4(b) + 0 >= 2 * Nibble)
      BY <1>1, <1>3, AddFlags
<1>5. ByteFact("add", a, b, 0, R, AfterAdd(a, b, R), R = 0, H) BY <1>1, <1>2, <1>4
<1>6. /\ r' = [r EXCEPT ![d] = R] /\ SREG' = AfterAdd(a, b, R)
      /\ chain' = Start("add", a, b, R) /\ exact' = Exact(chain', H)
      BY DEF Add
<1>7. R \in Byte BY <1>5 DEF ByteFact
<1> HIDE DEF R, H, a, b
<1>8. Good(chain', exact', SREG')
  <2>1. H \in BOOLEAN BY DEF H
  <2>2. Good(Start("add", a, b, R), Exact(Start("add", a, b, R), H), AfterAdd(a, b, R))
        BY <1>1, <1>5, <2>1, StartGood
  <2> QED BY <1>6, <2>2
<1>9. r' \in [Register -> Byte] BY <1>6, <1>7 DEF IInv
<1> QED BY <1>8, <1>9 DEF IInv

\* ADC and ROL.
LEMMA AdcStep ==
  ASSUME IInv, NEW d \in Register, NEW s \in Register, Adc(d, s) PROVE IInv'
<1> DEFINE a == r[d]
           b == r[s]
           R == (a + b + C) % Radix
           H == Low4(a) + Low4(b) + C >= 2 * Nibble
           f == AfterAdd(a, b, R)
           c == Continue("add", a, b, R, FALSE)
<1>1. a \in Byte /\ b \in Byte /\ C \in {0, 1} BY Registers DEF C, Num
<1>2. SREG \in Flags /\ Good(chain, exact, SREG) BY DEF IInv, Good
<1>3. ByteFact("add", a, b, C, R, f, R = 0, H) BY <1>1, <1>2, AddFlags
<1>4. /\ r' = [r EXCEPT ![d] = R] /\ SREG' = f /\ chain' = c /\ exact' = Exact(chain', H)
      BY DEF Adc
<1>5. R \in Byte BY <1>3 DEF ByteFact
<1>6. H \in BOOLEAN OBVIOUS
<1> HIDE DEF R, H, a, b, f
<1>7. Good(c, Exact(c, H), f) BY <1>1, <1>2, <1>3, <1>6, ContinueGood
<1>8. r' \in [Register -> Byte] BY <1>4, <1>5 DEF IInv
<1> QED BY <1>4, <1>7, <1>8 DEF IInv

\* SUB, CP and NEG.
LEMMA SubtractStep ==
  ASSUME IInv, NEW a \in Byte, NEW b \in Byte, Subtract(a, b)
  PROVE  (a - b) % Radix \in Byte /\ Good(chain', exact', SREG')
<1> DEFINE R == (a - b) % Radix
           z == R = 0
           H == Low4(a) - Low4(b) < 0
<1>1. a - b - 0 = a - b BY ByteRange, SMT
<1>2. Low4(a) - Low4(b) - 0 = Low4(a) - Low4(b)
  <2>1. Low4(a) \in Int /\ Low4(b) \in Int BY ByteRange, LowNibble
  <2> QED BY <2>1
<1>3. SREG \in Flags /\ z \in BOOLEAN BY DEF IInv, Good
<1> HIDE DEF z
<1>4. ByteFact("sub", a, b, 0, (a - b - 0) % Radix, AfterSub(a, b, (a - b - 0) % Radix, z), z,
               Low4(a) - Low4(b) - 0 < 0)
      BY <1>3, SubFlags
<1>5. ByteFact("sub", a, b, 0, R, AfterSub(a, b, R, z), z, H) BY <1>1, <1>2, <1>4
<1>6. ByteFact("sub", a, b, 0, R, AfterSub(a, b, R, R = 0), R = 0, H) BY <1>5 DEF z
<1>7. /\ SREG' = AfterSub(a, b, R, R = 0)
      /\ chain' = Start("sub", a, b, R) /\ exact' = Exact(chain', H)
      BY DEF Subtract
<1>8. R \in Byte /\ H \in BOOLEAN BY <1>5 DEF ByteFact
<1> HIDE DEF R, H
<1>9. Good(Start("sub", a, b, R), Exact(Start("sub", a, b, R), H), AfterSub(a, b, R, R = 0))
      BY <1>6, <1>8, StartGood
<1>10. Good(chain', exact', SREG') BY <1>7, <1>9
<1> QED BY <1>8, <1>10 DEF R

\* SBC and CPC.
LEMMA SubtractCarryStep ==
  ASSUME IInv, NEW a \in Byte, NEW b \in Byte, SubtractCarry(a, b)
  PROVE  (a - b - C) % Radix \in Byte /\ Good(chain', exact', SREG')
<1> DEFINE R == (a - b - C) % Radix
           zf == ClearZ(R)
           H == Low4(a) - Low4(b) - C < 0
           f == AfterSub(a, b, R, zf)
           z == chain.kind = "sub" /\ chain.zero
           c == Continue("sub", a, b, R, z)
<1>1. C \in {0, 1} BY DEF C, Num
<1>2. SREG \in Flags /\ Good(chain, exact, SREG) BY DEF IInv, Good
<1>3. zf = (SREG.Z /\ R = 0) /\ zf \in BOOLEAN BY <1>2 DEF ClearZ, Flags
<1> HIDE DEF zf
<1>4. ByteFact("sub", a, b, C, R, f, zf, H) BY <1>1, <1>2, <1>3, SubFlags
<1>5. SREG' = f /\ chain' = c /\ exact' = Exact(chain', H) BY DEF SubtractCarry, zf
<1>6. R \in Byte /\ H \in BOOLEAN BY <1>4 DEF ByteFact
<1>7. z \in BOOLEAN
  <2>1. CASE chain.kind = "sub" BY <1>2, <2>1 DEF Good, ChainType, Chains, Broken
  <2>2. CASE chain.kind # "sub" BY <2>2
  <2> QED BY <2>1, <2>2
<1>8. z => chain.zero OBVIOUS
<1> HIDE DEF R, H, f, z
<1>9. Good(c, Exact(c, H), f) BY <1>1, <1>2, <1>3, <1>4, <1>6, <1>7, <1>8, ContinueGood
<1> QED BY <1>5, <1>6, <1>9 DEF R

\* SUB, SUBI; SBC, SBCI; CP, CPI; CPC; NEG.
LEMMA SubtractionsStep ==
  ASSUME IInv, NEW d \in Register, NEW s \in Register, NEW b \in Byte,
         Sub(d, b) \/ Sbc(d, b) \/ Cp(d, b) \/ Cpc(d, s) \/ Neg(d)
  PROVE  IInv'
<1>1. r[d] \in Byte /\ r[s] \in Byte /\ 0 \in Byte BY Registers, ByteRange
<1>2. r \in [Register -> Byte] BY DEF IInv
<1>3. CASE Sub(d, b)
  <2>1. (r[d] - b) % Radix \in Byte /\ Good(chain', exact', SREG')
        BY <1>1, <1>3, SubtractStep DEF Sub
  <2> QED BY <1>2, <1>3, <2>1 DEF Sub, IInv
<1>4. CASE Sbc(d, b)
  <2>1. (r[d] - b - C) % Radix \in Byte /\ Good(chain', exact', SREG')
        BY <1>1, <1>4, SubtractCarryStep DEF Sbc
  <2> QED BY <1>2, <1>4, <2>1 DEF Sbc, IInv
<1>5. CASE Cp(d, b)
  <2>1. Good(chain', exact', SREG') BY <1>1, <1>5, SubtractStep DEF Cp
  <2> QED BY <1>2, <1>5, <2>1 DEF Cp, IInv
<1>6. CASE Cpc(d, s)
  <2>1. Good(chain', exact', SREG') BY <1>1, <1>6, SubtractCarryStep DEF Cpc
  <2> QED BY <1>2, <1>6, <2>1 DEF Cpc, IInv
<1>7. CASE Neg(d)
  <2>1. (0 - r[d]) % Radix \in Byte /\ Good(chain', exact', SREG')
        BY <1>1, <1>7, SubtractStep DEF Neg
  <2> QED BY <1>2, <1>7, <2>1 DEF Neg, IInv
<1> QED BY <1>3, <1>4, <1>5, <1>6, <1>7

\* What is known of ADIW and SBIW: words of m = 2 * h values, the exact result T.
WordFact(kind, m, h, a, b, R, f, V, T) ==
    /\ m \in Nat /\ m >= 2 /\ h \in Nat /\ m = 2 * h
    /\ a \in 0 .. m - 1 /\ b \in 0 .. m - 1 /\ R \in 0 .. m - 1
    /\ f \in Flags
    /\ f.Z <=> R = 0
    /\ f.V <=> V
    /\ f.N <=> R >= h
    /\ f.S <=> (f.N # f.V)
    /\ V \in BOOLEAN
    /\ CarryIs(kind, R, Num(f.C), m, a, b)
    /\ T = Total(kind, Signed(a, m), Signed(b, m))
    /\ SignFact(h, V, R, T)
WordChain(kind, m, a, b, R) ==
    [kind |-> kind, n |-> 2, w |-> m, d |-> a, s |-> b, res |-> R, zero |-> TRUE]

\* They compute a chain of two bytes at once.
LEMMA WordGood ==
  ASSUME NEW kind \in {"add", "sub"}, NEW m, NEW h, NEW a, NEW b, NEW R, NEW f, NEW V, NEW T,
         WordFact(kind, m, h, a, b, R, f, V, T),
         NEW c, c = WordChain(kind, m, a, b, R)
  PROVE  Good(c, Exact(c, f.H), f)
<1>0. /\ m \in Nat /\ m >= 2 /\ h \in Nat /\ m = 2 * h
      /\ a \in 0 .. m - 1 /\ b \in 0 .. m - 1 /\ R \in 0 .. m - 1
      /\ f \in Flags
      /\ CarryIs(kind, R, Num(f.C), m, a, b)
      /\ T = Total(kind, Signed(a, m), Signed(b, m))
      /\ SignFact(h, V, R, T)
      BY DEF WordFact
<1>1. /\ c.kind = kind /\ c.w = m /\ c.d = a /\ c.s = b /\ c.res = R /\ c.zero = TRUE
      BY DEF WordChain
<1>2. ChainType(c)
  <2>1. a \in Nat /\ b \in Nat /\ R \in Nat /\ a < m /\ b < m /\ R < m /\ 2 \in 1 .. MaxBytes + 1
        BY <1>0, MaxBytesAssumption, SMT
  <2>2. c \in Chains BY <1>0, <2>1 DEF Chains, Kinds, WordChain
  <2> QED BY <1>1, <2>1, <2>2 DEF ChainType
<1>3. Exact(c, f.H) = [width |-> m, value |-> T, half |-> f.H] BY <1>0, <1>1 DEF Exact, Total
<1>4. T \in Int
  <2>1. Signed(a, m) \in Int /\ Signed(b, m) \in Int BY <1>0, SMT DEF Signed
  <2> QED BY <1>0, <2>1 DEF Total
<1>5. SignedFact(f, T, m)
  <2>1. /\ T < 0 - h <=> 2 * T < 0 - m
        /\ T >= h <=> 2 * T >= m
        BY <1>0, <1>4, SMT
  <2>2. f.V <=> (2 * T < 0 - m \/ 2 * T >= m) BY <2>1 DEF SignFact, WordFact
  <2>3. f.S <=> T < 0
    <3>1. /\ V <=> f.V
          /\ f.N <=> R >= h
          /\ f.S <=> (f.N # f.V)
          /\ f.V \in BOOLEAN /\ f.N \in BOOLEAN /\ V \in BOOLEAN
          BY DEF WordFact, Flags
    <3>2. ((R >= h) # V) <=> T < 0 BY <1>0 DEF SignFact
    <3>3. (f.N # f.V) <=> ((R >= h) # V) BY <3>1
    <3> QED BY <3>1, <3>2, <3>3
  <2>4. f.N <=> (f.S # f.V)
    <3>1. /\ f.S <=> (f.N # f.V)
          /\ f.V \in BOOLEAN /\ f.N \in BOOLEAN /\ f.S \in BOOLEAN
          BY DEF WordFact, Flags
    <3> QED BY <3>1
  <2> QED BY <2>2, <2>3, <2>4 DEF SignedFact
<1>6. ExactType(Exact(c, f.H)) /\ ExactMeans(Exact(c, f.H), f)
      BY <1>0, <1>3, <1>4, <1>5, ExactGood DEF Flags
<1>7. CarryMeans(c, f) BY <1>0, <1>1 DEF CarryMeans, CarryIs
<1>8. ZeroMeans(c, f) BY <1>1 DEF ZeroMeans, WordFact
<1> QED BY <1>0, <1>2, <1>6, <1>7, <1>8 DEF Good

\* The pair as a word, its sign bit and its reduction.
LEMMA Words ==
  /\ Half * Radix \in Nat \ {0} /\ Radix * Radix \in Nat \ {0}
  /\ Radix * Radix = 2 * (Half * Radix)
  /\ Half * Radix >= Half
  /\ \A x \in 0 .. Radix * Radix - 1 : x \in Nat /\ High(x) \in Byte /\ Low(x) \in Byte
<1>1. Half \in Nat \ {0} /\ Radix \in Nat \ {0} /\ Radix = 2 * Half BY ByteRange
<1>2. /\ Half * Radix \in Nat \ {0} /\ Radix * Radix \in Nat \ {0}
      /\ Radix * Radix = 2 * (Half * Radix)
      /\ Half * Radix >= Half
      BY <1>1, SMT
<1>3. ASSUME NEW x \in 0 .. Radix * Radix - 1 PROVE x \in Nat /\ High(x) \in Byte /\ Low(x) \in Byte
  <2>1. x \in Word BY DEF Word, Top
  <2> QED BY <2>1, HighLowType, <1>2
<1> QED BY <1>2, <1>3

\* ADIW.
LEMMA AdiwStep ==
  ASSUME IInv, NEW K \in Small, Adiw(K) PROVE IInv'
<1> DEFINE a == Join(r[1], r[0])
           m == Radix * Radix
           h == Half * Radix
           R == (a + K) % m
           V == AddOverflow(a >= h, K >= h, R >= h)
           k == Carries(a >= h, K >= h, R >= h)
           f == SREG'
<1>1. r[0] \in Byte /\ r[1] \in Byte BY Registers DEF Register
<1>2. a \in 0 .. m - 1 BY <1>1, JoinType DEF Word, Top
<1>3. h \in Nat \ {0} /\ m \in Nat \ {0} /\ m = 2 * h /\ h >= Half BY Words
<1>4. K \in Nat /\ K < h BY <1>3, OperandAssumption, WidthAssumption, SMT
<1>5. f = [Signs(SREG, R >= h, V) EXCEPT !.C = k, !.Z = (R = 0)]
  <2>1. /\ ~(a >= h) /\ R >= h <=> V
        /\ ~(R >= h) /\ a >= h <=> k
        /\ (K >= h) = FALSE
        BY <1>2, <1>3, <1>4 DEF AddOverflow, Carries
  <2>2. (~(a >= h) /\ R >= h) = V /\ (~(R >= h) /\ a >= h) = k
        BY <2>1 DEF AddOverflow, Carries
  <2> QED BY <2>2 DEF Adiw, AfterWord, Bit15
<1>6. chain' = WordChain("add", m, a, K, R) BY DEF Adiw, Word16, WordChain
<1>7. exact' = Exact(chain', SREG.H) BY DEF Adiw
<1>8. r' = [i \in Register |-> IF i = 0 THEN Low(R) ELSE High(R)] BY DEF Adiw
<1>9. SREG \in Flags BY DEF IInv, Good
<1> DEFINE T == Signed(a, m) + Signed(K, m)
<1>10. CarryFact(h, m, a, K, 0, R) /\ SignFact(h, V, R, T) /\ K \in 0 .. m - 1 /\ R \in 0 .. m - 1
  <2>1. K \in 0 .. m - 1 BY <1>3, <1>4, SMT
  <2> HIDE DEF a, m, h
  <2>2. m \in Nat /\ a + K + 0 = a + K BY <1>2, <1>3, <1>4, SMT
  <2>3. CarryFact(h, m, a, K, 0, (a + K + 0) % m) BY <1>2, <1>3, <2>1, <2>2, CarryOut
  <2>4. SignFact(h, AddOverflow(a >= h, K >= h, (a + K + 0) % m >= h), (a + K + 0) % m,
                 Signed(a, m) + Signed(K, m) + 0)
        BY <1>2, <1>3, <2>1, <2>2, SignedSum
  <2>5. Signed(a, m) + Signed(K, m) + 0 = Signed(a, m) + Signed(K, m)
    <3>1. Signed(a, m) \in Int /\ Signed(K, m) \in Int BY <1>2, <1>3, <1>4, SMT DEF Signed
    <3> QED BY <3>1
  <2>6. R \in 0 .. m - 1 BY <2>2, <2>3 DEF CarryFact
  <2> QED BY <2>1, <2>2, <2>3, <2>4, <2>5, <2>6
<1>11. /\ R + Num(k) * m = a + K /\ k \in BOOLEAN /\ V \in BOOLEAN
  <2>1. R + Num(k) * m = a + K + 0 BY <1>10 DEF CarryFact
  <2>2. a + K + 0 = a + K BY <1>2, <1>3, <1>4, SMT
  <2> QED BY <2>1, <2>2 DEF Carries, AddOverflow
<1> HIDE DEF a, m, h, R, V, k, T
<1>12. WordFact("add", m, h, a, K, R, f, V, T) /\ f.H = SREG.H
  <2> DEFINE N == R >= h
             z == R = 0
             Sg == N # V
  <2>1. N \in BOOLEAN /\ z \in BOOLEAN /\ Sg \in BOOLEAN OBVIOUS
  <2>2. f = [[SREG EXCEPT !.N = N, !.V = V, !.S = Sg] EXCEPT !.C = k, !.Z = z] BY <1>5 DEF Signs
  <2>3. Sg <=> (N # V) OBVIOUS
  <2> HIDE DEF N, z, Sg
  <2>4. f = [C |-> k, Z |-> z, N |-> N, V |-> V, S |-> Sg, H |-> SREG.H] BY <1>9, <2>2 DEF Flags
  <2>5. /\ f \in Flags /\ f.C = k /\ f.Z = z /\ f.N = N /\ f.V = V /\ f.S = Sg /\ f.H = SREG.H
        BY <1>9, <1>11, <2>1, <2>4 DEF Flags
  <2>6. CarryIs("add", R, Num(f.C), m, a, K) BY <1>11, <2>5 DEF CarryIs, SumIs
  <2>7. T = Total("add", Signed(a, m), Signed(K, m)) BY DEF T, Total
  <2>8. m \in Nat /\ m >= 2 /\ h \in Nat /\ m = 2 * h BY <1>3, SMT
  <2>9. f.S <=> (f.N # f.V) BY <2>3, <2>5
  <2>10. (f.Z <=> R = 0) /\ (f.N <=> R >= h) /\ (f.V <=> V) BY <2>5 DEF z, N
  <2> HIDE DEF f
  <2> QED BY <1>2, <1>10, <1>11, <2>5, <2>6, <2>7, <2>8, <2>9, <2>10 DEF WordFact
<1>13. Good(chain', Exact(chain', f.H), f) BY <1>6, <1>12, WordGood
<1>14. r' \in [Register -> Byte]
  <2>1. Low(R) \in Byte /\ High(R) \in Byte BY <1>10, Words DEF m
  <2> QED BY <1>8, <2>1
<1> QED BY <1>7, <1>12, <1>13, <1>14 DEF IInv

\* SBIW.
LEMMA SbiwStep ==
  ASSUME IInv, NEW K \in Small, Sbiw(K) PROVE IInv'
<1> DEFINE a == Join(r[1], r[0])
           m == Radix * Radix
           h == Half * Radix
           R == (a - K) % m
           V == SubOverflow(a >= h, K >= h, R >= h)
           k == Borrows(a >= h, K >= h, R >= h)
           f == SREG'
<1>1. r[0] \in Byte /\ r[1] \in Byte BY Registers DEF Register
<1>2. a \in 0 .. m - 1 BY <1>1, JoinType DEF Word, Top
<1>3. h \in Nat \ {0} /\ m \in Nat \ {0} /\ m = 2 * h /\ h >= Half BY Words
<1>4. K \in Nat /\ K < h BY <1>3, OperandAssumption, WidthAssumption, SMT
<1>5. f = [Signs(SREG, R >= h, V) EXCEPT !.C = k, !.Z = (R = 0)]
  <2>1. /\ a >= h /\ ~(R >= h) <=> V
        /\ R >= h /\ ~(a >= h) <=> k
        /\ (K >= h) = FALSE
        BY <1>2, <1>3, <1>4 DEF SubOverflow, Borrows
  <2>2. (a >= h /\ ~(R >= h)) = V /\ (R >= h /\ ~(a >= h)) = k
        BY <2>1 DEF SubOverflow, Borrows
  <2> QED BY <2>2 DEF Sbiw, AfterWord, Bit15
<1>6. chain' = WordChain("sub", m, a, K, R) BY DEF Sbiw, Word16, WordChain
<1>7. exact' = Exact(chain', SREG.H) BY DEF Sbiw
<1>8. r' = [i \in Register |-> IF i = 0 THEN Low(R) ELSE High(R)] BY DEF Sbiw
<1>9. SREG \in Flags BY DEF IInv, Good
<1> DEFINE T == Signed(a, m) - Signed(K, m)
<1>10. BorrowFact(h, m, a, K, 0, R) /\ SignFact(h, V, R, T) /\ K \in 0 .. m - 1 /\ R \in 0 .. m - 1
  <2>1. K \in 0 .. m - 1 BY <1>3, <1>4, SMT
  <2> HIDE DEF a, m, h
  <2>2. m \in Nat /\ a - K - 0 = a - K BY <1>2, <1>3, <1>4, SMT
  <2>3. BorrowFact(h, m, a, K, 0, (a - K - 0) % m) BY <1>2, <1>3, <2>1, <2>2, BorrowOut
  <2>4. SignFact(h, SubOverflow(a >= h, K >= h, (a - K - 0) % m >= h), (a - K - 0) % m,
                 Signed(a, m) - Signed(K, m) - 0)
        BY <1>2, <1>3, <2>1, <2>2, SignedDifference
  <2>5. Signed(a, m) - Signed(K, m) - 0 = Signed(a, m) - Signed(K, m)
    <3>1. Signed(a, m) \in Int /\ Signed(K, m) \in Int BY <1>2, <1>3, <1>4, SMT DEF Signed
    <3> QED BY <3>1
  <2>6. R \in 0 .. m - 1 BY <2>2, <2>3 DEF BorrowFact
  <2> QED BY <2>1, <2>2, <2>3, <2>4, <2>5, <2>6
<1>11. /\ R + K = a + Num(k) * m /\ k \in BOOLEAN /\ V \in BOOLEAN
  <2>1. R + K + 0 = a + Num(k) * m BY <1>10 DEF BorrowFact
  <2>2. R + K + 0 = R + K BY <1>4, <1>10, <1>3, SMT
  <2> QED BY <2>1, <2>2 DEF Borrows, SubOverflow
<1> HIDE DEF a, m, h, R, V, k, T
<1>12. WordFact("sub", m, h, a, K, R, f, V, T) /\ f.H = SREG.H
  <2> DEFINE N == R >= h
             z == R = 0
             Sg == N # V
  <2>1. N \in BOOLEAN /\ z \in BOOLEAN /\ Sg \in BOOLEAN OBVIOUS
  <2>2. f = [[SREG EXCEPT !.N = N, !.V = V, !.S = Sg] EXCEPT !.C = k, !.Z = z] BY <1>5 DEF Signs
  <2>3. Sg <=> (N # V) OBVIOUS
  <2> HIDE DEF N, z, Sg
  <2>4. f = [C |-> k, Z |-> z, N |-> N, V |-> V, S |-> Sg, H |-> SREG.H] BY <1>9, <2>2 DEF Flags
  <2>5. /\ f \in Flags /\ f.C = k /\ f.Z = z /\ f.N = N /\ f.V = V /\ f.S = Sg /\ f.H = SREG.H
        BY <1>9, <1>11, <2>1, <2>4 DEF Flags
  <2>6. CarryIs("sub", R, Num(f.C), m, a, K) BY <1>11, <2>5 DEF CarryIs, DifferenceIs
  <2>7. T = Total("sub", Signed(a, m), Signed(K, m)) BY DEF T, Total
  <2>8. m \in Nat /\ m >= 2 /\ h \in Nat /\ m = 2 * h BY <1>3, SMT
  <2>9. f.S <=> (f.N # f.V) BY <2>3, <2>5
  <2>10. (f.Z <=> R = 0) /\ (f.N <=> R >= h) /\ (f.V <=> V) BY <2>5 DEF z, N
  <2> HIDE DEF f
  <2> QED BY <1>2, <1>10, <1>11, <2>5, <2>6, <2>7, <2>8, <2>9, <2>10 DEF WordFact
<1>13. Good(chain', Exact(chain', f.H), f) BY <1>6, <1>12, WordGood
<1>14. r' \in [Register -> Byte]
  <2>1. Low(R) \in Byte /\ High(R) \in Byte BY <1>10, Words DEF m
  <2> QED BY <1>8, <2>1
<1> QED BY <1>7, <1>12, <1>13, <1>14 DEF IInv

ChainGood(c, f) == ChainType(c) /\ CarryMeans(c, f) /\ ZeroMeans(c, f)

\* What leaves C alone leaves a chain right, but for what Z says of it.
LEMMA InterruptedGood ==
  ASSUME Good(chain, exact, SREG), NEW f, f.C = SREG.C PROVE ChainGood(Interrupted, f)
<1>1. CASE chain.kind \in Kinds
  <2>1. chain \in Chains /\ chain.d < chain.w /\ chain.s < chain.w /\ chain.res < chain.w
        BY <1>1 DEF Good, ChainType, Broken, Kinds
  <2> DEFINE c == Interrupted
  <2>2. c = [chain EXCEPT !.zero = FALSE] BY <1>1 DEF Interrupted, Kinds
  <2>3. /\ c.kind = chain.kind /\ c.w = chain.w /\ c.d = chain.d /\ c.s = chain.s
        /\ c.res = chain.res /\ c.zero = FALSE /\ c \in Chains
        BY <2>1, <2>2 DEF Chains
  <2>4. CarryMeans(chain, SREG) BY DEF Good
  <2> HIDE DEF c
  <2>5. CarryMeans(c, f) BY <2>3, <2>4 DEF CarryMeans
  <2>6. ChainType(c) /\ ZeroMeans(c, f) BY <2>1, <2>3 DEF ChainType, ZeroMeans
  <2> QED BY <2>5, <2>6 DEF c, ChainGood
<1>2. CASE chain.kind \notin Kinds
  <2>1. Interrupted = Broken BY <1>2 DEF Interrupted, Kinds
  <2> QED BY <2>1 DEF ChainGood, ChainType, CarryMeans, ZeroMeans, Broken, Kinds
<1> QED BY <1>1, <1>2

\* Four flags set and two left alone.
FourSet(f, g, N, V, S, z) == f = [[g EXCEPT !.N = N, !.V = V, !.S = S] EXCEPT !.Z = z]
FourFact(f, g, N, V, S, z) ==
    f \in Flags /\ f.C = g.C /\ f.H = g.H /\ f.N = N /\ f.V = V /\ f.S = S /\ f.Z = z

\* The record they make.
LEMMA FourFlags ==
  ASSUME NEW g \in Flags, NEW N \in BOOLEAN, NEW V \in BOOLEAN, NEW S \in BOOLEAN, NEW z \in BOOLEAN,
         NEW f, FourSet(f, g, N, V, S, z)
  PROVE  FourFact(f, g, N, V, S, z)
<1>1. f = [C |-> g.C, Z |-> z, N |-> N, V |-> V, S |-> S, H |-> g.H] BY DEF FourSet, Flags
<1>2. g.C \in BOOLEAN /\ g.H \in BOOLEAN BY DEF Flags
<1> QED BY <1>1, <1>2 DEF FourFact, Flags

\* INC and DEC: the overflow of one.
LEMMA IncSigns ==
  ASSUME NEW h \in Nat \ {0}, NEW m \in Nat, m = 2 * h, NEW a \in 0 .. m - 1
  PROVE  LET R == (a + 1) % m IN R \in 0 .. m - 1 /\ SignFact(h, R = h, R, Signed(a, m) + 1)
<1> DEFINE R == (a + 1) % m
           e == Signed(a, m) + 1
<1>1. m \in Nat \ {0} /\ a + 1 \in 0 .. 2 * m - 1 BY SMT
<1> DEFINE x == a + 1
<1> HIDE DEF x
<1>2. x \in 0 .. 2 * m - 1 BY <1>1 DEF x
<1>3. x % m = IF x < m THEN x ELSE x - m BY <1>1, <1>2, ModSum
<1>4. R = IF a + 1 < m THEN a + 1 ELSE a + 1 - m BY <1>3 DEF x
<1>5. e = (IF a >= h THEN a - m ELSE a) + 1 BY SMT DEF Signed
<1> HIDE DEF R, e
<1>6. R \in 0 .. m - 1 BY <1>4, SMT
<1>7. (R = h) <=> (e < 0 - h \/ e >= h) BY <1>4, <1>5, SMT
<1>8. ((R >= h) # (R = h)) <=> e < 0 BY <1>4, <1>5, SMT
<1> QED BY <1>6, <1>7, <1>8 DEF SignFact, R, e

\* The same for DEC.
LEMMA DecSigns ==
  ASSUME NEW h \in Nat \ {0}, NEW m \in Nat, m = 2 * h, NEW a \in 0 .. m - 1
  PROVE  LET R == (a - 1) % m IN R \in 0 .. m - 1 /\ SignFact(h, R = h - 1, R, Signed(a, m) - 1)
<1> DEFINE R == (a - 1) % m
           e == Signed(a, m) - 1
           x == a - 1
<1>1. m \in Nat \ {0} /\ x \in 0 - m .. m - 1 BY SMT
<1> HIDE DEF x
<1>3. x % m = IF x >= 0 THEN x ELSE x + m BY <1>1, ModDifference
<1>4. R = IF a - 1 >= 0 THEN a - 1 ELSE a - 1 + m BY <1>3 DEF x
<1>5. e = (IF a >= h THEN a - m ELSE a) - 1 BY SMT DEF Signed
<1> HIDE DEF R, e
<1>6. R \in 0 .. m - 1 BY <1>4, SMT
<1>7. (R = h - 1) <=> (e < 0 - h \/ e >= h) BY <1>4, <1>5, SMT
<1>8. ((R >= h) # (R = h - 1)) <=> e < 0 BY <1>4, <1>5, SMT
<1> QED BY <1>6, <1>7, <1>8 DEF SignFact, R, e

\* The flags and the exact result of INC and DEC, which leave C and H alone.
LEMMA StepGood ==
  ASSUME Good(chain, exact, SREG), NEW R \in Byte, NEW T \in Int, NEW V \in BOOLEAN,
         SignFact(Half, V, R, T),
         NEW f, f = [Signs(SREG, Bit7(R), V) EXCEPT !.Z = (R = 0)]
  PROVE  Good(Interrupted, [width |-> Radix, value |-> T, half |-> SREG.H], f)
<1> DEFINE N == Bit7(R)
           S == N # V
           z == R = 0
           e == [width |-> Radix, value |-> T, half |-> SREG.H]
<1>1. N \in BOOLEAN /\ S \in BOOLEAN /\ z \in BOOLEAN /\ SREG \in Flags BY DEF Bit7, Good
<1>2. f = [[SREG EXCEPT !.N = N, !.V = V, !.S = S] EXCEPT !.Z = z] BY DEF Signs
<1>3. (V <=> (T < 0 - Half \/ T >= Half)) /\ (S <=> T < 0) BY DEF SignFact, Bit7
<1>4. N <=> (S # V) BY <1>1
<1> HIDE DEF N, S, z
<1>5. FourSet(f, SREG, N, V, S, z) BY <1>2 DEF FourSet
<1>6. /\ f \in Flags /\ f.C = SREG.C /\ f.H = SREG.H /\ f.N = N /\ f.V = V /\ f.S = S
  <2>1. FourFact(f, SREG, N, V, S, z) BY <1>1, <1>5, FourFlags
  <2> QED BY <2>1 DEF FourFact
<1>7. /\ T < 0 - Half <=> 2 * T < 0 - Radix
      /\ T >= Half <=> 2 * T >= Radix
      BY ByteRange, SMT
<1>8. V <=> (2 * T < 0 - Radix \/ 2 * T >= Radix) BY <1>3, <1>7, Zenon
<1>9. SignedFact(f, T, Radix) BY <1>3, <1>4, <1>6, <1>8 DEF SignedFact
<1>10. ExactType(e) /\ ExactMeans(e, f)
  <2>1. SREG.H \in BOOLEAN /\ (f.H <=> SREG.H) /\ Radix \in Nat BY <1>1, <1>6, ByteRange DEF Flags
  <2> QED BY <1>9, <2>1, ExactGood
<1>11. ChainGood(Interrupted, f) BY <1>6, InterruptedGood
<1> QED BY <1>6, <1>10, <1>11 DEF Good, ChainGood

\* INC.
LEMMA IncStep ==
  ASSUME IInv, NEW d \in Register, Inc(d) PROVE IInv'
<1> DEFINE a == r[d]
           R == (a + 1) % Radix
           T == Signed(a, Radix) + 1
           f == SREG'
<1>1. a \in Byte /\ a \in 0 .. Radix - 1 BY Registers, ByteRange
<1>2. f = [Signs(SREG, Bit7(R), R = Half) EXCEPT !.Z = (R = 0)] BY DEF Inc
<1>3. exact' = [width |-> Radix, value |-> T, half |-> SREG.H] /\ chain' = Interrupted BY DEF Inc
<1>4. r' = [r EXCEPT ![d] = R] BY DEF Inc
<1> DEFINE V == R = Half
<1>5. T \in Int BY <1>1, ByteRange
<1> HIDE DEF a
<1>6. R \in 0 .. Radix - 1 /\ SignFact(Half, V, R, T) BY <1>1, ByteRange, IncSigns
<1>7. R \in Byte BY <1>6 DEF Byte
<1>8. Good(chain, exact, SREG) BY DEF IInv
<1> HIDE DEF R, T, f
<1>9. Good(Interrupted, exact', f) BY <1>2, <1>3, <1>5, <1>6, <1>7, <1>8, StepGood
<1>10. r' \in [Register -> Byte] BY <1>4, <1>7 DEF IInv
<1> QED BY <1>3, <1>9, <1>10 DEF IInv, f

\* The same for DEC.
LEMMA DecStep ==
  ASSUME IInv, NEW d \in Register, Dec(d) PROVE IInv'
<1> DEFINE a == r[d]
           R == (a - 1) % Radix
           T == Signed(a, Radix) - 1
           f == SREG'
<1>1. a \in Byte /\ a \in 0 .. Radix - 1 BY Registers, ByteRange
<1>2. f = [Signs(SREG, Bit7(R), R = Half - 1) EXCEPT !.Z = (R = 0)] BY DEF Dec
<1>3. exact' = [width |-> Radix, value |-> T, half |-> SREG.H] /\ chain' = Interrupted BY DEF Dec
<1>4. r' = [r EXCEPT ![d] = R] BY DEF Dec
<1> DEFINE V == R = Half - 1
<1>5. T \in Int BY <1>1, ByteRange
<1> HIDE DEF a
<1>6. R \in 0 .. Radix - 1 /\ SignFact(Half, V, R, T) BY <1>1, ByteRange, DecSigns
<1>7. R \in Byte BY <1>6 DEF Byte
<1>8. Good(chain, exact, SREG) BY DEF IInv
<1> HIDE DEF R, T, f
<1>9. Good(Interrupted, exact', f) BY <1>2, <1>3, <1>5, <1>6, <1>7, <1>8, StepGood
<1>10. r' \in [Register -> Byte] BY <1>4, <1>7 DEF IInv
<1> QED BY <1>3, <1>9, <1>10 DEF IInv, f

\* LSR, ASR and ROR: the byte halved, and the bits that go in and out.
LEMMA Halves ==
  ASSUME NEW a \in Byte, NEW in \in {0, 1}
  PROVE  LET R == a \div 2 + in * Half
         IN  R \in Byte /\ 2 * R + Num(a % 2 = 1) = a + in * Radix
<1> DEFINE q == a \div 2
           k == a % 2
<1>1. /\ q \in Int /\ k \in {0, 1} /\ a = 2 * q + k /\ a \in Nat /\ a < 2 * Half
      /\ Half \in Nat \ {0} /\ Radix = 2 * Half
      BY ByteRange, SMT
<1> HIDE DEF q, k
<1>2. Num(k = 1) = k BY <1>1 DEF Num
<1>3. q \in 0 .. Half - 1 BY <1>1, SMT
<1>4. CASE in = 0
  <2>1. q + in * Half = q BY <1>1, <1>4, SMT
  <2>2. q \in 0 .. Radix - 1 /\ 2 * q + k = a + in * Radix BY <1>1, <1>3, <1>4, SMT
  <2> QED BY <1>2, <2>1, <2>2 DEF q, k, Byte
<1>5. CASE in = 1
  <2>1. q + in * Half = q + Half BY <1>1, <1>5, SMT
  <2>2. q + Half \in 0 .. Radix - 1 /\ 2 * (q + Half) + k = a + in * Radix BY <1>1, <1>3, <1>5, SMT
  <2> QED BY <1>2, <2>1, <2>2 DEF q, k, Byte
<1> QED BY <1>4, <1>5

\* Their flags.
LEMMA ShiftFlags ==
  ASSUME SREG \in Flags, NEW a \in Byte, NEW R \in Byte
  PROVE  LET f == AfterShift(a, R)
         IN  f \in Flags /\ f.C = (a % 2 = 1) /\ (f.Z <=> R = 0)
<1> DEFINE f == AfterShift(a, R)
           N == Bit7(R)
           k == a % 2 = 1
           V == N # k
           S == N # V
           z == R = 0
           H == SREG.H
<1>1. N \in BOOLEAN /\ k \in BOOLEAN /\ V \in BOOLEAN /\ S \in BOOLEAN /\ z \in BOOLEAN
      BY DEF Bit7
<1>2. H \in BOOLEAN BY DEF Flags
<1>3. f = [[SREG EXCEPT !.N = N, !.V = V, !.S = S] EXCEPT !.C = k, !.Z = z]
      BY DEF AfterShift, Signs
<1> HIDE DEF f, N, k, V, S, z
<1>4. f = [C |-> k, Z |-> z, N |-> N, V |-> V, S |-> S, H |-> H] BY <1>3 DEF Flags
<1> HIDE DEF H
<1>5. f \in Flags BY <1>1, <1>2, <1>4 DEF Flags
<1>6. f.C = k /\ f.Z = z BY <1>4
<1>7. f.Z <=> z BY <1>6
<1> QED BY <1>5, <1>6, <1>7 DEF f, k, z

\* A chain of shifts starts ...
LEMMA ShiftStarts ==
  ASSUME SREG \in Flags, NEW a \in Byte, NEW in \in {0, 1}, NEW R, R = a \div 2 + in * Half
  PROVE  R \in Byte /\ ChainGood(Start("shift", a, in, R), AfterShift(a, R)) /\ AfterShift(a, R) \in Flags
<1> DEFINE f == AfterShift(a, R)
           c == Start("shift", a, in, R)
<1>1. R \in Byte /\ 2 * R + Num(a % 2 = 1) = a + in * Radix BY Halves
<1>2. f \in Flags /\ f.C = (a % 2 = 1) /\ (f.Z <=> R = 0) BY <1>1, ShiftFlags
<1> HIDE DEF f
<1>3. /\ c.kind = "shift" /\ c.w = Radix /\ c.d = a /\ c.s = in /\ c.res = R /\ c.zero = TRUE
      BY DEF Start
<1>4. /\ a \in Nat /\ R \in Nat /\ a < Radix /\ R < Radix /\ in \in Nat /\ in < Radix /\ Radix \in Nat
      BY <1>1, ByteRange, RadixAssumption, SMT
<1>5. c \in Chains BY <1>4, MaxBytesAssumption DEF Chains, Kinds, Start
<1>6. ChainType(c) BY <1>3, <1>4, <1>5 DEF ChainType
<1>7. HalfIs(R, Num(f.C), Radix, a, in) BY <1>1, <1>2 DEF HalfIs
<1> HIDE DEF c
<1>8. CarryMeans(c, f) BY <1>3, <1>7 DEF CarryMeans
<1>9. ZeroMeans(c, f) BY <1>2, <1>3 DEF ZeroMeans
<1> QED BY <1>1, <1>2, <1>6, <1>8, <1>9 DEF ChainGood, f, c

\* ... and continues.
LEMMA ShiftContinues ==
  ASSUME Good(chain, exact, SREG), NEW a \in Byte, NEW R, R = a \div 2 + C * Half,
         chain.kind = "shift", chain.n < MaxBytes
  PROVE  ChainGood(ContinueShift(a, R), AfterShift(a, R))
<1> DEFINE f == AfterShift(a, R)
           c == ContinueShift(a, R)
           w == chain.w
           d == chain.d
           s == chain.s
           res == chain.res
<1>0. C \in {0, 1} BY DEF C, Num
<1>1. R \in Byte /\ 2 * R + Num(a % 2 = 1) = a + C * Radix BY <1>0, Halves
<1>2. f \in Flags /\ f.C = (a % 2 = 1) BY <1>1, ShiftFlags DEF Good
<1> HIDE DEF f
<1>3. chain \in Chains /\ d < w /\ s < w /\ res < w BY DEF Good, ChainType, Broken, Kinds
<1>4. /\ w \in Nat \ {0} /\ d \in Nat /\ s \in Nat /\ res \in Nat
      /\ chain.n \in Nat /\ MaxBytes \in Nat
      BY <1>3, MaxBytesAssumption, SMT DEF Chains
<1>5. HalfIs(res, C, w, d, s) BY DEF Good, CarryMeans, C
<1>6. c = [kind |-> "shift", n |-> chain.n + 1, w |-> w * Radix, d |-> d * Radix + a, s |-> s,
           res |-> res * Radix + R, zero |-> FALSE]
      BY <1>3 DEF ContinueShift, Chains
<1> DEFINE k == Num(f.C)
<1>7. k \in {0, 1} /\ 2 * R + k = a + C * Radix BY <1>1, <1>2 DEF Num
<1> HIDE DEF w, d, s, res, c, k
<1>8. HalfIs(res * Radix + R, k, w * Radix, d * Radix + a, s)
  <2>1. HalfBelow(w, d, s, res, C) BY <1>0, <1>4, <1>5 DEF HalfBelow
  <2>2. HalfOn(a, C, R, k) BY <1>0, <1>1, <1>7 DEF HalfOn
  <2> QED BY <2>1, <2>2, ShiftGrows DEF HalfGrown
<1>9. /\ a \in Nat /\ a < Radix /\ R \in Nat /\ R < Radix /\ Radix \in Nat \ {0}
      BY <1>1, ByteRange, SMT
<1>10. /\ w * Radix \in Nat /\ d * Radix + a \in Nat /\ res * Radix + R \in Nat
       /\ d * Radix + a < w * Radix /\ res * Radix + R < w * Radix /\ s < w * Radix
  <2>1. (d + 1) * Radix <= w * Radix /\ (res + 1) * Radix <= w * Radix /\ w <= w * Radix
        BY <1>3, <1>4, <1>9, SMT DEF w, d, res
  <2>2. (d + 1) * Radix = d * Radix + Radix /\ (res + 1) * Radix = res * Radix + Radix
        BY <1>4, <1>9, SMT
  <2>3. w * Radix \in Nat /\ d * Radix \in Nat /\ res * Radix \in Nat BY <1>4, <1>9, SMT
  <2>4. s < w BY <1>3 DEF s, w
  <2> QED BY <2>1, <2>2, <2>3, <2>4, <1>4, <1>9, SMT
<1> DEFINE W == w * Radix
           D == d * Radix + a
           Q == res * Radix + R
<1>11. c = [kind |-> "shift", n |-> chain.n + 1, w |-> W, d |-> D, s |-> s, res |-> Q, zero |-> FALSE]
       BY <1>6
<1>12. W \in Nat /\ D \in Nat /\ Q \in Nat /\ D < W /\ Q < W /\ s < W /\ HalfIs(Q, k, W, D, s)
       BY <1>8, <1>10
<1> HIDE DEF W, D, Q
<1>13. chain.n + 1 \in 1 .. MaxBytes + 1 BY <1>4, SMT
<1>14. /\ c.kind = "shift" /\ c.w = W /\ c.d = D /\ c.s = s /\ c.res = Q /\ c.zero = FALSE
       /\ c \in Chains
       BY <1>4, <1>11, <1>12, <1>13 DEF Chains, Kinds
<1>15. ChainType(c) BY <1>12, <1>14 DEF ChainType
<1>16. CarryMeans(c, f) BY <1>12, <1>14 DEF CarryMeans, k
<1>17. ZeroMeans(c, f) BY <1>14 DEF ZeroMeans
<1> QED BY <1>15, <1>16, <1>17 DEF ChainGood, c, f

\* LSR and ASR start a chain of shifts, ROR continues it or starts one with C.
LEMMA ShiftsStep ==
  ASSUME IInv, NEW d \in Register, Lsr(d) \/ Asr(d) \/ Ror(d) PROVE IInv'
<1> DEFINE a == r[d]
<1>1. a \in Byte /\ SREG \in Flags /\ Good(chain, exact, SREG) BY Registers DEF IInv, Good
<1>2. C \in {0, 1} /\ Num(Bit7(a)) \in {0, 1} BY DEF C, Num
<1>3. ASSUME NEW in \in {0, 1}, NEW next, Shift(d, in, next),
             ChainGood(next, AfterShift(a, a \div 2 + in * Half))
      PROVE  IInv'
  <2> DEFINE R == a \div 2 + in * Half
  <2>1. R \in Byte BY <1>1, Halves
  <2>2. /\ r' = [r EXCEPT ![d] = R] /\ SREG' = AfterShift(a, R) /\ chain' = next /\ exact' = None
        BY <1>3 DEF Shift
  <2>3. ChainGood(next, AfterShift(a, R)) BY <1>3
  <2> HIDE DEF R, a
  <2>4. AfterShift(a, R) \in Flags BY <1>1, <2>1, ShiftFlags
  <2>5. ChainGood(chain', SREG') /\ SREG' \in Flags BY <2>2, <2>3, <2>4
  <2>6. ExactType(exact') /\ ExactMeans(exact', SREG') BY <2>2 DEF ExactType, ExactMeans
  <2>7. r' \in [Register -> Byte] BY <2>1, <2>2 DEF IInv
  <2> QED BY <2>5, <2>6, <2>7 DEF IInv, Good, ChainGood
<1>4. ASSUME NEW in \in {0, 1}, NEW R, R = a \div 2 + in * Half
      PROVE  ChainGood(Start("shift", a, in, R), AfterShift(a, R))
      BY <1>1, <1>4, ShiftStarts
<1>5. CASE Lsr(d)
  <2> DEFINE R == a \div 2 + 0 * Half
             q == a \div 2
  <2>1. R = q
    <3>1. q \in Int /\ Half \in Int BY <1>1, ByteRange, SMT
    <3>2. ASSUME NEW x \in Int PROVE x + 0 * Half = x BY ByteRange, SMT
    <3> QED BY <3>1, <3>2
  <2>2. Shift(d, 0, Start("shift", a, 0, R)) BY <1>5, <2>1 DEF Lsr
  <2>3. ChainGood(Start("shift", a, 0, R), AfterShift(a, R)) BY <1>4
  <2> QED BY <1>3, <2>2, <2>3
<1>6. CASE Asr(d)
  <2> DEFINE in == Num(Bit7(a))
             R == a \div 2 + in * Half
  <2>1. Shift(d, in, Start("shift", a, in, R)) BY <1>6 DEF Asr
  <2>2. ChainGood(Start("shift", a, in, R), AfterShift(a, R)) BY <1>2, <1>4
  <2> QED BY <1>2, <1>3, <2>1, <2>2
<1>7. CASE Ror(d)
  <2> DEFINE R == a \div 2 + C * Half
  <2>1. Shift(d, C, ContinueShift(a, R)) BY <1>7 DEF Ror
  <2>2. CASE chain.kind = "shift" /\ chain.n < MaxBytes
    <3>1. ChainGood(ContinueShift(a, R), AfterShift(a, R)) BY <1>1, <2>2, ShiftContinues
    <3> QED BY <1>2, <1>3, <2>1, <3>1
  <2>3. CASE ~(chain.kind = "shift" /\ chain.n < MaxBytes)
    <3>1. ContinueShift(a, R) = Start("shift", a, C, R) BY <2>3 DEF ContinueShift
    <3>2. ChainGood(Start("shift", a, C, R), AfterShift(a, R)) BY <1>2, <1>4
    <3> QED BY <1>2, <1>3, <2>1, <3>1, <3>2
  <2> QED BY <2>2, <2>3
<1> QED BY <1>5, <1>6, <1>7

\* A step that has no exact result, with a chain that is right for the new flags.
LEMMA NoExact ==
  ASSUME r' \in [Register -> Byte], SREG' \in Flags, ChainGood(chain', SREG'), exact' = None
  PROVE  IInv'
<1>1. ExactType(exact') /\ ExactMeans(exact', SREG') BY DEF ExactType, ExactMeans
<1> QED BY <1>1 DEF IInv, Good, ChainGood

\* No chain, or a product.
LEMMA BrokenIsGood ==
  ASSUME NEW f PROVE ChainGood(Broken, f)
BY DEF ChainGood, Broken, ChainType, CarryMeans, ZeroMeans, Kinds

\* A product says nothing of C.
LEMMA ProductIsGood ==
  ASSUME NEW f, NEW a \in Int, NEW b \in Int, NEW frac \in BOOLEAN
  PROVE  ChainGood(Product(a, b, frac), f)
BY DEF ChainGood, Product, ChainType, CarryMeans, ZeroMeans, Kinds

\* AND, OR, EOR and COM.
LEMMA LogicFlags ==
  ASSUME SREG \in Flags, NEW R \in Byte
  PROVE  AfterLogic(R) \in Flags /\ AfterLogic(R).C = SREG.C
<1> DEFINE N == Bit7(R)
           V == FALSE
           S == N # V
           z == R = 0
           f == AfterLogic(R)
<1>1. N \in BOOLEAN /\ V \in BOOLEAN /\ S \in BOOLEAN /\ z \in BOOLEAN BY DEF Bit7
<1>2. FourSet(f, SREG, N, V, S, z) BY DEF AfterLogic, Signs, FourSet
<1> HIDE DEF N, V, S, z, f
<1>3. FourFact(f, SREG, N, V, S, z) BY <1>1, <1>2, FourFlags
<1> QED BY <1>3 DEF FourFact, f

\* They start no chain; the bitwise ones keep C.
LEMMA LogicStep ==
  ASSUME IInv, NEW d \in Register, Logic(d) \/ Com(d) PROVE IInv'
<1>1. /\ r \in [Register -> Byte] /\ SREG \in Flags /\ Good(chain, exact, SREG) /\ r[d] \in Byte
      BY Registers DEF IInv, Good
<1>2. CASE Logic(d)
  <2>1. PICK R \in Byte : /\ r' = [r EXCEPT ![d] = R] /\ SREG' = AfterLogic(R)
                          /\ chain' = Interrupted /\ exact' = None
        BY <1>2 DEF Logic
  <2>2. SREG' \in Flags /\ SREG'.C = SREG.C BY <1>1, <2>1, LogicFlags
  <2>3. ChainGood(chain', SREG') BY <1>1, <2>1, <2>2, InterruptedGood
  <2> QED BY <1>1, <2>1, <2>2, <2>3, NoExact
<1>3. CASE Com(d)
  <2> DEFINE R == Radix - 1 - r[d]
  <2>1. R \in Byte BY <1>1, ByteRange, SMT
  <2>2. /\ r' = [r EXCEPT ![d] = R] /\ SREG' = [AfterLogic(R) EXCEPT !.C = TRUE]
        /\ chain' = Broken /\ exact' = None
        BY <1>3 DEF Com
  <2> HIDE DEF R
  <2>3. AfterLogic(R) \in Flags BY <1>1, <2>1, LogicFlags
  <2>4. SREG' \in Flags BY <2>2, <2>3 DEF Flags
  <2>5. ChainGood(chain', SREG') BY <2>2, BrokenIsGood
  <2>6. r' \in [Register -> Byte] BY <1>1, <2>1, <2>2
  <2> QED BY <2>2, <2>4, <2>5, <2>6, NoExact
<1> QED BY <1>2, <1>3

\* The multiplications, on any operands.
LEMMA MultiplyStep ==
  ASSUME IInv, NEW a \in Int, NEW b \in Int, Mul(a, b) \/ FMul(a, b) PROVE IInv'
<1> DEFINE x == (a * b) % (Radix * Radix)
<1>1. /\ a * b \in Int /\ Radix \in Nat \ {0} /\ Radix * Radix \in Nat \ {0} /\ Half \in Nat \ {0}
      BY ByteRange, Words, SMT
<1>2. x \in 0 .. Radix * Radix - 1
  <2> DEFINE y == a * b
             m == Radix * Radix
  <2>1. y \in Int /\ m \in Nat \ {0} BY <1>1
  <2> HIDE DEF y, m
  <2>2. y % m \in 0 .. m - 1 BY <2>1, SMT
  <2> QED BY <2>2 DEF y, m
<1> HIDE DEF x
<1>3. SREG' \in Flags
  <2>1. SREG' = AfterMul(x) BY DEF Mul, FMul, x
  <2>2. SREG \in Flags BY DEF IInv, Good
  <2> DEFINE k == Bit15(x)
             z == x = 0
  <2>3. k \in BOOLEAN /\ z \in BOOLEAN BY DEF Bit15
  <2>4. SREG' = [SREG EXCEPT !.C = k, !.Z = z] BY <2>1 DEF AfterMul
  <2> HIDE DEF k, z
  <2> QED BY <2>2, <2>3, <2>4 DEF Flags
<1>4. ChainGood(chain', SREG')
  <2>1. PICK frac \in BOOLEAN : chain' = Product(a, b, frac) BY DEF Mul, FMul
  <2> QED BY <2>1, ProductIsGood
<1>5. /\ x % Radix \in Byte /\ x \div Radix \in Byte
      /\ (2 * x) % Radix \in Byte /\ (x \div Half) % Radix \in Byte
  <2>1. x \div Radix \in Byte /\ x % Radix \in Byte BY <1>2, Words DEF High, Low
  <2>2. 2 * x \in Int /\ x \div Half \in Int BY <1>1, <1>2, SMT
  <2>3. ASSUME NEW y \in Int PROVE y % Radix \in Byte BY <1>1, SMT DEF Byte
  <2> QED BY <2>1, <2>2, <2>3
<1>6. r' \in [Register -> Byte]
  <2>1. CASE Mul(a, b)
    <3>1. r' = [i \in Register |-> IF i = 0 THEN x % Radix ELSE x \div Radix] BY <2>1 DEF Mul, x
    <3> QED BY <1>5, <3>1
  <2>2. CASE FMul(a, b)
    <3>1. r' = [i \in Register |-> IF i = 0 THEN (2 * x) % Radix ELSE (x \div Half) % Radix]
          BY <2>2 DEF FMul, FractionHigh, x
    <3> QED BY <1>5, <3>1
  <2> QED BY <2>1, <2>2
<1>7. exact' = None BY DEF Mul, FMul
<1> QED BY <1>3, <1>4, <1>6, <1>7, NoExact

\* The loads change no flag; BSET and BCLR end a chain.
LEMMA OthersStep ==
  ASSUME IInv, NEW b \in BOOLEAN, Load \/ WriteFlag(b) PROVE IInv'
<1>1. /\ r \in [Register -> Byte] /\ SREG \in Flags /\ Good(chain, exact, SREG)
      BY DEF IInv, Good
<1>2. CASE Load
  <2>1. CASE chain.kind = "product"
    <3>1. r' \in [Register -> Byte] /\ chain' = Broken /\ SREG' = SREG /\ exact' = exact
          BY <1>2, <2>1 DEF Load
    <3>2. ChainGood(Broken, SREG) BY BrokenIsGood
    <3> QED BY <1>1, <3>1, <3>2 DEF IInv, Good, ChainGood
  <2>2. CASE chain.kind # "product" BY <1>1, <1>2, <2>2 DEF Load, IInv
  <2> QED BY <2>1, <2>2
<1>3. CASE WriteFlag(b)
  <2>1. PICK x \in DOMAIN SREG : SREG' = [SREG EXCEPT ![x] = b] BY <1>3 DEF WriteFlag
  <2>2. SREG' \in Flags BY <1>1, <2>1 DEF Flags
  <2>3. chain' = Broken /\ exact' = None /\ r' = r BY <1>3 DEF WriteFlag
  <2>4. ChainGood(chain', SREG') BY <2>3, BrokenIsGood
  <2> QED BY <1>1, <2>2, <2>3, <2>4, NoExact
<1> QED BY <1>2, <1>3
-----------------------------------------------------------------------------
(* Products.  h is the value of bit 7, m = 2 * h the number of bytes, n = h * m the   *)
(* value of bit 15.                                                                   *)

\* r1:r0 of the fractional instructions, byte by byte, is the double of the 16 bits x,
\* and it is zero for the x whose only bit is the one shifted out, too.
LEMMA Doubled ==
  ASSUME NEW h \in Nat \ {0}, NEW m \in Nat \ {0}, NEW n \in Nat \ {0}, m = 2 * h, n = h * m,
         NEW x \in 0 .. 2 * n - 1
  PROVE  /\ ((x \div h) % m) * m + ((2 * x) % m) = (2 * x) % (2 * n)
         /\ (2 * x) % (2 * n) = 0 <=> x = 0 \/ x = n
<1> DEFINE q == x \div h
           k == x % h
<1>1. q \in Int /\ k \in 0 .. h - 1 /\ x = h * q + k BY SMT
<1> HIDE DEF q, k
<1>2. q >= 0
  <2> SUFFICES ASSUME q <= -1 PROVE FALSE BY <1>1
  <2>1. h * q <= h * (-1) BY <1>1, SMT
  <2> QED BY <1>1, <2>1, SMT
<1>3. x < n <=> q < m
  <2>1. ASSUME q < m PROVE x < n
    <3>1. h * q <= h * (m - 1) BY <1>1, <2>1, SMT
    <3>2. h * (m - 1) = n - h BY SMT
    <3>3. h * q \in Int BY <1>1, SMT
    <3> QED BY <1>1, <3>1, <3>2, <3>3, SMT
  <2>2. ASSUME q >= m PROVE x >= n
    <3>1. h * q >= h * m BY <1>1, <2>2, SMT
    <3>2. h * q \in Int BY <1>1, SMT
    <3> QED BY <1>1, <3>1, <3>2, SMT
  <2> QED BY <1>1, <2>1, <2>2
<1>4. q < 2 * m
  <2> SUFFICES ASSUME q >= 2 * m PROVE FALSE BY <1>1
  <2>1. h * q >= h * (2 * m) BY <1>1, SMT
  <2>2. h * (2 * m) = 2 * n /\ h * q \in Int BY <1>1, SMT
  <2> QED BY <1>1, <2>1, <2>2, SMT
<1>5. q % m = IF q < m THEN q ELSE q - m
  <2>1. q \in 0 .. 2 * m - 1 BY <1>1, <1>2, <1>4, SMT
  <2> QED BY <2>1, ModSum
<1>6. (2 * x) % m = 2 * k
  <2> DEFINE y == 2 * k
  <2>1. y \in 0 .. m - 1 BY <1>1, SMT
  <2>2. 2 * x = m * q + y BY <1>1, SMT
  <2> HIDE DEF y
  <2>3. (m * q + y) % m = y BY <1>1, <2>1, SMT
  <2> QED BY <2>2, <2>3 DEF y
<1>7. m * m = 2 * n /\ q * m \in Int /\ 2 * x = q * m + 2 * k BY <1>1, SMT
<1>8. (q % m) * m + 2 * k = IF x < n THEN 2 * x ELSE 2 * x - 2 * n
  <2>1. CASE q < m BY <1>1, <1>3, <1>5, <1>7, <2>1
  <2>2. CASE ~(q < m)
    <3>1. (q % m) * m = (q - m) * m BY <1>5, <2>2
    <3>2. (q - m) * m = q * m - m * m BY <1>1, SMT
    <3> QED BY <1>1, <1>3, <1>7, <2>2, <3>1, <3>2, SMT
  <2> QED BY <2>1, <2>2
<1>9. (2 * x) % (2 * n) = IF x < n THEN 2 * x ELSE 2 * x - 2 * n
  <2> DEFINE y == 2 * x
             w == 2 * n
  <2>1. w \in Nat \ {0} /\ y \in 0 .. 2 * w - 1 /\ (y < w <=> x < n) BY SMT
  <2> HIDE DEF y, w
  <2>2. y % w = IF y < w THEN y ELSE y - w BY <2>1, ModSum
  <2> QED BY <2>1, <2>2 DEF y, w
<1>10. (2 * x) % (2 * n) = 0 <=> x = 0 \/ x = n BY <1>9, SMT
<1> QED BY <1>6, <1>8, <1>9, <1>10 DEF q

\* A product with a signed operand has fewer than 16 bits, but for its sign.
LEMMA SmallProduct ==
  ASSUME NEW h \in Nat \ {0}, NEW m \in Nat \ {0}, NEW n \in Nat \ {0}, m = 2 * h, n = h * m,
         NEW a \in 0 - h .. h - 1, NEW b \in 0 - h .. m - 1
  PROVE  a * b > 0 - n /\ a * b < n
<1>1. h * (m - 1) = n - h BY SMT
<1>2. CASE b >= 0
  <2>1. a * b <= h * b /\ a * b >= (0 - h) * b BY <1>2, SMT
  <2>2. (0 - h) * b = 0 - h * b BY SMT
  <2>3. h * b <= h * (m - 1) BY <1>2, SMT
  <2>4. a * b \in Int /\ h * b \in Int BY SMT
  <2> QED BY <1>1, <2>1, <2>2, <2>3, <2>4, SMT
<1>3. CASE b < 0
  <2> DEFINE c == 0 - b
  <2>1. c \in 1 .. h /\ b = 0 - c BY <1>3, SMT
  <2> HIDE DEF c
  <2>2. a * c <= h * c /\ a * c >= (0 - h) * c BY <2>1, SMT
  <2>3. (0 - h) * c = 0 - h * c /\ a * b = 0 - a * c BY <2>1, SMT
  <2>4. h * c <= h * (m - 1) BY <2>1, SMT
  <2>5. a * c \in Int /\ h * c \in Int BY <2>1, SMT
  <2> QED BY <1>1, <2>2, <2>3, <2>4, <2>5, SMT
<1> QED BY <1>2, <1>3

\* What the instructions multiply: two bytes, or a signed and a signed or unsigned one.
Operands(a, b) == \/ a \in Byte /\ b \in Byte
                  \/ a \in 0 - Half .. Half - 1 /\ b \in 0 - Half .. Radix - 1

\* No product has bit 15 as its only bit.
LEMMA NoLoneBit ==
  ASSUME NEW a \in Int, NEW b \in Int, Operands(a, b)
  PROVE  (a * b) % (Radix * Radix) # Half * Radix
<1> DEFINE n == Half * Radix
           w == Radix * Radix
           y == a * b
<1>1. n \in Nat \ {0} /\ w \in Nat \ {0} /\ w = 2 * n BY Words
<1>2. y \in Int BY SMT
<1>3. CASE a \in Byte /\ b \in Byte
  <2>1. y # n BY <1>3, ProductAssumption
  <2>2. y \in 0 .. w - 1
    <3>1. /\ a \in Nat /\ b \in Nat /\ a <= Radix - 1 /\ b <= Radix - 1 /\ Radix \in Nat \ {0}
      BY <1>3, ByteRange, SMT
    <3>2. a * b <= (Radix - 1) * b /\ (Radix - 1) * b <= (Radix - 1) * Radix /\ a * b >= 0
      BY <3>1, SMT
    <3>3. (Radix - 1) * Radix = w - Radix /\ (Radix - 1) * b \in Int BY <3>1, SMT
    <3> HIDE DEF w
    <3> QED BY <1>1, <1>2, <3>1, <3>2, <3>3, SMT
  <2> HIDE DEF n, w, y
  <2>3. y % w = y BY <1>1, <2>2, SMT
  <2> QED BY <2>1, <2>3 DEF n, w, y
<1>4. CASE a \in 0 - Half .. Half - 1 /\ b \in 0 - Half .. Radix - 1
  <2>1. y > 0 - n /\ y < n BY <1>1, <1>4, ByteRange, SmallProduct
  <2> HIDE DEF n, w, y
  <2>2. y \in 0 - w .. w - 1 BY <1>1, <1>2, <2>1, SMT
  <2>3. y % w = IF y >= 0 THEN y ELSE y + w BY <1>1, <2>2, ModDifference
  <2>4. y % w # n BY <1>1, <1>2, <2>1, <2>3, SMT
  <2> QED BY <2>4 DEF n, w, y
<1> QED BY <1>3, <1>4 DEF Operands

\* The two registers as one number.
LEMMA Pair ==
  ASSUME NEW lo, NEW hi, r' = [i \in Register |-> IF i = 0 THEN lo ELSE hi]
  PROVE  r'[0] = lo /\ r'[1] = hi /\ Join(r'[1], r'[0]) = hi * Radix + lo
BY DEF Register, Join

\* MUL, MULS, MULSU leave the product ...
LEMMA MulExact ==
  ASSUME IInv, NEW a \in Int, NEW b \in Int, Mul(a, b) PROVE ProductIsExact'
<1> DEFINE w == Radix * Radix
           x == (a * b) % w
           hi == x \div Radix
           lo == x % Radix
<1>1. Radix \in Nat \ {0} /\ Half \in Nat \ {0} /\ Radix = 2 * Half /\ w \in Nat \ {0}
      /\ a * b \in Int
  BY ByteRange, Words, SMT
<1>2. r' = [i \in Register |-> IF i = 0 THEN lo ELSE hi] /\ SREG' = AfterMul(x)
      /\ chain' = Product(a, b, FALSE)
  BY DEF Mul
<1>3. x \in Int
  <2> DEFINE y == a * b
  <2> HIDE DEF w, y
  <2>1. y \in Int /\ w \in Nat \ {0} BY <1>1 DEF y
  <2>2. y % w \in Int BY <2>1, SMT
  <2> QED BY <2>2 DEF y
<1> HIDE DEF w, x
<1>4. lo \in 0 .. Radix - 1 /\ hi \in Int /\ x = Radix * hi + lo
  <2>1. Radix \in Nat \ {0} BY <1>1
  <2> HIDE DEF hi, lo
  <2>2. (x \div Radix) \in Int /\ (x % Radix) \in 0 .. Radix - 1
        /\ x = Radix * (x \div Radix) + (x % Radix)
    BY <1>3, <2>1, SMT
  <2> QED BY <2>2 DEF hi, lo
<1> HIDE DEF hi, lo
<1>5. r'[1] = hi /\ Join(r'[1], r'[0]) = hi * Radix + lo BY <1>2, Pair
<1>6. hi * Radix + lo = x BY <1>1, <1>4, SMT
<1>7. SREG'.Z = (x = 0) /\ SREG'.C = Bit15(x)
  <2>1. SREG \in Flags BY DEF IInv, Good
  <2> DEFINE k == Bit15(x)
             z == x = 0
  <2>2. SREG' = [SREG EXCEPT !.C = k, !.Z = z] BY <1>2 DEF AfterMul
  <2> HIDE DEF k, z
  <2>3. SREG'.Z = z /\ SREG'.C = k BY <2>1, <2>2 DEF Flags
  <2> QED BY <2>3 DEF k, z
<1>8. Bit15(x) <=> Bit7(hi)
  <2>1. ASSUME hi >= Half PROVE x >= Half * Radix
    <3>1. Radix * hi >= Radix * Half BY <1>1, <1>4, <2>1, SMT
    <3>2. Radix * hi \in Int /\ Radix * Half = Half * Radix /\ Half * Radix \in Int BY <1>1, <1>4, SMT
    <3> QED BY <1>1, <1>4, <3>1, <3>2, SMT
  <2>2. ASSUME hi <= Half - 1 PROVE x < Half * Radix
    <3>1. Radix * hi <= Radix * (Half - 1) BY <1>1, <1>4, <2>2, SMT
    <3>2. Radix * (Half - 1) = Half * Radix - Radix /\ Half * Radix \in Int /\ Radix * hi \in Int
      BY <1>1, <1>4, SMT
    <3> QED BY <1>1, <1>4, <3>1, <3>2, SMT
  <2>3. Half * Radix \in Int BY <1>1, SMT
  <2> QED BY <1>1, <1>3, <1>4, <2>1, <2>2, <2>3, SMT DEF Bit15, Bit7
<1>9. chain'.d = a /\ chain'.s = b /\ chain'.frac = FALSE BY <1>2 DEF Product
<1> QED BY <1>5, <1>6, <1>7, <1>8, <1>9 DEF ProductIsExact, x, w

\* ... and FMUL, FMULS, FMULSU its double; Z was taken from the product before the shift.
LEMMA FMulExact ==
  ASSUME IInv, NEW a \in Int, NEW b \in Int, Operands(a, b), FMul(a, b) PROVE ProductIsExact'
<1> DEFINE n == Half * Radix
           w == Radix * Radix
           y == a * b
           x == y % w
           hi == FractionHigh(x)
           lo == (2 * x) % Radix
           p == Join(r'[1], r'[0])
<1>1. /\ Radix \in Nat \ {0} /\ Half \in Nat \ {0} /\ Radix = 2 * Half
      /\ w \in Nat \ {0} /\ n \in Nat \ {0} /\ w = 2 * n
  BY ByteRange, Words
<1>2. y \in Int BY SMT
<1>3. x # n BY NoLoneBit
<1>4. r' = [i \in Register |-> IF i = 0 THEN lo ELSE hi] /\ SREG' = AfterMul(x)
      /\ chain' = Product(a, b, TRUE)
  BY DEF FMul
<1>5. SREG'.Z = (x = 0)
  <2>1. SREG \in Flags BY DEF IInv, Good
  <2> DEFINE k == Bit15(x)
             z == x = 0
  <2>2. SREG' = [SREG EXCEPT !.C = k, !.Z = z] BY <1>4 DEF AfterMul
  <2> HIDE DEF k, z
  <2>3. SREG'.Z = z BY <2>1, <2>2 DEF Flags
  <2> QED BY <2>3 DEF z
<1>6. p = hi * Radix + lo BY <1>4, Pair
<1>7. hi * Radix + lo = (2 * x) % w /\ ((2 * x) % w = 0 <=> x = 0)
  <2>1. x \in 0 .. 2 * n - 1
    <3> HIDE DEF y, w, n
    <3>1. y % w \in 0 .. w - 1 BY <1>1, <1>2, SMT
    <3> QED BY <1>1, <3>1
  <2>2. hi = (x \div Half) % Radix BY DEF FractionHigh
  <2> HIDE DEF x, w
  <2>3. /\ ((x \div Half) % Radix) * Radix + ((2 * x) % Radix) = (2 * x) % (2 * n)
        /\ (2 * x) % (2 * n) = 0 <=> x = 0 \/ x = n
    BY <1>1, <2>1, Doubled
  <2> HIDE DEF n
  <2> QED BY <1>1, <1>3, <2>2, <2>3
<1>8. (2 * a * b) % w = (2 * x) % w
  <2> DEFINE q == y \div w
             t == 2 * x
             e == 2 * q
  <2>1. q \in Int /\ x \in Int /\ y = w * q + x
    <3> HIDE DEF y, w
    <3>1. (y \div w) \in Int /\ (y % w) \in Int /\ y = w * (y \div w) + (y % w)
      BY <1>1, <1>2, SMT
    <3> QED BY <3>1
  <2>2. 2 * a * b = 2 * y BY SMT
  <2> HIDE DEF q, x, y, w
  <2>3. t \in Int /\ e \in Int /\ 2 * y = t + e * w BY <1>1, <1>2, <2>1, SMT
  <2> HIDE DEF t, e
  <2>4. (t + e * w) % w = t % w BY <1>1, <2>3, ModShift
  <2>5. (2 * y) % w = t % w BY <2>3, <2>4
  <2> QED BY <2>2, <2>5 DEF t
<1>9. chain'.d = a /\ chain'.s = b /\ chain'.frac = TRUE BY <1>4 DEF Product
<1> HIDE DEF x, p
<1> QED BY <1>5, <1>6, <1>7, <1>8, <1>9 DEF ProductIsExact, p

\* No other instruction leaves a product behind.
LEMMA NoProduct ==
  ASSUME IInv, Next, ~Multiply PROVE chain'.kind # "product"
<1>1. \/ chain = Broken \/ chain \in Chains
      \/ chain \in [kind : {"product"}, d : Int, s : Int, frac : BOOLEAN]
  BY DEF IInv, Good, ChainType
<1>2. ASSUME NEW kind \in Kinds, NEW d, NEW s, NEW R
      PROVE  Start(kind, d, s, R).kind # "product" /\ Word16(kind, d, s, R).kind # "product"
  BY DEF Start, Word16, Kinds
<1>3. Broken.kind # "product" BY DEF Broken
<1>4. ASSUME NEW kind \in Kinds, NEW d, NEW s, NEW R, NEW z
      PROVE  Continue(kind, d, s, R, z).kind # "product"
  <2>1. CASE chain.kind = kind /\ chain.n < MaxBytes
    <3>1. chain \in Chains BY <1>1, <2>1 DEF Broken, Kinds
    <3>2. Extended(d, s, R, z).kind = chain.kind BY <3>1 DEF Extended, Chains
    <3> QED BY <2>1, <3>2 DEF Continue, Kinds
  <2> QED BY <1>3, <2>1 DEF Continue
<1>5. Interrupted.kind # "product"
  <2>1. CASE chain.kind \in Kinds
    <3>1. chain \in Chains BY <1>1, <2>1 DEF Broken, Kinds
    <3>2. [chain EXCEPT !.zero = FALSE].kind = chain.kind BY <3>1 DEF Chains
    <3> QED BY <2>1, <3>2 DEF Interrupted, Kinds
  <2> QED BY <1>3, <2>1 DEF Interrupted, Kinds
<1>6. ASSUME NEW d, NEW R PROVE ContinueShift(d, R).kind # "product"
  <2>1. CASE chain.kind = "shift" /\ chain.n < MaxBytes
    <3>1. chain \in Chains BY <1>1, <2>1 DEF Broken, Kinds
    <3>2. ContinueShift(d, R).kind = chain.kind BY <2>1, <3>1 DEF ContinueShift, Chains
    <3> QED BY <2>1, <3>2
  <2> QED BY <1>2, <2>1 DEF ContinueShift, Kinds
<1>7. CASE Arithmetic
  <2>1. PICK d \in Register :
          \/ \E s \in Register : Add(d, s) \/ Adc(d, s) \/ Cpc(d, s)
          \/ \E Rr \in Byte : Sub(d, Rr) \/ Sbc(d, Rr) \/ Cp(d, Rr)
          \/ Neg(d) \/ Inc(d) \/ Dec(d)
    BY <1>7 DEF Arithmetic
  <2>2. "add" \in Kinds /\ "sub" \in Kinds BY DEF Kinds
  <2>3. ASSUME NEW s \in Register, Add(d, s) \/ Adc(d, s) \/ Cpc(d, s)
        PROVE  chain'.kind # "product"
    <3>1. CASE Add(d, s) BY <1>2, <2>2, <3>1 DEF Add
    <3>2. CASE Adc(d, s) BY <1>4, <2>2, <3>2 DEF Adc
    <3>3. CASE Cpc(d, s) BY <1>4, <2>2, <3>3 DEF Cpc, SubtractCarry
    <3> QED BY <2>3, <3>1, <3>2, <3>3
  <2>4. ASSUME NEW Rr \in Byte, Sub(d, Rr) \/ Sbc(d, Rr) \/ Cp(d, Rr)
        PROVE  chain'.kind # "product"
    <3>1. CASE Sub(d, Rr) \/ Cp(d, Rr) BY <1>2, <2>2, <3>1 DEF Sub, Cp, Subtract
    <3>2. CASE Sbc(d, Rr) BY <1>4, <2>2, <3>2 DEF Sbc, SubtractCarry
    <3> QED BY <2>4, <3>1, <3>2
  <2>5. CASE Neg(d) BY <1>2, <2>2, <2>5 DEF Neg, Subtract
  <2>6. CASE Inc(d) \/ Dec(d) BY <1>5, <2>6 DEF Inc, Dec
  <2> QED BY <2>1, <2>3, <2>4, <2>5, <2>6
<1>8. ASSUME NEW K \in Small, Adiw(K) \/ Sbiw(K) PROVE chain'.kind # "product"
  BY <1>2, <1>8 DEF Adiw, Sbiw, Kinds
<1>9. ASSUME NEW d \in Register, Lsr(d) \/ Asr(d) \/ Ror(d) \/ Logic(d) \/ Com(d)
      PROVE  chain'.kind # "product"
  <2>1. CASE Lsr(d) \/ Asr(d) BY <1>2, <2>1 DEF Lsr, Asr, Shift, Kinds
  <2>2. CASE Ror(d) BY <1>6, <2>2 DEF Ror, Shift
  <2>3. CASE Logic(d) \/ Com(d) BY <1>3, <1>5, <2>3 DEF Logic, Com
  <2> QED BY <1>9, <2>1, <2>2, <2>3
<1>10. CASE Load BY <1>3, <1>10 DEF Load
<1>11. ASSUME NEW b \in BOOLEAN, WriteFlag(b) PROVE chain'.kind # "product"
  BY <1>3, <1>11 DEF WriteFlag
<1> QED BY <1>7, <1>8, <1>9, <1>10, <1>11 DEF Next

\* Every step leaves the product of the operands, or none.
LEMMA ProductStep ==
  ASSUME IInv, ProductIsExact, [Next]_vars PROVE ProductIsExact'
<1>1. CASE UNCHANGED vars BY <1>1 DEF vars, ProductIsExact
<1>2. CASE Next /\ ~Multiply BY <1>2, NoProduct DEF ProductIsExact
<1>3. CASE Multiply
  <2>1. PICK d \in Register, s \in Register :
          LET su(i) == Signed(r[i], Radix)
          IN  \/ Mul(r[d], r[s])   \/ Mul(su(d), su(s))   \/ Mul(su(d), r[s])
              \/ FMul(r[d], r[s])  \/ FMul(su(d), su(s))  \/ FMul(su(d), r[s])
        BY <1>3 DEF Multiply
  <2>2. ASSUME NEW i \in Register
        PROVE  /\ r[i] \in Byte /\ r[i] \in Int
               /\ Signed(r[i], Radix) \in 0 - Half .. Half - 1 /\ Signed(r[i], Radix) \in Int
    <3>1. r[i] \in Byte BY Registers
    <3> DEFINE x == r[i]
    <3> HIDE DEF x
    <3>2. x \in Byte => Signed(x, Radix) \in 0 - Half .. Half - 1
      BY ByteRange, SMT DEF Signed
    <3> QED BY <3>1, <3>2, ByteRange DEF x
  <2> DEFINE u == r[d]
             v == r[s]
             x == Signed(u, Radix)
             y == Signed(v, Radix)
  <2>3. /\ u \in Byte /\ v \in Byte /\ u \in Int /\ v \in Int /\ x \in Int /\ y \in Int
        /\ x \in 0 - Half .. Half - 1 /\ y \in 0 - Half .. Half - 1
    BY <2>2
  <2>4. \/ Mul(u, v) \/ Mul(x, y) \/ Mul(x, v) \/ FMul(u, v) \/ FMul(x, y) \/ FMul(x, v)
    BY <2>1
  <2> HIDE DEF u, v, x, y
  <2>5. Half - 1 <= Radix - 1 /\ Half \in Int /\ Radix \in Int BY ByteRange, SMT
  <2>6. y \in 0 - Half .. Radix - 1 /\ v \in 0 - Half .. Radix - 1
    BY <2>3, <2>5, ByteRange, SMT
  <2>7. Operands(u, v) /\ Operands(x, y) /\ Operands(x, v) BY <2>3, <2>6 DEF Operands
  <2> QED BY <2>3, <2>4, <2>7, MulExact, FMulExact
<1> QED BY <1>1, <1>2, <1>3
-----------------------------------------------------------------------------
(* The theorems *)

\* The invariant holds at the start ...
LEMMA InitIInv == Init => IInv
<1> SUFFICES ASSUME Init PROVE IInv OBVIOUS
<1>1. 0 \in Byte BY ByteRange
<1>2. SREG \in Flags /\ chain = Broken /\ exact = None BY DEF Init, Flags
<1>3. ChainGood(chain, SREG) BY <1>2, BrokenIsGood
<1>4. ExactType(exact) /\ ExactMeans(exact, SREG) BY <1>2 DEF ExactType, ExactMeans
<1>5. r \in [Register -> Byte] BY <1>1 DEF Init
<1> QED BY <1>2, <1>3, <1>4, <1>5 DEF IInv, Good, ChainGood

\* ... and every instruction preserves it.
LEMMA NextIInv == IInv /\ [Next]_vars => IInv'
<1> SUFFICES ASSUME IInv, [Next]_vars PROVE IInv' OBVIOUS
<1>1. CASE UNCHANGED vars BY <1>1 DEF vars, IInv
<1>2. CASE Arithmetic
  <2>1. PICK d \in Register :
          \/ \E s \in Register : Add(d, s) \/ Adc(d, s) \/ Cpc(d, s)
          \/ \E Rr \in Byte : Sub(d, Rr) \/ Sbc(d, Rr) \/ Cp(d, Rr)
          \/ Neg(d) \/ Inc(d) \/ Dec(d)
        BY <1>2 DEF Arithmetic
  <2>2. 0 \in Byte BY ByteRange
  <2>3. CASE \E s \in Register : Add(d, s) \/ Adc(d, s) \/ Cpc(d, s)
        BY <2>2, <2>3, AddStep, AdcStep, SubtractionsStep
  <2>4. CASE \E Rr \in Byte : Sub(d, Rr) \/ Sbc(d, Rr) \/ Cp(d, Rr)
        BY <2>4, SubtractionsStep
  <2>5. CASE Neg(d) BY <2>2, <2>5, SubtractionsStep
  <2>6. CASE Inc(d) BY <2>6, IncStep
  <2>7. CASE Dec(d) BY <2>7, DecStep
  <2> QED BY <2>1, <2>3, <2>4, <2>5, <2>6, <2>7
<1>3. CASE Multiply
  <2>1. PICK d \in Register, s \in Register :
          LET su(i) == Signed(r[i], Radix)
          IN  \/ Mul(r[d], r[s])   \/ Mul(su(d), su(s))   \/ Mul(su(d), r[s])
              \/ FMul(r[d], r[s])  \/ FMul(su(d), su(s))  \/ FMul(su(d), r[s])
        BY <1>3 DEF Multiply
  <2>2. /\ r[d] \in Int /\ r[s] \in Int
        /\ Signed(r[d], Radix) \in Int /\ Signed(r[s], Radix) \in Int
        BY Registers, ByteRange
  <2> QED BY <2>1, <2>2, MultiplyStep
<1>4. ASSUME NEW K \in Small, Adiw(K) \/ Sbiw(K) PROVE IInv' BY <1>4, AdiwStep, SbiwStep
<1>5. ASSUME NEW d \in Register, Lsr(d) \/ Asr(d) \/ Ror(d) \/ Logic(d) \/ Com(d) PROVE IInv'
      BY <1>5, ShiftsStep, LogicStep
<1>6. CASE Load BY <1>6, OthersStep
<1>7. ASSUME NEW b \in BOOLEAN, WriteFlag(b) PROVE IInv' BY <1>7, OthersStep
<1> QED BY <1>1, <1>2, <1>3, <1>4, <1>5, <1>6, <1>7 DEF Next

\* The arithmetic of the emulated processor keeps IInv.
LEMMA Invariance == Spec => []IInv
BY InitIInv, NextIInv, PTL DEF Spec

\* Registers hold bytes, and the history is well formed.
THEOREM TypeCorrect == Spec => []TypeOK
<1>1. IInv => TypeOK BY IInvMeans
<1> QED BY <1>1, Invariance, PTL

\* For every width of a byte and every length of a chain, C and the result of chained
\* additions, subtractions and shifts are those of the operation on the whole numbers.
THEOREM CarriesChain == Spec => []CarryChain
<1>1. IInv => CarryChain BY IInvMeans
<1> QED BY <1>1, Invariance, PTL

\* Z of a chained comparison compares the whole numbers.
THEOREM ZerosChain == Spec => []ZeroOfChain
<1>1. IInv => ZeroOfChain BY IInvMeans
<1> QED BY <1>1, Invariance, PTL

\* S and V are the sign and the overflow of the exact result of a chain, H the carry
\* between its last nibbles.
THEOREM SignsExact == Spec => []SignIsExact
<1>1. IInv => SignIsExact BY IInvMeans
<1> QED BY <1>1, Invariance, PTL

\* r1:r0 is the product of the operands, signed or not, or its double, and Z tells whether
\* it is zero: the code may take Z from the product before it is shifted, because no product
\* has bit 15, the one that is shifted out, as its only bit.
THEOREM ProductsExact == Spec => []ProductIsExact
<1>1. Init => ProductIsExact BY DEF Init, Broken, ProductIsExact
<1>2. IInv /\ ProductIsExact /\ [Next]_vars => ProductIsExact' BY ProductStep
<1> QED BY <1>1, <1>2, Invariance, PTL DEF Spec
=============================================================================
