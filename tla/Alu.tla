--------------------------------- MODULE Alu ---------------------------------
(***************************************************************************)
(* The arithmetic instructions of avr8::exec in src/avr8.cpp and the flags *)
(* they leave in SREG.  The code finds each flag by a Boolean formula over *)
(* the bits of the operands and of the result; a program relies on what    *)
(* the flags mean when instructions on bytes are chained into arithmetic   *)
(* on wider numbers.                                                       *)
(*                                                                         *)
(* chain and exact are history variables: the numbers the program has put  *)
(* together so far, and what the last addition or subtraction comes to     *)
(* exactly.  No instruction depends on them.                               *)
(***************************************************************************)
EXTENDS Bytes

CONSTANTS
    Half,        \* the value of bit 7
    Nibble,      \* the value of bit 3
    Small,       \* the immediate operands of ADIW and SBIW
    MaxBytes     \* bound of the model: the bytes of a chain

ASSUME WidthAssumption == /\ Half \in Nat \ {0} /\ Radix = 2 * Half
                          /\ Nibble \in Nat \ {0}
                          /\ Half % Nibble = 0
\* No two bytes have the product 2^15, as their only factors would be powers of 2.
ASSUME ProductAssumption == \A d, s \in Byte : d * s # Half * Radix
ASSUME OperandAssumption == Small \subseteq 0 .. Half - 1
ASSUME MaxBytesAssumption == MaxBytes \in Nat \ {0}

\* A pair of registers, low byte first; it is also r1:r0, where products go.
Register == {0, 1}

VARIABLES
    r,
    SREG,        \* its flags; I and T are not the ALU's
    chain,       \* history: the operands and the result of a chain
    exact        \* history: the exact signed result, its width, the half carry

vars == <<r, SREG, chain, exact>>

Broken == [kind |-> "none"]
None == [width |-> 0]

Init ==
    /\ r = [i \in Register |-> 0]
    /\ SREG = [C |-> FALSE, Z |-> FALSE, N |-> FALSE, V |-> FALSE, S |-> FALSE, H |-> FALSE]
    /\ chain = Broken
    /\ exact = None
-----------------------------------------------------------------------------
(* Flags *)

\* Bits 15, 7 and 3; a flag as a number.
Bit15(x) == x >= Half * Radix
Bit7(x) == x >= Half
Bit3(x) == x % (2 * Nibble) >= Nibble
Num(b) == IF b THEN 1 ELSE 0
C == Num(SREG.C)

\* CARRIES, BORROWS and the overflows, at one bit of Rd, Rr and R.
\* Mutated forms: a borrow handed on through equal bits is lost; the overflow of a sum.
Carries(d, s, R) == (d /\ s) \/ (s /\ ~R) \/ (~R /\ d)
BorrowsNoEqual(d, s, R) == ~d /\ s
Borrows(d, s, R) == (~d /\ s) \/ (s /\ R) \/ (R /\ ~d)
AddOverflow(d, s, R) == (d /\ s /\ ~R) \/ (~d /\ ~s /\ R)
SubOverflowAsAdd(d, s, R) == (d /\ s /\ ~R) \/ (~d /\ ~s /\ R)
SubOverflow(d, s, R) == (d /\ ~s /\ ~R) \/ (~d /\ s /\ R)

\* UPDATE_N, UPDATE_V and UPDATE_S.
Signs(f, n, v) == [f EXCEPT !.N = n, !.V = v, !.S = (n # v)]

\* UPDATE_HC_ADD; UPDATE_SVN_ADD; UPDATE_Z.
AfterAdd(Rd, Rr, R) ==
    [Signs(SREG, Bit7(R), AddOverflow(Bit7(Rd), Bit7(Rr), Bit7(R)))
        EXCEPT !.C = Carries(Bit7(Rd), Bit7(Rr), Bit7(R)),
               !.H = Carries(Bit3(Rd), Bit3(Rr), Bit3(R)),
               !.Z = (R = 0)]

\* UPDATE_HC_SUB; UPDATE_SVN_SUB; then Z.
AfterSub(Rd, Rr, R, z) ==
    [Signs(SREG, Bit7(R), SubOverflow(Bit7(Rd), Bit7(Rr), Bit7(R)))
        EXCEPT !.C = Borrows(Bit7(Rd), Bit7(Rr), Bit7(R)),
               !.H = Borrows(Bit3(Rd), Bit3(Rr), Bit3(R)),
               !.Z = z]

\* UPDATE_CLEAR_Z: Z stays up only while all the bytes were zero.
\* Mutated form: UPDATE_Z.
UpdateZ(R) == R = 0
ClearZ(R) == SREG.Z /\ R = 0

\* ADIW, SBIW.
AfterWord(n, v, c, R16) == [Signs(SREG, n, v) EXCEPT !.C = c, !.Z = (R16 = 0)]

\* UPDATE_SVN_LOGICAL; UPDATE_Z.
AfterLogic(R) == [Signs(SREG, Bit7(R), FALSE) EXCEPT !.Z = (R = 0)]

\* ASR, LSR, ROR: V is the exclusive or of N and C.
AfterShift(Rd, R) ==
    [Signs(SREG, Bit7(R), Bit7(R) # (Rd % 2 = 1)) EXCEPT !.C = (Rd % 2 = 1), !.Z = (R = 0)]

\* UPDATE_CZ_MUL: bit 15 and all of a product held in 16 bits.
\* Mutated form: Z from the byte in r0.
AfterMulLow(x) == [SREG EXCEPT !.C = Bit15(x), !.Z = (x % Radix = 0)]
AfterMul(x) == [SREG EXCEPT !.C = Bit15(x), !.Z = (x = 0)]
-----------------------------------------------------------------------------
(* Chains *)

\* The two's complement reading of x < w.
Signed(x, w) == IF 2 * x >= w THEN x - w ELSE x

\* d and s are the operands, res the result, w the width as a power of Radix, zero
\* whether Z tells if all of res is zero.  A chain of additions or subtractions grows
\* towards higher bytes, one of shifts towards lower ones (s is the bit shifted in).
Start(kind, d, s, R) ==
    [kind |-> kind, n |-> 1, w |-> Radix, d |-> d, s |-> s, res |-> R, zero |-> TRUE]
Extended(d, s, R, zero) ==
    [chain EXCEPT !.n = @ + 1, !.w = @ * Radix, !.d = @ + chain.w * d,
                  !.s = @ + chain.w * s, !.res = @ + chain.w * R, !.zero = zero]
Continue(kind, d, s, R, zero) ==
    IF chain.kind = kind /\ chain.n < MaxBytes THEN Extended(d, s, R, zero) ELSE Broken
ContinueShift(d, R) ==
    IF chain.kind = "shift" /\ chain.n < MaxBytes
    THEN [chain EXCEPT !.n = @ + 1, !.w = @ * Radix, !.d = @ * Radix + d,
                       !.res = @ * Radix + R, !.zero = FALSE]
    ELSE Start("shift", d, C, R)
Word16(kind, d, s, R16) ==
    [kind |-> kind, n |-> 2, w |-> Radix * Radix, d |-> d, s |-> s, res |-> R16, zero |-> TRUE]

\* An instruction that leaves C alone may stand inside a chain, as the counter of a
\* loop does; Z is then no longer the chain's.
Interrupted == IF chain.kind \in {"add", "sub", "shift"}
               THEN [chain EXCEPT !.zero = FALSE] ELSE Broken

\* What a chain that has just grown comes to.
Exact(c, half) ==
    CASE c.kind = "add" -> [width |-> c.w, value |-> Signed(c.d, c.w) + Signed(c.s, c.w), half |-> half]
      [] c.kind = "sub" -> [width |-> c.w, value |-> Signed(c.d, c.w) - Signed(c.s, c.w), half |-> half]
      [] OTHER -> None
Low4(x) == x % (2 * Nibble)
-----------------------------------------------------------------------------
(* Instructions *)

\* ADD, LSL and ADC, ROL.
Add(d, s) ==
    LET Rd == r[d]
        Rr == r[s]
        R == (Rd + Rr) % Radix
    IN  /\ r' = [r EXCEPT ![d] = R]
        /\ SREG' = AfterAdd(Rd, Rr, R)
        /\ chain' = Start("add", Rd, Rr, R)
        /\ exact' = Exact(chain', Low4(Rd) + Low4(Rr) >= 2 * Nibble)

Adc(d, s) ==
    LET Rd == r[d]
        Rr == r[s]
        R == (Rd + Rr + C) % Radix
    IN  /\ r' = [r EXCEPT ![d] = R]
        /\ SREG' = AfterAdd(Rd, Rr, R)
        /\ chain' = Continue("add", Rd, Rr, R, FALSE)
        /\ exact' = Exact(chain', Low4(Rd) + Low4(Rr) + C >= 2 * Nibble)

\* SUB and SUBI store what CP and CPI only compare; SBC and SBCI what CPC does.
Subtract(Rd, Rr) ==
    LET R == (Rd - Rr) % Radix
    IN  /\ SREG' = AfterSub(Rd, Rr, R, R = 0)
        /\ chain' = Start("sub", Rd, Rr, R)
        /\ exact' = Exact(chain', Low4(Rd) - Low4(Rr) < 0)

SubtractCarry(Rd, Rr) ==
    LET R == (Rd - Rr - C) % Radix
    IN  /\ SREG' = AfterSub(Rd, Rr, R, ClearZ(R))
        /\ chain' = Continue("sub", Rd, Rr, R, chain.kind = "sub" /\ chain.zero)
        /\ exact' = Exact(chain', Low4(Rd) - Low4(Rr) - C < 0)

Sub(d, Rr) == Subtract(r[d], Rr) /\ r' = [r EXCEPT ![d] = (r[d] - Rr) % Radix]
Sbc(d, Rr) == SubtractCarry(r[d], Rr) /\ r' = [r EXCEPT ![d] = (r[d] - Rr - C) % Radix]
Cp(d, Rr)  == Subtract(r[d], Rr) /\ UNCHANGED r
Cpc(d, s)  == SubtractCarry(r[d], r[s]) /\ UNCHANGED r
Neg(d)     == Subtract(0, r[d]) /\ r' = [r EXCEPT ![d] = (0 - r[d]) % Radix]

\* ADIW and SBIW work on the pair; H is left as it is.
Adiw(K) ==
    LET Rd16 == Join(r[1], r[0])
        R16 == (Rd16 + K) % (Radix * Radix)
    IN  /\ r' = [i \in Register |-> IF i = 0 THEN Low(R16) ELSE High(R16)]
        /\ SREG' = AfterWord(Bit15(R16), ~Bit15(Rd16) /\ Bit15(R16), ~Bit15(R16) /\ Bit15(Rd16), R16)
        /\ chain' = Word16("add", Rd16, K, R16)
        /\ exact' = Exact(chain', SREG.H)

Sbiw(K) ==
    LET Rd16 == Join(r[1], r[0])
        R16 == (Rd16 - K) % (Radix * Radix)
    IN  /\ r' = [i \in Register |-> IF i = 0 THEN Low(R16) ELSE High(R16)]
        /\ SREG' = AfterWord(Bit15(R16), Bit15(Rd16) /\ ~Bit15(R16), Bit15(R16) /\ ~Bit15(Rd16), R16)
        /\ chain' = Word16("sub", Rd16, K, R16)
        /\ exact' = Exact(chain', SREG.H)

\* INC and DEC leave C and H alone; V from the one result that overflows.
Inc(d) ==
    LET R == (r[d] + 1) % Radix
    IN  /\ r' = [r EXCEPT ![d] = R]
        /\ SREG' = [Signs(SREG, Bit7(R), R = Half) EXCEPT !.Z = (R = 0)]
        /\ chain' = Interrupted
        /\ exact' = [width |-> Radix, value |-> Signed(r[d], Radix) + 1, half |-> SREG.H]

Dec(d) ==
    LET R == (r[d] - 1) % Radix
    IN  /\ r' = [r EXCEPT ![d] = R]
        /\ SREG' = [Signs(SREG, Bit7(R), R = Half - 1) EXCEPT !.Z = (R = 0)]
        /\ chain' = Interrupted
        /\ exact' = [width |-> Radix, value |-> Signed(r[d], Radix) - 1, half |-> SREG.H]

\* LSR, ASR and ROR; the bit shifted in is 0, bit 7 itself or C.
Shift(d, in, next) ==
    LET R == r[d] \div 2 + in * Half
    IN  /\ r' = [r EXCEPT ![d] = R]
        /\ SREG' = AfterShift(r[d], R)
        /\ chain' = next
        /\ exact' = None
Lsr(d) == Shift(d, 0, Start("shift", r[d], 0, r[d] \div 2))
Asr(d) == LET in == Num(Bit7(r[d])) IN Shift(d, in, Start("shift", r[d], in, r[d] \div 2 + in * Half))
Ror(d) == Shift(d, C, ContinueShift(r[d], r[d] \div 2 + C * Half))

\* AND, ANDI, OR, ORI, EOR: what the properties tell apart is only that R is a byte.
Logic(d) ==
    \E R \in Byte : /\ r' = [r EXCEPT ![d] = R]
                    /\ SREG' = AfterLogic(R)
                    /\ chain' = Interrupted
                    /\ exact' = None

Com(d) ==
    LET R == Radix - 1 - r[d]
    IN  /\ r' = [r EXCEPT ![d] = R]
        /\ SREG' = [AfterLogic(R) EXCEPT !.C = TRUE]
        /\ chain' = Broken
        /\ exact' = None

\* MUL, MULS, MULSU: a and b are the operands as the instruction reads them.
Product(a, b, frac) == [kind |-> "product", d |-> a, s |-> b, frac |-> frac]
Mul(a, b) ==
    LET x == (a * b) % (Radix * Radix)
    IN  /\ r' = [i \in Register |-> IF i = 0 THEN x % Radix ELSE x \div Radix]
        /\ SREG' = AfterMul(x)
        /\ chain' = Product(a, b, FALSE)
        /\ exact' = None

\* The high byte of a product shifted up by one: (u8)(x >> 7).
\* Mutated form: without the cast.
FractionHighWide(x) == x \div Half
FractionHigh(x) == (x \div Half) % Radix

\* FMUL, FMULS, FMULSU: r1:r0 is shifted up by one, C is the bit shifted out.
FMul(a, b) ==
    LET x == (a * b) % (Radix * Radix)
    IN  /\ r' = [i \in Register |-> IF i = 0 THEN (2 * x) % Radix ELSE FractionHigh(x)]
        /\ SREG' = AfterMul(x)
        /\ chain' = Product(a, b, TRUE)
        /\ exact' = None

\* MOV, MOVW, LDI, SWAP, BLD, IN, POP and all loads: any bytes, no flags.
Load ==
    /\ r' \in [Register -> Byte]
    /\ chain' = IF chain.kind = "product" THEN Broken ELSE chain
    /\ UNCHANGED <<SREG, exact>>

\* BSET, BCLR: a flag set or cleared by the program.
WriteFlag(b) ==
    /\ \E f \in DOMAIN SREG : SREG' = [SREG EXCEPT ![f] = b]
    /\ chain' = Broken /\ exact' = None
    /\ UNCHANGED r

Multiply ==
    \E d, s \in Register :
        LET su(i) == Signed(r[i], Radix)
        IN  \/ Mul(r[d], r[s])   \/ Mul(su(d), su(s))   \/ Mul(su(d), r[s])
            \/ FMul(r[d], r[s])  \/ FMul(su(d), su(s))  \/ FMul(su(d), r[s])

Arithmetic ==
    \E d \in Register :
        \/ \E s \in Register : Add(d, s) \/ Adc(d, s) \/ Cpc(d, s)
        \/ \E Rr \in Byte : Sub(d, Rr) \/ Sbc(d, Rr) \/ Cp(d, Rr)
        \/ Neg(d) \/ Inc(d) \/ Dec(d)

Next ==
    \/ Arithmetic
    \/ Multiply
    \/ \E K \in Small : Adiw(K) \/ Sbiw(K)
    \/ \E d \in Register : Lsr(d) \/ Asr(d) \/ Ror(d) \/ Logic(d) \/ Com(d)
    \/ Load
    \/ \E b \in BOOLEAN : WriteFlag(b)

Spec == Init /\ [][Next]_vars
-----------------------------------------------------------------------------
(* Properties *)

\* The types of the registers, of the flags and of the history.
TypeOK ==
    /\ r \in [Register -> Byte]
    /\ SREG \in [C : BOOLEAN, Z : BOOLEAN, N : BOOLEAN, V : BOOLEAN, S : BOOLEAN, H : BOOLEAN]
    /\ \/ chain = Broken
       \/ /\ chain \in [kind : {"add", "sub", "shift"}, n : 1 .. MaxBytes + 1, w : Nat,
                        d : Nat, s : Nat, res : Nat, zero : BOOLEAN]
          /\ chain.d < chain.w /\ chain.s < chain.w /\ chain.res < chain.w
       \/ chain \in [kind : {"product"}, d : Int, s : Int, frac : BOOLEAN]
    /\ \/ exact = None
       \/ exact \in [width : Nat, value : Int, half : BOOLEAN]

\* However many bytes a chain of ADD and ADC, of SUB or CP with SBC or CPC, or of
\* shifts and ROR has taken, and whatever stood between them that leaves C alone, C and
\* the result are those of the operation on the whole numbers.
CarryChain ==
    /\ chain.kind = "add" => chain.res + C * chain.w = chain.d + chain.s
    /\ chain.kind = "sub" => chain.res + chain.s = chain.d + C * chain.w
    /\ chain.kind = "shift" => 2 * chain.res + C = chain.d + chain.s * chain.w

\* Z after a chained subtraction or comparison says whether all the bytes are zero
\* (UPDATE_CLEAR_Z), as long as nothing in between wrote Z.
ZeroOfChain ==
    chain.kind \in {"add", "sub", "shift"} /\ chain.zero => (SREG.Z <=> chain.res = 0)

\* After an addition, subtraction or comparison S is the sign of the exact result, even
\* when it overflows (so that BRLT and BRGE compare signed numbers), V tells whether it
\* does, and H is the carry or borrow between the nibbles of the last byte.
SignIsExact ==
    exact # None =>
        /\ SREG.S <=> exact.value < 0
        /\ SREG.V <=> \/ 2 * exact.value < 0 - exact.width
                      \/ 2 * exact.value >= exact.width
        /\ SREG.N <=> (SREG.S # SREG.V)
        /\ SREG.H <=> exact.half

\* r1:r0 holds the product, or twice the product for the fractional instructions; Z
\* tells whether r1:r0 is zero, although the code tests the product before the shift.
ProductIsExact ==
    chain.kind = "product" =>
        LET p == Join(r[1], r[0])
            whole == Radix * Radix
        IN  IF chain.frac THEN /\ (2 * chain.d * chain.s) % whole = p
                               /\ SREG.Z <=> p = 0
            ELSE /\ (chain.d * chain.s) % whole = p
                 /\ SREG.Z <=> p = 0
                 /\ SREG.C <=> Bit7(r[1])
=============================================================================
