-------------------------------- MODULE Bytes --------------------------------
(***************************************************************************)
(* Bytes and the 16 bit words made of two of them.  A byte ranges over     *)
(* 0..Radix-1; the code's Radix is 256, so that Top is 0xFFFF.             *)
(***************************************************************************)
EXTENDS Integers

CONSTANT Radix    \* the number of values of a byte

ASSUME RadixAssumption == Radix \in Nat /\ Radix >= 2

Byte == 0 .. Radix - 1

\* The largest word.
Top == Radix * Radix - 1

Word == 0 .. Top

Join(hi, lo) == hi * Radix + lo
High(w) == w \div Radix
Low(w)  == w % Radix
==============================================================================
