------------------------------ MODULE SDStream ------------------------------
(***************************************************************************)
(* What reading the emulated SD card promises, without its byte protocol.  *)
(* A read command opens a session at any address; data bytes are then      *)
(* served from consecutive card addresses, for as long as a multiple block *)
(* read goes on; a single block read ends with a block's number of bytes.  *)
(* The card moves only by serving a byte or by a command.                  *)
(***************************************************************************)
EXTENDS Integers

CONSTANTS BlockSize,   \* 512
          CardSize     \* addresses are u32: 2^32

VARIABLES session,     \* "none", "single" or "multi"
          next,        \* the address of the next byte served
          left         \* bytes that a single block read still owes

vars == <<session, next, left>>

Address == 0 .. CardSize - 1
After(a) == (a + 1) % CardSize

Init == session = "none" /\ next = 0 /\ left = 0

Open(kind, a) ==
    /\ session = "none"
    /\ session' = kind
    /\ next' = a
    /\ left' = IF kind = "single" THEN BlockSize ELSE 0

Serve ==
    /\ \/ /\ session = "single"
          /\ left' = left - 1
          /\ session' = IF left = 1 THEN "none" ELSE "single"
       \/ session = "multi" /\ UNCHANGED <<session, left>>
    /\ next' = After(next)

Stop ==
    /\ session = "multi"
    /\ session' = "none"
    /\ UNCHANGED <<next, left>>

Next ==
    \/ \E kind \in {"none", "single", "multi"}, a \in Address : Open(kind, a)
    \/ Serve
    \/ Stop

Spec == Init /\ [][Next]_vars
=============================================================================
