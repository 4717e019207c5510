---------------------------- MODULE MCInterrupts ----------------------------
(* A small instance of Interrupts: three values per byte, addresses 0 to 8 and *)
(* RAM from 2 to 5, so that a frame lies across the borrow of SPL from SPH.    *)
EXTENDS Interrupts

MCVector == [s \in Sources |-> IF s = "SPI_STC" THEN 7 ELSE 4]
MCMasks == {{"TIMER1_COMPA"}, Sources}
=============================================================================
