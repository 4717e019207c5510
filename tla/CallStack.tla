------------------------------ MODULE CallStack ------------------------------
(***************************************************************************)
(* What calls, interrupts and the stack promise a program, without the     *)
(* memory the stack is kept in: a return goes back behind the last call    *)
(* that has not returned, a handler to the instruction it interrupted, and *)
(* a pop gives back the byte last pushed.  An instruction that ends with   *)
(* interrupts enabled and one requested enters a handler.                  *)
(***************************************************************************)
EXTENDS Bytes, SequencesExt

CONSTANTS Sources,   \* the interrupts
          Vector     \* where their handlers are

VARIABLES pc,
          I,                 \* interrupts are enabled
          raised, enabled,   \* the interrupts' flags and enable bits
          popped,            \* the register last loaded by POP
          stack,             \* what was pushed, and not popped or returned to
          phase              \* an instruction is due, or has just ended

vars == <<pc, I, raised, enabled, popped, stack, phase>>

Init ==
    /\ pc = 0 /\ I = FALSE /\ raised = {} /\ enabled = {} /\ popped = 0
    /\ stack = <<>> /\ phase = "exec"

Push(k, v) == stack' = Append(stack, [kind |-> k, value |-> v])
Pop(kinds) == stack # <<>> /\ Last(stack).kind \in kinds /\ stack' = Front(stack)

Execute == phase = "exec" /\ phase' = "done"

\* Anything that leaves the stack alone: jumps, enabling and disabling
\* interrupts, acknowledging requests.
Plain ==
    /\ Execute
    /\ pc' \in Word /\ I' \in BOOLEAN
    /\ raised' \subseteq raised /\ enabled' \subseteq Sources
    /\ UNCHANGED <<popped, stack>>

\* A call returns behind itself; it is one or two words long.
Call ==
    /\ Execute
    /\ pc' \in Word
    /\ \E length \in {1, 2} : Push("call", (pc + length) % (Top + 1))
    /\ UNCHANGED <<I, raised, enabled, popped>>

\* Returns from a call or a handler; the latter enables interrupts.
Return ==
    /\ Execute
    /\ Pop({"call", "irq"})
    /\ pc' = Last(stack).value
    /\ I' \in {I, TRUE}
    /\ UNCHANGED <<raised, enabled, popped>>

PushByte(v) ==
    /\ Execute
    /\ pc' = (pc + 1) % (Top + 1)
    /\ Push("byte", v)
    /\ UNCHANGED <<I, raised, enabled, popped>>

PopByte ==
    /\ Execute
    /\ pc' = (pc + 1) % (Top + 1)
    /\ Pop({"byte"})
    /\ popped' = Last(stack).value
    /\ UNCHANGED <<I, raised, enabled>>

\* The hardware requests an interrupt at any time.
Raise(s) == raised' = raised \cup {s} /\ UNCHANGED <<pc, I, enabled, popped, stack, phase>>

Requested == raised \cap enabled

\* Between two instructions a requested interrupt is taken, if they are enabled.
Interrupt(s) ==
    /\ phase = "done" /\ phase' = "exec"
    /\ I /\ s \in Requested
    /\ raised' = raised \ {s}
    /\ Push("irq", pc)
    /\ pc' = Vector[s]
    /\ I' = FALSE
    /\ UNCHANGED <<enabled, popped>>

Resume ==
    /\ phase = "done" /\ phase' = "exec"
    /\ ~I \/ Requested = {}
    /\ UNCHANGED <<pc, I, raised, enabled, popped, stack>>

Next ==
    \/ Plain \/ Call \/ Return \/ PopByte \/ Resume
    \/ \E v \in Byte : PushByte(v)
    \/ \E s \in Sources : Raise(s) \/ Interrupt(s)

Spec == Init /\ [][Next]_vars
==============================================================================
