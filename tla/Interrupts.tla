----------------------------- MODULE Interrupts -----------------------------
(***************************************************************************)
(* Calls, returns, the stack and the dispatch of interrupts in             *)
(* src/avr8.cpp.  The stack lies in the emulated RAM, a byte at a time,    *)
(* and is reached through SP, whose two bytes are moved separately; an     *)
(* interrupt pushes the program counter wherever SP points when an         *)
(* instruction has ended.                                                  *)
(*                                                                         *)
(* The program is any that balances its stack: it returns with a return    *)
(* address on top, pops what it pushed, and while interrupts are enabled   *)
(* leaves room for one.  frames is a history of what it pushed; no step    *)
(* of the emulator depends on it but through that balance.                 *)
(***************************************************************************)
EXTENDS Bytes, SequencesExt

CONSTANTS
    Sources,       \* the interrupts whose devices are in use
    Vector,        \* where their handlers are
    RamBase,       \* SRAMBASE: the address of the first byte of RAM
    RamSize,       \* sramSize
    Targets,       \* where the program jumps and calls to
    Pushed,        \* the register values it pushes
    Masks          \* the sets of interrupts it enables

\* In the order in which update_hardware_ins looks at them.
\* Mutated form: the timer first.
OrderTimerFirst == <<"TIMER1_COMPA", "SPI_STC", "WDT", "TIMER1_COMPB", "TIMER1_OVF">>
Order == <<"SPI_STC", "WDT", "TIMER1_COMPA", "TIMER1_COMPB", "TIMER1_OVF">>

ASSUME SourcesAssumption == /\ Sources \subseteq {Order[i] : i \in DOMAIN Order}
                            /\ Vector \in [Sources -> Word]
ASSUME RamAssumption == /\ RamBase \in Nat /\ RamBase >= 1
                        /\ RamSize \in Nat /\ RamSize >= 2
                        /\ RamBase + RamSize - 1 \in Word
ASSUME ProgramAssumption == /\ Targets \subseteq Word
                            /\ Pushed \subseteq Byte
                            /\ Masks \subseteq SUBSET Sources

RamEnd == RamBase + RamSize - 1

VARIABLES
    pc,
    SP,        \* <<SPH, SPL>>
    sram,
    I,         \* SREG bit 7
    raised,    \* SPIF, WDIF, OCF1A, OCF1B, TOV1
    enabled,   \* SPIE, WDIE, OCIE1A, OCIE1B, TOIE1
    popped,    \* the register last loaded by POP
    phase,     \* "exec": an instruction is due; "done": it has ended
    frames     \* history: what lies on the stack

memory == <<SP, sram, frames>>
vars == <<pc, SP, sram, I, raised, enabled, popped, phase, frames>>

\* The C runtime of the program has set SP to the end of RAM.
Init ==
    /\ pc = 0
    /\ SP = <<High(RamEnd), Low(RamEnd)>>
    /\ sram = [i \in 0 .. RamSize - 1 |-> 0]
    /\ I = FALSE /\ raised = {} /\ enabled = {}
    /\ popped = 0
    /\ phase = "exec"
    /\ frames = <<>>
-----------------------------------------------------------------------------
(* The stack in RAM *)

Address(s) == Join(s[1], s[2])
Slot(s) == (Address(s) - RamBase) % RamSize

\* Mutated forms of DEC_SP: SPH is not borrowed from; SPL is wider than a byte.
DecWide(s) == <<IF s[2] = 0 THEN s[1] - 1 ELSE s[1], s[2] - 1>>
DecNoBorrow(s) == <<s[1], (s[2] - 1) % Radix>>

\* DEC_SP and INC_SP: SPH moves when SPL was, or becomes, zero.
Dec(s) == <<IF s[2] = 0 THEN (s[1] - 1) % Radix ELSE s[1], (s[2] - 1) % Radix>>
Inc(s) == <<IF s[2] = Radix - 1 THEN (s[1] + 1) % Radix ELSE s[1], (s[2] + 1) % Radix>>

\* write_sram(SP, v), DEC_SP; a word's low byte first.
\* Mutated form: high byte first.
PushByteAt(v) == sram' = [sram EXCEPT ![Slot(SP)] = v] /\ SP' = Dec(SP)

PushWordHighFirst(w) ==
    /\ sram' = [[sram EXCEPT ![Slot(SP)] = High(w)] EXCEPT ![Slot(Dec(SP))] = Low(w)]
    /\ SP' = Dec(Dec(SP))
PushWord(w) ==
    /\ sram' = [[sram EXCEPT ![Slot(SP)] = Low(w)] EXCEPT ![Slot(Dec(SP))] = High(w)]
    /\ SP' = Dec(Dec(SP))

TopByte == sram[Slot(Inc(SP))]
TopWord == Join(sram[Slot(Inc(SP))], sram[Slot(Inc(Inc(SP)))])
-----------------------------------------------------------------------------
(* The program's balance *)

Size(kind) == IF kind = "byte" THEN 1 ELSE 2

\* Bytes on the stack, and those an interrupt may need at any time.
Used == RamEnd - Address(SP)
Reserve(i) == IF i THEN 2 ELSE 0
Room(n) == Used + n + Reserve(I) <= RamSize

Note(k, v) ==
    frames' = Append(frames, [kind |-> k, value |-> v, at |-> Address(SP), open |-> FALSE])

OnTop(kinds) == frames # <<>> /\ Last(frames).kind \in kinds

\* Handlers that have enabled interrupts while they run.
Opened(fs) == [j \in DOMAIN fs |-> [fs[j] EXCEPT !.open = TRUE]]
-----------------------------------------------------------------------------
(* Instructions *)

Execute == phase = "exec" /\ phase' = "done"
After(length) == (pc + length) % (Top + 1)

Jump(to) == Execute /\ pc' = to /\ UNCHANGED <<I, raised, enabled, popped, memory>>

\* CALL is two words long, RCALL and ICALL are one.
Call(to, length) ==
    /\ Execute
    /\ Room(2)
    /\ PushWord(After(length))
    /\ pc' = to
    /\ Note("call", After(length))
    /\ UNCHANGED <<I, raised, enabled, popped>>

Ret ==
    /\ Execute
    /\ OnTop({"call", "irq"})
    /\ pc' = TopWord
    /\ SP' = Inc(Inc(SP))
    /\ frames' = Front(frames)
    /\ UNCHANGED <<sram, I, raised, enabled, popped>>

Reti ==
    /\ Execute
    /\ OnTop({"call", "irq"})
    /\ pc' = TopWord
    /\ SP' = Inc(Inc(SP))
    /\ I' = TRUE
    /\ frames' = Opened(Front(frames))
    /\ UNCHANGED <<sram, raised, enabled, popped>>

Push(v) ==
    /\ Execute
    /\ Room(1)
    /\ PushByteAt(v)
    /\ pc' = After(1)
    /\ Note("byte", v)
    /\ UNCHANGED <<I, raised, enabled, popped>>

Pop ==
    /\ Execute
    /\ OnTop({"byte"})
    /\ popped' = TopByte
    /\ SP' = Inc(SP)
    /\ pc' = After(1)
    /\ frames' = Front(frames)
    /\ UNCHANGED <<sram, I, raised, enabled>>

\* BSET 7 and BCLR 7.
Sei ==
    /\ Execute
    /\ Used + Reserve(TRUE) <= RamSize
    /\ I' = TRUE
    /\ pc' = After(1)
    /\ frames' = Opened(frames)
    /\ UNCHANGED <<SP, sram, raised, enabled, popped>>

Cli ==
    /\ Execute
    /\ I' = FALSE
    /\ pc' = After(1)
    /\ UNCHANGED <<raised, enabled, popped, memory>>

\* OUT to the enable bits in TIMSK1, SPCR and WDTCSR, taken together, and to a
\* flag in TIFR1 or SPSR.
Enable(E) ==
    /\ Execute
    /\ enabled' = E
    /\ pc' = After(1)
    /\ UNCHANGED <<I, raised, popped, memory>>

Acknowledge(s) ==
    /\ Execute
    /\ raised' = raised \ {s}
    /\ pc' = After(1)
    /\ UNCHANGED <<I, enabled, popped, memory>>

Instruction ==
    \/ \E to \in Targets : Jump(to) \/ (\E length \in {1, 2} : Call(to, length))
    \/ Ret \/ Reti
    \/ (\E v \in Pushed : Push(v)) \/ Pop
    \/ Sei \/ Cli
    \/ \E E \in Masks : Enable(E)
    \/ \E s \in Sources : Acknowledge(s)
-----------------------------------------------------------------------------
(* Interrupts *)

\* update_hardware and update_hardware_ins raise flags at any cycle.
Raise(s) ==
    /\ raised' = raised \cup {s}
    /\ UNCHANGED <<pc, I, enabled, popped, phase, memory>>

Requested == raised \cap enabled

\* The first requested interrupt in the order of the chain of ifs.
Chosen(s) ==
    \E i \in DOMAIN Order :
        Order[i] = s /\ s \in Requested /\ \A j \in 1 .. i - 1 : Order[j] \notin Requested

\* Mutated form: leaves interrupts enabled.
TriggerInterruptEnabled(s) ==
    /\ UNCHANGED I
    /\ PushWord(pc)
    /\ Note("irq", pc)
    /\ pc' = Vector[s]

TriggerInterrupt(s) ==
    /\ I' = FALSE
    /\ PushWord(pc)
    /\ Note("irq", pc)
    /\ pc' = Vector[s]

Dispatch(s) ==
    /\ phase = "done" /\ phase' = "exec"
    /\ I /\ Chosen(s)
    /\ raised' = raised \ {s}
    /\ TriggerInterrupt(s)
    /\ UNCHANGED <<enabled, popped>>

Resume ==
    /\ phase = "done" /\ phase' = "exec"
    /\ ~I \/ Requested = {}
    /\ UNCHANGED <<pc, I, raised, enabled, popped, memory>>

UpdateHardwareIns == Resume \/ \E s \in Sources : Dispatch(s)

Next == Instruction \/ UpdateHardwareIns \/ \E s \in Sources : Raise(s)

\* Instructions are executed, and end, one after the other (retro_run).
Spec == Init /\ [][Next]_vars
FairSpec == Spec /\ WF_vars(Instruction) /\ WF_vars(UpdateHardwareIns)
-----------------------------------------------------------------------------
(* Properties *)

Frame == [kind : {"call", "irq", "byte"}, value : Word, at : Word, open : BOOLEAN]

\* Every variable keeps its type; both bytes of SP stay bytes.
TypeOK ==
    /\ pc \in Word /\ SP \in Byte \X Byte
    /\ sram \in [0 .. RamSize - 1 -> Byte]
    /\ I \in BOOLEAN /\ raised \subseteq Sources /\ enabled \subseteq Sources
    /\ popped \in Byte /\ phase \in {"exec", "done"}
    /\ frames \in Seq(Frame)

\* The stack never grows below RAM, and while interrupts are enabled one more
\* frame still fits: no interrupt overwrites what it must return to.
StackInRam == Used >= 0 /\ Used + Reserve(I) <= RamSize

\* Where a frame ends, and the next one begins.
End(f) == f.at - Size(f.kind)
Depth(fs, n) == IF n = 0 THEN RamEnd ELSE End(fs[n])

\* A frame is found in the memory m as it was pushed.
Holds(m, f) ==
    IF f.kind = "byte"
    THEN m[f.at - RamBase] = f.value
    ELSE Join(m[f.at - 1 - RamBase], m[f.at - RamBase]) = f.value

Stacked(a, m, fs) ==
    /\ a = Depth(fs, Len(fs))
    /\ \A n \in 1 .. Len(fs) : /\ fs[n].at = Depth(fs, n - 1) /\ fs[n].at <= RamEnd
                               /\ a <= End(fs[n])
                               /\ Holds(m, fs[n])
    /\ \A j, n \in 1 .. Len(fs) : j < n => fs[n].at <= End(fs[j])

\* The frames lie one behind the other between SP and the end of RAM, and each
\* is found there as it was pushed: low byte above high byte, across the borrow
\* of SPL from SPH, whatever was pushed and popped below it since.
StackHolds == Stacked(Address(SP), sram, frames)

Irq(f) == f.kind = "irq"
Nested(i, fs) ==
    /\ i => \A n \in 1 .. Len(fs) : Irq(fs[n]) => fs[n].open
    /\ \A j, n \in 1 .. Len(fs) : j < n /\ Irq(fs[j]) /\ Irq(fs[n]) => fs[j].open

\* A handler is interrupted only after it has enabled interrupts itself: while
\* they are enabled every handler that has not returned has done so.
NoPreemption == Nested(I, frames)

\* Returns, pops and handlers see what an unbounded stack would give them.
Stripped(fs) == [j \in DOMAIN fs |-> [kind |-> fs[j].kind, value |-> fs[j].value]]
Ideal == INSTANCE CallStack WITH stack <- Stripped(frames)
ImplementsCallStack == Ideal!Spec

\* The interrupt at the head of the chain is not starved: a program that goes on
\* ending instructions with interrupts enabled takes it or acknowledges it,
\* however often the others are raised.
Served(s) == [](s \in Requested => <>(s \notin Requested))
MostUrgentServed == []<>(phase = "done" /\ I) => Served("SPI_STC")
==============================================================================
