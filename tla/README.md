# TLA+ models of the Uzem libretro core

Uzem emulates the Uzebox, a game console made of an ATmega644 whose program
bit-bangs the video signal, an SD card on the SPI port, joypads on port A and an
EEPROM. The core (`avr8.cpp`, `avr8.h`) interprets AVR instructions and advances
the hardware by cycle; `uzem_libretro.cpp` is the frontend that runs it a video
frame at a time. Everything happens in one thread. What makes the code hard is not
parallelism but *time*: hardware that is counted ahead instead of clocked, outputs
that take effect later in the instruction, interrupts that arrive between any two
instructions, and protocols whose other side (the game) may do anything.

## Inventory

| component | source | state | operations | hard part | what makes it correct |
|---|---|---|---|---|---|
| Timer1 | `avr8.cpp` `update_hardware`, `write_io`, `read_io`, `update_hardware_ins` | `TCNT1`, `timer1_next`, `timer1_base`, `itd_TIFR1`, the port registers, `T16_latch`, delayed outputs | one cycle; port writes and reads; end of instruction | the counter is *predicted*: any write between two events makes the prediction stale | it cannot be told from a timer clocked every cycle |
| SPI port, SD card protocol | `avr8.cpp` `update_spi`, SPDR/SPCR/SPSR in `write_io` | port, transfer clock, card state machine, reply pointer, position | port writes; a byte exchanged; end of instruction | any command in any state, stops in the middle of a block | the bytes served are consecutive ones from the commanded block |
| interrupts and stack | `avr8.cpp` `update_hardware_ins`, `trigger_interrupt`, CALL, RET, PUSH, POP...; `avr8.h` `read_sram`, `write_sram` | `pc`, `SP` (two bytes), SREG bit 7, flags and enable bits, RAM | instructions; dispatch | an interrupt after any instruction; byte-wise stack pointer | calls and handlers return to where they came from |
| watchdog | `avr8.cpp` 787, WDR | `watchdogTimer`, `WDTCSR` | end of instruction, WDR | counts while its interrupt is disabled; random restart | expires only when left alone |
| EEPROM | `avr8.cpp` 521, 848 | `EECR`, `EEAR`, `EEDR`, `eeprom` | EECR write; end of instruction | the enable sequence EEMPE, EEPE | written only after the sequence |
| video and frame loop | `avr8.cpp` `write_io` PORTB, `video_driver_libretro.cpp`, `uzem_libretro.cpp` `retro_run` | `scanline_count`, `cycleCounter`, `prevCyclesCounter`, `left_edge_cycle`, the ring of pixels | PORTB writes, cycles, `retro_run`, savestates | sync pulses are recognised by their distance in cycles; rows are drawn from a ring addressed by an absolute clock | every frame handed out is one the program sent, drawn from its own pixels; `retro_run` ends |
| joypads, keyboard | `avr8.cpp` PORTA and `uzekb_handle_key`, `input_driver_libretro.cpp`, `Keyboard.h` | shift registers, `new_input_mode`, keyboard state and queue | latch, clock, poll, key | two protocols on the same pins; the mode is inferred | the bits shifted out are the buttons latched; keys arrive once and in order |
| SD image (FAT16) | `SDEmulator.cpp` | directory, FAT, cluster map, cached file | mount, seek, read | one file is cached across seeks; files at cluster boundaries | what is read is what the file holds |
| decoder, ALU, flash | `avr8.cpp` `exec`, `decodeFlash`, SPM | registers, SREG, `progmem`, `progmemDecoded` | one per opcode | flags are Boolean formulas over bits; decoded copy of the flash | chained instructions compute on wide numbers; decoded and raw flash agree |
| savestates | `uzem_libretro.cpp` 349-402 | what is copied, what is not | save, load | private members are left out | a loaded machine goes on like the saved one |
| GDB server | `gdbserver.cpp`, `avr8.cpp` 1030-1050 | `runMode`, `wait`, `BP`, `last_reply`, the connection | packets, resumes, interrupts, acknowledgements | another process acts at any time while the server looks away; not in the libretro build | the program runs only as resumed, and never over a breakpoint |
| ROM loaders, audio, capture, SDL frontend, libretro-common | see `PROJECT.json` | | | pure parsing, I/O, or not built | |

The debugger's client is the only other process.

The components meet in `update_hardware` (every cycle: Timer1, the scanline),
`update_hardware_ins` (every instruction: delayed outputs, watchdog, SPI, EEPROM,
interrupts) and `write_io`/`read_io` (every port access). Timer1, the SPI port and
the watchdog raise flags; the dispatch clears one of them. `update_spi` calls
`SDReadByte`, which reads the emulated MBR or the SD image. `retro_run` calls `exec`
until the video component has finished a frame. PORTA carries the joypads and the keyboard
on the same lines. The debugger is called before every instruction. `hazards` in `PROJECT.json` lists,
line by line, what can go wrong in all of them.

## Modules

| module | models | proved in |
|---|---|---|
| `Bytes` | bytes, and words made of two: the code's radix is 256, the models' is any >= 2 | |
| `Timer1Regs` | Timer1's registers, flags, and what one clock does | |
| `Timer1Ref` | abstract: the timer clocked on every cycle | |
| `Timer1` | the event driven timer of `avr8.cpp` | `Timer1_proofs` |
| `Timer1Savestate` | `Timer1` composed with `retro_serialize`, `retro_unserialize` | |
| `SDStream` | abstract: a card that serves bytes of consecutive addresses | |
| `SpiSd` | the SPI port and the state machine of `update_spi` | `SpiSd_proofs` |
| `SdEmu` | the FAT16 volume that `SDEmulator.cpp` makes of a directory, and `read` with its cached file | `SdEmu_proofs` |
| `CallStack` | abstract: calls, handlers and bytes on an unbounded stack | |
| `Interrupts` | instructions that use the stack, the stack's bytes in RAM, the dispatch of interrupts | `Interrupts_proofs` |
| `MCInterrupts` | constants of the instance of `Interrupts` | |
| `Alu` | the arithmetic and logical instructions and the flags they leave | `Alu_proofs` |
| `Video` | sync pulses, the ring of pixels, rows, `retro_run` and savestates | `Video_proofs` |
| `Controllers` | both pads and the keyboard behind PORTA and PINA | `Controllers_proofs` |
| `MCControllers` | constants of the instance of `Controllers` | |
| `Gdb` | the debugger: its server, its place in `exec`, its client | `Gdb_proofs` |

Names are the source's where TLA+ allows it. `map` in `PROJECT.json` gives each
definition its lines. Definitions commented *mutated form* are not part of a model:
each is a plausible bug in the operator it stands next to, and shows that some
property would notice it.

### Timer1

An instruction is some inner cycles (`InnerCycle`), at most one port access, the cycle
that ends it (`LastCycle`, `exec` calls `update_hardware_fast` there) and
`update_hardware_ins` (`InstructionEnd`). `phase` keeps that order. A cycle either
counts `timer1_next` down or, at zero, processes the timer: flags raised by the last
processing reach `TIFR1` (they take a cycle, `itd_TIFR1`), the counter advances, a new
schedule is made unless flags are pending. `OCR1x` writes act at once, byte by byte, and
fold the elapsed cycles into `TCNT1`; `TCCR1B` and `TCNT1` writes are delayed to the end
of the instruction. `Count`, the value a program reads, is
`TCNT1 + timer1_base - timer1_next`. Which interrupt is dispatched depends on SREG and
TIMSK1: `InstructionEnd` takes any raised flag or none.

Control bits other than "a clock is selected" and WGM12 have no effect in the code and
are left out.

### SpiSd

The program writes SPDR, SPCR or SPSR at most once per instruction; `Complete` and
`Continue` are the SPI part of `update_hardware_ins` for an instruction of 1 to
`MaxCycles` cycles, with or without the dispatch that clears SPIF. `Complete` runs one
step of `update_spi`, one action per state of its switch. Bytes are tokens (command
names, `"FF"`, `"data"`...); the contents of the card are `SdEmu`'s, its
*position* is modelled, in the emulated MBR and behind it. The host issues the commands
of `Issued` with any address: nothing in the code checks the argument, which is one value,
known when the last of its bytes arrives. A position inside the MBR runs on behind its end,
as `emulatedReadPos` does; what is read there is not modelled. A card is present.

### SdEmu

`AddFile` is one turn of the loop of `init_with_directory`, any number of times up to
`MaxFiles`; the host's files and their sizes are whatever the directory holds. `Seek` and
`ReadTables`, `ReadData` are `seek` and `read`: below the data area the tables, in it
`ReadCached` (the range of the file kept open), `ReadOpened` (a look-up finds a file; the
host opens it or fails to) or `ReadNowhere`. `offset` is the host's position in the open
file, which moves with each byte that `rfgetc` delivers and is set only when the address does
not follow the last one. A byte is a file and a place in it, so a byte from a wrong file or
a wrong place is a different byte. `at` and `byte` are history variables.

Tables have one address per entry instead of 2 or 32: no property looks at their bytes.
Sizes are below 2^24, where the code's `float` quotient is exact; the directory fits in the
FAT (`AddFile`'s guard: the code does not look); host files do not change.

### Interrupts

Each instruction of the stack is an action: `Call` (CALL, RCALL, ICALL), `Ret`, `Reti`,
`Push`, `Pop`, `Sei`, `Cli`, jumps, and the port writes that enable interrupts or
acknowledge them. `phase` alternates between the instruction and the end of
`update_hardware_ins`, which takes the first requested interrupt in the order of the
chain of ifs (`Dispatch`) or none (`Resume`). A device raises its flag at any moment
(`Raise`): Timer1 and SpiSd say when theirs do.
SP is two bytes; `Dec`, `Inc` are DEC_SP, INC_SP; a word is pushed low byte first.

`Init` is the machine when the C runtime has set SP to the end of RAM. The program is any
that balances its stack: it returns with a return address on top, pops bytes it
pushed, and leaves room for one more frame while interrupts are enabled (`Room`). Without
that no emulator could promise anything. `frames` is a history variable: the kind,
value and address of what is on the stack, and whether a handler has enabled interrupts
since. No emulator state depends on it except through that balance.

### Alu

One action per instruction or group of instructions with the same flags, on a pair of
registers. Each flag is the code's formula: `Carries`, `Borrows` and the overflows over
the top bits of operands and result, half carries over bit 3. A byte is a number below
`Radix`, bit 7 is `Half` of it. `chain` is a history variable: which numbers the program
has put together by chaining (ADD then ADC..., SUB or CP then SBC, SBCI or CPC..., LSL
then ROL..., LSR or ASR then ROR..., ADIW and SBIW, the products), and `exact` the exact
signed result of the last addition or subtraction. Loads put any byte into a register, so
every operand occurs. Instructions that leave C alone (INC, DEC, the logical ones) may
stand inside a chain, as a loop's counter does.

### Video

Instructions appear by what they do to the picture: `Cycle` puts a pixel into the ring,
`EepromAccess` only advances the clock (the code's TODO at `avr8.cpp:841`), `Search` and
`EndLine` are writes of PORTB with bit 0 set. `Begin` and `LoopEnds` are the loops of
`retro_run`, `Serialize` and `Unserialize` the frontend's savestates. `rows` is a history
variable that says of each row of the frontend's buffer how it was drawn since
`retro_run` was called, `own` and `since` what went into the ring since the last pulse.
Which pulses the program sends, and when, is left open. The colour of a pixel is not
modelled; the clock wraps, as the code's 32 bits do.

### Controllers

`Write` is a whole write to PORTA: the pads first (`WritePads`, `PadLines`), then the
keyboard's state machine (`KbStop`, `KbStart`, `KbClock`). `Poll` and `Key` are the event
loop: they come between any two writes. The libretro driver's `poll` returns 0
(`input_driver_libretro.cpp:71-75`), so in that build no key event arrives and `Key` never
happens; the model is of the emulator with any driver, and allows more than that build does.

A latch is the fall of the latch line alone, a clock that of the clock line alone, as the code compares for equality; the other bits of
PORTA are one bit. The driver polls the first pad only: `buttons[1]` keeps the ones that
`init_gui` gives it, so the mode changes when more than twelve clocks follow a latch,
and never back. `sample`, `clocks`, `read`, `pressed` and `received` are history variables.

### Gdb

`exec` calls the server before each instruction: it returns at once (`NotConnected`,
`Waiting`), accepts a client (`TryConnectGdb`) or enters its loop (`Enter`), one action
per thing the client may have sent; `AfterServer` is what `exec` does when it returns.
The client is external: any that waits for the answer to a packet before it sends the
next, acknowledges or refuses each answer, and interrupts a running program at any time.
TCP keeps what is sent in order. Packets that read or write other state are `Other`;
addresses count bytes in the protocol and words in the emulator. An instruction is the
address it was decoded at; where it goes is open, so every program is covered.
`resumed`, `under` and `asked` are history variables.

## Runs

| run | instance | shows |
|---|---|---|
| `timer1` | radix 3: the counter runs 0..8; bytes 0 and 2 are written | no event is skipped, refinement of `Timer1Ref`; a timer left alone in CTC mode goes on raising OCF1A (`CompareRecurs`) |
| `timer1_savestate` | radix 3 | finding: a loaded savestate breaks the schedule |
| `spisd` | blocks of 2 bytes, 3 blocks, the first of them the MBR | the protocol's invariants, refinement of `SDStream`, a single read ends; a block comes from the right part of the card until it crosses the end of the MBR (`PartOfCard`) |
| `spisd_flag` | the same | finding: a write to SPDR flips SPIF |
| `sdemu` | clusters of 2 bytes, 5 of them, up to 3 files of 0 to 3 bytes | FAT chains, cache and host position, every byte outside shadowed clusters |
| `sdemu_padding` | the same | finding: a full or empty file hides the cluster behind it |
| `interrupts` | radix 3, RAM for 4 bytes, 3 interrupts | the stack's invariants, refinement of `CallStack`; the first in the chain is not starved (`MostUrgentServed`) |
| `alu` | radix 4, bit 7 worth 2, bit 3 worth 1; immediates 0 and 1; chains of 2 bytes | carry, zero, sign, overflow and half carry mean what programs take them for; products are exact |
| `video` | 2 rows under 2 pulses; 4 cycles to a line, rows of 2 pixels, a ring of 6 | frames are whole, regular lines show their own pixels, `retro_run` returns |
| `controllers` | pads of 4 buttons in 7 bits; codes of 2 bits, 3 of them queued | a read is of one sample, keys arrive once and in order, short reads keep the mode |
| `gdb` | 2 words of program, 2 calls between two looks, 2 breakpoints, 1 refusal, 2 interrupts, a queue of 2 | the program runs as resumed, breakpoints hold, a waiting client is owed an answer, stops are reported |
| `gdb_stale` | the same | finding: the instruction of the old address is executed |

Bounds. Radix 3 is the least in which a byte has a value that is neither the first nor
the last, and carries, borrows and the wrap of a word all happen; the schedule can be
longer than, equal to and shorter than the distance to each compare value, both
compare values may coincide, and writes fall on every point of a schedule.
Blocks of two bytes have a first and a last byte; three blocks let a multiple block read
leave the MBR, go on behind it, and wrap at the end of the address space. Reads
begin at each of the six addresses, so a block may lie across the end of the MBR and across
the last address. `BlockDelay` 1
distinguishes the first block from the others. `CMD12` stands for all commands that are only
replied to. In `sdemu` a file is empty, within a
cluster, a cluster long, or longer; three of them give each of those a neighbour before
and behind, and the volume has clusters that no file owns. In `interrupts`, RAM lies at
addresses 2 to 5 of nine, so that a word lies across the borrow of SPL from SPH; four bytes hold two
nested handlers, or a call, a byte and no interrupt.

In `alu` a byte of two bits has both signs, both nibbles and all carries between
them; the second byte of a chain is where a wrong flag of the first shows, and the third is
like the second (the theorems hold for chains of any length). In `video` the ring is
larger than a line, as the code's is, and the clock wraps with it; an access to the EEPROM moves a
line by half. Of the pulses above the first row one is the frame's and one is not. In
`controllers` the pad's register is wider than the pad, so that reads end at it, go
behind it, and empty it; three queued codes are a key pressed and released.
In `gdb` there is an address with and one without a breakpoint; an address can be set
twice; two calls pass while the server looks away, one of which finds the breakpoint;
an interrupt can be on its way when the program stops by itself.

`timer1`, `spisd`, `sdemu`, `interrupts` and `video` are finite without a cap (the histories saturate). The
bounds that cap something the code leaves open are `MaxBytes` (a chain), `MaxCodes` (codes
queued in a run), `MaxBreakpoints`, `MaxNaks`, `MaxInterrupts` and `MaxQueue` (the debugger's
client); they stand in the guards. `MaxFiles` is the code's own.

### Fairness

`Timer1`: weak fairness of `LastCycle` and `InstructionEnd`: `retro_run` calls `exec` in
a loop, and every instruction ends with one cycle and one `update_hardware_ins`.
`SpiSd`: weak fairness of the end of an instruction, for the same reason; the property
also assumes that the host keeps exchanging bytes (`HostKeepsClocking`), which the
emulator cannot enforce. `Interrupts`: weak fairness of `Instruction` and
`UpdateHardwareIns`; nothing is assumed of the devices. That a program comes back to
enabled interrupts again and again is the premise of `MostUrgentServed`; lower places in
the chain *can* starve, as they can on the real chip, so nothing is claimed for them.
`Video`: weak fairness of `LoopEnds` only, the two conditions of `retro_run`'s loops. That
the program goes on sending pulses half a line after another is the premise of
`RunReturns`: one that does not, hangs the frontend. `Gdb`: weak fairness of `Process`
(the emulator goes on calling `exec`) and of `Accept` (the client reads its answers).
Its runs do not check for deadlock because a client may kill the emulator.

### Findings

* `timer1_savestate`: `retro_unserialize` restores OCR1A, OCR1B, TCCR1B and TIFR1 under
  a schedule made for other values, because `timer1_next`, `timer1_base` and `TCNT1` are
  private to `avr8`. The timer then counts past its compare value, against
  `avr8.cpp:637-638`.
* `spisd_flag`: a write to SPDR does `SPSR ^= 0x80` under the comment "clear interrupt"
  (`avr8.cpp:502`). With SPIF down this raises it, and a program that polls SPIF
  believes the transfer over before it has begun.
* `sdemu_padding`: the look-up and the cached range extend a file by a cluster "to account
  for cluster size padding" (`SDEmulator.cpp:199, 202`) even when its size is a multiple of
  the cluster size. The FAT gives that cluster to the next file; `read` delivers zeros.
  `BytesStored` is what holds: `EveryByteStored` outside the clusters `Shadowed` names.
* `gdb_stale`: `exec` copies the decoded instruction (`avr8.cpp:1020`) before it calls the
  debugger, under the comment "GDB must be first" (1031). A client that writes the program
  counter and resumes has the instruction of the old address executed.

Read in the code and not made into runs:

* Three accesses to the EEPROM between two half-line pulses add 12 cycles that are not
  cycles of the line, and the pulse misses the window of 910 +- 10.
  `OwnPixels` speaks of the lines without an access.
* A read command with an argument from 1 to 511 serves 512 bytes from inside the emulated
  MBR and so runs past its allocation; a block that crosses 2^32 reads the volume below its
  beginning. Neither the argument (`avr8.cpp:2114-2137`) nor the position (2426-2461) is
  checked. `PartOfCard` says that these are the only blocks read from the wrong part.
* EEPE can be set without EEMPE, against the comment at `avr8.cpp:523`: the plain `else`
  at 543 stores the value whatever the tests before it decided.
* The debugger keeps a breakpoint as often as it is set, against the comment that asks
  for idempotence (`gdbserver.cpp:936`), so removing it once leaves it in place; `Gdb`
  takes this as it is (`BreakpointsHold` speaks of those set and not removed). The address
  of `c<addr>` and `s<addr>` is ignored (1011-1014). Any `+` sets `runMode` and so holds a program that
  runs, under the comment "dont change any modes" (1334). Writes to flash are not decoded again.

## Proofs

`tlapm` checks all of them; each theorem holds for every value of the constants that
satisfies the named assumptions (`RadixAssumption`, `ProductAssumption`, `GeometryAssumption`...), the code's
own (radix 256, blocks of 512, RAM of 4096 from 256, clusters of 32768, a ring of 2048 pixels
under a clock of 2^32, lines of 1820 cycles) among them.

* **Timer1.** `ScheduleInv` with `TypeOK` is inductive (`ScheduleCorrect` states it; it is
  no property of the run, which checks what it is for). `NoEventSkipped` alone is not: a
  port write turns the elapsed part of a schedule into counter, so the invariant has to
  know that there was no event in that part either. `Refinement`: each cycle, write, read
  and end of instruction is a step of `Timer1Ref` under
  `count <- TCNT1 + timer1_base - timer1_next`. `MatchesRecur` follows from it: in CTC mode
  each cycle brings the compare match one cycle nearer (`ToMatch`), also from above OCR1A,
  where the counter has to wrap first.
* **SpiSd.** `TypeOK`, `CommandStatesClean`, `ReplyNeverOverruns`, `CardInStep` and
  `PartOfCard`, with a strengthening that says what each state knows of the bytes owed and of
  the address; `Refinement` of `SDStream`. The bytes of a block have consecutive addresses
  (`Onward`) that wrap unless the block begins in the MBR (`Addresses`); that an address is a
  block address is nowhere assumed of the host, it is a premise of the last part of
  `PartOfCard` (`AlignedBlocks`). `StartToken` speaks of the last byte of a reply
  only and is not preserved by itself: `TokenInv` says that a reply which leads into a block
  ends in the token in every state in which it is under way, and a command that leads into
  one is a command that seeks, because no bytes are owed before it (`CommandStatesClean`).
  `AnswersEnd` counts the bytes left of a reply and its block (`Left`): each exchanged byte
  takes one off, nothing else does, and at none the card takes commands again.
* **SdEmu.** `BytesStored` is not inductive: a byte served from the cache is right because
  the cached range is the file's and the host stands in place (`HostInPlace`), and a look-up
  finds the right file because files lie in directory order, each in clusters of its own
  (`LaidOut`). The arithmetic is in lemmas about division: a range of addresses is a range
  of clusters (`ClusterRange`), and the number of clusters against the quotient the look-up
  uses (`Quotient`), which is where the shadowed clusters come from (`ReadRight`).
* **Interrupts.** The frames are described by `Stacked(address, memory, frames)`: they
  lie one behind the other between SP and the end of RAM, and the memory holds each. The
  lemmas about it mention no variable: pushing writes only at and below the address
  (`StackPush`), so that what lies above is kept; popping reads what was pushed
  (`StackPop`). `Nested` says that all handlers but the innermost have enabled interrupts,
  and the innermost too when they are enabled. `Safe` is the conjunction that every
  step on the stack preserves, one lemma per instruction; `IInvMeans` says it is the four
  invariants of the run. `Refinement` of `CallStack`.
* **Alu.** `IInv` says that the registers and flags have their types and that the chain is
  good: a chain of n bytes stands for numbers below `Radix`^n, and C, Z, S, V and H are what
  they should be for it. Each Boolean formula is shown to be the arithmetic it stands
  for (`CarryOut`, `BorrowOut`, `SignedSum`, `SignedDifference`, `HalfCarry`, `HalfBorrow`);
  `Grows` and `SignedGrows` then add one byte to a chain, whatever its length. `MaxBytes`
  is a constant, so the theorems hold for chains of every length. `ProductIsExact` needs to
  know that Z, which FMUL takes from the product before the shift, is that of the shifted
  result too (`Doubled`): it would not be for a product of 2^15. `ProductAssumption` excludes it. With the
  code's radix it is a fact: 2^15 is only a product of powers of two, and those that fit a
  byte give at most 2^14; for signed operands it is a lemma (`SmallProduct`).
* **Controllers.** The driver never presses anything on the second pad, so its register
  tells how many clocks have followed the latch (`Second`); what is left in the registers
  is what is still to be read of the sample (`InPlace`, `Lines`); the clocks a byte of the
  keyboard still takes and the bits read of it are all its bits (`Phase`). With these
  `KeysInOrder` is inductive: a clock moves one bit of the byte in flight from the keyboard to
  the program and leaves the byte the same (`FlightKept`), the last one makes it received,
  and the next is the head of the queue, whenever a key comes.
* **Video.** `WholeFrame` needs `Progress`: while `retro_run` waits for a frame no row is
  drawn, and in a frame exactly the rows above the current line are, each once. `OwnPixels`
  needs `Placed`: the pixels since the last pulse lie one behind the other in the ring, and
  below the first line of a frame the edge is that pulse, so that a `left_edge_cycle` from a
  savestate is gone before the first row. The wrap of the clock keeps places in the ring
  because the ring divides it (`WrapKeepsPlace`).
* **Gdb.** `RunsAsResumed` is inductive together with `Running`: without a client the CPU
  stands still, the server does not wait while it talks, and it waits, or leaves the loop
  unasked, only under a continue that was not reported to have ended. `BreakpointsHold` follows from
  `Set`: what the client asked for is in the vector, which the removal of one element
  preserves for all others (`RemovalKeepsOthers`). `AnswerDue` is inductive with `Running`: the
  cases are the looks of the server (`ServeAnswers`), where each packet it reads is one that
  the client waits for and is answered before the server leaves or waits again, and the
  instructions (`ExecAnswers`), where a step ends in a look. It is the safety half of
  `StopReported`: nobody waits for an answer that nobody is to give.

`Bytes`, `Timer1Regs` and the abstract specifications have no theorems of their own: each
proof module has the lemmas about bytes and words that it needs (`JoinType`, `HighLowType`),
and the refinements are proved with the modules that implement them.

Only model-checked: the five liveness properties (`CompareRecurs`, `SingleReadEnds`,
`MostUrgentServed`, `RunReturns`, `StopReported`), since fairness and ENABLED are outside the
proof system's reach. For the first two the measure that every step brings down is proved
(`MatchesRecur`, `AnswersEnd`), for the last `AnswerDue`. Every invariant and every action
property of a passing run, and each refinement, is a theorem.

## Not modelled, and what is left

What carries the program's logic is modelled; the following is not, or not wholly.

* **EEPROM and watchdog.** The EEPROM is two guards and the copy of a byte; what it does to
  the clock is in `Video`. The watchdog restarts at a random value, so nothing but its
  flag is promised, and that is `Interrupts`' subject.
* **Decoder and flash.** The 86 patterns of the decode table are data, and a model of them
  would be the table. SPM decodes what it writes again; branches and the cycles of
  instructions are left out.
* **SD image.** Directories that do not fit the table of clusters, files of 2^24 bytes and
  more (the quotient is a `float`), names, dates, and a second mount.
* **Savestates.** What they do to Timer1 and to the scanlines is modelled
  (`Timer1Savestate`, `Video`); the SD card, the latches and the watchdog are not in them
  either.
* **Debugger.** The formats of packets, registers other than the program counter, memory.
* **ROM loaders, audio, capture files, the SDL frontend**: straight-line parsing, pure I/O,
  or not built.
* **libretro-common**: most of the repository's lines are this vendored support library
  (files, paths, strings, headers), which is the same in every libretro core and holds none
  of this program's logic. The map therefore covers a small share of the repository's lines.

Worth adding next: a composition of Timer1 and Interrupts, in which the flags are the
timer's, and of SpiSd and SdEmu, in which the stream's addresses become contents. What `retro_unserialize` does to Timer1 is only a
counterexample: how long a timer is wrong after it would be worth a property.
