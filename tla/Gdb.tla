--------------------------------- MODULE Gdb ---------------------------------
(***************************************************************************)
(* The debugger in src/gdbserver.cpp and its place in avr8::exec           *)
(* (src/avr8.cpp): the emulated program calls the server before every      *)
(* instruction, the server keeps it there while the program is stopped and *)
(* talks to a client over TCP.  The client is any that waits for the       *)
(* answer to one packet before it sends the next, interrupts a running     *)
(* program at any time, and may ask for an answer again.                   *)
(*                                                                         *)
(* Packets that only read, or write what is not modelled here (registers   *)
(* other than the program counter, memory), are all one, "other".  An      *)
(* instruction is known by the address it was decoded at.                  *)
(***************************************************************************)
EXTENDS Integers, SequencesExt

CONSTANTS
    Words,          \* of program memory, each taken for an instruction: progSize / 2
    Wait,           \* exec calls between two looks at the socket: 100000000
    MaxBreakpoints, \* bounds of the model: the length of BP,
    MaxNaks,        \* how often the client asks for an answer again,
    MaxInterrupts,  \* how often it interrupts the program,
    MaxQueue        \* and what may be on its way to the server

ASSUME WordsAssumption == Words \in Nat \ {0}
ASSUME BoundsAssumption == {Wait, MaxBreakpoints, MaxNaks, MaxInterrupts, MaxQueue} \subseteq Nat

VARIABLES
    pc, fetched,         \* the program counter, and where insnDecoded comes from
    state,               \* of the CPU
    gdbBreakpointFound,
    connected,           \* conn >= 0
    runMode, wait, BP, last_reply,
    phase,               \* "exec": before exec; "serve": in the server's loop; "exited"
    toServer, toClient,  \* the two directions of the connection
    view,                \* what the client believes: "idle", "waiting", "running"
    naks, interrupts,
    resumed,             \* history: the resume not yet reported: "no", "continue", "step" or,
                         \* once an instruction was executed for it, "stepped"
    under, tick,         \* history: resumed at the last instruction; flips at each of them
    asked                \* history: the breakpoints set, and not removed since

cpu == <<pc, fetched, state, gdbBreakpointFound>>
server == <<connected, runMode, wait, BP, last_reply>>
client == <<view, naks, interrupts>>
history == <<resumed, under, tick, asked>>
vars == <<cpu, server, phase, toServer, toClient, client, history>>

Addresses == 0 .. Words - 1

\* The client counts bytes, and may be wrong about where program memory ends.
\* Mutated form: its addresses are taken for the program's.
Bytewise == {2 * a : a \in 0 .. Words}
WordAddressOfBytes(addr) == addr
WordAddress(addr) == addr \div 2

\* What the client sends: a command, some with an address, or a single byte.
Resumes == {<<"continue">>, <<"step">>}
Packets == Resumes \cup {<<"kill">>, <<"other">>} \cup ({"Z", "z"} \X Bytewise)
           \cup ({"P"} \X {2 * a : a \in Addresses})
Marks == {<<"+">>, <<"-">>, <<"ctrl-c">>}
\* What the server sends: a report that the program has stopped, or anything else.
Replies == {"stop", "answer"}

Init ==
    /\ pc \in Addresses /\ fetched = pc
    /\ state = "CPU_STOPPED" /\ gdbBreakpointFound = FALSE
    /\ connected = FALSE
    /\ runMode = "NOTHING_RECEIVED" /\ wait = 0 /\ BP = <<>> /\ last_reply = "answer"
    /\ phase = "exec"
    /\ toServer = <<>> /\ toClient = <<>>
    /\ view = "idle" /\ naks = 0 /\ interrupts = 0
    /\ resumed = "no" /\ under = "none" /\ tick = FALSE /\ asked = {}
-----------------------------------------------------------------------------
(* Answers *)

\* gdb_send_reply keeps what it sends, for the client to ask for it again.
Reply(r) == last_reply' = r /\ toClient' = Append(toClient, r)

\* SendPosition: the program has stopped.
SendPosition == Reply("stop") /\ resumed' = "no" /\ UNCHANGED <<under, tick>>
-----------------------------------------------------------------------------
(* The program *)

\* An instruction, with the resume it is executed for; where it goes is left open.
Instruction(resume) ==
    /\ pc' \in Addresses
    /\ UNCHANGED gdbBreakpointFound
    /\ resumed' = IF resume = "step" THEN "stepped" ELSE resume
    /\ under' = resume /\ tick' = ~tick

Stay(resume) == resumed' = resume /\ UNCHANGED <<pc, under, tick>>

\* What exec does once the server has returned.
\* Mutated form: a breakpoint holds the program, and nobody notices.
AfterServerUnnoticed(resume) ==
    /\ phase' = "exec" /\ UNCHANGED state
    /\ \/ (pc \in ToSet(BP) \/ state = "CPU_STOPPED") /\ UNCHANGED gdbBreakpointFound
          /\ Stay(resume)
       \/ pc \notin ToSet(BP) /\ state # "CPU_STOPPED" /\ Instruction(resume)
AfterServer(resume) ==
    /\ phase' = "exec" /\ UNCHANGED state
    /\ \/ pc \in ToSet(BP) /\ gdbBreakpointFound' = TRUE /\ Stay(resume)
       \/ pc \notin ToSet(BP) /\ state = "CPU_STOPPED" /\ UNCHANGED gdbBreakpointFound
          /\ Stay(resume)
       \/ pc \notin ToSet(BP) /\ state # "CPU_STOPPED" /\ Instruction(resume)

\* exec decodes its instruction, then calls the server, which returns at once while no
\* client is there and while it waits between two looks at the socket.
NotConnected ==
    /\ phase = "exec" /\ ~connected
    /\ fetched' = pc
    /\ AfterServer(resumed)
    /\ UNCHANGED <<server, toServer, toClient, client, asked>>

Waiting ==
    /\ phase = "exec" /\ connected /\ wait > 0
    /\ fetched' = pc
    /\ wait' = wait - 1
    /\ AfterServer(resumed)
    /\ UNCHANGED <<connected, runMode, BP, last_reply, toServer, toClient, client, asked>>

\* It accepts a client and goes on into its loop.
TryConnectGdb ==
    /\ phase = "exec" /\ ~connected
    /\ fetched' = pc
    /\ connected' = TRUE /\ state' = "CPU_SINGLE_STEP"
    /\ phase' = "serve"
    /\ UNCHANGED <<pc, gdbBreakpointFound, runMode, wait, BP, last_reply, toServer, toClient,
                   client, history>>

\* It reports a breakpoint or the end of a step before it enters the loop.
Enter ==
    /\ phase = "exec" /\ connected /\ wait = 0
    /\ fetched' = pc
    /\ phase' = "serve"
    /\ gdbBreakpointFound' = FALSE
    /\ IF gdbBreakpointFound \/ runMode = "SINGLE_STEP"
       THEN runMode' = "OK" /\ SendPosition
       ELSE UNCHANGED <<runMode, last_reply, toClient, resumed, under, tick>>
    /\ UNCHANGED <<pc, state, connected, wait, BP, toServer, client, asked>>
-----------------------------------------------------------------------------
(* The server's loop: one round for each thing the client has sent *)

In(m) == phase = "serve" /\ toServer # <<>> /\ Head(toServer) = m /\ toServer' = Tail(toServer)
Loop == phase' = "serve" /\ UNCHANGED <<cpu, connected, wait, client>>

Ack ==
    /\ In(<<"+">>) /\ Loop /\ runMode' = "OK"
    /\ UNCHANGED <<BP, last_reply, toClient, history>>

\* Mutated form: the refusal is taken, and nothing sent again.
NakIgnored ==
    /\ In(<<"-">>) /\ Loop /\ runMode' = "OK"
    /\ UNCHANGED <<BP, last_reply, toClient, history>>
Nak ==
    /\ In(<<"-">>) /\ Loop /\ runMode' = "OK"
    /\ Reply(last_reply)
    /\ UNCHANGED <<BP, history>>

CtrlC ==
    /\ In(<<"ctrl-c">>) /\ Loop /\ runMode' = "CTRL_C"
    /\ SendPosition
    /\ UNCHANGED <<BP, asked>>

\* gdb_break_point for software breakpoints: a vector that may hold an address twice.
\* Mutated form: the removal takes the last breakpoint set, whichever it is.
RemoveLast(s, e) == IF s = <<>> THEN s ELSE Front(s)
RemoveBreakpoint(s, e) == RemoveFirst(s, e)

BreakPoint(addr) ==
    /\ \/ addr >= 2 * Words /\ (In(<<"Z", addr>>) \/ In(<<"z", addr>>)) /\ UNCHANGED <<BP, asked>>
       \/ addr < 2 * Words /\ In(<<"Z", addr>>)
          /\ BP' = Append(BP, WordAddress(addr)) /\ asked' = asked \cup {addr \div 2}
       \/ addr < 2 * Words /\ In(<<"z", addr>>)
          /\ BP' = RemoveBreakpoint(BP, WordAddress(addr)) /\ asked' = asked \ {addr \div 2}
    /\ Loop /\ runMode' = "OK"
    /\ Reply("answer")
    /\ UNCHANGED <<resumed, under, tick>>

\* The program counter is a register the client may write.
WriteRegister(addr) ==
    /\ In(<<"P", addr>>) /\ runMode' = "OK"
    /\ pc' = WordAddress(addr)
    /\ Reply("answer")
    /\ phase' = "serve"
    /\ UNCHANGED <<fetched, state, gdbBreakpointFound, connected, wait, BP, client, history>>

Other ==
    /\ In(<<"other">>) /\ Loop /\ runMode' = "OK"
    /\ Reply("answer")
    /\ UNCHANGED <<BP, history>>

\* Detach and kill end the emulator.
Kill ==
    /\ In(<<"kill">>)
    /\ Reply("answer")
    /\ phase' = "exited"
    /\ UNCHANGED <<cpu, connected, runMode, wait, BP, client, history>>

\* What the server waits after it has left its loop in a mode.
\* Mutated form: after a step as well.
ReloadAlways(mode) == Wait
Reload(mode) == IF mode = "CONTINUE" THEN Wait ELSE wait

\* The server returns to exec, which goes on with what it has decoded: after a resume
\* and, in the continue mode, when there is nothing to read.
Leave(mode, resume) ==
    /\ runMode' = mode
    /\ wait' = Reload(mode)
    /\ AfterServer(resume)
    /\ UNCHANGED <<fetched, connected, BP, last_reply, toClient, client, asked>>

Resume ==
    \/ In(<<"continue">>) /\ Leave("CONTINUE", "continue")
    \/ In(<<"step">>) /\ Leave("SINGLE_STEP", "step")

NothingReceived ==
    /\ phase = "serve" /\ toServer = <<>> /\ runMode = "CONTINUE"
    /\ Leave("CONTINUE", resumed)
    /\ UNCHANGED toServer

Serve ==
    \/ Ack \/ Nak \/ CtrlC \/ Other \/ Kill \/ Resume \/ NothingReceived
    \/ \E addr \in Bytewise : BreakPoint(addr) \/ WriteRegister(addr)
-----------------------------------------------------------------------------
(* The client *)

Sends(m) == toServer' = Append(toServer, m) /\ UNCHANGED <<cpu, server, phase, history>>

Request(p) ==
    /\ connected /\ view = "idle" /\ Len(toServer) < MaxQueue
    /\ p[1] = "Z" => Len(BP) < MaxBreakpoints
    /\ Sends(p)
    /\ view' = IF p \in Resumes THEN "running" ELSE "waiting"
    /\ UNCHANGED <<toClient, naks, interrupts>>

Interrupt ==
    /\ view = "running"
    /\ interrupts < MaxInterrupts /\ interrupts' = interrupts + 1
    /\ Sends(<<"ctrl-c">>)
    /\ UNCHANGED <<toClient, view, naks>>

\* An answer is accepted, or asked for again.
Accept ==
    /\ toClient # <<>> /\ toClient' = Tail(toClient)
    /\ Sends(<<"+">>)
    /\ view' = "idle"
    /\ UNCHANGED <<naks, interrupts>>

Refuse ==
    /\ toClient # <<>> /\ toClient' = Tail(toClient)
    /\ naks < MaxNaks /\ naks' = naks + 1
    /\ Sends(<<"-">>)
    /\ UNCHANGED <<view, interrupts>>
-----------------------------------------------------------------------------
Process == phase # "exited" /\ (NotConnected \/ Waiting \/ TryConnectGdb \/ Enter \/ Serve)
Client == (\E p \in Packets : Request(p)) \/ Interrupt \/ Accept \/ Refuse

Next == Process \/ (phase # "exited" /\ Client)

\* The emulator goes on calling exec, and the client reads its answers.
Spec == Init /\ [][Next]_vars
FairSpec == Spec /\ WF_vars(Process) /\ WF_vars(phase # "exited" /\ Accept)
-----------------------------------------------------------------------------
(* Properties *)

\* The types of the variables.
TypeOK ==
    /\ {pc, fetched} \cup asked \subseteq Addresses
    /\ state \in {"CPU_STOPPED", "CPU_SINGLE_STEP"} /\ {gdbBreakpointFound, connected, tick} \subseteq BOOLEAN
    /\ runMode \in {"NOTHING_RECEIVED", "SINGLE_STEP", "CONTINUE", "CTRL_C", "OK"}
    /\ wait \in 0 .. Wait
    /\ BP \in Seq(Addresses) /\ last_reply \in Replies
    /\ phase \in {"exec", "serve", "exited"}
    /\ toServer \in Seq(Packets \cup Marks) /\ toClient \in Seq(Replies)
    /\ view \in {"idle", "waiting", "running"} /\ naks \in 0 .. MaxNaks
    /\ interrupts \in 0 .. MaxInterrupts
    /\ resumed \in {"no", "continue", "step", "stepped"}
    /\ under \in {"none", "no", "continue", "step", "stepped"}

\* The program runs only for a resume: nothing is executed between a stop that was
\* reported and the next resume, and one instruction for a step, whatever interrupts,
\* refusals and breakpoints come in between (runMode and wait, gdbserver.cpp:1297-1369).
RunsAsResumed == under \notin {"no", "stepped"}

\* No instruction is executed at an address where the client has set a breakpoint and
\* not removed it, however often it set it, while the server looks away, on the first
\* instruction after a resume, and where the client itself has moved the program to
\* (avr8.cpp:1036-1042, gdbserver.cpp:174-182).
BreakpointsHold == [][tick' # tick => pc \notin asked]_vars

\* A client that waits is owed an answer: it is on its way, or what will bring it is,
\* an interrupt or a refusal included, or the program runs; a step has its report at the
\* server's next look.  No report is lost between a stop, the packets that overtake it and
\* the next resume (last_reply and runMode, gdbserver.cpp:1223-1238 and 1297-1369).
Owed == toClient # <<>> \/ ToSet(toServer) \ (Resumes \cup {<<"+">>}) # {}
AnswerDue ==
    /\ view = "waiting" => Owed
    /\ view = "running" => Owed \/ Resumes \cap ToSet(toServer) # {} \/ resumed # "no"
    /\ resumed \in {"step", "stepped"} =>
           connected /\ phase = "exec" /\ wait = 0 /\ runMode = "SINGLE_STEP"

\* A client that waits for a program that stands on a breakpoint is told, through the
\* time the server looks away and the interrupts on their way, unless the breakpoint or
\* the program is taken from there (gdbBreakpointFound, gdbserver.cpp:1304-1311).
StopReported ==
    (view = "running" /\ pc \in ToSet(BP))
        ~> (view # "running" \/ pc \notin ToSet(BP) \/ phase = "exited")

\* The instruction executed is the one at the program counter: the server has its say
\* first ("GDB must be first", avr8.cpp:1031).
ExecutesAtPc == [][tick' # tick => fetched' = pc]_vars
=============================================================================
