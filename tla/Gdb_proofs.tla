----------------------------- MODULE Gdb_proofs -----------------------------
(***************************************************************************)
(* The debugger keeps its promises for every size of program memory, every *)
(* time it looks away, and every bound of the model: the program runs only *)
(* as it was resumed, and never over a breakpoint.                         *)
(***************************************************************************)
EXTENDS Gdb, SequenceTheorems, WellFoundedInduction, TLAPS

\* A set of numbers that is not empty has a least element.
LEMMA LeastElement ==
  ASSUME NEW I \in SUBSET Nat, I # {}
  PROVE  Min(I) \in I
<1> DEFINE R == OpToRel(<, Nat)
<1>1. IsWellFoundedOn(R, Nat) BY NatLessThanWellFounded
<1> HIDE DEF R
<1>2. PICK x \in I : \A y \in I : ~(<<y, x>> \in R) BY <1>1, WFMin
<1>3. \A y \in I : ~(y < x) BY <1>2 DEF R, OpToRel
<1>4. \A y \in I : x <= y BY <1>3
<1> QED BY <1>4 DEF Min

\* RemoveFirst takes one element out, if there is one to take.
LEMMA RemovedAt ==
  ASSUME NEW S, NEW s \in Seq(S), NEW e, NEW i \in 1 .. Len(s), s[i] = e
  PROVE  \E m \in 1 .. Len(s) : s[m] = e /\ RemoveFirst(s, e) = RemoveAt(s, m)
<1> DEFINE I == {j \in 1 .. Len(s) : s[j] = e}
           m == SelectInSeq(s, LAMBDA v : v = e)
<1>1. I # {} /\ I \in SUBSET Nat OBVIOUS
<1>2. m = Min(I) BY <1>1, Zenon DEF SelectInSeq
<1>3. RemoveFirst(s, e) = RemoveAt(s, m) BY Zenon DEF RemoveFirst
<1>4. Min(I) \in I BY <1>1, LeastElement
<1>5. m \in I BY <1>2, <1>4, Zenon
<1> HIDE DEF m
<1>6. m \in 1 .. Len(s) /\ s[m] = e BY <1>5
<1> QED BY <1>3, <1>6, Zenon

\* What is behind the place m in a sequence of length n.
LEMMA LengthBehind ==
  ASSUME NEW n \in Nat, NEW m \in Nat, m <= n,
         NEW x, x = IF m + 1 <= n THEN n - (m + 1) + 1 ELSE 0
  PROVE  x = n - m
OBVIOUS

\* A vector holds what it held and what is put behind it.
LEMMA AppendedSet ==
  ASSUME NEW S, NEW s \in Seq(S), NEW e \in S
  PROVE  Append(s, e) \in Seq(S) /\ ToSet(Append(s, e)) = ToSet(s) \cup {e}
<1> DEFINE n == Len(s)
           w == Append(s, e)
<1>1. n \in Nat /\ DOMAIN s = 1 .. n BY LenProperties
<1>2. /\ w \in Seq(S) /\ Len(w) = n + 1 /\ \A i \in 1 .. n : w[i] = s[i]
      /\ w[n + 1] = e
  BY AppendProperties
<1>3. DOMAIN w = 1 .. n + 1 BY <1>2, LenProperties
<1> HIDE DEF n, w
<1>4. \A i \in 1 .. n + 1 : i \in 1 .. n \/ i = n + 1 BY <1>1
<1>5. \A i \in 1 .. n : i \in 1 .. n + 1 BY <1>1
<1>6. n + 1 \in 1 .. n + 1 BY <1>1
<1>7. {w[i] : i \in 1 .. n + 1} = {s[i] : i \in 1 .. n} \cup {e} BY <1>2, <1>4, <1>5, <1>6
<1>8. ToSet(w) = ToSet(s) \cup {e} BY <1>1, <1>3, <1>7 DEF ToSet
<1> QED BY <1>2, <1>8 DEF w

\* The removal of an element from a vector takes nothing else out of it.
LEMMA RemovalKeepsOthers ==
  ASSUME NEW S, NEW s \in Seq(S), NEW e
  PROVE  /\ RemoveFirst(s, e) \in Seq(S)
         /\ ToSet(s) \ {e} \subseteq ToSet(RemoveFirst(s, e))
<1>0. Len(s) \in Nat /\ DOMAIN s = 1 .. Len(s) /\ \A i \in 1 .. Len(s) : s[i] \in S
  BY ElementOfSeq, LenProperties
<1>1. CASE ~ \E i \in 1 .. Len(s) : s[i] = e
  <2>1. RemoveFirst(s, e) = s BY <1>1, Zenon DEF RemoveFirst
  <2> QED BY <2>1
<1>2. CASE \E i \in 1 .. Len(s) : s[i] = e
  <2>5. PICK m \in 1 .. Len(s) : s[m] = e /\ RemoveFirst(s, e) = RemoveAt(s, m)
    BY <1>2, RemovedAt
  <2>1. m \in 1 .. Len(s) /\ s[m] = e BY <2>5
  <2>2. m \in Nat /\ 1 <= m /\ m <= Len(s) BY <2>1, <1>0
  <2> DEFINE before == SubSeq(s, 1, m - 1)
             after == SubSeq(s, m + 1, Len(s))
             rest == before \o after
  <2>4. RemoveFirst(s, e) = rest BY <2>5 DEF RemoveAt
  <2>6. /\ before \in Seq(S) /\ Len(before) = m - 1
        /\ \A i \in 1 .. m - 1 : before[i] = s[i]
    <3>1. \A i \in 1 .. m - 1 : s[i] \in S BY <1>0, <2>1, <2>2
    <3>2. /\ before \in Seq(S) /\ Len(before) = IF 1 <= m - 1 THEN (m - 1) - 1 + 1 ELSE 0
          /\ \A i \in 1 .. (m - 1) - 1 + 1 : before[i] = s[1 + i - 1]
      BY <3>1, <2>1, <2>2, <1>0, SubSeqProperties
    <3> QED BY <3>2, <2>1, <2>2, <1>0
  <2>7. /\ after \in Seq(S) /\ Len(after) = Len(s) - m
        /\ \A i \in 1 .. Len(s) - m : after[i] = s[m + i]
    <3>1. \A i \in m + 1 .. Len(s) : s[i] \in S BY <1>0, <2>1, <2>2
    <3>2. /\ after \in Seq(S)
          /\ Len(after) = IF m + 1 <= Len(s) THEN Len(s) - (m + 1) + 1 ELSE 0
          /\ \A i \in 1 .. Len(s) - (m + 1) + 1 : after[i] = s[(m + 1) + i - 1]
      BY <3>1, <2>1, <2>2, <1>0, SubSeqProperties
    <3>3. Len(s) - (m + 1) + 1 = Len(s) - m /\ Len(s) - m \in Nat BY <2>1, <2>2, <1>0
    <3> HIDE DEF after
    <3>4. Len(after) = Len(s) - m BY <3>2, <2>2, <1>0, LengthBehind
    <3>5. ASSUME NEW i \in 1 .. Len(s) - m PROVE after[i] = s[m + i]
      <4>1. i \in 1 .. Len(s) - (m + 1) + 1 BY <3>3
      <4>2. (m + 1) + i - 1 = m + i BY <3>3, <2>1, <2>2
      <4> QED BY <3>2, <4>1, <4>2
    <3> QED BY <3>2, <3>4, <3>5
  <2> HIDE DEF before, after
  <2>8. /\ rest \in Seq(S) /\ Len(rest) = Len(s) - 1
        /\ \A i \in 1 .. Len(s) - 1 : rest[i] = IF i <= m - 1 THEN before[i] ELSE after[i - (m - 1)]
    <3>1. /\ rest \in Seq(S) /\ Len(rest) = Len(before) + Len(after)
          /\ \A i \in 1 .. Len(before) + Len(after) :
               rest[i] = IF i <= Len(before) THEN before[i] ELSE after[i - Len(before)]
      BY <2>6, <2>7, ConcatProperties
    <3>2. (m - 1) + (Len(s) - m) = Len(s) - 1 BY <1>0, <2>1, <2>2
    <3> QED BY <3>1, <3>2, <2>6, <2>7
  <2>9. DOMAIN rest = 1 .. Len(s) - 1 BY <2>8, LenProperties
  <2> HIDE DEF rest
  <2>10. ASSUME NEW i \in 1 .. Len(s), s[i] # e PROVE s[i] \in ToSet(rest)
    <3>1. CASE i < m
      <4>1. i \in 1 .. Len(s) - 1 /\ i <= m - 1 /\ i \in 1 .. m - 1 BY <3>1, <1>0, <2>1, <2>2
      <4>2. rest[i] = s[i] BY <4>1, <2>6, <2>8
      <4> QED BY <4>1, <4>2, <2>9 DEF ToSet
    <3>2. CASE m < i
      <4>1. /\ i - 1 \in 1 .. Len(s) - 1 /\ ~(i - 1 <= m - 1) /\ i - m \in 1 .. Len(s) - m
            /\ i - 1 - (m - 1) = i - m /\ m + (i - m) = i
        BY <3>2, <1>0, <2>1, <2>2
      <4>2. rest[i - 1] = after[i - m] BY <4>1, <2>8
      <4>3. after[i - m] = s[i] BY <4>1, <2>7
      <4> QED BY <4>1, <4>2, <4>3, <2>9 DEF ToSet
    <3> QED BY <3>1, <3>2, <2>10, <2>1, <2>2, <1>0
  <2>11. ToSet(s) \ {e} \subseteq ToSet(rest) BY <2>10, <1>0 DEF ToSet
  <2> QED BY <2>4, <2>8, <2>11
<1> QED BY <1>1, <1>2
-----------------------------------------------------------------------------
(* The inductive invariant *)

\* While no client is there the CPU stands still; the server does not look away while it
\* talks; what goes on by itself was resumed with "continue".
Running ==
    /\ ~connected => state = "CPU_STOPPED" /\ wait = 0 /\ phase = "exec"
    /\ phase = "serve" => wait = 0
    /\ wait > 0 \/ runMode = "CONTINUE" => resumed = "continue"

\* What the client asked for is in the vector.
Set == asked \subseteq ToSet(BP)

IInv == TypeOK /\ RunsAsResumed /\ Running /\ Set

LEMMA Initially == Init => IInv
<1> SUFFICES ASSUME Init PROVE IInv OBVIOUS
<1>1. Addresses # {} /\ 0 \in 0 .. Wait /\ 0 \in 0 .. MaxNaks /\ 0 \in 0 .. MaxInterrupts
  BY WordsAssumption, BoundsAssumption DEF Addresses
<1>2. <<>> \in Seq(Addresses) /\ <<>> \in Seq(Packets \cup Marks) /\ <<>> \in Seq(Replies)
  BY EmptySeq
<1>3. TypeOK BY <1>1, <1>2 DEF Init, TypeOK, Replies
<1>4. RunsAsResumed BY DEF Init, RunsAsResumed
<1>5. Running BY DEF Init, Running
<1>6. Set BY DEF Init, Set
<1> QED BY <1>3, <1>4, <1>5, <1>6 DEF IInv

\* exec after the server: an instruction is executed for the resume given, off the
\* breakpoints, if the CPU is not stopped.
LEMMA Executes ==
  ASSUME IInv, NEW resume \in {"no", "continue", "step", "stepped"}, AfterServer(resume),
         resume \in {"continue", "step"} \/ state = "CPU_STOPPED"
  PROVE  /\ phase' = "exec" /\ state' = state
         /\ pc' \in Addresses /\ gdbBreakpointFound' \in BOOLEAN /\ tick' \in BOOLEAN
         /\ resumed' \in {"no", "continue", "step", "stepped"}
         /\ resume = "continue" => resumed' = "continue"
         /\ under' \in {"none", "continue", "step"}
         /\ tick' # tick => pc \notin asked
<1>1. /\ pc \in Addresses /\ gdbBreakpointFound \in BOOLEAN /\ tick \in BOOLEAN
      /\ under \in {"none", "continue", "step"} /\ asked \subseteq ToSet(BP)
  BY DEF IInv, TypeOK, RunsAsResumed, Set
<1>2. phase' = "exec" /\ state' = state BY DEF AfterServer
<1>3. CASE pc \in ToSet(BP) /\ gdbBreakpointFound' = TRUE /\ Stay(resume)
  BY <1>1, <1>2, <1>3 DEF Stay
<1>4. CASE /\ pc \notin ToSet(BP) /\ state = "CPU_STOPPED" /\ UNCHANGED gdbBreakpointFound
           /\ Stay(resume)
  BY <1>1, <1>2, <1>4 DEF Stay
<1>5. CASE pc \notin ToSet(BP) /\ state # "CPU_STOPPED" /\ Instruction(resume)
  BY <1>1, <1>2, <1>5 DEF Instruction
<1> QED BY <1>3, <1>4, <1>5 DEF AfterServer

\* What is received is taken from the front of a queue of packets and marks.
LEMMA Received ==
  ASSUME TypeOK, NEW p, In(p)
  PROVE  phase = "serve" /\ p \in Packets \cup Marks /\ toServer' \in Seq(Packets \cup Marks)
<1>1. toServer \in Seq(Packets \cup Marks) BY DEF TypeOK
<1>2. /\ Head(toServer) \in Packets \cup Marks /\ Tail(toServer) \in Seq(Packets \cup Marks)
  BY <1>1, HeadTailProperties DEF In
<1> QED BY <1>2 DEF In

LEMMA Replied ==
  ASSUME TypeOK, NEW r \in Replies, Reply(r)
  PROVE  last_reply' \in Replies /\ toClient' \in Seq(Replies)
<1>1. toClient \in Seq(Replies) BY DEF TypeOK
<1>2. Append(toClient, r) \in Seq(Replies) BY <1>1, AppendProperties
<1> QED BY <1>2 DEF Reply

LEMMA Sent ==
  ASSUME TypeOK, NEW p \in Packets \cup Marks, Sends(p)
  PROVE  toServer' \in Seq(Packets \cup Marks)
<1>1. toServer \in Seq(Packets \cup Marks) BY DEF TypeOK
<1>2. Append(toServer, p) \in Seq(Packets \cup Marks) BY <1>1, AppendProperties
<1> QED BY <1>2 DEF Sends
-----------------------------------------------------------------------------
(* One lemma for each action; Held is what BreakpointsHold asks of a step *)

Held == tick' # tick => pc \notin asked

LEMMA NotConnectedSafe == IInv /\ NotConnected => IInv' /\ Held
<1> SUFFICES ASSUME IInv, NotConnected PROVE IInv' /\ Held OBVIOUS
<1>0. /\ state = "CPU_STOPPED" /\ wait = 0 /\ pc \in Addresses
      /\ resumed \in {"no", "continue", "step", "stepped"}
      /\ runMode = "CONTINUE" => resumed = "continue"
  BY DEF IInv, Running, TypeOK, NotConnected
<1>1. AfterServer(resumed) BY DEF NotConnected
<1>2. /\ phase' = "exec" /\ state' = state
      /\ pc' \in Addresses /\ gdbBreakpointFound' \in BOOLEAN /\ tick' \in BOOLEAN
      /\ resumed' \in {"no", "continue", "step", "stepped"}
      /\ resumed = "continue" => resumed' = "continue"
      /\ under' \in {"none", "continue", "step"}
      /\ tick' # tick => pc \notin asked
  BY <1>0, <1>1, Executes
<1>3. TypeOK' BY <1>0, <1>2 DEF IInv, TypeOK, NotConnected, server, client
<1>4. RunsAsResumed' BY <1>2 DEF RunsAsResumed
<1>5. Running' BY <1>0, <1>2 DEF Running, NotConnected, server, IInv
<1>6. Set' BY DEF Set, NotConnected, server, IInv
<1> QED BY <1>2, <1>3, <1>4, <1>5, <1>6 DEF IInv, Held

LEMMA WaitingSafe == IInv /\ Waiting => IInv' /\ Held
<1> SUFFICES ASSUME IInv, Waiting PROVE IInv' /\ Held OBVIOUS
<1>0. /\ resumed = "continue" /\ pc \in Addresses /\ wait \in 0 .. Wait /\ wait > 0
      /\ Wait \in Nat
  BY BoundsAssumption DEF IInv, Running, TypeOK, Waiting
<1>1. AfterServer(resumed) BY DEF Waiting
<1>2. /\ phase' = "exec" /\ state' = state
      /\ pc' \in Addresses /\ gdbBreakpointFound' \in BOOLEAN /\ tick' \in BOOLEAN
      /\ resumed' = "continue"
      /\ under' \in {"none", "continue", "step"}
      /\ tick' # tick => pc \notin asked
  BY <1>0, <1>1, Executes
<1>3. wait' \in 0 .. Wait BY <1>0 DEF Waiting
<1>4. TypeOK' BY <1>0, <1>2, <1>3 DEF IInv, TypeOK, Waiting, client
<1>5. RunsAsResumed' BY <1>2 DEF RunsAsResumed
<1>6. Running' BY <1>2 DEF Running, Waiting
<1>7. Set' BY DEF Set, Waiting, IInv
<1> QED BY <1>2, <1>4, <1>5, <1>6, <1>7 DEF IInv, Held

LEMMA TryConnectGdbSafe == IInv /\ TryConnectGdb => IInv' /\ Held
<1> SUFFICES ASSUME IInv, TryConnectGdb PROVE IInv' /\ Held OBVIOUS
<1>1. TypeOK' BY DEF IInv, TypeOK, TryConnectGdb, client, history
<1>2. RunsAsResumed' BY DEF IInv, RunsAsResumed, TryConnectGdb, history
<1>3. Running' BY DEF IInv, Running, TryConnectGdb, history
<1>4. Set' BY DEF IInv, Set, TryConnectGdb, history
<1> QED BY <1>1, <1>2, <1>3, <1>4 DEF IInv, Held, TryConnectGdb, history

LEMMA EnterSafe == IInv /\ Enter => IInv' /\ Held
<1> SUFFICES ASSUME IInv, Enter PROVE IInv' /\ Held OBVIOUS
<1>0. TypeOK /\ RunsAsResumed /\ Running /\ Set BY DEF IInv
<1>1. /\ runMode' \in {"NOTHING_RECEIVED", "SINGLE_STEP", "CONTINUE", "CTRL_C", "OK"}
      /\ resumed' \in {"no", "continue", "step", "stepped"}
      /\ runMode' = "CONTINUE" => resumed' = "continue"
      /\ last_reply' \in Replies /\ toClient' \in Seq(Replies)
      /\ under' = under /\ tick' = tick
  <2>1. CASE gdbBreakpointFound \/ runMode = "SINGLE_STEP"
    <3>1. runMode' = "OK" /\ SendPosition BY <2>1 DEF Enter
    <3>2. last_reply' \in Replies /\ toClient' \in Seq(Replies)
      BY <1>0, <3>1, Replied DEF SendPosition, Replies
    <3> QED BY <3>1, <3>2 DEF SendPosition
  <2>2. CASE ~(gdbBreakpointFound \/ runMode = "SINGLE_STEP")
    <3>1. UNCHANGED <<runMode, last_reply, toClient, resumed, under, tick>>
      BY <2>2 DEF Enter
    <3> QED BY <1>0, <3>1 DEF TypeOK, Running
  <2> QED BY <2>1, <2>2
<1>2. TypeOK' BY <1>0, <1>1 DEF TypeOK, Enter, client
<1>3. RunsAsResumed' BY <1>0, <1>1 DEF RunsAsResumed
<1>4. Running' BY <1>0, <1>1 DEF Running, Enter
<1>5. Set' BY <1>0 DEF Set, Enter
<1> QED BY <1>1, <1>2, <1>3, <1>4, <1>5 DEF IInv, Held

\* A round of the loop that leaves the program alone, and the mode to the next round.
LEMMA RoundSafe ==
  ASSUME IInv, NEW p, In(p), Loop, runMode' \in {"OK", "CTRL_C"},
         BP' \in Seq(Addresses), asked' \subseteq Addresses, asked' \subseteq ToSet(BP)',
         last_reply' \in Replies, toClient' \in Seq(Replies),
         resumed' \in {"no", resumed}, UNCHANGED <<under, tick>>
  PROVE  IInv' /\ Held
<1>0. TypeOK /\ RunsAsResumed /\ Running BY DEF IInv
<1>1. phase = "serve" /\ toServer' \in Seq(Packets \cup Marks) BY <1>0, Received
<1>2. TypeOK' BY <1>0, <1>1 DEF TypeOK, Loop, cpu, client
<1>3. RunsAsResumed' BY <1>0 DEF RunsAsResumed
<1>4. Running' BY <1>0, <1>1 DEF Running, Loop, cpu
<1> QED BY <1>2, <1>3, <1>4 DEF IInv, Held, Set

LEMMA TalkSafe == IInv /\ (Ack \/ Nak \/ CtrlC \/ Other) => IInv' /\ Held
<1> SUFFICES ASSUME IInv, Ack \/ Nak \/ CtrlC \/ Other PROVE IInv' /\ Held OBVIOUS
<1>0. /\ TypeOK /\ BP \in Seq(Addresses) /\ asked \subseteq Addresses /\ asked \subseteq ToSet(BP)
      /\ last_reply \in Replies /\ toClient \in Seq(Replies)
  BY DEF IInv, TypeOK, Set
<1>1. CASE Ack BY <1>0, <1>1, RoundSafe DEF Ack, history
<1>2. CASE Nak
  <2>1. last_reply' \in Replies /\ toClient' \in Seq(Replies) BY <1>0, <1>2, Replied DEF Nak
  <2> QED BY <1>0, <1>2, <2>1, RoundSafe DEF Nak, history
<1>3. CASE CtrlC
  <2>1. last_reply' \in Replies /\ toClient' \in Seq(Replies)
    BY <1>0, <1>3, Replied DEF CtrlC, SendPosition, Replies
  <2> QED BY <1>0, <1>3, <2>1, RoundSafe DEF CtrlC, SendPosition
<1>4. CASE Other
  <2>1. last_reply' \in Replies /\ toClient' \in Seq(Replies)
    BY <1>0, <1>4, Replied DEF Other, Replies
  <2> QED BY <1>0, <1>4, <2>1, RoundSafe DEF Other, history
<1> QED BY <1>1, <1>2, <1>3, <1>4

\* The address of a breakpoint counts bytes; half of it is an address of the program.
LEMMA BytewiseHalved ==
  ASSUME NEW addr \in Bytewise, addr < 2 * Words
  PROVE  WordAddress(addr) = addr \div 2 /\ addr \div 2 \in Addresses
<1>1. PICK a \in 0 .. Words : addr = 2 * a BY DEF Bytewise
<1>2. a \in Nat /\ Words \in Nat /\ a < Words BY <1>1, WordsAssumption
<1>3. addr \div 2 = a BY <1>1, <1>2
<1> QED BY <1>2, <1>3 DEF WordAddress, Addresses

LEMMA BreakPointSafe ==
  ASSUME NEW addr \in Bytewise
  PROVE  IInv /\ BreakPoint(addr) => IInv' /\ Held
<1> SUFFICES ASSUME IInv, BreakPoint(addr) PROVE IInv' /\ Held OBVIOUS
<1>0. /\ TypeOK /\ BP \in Seq(Addresses) /\ asked \subseteq Addresses
      /\ \A a \in asked : a \in ToSet(BP)
  BY DEF IInv, TypeOK, Set
<1>1. (\E z \in {"Z", "z"} : In(<<z, addr>>)) /\ Loop /\ runMode' = "OK"
  BY DEF BreakPoint
<1>2. last_reply' \in Replies /\ toClient' \in Seq(Replies)
  BY <1>0, Replied DEF BreakPoint, Replies
<1>3. /\ BP' \in Seq(Addresses) /\ asked' \subseteq Addresses /\ asked' \subseteq ToSet(BP)'
  <2>1. CASE UNCHANGED <<BP, asked>> BY <1>0, <2>1
  <2>2. CASE /\ addr < 2 * Words /\ BP' = Append(BP, WordAddress(addr))
             /\ asked' = asked \cup {addr \div 2}
    <3> DEFINE a == addr \div 2
    <3>1. WordAddress(addr) = a /\ a \in Addresses BY <2>2, BytewiseHalved
    <3>2. BP' = Append(BP, a) /\ asked' = asked \cup {a} BY <2>2, <3>1
    <3> HIDE DEF a
    <3>3. BP' \in Seq(Addresses) /\ ToSet(BP)' = ToSet(BP) \cup {a}
      BY <3>1, <3>2, <1>0, AppendedSet
    <3> QED BY <3>1, <3>2, <3>3, <1>0
  <2>3. CASE /\ addr < 2 * Words /\ BP' = RemoveBreakpoint(BP, WordAddress(addr))
             /\ asked' = asked \ {addr \div 2}
    <3> DEFINE a == addr \div 2
    <3>1. WordAddress(addr) = a /\ a \in Addresses BY <2>3, BytewiseHalved
    <3>2. BP' = RemoveFirst(BP, a) /\ asked' = asked \ {a}
      BY <2>3, <3>1 DEF RemoveBreakpoint
    <3> HIDE DEF a
    <3>3. RemoveFirst(BP, a) \in Seq(Addresses) /\ ToSet(BP) \ {a} \subseteq ToSet(RemoveFirst(BP, a))
      BY <1>0, RemovalKeepsOthers
    <3> QED BY <3>2, <3>3, <1>0
  <2> QED BY <2>1, <2>2, <2>3 DEF BreakPoint
<1>4. UNCHANGED <<resumed, under, tick>> BY DEF BreakPoint
<1> QED BY <1>1, <1>2, <1>3, <1>4, RoundSafe

LEMMA WriteRegisterSafe ==
  ASSUME NEW addr \in Bytewise
  PROVE  IInv /\ WriteRegister(addr) => IInv' /\ Held
<1> SUFFICES ASSUME IInv, WriteRegister(addr) PROVE IInv' /\ Held OBVIOUS
<1>0. TypeOK /\ RunsAsResumed /\ Running /\ Set BY DEF IInv
<1>1. /\ phase = "serve" /\ <<"P", addr>> \in Packets \cup Marks
      /\ toServer' \in Seq(Packets \cup Marks)
  BY <1>0, Received DEF WriteRegister
<1>2. addr \in {2 * a : a \in Addresses} BY <1>1 DEF Packets, Resumes, Marks
<1>3. addr < 2 * Words BY <1>2, WordsAssumption DEF Addresses
<1>4. pc' \in Addresses BY <1>3, BytewiseHalved DEF WriteRegister
<1>5. last_reply' \in Replies /\ toClient' \in Seq(Replies)
  BY <1>0, Replied DEF WriteRegister, Replies
<1>6. TypeOK' BY <1>0, <1>1, <1>4, <1>5 DEF TypeOK, WriteRegister, client, history
<1>7. RunsAsResumed' BY <1>0 DEF RunsAsResumed, WriteRegister, history
<1>8. Running' BY <1>0, <1>1 DEF Running, WriteRegister
<1>9. Set' BY <1>0 DEF Set, WriteRegister, history
<1> QED BY <1>6, <1>7, <1>8, <1>9 DEF IInv, Held, WriteRegister, history

LEMMA KillSafe == IInv /\ Kill => IInv' /\ Held
<1> SUFFICES ASSUME IInv, Kill PROVE IInv' /\ Held OBVIOUS
<1>0. TypeOK /\ RunsAsResumed /\ Running /\ Set BY DEF IInv
<1>1. phase = "serve" /\ toServer' \in Seq(Packets \cup Marks) BY <1>0, Received DEF Kill
<1>2. last_reply' \in Replies /\ toClient' \in Seq(Replies) BY <1>0, Replied DEF Kill, Replies
<1>3. TypeOK' BY <1>0, <1>1, <1>2 DEF TypeOK, Kill, cpu, client, history
<1>4. RunsAsResumed' BY <1>0 DEF RunsAsResumed, Kill, history
<1>5. Running' BY <1>0, <1>1 DEF Running, Kill, cpu, history
<1>6. Set' BY <1>0 DEF Set, Kill, history
<1> QED BY <1>3, <1>4, <1>5, <1>6 DEF IInv, Held, Kill, history

\* The server returns to exec, with something received or nothing.
LEMMA LeaveSafe ==
  ASSUME IInv, phase = "serve", toServer' \in Seq(Packets \cup Marks),
         NEW mode \in {"CONTINUE", "SINGLE_STEP"}, NEW resume \in {"continue", "step"},
         mode = "CONTINUE" => resume = "continue", Leave(mode, resume)
  PROVE  IInv' /\ Held
<1>0. TypeOK /\ Running /\ Set BY DEF IInv
<1>1. AfterServer(resume) BY DEF Leave
<1>2. /\ phase' = "exec" /\ state' = state
      /\ pc' \in Addresses /\ gdbBreakpointFound' \in BOOLEAN /\ tick' \in BOOLEAN
      /\ resumed' \in {"no", "continue", "step", "stepped"}
      /\ resume = "continue" => resumed' = "continue"
      /\ under' \in {"none", "continue", "step"}
      /\ tick' # tick => pc \notin asked
  BY <1>1, Executes
<1>3. wait = 0 /\ connected BY <1>0 DEF Running
<1>4. wait' \in 0 .. Wait /\ (wait' > 0 => mode = "CONTINUE")
  BY <1>3, BoundsAssumption DEF Leave, Reload
<1>5. TypeOK' BY <1>0, <1>2, <1>4 DEF TypeOK, Leave, client
<1>6. RunsAsResumed' BY <1>2 DEF RunsAsResumed
<1>7. Running' BY <1>2, <1>3, <1>4 DEF Running, Leave
<1>8. Set' BY <1>0 DEF Set, Leave
<1> QED BY <1>2, <1>5, <1>6, <1>7, <1>8 DEF IInv, Held

LEMMA ResumeSafe == IInv /\ (Resume \/ NothingReceived) => IInv' /\ Held
<1> SUFFICES ASSUME IInv, Resume \/ NothingReceived PROVE IInv' /\ Held OBVIOUS
<1>0. TypeOK /\ Running BY DEF IInv
<1>1. CASE In(<<"continue">>) /\ Leave("CONTINUE", "continue")
  <2>1. phase = "serve" /\ toServer' \in Seq(Packets \cup Marks) BY <1>0, <1>1, Received
  <2> QED BY <1>1, <2>1, LeaveSafe
<1>2. CASE In(<<"step">>) /\ Leave("SINGLE_STEP", "step")
  <2>1. phase = "serve" /\ toServer' \in Seq(Packets \cup Marks) BY <1>0, <1>2, Received
  <2> QED BY <1>2, <2>1, LeaveSafe
<1>3. CASE NothingReceived
  <2>1. resumed = "continue" BY <1>0, <1>3 DEF Running, NothingReceived
  <2>2. phase = "serve" /\ toServer' \in Seq(Packets \cup Marks) /\ Leave("CONTINUE", "continue")
    BY <1>0, <1>3, <2>1 DEF NothingReceived, TypeOK
  <2> QED BY <2>2, LeaveSafe
<1> QED BY <1>1, <1>2, <1>3 DEF Resume

\* The client changes the two directions of the connection and what it believes.
LEMMA ClientSafe == IInv /\ Client => IInv' /\ Held
<1> SUFFICES ASSUME IInv, Client PROVE IInv' /\ Held OBVIOUS
<1>0. TypeOK BY DEF IInv
<1>a. UNCHANGED <<cpu, server, phase, history>>
  BY DEF Client, Request, Interrupt, Accept, Refuse, Sends
<1>b. /\ naks \in 0 .. MaxNaks /\ interrupts \in 0 .. MaxInterrupts
      /\ toClient \in Seq(Replies) /\ view \in {"idle", "waiting", "running"}
      /\ MaxNaks \in Nat /\ MaxInterrupts \in Nat
  BY <1>0, BoundsAssumption DEF TypeOK
<1>1. /\ toServer' \in Seq(Packets \cup Marks) /\ toClient' \in Seq(Replies)
      /\ view' \in {"idle", "waiting", "running"}
      /\ naks' \in 0 .. MaxNaks /\ interrupts' \in 0 .. MaxInterrupts
  <2>1. CASE \E p \in Packets : Request(p)
    BY <1>0, <1>b, <2>1, Sent DEF Request
  <2>2. CASE Interrupt
    <3>1. toServer' \in Seq(Packets \cup Marks) BY <1>0, <2>2, Sent DEF Interrupt, Marks
    <3> QED BY <1>b, <2>2, <3>1 DEF Interrupt
  <2>3. CASE Accept
    <3>1. toServer' \in Seq(Packets \cup Marks) BY <1>0, <2>3, Sent DEF Accept, Marks
    <3>2. toClient' \in Seq(Replies) BY <1>b, <2>3, HeadTailProperties DEF Accept
    <3> QED BY <1>b, <2>3, <3>1, <3>2 DEF Accept
  <2>4. CASE Refuse
    <3>1. toServer' \in Seq(Packets \cup Marks) BY <1>0, <2>4, Sent DEF Refuse, Marks
    <3>2. toClient' \in Seq(Replies) BY <1>b, <2>4, HeadTailProperties DEF Refuse
    <3> QED BY <1>b, <2>4, <3>1, <3>2 DEF Refuse
  <2> QED BY <2>1, <2>2, <2>3, <2>4 DEF Client
<1>2. TypeOK' BY <1>0, <1>a, <1>1 DEF TypeOK, cpu, server, history
<1>3. RunsAsResumed' BY <1>a DEF IInv, RunsAsResumed, history
<1>4. Running' BY <1>a DEF IInv, Running, cpu, server, history
<1>5. Set' BY <1>a DEF IInv, Set, server, history
<1>6. Held BY <1>a DEF Held, history
<1> QED BY <1>2, <1>3, <1>4, <1>5, <1>6 DEF IInv
-----------------------------------------------------------------------------
(* Answers *)

\* What is read from a queue leaves the rest of it there.
LEMMA TailSet ==
  ASSUME NEW S, NEW s \in Seq(S), s # <<>>
  PROVE  ToSet(s) \ {Head(s)} \subseteq ToSet(Tail(s))
<1> DEFINE n == Len(s)
           t == Tail(s)
<1>1. /\ n \in Nat /\ n >= 1 /\ Head(s) = s[1] /\ t \in Seq(S) /\ Len(t) = n - 1
      /\ \A i \in 1 .. n - 1 : t[i] = s[i + 1]
  BY HeadTailProperties, EmptySeq
<1>2. DOMAIN s = 1 .. n /\ DOMAIN t = 1 .. n - 1 BY <1>1, LenProperties
<1> HIDE DEF n, t
<1>3. ASSUME NEW i \in 1 .. n, s[i] # s[1] PROVE s[i] \in {t[j] : j \in 1 .. n - 1}
  <2>1. i - 1 \in 1 .. n - 1 /\ i - 1 + 1 = i BY <1>1, <1>3
  <2>2. t[i - 1] = s[i] BY <1>1, <2>1
  <2> QED BY <2>1, <2>2
<1>4. ToSet(s) \ {s[1]} \subseteq ToSet(t) BY <1>2, <1>3 DEF ToSet
<1> QED BY <1>1, <1>4 DEF t

\* Reading an acknowledgement or a resume leaves every answer owed that was, ...
LEMMA ReadOn ==
  ASSUME TypeOK, NEW m \in Resumes \cup {<<"+">>}, In(m), toClient' = toClient
  PROVE  /\ Owed => Owed'
         /\ m = <<"+">> /\ Resumes \cap ToSet(toServer) # {}
              => (Resumes \cap ToSet(toServer) # {})'
<1>1. /\ toServer \in Seq(Packets \cup Marks) /\ toServer # <<>> /\ Head(toServer) = m
      /\ toServer' = Tail(toServer)
  BY DEF TypeOK, In
<1>2. ToSet(toServer) \ {m} \subseteq ToSet(toServer') BY <1>1, TailSet
<1>3. <<"+">> \notin Resumes
  <2>1. \A p \in Resumes : p[1] # "+" BY DEF Resumes
  <2>2. <<"+">>[1] = "+" OBVIOUS
  <2> QED BY <2>1, <2>2
<1> QED BY <1>2, <1>3 DEF Owed

\* ... and what is sent to the server is there.
LEMMA SentOn ==
  ASSUME TypeOK, NEW m \in Packets \cup Marks, toServer' = Append(toServer, m)
  PROVE  m \in ToSet(toServer')
BY AppendedSet DEF TypeOK

\* An answer sent is an answer owed.
LEMMA AnswerSent ==
  ASSUME TypeOK, NEW r \in Replies, toClient' = Append(toClient, r)
  PROVE  Owed'
<1>1. toClient' # <<>>
  <2>1. toClient \in Seq(Replies) BY DEF TypeOK
  <2> QED BY <2>1, AppendProperties, EmptySeq
<1> QED BY <1>1 DEF Owed

\* What happens to the resume when exec goes on.
LEMMA ResumeKept ==
  ASSUME NEW resume, AfterServer(resume)
  PROVE  /\ phase' = "exec"
         /\ resume = "continue" => resumed' = "continue"
         /\ resume = "step" => resumed' \in {"step", "stepped"}
         /\ state = "CPU_STOPPED" => resumed' = resume
BY DEF AfterServer, Instruction, Stay

\* The server, outside its loop ...
LEMMA ExecAnswers ==
  ASSUME IInv, AnswerDue, NotConnected \/ Waiting \/ TryConnectGdb \/ Enter PROVE AnswerDue'
<1>0. TypeOK /\ Running BY DEF IInv
<1> USE DEF AnswerDue
<1>1. CASE NotConnected
  <2>1. state = "CPU_STOPPED" /\ AfterServer(resumed) /\ ~connected
        /\ UNCHANGED <<toServer, toClient, view>>
    BY <1>0, <1>1 DEF NotConnected, Running, client
  <2>2. resumed' = resumed BY <2>1, ResumeKept
  <2> QED BY <2>1, <2>2 DEF Owed
<1>2. CASE Waiting
  <2>1. resumed = "continue" /\ AfterServer(resumed) /\ UNCHANGED <<toServer, toClient, view>>
    BY <1>0, <1>2 DEF Waiting, Running, client
  <2>2. resumed' = "continue" BY <2>1, ResumeKept
  <2> QED BY <2>1, <2>2 DEF Owed
<1>3. CASE TryConnectGdb
  BY <1>3 DEF TryConnectGdb, client, history, Owed
<1>4. CASE Enter
  <2>1. UNCHANGED <<toServer, view, connected, wait>> BY <1>4 DEF Enter, client
  <2>2. CASE gdbBreakpointFound \/ runMode = "SINGLE_STEP"
    <3>1. toClient' = Append(toClient, "stop") /\ resumed' = "no"
      BY <1>4, <2>2 DEF Enter, SendPosition, Reply
    <3>2. Owed' BY <1>0, <3>1, AnswerSent DEF Replies
    <3> QED BY <3>1, <3>2
  <2>3. CASE ~(gdbBreakpointFound \/ runMode = "SINGLE_STEP")
    <3>1. UNCHANGED <<toClient, resumed>> BY <1>4, <2>3 DEF Enter
    <3> QED BY <2>1, <2>3, <3>1 DEF Owed
  <2> QED BY <2>2, <2>3
<1> QED BY <1>1, <1>2, <1>3, <1>4

\* ... in it ...
LEMMA ServeAnswers ==
  ASSUME IInv, AnswerDue, phase = "serve", Serve PROVE AnswerDue'
<1>0. TypeOK /\ Running BY DEF IInv
<1>1. resumed \notin {"step", "stepped"} BY DEF AnswerDue
<1>2. ASSUME NEW r \in Replies, Reply(r), view' = view, resumed' \in {"no", resumed}
      PROVE  AnswerDue'
  <2>1. Owed' BY <1>0, <1>2, AnswerSent DEF Reply
  <2> QED BY <1>1, <1>2, <2>1 DEF AnswerDue
<1>3. last_reply \in Replies /\ "stop" \in Replies /\ "answer" \in Replies
  BY <1>0 DEF TypeOK, Replies
<1>4. CASE Ack
  <2>1. In(<<"+">>) /\ UNCHANGED <<view, toClient, resumed>>
    BY <1>4 DEF Ack, Loop, client, history
  <2> QED BY <1>0, <1>1, <2>1, ReadOn DEF AnswerDue
<1>5. CASE Nak BY <1>2, <1>3, <1>5 DEF Nak, Loop, client, history
<1>6. CASE CtrlC BY <1>2, <1>3, <1>6 DEF CtrlC, Loop, client, SendPosition
<1>7. CASE Other BY <1>2, <1>3, <1>7 DEF Other, Loop, client, history
<1>8. CASE Kill BY <1>2, <1>3, <1>8 DEF Kill, client, history
<1>9. ASSUME NEW addr \in Bytewise, BreakPoint(addr) \/ WriteRegister(addr) PROVE AnswerDue'
  BY <1>2, <1>3, <1>9 DEF BreakPoint, WriteRegister, Loop, client, history
<1>10. CASE In(<<"continue">>) /\ Leave("CONTINUE", "continue")
  <2>1. toClient' = toClient /\ view' = view /\ AfterServer("continue")
    BY <1>10 DEF Leave, client
  <2>2. resumed' = "continue" BY <2>1, ResumeKept
  <2>3. Owed => Owed' BY <1>0, <1>10, <2>1, ReadOn DEF Resumes
  <2> QED BY <2>1, <2>2, <2>3 DEF AnswerDue
<1>11. CASE In(<<"step">>) /\ Leave("SINGLE_STEP", "step")
  <2>1. /\ toClient' = toClient /\ view' = view /\ AfterServer("step")
        /\ runMode' = "SINGLE_STEP" /\ connected' = connected /\ wait' = wait
    BY <1>11 DEF Leave, client, Reload
  <2>2. resumed' \in {"step", "stepped"} /\ phase' = "exec" BY <2>1, ResumeKept
  <2>3. Owed => Owed' BY <1>0, <1>11, <2>1, ReadOn DEF Resumes
  <2>4. connected /\ wait = 0 BY <1>0 DEF Running
  <2> QED BY <2>1, <2>2, <2>3, <2>4 DEF AnswerDue
<1>12. CASE NothingReceived
  <2>1. resumed = "continue" BY <1>0, <1>12 DEF Running, NothingReceived
  <2>2. /\ UNCHANGED <<toServer, toClient, view>> /\ AfterServer("continue")
    BY <1>12, <2>1 DEF NothingReceived, Leave, client
  <2>3. resumed' = "continue" BY <2>2, ResumeKept
  <2> QED BY <2>2, <2>3 DEF AnswerDue, Owed
<1> QED BY <1>4, <1>5, <1>6, <1>7, <1>8, <1>9, <1>10, <1>11, <1>12 DEF Serve, Resume

\* ... and the client.
LEMMA ClientAnswers ==
  ASSUME IInv, AnswerDue, Client PROVE AnswerDue'
<1>0. TypeOK BY DEF IInv
<1>1. UNCHANGED <<resumed, connected, phase, wait, runMode>>
  BY DEF Client, Request, Interrupt, Accept, Refuse, Sends, server, history
<1>2. CASE \E p \in Packets : Request(p)
  <2>1. PICK p \in Packets : Request(p) BY <1>2
  <2>2. toServer' = Append(toServer, p) /\ view' = IF p \in Resumes THEN "running" ELSE "waiting"
    BY <2>1 DEF Request, Sends
  <2>3. p \in ToSet(toServer') BY <1>0, <2>2, SentOn
  <2>4. p # <<"+">>
    <3>1. p[1] # "+" BY DEF Packets, Resumes
    <3> QED BY <3>1
  <2>5. CASE p \in Resumes BY <1>1, <2>2, <2>3, <2>5 DEF AnswerDue
  <2>6. CASE p \notin Resumes
    <3>1. Owed' BY <2>3, <2>4, <2>6 DEF Owed
    <3> QED BY <1>1, <3>1 DEF AnswerDue
  <2> QED BY <2>5, <2>6
<1>3. ASSUME NEW m \in {<<"-">>, <<"ctrl-c">>}, toServer' = Append(toServer, m) PROVE AnswerDue'
  <2>1. m \in ToSet(toServer') BY <1>0, <1>3, SentOn DEF Marks
  <2>2. m[1] \in {"-", "ctrl-c"} /\ \A p \in Resumes \cup {<<"+">>} : p[1] \notin {"-", "ctrl-c"}
    BY DEF Resumes
  <2>3. Owed' BY <2>1, <2>2 DEF Owed
  <2> QED BY <1>1, <2>3 DEF AnswerDue
<1>4. CASE Interrupt BY <1>3, <1>4 DEF Interrupt, Sends
<1>5. CASE Refuse BY <1>3, <1>5 DEF Refuse, Sends
<1>6. CASE Accept BY <1>1, <1>6 DEF Accept, AnswerDue
<1> QED BY <1>2, <1>4, <1>5, <1>6 DEF Client
-----------------------------------------------------------------------------
(* The theorems *)

LEMMA Step == IInv /\ [Next]_vars => IInv' /\ (Held \/ tick' = tick)
<1> SUFFICES ASSUME IInv, [Next]_vars PROVE IInv' /\ (Held \/ tick' = tick) OBVIOUS
<1>1. CASE Process
  <2>1. CASE NotConnected \/ Waiting \/ TryConnectGdb \/ Enter
    BY <2>1, NotConnectedSafe, WaitingSafe, TryConnectGdbSafe, EnterSafe
  <2>2. CASE Serve
    BY <2>2, TalkSafe, KillSafe, ResumeSafe, BreakPointSafe, WriteRegisterSafe DEF Serve
  <2> QED BY <1>1, <2>1, <2>2 DEF Process
<1>2. CASE Client BY <1>2, ClientSafe
<1>3. CASE UNCHANGED vars
  <2>1. UNCHANGED <<cpu, server, phase, toServer, toClient, client, history>> BY <1>3 DEF vars
  <2>2. TypeOK' BY <2>1 DEF IInv, TypeOK, cpu, server, client, history
  <2>3. RunsAsResumed' BY <2>1 DEF IInv, RunsAsResumed, history
  <2>4. Running' BY <2>1 DEF IInv, Running, cpu, server, history
  <2>5. Set' BY <2>1 DEF IInv, Set, server, history
  <2> QED BY <2>1, <2>2, <2>3, <2>4, <2>5 DEF IInv, history
<1> QED BY <1>1, <1>2, <1>3 DEF Next

THEOREM Invariant == Spec => []IInv
<1>1. IInv /\ [Next]_vars => IInv' BY Step
<1> QED BY Initially, <1>1, PTL DEF Spec

\* Every variable keeps its type.
THEOREM TypeCorrect == Spec => []TypeOK
<1>1. IInv => TypeOK BY DEF IInv
<1> QED BY Invariant, <1>1, PTL

\* The program runs only for a resume that was not reported to have ended, and one
\* instruction for a step (gdbserver.cpp:1297-1369).
THEOREM ResumedOnly == Spec => []RunsAsResumed
<1>1. IInv => RunsAsResumed BY DEF IInv
<1> QED BY Invariant, <1>1, PTL

\* No instruction is executed where the client has set a breakpoint and not removed it
\* (avr8.cpp:1036-1042, gdbserver.cpp:174-182).
THEOREM BreakpointsKept == Spec => BreakpointsHold
<1>1. IInv /\ [Next]_vars => [tick' # tick => pc \notin asked]_vars BY Step DEF Held
<1> QED BY Invariant, <1>1, PTL DEF Spec, BreakpointsHold

\* A client that waits is owed an answer, and a step its report, through refusals,
\* interrupts and packets that overtake a stop (gdbserver.cpp:1223-1238 and 1297-1369).
THEOREM AnswersDue == Spec => []AnswerDue
<1>1. Init => AnswerDue BY DEF Init, AnswerDue
<1>2. IInv /\ AnswerDue /\ [Next]_vars => AnswerDue'
  <2> SUFFICES ASSUME IInv, AnswerDue, [Next]_vars PROVE AnswerDue' OBVIOUS
  <2>1. CASE Process
    <3>1. CASE NotConnected \/ Waiting \/ TryConnectGdb \/ Enter BY <3>1, ExecAnswers
    <3>2. CASE Serve
      <4>1. phase = "serve"
        BY <3>2 DEF Serve, Ack, Nak, CtrlC, Other, Kill, Resume, NothingReceived, BreakPoint,
                    WriteRegister, In
      <4> QED BY <3>2, <4>1, ServeAnswers
    <3> QED BY <2>1, <3>1, <3>2 DEF Process
  <2>2. CASE Client BY <2>2, ClientAnswers
  <2>3. CASE UNCHANGED vars BY <2>3 DEF vars, server, client, history, AnswerDue, Owed
  <2> QED BY <2>1, <2>2, <2>3 DEF Next
<1> QED BY <1>1, <1>2, Invariant, PTL DEF Spec
=============================================================================
