\* Two instructions, two breakpoints; the emulator stops when it is killed.
SPECIFICATION FairSpec
CONSTANTS
    Words = 2
    Wait = 2
    MaxBreakpoints = 2
    MaxNaks = 1
    MaxInterrupts = 2
    MaxQueue = 2
CHECK_DEADLOCK FALSE
INVARIANTS TypeOK RunsAsResumed AnswerDue
PROPERTIES BreakpointsHold StopReported
