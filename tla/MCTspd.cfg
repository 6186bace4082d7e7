\* One core: every call, interrupt and power management hook, operands and
\* registers that can be told apart, and the liveness of the calls.  The machine
\* really stops when it is switched off, and the payload can loop for ever.
SPECIFICATION LiveSpec
CONSTANTS
    None = None
    DEBUG = FALSE
    Core = {c1}
    Primary = c1
    Arg = {a1, a2}
    Regs = {r1, r2}
INVARIANTS
    TypeOK
    AnswersOwn
    LiveRegisters
    FlagMeansCall
    PstateFollows
PROPERTIES
    PreemptedCallKept
    KeepsCalls
    SecureReturns
    StandardCallEnds
CHECK_DEADLOCK FALSE
