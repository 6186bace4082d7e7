\* Two cores: power management while a standard call is preempted.
SPECIFICATION Spec
CONSTANTS
    None = None
    DEBUG = TRUE
    Core = {c1, c2}
    Primary = c1
    Arg = {a1}
    Regs = {r1}
INVARIANTS
    ContextNotCorrupted
CHECK_DEADLOCK FALSE
