\* One caller, the reader and the parameters thread against a modem and writes
\* that fail twice: a modem that resets or announces its power-off, also again
\* while the parameters thread works, a write that fails.  Callers may stop
\* calling, and the whole then rests.
SPECIFICATION LiveSpec
CONSTANTS
    Sph = sph
    Reader = Reader
    Para = Para
    None = None
    QueueNum = 60
    Func = {sph}
    MaxCalls = 1
    MaxFaults = 2
PROPERTIES
    InOrder
    CallsReturn
    QueueDrains
CHECK_DEADLOCK FALSE
