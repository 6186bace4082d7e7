\* Two callers and one failed write or modem reset: parameters overwritten in the
\* share buffer by another thread while their message waits to be sent.
SPECIFICATION Spec
CONSTANTS
    Sph = sph
    Reader = Reader
    Para = Para
    None = None
    QueueNum = 60
    Func = {sph, rec}
    MaxCalls = 3
    MaxFaults = 1
INVARIANTS
    BufferIntact
CHECK_DEADLOCK FALSE
