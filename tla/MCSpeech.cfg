\* Two callers, a modem that never fails: five messages, so that several wait
\* behind one whose ack is missing.  Callers may stop calling, and the whole
\* then rests.
SPECIFICATION Spec
CONSTANTS
    Sph = sph
    Reader = Reader
    Para = Para
    None = None
    QueueNum = 60
    Func = {sph, rec}
    MaxCalls = 5
    MaxFaults = 0
INVARIANTS
    TypeOK
    HeadAwaitsAck
    DataExpected
    BufferIntact
    StatusAgrees
CHECK_DEADLOCK FALSE
