SPECIFICATION Spec
CONSTANTS
    None = None
    Lba = {1, 2, 3}
    DiskEnd = 4
    Offsets <- MCOffsets
    Cut = {0, 1, 2, 3, 4}
INVARIANTS
    TypeOK
    TableSurvives
    WholeTables
    DataReachable
    BackupFits
PROPERTY DataKept
CHECK_DEADLOCK FALSE
CONSTRAINT Sighted
