CONSTANTS
    N = 3
    MaxTicket = 3
SPECIFICATION HFairSpec
INVARIANTS
    TypeOK
    MutualExclusion
    OwnerIsHolder
    TicketFits
PROPERTIES
    FirstComeFirstServed
    StarvationFree
