CONSTANTS
    Contacts = {c1}
    NoContact = NoContact
    QueueCap = 1
    CadMax = 2
    GenMod = 8
    MaxEdges = 4
    MaxCmds = 3
    NoCmd = NoCmd
SPECIFICATION FairSpec
INVARIANTS
    TypeOK
    ForbiddenNeverAired
    AttemptedTruthful
PROPERTIES
    SilentAfterBarrier
    EveryCommandEnds
CHECK_DEADLOCK FALSE
