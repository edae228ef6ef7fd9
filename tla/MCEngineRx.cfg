CONSTANTS
    WinBits = 1
    Contacts = {c1}
    Block = 2
    SeqMax = 1
    EpochMax = 2
    m1 = m1
    m2 = m2
    Bodies = {m1}
    RxSeqs = {0, 1}
    MaxRoots = 1
    NoSend = NoSend
    NoStage = NoStage
SPECIFICATION Spec
INVARIANTS
    NeverRedelivered
    ReceptionDurable
