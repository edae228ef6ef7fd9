CONSTANTS
    WinBits = 1
    Contacts = {c1}
    Block = 2
    SeqMax = 4
    EpochMax = 1
    m1 = m1
    m2 = m2
    Bodies <- BodiesTwo
    RxSeqs = {0}
    MaxRoots = 1
    NoSend = NoSend
    NoStage = NoStage
SPECIFICATION UsbSpec
INVARIANT NonceNeverReused
