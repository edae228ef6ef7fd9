CONSTANTS
    Contacts = {c1, c2}
    QueueCap = 2
    MaxTx = 2
    Probes = 1
    MaxReqs = 3
    MaxRx = 1
    None = None
SPECIFICATION FairSpec
INVARIANTS TypeOK OneFinalReply AcknowledgedIsOwn
PROPERTIES NoFrameAfterTheEnd MintedInSync OkMeansFenced SendsAndControlsEnd
CHECK_DEADLOCK FALSE
