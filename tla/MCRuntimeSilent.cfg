CONSTANTS
    Contacts = {c1}
    QueueCap = 3
    MaxTx = 1
    Probes = 1
    MaxReqs = 3
    MaxRx = 0
    None = None
SPECIFICATION RadioFairSpec
PROPERTY EverySendIsReported
CHECK_DEADLOCK FALSE
