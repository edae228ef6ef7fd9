CONSTANTS
    Msgs = {1, 2}
    MaxTx = 2
    TTL = 2
    AckWait = 3
    MaxDelay = 1
    Size = 2
    NoKey = NoKey
    NoForward = NoForward
    Noise = {n1}
    Setups <- Experiments
    MaxMischief = 1
SPECIFICATION FairSpec
INVARIANTS TypeOK RetryTraverses
PROPERTIES ServiceSpec UnconfirmedNeedsLosses EverySendEnds
\* The experiment ends when its messages are through and the air is quiet.
CHECK_DEADLOCK FALSE
