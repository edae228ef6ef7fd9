CONSTANTS
    Boards = {1, 2, 3}
    MaxContacts = 2
    Batched = FALSE
    Experiments <- Ceremonies
    None = None
SPECIFICATION Spec
INVARIANTS TypeOK Agreement OneContactPerPeer RootNeverRestarted
CHECK_DEADLOCK FALSE
