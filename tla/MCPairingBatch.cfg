CONSTANTS
    Boards = {1, 2, 3}
    MaxContacts = 2
    Batched = TRUE
    Experiments <- OneCeremony
    None = None
SPECIFICATION Spec
INVARIANTS RootNeverRestarted
CHECK_DEADLOCK FALSE
