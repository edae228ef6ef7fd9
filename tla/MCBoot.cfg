CONSTANTS
    Keys = {k1, k2}
    MaxBoots = 3
    None = None
SPECIFICATION Spec
PROPERTIES KeysKept
CHECK_DEADLOCK FALSE
