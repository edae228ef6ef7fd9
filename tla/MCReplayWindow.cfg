CONSTANTS
    WinBits = 3
    Seqs = {0, 1, 2, 3, 4, 5, 6, 7, 8}
SPECIFICATION Spec
INVARIANTS
    TypeOK
    WindowExact
    AlwaysStorable
PROPERTY PromiseSpec
