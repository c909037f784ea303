CONSTANTS
    app = app
    blk = blk
    wr = wr
    Minor = {0}
    Blocker <- None
    App <- OneApp
    Writer <- OneWriter
    BUF_SIZE = 2
    Lengths = {1}
    InOrder = TRUE
SPECIFICATION Spec
INVARIANTS
    ClearedOnceRead
