CONSTANTS
    app = app
    blk = blk
    wr = wr
    Minor = {0}
    Blocker <- OneBlk
    App <- OneApp
    Writer <- OneWriter
    BUF_SIZE = 2
    Lengths = {1, 3}
    InOrder = FALSE
SPECIFICATION Spec
INVARIANTS
    NoLostWakeup
PROPERTIES
    EventsServed
