CONSTANTS
    t1 = t1
    t2 = t2
    NoThread = NoThread
    Thread <- TwoThreads
    QUEUE_SIZE = 2
    CountMax = 3
    Key = {"a"}
    Nul = "nul"
    Keymap <- EmptyMap
    Calls = {"enq", "deq", "clr"}
SPECIFICATION Spec
INVARIANTS
    IndexInBounds
PROPERTIES
    ClearReturns
