CONSTANTS
    t1 = t1
    t2 = t2
    NoThread = NoThread
    Thread <- TwoThreads
    QUEUE_SIZE = 2
    CountMax = 3
    Key = {"a", "b"}
    Nul = "nul"
    Keymap <- LongMap
    Calls = {"enq", "deq"}
SPECIFICATION Spec
PROPERTIES
    ImplementsFifo
    CallsReturn
