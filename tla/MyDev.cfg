CONSTANTS
    t1 = t1
    t2 = t2
    NoThread = NoThread
    Thread <- MCThread
    Minor = {0}
    File = {0}
    DevOf <- OneFile
    BUF_SIZE = 2
    Payload = {7}
    Counts = {1, 3}
    Seeks <- MCSeeks
    Ops <- AllOps
SPECIFICATION Spec
INVARIANTS
    CopyInBounds
    ReadIsSnapshot
    ResetForgets
PROPERTIES
    CallsReturn
