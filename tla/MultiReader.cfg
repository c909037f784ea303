CONSTANTS
    r1 = r1
    r2 = r2
    w1 = w1
    Reader <- TwoReaders
    Writer <- OneWriter
    Size = 2
    Char = {7}
    Lengths = {2}
    total_readers = 2
SPECIFICATION Spec
INVARIANTS
    NoLostWakeup
    AlwaysTerminated
PROPERTIES
    CallsReturn
