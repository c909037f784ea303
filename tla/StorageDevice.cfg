CONSTANTS
    p1 = p1
    p2 = p2
    NoProc = NoProc
    Proc <- MCProc
    HalfField = 1
    SectorSize = 2
    Payload = {7}
    KeyBytes <- MCBytes
    UserKeys = {}
    DefaultKeys <- MCKeys
    Offsets <- MCOffsets
    Lengths <- MCLengths
    Ops <- AllOps
SPECIFICATION HSpec
INVARIANTS
    TypeOK
    MutexHeldInside
    StoreTargetsOpen
    ReadIsSnapshot
    StoreLanded
    LockInfoIsSnapshot
    WriteInBounds
PROPERTIES
    LockedSectorImmutable
    OpenedByKeyOnly
    ImplementsAtomic
