CONSTANTS
    p1 = p1
    p2 = p2
    NoProc = NoProc
    Proc <- MCProc
    PathOf <- OwnPath
    HalfField = 1
    SectorSize = 2
    Payload = {7, 8}
    KeyBytes <- MCBytes
    UserKeys = {}
    DefaultKeys <- MCKeys
    Offsets <- Aligned
    Lengths = {2}
    Ops <- TearOps
SPECIFICATION OSpec
INVARIANTS
    MirrorNotTorn
