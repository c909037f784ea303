CONSTANTS
    p1 = p1
    p2 = p2
    NoProc = NoProc
    Proc <- MCProc
    PathOf <- OwnPath
    HalfField = 1
    SectorSize = 1
    Payload = {7}
    KeyBytes <- MCBytes
    UserKeys = {}
    DefaultKeys <- MCKeys
    Offsets = {0}
    Lengths = {1}
    Ops <- MirrorOps
SPECIFICATION OSpec
INVARIANTS
    BackupIsMirrorImage
    MirrorIsCurrent
PROPERTIES
    SCallsReturn
