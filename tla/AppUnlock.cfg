CONSTANTS
    main = main
    NoProc = NoProc
    App = main
    AppKey = 66
    AppByte = 7
    Proc <- OneProc
    PathOf <- MCPath
    HalfField = 4
    SectorSize = 1
    Payload = {7}
    KeyBytes <- MCBytes
    UserKeys = {}
    DefaultKeys <- MCKeys
    Offsets = {0}
    Lengths = {1}
    Ops <- AllOps
SPECIFICATION USpec
INVARIANTS
    AppUnlocks
