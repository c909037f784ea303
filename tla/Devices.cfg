CONSTANTS
    p1 = p1
    p2 = p2
    p3 = p3
    f1 = f1
    f2 = f2
    NULL = NULL
    Reporter <- TwoUsers
    Temps = {20, 25, 30}
    Thresholds = {20, 30}
    MaxReports = 3
    LightUser <- TwoUsers
    Statuses <- TwoStatuses
    Brightness = {300}
    IrqUser <- TwoUsers
    MaxTriggers = 4
    Process <- Family
    First <- TwoUsers
    File <- TwoFiles
    Node = {1, 2, 3, 4, 5}
    SkelUser <- TwoUsers
    SKEL_SIZE = 3
    SizeMax = 7
    SkelLengths = {0, 2, 4}
    SkelSeeks = {0, 2, 3}
    AttrUser <- TwoUsers
    AttrValues = {0, 1, 2}
SPECIFICATION Spec
INVARIANTS
    AlertsAccounted
    StatusWhole
    CountsExact
    SignalsReachTheLiving
    ListSound
    CopiesInside
    ShownIsSet
PROPERTIES
    RequestsServed
CHECK_DEADLOCK FALSE
