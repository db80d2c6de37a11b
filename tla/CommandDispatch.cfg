SPECIFICATION MCSpec
CONSTANTS
    None = None
    demo = demo
    odd = odd
    code1 = code1
    code2 = code2
    task = task
    Commands = {demo, odd, code1, code2, task}
    Demo = {demo}
    Units <- MCUnits
    Tasks = {task}
    Reservation <- MCReservation
    Nonce <- MCNonce
    Expected <- MCExpected
    Quota = 2
    Offline = {demo}
    Owners = {"o1", "o2"}
    Receipts = {"r", "s"}
    MaxEpoch = 2
    Tokens = {t1}
    Origins = {o1, o2}
    Browsers = {b1, b2}
    BootstrapLife = 1
    SessionLife = 1
    MaxReplay = 2
    Batch = 1
    MaxWall = 2
    MaxLog = 3
    NoSession = NoSession
    Keys = {k1, k2, k3, k4}
    Historic = {k4}
    Works = {"base", "top"}
    Needs <- MCNeeds
    Limit <- MCLimit
    Deadline <- MCDeadline
    Selections = {"s", "t"}
    Readers = {r1}
    PageLimit = 2
    MaxTime = 1
    MaxEvents = 7
    MaxThread = 3
    Absent = Absent
INVARIANTS OperatorTypesOK TablesAgree DispatchIsOrderly StreamIsHonest HistoryIsWhole
PROPERTIES LifecycleHolds AuthorityOnlyEnds
CHECK_DEADLOCK FALSE
