SPECIFICATION FairWorkerSpec
CONSTANTS
    None = None
    demo = demo
    code = code
    Commands = {demo, code}
    Demo = {demo}
    Units <- MCOneUnits
    Tasks = {}
    Reservation <- MCOneReservation
    Nonce <- MCOneNonce
    Expected <- MCOneExpected
    Quota = 3
    Offline = {}
    Owners = {"o1", "o2"}
    Receipts = {"r", "s"}
    MaxEpoch = 2
    MaxCrashes = 1
    MaxLost = 1
INVARIANTS WorkerTypeOK CustodyIsKept
PROPERTIES ReceiptIsStable ClaimIsConcluded
CHECK_DEADLOCK FALSE
