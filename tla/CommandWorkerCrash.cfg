SPECIFICATION FairWorkerSpec
CONSTANTS
    None = None
    demo = demo
    code = code
    Commands = {demo, code}
    Demo = {demo}
    Units <- MCOneUnits
    Tasks = {}
    Reservation <- MCOneReservation
    Nonce <- MCOneNonce
    Expected <- MCOneExpected
    Quota = 3
    Offline = {}
    Owners = {"o1"}
    Receipts = {"r", "s"}
    MaxEpoch = 1
    MaxCrashes = 1
    MaxLost = 0
PROPERTIES ReceiptIsSettled
CHECK_DEADLOCK FALSE
