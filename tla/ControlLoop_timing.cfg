SPECIFICATION FairSpec
CONSTANTS
    Devices = {pad}
    Gamepads = {pad}
    MaxDevices = 1
    SignalTimeout = 3
    LoopDelay = 1
    HandlerMax = 2
    Modulus = 13
    NoData = NoData
    None = None
INVARIANTS LoopInv LiveIsFresh FailsafeShownIsSafe
PROPERTIES LinkLossReachesFailsafe LiveNeedsReports
