SPECIFICATION Spec
CONSTANTS
    Devices = {pad, mouse}
    Gamepads = {pad}
    AutoOn = 2
    AutoOff = 5
    PairOn = 3
    PairOff = 1
    PairingWindow = 8
    StartupDelay = 4
    Settle = 2
    LoopDelay = 1
    HandlerMax = 1
    Modulus = 48
    UptimeMax = 38
    None = None
INVARIANTS ScanInv BurstBounded QuietBounded ReachableWhilePairing PairingBounded
PROPERTIES PairingEndsForAReason
