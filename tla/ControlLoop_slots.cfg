SPECIFICATION Spec
CONSTANTS
    Devices = {pad1, pad2, mouse}
    Gamepads = {pad1, pad2}
    MaxDevices = 2
    SignalTimeout = 0
    LoopDelay = 0
    HandlerMax = 0
    Modulus = 1
    NoData = NoData
    None = None
INVARIANT SeatsAgree
PROPERTY ImplementsDeadMan
SYMMETRY PadSymmetry
