SPECIFICATION Spec
CONSTANTS
    Devices = {pad1, mouse}
    Gamepads = {pad1}
    MaxDevices = 1
    SignalTimeout = 0
    LoopDelay = 0
    HandlerMax = 0
    Modulus = 1
    NoData = NoData
    None = None
INVARIANTS OnlyGamepadsDrive
