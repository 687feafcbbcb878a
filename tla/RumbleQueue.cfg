SPECIFICATION Spec
CONSTANTS
    Devices = {pad1, pad2, pad3}
    MaxDevices = 2
    NumInputs = 1
    QueueMax = 4
    RumbleGap = 3
    LoopDelay = 1
    None = None
INVARIANTS RumbleInv FewPerInput
PROPERTIES OwnRumblesOnly RoomWhenAsked
SYMMETRY PadSymmetry
