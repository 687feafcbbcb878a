SPECIFICATION Spec
CONSTANTS
    NumOutputs = 3
    Pins = {0, 1, 2}
    PwmPins = {1, 2}
    DefaultPin = 0
    Presets <- MCPresets
    Detached = Detached
INVARIANTS FailsafeReachesServos
