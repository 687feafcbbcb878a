SPECIFICATION Spec
CONSTANTS Configs <- AllConfigs
INVARIANTS ToggleInv
PROPERTIES CycleGoesOn PressMoves AppliedStartsAtZero
