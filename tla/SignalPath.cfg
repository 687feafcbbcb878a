SPECIFICATION Spec
CONSTANTS
    NumInputs = 2
    NumOutputs = 2
    Reports <- MCReports
    InputDrafts <- MCInputDrafts
    OutputDrafts <- MCOutputDrafts
    Presets <- MCPresets
INVARIANTS SignalInv ShownIsDriven NoGhostSource LearnFindsIntent
PROPERTIES DeleteKeepsOtherTerms NoiseMovesNothing
