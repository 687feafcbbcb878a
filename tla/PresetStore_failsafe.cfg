SPECIFICATION Spec
CONSTANTS
    car = car
    foo = foo
    FOO = FOO
    bar = bar
    rc = rc
    Names = {car, foo, FOO, bar}
    Fold <- FoldFOO
    Builtins = {car}
    Car = car
    NewNames = {foo, bar}
    Legacy = {}
    OldNames = {bar}
    MaxUserPresets = 2
    Modes = {"Min", "Center", "Max"}
    Interrupts = {}
    ApplyOutcomes = {TRUE}
INVARIANTS CleanMeansStored
