SPECIFICATION Spec
CONSTANTS
    car = car
    foo = foo
    FOO = FOO
    bar = bar
    rc = rc
    Names = {car, foo, FOO, rc}
    Fold <- FoldFOO
    Builtins = {car}
    Car = car
    NewNames = {car, foo, FOO, rc}
    Legacy = {rc}
    OldNames = {foo}
    MaxUserPresets = 2
    Modes = {"Min", "Max"}
    Interrupts = {"idle", "blob", "dir", "copy", "erase", "newdir", "after"}
    ApplyOutcomes = {TRUE, FALSE}
INVARIANTS StoreInv DirectoryUnambiguous BootShownIsStored
PROPERTIES ImplementsPresetList
