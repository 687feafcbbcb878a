--------------------------- MODULE MCPresetStore ---------------------------
(* Small instances of PresetStore.                                         *)
EXTENDS PresetStore

CONSTANTS car, foo, FOO, bar, rc

FoldFOO == [n \in Names |-> IF n = FOO THEN foo ELSE n]
=============================================================================
