--------------------------- MODULE MCControlLoop ---------------------------
(* Small instances of ControlLoop.                                         *)
EXTENDS ControlLoop, TLC

(* Nothing tells two gamepads apart.  Used for invariants only.            *)
PadSymmetry == Permutations(Gamepads)
=============================================================================
