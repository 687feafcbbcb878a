--------------------------- MODULE MCRumbleQueue ---------------------------
(* Small instances of RumbleQueue.                                         *)
EXTENDS RumbleQueue, TLC

(* Nothing tells two gamepads apart.                                       *)
PadSymmetry == Permutations(Devices)
=============================================================================
