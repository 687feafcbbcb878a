--------------------------- MODULE DeadManSwitch ---------------------------
(***************************************************************************)
(* What the gamepad path promises, whatever its slots, callbacks and       *)
(* clocks do: a dead man's switch.  One driver at a time is engaged and    *)
(* released; a change of driver finds the outputs at failsafe; each time   *)
(* the outputs are driven, the driver was heard of at most DriveLimit ago; *)
(* and outputs that are not driven again go to failsafe before the driver  *)
(* has been silent for more than HoldLimit.                                *)
(***************************************************************************)
EXTENDS Integers

CONSTANTS
    Drivers,        \* who may drive
    Nobody,         \* no driver is engaged
    DriveLimit,     \* how old what drives the outputs may be
    HoldLimit       \* how long the outputs may stay driven in silence

VARIABLES
    driver,         \* the engaged driver
    silence,        \* time since it was last heard of
    outputs         \* "live" or "failsafe"

dmsVars == <<driver, silence, outputs>>

Init ==
    /\ driver = Nobody /\ outputs = "failsafe"
    /\ silence = HoldLimit + 1

(* A driver takes over only from nobody.                                   *)
Engage ==
    /\ driver = Nobody /\ outputs = "failsafe"
    /\ driver' \in Drivers
    /\ silence' \in 0 .. HoldLimit + 1
    /\ UNCHANGED outputs

Disengage ==
    /\ driver # Nobody
    /\ driver' = Nobody
    /\ outputs' = "failsafe"
    /\ silence' = HoldLimit + 1

Hear ==
    /\ driver # Nobody
    /\ silence' = 0
    /\ UNCHANGED <<driver, outputs>>

Drive ==
    /\ driver # Nobody
    /\ silence <= DriveLimit
    /\ outputs' = "live"
    /\ UNCHANGED <<driver, silence>>

Stop ==
    /\ outputs' = "failsafe"
    /\ UNCHANGED <<driver, silence>>

(* Time passes, and meanwhile the outputs may be put at failsafe.          *)
Pass ==
    /\ driver # Nobody
    /\ silence' \in silence .. HoldLimit + 1
    /\ outputs' \in {outputs, "failsafe"}
    /\ outputs' = "live" => silence' <= HoldLimit
    /\ UNCHANGED driver

Next == Engage \/ Disengage \/ Hear \/ Drive \/ Stop \/ Pass

Spec == Init /\ [][Next]_dmsVars
=============================================================================
