------------------------- MODULE ToggleInputProofs -------------------------
(* Proofs about ToggleInput, for every set of configurations that requests *)
(* and presets may carry.                                                  *)
EXTENDS ToggleInput, TLAPS

USE ToggleInputAssumption

(* The Boolean and the other part of the type invariant, which the provers *)
(* establish separately.                                                   *)
FlagsOK ==
  /\ primaryPrev \in BOOLEAN /\ secondaryPrev \in BOOLEAN /\ modifierPrev \in BOOLEAN
  /\ applied \in BOOLEAN

RangesOK ==
  /\ cfg \in Config
  /\ g_togglePosition \in 0 .. 2 /\ g_toggle3Direction \in -1 .. 1
  /\ g_virtualRuntime \in -2 .. 2
  /\ presses \in 0 .. 2 /\ cameFrom \in -1 .. 2

(* The type invariant is the conjunction of these parts.                   *)
LEMMA TypeParts == TypeOK <=> FlagsOK /\ RangesOK
  BY Zenon DEF TypeOK, FlagsOK, RangesOK

(* The same in the next state.                                             *)
LEMMA TypePartsPrimed == TypeOK' <=> FlagsOK' /\ RangesOK'
  BY Zenon DEF TypeOK, FlagsOK, RangesOK

(* The configuration of a slot that is not in use.                         *)
LEMMA NoConfigType == NoConfig \in Config /\ NoConfig.inputType = "Direct"
  BY DEF NoConfig, Config, Types, Modifiers

(* Every position has a value on the range of the input.                   *)
LEMMA PositionValueInRange ==
  ASSUME NEW pos \in 0 .. 2 PROVE PositionValue(pos) \in -2 .. 2
  BY DEF PositionValue

(* What a press in single-button mode does: to the middle from either end, *)
(* and from the middle one step in the direction kept.                     *)
LEMMA CycleMoves ==
  ASSUME TypeOK, Cycle
  PROVE  /\ g_togglePosition' \in 0 .. 2 /\ g_toggle3Direction' \in -1 .. 1
         /\ g_togglePosition = 0 => g_toggle3Direction' = 1 /\ g_togglePosition' = 1
         /\ g_togglePosition = 2 => g_toggle3Direction' = -1 /\ g_togglePosition' = 1
         /\ g_togglePosition = 1 => /\ g_toggle3Direction' = g_toggle3Direction
                                    /\ g_togglePosition' = 1 + g_toggle3Direction
  BY DEF TypeOK, Cycle, Clamp

(* evaluateToggleVirtualInput keeps position and direction in range.       *)
LEMMA StepInRange ==
  ASSUME TypeOK, NEW primary \in BOOLEAN, NEW secondary \in BOOLEAN, NEW modifier \in BOOLEAN,
         Step(primary, secondary, modifier)
  PROVE  g_togglePosition' \in 0 .. 2 /\ g_toggle3Direction' \in -1 .. 1
<1>1. CASE Cycle
  BY <1>1, CycleMoves
<1>2. CASE ~Cycle
  BY <1>2 DEF TypeOK, Step
<1> QED BY <1>1, <1>2

(* The one place where a direction changes without a press of the cycle is *)
(* the centring modifier, which sets it to 1.                              *)
LEMMA StepDirection ==
  ASSUME TypeOK, NEW primary \in BOOLEAN, NEW secondary \in BOOLEAN, NEW modifier \in BOOLEAN,
         Step(primary, secondary, modifier)
  PROVE  \/ Cycled(primary, modifier) /\ Cycle
         \/ ~Cycled(primary, modifier) /\ g_toggle3Direction' = 1
         \/ ~Cycled(primary, modifier) /\ g_toggle3Direction' = g_toggle3Direction
  BY DEF Step, Cycled

(* Every evaluation of a toggle preserves the invariant.                   *)
LEMMA ToggleStep ==
  ASSUME ToggleInv, NEW primary \in BOOLEAN, NEW secondary \in BOOLEAN, NEW modifier \in BOOLEAN,
         EvaluateToggle(primary, secondary, modifier)
  PROVE  ToggleInv'
<1> USE DEF ToggleInv
<1>1. Step(primary, secondary, modifier)
  BY DEF EvaluateToggle
<1>2. g_togglePosition' \in 0 .. 2 /\ g_toggle3Direction' \in -1 .. 1
  BY <1>1, StepInRange
<1>3. g_virtualRuntime' \in -2 .. 2
  <2>1. g_virtualRuntime' = 0 \/ g_virtualRuntime' = PositionValue(g_togglePosition')
    BY DEF EvaluateToggle
  <2> QED BY <1>2, <2>1, PositionValueInRange
<1>4. primaryPrev' \in BOOLEAN /\ secondaryPrev' \in BOOLEAN /\ modifierPrev' \in BOOLEAN
  BY DEF EvaluateToggle
<1>5. presses' \in 0 .. 2 /\ cameFrom' \in -1 .. 2
  BY DEF EvaluateToggle, TypeOK
<1>6. TypeOK'
  BY <1>2, <1>3, <1>4, <1>5 DEF TypeOK, EvaluateToggle
<1>7. DirectionRemembered'
  <2>1. CASE Cycled(primary, modifier) /\ Cycle
    BY <2>1, CycleMoves DEF EvaluateToggle, TypeOK, DirectionRemembered
  <2>2. CASE ~Cycled(primary, modifier)
    BY <2>2 DEF EvaluateToggle, TypeOK, DirectionRemembered
  <2> QED BY <1>1, <2>1, <2>2, StepDirection
<1>8. AppliedIsSetUp'
  <2>1. cfg' = cfg /\ applied' = applied
    BY DEF EvaluateToggle
  <2>2. g_toggle3Direction # 0 => g_toggle3Direction' # 0
    BY <1>1, StepDirection, CycleMoves DEF TypeOK
  <2>3. presses' = 0 => presses = 0 /\ g_togglePosition' = g_togglePosition
    BY DEF EvaluateToggle, TypeOK
  <2> QED BY <2>1, <2>2, <2>3 DEF AppliedIsSetUp
<1> QED BY <1>6, <1>7, <1>8

(* Where a preset starts a toggle is a position and a direction.           *)
LEMMA StartInRange ==
  ASSUME TypeOK, NEW c \in Config
  PROVE  /\ StartPosition(c) \in 0 .. 2 /\ StartDirection(c) \in -1 .. 1
         /\ c.inputType = "Toggle3Pos" => StartDirection(c) = 1
         /\ ~c.bipolar => StartPosition(c) = 0
         /\ g_toggle3Direction # 0 => StartDirection(c) # 0
  BY DEF TypeOK, StartPosition, StartDirection

(* The toggle state of one virtual input stays consistent through every    *)
(* sequence of ticks, edits, presets and losses of the gamepad             *)
(* (rc_model.cpp, evaluateVirtualRuntime and applyPersistedConfig).        *)
THEOREM ToggleInvariance == Spec => []ToggleInv
<1>1. Init => ToggleInv
  <2> SUFFICES ASSUME Init PROVE ToggleInv
    OBVIOUS
  <2>1. FlagsOK
    BY Zenon DEF Init, FlagsOK
  <2>2. RangesOK
    BY NoConfigType DEF Init, RangesOK
  <2>3. DirectionRemembered /\ AppliedIsSetUp
    BY DEF Init, DirectionRemembered, AppliedIsSetUp
  <2> QED BY <2>1, <2>2, <2>3, TypeParts DEF ToggleInv
<1>2. ToggleInv /\ [Next]_vars => ToggleInv'
  <2> SUFFICES ASSUME ToggleInv, [Next]_vars PROVE ToggleInv'
    OBVIOUS
  <2>0. FlagsOK /\ RangesOK /\ DirectionRemembered /\ AppliedIsSetUp /\ TypeOK
    BY TypeParts DEF ToggleInv
  <2> USE DEF vars, toggle, prevs, history
  <2>1. ASSUME NEW primary \in BOOLEAN, NEW secondary \in BOOLEAN, NEW modifier \in BOOLEAN,
               EvaluateToggle(primary, secondary, modifier)
        PROVE  ToggleInv'
    BY <2>1, ToggleStep
  <2>2. ASSUME NEW primary \in BOOLEAN, NEW secondary \in BOOLEAN, NEW modifier \in BOOLEAN,
               EvaluateDirect(primary, secondary, modifier)
        PROVE  ToggleInv'
    <3>1. g_virtualRuntime' \in -2 .. 2
      BY <2>2 DEF EvaluateDirect, DirectValue, Sign
    <3>2. FlagsOK'
      BY <2>0, <2>2, Zenon DEF EvaluateDirect, FlagsOK
    <3>3. RangesOK'
      BY <2>0, <2>2, <3>1 DEF EvaluateDirect, RangesOK
    <3>4. DirectionRemembered' /\ AppliedIsSetUp'
      BY <2>0, <2>2 DEF EvaluateDirect, DirectionRemembered, AppliedIsSetUp
    <3> QED BY <3>2, <3>3, <3>4, TypePartsPrimed DEF ToggleInv
  <2>3. CASE EvaluateNone
    <3>1. FlagsOK'
      BY <2>0, <2>3, Zenon DEF EvaluateNone, FlagsOK
    <3>2. RangesOK' /\ DirectionRemembered' /\ AppliedIsSetUp'
      BY <2>0, <2>3 DEF EvaluateNone, RangesOK, DirectionRemembered, AppliedIsSetUp
    <3> QED BY <3>1, <3>2, TypePartsPrimed DEF ToggleInv
  <2>4. ASSUME NEW c \in Configs, VirtualAdd(c) \/ VirtualUpdate(c) PROVE ToggleInv'
    <3>1. FlagsOK'
      BY <2>0, <2>4, Zenon DEF VirtualAdd, VirtualUpdate, FlagsOK
    <3>2. RangesOK' /\ DirectionRemembered' /\ AppliedIsSetUp'
      BY <2>0, <2>4 DEF VirtualAdd, VirtualUpdate, RangesOK, DirectionRemembered, AppliedIsSetUp
    <3> QED BY <3>1, <3>2, TypePartsPrimed DEF ToggleInv
  <2>5. ASSUME NEW c \in Configs, Apply(c) PROVE ToggleInv'
    <3>1. FlagsOK'
      BY <2>0, <2>5, Zenon DEF Apply, FlagsOK
    <3>2. RangesOK' /\ DirectionRemembered' /\ AppliedIsSetUp'
      BY <2>0, <2>5, StartInRange DEF Apply, RangesOK, DirectionRemembered, AppliedIsSetUp
    <3> QED BY <3>1, <3>2, TypePartsPrimed DEF ToggleInv
  <2>6. ASSUME NEW c \in Configs, ApplyFailed(c) PROVE ToggleInv'
    <3>1. FlagsOK'
      BY <2>0, <2>6, Zenon DEF ApplyFailed, FlagsOK
    <3>2. RangesOK' /\ DirectionRemembered' /\ AppliedIsSetUp'
      BY <2>0, <2>6, StartInRange DEF ApplyFailed, RangesOK, DirectionRemembered, AppliedIsSetUp
    <3> QED BY <3>1, <3>2, TypePartsPrimed DEF ToggleInv
  <2>7. CASE VirtualDelete \/ ApplyWithout
    <3>1. FlagsOK'
      BY <2>0, <2>7, Zenon DEF VirtualDelete, ApplyWithout, FlagsOK
    <3>2. RangesOK' /\ DirectionRemembered' /\ AppliedIsSetUp'
      BY <2>0, <2>7, NoConfigType
      DEF VirtualDelete, ApplyWithout, RangesOK, DirectionRemembered, AppliedIsSetUp
    <3> QED BY <3>1, <3>2, TypePartsPrimed DEF ToggleInv
  <2>8. CASE UNCHANGED vars
    <3>1. FlagsOK'
      BY <2>0, <2>8, Zenon DEF FlagsOK
    <3>2. RangesOK' /\ DirectionRemembered' /\ AppliedIsSetUp'
      BY <2>0, <2>8 DEF RangesOK, DirectionRemembered, AppliedIsSetUp
    <3> QED BY <3>1, <3>2, TypePartsPrimed DEF ToggleInv
  <2> QED BY <2>1, <2>2, <2>3, <2>4, <2>5, <2>6, <2>7, <2>8 DEF Next
<1> QED BY <1>1, <1>2, PTL DEF Spec

(* A press that cycles is a step of Cycle.                                 *)
LEMMA PressCycles ==
  ASSUME TypeOK, NEW primary \in BOOLEAN, NEW modifier \in BOOLEAN, Press(primary, modifier)
  PROVE  /\ Cycle
         /\ cfg.inputType = "Toggle3Pos"
         /\ g_virtualRuntime' = PositionValue(g_togglePosition')
  BY DEF Press, EvaluateToggle, Cycled, Step

(* rc_model.cpp: "3-position cycle: -1 -> 0 -> +1 -> 0 -> -1 ...", however *)
(* many ticks, losses and disabled presses lie between two presses.        *)
THEOREM CycleAlwaysGoesOn == Spec => CycleGoesOn
<1>1. ToggleInv /\ [Next]_vars =>
        [\A primary, modifier \in BOOLEAN :
           Press(primary, modifier) /\ g_togglePosition = 1 /\ cameFrom \in {0, 2} =>
               g_togglePosition' = 2 - cameFrom]_vars
  BY PressCycles, CycleMoves DEF ToggleInv, DirectionRemembered
<1> QED BY ToggleInvariance, <1>1, PTL DEF Spec, CycleGoesOn

(* A three-position input from a preset is never stuck                     *)
(* (applyPersistedConfig sets its direction, nothing later clears it).     *)
THEOREM PressAlwaysMoves == Spec => PressMoves
<1>1. ToggleInv /\ [Next]_vars =>
        [\A primary, modifier \in BOOLEAN :
           applied /\ Press(primary, modifier) => g_togglePosition' # g_togglePosition]_vars
  BY PressCycles, CycleMoves DEF ToggleInv, TypeOK, AppliedIsSetUp
<1> QED BY ToggleInvariance, <1>1, PTL DEF Spec, PressMoves

(* The first press of a unipolar three-position input from a preset gives  *)
(* 50 %, as the user guide says.                                           *)
THEOREM FirstPressIsHalf == Spec => AppliedStartsAtZero
<1>1. ToggleInv /\ [Next]_vars =>
        [\A primary, modifier \in BOOLEAN :
           applied /\ presses = 0 /\ ~cfg.bipolar /\ Press(primary, modifier)
               => g_virtualRuntime' = 1]_vars
  BY PressCycles, CycleMoves DEF ToggleInv, TypeOK, AppliedIsSetUp, PositionValue
<1> QED BY ToggleInvariance, <1>1, PTL DEF Spec, AppliedStartsAtZero
=============================================================================
