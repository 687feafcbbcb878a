----------------------------- MODULE ToggleInput -----------------------------
(***************************************************************************)
(* One virtual input (rc_model.cpp): its configuration, which the web      *)
(* handlers and presets replace, and the toggle state that outlives it.    *)
(*                                                                         *)
(* The sources are buttons, pressed or not, so that a direct input takes   *)
(* the values -1, 0 and 1, which deadzone and expo leave alone.  Values    *)
(* are in units of 50 %.  Rumble, which no value depends on, is left out.  *)
(***************************************************************************)
EXTENDS Integers

CONSTANT Configs        \* configurations a request or a preset may carry

Types     == {"Direct", "Toggle2Pos", "Toggle3Pos"}
Modifiers == {"NoButton", "None", "Reverse", "Center", "Activate", "Desactivate"}

(* The modifier function counts only if a modifier button is configured:   *)
(* "NoButton" is any function without one.                                 *)
Config == [used : BOOLEAN, inputType : Types, bipolar : BOOLEAN,
           secondary : BOOLEAN, modifier : Modifiers]

ASSUME ToggleInputAssumption == Configs \subseteq {c \in Config : c.used}

(* VirtualInputConfig().                                                   *)
NoConfig == [used |-> FALSE, inputType |-> "Direct", bipolar |-> TRUE,
             secondary |-> FALSE, modifier |-> "NoButton"]

VARIABLES
    cfg,                    \* g_virtualInputs[i]
    g_togglePosition, g_toggle3Direction,
    primaryPrev, secondaryPrev, modifierPrev,   \* g_toggle...PressedPrev[i]
    g_virtualRuntime,
    presses,        \* history: moves since the input was added or applied
    cameFrom,       \* history: where the cycle was before, or -1
    applied         \* history: the configuration comes from a preset, unedited

prevs   == <<primaryPrev, secondaryPrev, modifierPrev>>
toggle  == <<g_togglePosition, g_toggle3Direction, prevs>>
history == <<presses, cameFrom, applied>>
vars    == <<cfg, toggle, g_virtualRuntime, history>>

(* Static initialisation: only element 0 of g_toggle3Direction is 1.       *)
Init ==
    /\ cfg = NoConfig /\ g_togglePosition = 0
    /\ g_toggle3Direction \in {0, 1}
    /\ primaryPrev = FALSE /\ secondaryPrev = FALSE /\ modifierPrev = FALSE
    /\ g_virtualRuntime = 0 /\ presses = 0 /\ cameFrom = -1 /\ applied = FALSE

-----------------------------------------------------------------------------
(* isInputEnabledByModifier.                                               *)
Enabled(modifier) ==
    /\ cfg.modifier = "Activate" => modifier
    /\ cfg.modifier = "Desactivate" => ~modifier

Sign(b) == IF b THEN 1 ELSE 0

(* evaluateVirtualInput, for buttons.                                      *)
DirectValue(primary, secondary, modifier) ==
    LET v == 2 * (Sign(primary) - Sign(cfg.secondary /\ secondary))
    IN  IF ~cfg.used \/ ~Enabled(modifier) THEN 0
        ELSE IF cfg.modifier = "Reverse" /\ modifier THEN -v ELSE v

Clamp(x, lo, hi) == IF x < lo THEN lo ELSE IF x > hi THEN hi ELSE x

(* What a position means on the configured range.                          *)
PositionValue(pos) ==
    IF cfg.inputType = "Toggle2Pos"
    THEN IF pos # 0 THEN 2 ELSE IF cfg.bipolar THEN -2 ELSE 0
    ELSE IF cfg.bipolar THEN 2 * (pos - 1) ELSE pos

(* Mutant: the direction is not turned at the top.                         *)
CycleOneWay ==
    /\ g_toggle3Direction' = IF g_togglePosition <= 0 THEN 1 ELSE g_toggle3Direction
    /\ g_togglePosition' =
         IF g_togglePosition >= 2 THEN 1
         ELSE Clamp(g_togglePosition + g_toggle3Direction', 0, 2)

(* Mutant: the direction turns one step too late.                          *)
CycleTurnsLate ==
    /\ g_toggle3Direction' = IF g_togglePosition < 0 THEN 1
                             ELSE IF g_togglePosition > 2 THEN -1
                             ELSE g_toggle3Direction
    /\ g_togglePosition' = g_togglePosition + g_toggle3Direction'

(* A press in single-button mode with three positions: up and down again.  *)
Cycle ==
    /\ g_toggle3Direction' = IF g_togglePosition <= 0 THEN 1
                             ELSE IF g_togglePosition >= 2 THEN -1
                             ELSE g_toggle3Direction
    /\ g_togglePosition' = Clamp(g_togglePosition + g_toggle3Direction', 0, 2)

(* The presses evaluateToggleVirtualInput sees: a button that is down and  *)
(* was not at the previous evaluation.                                     *)
Cycled(primary, modifier) ==
    /\ cfg.inputType = "Toggle3Pos" /\ ~cfg.secondary
    /\ Enabled(modifier)
    /\ ~(cfg.modifier = "Center" /\ modifier /\ ~modifierPrev)
    /\ primary /\ ~primaryPrev

(* The position after evaluateToggleVirtualInput.                          *)
Step(primary, secondary, modifier) ==
    LET primaryRise   == primary /\ ~primaryPrev
        secondaryRise == cfg.secondary /\ secondary /\ ~secondaryPrev
        three         == cfg.inputType = "Toggle3Pos"
    IN  IF ~Enabled(modifier) THEN UNCHANGED <<g_togglePosition, g_toggle3Direction>>
        ELSE IF three /\ cfg.modifier = "Center" /\ modifier /\ ~modifierPrev
        THEN g_togglePosition' = 1 /\ g_toggle3Direction' = 1
        ELSE IF ~three
        THEN /\ g_togglePosition' = IF ~primaryRise THEN g_togglePosition
                                    ELSE IF g_togglePosition = 0 THEN 1 ELSE 0
             /\ UNCHANGED g_toggle3Direction
        ELSE IF cfg.secondary
        THEN /\ g_togglePosition' = IF primaryRise /\ ~secondaryRise THEN 2
                                    ELSE IF secondaryRise /\ ~primaryRise THEN 0
                                    ELSE g_togglePosition
             /\ UNCHANGED g_toggle3Direction
        ELSE IF primaryRise THEN Cycle
        ELSE UNCHANGED <<g_togglePosition, g_toggle3Direction>>

(* evaluateVirtualRuntime of a toggle input, with a gamepad.               *)
EvaluateToggle(primary, secondary, modifier) ==
    /\ cfg.inputType # "Direct"
    /\ Step(primary, secondary, modifier)
    /\ primaryPrev' = primary
    /\ secondaryPrev' = (cfg.secondary /\ secondary)
    /\ modifierPrev' = (cfg.modifier # "NoButton" /\ modifier)
    /\ g_virtualRuntime' = IF Enabled(modifier) THEN PositionValue(g_togglePosition') ELSE 0
    /\ presses' = IF g_togglePosition' # g_togglePosition /\ presses < 2
                  THEN presses + 1 ELSE presses
    /\ cameFrom' = IF Cycled(primary, modifier) THEN g_togglePosition
                   ELSE IF g_togglePosition' # g_togglePosition
                           \/ g_toggle3Direction' # g_toggle3Direction THEN -1
                   ELSE cameFrom
    /\ UNCHANGED <<cfg, applied>>

(* evaluateVirtualRuntime of a direct or unused input, with a gamepad.     *)
EvaluateDirect(primary, secondary, modifier) ==
    /\ cfg.inputType = "Direct"
    /\ g_virtualRuntime' = DirectValue(primary, secondary, modifier)
    /\ primaryPrev' = FALSE /\ secondaryPrev' = FALSE /\ modifierPrev' = FALSE
    /\ g_toggle3Direction' = 1
    /\ cameFrom' = -1
    /\ UNCHANGED <<cfg, g_togglePosition, presses, applied>>

(* evaluateVirtualRuntime(nullptr): the gamepad is gone.                   *)
EvaluateNone ==
    /\ primaryPrev' = FALSE /\ secondaryPrev' = FALSE /\ modifierPrev' = FALSE
    /\ g_virtualRuntime' = 0
    /\ UNCHANGED <<cfg, g_togglePosition, g_toggle3Direction, history>>

-----------------------------------------------------------------------------
(* handleApiVirtualAdd, handleApiVirtualUpdate and handleApiVirtualDelete  *)
(* replace the configuration and leave the toggle state alone.  (What a    *)
(* deletion does to the outputs that mix the input is not in this module.) *)
VirtualAdd(draft) ==
    /\ ~cfg.used
    /\ cfg' = draft
    /\ presses' = 0 /\ cameFrom' = -1 /\ applied' = FALSE
    /\ UNCHANGED <<toggle, g_virtualRuntime>>

VirtualUpdate(draft) ==
    /\ cfg.used
    /\ cfg' = draft
    /\ presses' = 2 /\ cameFrom' = -1 /\ applied' = FALSE
    /\ UNCHANGED <<toggle, g_virtualRuntime>>

VirtualDelete ==
    /\ cfg.used
    /\ cfg' = NoConfig
    /\ presses' = 2 /\ cameFrom' = -1 /\ applied' = FALSE
    /\ UNCHANGED <<toggle, g_virtualRuntime>>

(* Mutant: three positions always start in the middle.                     *)
StartPositionMiddle(c) == IF c.inputType = "Toggle3Pos" THEN 1 ELSE 0

(* Where applyPersistedConfig starts a toggle.                             *)
StartPosition(c) == IF c.inputType = "Toggle3Pos" /\ c.bipolar THEN 1 ELSE 0

(* Mutant: the direction is left as it was.                                *)
StartDirectionKept(c) == g_toggle3Direction

(* ... and in which direction; two positions leave the direction alone.    *)
StartDirection(c) == IF c.inputType = "Toggle2Pos" THEN g_toggle3Direction ELSE 1

(* applyPersistedConfig: a preset with this input, or without it, in which *)
(* case only the configuration is cleared.                                 *)
Apply(c) ==
    /\ cfg' = c
    /\ g_togglePosition' = StartPosition(c)
    /\ g_toggle3Direction' = StartDirection(c)
    /\ primaryPrev' = FALSE /\ secondaryPrev' = FALSE /\ modifierPrev' = FALSE
    /\ presses' = 0 /\ cameFrom' = -1 /\ applied' = TRUE
    /\ UNCHANGED g_virtualRuntime

ApplyWithout ==
    /\ cfg' = NoConfig
    /\ presses' = 2 /\ cameFrom' = -1 /\ applied' = FALSE
    /\ UNCHANGED <<toggle, g_virtualRuntime>>

(* applyPersistedConfig that fails at an output: restoreOld brings back    *)
(* the configuration, but not the toggle state.                            *)
ApplyFailed(c) ==
    /\ g_togglePosition' = StartPosition(c)
    /\ g_toggle3Direction' = StartDirection(c)
    /\ primaryPrev' = FALSE /\ secondaryPrev' = FALSE /\ modifierPrev' = FALSE
    /\ presses' = 2 /\ cameFrom' = -1
    /\ UNCHANGED <<cfg, g_virtualRuntime, applied>>

Next ==
    \/ \E primary, secondary, modifier \in BOOLEAN :
          \/ EvaluateToggle(primary, secondary, modifier)
          \/ EvaluateDirect(primary, secondary, modifier)
    \/ EvaluateNone
    \/ \E c \in Configs : VirtualAdd(c) \/ VirtualUpdate(c) \/ Apply(c) \/ ApplyFailed(c)
    \/ VirtualDelete \/ ApplyWithout

Spec == Init /\ [][Next]_vars

-----------------------------------------------------------------------------
(* Properties.                                                             *)

TypeOK ==
    /\ cfg \in Config /\ g_togglePosition \in 0 .. 2
    /\ g_toggle3Direction \in -1 .. 1
    /\ primaryPrev \in BOOLEAN /\ secondaryPrev \in BOOLEAN /\ modifierPrev \in BOOLEAN
    /\ g_virtualRuntime \in -2 .. 2 /\ presses \in 0 .. 2
    /\ cameFrom \in -1 .. 2 /\ applied \in BOOLEAN

(* Why the cycle goes on: what the last press came from decides the        *)
(* direction, in the middle as well as at the ends.                        *)
DirectionRemembered ==
    /\ cameFrom = 0 => g_toggle3Direction = 1
    /\ cameFrom = 2 => g_toggle3Direction = -1

(* An input that a preset brought has a direction and, until it moves, the *)
(* position it was given.                                                  *)
AppliedIsSetUp ==
    applied /\ cfg.inputType = "Toggle3Pos" =>
        /\ g_toggle3Direction # 0
        /\ presses = 0 /\ ~cfg.bipolar => g_togglePosition = 0

(* The inductive invariant: positions and directions stay in range, and    *)
(* the three button memories, edits and losses of the gamepad never        *)
(* separate a direction from the press that set it.                        *)
ToggleInv == TypeOK /\ DirectionRemembered /\ AppliedIsSetUp

(* A press of the one button of a three-position input.                    *)
Press(primary, modifier) ==
    /\ Cycled(primary, modifier)
    /\ \E secondary \in BOOLEAN : EvaluateToggle(primary, secondary, modifier)

(* rc_model.cpp: "3-position cycle: -1 -> 0 -> +1 -> 0 -> -1 ...".  From   *)
(* the middle a press goes on to the end the last press did not come from, *)
(* whatever was released, lost or disabled in between.                     *)
CycleGoesOn ==
    [][\A primary, modifier \in BOOLEAN :
          Press(primary, modifier) /\ g_togglePosition = 1 /\ cameFrom \in {0, 2} =>
              g_togglePosition' = 2 - cameFrom]_vars

(* A three-position input that a preset brought moves at every press: it   *)
(* cannot get stuck in a position.                                         *)
PressMoves ==
    [][\A primary, modifier \in BOOLEAN :
          applied /\ Press(primary, modifier) => g_togglePosition' # g_togglePosition]_vars

(* USER_GUIDE.md: "In Unipolar 3-position mode, startup state is `0`, so   *)
(* first press goes to `50`", for an input that a preset brought.          *)
AppliedStartsAtZero ==
    [][\A primary, modifier \in BOOLEAN :
          applied /\ presses = 0 /\ ~cfg.bipolar /\ Press(primary, modifier)
              => g_virtualRuntime' = 1]_vars
=============================================================================
