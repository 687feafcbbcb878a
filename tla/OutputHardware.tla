--------------------------- MODULE OutputHardware ---------------------------
(***************************************************************************)
(* The output channels and the hardware behind them (rc_model.cpp): the    *)
(* web handlers that add, change and delete an output, each followed by a  *)
(* rebuild of all outputs and, if that fails, by a second rebuild of the   *)
(* previous configuration; and applyPersistedConfig with its rollback.     *)
(*                                                                         *)
(* A handler is one call, but its loops over the channels are taken one    *)
(* channel per step, so that what a channel sees of the others while the   *)
(* loop is under way is explicit.  Only the fields that decide about pins  *)
(* are kept: used, type, pin.  A servo is a PWM generator of ESP32Servo,   *)
(* attached to a pin or not.                                               *)
(***************************************************************************)
EXTENDS Integers, FiniteSets

CONSTANTS
    NumOutputs,     \* kMaxOutputChannels
    Pins,           \* GPIO numbers 0 .. 48
    PwmPins,        \* those ESP32PWM::hasPwm accepts on this board
    DefaultPin,     \* the pin of OutputChannelConfig(): 0
    Presets,        \* configurations that may be applied
    Detached        \* a servo that is attached to no pin

Chans == 0 .. NumOutputs - 1

Types == {"pwm", "switch"}

Outputs == [used : BOOLEAN, type : Types, pin : Pins]

ASSUME OutputHardwareAssumption ==
    /\ NumOutputs \in Nat \ {0} /\ Pins \subseteq Nat
    /\ DefaultPin \in Pins /\ PwmPins \subseteq Pins
    /\ Detached \notin Pins
    /\ Presets \subseteq [Chans -> [used : BOOLEAN, type : Types, pin : Pins,
                                    sourceValid : BOOLEAN]]

VARIABLES
    g_outputs, g_pwmAttached,
    servo,          \* the pin each servo is attached to
    drive,          \* what each servo or switch was last told
    phase, chan,    \* the loop a handler is in, and its channel
    undo,           \* backup of the channel a handler has changed
    old,            \* oldOutputs and oldPwm of applyPersistedConfig, and
                    \* as history the outputs of the preset when it failed
    preset,         \* the configuration being applied
    done,           \* how the last handler ended
    ticked,         \* what the control tick did since: drive, failsafe
    before, asked   \* history: g_outputs when the handler started, and what
                    \* the last add, update or delete asked for

hw   == <<g_outputs, g_pwmAttached, servo, drive>>
task == <<phase, chan, undo, old, preset>>
vars == <<hw, task, done, ticked, before, asked>>

(* OutputChannelConfig().                                                  *)
NoOutput == [used |-> FALSE, type |-> "pwm", pin |-> DefaultPin]

NoUndo == [index |-> 0, output |-> NoOutput]
NoOutputs == [i \in Chans |-> NoOutput]
NoOld  == [outputs |-> NoOutputs, pwm |-> {}, failed |-> NoOutputs]
NoPreset == [i \in Chans |-> [used |-> FALSE, type |-> "pwm", pin |-> DefaultPin,
                              sourceValid |-> TRUE]]

Used(outs) == {i \in Chans : outs[i].used}

-----------------------------------------------------------------------------
(* Pins.                                                                   *)

(* outputPinAlreadyUsed, negated.                                          *)
PinFree(outs, pin, i) == \A j \in Used(outs) \ {i} : outs[j].pin # pin

(* Mutant: the pins of the other outputs are not looked at.                *)
CandidatesAnyPin(outs, i) == PwmPins

(* The pins tryAttachOnPin and firstAvailablePwmPin accept for channel i.  *)
Candidates(outs, i) == {pin \in PwmPins : PinFree(outs, pin, i)}

Lowest(S) == CHOOSE p \in S : \A q \in S : p <= q

(* Mutant: the scan for a pin starts at 0 without trying the requested one.*)
SetupPinFromZero(outs, i) ==
    IF outs[i].type = "switch" \/ Candidates(outs, i) = {}
    THEN outs[i].pin
    ELSE Lowest(Candidates(outs, i))

(* The pin setupOutputHardware leaves in the configuration: the requested  *)
(* one if it can be attached, else the lowest that can.                    *)
SetupPin(outs, i) ==
    IF outs[i].type = "switch" \/ outs[i].pin \in Candidates(outs, i)
       \/ Candidates(outs, i) = {}
    THEN outs[i].pin
    ELSE Lowest(Candidates(outs, i))

(* Whether setupOutputHardware succeeds.  Without any candidate it still   *)
(* reports success if g_pwmAttached was left set.                          *)
SetupOk(outs, i) ==
    IF outs[i].type = "pwm"
    THEN Candidates(outs, i) # {} \/ i \in g_pwmAttached
    ELSE PinFree(outs, outs[i].pin, i)

(* Mutant: a servo that was moved to another pin is not flagged.           *)
SetupFlagsRequestedOnly(outs, i) ==
    /\ g_outputs' = [outs EXCEPT ![i].pin = SetupPin(outs, i)]
    /\ drive' = [drive EXCEPT ![i] = "failsafe"]
    /\ IF outs[i].type = "pwm"
       THEN /\ servo' = IF Candidates(outs, i) = {} THEN servo
                        ELSE [servo EXCEPT ![i] = SetupPin(outs, i)]
            /\ g_pwmAttached' = g_pwmAttached \cup (IF SetupPin(outs, i) = outs[i].pin
                                                    THEN {i} ELSE {})
       ELSE UNCHANGED <<servo, g_pwmAttached>>

(* setupOutputHardware(i), successful, on the configuration outs: attach   *)
(* the servo or set the pin low, then writeFailsafeForOutput.              *)
Setup(outs, i) ==
    /\ g_outputs' = [outs EXCEPT ![i].pin = SetupPin(outs, i)]
    /\ drive' = [drive EXCEPT ![i] = "failsafe"]
    /\ IF outs[i].type = "pwm"
       THEN /\ servo' = IF Candidates(outs, i) = {} THEN servo
                        ELSE [servo EXCEPT ![i] = SetupPin(outs, i)]
            /\ g_pwmAttached' = g_pwmAttached \cup {i}
       ELSE UNCHANGED <<servo, g_pwmAttached>>

(* releaseOutputHardware for the channels in S.                            *)
Release(S) ==
    /\ servo' = [i \in Chans |-> IF i \in S \cap g_pwmAttached THEN Detached ELSE servo[i]]
    /\ g_pwmAttached' = g_pwmAttached \ S

-----------------------------------------------------------------------------
Init ==
    /\ g_outputs = NoOutputs /\ g_pwmAttached = {}
    /\ servo = [i \in Chans |-> Detached] /\ drive = [i \in Chans |-> "failsafe"]
    /\ phase = "idle" /\ chan = 0
    /\ undo = NoUndo /\ old = NoOld /\ preset = NoPreset
    /\ done = "none" /\ ticked = "none"
    /\ before = g_outputs /\ asked = NoUndo

(* A handler stores the draft and starts rebuildOutputHardware, which      *)
(* first releases the outputs that are used in the new configuration.      *)
StartRebuild(i, draft) ==
    LET outs == [g_outputs EXCEPT ![i] = draft]
    IN  /\ g_outputs' = outs
        /\ Release(Used(outs))
        /\ undo' = [index |-> i, output |-> g_outputs[i]]
        /\ before' = g_outputs /\ asked' = [index |-> i, output |-> draft]
        /\ phase' = "rebuild" /\ chan' = 0
        /\ done' = "none" /\ ticked' = "none"
        /\ UNCHANGED <<drive, old, preset>>

(* handleApiOutputAdd: the first free channel gets the draft.              *)
OutputAdd(type, pin) ==
    /\ phase = "idle"
    /\ \E i \in Chans \ Used(g_outputs) :
         /\ \A j \in Chans \ Used(g_outputs) : i <= j
         /\ StartRebuild(i, [used |-> TRUE, type |-> type, pin |-> pin])

(* handleApiOutputUpdate.  Without allow_rewire type and pin are kept.     *)
OutputUpdate(i, type, pin, allowRewire) ==
    /\ phase = "idle"
    /\ g_outputs[i].used
    /\ StartRebuild(i, IF allowRewire
                       THEN [used |-> TRUE, type |-> type, pin |-> pin]
                       ELSE g_outputs[i])

(* handleApiOutputDelete.                                                  *)
OutputDelete(i) ==
    /\ phase = "idle"
    /\ g_outputs[i].used
    /\ StartRebuild(i, NoOutput)

(* The second loop of rebuildOutputHardware: channel after channel.        *)
Rebuilding == phase \in {"rebuild", "restore"}

(* Mutant: an unused channel advances the loop twice.                      *)
RebuildSkipTwice ==
    /\ Rebuilding
    /\ chan \in Chans
    /\ ~g_outputs[chan].used
    /\ chan' = chan + 2
    /\ UNCHANGED <<hw, phase, undo, old, preset, done, ticked, before, asked>>

RebuildSkip ==
    /\ Rebuilding
    /\ chan \in Chans
    /\ ~g_outputs[chan].used
    /\ chan' = chan + 1
    /\ UNCHANGED <<hw, phase, undo, old, preset, done, ticked, before, asked>>

RebuildSetup ==
    /\ Rebuilding
    /\ chan \in Chans
    /\ g_outputs[chan].used
    /\ SetupOk(g_outputs, chan)
    /\ Setup(g_outputs, chan)
    /\ chan' = chan + 1
    /\ UNCHANGED <<phase, undo, old, preset, done, ticked, before, asked>>

(* Mutant: the rejected draft stays in the configuration.                  *)
RebuildFailKeepsDraft ==
    /\ phase = "rebuild"
    /\ chan \in Chans
    /\ g_outputs[chan].used
    /\ ~SetupOk(g_outputs, chan)
    /\ Release(Used(g_outputs))
    /\ phase' = "restore" /\ chan' = 0
    /\ UNCHANGED <<g_outputs, drive, undo, old, preset, done, ticked, before, asked>>

(* A channel cannot be set up: the handler puts its backup back and        *)
(* rebuilds; the outcome of that second rebuild is ignored.                *)
RebuildFail ==
    /\ phase = "rebuild"
    /\ chan \in Chans
    /\ g_outputs[chan].used
    /\ ~SetupOk(g_outputs, chan)
    /\ LET outs == [g_outputs EXCEPT ![undo.index] = undo.output]
       IN  g_outputs' = outs /\ Release(Used(outs))
    /\ phase' = "restore" /\ chan' = 0
    /\ UNCHANGED <<drive, undo, old, preset, done, ticked, before, asked>>

RebuildEnd ==
    /\ phase = "rebuild" /\ chan = NumOutputs
    /\ phase' = "idle" /\ chan' = 0 /\ undo' = NoUndo
    /\ done' = "rebuilt"
    /\ UNCHANGED <<hw, old, preset, ticked, before, asked>>

RestoreEnd ==
    /\ phase = "restore"
    /\ \/ chan = NumOutputs
       \/ chan \in Chans /\ g_outputs[chan].used /\ ~SetupOk(g_outputs, chan)
    /\ phase' = "idle" /\ chan' = 0 /\ undo' = NoUndo
    /\ done' = "rejected"
    /\ UNCHANGED <<hw, old, preset, ticked, before, asked>>

-----------------------------------------------------------------------------
(* applyPersistedConfig: remember and clear everything, releasing the      *)
(* outputs in use.                                                         *)
StartApply(cfg) ==
    /\ phase = "idle"
    /\ old' = [outputs |-> g_outputs, pwm |-> g_pwmAttached, failed |-> NoOutputs]
    /\ Release(Used(g_outputs))
    /\ g_outputs' = NoOutputs
    /\ preset' = cfg
    /\ before' = g_outputs
    /\ phase' = "apply" /\ chan' = 0
    /\ done' = "none" /\ ticked' = "none"
    /\ asked' = NoUndo
    /\ UNCHANGED <<drive, undo>>

(* The configuration with channel i of the preset in it, a PWM channel     *)
(* moved at once to the lowest available pin if its pin has no PWM.        *)
LoadedPin(i) ==
    IF preset[i].type = "pwm" /\ preset[i].pin \notin PwmPins
    THEN Lowest(Candidates(g_outputs, i))
    ELSE preset[i].pin

Loaded(i) ==
    [g_outputs EXCEPT ![i] = [used |-> TRUE, type |-> preset[i].type, pin |-> LoadedPin(i)]]

Loadable(i) ==
    /\ preset[i].sourceValid
    /\ preset[i].type = "pwm" /\ preset[i].pin \notin PwmPins =>
         Candidates(g_outputs, i) # {}

ApplySkip ==
    /\ phase = "apply"
    /\ chan \in Chans
    /\ ~preset[chan].used
    /\ chan' = chan + 1
    /\ UNCHANGED <<hw, phase, undo, old, preset, done, ticked, before, asked>>

ApplySetup ==
    /\ phase = "apply"
    /\ chan \in Chans
    /\ preset[chan].used
    /\ Loadable(chan)
    /\ SetupOk(Loaded(chan), chan)
    /\ Setup(Loaded(chan), chan)
    /\ chan' = chan + 1
    /\ UNCHANGED <<phase, undo, old, preset, done, ticked, before, asked>>

(* An invalid source, no pin, or a pin already used: roll back.  The       *)
(* channel is in the configuration only if its source was valid.           *)
ApplyFail ==
    /\ phase = "apply"
    /\ chan \in Chans
    /\ preset[chan].used
    /\ ~(Loadable(chan) /\ SetupOk(Loaded(chan), chan))
    /\ g_outputs' = IF ~preset[chan].sourceValid THEN g_outputs
                    ELSE IF ~Loadable(chan)
                         THEN [g_outputs EXCEPT ![chan] =
                                 [used |-> TRUE, type |-> "pwm", pin |-> preset[chan].pin]]
                         ELSE Loaded(chan)
    /\ old' = [old EXCEPT !.failed = g_outputs']
    /\ phase' = "rollback" /\ chan' = 0
    /\ UNCHANGED <<g_pwmAttached, servo, drive, undo, preset, done, ticked, before, asked>>

(* The outputs applyFailsafeAllOutputs and processGamepadToOutputs reach:  *)
(* the used ones, and a PWM output only if it is attached.                 *)
Reached == {i \in Used(g_outputs) : g_outputs[i].type = "pwm" => i \in g_pwmAttached}

(* All channels are set up: applyFailsafeAllOutputs, which finds them so.  *)
ApplyEnd ==
    /\ phase = "apply" /\ chan = NumOutputs
    /\ drive' = [i \in Chans |-> IF i \in Reached THEN "failsafe" ELSE drive[i]]
    /\ phase' = "idle" /\ chan' = 0 /\ old' = NoOld /\ preset' = NoPreset
    /\ done' = "applied"
    /\ UNCHANGED <<g_outputs, g_pwmAttached, servo, undo, ticked, before, asked>>

(* Mutant: the old output is put back, but not set up again.               *)
RollbackStepNoSetup ==
    /\ phase = "rollback"
    /\ chan \in Chans
    /\ g_outputs' = [g_outputs EXCEPT ![chan] = old.outputs[chan]]
    /\ servo' = IF g_outputs[chan].used /\ chan \in g_pwmAttached
                THEN [servo EXCEPT ![chan] = Detached] ELSE servo
    /\ g_pwmAttached' = g_pwmAttached \ {chan}
    /\ chan' = chan + 1
    /\ UNCHANGED <<drive, phase, undo, old, preset, done, ticked, before, asked>>

(* restoreOld, channel after channel: release what the preset had set up,  *)
(* put the old output back, and set it up if it was an attached servo.     *)
RollbackStep ==
    /\ phase = "rollback"
    /\ chan \in Chans
    /\ LET outs     == [g_outputs EXCEPT ![chan] = old.outputs[chan]]
           released == IF g_outputs[chan].used /\ chan \in g_pwmAttached
                       THEN [servo EXCEPT ![chan] = Detached] ELSE servo
           again    == outs[chan].used /\ chan \in old.pwm
           setUp    == again /\ outs[chan].type = "pwm" /\ Candidates(outs, chan) # {}
       IN  /\ servo' = IF setUp THEN [released EXCEPT ![chan] = SetupPin(outs, chan)]
                       ELSE released
           /\ g_pwmAttached' = IF setUp THEN g_pwmAttached \cup {chan}
                               ELSE g_pwmAttached \ {chan}
           /\ g_outputs' = IF setUp THEN [outs EXCEPT ![chan].pin = SetupPin(outs, chan)]
                           ELSE outs
           /\ drive' = IF \/ setUp
                          \/ again /\ outs[chan].type = "switch"
                                   /\ PinFree(outs, outs[chan].pin, chan)
                       THEN [drive EXCEPT ![chan] = "failsafe"]
                       ELSE drive
    /\ chan' = chan + 1
    /\ UNCHANGED <<phase, undo, old, preset, done, ticked, before, asked>>

RollbackEnd ==
    /\ phase = "rollback" /\ chan = NumOutputs
    /\ phase' = "idle" /\ chan' = 0 /\ old' = NoOld /\ preset' = NoPreset
    /\ done' = "rolledback"
    /\ UNCHANGED <<hw, undo, ticked, before, asked>>

-----------------------------------------------------------------------------
(* The control tick between two requests: processGamepadToOutputs or       *)
(* applyFailsafeAllOutputs.                                                *)
Tick(what) ==
    /\ phase = "idle"
    /\ drive' = [i \in Chans |-> IF i \in Reached THEN what ELSE drive[i]]
    /\ ticked' = what
    /\ UNCHANGED <<g_outputs, g_pwmAttached, servo, task, done, before, asked>>

Next ==
    \/ \E type \in Types, pin \in Pins : OutputAdd(type, pin)
    \/ \E i \in Chans, type \in Types, pin \in Pins, allowRewire \in BOOLEAN :
          OutputUpdate(i, type, pin, allowRewire)
    \/ \E i \in Chans : OutputDelete(i)
    \/ RebuildSkip \/ RebuildSetup \/ RebuildFail \/ RebuildEnd \/ RestoreEnd
    \/ \E cfg \in Presets : StartApply(cfg)
    \/ ApplySkip \/ ApplySetup \/ ApplyFail \/ ApplyEnd
    \/ RollbackStep \/ RollbackEnd
    \/ \E what \in {"live", "failsafe"} : Tick(what)

Spec == Init /\ [][Next]_vars

-----------------------------------------------------------------------------
(* Properties.                                                             *)

Phases == {"idle", "rebuild", "restore", "apply", "rollback"}

TypeOK ==
    /\ g_outputs \in [Chans -> Outputs] /\ g_pwmAttached \subseteq Chans
    /\ servo \in [Chans -> Pins \cup {Detached}]
    /\ drive \in [Chans -> {"live", "failsafe"}] /\ phase \in Phases
    /\ chan \in 0 .. NumOutputs /\ undo \in [index : Chans, output : Outputs]
    /\ old \in [outputs : [Chans -> Outputs], pwm : SUBSET Chans,
               failed : [Chans -> Outputs]]
    /\ preset \in Presets \cup {NoPreset}
    /\ done \in {"none", "rebuilt", "rejected", "applied", "rolledback"}
    /\ ticked \in {"none", "live", "failsafe"} /\ before \in [Chans -> Outputs]
    /\ asked \in [index : Chans, output : Outputs]

PinsDistinct(outs) == \A i, j \in Used(outs) : i # j => outs[i].pin # outs[j].pin

(* A configuration whose outputs can all be set up as they stand.          *)
Consistent(outs) ==
    /\ PinsDistinct(outs)
    /\ \A i \in Used(outs) : outs[i].type = "pwm" => outs[i].pin \in PwmPins

(* An add, update or delete that is answered with success leaves every     *)
(* used output on a pin of its own, and every used PWM output with its     *)
(* servo attached to the very pin the configuration names.                 *)
RebuiltIsSound ==
    done = "rebuilt" =>
        /\ Consistent(g_outputs)
        /\ \A i \in Used(g_outputs) : g_outputs[i].type = "pwm" =>
              i \in g_pwmAttached /\ servo[i] = g_outputs[i].pin

(* An add, update or delete that is answered with an error has changed     *)
(* nothing: the second rebuild brings back the same outputs on the same    *)
(* pins, with their servos.                                                *)
RejectedKeepsConfig ==
    done = "rejected" /\ Consistent(before) =>
        /\ g_outputs = before
        /\ \A i \in Used(g_outputs) : g_outputs[i].type = "pwm" => i \in g_pwmAttached

(* A successful edit of one output moves no other output, except one whose *)
(* pin the edited output asked for.  In particular an update without       *)
(* allow_rewire moves nothing.                                             *)
OnlyClaimedPinsMove ==
    done = "rebuilt" /\ Consistent(before) =>
        \A j \in Chans \ {asked.index} :
            g_outputs[j] = before[j] \/ before[j].pin = asked.output.pin

(* restoreOld has come to its end.                                         *)
RolledBack == phase = "rollback" /\ chan = NumOutputs

(* The servo of PWM output i is back on the pin it had, if it had one.     *)
ServoBack(i) ==
    before[i].used /\ before[i].type = "pwm" /\ i \in old.pwm =>
        i \in g_pwmAttached /\ servo[i] = before[i].pin

(* No later channel of the failed preset holds the pin of a PWM output.    *)
NoPinTaken ==
    \A i, j \in Chans :
        before[i].used /\ before[i].type = "pwm" /\ i < j /\ old.failed[j].used =>
            old.failed[j].pin # before[i].pin

(* SPECIFICATIONS.md 5.3: if no pin can be attached, apply fails and the   *)
(* previous config is restored.  So it is, pins and servos included, if no *)
(* later channel of the preset has taken the pin of a PWM output, though   *)
(* the preset has released, moved and attached outputs before it failed,   *)
(* and the old ones come back one by one among those of the preset.  If    *)
(* one has, it is not: restoreOld sets up the PWM output while the preset  *)
(* still holds its pin, and moves it or leaves it without a servo.         *)
RollbackRestoresUntaken ==
    RolledBack /\ Consistent(before) /\ NoPinTaken =>
        g_outputs = before /\ \A i \in Chans : ServoBack(i)

(* No used output is beyond the reach of the control tick, whatever edits  *)
(* and presets came before, as long as the last one was answered with      *)
(* success: all follow the gamepad, and all go to failsafe on signal loss. *)
TickReachesUsed ==
    done \in {"rebuilt", "applied"} /\ ticked # "none" =>
        \A i \in Used(g_outputs) : drive[i] = ticked

(* Why these hold, in every state: the parts of the inductive invariant.   *)

(* A handler under way has not been answered yet, no tick came between.    *)
AnswerPending == phase # "idle" => done = "none" /\ ticked = "none"

(* Channel i is set up: no other used channel has its pin, and a servo is  *)
(* attached to it.                                                         *)
IsSetUp(i) ==
    /\ PinFree(g_outputs, g_outputs[i].pin, i)
    /\ g_outputs[i].type = "pwm" =>
          /\ g_outputs[i].pin \in PwmPins
          /\ i \in g_pwmAttached /\ servo[i] = g_outputs[i].pin

(* A rebuild has set up the used channels it has passed, and has released  *)
(* the others.                                                             *)
RebuildProgress ==
    Rebuilding =>
        \A i \in Used(g_outputs) :
            IF i < chan THEN IsSetUp(i) ELSE i \notin g_pwmAttached

(* What the edit under way may have moved.  At most one channel besides    *)
(* the edited one has left its pin, because the edited one, still ahead of *)
(* the loop, asks for it; from then on nothing can fail.                   *)
EditTracked ==
    phase = "rebuild" =>
        /\ asked.index = undo.index /\ undo.output = before[undo.index]
        /\ Consistent(before) =>
             /\ chan <= undo.index => g_outputs[undo.index] = asked.output
             /\ \/ \A j \in Chans \ {undo.index} : g_outputs[j] = before[j]
                \/ Consistent(g_outputs)
             /\ \A j \in Chans \ {undo.index} :
                  g_outputs[j] = before[j] \/ before[j].pin = asked.output.pin

(* The second rebuild works on the configuration the handler found.        *)
RestoreKeeps == phase = "restore" /\ Consistent(before) => g_outputs = before

(* A preset under way remembers what it found; the channels it has loaded  *)
(* are the ones it has passed, and their servos are flagged.               *)
ApplyProgress ==
    /\ phase \in {"apply", "rollback"} => old.outputs = before
    /\ phase = "apply" =>
          \A i \in Used(g_outputs) :
              i < chan /\ (g_outputs[i].type = "pwm" => i \in g_pwmAttached)

(* A rollback whose pins were not taken has given back the channels it has *)
(* passed, and the others are still those of the preset.                   *)
RollbackProgress ==
    phase = "rollback" /\ Consistent(before) /\ NoPinTaken =>
        \A i \in Chans : IF i < chan THEN g_outputs[i] = before[i] /\ ServoBack(i)
                         ELSE g_outputs[i] = old.failed[i]

(* After a success every used output is within reach of the tick.          *)
SuccessReaches == done \in {"rebuilt", "applied"} => Used(g_outputs) \subseteq Reached

(* The inductive invariant behind the guarantees above: what every loop of *)
(* every handler has established for the channels behind it.               *)
HandlerInv ==
    /\ TypeOK
    /\ AnswerPending /\ RebuildProgress /\ EditTracked /\ RestoreKeeps
    /\ ApplyProgress /\ RollbackProgress /\ SuccessReaches
    /\ RebuiltIsSound /\ RejectedKeepsConfig /\ OnlyClaimedPinsMove
    /\ TickReachesUsed

(* SPECIFICATIONS.md 5.4: on signal loss PWM outputs go to their failsafe. *)
(* No servo keeps the pulse the gamepad gave it.                           *)
FailsafeReachesServos ==
    ticked = "failsafe" => \A i \in Chans : servo[i] # Detached => drive[i] = "failsafe"
=============================================================================
