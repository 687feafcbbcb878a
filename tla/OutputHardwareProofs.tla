------------------------ MODULE OutputHardwareProofs ------------------------
(* Proofs about OutputHardware, for every number of channels, every set of *)
(* pins and PWM pins, and every set of presets.                            *)
EXTENDS OutputHardware, WellFoundedInduction, TLAPS

USE OutputHardwareAssumption

(* The lowest pin of a set of pins is one of them.                         *)
LEMMA LowestMember ==
  ASSUME NEW S \in SUBSET Pins, S # {}
  PROVE  Lowest(S) \in S
<1> DEFINE Less == OpToRel(<, Nat)
<1>1. \A p, q \in Nat : <<q, p>> \in Less <=> q < p
  BY DEF OpToRel
<1>2. IsWellFoundedOn(Less, Nat)
  BY NatLessThanWellFounded
<1> HIDE DEF Less
<1>3. PICK p \in S : \A q \in S : ~ (<<q, p>> \in Less)
  BY <1>2, WFMin, S \subseteq Nat
<1>4. \A q \in S : ~ (q < p)
  BY <1>1, <1>3, Zenon
<1>5. \A q \in S : p <= q
  BY <1>4
<1> QED BY <1>5 DEF Lowest

(* The pin a channel ends up on: one that is free and can do PWM whenever  *)
(* there is one, the pin asked for if it is such a pin.                    *)
LEMMA SetupPinChoice ==
  ASSUME NEW outs \in [Chans -> Outputs], NEW i \in Chans
  PROVE  /\ SetupPin(outs, i) \in Pins
         /\ outs[i].type = "switch" => SetupPin(outs, i) = outs[i].pin
         /\ outs[i].pin \in Candidates(outs, i) => SetupPin(outs, i) = outs[i].pin
         /\ outs[i].type = "pwm" /\ Candidates(outs, i) # {} =>
               SetupPin(outs, i) \in Candidates(outs, i)
<1>1. Candidates(outs, i) \in SUBSET Pins
  BY DEF Candidates
<1>2. Candidates(outs, i) # {} => Lowest(Candidates(outs, i)) \in Candidates(outs, i)
  BY <1>1, LowestMember
<1> QED BY <1>1, <1>2 DEF SetupPin, Outputs, Types

(* Changing the pin of one channel, and nothing else.                      *)
LEMMA PinMoved ==
  ASSUME NEW outs \in [Chans -> Outputs], NEW i \in Chans, NEW pin \in Pins,
         NEW new, new = [outs EXCEPT ![i].pin = pin]
  PROVE  /\ new \in [Chans -> Outputs]
         /\ \A j \in Chans \ {i} : new[j] = outs[j]
         /\ new[i] = [outs[i] EXCEPT !.pin = pin]
         /\ new[i].pin = pin /\ new[i].type = outs[i].type
         /\ new[i].used <=> outs[i].used
<1>1. [outs[i] EXCEPT !.pin = pin] \in Outputs
  BY DEF Outputs
<1>2. /\ new \in [Chans -> Outputs]
      /\ \A j \in Chans \ {i} : new[j] = outs[j]
      /\ new[i] = [outs[i] EXCEPT !.pin = pin]
  BY <1>1
<1>3. new[i].pin = pin /\ new[i].type = outs[i].type /\ (new[i].used <=> outs[i].used)
  BY <1>2 DEF Outputs
<1> QED BY <1>2, <1>3

(* What a successful setupOutputHardware(i) does.  A channel that was not  *)
(* flagged before is really set up: on a pin of its own, its servo there.  *)
LEMMA SetupEffect ==
  ASSUME TypeOK, NEW outs \in [Chans -> Outputs], NEW i \in Chans, outs[i].used,
         SetupOk(outs, i), Setup(outs, i)
  PROVE  /\ g_outputs' \in [Chans -> Outputs] /\ g_pwmAttached' \subseteq Chans
         /\ servo' \in [Chans -> Pins \cup {Detached}]
         /\ drive' \in [Chans -> {"live", "failsafe"}]
         /\ g_outputs'[i].type = outs[i].type /\ g_outputs'[i].used
         /\ Used(g_outputs') = Used(outs)
         /\ \A j \in Chans \ {i} : /\ g_outputs'[j] = outs[j] /\ servo'[j] = servo[j]
                                   /\ j \in g_pwmAttached' <=> j \in g_pwmAttached
         /\ outs[i].type = "pwm" => i \in g_pwmAttached'
         /\ outs[i].pin \in Candidates(outs, i) \/ outs[i].type = "switch" => g_outputs' = outs
         /\ i \notin g_pwmAttached => IsSetUp(i)'
<1>1. SetupPin(outs, i) \in Pins
  BY SetupPinChoice
<1>2. g_outputs' = [outs EXCEPT ![i].pin = SetupPin(outs, i)]
  BY DEF Setup
<1>3. /\ g_outputs' \in [Chans -> Outputs]
      /\ \A j \in Chans \ {i} : g_outputs'[j] = outs[j]
      /\ g_outputs'[i].type = outs[i].type /\ g_outputs'[i].used
      /\ g_outputs'[i].pin = SetupPin(outs, i)
      /\ Used(g_outputs') = Used(outs)
  <2>1. /\ g_outputs' \in [Chans -> Outputs]
        /\ \A j \in Chans \ {i} : g_outputs'[j] = outs[j]
        /\ g_outputs'[i].type = outs[i].type
        /\ g_outputs'[i].pin = SetupPin(outs, i)
    BY <1>1, <1>2, PinMoved
  <2>2. g_outputs'[i].used <=> outs[i].used
    BY <1>1, <1>2, PinMoved
  <2>3. Used(g_outputs') = Used(outs)
    BY <2>1, <2>2 DEF Used
  <2> QED BY <2>1, <2>2, <2>3
<1>4. /\ drive' \in [Chans -> {"live", "failsafe"}]
      /\ g_pwmAttached' \subseteq Chans
      /\ outs[i].type = "pwm" => i \in g_pwmAttached'
      /\ \A j \in Chans \ {i} : j \in g_pwmAttached' <=> j \in g_pwmAttached
  BY DEF Setup, TypeOK, Outputs, Types
<1>5. /\ servo' \in [Chans -> Pins \cup {Detached}]
      /\ \A j \in Chans \ {i} : servo'[j] = servo[j]
      /\ outs[i].type = "pwm" /\ Candidates(outs, i) # {} => servo'[i] = SetupPin(outs, i)
  <2>1. servo \in [Chans -> Pins \cup {Detached}] /\ outs[i].type \in {"pwm", "switch"}
    BY DEF TypeOK, Outputs, Types
  <2>2. servo' = IF outs[i].type = "pwm" /\ Candidates(outs, i) # {}
                 THEN [servo EXCEPT ![i] = SetupPin(outs, i)] ELSE servo
    BY DEF Setup
  <2> QED BY <1>1, <2>1, <2>2
<1>6. outs[i].pin \in Candidates(outs, i) \/ outs[i].type = "switch" => g_outputs' = outs
  <2>1. SUFFICES ASSUME SetupPin(outs, i) = outs[i].pin PROVE g_outputs' = outs
    BY SetupPinChoice
  <2>2. [outs[i] EXCEPT !.pin = outs[i].pin] = outs[i]
    BY DEF Outputs
  <2> QED BY <1>2, <2>1, <2>2
<1>7. ASSUME i \notin g_pwmAttached PROVE IsSetUp(i)'
  <2>1. PinFree(outs, SetupPin(outs, i), i)
    BY <1>7, SetupPinChoice DEF SetupOk, Candidates, Outputs, Types
  <2>2. PinFree(g_outputs, g_outputs[i].pin, i)'
    BY <1>3, <2>1 DEF PinFree, Used
  <2>3. ASSUME outs[i].type = "pwm"
        PROVE  SetupPin(outs, i) \in PwmPins /\ servo'[i] = SetupPin(outs, i)
    BY <1>5, <1>7, <2>3, SetupPinChoice DEF SetupOk, Candidates
  <2> QED BY <1>3, <1>4, <2>2, <2>3 DEF IsSetUp
<1> QED BY <1>3, <1>4, <1>5, <1>6, <1>7

(* releaseOutputHardware clears the flags of its channels.                 *)
LEMMA ReleaseEffect ==
  ASSUME TypeOK, NEW S, Release(S)
  PROVE  /\ servo' \in [Chans -> Pins \cup {Detached}]
         /\ g_pwmAttached' \subseteq Chans
         /\ \A i \in S : i \notin g_pwmAttached'
  BY DEF Release, TypeOK

(* Where nothing conflicts every channel can be set up where it stands.    *)
LEMMA ConsistentSetup ==
  ASSUME TypeOK, NEW outs \in [Chans -> Outputs], Consistent(outs),
         NEW i \in Chans, outs[i].used
  PROVE  /\ outs[i].pin \in Candidates(outs, i) \/ outs[i].type = "switch"
         /\ SetupOk(outs, i)
<1>1. PinFree(outs, outs[i].pin, i)
  BY DEF Consistent, PinsDistinct, PinFree, Used
<1>2. outs[i].type = "pwm" => outs[i].pin \in Candidates(outs, i)
  BY <1>1 DEF Consistent, Candidates, Used, Outputs
<1> QED BY <1>1, <1>2 DEF SetupOk, Outputs, Types

(* The three web handlers start a rebuild in the same way.                 *)
Edit == phase = "idle" /\ \E i \in Chans, draft \in Outputs : StartRebuild(i, draft)

(* The configuration of an unused channel.                                 *)
LEMMA NoOutputType == NoOutput \in Outputs /\ ~NoOutput.used
  BY DEF NoOutput, Outputs, Types

(* What applyPersistedConfig remembers while a preset is applied.          *)
OldConfigs == [outputs : [Chans -> Outputs], pwm : SUBSET Chans, failed : [Chans -> Outputs]]

LEMMA NoOldType == NoOutputs \in [Chans -> Outputs] /\ NoOld \in OldConfigs
  BY NoOutputType DEF NoOutputs, NoOld, OldConfigs

(* The steps of the system.                                                *)
LEMMA Steps ==
  ASSUME TypeOK, [Next]_vars
  PROVE  \/ Edit
         \/ RebuildSkip \/ RebuildSetup \/ RebuildFail \/ RebuildEnd \/ RestoreEnd
         \/ \E cfg \in Presets : StartApply(cfg)
         \/ ApplySkip \/ ApplySetup \/ ApplyFail \/ ApplyEnd
         \/ RollbackStep \/ RollbackEnd
         \/ \E what \in {"live", "failsafe"} : Tick(what)
         \/ UNCHANGED vars
<1>1. ASSUME NEW type \in Types, NEW pin \in Pins
      PROVE  [used |-> TRUE, type |-> type, pin |-> pin] \in Outputs
  BY DEF Outputs
<1>2. ASSUME NEW type \in Types, NEW pin \in Pins, OutputAdd(type, pin) PROVE Edit
  BY <1>1, <1>2, Zenon DEF OutputAdd, Edit
<1>3. ASSUME NEW i \in Chans, NEW type \in Types, NEW pin \in Pins,
             NEW allowRewire \in BOOLEAN, OutputUpdate(i, type, pin, allowRewire)
      PROVE  Edit
  <2>1. g_outputs[i] \in Outputs
    BY DEF TypeOK
  <2> QED BY <1>1, <1>3, <2>1, Zenon DEF OutputUpdate, Edit
<1>4. ASSUME NEW i \in Chans, OutputDelete(i) PROVE Edit
  BY <1>4, NoOutputType, Zenon DEF OutputDelete, Edit
<1> QED BY <1>2, <1>3, <1>4 DEF Next

(* Loading channel i of a preset yields a configuration.                   *)
LEMMA LoadedType ==
  ASSUME TypeOK, NEW i \in Chans
  PROVE  /\ preset[i].type \in Types /\ preset[i].pin \in Pins
         /\ Loadable(i) => Loaded(i) \in [Chans -> Outputs]
         /\ \A j \in Chans \ {i} : Loaded(i)[j] = g_outputs[j]
         /\ Loaded(i)[i].used
<1>1. preset[i].type \in Types /\ preset[i].pin \in Pins
  BY DEF TypeOK, NoPreset, Types
<1>2. Loadable(i) => LoadedPin(i) \in Pins
  <2>1. Candidates(g_outputs, i) \in SUBSET Pins
    BY DEF Candidates
  <2>2. Candidates(g_outputs, i) # {} => Lowest(Candidates(g_outputs, i)) \in Pins
    BY <2>1, LowestMember
  <2> QED BY <1>1, <2>2 DEF Loadable, LoadedPin
<1>3. Loadable(i) => [used |-> TRUE, type |-> preset[i].type, pin |-> LoadedPin(i)] \in Outputs
  BY <1>1, <1>2 DEF Outputs
<1> QED BY <1>1, <1>3 DEF Loaded, TypeOK

(* Every action preserves the type invariant.                              *)
LEMMA TypeStep ==
  ASSUME TypeOK, [Next]_vars
  PROVE  TypeOK'
<1> USE DEF hw, task, vars, Phases
<1>1. CASE Edit
  <2>1. PICK i \in Chans, draft \in Outputs : StartRebuild(i, draft)
    BY <1>1 DEF Edit
  <2>2. Release(Used([g_outputs EXCEPT ![i] = draft]))
    BY <2>1 DEF StartRebuild
  <2>3. servo' \in [Chans -> Pins \cup {Detached}] /\ g_pwmAttached' \subseteq Chans
    BY <2>2, ReleaseEffect
  <2>4. /\ g_outputs' \in [Chans -> Outputs] /\ before' \in [Chans -> Outputs]
        /\ undo' \in [index : Chans, output : Outputs]
        /\ asked' \in [index : Chans, output : Outputs]
    BY <2>1 DEF StartRebuild, TypeOK
  <2> QED BY <2>1, <2>3, <2>4 DEF StartRebuild, TypeOK
<1>2. CASE RebuildSkip \/ ApplySkip
  <2>1. chan' \in 0 .. NumOutputs
    BY <1>2 DEF RebuildSkip, ApplySkip, Chans
  <2> QED BY <1>2, <2>1 DEF RebuildSkip, ApplySkip, TypeOK
<1>3. CASE RebuildSetup
  <2>1. /\ g_outputs' \in [Chans -> Outputs] /\ g_pwmAttached' \subseteq Chans
        /\ servo' \in [Chans -> Pins \cup {Detached}]
        /\ drive' \in [Chans -> {"live", "failsafe"}]
    BY <1>3, SetupEffect DEF RebuildSetup, TypeOK
  <2>2. chan' \in 0 .. NumOutputs
    BY <1>3 DEF RebuildSetup, Chans
  <2> QED BY <1>3, <2>1, <2>2 DEF RebuildSetup, TypeOK
<1>4. CASE RebuildFail
  <2>1. [g_outputs EXCEPT ![undo.index] = undo.output] \in [Chans -> Outputs]
    BY DEF TypeOK
  <2>2. servo' \in [Chans -> Pins \cup {Detached}] /\ g_pwmAttached' \subseteq Chans
    BY <1>4, ReleaseEffect DEF RebuildFail
  <2> QED BY <1>4, <2>1, <2>2 DEF RebuildFail, TypeOK
<1>5. CASE RebuildEnd \/ RestoreEnd
  <2>1. NoUndo \in [index : Chans, output : Outputs]
    BY NoOutputType DEF NoUndo, Chans
  <2> QED BY <1>5, <2>1 DEF RebuildEnd, RestoreEnd, TypeOK
<1>6. ASSUME NEW cfg \in Presets, StartApply(cfg) PROVE TypeOK'
  <2>1. servo' \in [Chans -> Pins \cup {Detached}] /\ g_pwmAttached' \subseteq Chans
    BY <1>6, ReleaseEffect DEF StartApply
  <2>2. /\ g_outputs' \in [Chans -> Outputs] /\ before' \in [Chans -> Outputs]
        /\ asked' \in [index : Chans, output : Outputs]
        /\ old' \in OldConfigs
    BY <1>6, NoOutputType, NoOldType DEF StartApply, TypeOK, NoUndo, Chans, OldConfigs
  <2> QED BY <1>6, <2>1, <2>2 DEF StartApply, TypeOK, OldConfigs
<1>7. CASE ApplySetup
  <2>1. chan \in Chans /\ Loaded(chan) \in [Chans -> Outputs] /\ Loaded(chan)[chan].used
    BY <1>7, LoadedType DEF ApplySetup
  <2>2. /\ g_outputs' \in [Chans -> Outputs] /\ g_pwmAttached' \subseteq Chans
        /\ servo' \in [Chans -> Pins \cup {Detached}]
        /\ drive' \in [Chans -> {"live", "failsafe"}]
    BY <1>7, <2>1, SetupEffect DEF ApplySetup
  <2>3. chan' \in 0 .. NumOutputs
    BY <1>7 DEF ApplySetup, Chans
  <2> QED BY <1>7, <2>2, <2>3 DEF ApplySetup, TypeOK
<1>8. CASE ApplyFail
  <2>1. /\ Loadable(chan) => Loaded(chan) \in [Chans -> Outputs]
        /\ preset[chan].pin \in Pins /\ chan \in Chans
    BY <1>8, LoadedType DEF ApplyFail
  <2>2. [used |-> TRUE, type |-> "pwm", pin |-> preset[chan].pin] \in Outputs
    BY <2>1 DEF Outputs, Types
  <2>3. g_outputs' \in [Chans -> Outputs]
    BY <1>8, <2>1, <2>2 DEF ApplyFail, TypeOK
  <2>4. old' \in OldConfigs
    BY <1>8, <2>3 DEF ApplyFail, TypeOK, OldConfigs
  <2>5. /\ phase' = "rollback" /\ chan' = 0
        /\ UNCHANGED <<g_pwmAttached, servo, drive, undo, preset, done, ticked, before, asked>>
    BY <1>8 DEF ApplyFail
  <2> QED BY <2>3, <2>4, <2>5 DEF TypeOK, OldConfigs
<1>9. CASE ApplyEnd \/ RollbackEnd
  <2>1. NoOld \in OldConfigs
    BY NoOldType
  <2>2. drive' \in [Chans -> {"live", "failsafe"}]
    BY <1>9 DEF ApplyEnd, RollbackEnd, TypeOK
  <2> QED BY <1>9, <2>1, <2>2 DEF ApplyEnd, RollbackEnd, TypeOK, OldConfigs
<1>10. CASE RollbackStep
  <2> DEFINE outs == [g_outputs EXCEPT ![chan] = old.outputs[chan]]
  <2>1. chan \in Chans /\ outs \in [Chans -> Outputs] /\ SetupPin(outs, chan) \in Pins
    BY <1>10, SetupPinChoice DEF RollbackStep, TypeOK
  <2>2. [outs EXCEPT ![chan].pin = SetupPin(outs, chan)] \in [Chans -> Outputs]
    BY <2>1, PinMoved
  <2>3. g_outputs' \in [Chans -> Outputs]
    BY <1>10, <2>1, <2>2 DEF RollbackStep
  <2>4. servo' \in [Chans -> Pins \cup {Detached}]
    BY <1>10, <2>1 DEF RollbackStep, TypeOK
  <2>5. g_pwmAttached' \subseteq Chans /\ drive' \in [Chans -> {"live", "failsafe"}]
    BY <1>10, <2>1 DEF RollbackStep, TypeOK
  <2>6. chan' \in 0 .. NumOutputs
    BY <1>10 DEF RollbackStep, Chans
  <2> QED BY <1>10, <2>3, <2>4, <2>5, <2>6 DEF RollbackStep, TypeOK
<1>11. ASSUME NEW what \in {"live", "failsafe"}, Tick(what) PROVE TypeOK'
  BY <1>11 DEF Tick, TypeOK
<1>12. CASE UNCHANGED vars
  BY <1>12 DEF TypeOK
<1> QED BY Steps, <1>1, <1>2, <1>3, <1>4, <1>5, <1>6, <1>7, <1>8, <1>9, <1>10, <1>11, <1>12

(* The answer comes with the last step of a handler, the tick between two. *)
LEMMA AnswerStep ==
  ASSUME TypeOK, AnswerPending, [Next]_vars
  PROVE  AnswerPending'
  BY Steps DEF hw, task, vars, AnswerPending, Rebuilding, Edit, StartRebuild, RebuildSkip,
     RebuildSetup, RebuildFail, RebuildEnd, RestoreEnd, StartApply, ApplySkip, ApplySetup,
     ApplyFail, ApplyEnd, RollbackStep, RollbackEnd, Tick

(* A rebuild goes on setting up channels and disturbs none behind it: the  *)
(* pin it gives a channel is one no other used channel has.                *)
LEMMA RebuildStep ==
  ASSUME TypeOK, RebuildProgress, [Next]_vars
  PROVE  RebuildProgress'
<1> USE DEF hw, task, vars
<1>1. CASE Edit
  <2>1. PICK i \in Chans, draft \in Outputs : StartRebuild(i, draft)
    BY <1>1 DEF Edit
  <2>2. Release(Used(g_outputs')) /\ chan' = 0
    BY <2>1 DEF StartRebuild
  <2>3. \A j \in Used(g_outputs') : j \notin g_pwmAttached'
    BY <2>2, ReleaseEffect
  <2> QED BY <2>2, <2>3 DEF RebuildProgress, Used, Chans
<1>2. CASE RebuildFail
  <2>1. Release(Used(g_outputs')) /\ chan' = 0
    BY <1>2 DEF RebuildFail
  <2>2. \A j \in Used(g_outputs') : j \notin g_pwmAttached'
    BY <2>1, ReleaseEffect
  <2> QED BY <2>1, <2>2 DEF RebuildProgress, Used, Chans
<1>3. CASE RebuildSkip
  <2>1. \A i \in Chans : IsSetUp(i)' <=> IsSetUp(i)
    BY <1>3 DEF RebuildSkip, IsSetUp, PinFree, Used
  <2>2. chan' = chan + 1 /\ g_outputs' = g_outputs /\ g_pwmAttached' = g_pwmAttached
        /\ Rebuilding /\ ~g_outputs[chan].used
    BY <1>3 DEF RebuildSkip
  <2> QED BY <2>1, <2>2 DEF RebuildProgress, Used, Chans, TypeOK
<1>4. CASE RebuildSetup
  <2>1. PICK c \in Chans : c = chan
    BY <1>4 DEF RebuildSetup
  <2>2. /\ chan' = c + 1 /\ Rebuilding /\ g_outputs[c].used
        /\ g_outputs \in [Chans -> Outputs]
        /\ SetupOk(g_outputs, c) /\ Setup(g_outputs, c)
    BY <1>4, <2>1 DEF RebuildSetup, TypeOK
  <2>3. c \notin g_pwmAttached
    BY <2>1, <2>2 DEF RebuildProgress, Used, Chans
  <2>4. /\ Used(g_outputs') = Used(g_outputs)
        /\ \A j \in Chans \ {c} : /\ g_outputs'[j] = g_outputs[j] /\ servo'[j] = servo[j]
                                  /\ j \in g_pwmAttached' <=> j \in g_pwmAttached
        /\ IsSetUp(c)'
    BY <2>2, <2>3, SetupEffect
  <2>5. ASSUME NEW i \in Used(g_outputs), i < c PROVE IsSetUp(i)'
    <3>1. IsSetUp(i) /\ i \in Chans /\ i # c
      BY <2>1, <2>2, <2>5 DEF RebuildProgress, Used, Chans
    <3>2. ASSUME NEW j \in Used(g_outputs') \ {i} PROVE g_outputs'[j].pin # g_outputs'[i].pin
      <4>1. CASE j = c
        BY <2>4, <2>5, <3>1, <4>1 DEF IsSetUp, PinFree, Used
      <4>2. CASE j # c
        BY <2>4, <3>1, <3>2, <4>2 DEF IsSetUp, PinFree, Used
      <4> QED BY <4>1, <4>2
    <3> QED BY <2>4, <3>1, <3>2 DEF IsSetUp, PinFree, Used
  <2>6. ASSUME NEW i \in Used(g_outputs), i > c PROVE i \notin g_pwmAttached'
    <3>1. i \notin g_pwmAttached /\ i \in Chans /\ i # c
      BY <2>1, <2>2, <2>6 DEF RebuildProgress, Used, Chans
    <3> QED BY <2>4, <3>1
  <2>7. ASSUME NEW i \in Used(g_outputs) PROVE IF i < c + 1 THEN IsSetUp(i)' ELSE i \notin g_pwmAttached'
    <3>1. i \in Chans /\ (i < c \/ i = c \/ i > c)
      BY DEF Used, Chans
    <3> QED BY <2>4, <2>5, <2>6, <3>1 DEF Chans
  <2> QED BY <2>2, <2>4, <2>7 DEF RebuildProgress, Used
<1>5. CASE ~Rebuilding'
  BY <1>5 DEF RebuildProgress
<1>6. CASE UNCHANGED vars
  BY <1>6 DEF RebuildProgress, Rebuilding, Used, IsSetUp, PinFree
<1>7. CASE \E what \in {"live", "failsafe"} : Tick(what)
  BY <1>7 DEF Tick, RebuildProgress, Rebuilding
<1> QED BY Steps, <1>1, <1>2, <1>3, <1>4, <1>5, <1>6, <1>7
        DEF Rebuilding, RebuildEnd, RestoreEnd, StartApply, ApplySkip, ApplySetup,
            ApplyFail, ApplyEnd, RollbackStep, RollbackEnd

(* A channel that must leave its pin during a rebuild has been found there *)
(* by the edited channel, which is still ahead of the loop.                *)
LEMMA MovedIsClaimed ==
  ASSUME TypeOK, RebuildProgress, EditTracked, phase = "rebuild", Consistent(before),
         NEW c \in Chans, c = chan, g_outputs[c].used, c # undo.index,
         \A j \in Chans \ {undo.index} : g_outputs[j] = before[j],
         g_outputs[c].type = "pwm", g_outputs[c].pin \notin Candidates(g_outputs, c)
  PROVE  /\ g_outputs[undo.index].used
         /\ g_outputs[undo.index].pin = before[c].pin
         /\ asked.output.pin = before[c].pin
         /\ undo.index \in Chans /\ undo.index > c
<1>1. before[c] = g_outputs[c] /\ before[c].used /\ before[c].pin \in PwmPins
  BY DEF Consistent, Used
<1>2. PICK k \in Used(g_outputs) \ {c} : g_outputs[k].pin = g_outputs[c].pin
  BY <1>1 DEF Candidates, PinFree
<1>3. k = undo.index
  <2>1. k # undo.index => before[k] = g_outputs[k] /\ before[k].used
    BY DEF Used
  <2> QED BY <1>1, <1>2, <2>1 DEF Consistent, PinsDistinct, Used
<1>4. ~ (k < c)
  <2>1. k < c => IsSetUp(k)
    BY DEF RebuildProgress, Rebuilding
  <2> QED BY <1>2, <2>1 DEF IsSetUp, PinFree, Used
<1>5. k \in Chans /\ k > c
  BY <1>2, <1>4 DEF Used, Chans
<1>6. g_outputs[k] = asked.output
  BY <1>3, <1>5 DEF EditTracked, Chans, TypeOK
<1> QED BY <1>1, <1>2, <1>3, <1>5, <1>6 DEF Used

(* The rebuild of an edit keeps track of what moved.                       *)
LEMMA EditSetup ==
  ASSUME TypeOK, RebuildProgress, EditTracked, phase = "rebuild", RebuildSetup
  PROVE  EditTracked'
<1>1. PICK c \in Chans : c = chan
  BY DEF RebuildSetup
<1>2. /\ chan' = c + 1 /\ phase' = phase /\ undo' = undo /\ asked' = asked /\ before' = before
      /\ g_outputs[c].used /\ g_outputs \in [Chans -> Outputs]
      /\ SetupOk(g_outputs, c) /\ Setup(g_outputs, c)
      /\ undo.index \in Chans
  BY <1>1 DEF RebuildSetup, TypeOK
<1>3. c \notin g_pwmAttached
  BY <1>1, <1>2 DEF RebuildProgress, Rebuilding, Used, Chans
<1>4. /\ Used(g_outputs') = Used(g_outputs)
      /\ \A j \in Chans \ {c} : g_outputs'[j] = g_outputs[j]
      /\ g_outputs[c].pin \in Candidates(g_outputs, c) \/ g_outputs[c].type = "switch"
           => g_outputs' = g_outputs
      /\ g_outputs'[c].type = g_outputs[c].type
      /\ IsSetUp(c)'
  BY <1>2, <1>3, SetupEffect
<1>5. asked'.index = undo'.index /\ undo'.output = before'[undo'.index]
  BY <1>2 DEF EditTracked
<1>6. ASSUME Consistent(before)
      PROVE  /\ chan' <= undo.index => g_outputs'[undo.index] = asked.output
             /\ \/ \A j \in Chans \ {undo.index} : g_outputs'[j] = before[j]
                \/ Consistent(g_outputs')
             /\ \A j \in Chans \ {undo.index} :
                  g_outputs'[j] = before[j] \/ before[j].pin = asked.output.pin
  <2>1. /\ chan <= undo.index => g_outputs[undo.index] = asked.output
        /\ \/ \A j \in Chans \ {undo.index} : g_outputs[j] = before[j]
           \/ Consistent(g_outputs)
        /\ \A j \in Chans \ {undo.index} :
             g_outputs[j] = before[j] \/ before[j].pin = asked.output.pin
    BY <1>6 DEF EditTracked
  <2>2. chan' <= undo.index => g_outputs'[undo.index] = asked.output
    BY <1>1, <1>2, <1>4, <2>1 DEF Chans
  <2>3. CASE g_outputs' = g_outputs
    BY <2>1, <2>2, <2>3
  <2>4. CASE g_outputs' # g_outputs
    <3>1. g_outputs[c].type = "pwm" /\ g_outputs[c].pin \notin Candidates(g_outputs, c)
      BY <1>2, <1>4, <2>4 DEF Outputs, Types
    <3>2. \A j \in Chans \ {undo.index} : g_outputs[j] = before[j]
      BY <1>2, <2>1, <3>1, ConsistentSetup DEF Outputs, Types
    <3>3. CASE c = undo.index
      BY <1>4, <2>2, <3>2, <3>3
    <3>4. CASE c # undo.index
      <4>1. /\ g_outputs[undo.index].used
            /\ g_outputs[undo.index].pin = before[c].pin
            /\ asked.output.pin = before[c].pin
        BY <1>1, <1>2, <1>6, <3>1, <3>2, <3>4, MovedIsClaimed
      <4>2. ASSUME NEW i \in Used(g_outputs'), NEW j \in Used(g_outputs'), i # j
            PROVE  g_outputs'[i].pin # g_outputs'[j].pin
        <5>1. CASE i = c \/ j = c
          BY <1>4, <4>2, <5>1 DEF IsSetUp, PinFree, Used
        <5>2. CASE i # c /\ j # c
          <6>1. i \in Chans /\ j \in Chans /\ g_outputs'[i] = g_outputs[i] /\ g_outputs'[j] = g_outputs[j]
            BY <1>4, <5>2 DEF Used
          <6>2. g_outputs[i].used /\ g_outputs[j].used
            BY <1>4 DEF Used
          <6>3. before[c] = g_outputs[c] /\ before[c].used
            BY <1>2, <3>2, <3>4
          <6>4. CASE i # undo.index /\ j # undo.index
            BY <1>6, <3>2, <4>2, <6>1, <6>2, <6>4 DEF Consistent, PinsDistinct, Used
          <6>5. CASE i = undo.index \/ j = undo.index
            BY <1>6, <3>2, <4>1, <4>2, <5>2, <6>1, <6>2, <6>3, <6>5
            DEF Consistent, PinsDistinct, Used
          <6> QED BY <6>4, <6>5
        <5> QED BY <5>1, <5>2
      <4>3. ASSUME NEW i \in Used(g_outputs'), g_outputs'[i].type = "pwm"
            PROVE  g_outputs'[i].pin \in PwmPins
        <5>1. CASE i = c
          BY <1>4, <4>3, <5>1 DEF IsSetUp
        <5>2. CASE i # c
          <6>1. i \in Chans /\ g_outputs'[i] = g_outputs[i] /\ g_outputs[i].used
            BY <1>4, <5>2 DEF Used
          <6>2. before[c].pin \in PwmPins
            BY <1>2, <1>6, <3>1, <3>2, <3>4 DEF Consistent, Used
          <6>3. i # undo.index => before[i] = g_outputs[i]
            BY <3>2, <6>1
          <6> QED BY <1>6, <4>1, <4>3, <6>1, <6>2, <6>3 DEF Consistent, Used
        <5> QED BY <5>1, <5>2
      <4>4. Consistent(g_outputs')
        BY <4>2, <4>3 DEF Consistent, PinsDistinct
      <4> QED BY <1>4, <2>2, <3>2, <4>1, <4>4
    <3> QED BY <3>3, <3>4
  <2> QED BY <2>3, <2>4
<1> QED BY <1>2, <1>5, <1>6 DEF EditTracked, Consistent, PinsDistinct, Used

(* A rebuild that fails has moved nothing but the edited channel, so that  *)
(* putting its backup back restores the configuration.                     *)
LEMMA FailRestores ==
  ASSUME TypeOK, EditTracked, RebuildFail, Consistent(before)
  PROVE  g_outputs' = before
<1>1. /\ g_outputs' = [g_outputs EXCEPT ![undo.index] = undo.output]
      /\ g_outputs \in [Chans -> Outputs] /\ before \in [Chans -> Outputs]
      /\ undo.index \in Chans
  BY DEF RebuildFail, TypeOK
<1>2. ~Consistent(g_outputs)
  BY <1>1, ConsistentSetup DEF RebuildFail
<1>3. /\ \A j \in Chans \ {undo.index} : g_outputs[j] = before[j]
      /\ undo.output = before[undo.index]
  BY <1>2 DEF EditTracked, RebuildFail
<1> QED BY <1>1, <1>3

(* Through every step the edit under way stays accounted for, and the      *)
(* second rebuild finds and keeps the configuration of before.             *)
LEMMA EditStep ==
  ASSUME TypeOK, RebuildProgress, EditTracked, RestoreKeeps, [Next]_vars
  PROVE  EditTracked' /\ RestoreKeeps'
<1> USE DEF hw, task, vars
<1>1. CASE Edit
  <2>1. PICK i \in Chans, draft \in Outputs : StartRebuild(i, draft)
    BY <1>1 DEF Edit
  <2>2. /\ phase' = "rebuild" /\ before' = g_outputs
        /\ undo' = [index |-> i, output |-> g_outputs[i]]
        /\ asked' = [index |-> i, output |-> draft]
        /\ g_outputs' = [g_outputs EXCEPT ![i] = draft]
    BY <2>1 DEF StartRebuild
  <2>3. /\ g_outputs'[i] = draft
        /\ \A j \in Chans \ {i} : g_outputs'[j] = before'[j]
    BY <2>2 DEF TypeOK
  <2> QED BY <2>2, <2>3 DEF EditTracked, RestoreKeeps
<1>2. CASE RebuildSkip
  <2>1. /\ g_outputs' = g_outputs /\ before' = before /\ undo' = undo /\ asked' = asked
        /\ phase' = phase /\ chan' = chan + 1 /\ chan \in Chans
    BY <1>2 DEF RebuildSkip
  <2>2. chan' <= undo.index => chan <= undo.index
    BY <2>1 DEF Chans, TypeOK
  <2> QED BY <2>1, <2>2 DEF EditTracked, RestoreKeeps, Consistent, PinsDistinct, Used
<1>3. CASE RebuildSetup /\ phase = "rebuild"
  <2>1. RestoreKeeps'
    BY <1>3 DEF RebuildSetup, RestoreKeeps
  <2> QED BY <1>3, <2>1, EditSetup
<1>4. CASE RebuildSetup /\ phase = "restore"
  <2>1. PICK c \in Chans : c = chan
    BY <1>4 DEF RebuildSetup
  <2>2. /\ phase' = "restore" /\ before' = before
        /\ g_outputs[c].used /\ g_outputs \in [Chans -> Outputs]
        /\ SetupOk(g_outputs, c) /\ Setup(g_outputs, c)
    BY <1>4, <2>1 DEF RebuildSetup, TypeOK
  <2>3. ASSUME Consistent(before) PROVE g_outputs' = before
    <3>1. g_outputs = before
      BY <1>4, <2>3 DEF RestoreKeeps
    <3>2. g_outputs[c].pin \in Candidates(g_outputs, c) \/ g_outputs[c].type = "switch"
      BY <2>2, <2>3, <3>1, ConsistentSetup
    <3> QED BY <2>2, <3>1, <3>2, SetupEffect
  <2> QED BY <2>2, <2>3 DEF EditTracked, RestoreKeeps, Consistent, PinsDistinct, Used
<1>5. CASE RebuildFail
  <2>1. phase' = "restore" /\ before' = before
    BY <1>5 DEF RebuildFail
  <2> QED BY <1>5, <2>1, FailRestores
          DEF EditTracked, RestoreKeeps, Consistent, PinsDistinct, Used
<1>6. CASE phase' \notin {"rebuild", "restore"}
  BY <1>6 DEF EditTracked, RestoreKeeps
<1>7. CASE UNCHANGED vars
  BY <1>7 DEF EditTracked, RestoreKeeps, Consistent, PinsDistinct, Used
<1> QED BY Steps, <1>1, <1>2, <1>3, <1>4, <1>5, <1>6, <1>7
        DEF Rebuilding, RebuildSetup, RebuildEnd, RestoreEnd, StartApply, ApplySkip, ApplySetup,
            ApplyFail, ApplyEnd, RollbackStep, RollbackEnd, Tick

(* A preset under way flags the servos of the channels it has passed, and  *)
(* keeps the outputs it found.                                             *)
LEMMA ApplyStep ==
  ASSUME TypeOK, ApplyProgress, [Next]_vars
  PROVE  ApplyProgress'
<1> USE DEF hw, task, vars
<1>1. ASSUME NEW cfg \in Presets, StartApply(cfg) PROVE ApplyProgress'
  <2>1. old'.outputs = before' /\ \A i \in Chans : ~g_outputs'[i].used
    BY <1>1, NoOutputType DEF StartApply, NoOutputs
  <2> QED BY <2>1 DEF ApplyProgress, Used
<1>2. CASE ApplySkip
  <2>1. /\ g_outputs' = g_outputs /\ g_pwmAttached' = g_pwmAttached /\ chan' = chan + 1
        /\ phase = "apply" /\ phase' = "apply" /\ old' = old /\ before' = before
    BY <1>2 DEF ApplySkip
  <2> QED BY <2>1 DEF ApplyProgress, Used, Chans, TypeOK
<1>3. CASE ApplySetup
  <2>1. PICK c \in Chans : c = chan
    BY <1>3 DEF ApplySetup
  <2>2. /\ Loaded(c) \in [Chans -> Outputs] /\ Loaded(c)[c].used
        /\ \A j \in Chans \ {c} : Loaded(c)[j] = g_outputs[j]
        /\ SetupOk(Loaded(c), c) /\ Setup(Loaded(c), c)
        /\ chan' = c + 1 /\ phase = "apply" /\ phase' = "apply" /\ old' = old /\ before' = before
    BY <1>3, <2>1, LoadedType DEF ApplySetup
  <2>3. /\ g_outputs'[c].type = Loaded(c)[c].type
        /\ Loaded(c)[c].type = "pwm" => c \in g_pwmAttached'
        /\ \A j \in Chans \ {c} : /\ g_outputs'[j] = Loaded(c)[j]
                                  /\ j \in g_pwmAttached' <=> j \in g_pwmAttached
    BY <2>2, SetupEffect
  <2>4. ASSUME NEW i \in Used(g_outputs')
        PROVE  i < c + 1 /\ (g_outputs'[i].type = "pwm" => i \in g_pwmAttached')
    <3>1. CASE i = c
      BY <2>3, <3>1 DEF Chans
    <3>2. CASE i # c
      <4>1. i \in Chans /\ g_outputs'[i] = g_outputs[i] /\ g_outputs[i].used
        BY <2>2, <2>3, <3>2 DEF Used
      <4> QED BY <2>1, <2>2, <2>3, <3>2, <4>1 DEF ApplyProgress, Used, Chans
    <3> QED BY <3>1, <3>2
  <2> QED BY <2>2, <2>4 DEF ApplyProgress, Used
<1>4. CASE ApplyFail \/ RollbackStep
  BY <1>4 DEF ApplyFail, RollbackStep, ApplyProgress, TypeOK
<1>5. CASE phase' \notin {"apply", "rollback"}
  BY <1>5 DEF ApplyProgress
<1>6. CASE UNCHANGED vars
  BY <1>6 DEF ApplyProgress, Used
<1> QED BY Steps, <1>1, <1>2, <1>3, <1>4, <1>5, <1>6
        DEF Edit, StartRebuild, Rebuilding, RebuildSkip, RebuildSetup, RebuildFail, RebuildEnd, RestoreEnd,
            ApplyEnd, RollbackEnd, Tick

(* A channel whose pin no later channel of the preset holds finds it free, *)
(* since the earlier ones are back on theirs.                              *)
LEMMA OwnPinIsFree ==
  ASSUME TypeOK, RollbackProgress, phase = "rollback", Consistent(before), NoPinTaken,
         NEW c \in Chans, c = chan, before[c].used, before[c].type = "pwm",
         NEW outs \in [Chans -> Outputs], \A j \in Chans \ {c} : outs[j] = g_outputs[j]
  PROVE  before[c].pin \in Candidates(outs, c)
<1>1. before[c].pin \in PwmPins
  BY DEF Consistent, Used
<1>2. ASSUME NEW j \in Used(outs) \ {c} PROVE outs[j].pin # before[c].pin
  <2>1. j \in Chans /\ outs[j].used /\ outs[j] = g_outputs[j]
    BY DEF Used
  <2>2. CASE j < c
    <3>1. g_outputs[j] = before[j]
      BY <2>1, <2>2 DEF RollbackProgress
    <3> QED BY <2>1, <3>1 DEF Consistent, PinsDistinct, Used
  <2>3. CASE c < j
    <3>1. g_outputs[j] = old.failed[j]
      BY <2>1, <2>3 DEF RollbackProgress, Chans
    <3> QED BY <2>1, <2>3, <3>1 DEF NoPinTaken
  <2> QED BY <2>1, <2>2, <2>3 DEF Chans
<1> QED BY <1>1, <1>2 DEF Candidates, PinFree

(* restoreOld brings back the channel it is at, and touches no other.      *)
LEMMA RollbackStepRestores ==
  ASSUME TypeOK, ApplyProgress, RollbackProgress, RollbackStep, Consistent(before), NoPinTaken,
         NEW c \in Chans, c = chan
  PROVE  /\ g_outputs'[c] = before[c] /\ ServoBack(c)'
         /\ \A j \in Chans \ {c} : /\ g_outputs'[j] = g_outputs[j] /\ servo'[j] = servo[j]
                                   /\ j \in g_pwmAttached' <=> j \in g_pwmAttached
<1> DEFINE outs == [g_outputs EXCEPT ![c] = old.outputs[c]]
           released == IF g_outputs[c].used /\ c \in g_pwmAttached
                       THEN [servo EXCEPT ![c] = Detached] ELSE servo
           setUp == /\ outs[c].used /\ c \in old.pwm
                    /\ outs[c].type = "pwm" /\ Candidates(outs, c) # {}
           moved == [outs EXCEPT ![c].pin = SetupPin(outs, c)]
<1>1. /\ servo' = IF setUp THEN [released EXCEPT ![c] = SetupPin(outs, c)] ELSE released
      /\ g_pwmAttached' = IF setUp THEN g_pwmAttached \cup {c} ELSE g_pwmAttached \ {c}
      /\ g_outputs' = IF setUp THEN moved ELSE outs
      /\ phase = "rollback" /\ before' = before /\ old' = old
  BY DEF RollbackStep
<1>2. /\ outs \in [Chans -> Outputs] /\ outs[c] = before[c] /\ before[c] \in Outputs
      /\ \A j \in Chans \ {c} : outs[j] = g_outputs[j]
  BY <1>1 DEF TypeOK, ApplyProgress
<1>3. /\ released \in [Chans -> Pins \cup {Detached}]
      /\ \A j \in Chans \ {c} : released[j] = servo[j]
  BY DEF TypeOK
<1> HIDE DEF outs, released
<1>4. ASSUME before[c].used, before[c].type = "pwm"
      PROVE  /\ SetupPin(outs, c) = before[c].pin /\ Candidates(outs, c) # {}
             /\ moved = outs
  <2>1. before[c].pin \in Candidates(outs, c)
    BY <1>1, <1>2, <1>4, OwnPinIsFree
  <2>2. SetupPin(outs, c) = before[c].pin
    BY <1>2, <2>1, SetupPinChoice
  <2>3. [outs[c] EXCEPT !.pin = before[c].pin] = outs[c]
    BY <1>2 DEF Outputs
  <2>4. moved = outs
    BY <1>2, <2>2, <2>3
  <2> QED BY <2>1, <2>2, <2>4
<1>5. g_outputs' = outs
  BY <1>1, <1>2, <1>4
<1>6. ServoBack(c)'
  <2> SUFFICES ASSUME before[c].used, before[c].type = "pwm", c \in old.pwm
               PROVE  c \in g_pwmAttached' /\ servo'[c] = before[c].pin
    BY <1>1 DEF ServoBack
  <2>1. setUp /\ SetupPin(outs, c) = before[c].pin
    BY <1>2, <1>4
  <2> QED BY <1>1, <1>3, <2>1
<1>7. \A j \in Chans \ {c} : servo'[j] = servo[j] /\ (j \in g_pwmAttached' <=> j \in g_pwmAttached)
  BY <1>1, <1>3
<1> QED BY <1>2, <1>5, <1>6, <1>7

(* restoreOld brings back channel after channel.                           *)
LEMMA RollbackGoesOn ==
  ASSUME TypeOK, ApplyProgress, RollbackProgress, [Next]_vars
  PROVE  RollbackProgress'
<1> USE DEF hw, task, vars
<1>1. CASE RollbackStep
  <2>1. PICK c \in Chans : c = chan
    BY <1>1 DEF RollbackStep
  <2>2. chan' = c + 1 /\ phase = "rollback" /\ before' = before /\ old' = old
    BY <1>1, <2>1 DEF RollbackStep
  <2>3. (Consistent(before)' => Consistent(before)) /\ (NoPinTaken' => NoPinTaken)
    BY <2>2 DEF Consistent, PinsDistinct, Used, NoPinTaken
  <2> SUFFICES ASSUME Consistent(before), NoPinTaken, NEW i \in Chans
               PROVE  IF i < c + 1 THEN g_outputs'[i] = before[i] /\ ServoBack(i)'
                      ELSE g_outputs'[i] = old.failed[i]
    BY <2>2, <2>3 DEF RollbackProgress
  <2>4. /\ g_outputs'[c] = before[c] /\ ServoBack(c)'
        /\ \A j \in Chans \ {c} : /\ g_outputs'[j] = g_outputs[j] /\ servo'[j] = servo[j]
                                  /\ j \in g_pwmAttached' <=> j \in g_pwmAttached
    BY <1>1, <2>1, RollbackStepRestores
  <2>5. IF i < c THEN g_outputs[i] = before[i] /\ ServoBack(i)
        ELSE g_outputs[i] = old.failed[i]
    BY <2>1, <2>2 DEF RollbackProgress
  <2>6. CASE i = c
    BY <2>4, <2>6 DEF Chans
  <2>7. CASE i # c
    <3>1. i < c + 1 <=> i < c
      BY <2>7 DEF Chans
    <3>2. ServoBack(i)' <=> ServoBack(i)
      BY <2>2, <2>4, <2>7 DEF ServoBack
    <3> QED BY <2>4, <2>5, <2>7, <3>1, <3>2
  <2> QED BY <2>6, <2>7
<1>2. CASE ApplyFail
  <2>1. chan' = 0 /\ old'.failed = g_outputs'
    BY <1>2 DEF ApplyFail, TypeOK
  <2> QED BY <2>1 DEF RollbackProgress, Chans
<1>3. CASE phase' # "rollback"
  BY <1>3 DEF RollbackProgress
<1>4. CASE UNCHANGED vars
  BY <1>4 DEF RollbackProgress, ServoBack, Consistent, PinsDistinct, Used, NoPinTaken
<1> QED BY Steps, <1>1, <1>2, <1>3, <1>4
        DEF Edit, StartRebuild, Rebuilding, RebuildSkip, RebuildSetup, RebuildFail, RebuildEnd,
            RestoreEnd, StartApply, ApplySkip, ApplySetup, ApplyEnd, RollbackEnd, Tick

(* What the answers promise.                                               *)
Promises ==
  /\ SuccessReaches /\ RebuiltIsSound /\ RejectedKeepsConfig /\ OnlyClaimedPinsMove
  /\ TickReachesUsed

(* Before the answer they promise nothing.                                 *)
LEMMA NoPromiseYet == done = "none" => Promises
  BY DEF Promises, SuccessReaches, RebuiltIsSound, RejectedKeepsConfig, OnlyClaimedPinsMove,
     TickReachesUsed

(* They hold when a handler ends, by what its loops have established for   *)
(* all channels, and ticks do not touch the configuration.                 *)
LEMMA PromiseStep ==
  ASSUME HandlerInv, [Next]_vars
  PROVE  Promises'
<1> USE DEF hw, task, vars
<1>0. TypeOK /\ Promises /\ chan \in 0 .. NumOutputs
  BY DEF HandlerInv, Promises, TypeOK
<1>1. CASE RebuildEnd
  <2>1. /\ done' = "rebuilt" /\ phase = "rebuild" /\ chan = NumOutputs /\ ticked = "none"
        /\ UNCHANGED <<hw, before, asked, ticked>>
    BY <1>1 DEF RebuildEnd, HandlerInv, AnswerPending
  <2>2. \A i \in Used(g_outputs) : IsSetUp(i)
    BY <2>1 DEF HandlerInv, RebuildProgress, Rebuilding, Used, Chans
  <2>3. Consistent(g_outputs)
    BY <2>2 DEF IsSetUp, PinFree, Consistent, PinsDistinct
  <2>4. Used(g_outputs) \subseteq Reached
    BY <2>2 DEF IsSetUp, Reached
  <2>5. RebuiltIsSound'
    BY <2>1, <2>2, <2>3 DEF IsSetUp, RebuiltIsSound, Consistent, PinsDistinct, Used
  <2>6. OnlyClaimedPinsMove'
    <3>1. asked.index = undo.index /\
          (Consistent(before) =>
             \A j \in Chans \ {undo.index} :
                g_outputs[j] = before[j] \/ before[j].pin = asked.output.pin)
      BY <2>1 DEF HandlerInv, EditTracked
    <3> QED BY <2>1, <3>1 DEF OnlyClaimedPinsMove, Consistent, PinsDistinct, Used
  <2>7. SuccessReaches' /\ TickReachesUsed'
    BY <2>1, <2>4 DEF SuccessReaches, TickReachesUsed, Reached, Used
  <2>8. RejectedKeepsConfig'
    BY <2>1 DEF RejectedKeepsConfig
  <2> QED BY <2>5, <2>6, <2>7, <2>8 DEF Promises
<1>2. CASE RestoreEnd
  <2>1. done' = "rejected" /\ phase = "restore" /\ UNCHANGED <<hw, before>>
    BY <1>2 DEF RestoreEnd
  <2>2. ASSUME Consistent(before)
        PROVE  /\ g_outputs = before
               /\ \A i \in Used(g_outputs) : g_outputs[i].type = "pwm" => i \in g_pwmAttached
    <3>1. g_outputs = before
      BY <2>1, <2>2 DEF HandlerInv, RestoreKeeps
    <3>2. chan = NumOutputs
      BY <1>0, <1>2, <2>2, <3>1, ConsistentSetup DEF RestoreEnd, TypeOK
    <3>3. \A i \in Used(g_outputs) : IsSetUp(i)
      BY <2>1, <3>2 DEF HandlerInv, RebuildProgress, Rebuilding, Used, Chans
    <3> QED BY <3>1, <3>3 DEF IsSetUp
  <2>3. RejectedKeepsConfig'
    BY <2>1, <2>2 DEF RejectedKeepsConfig, Consistent, PinsDistinct, Used
  <2> QED BY <2>1, <2>3 DEF Promises, SuccessReaches, RebuiltIsSound, OnlyClaimedPinsMove,
             TickReachesUsed
<1>3. CASE ApplyEnd
  <2>1. /\ done' = "applied" /\ phase = "apply" /\ ticked' = "none"
        /\ UNCHANGED <<g_outputs, g_pwmAttached>>
    BY <1>3 DEF ApplyEnd, HandlerInv, AnswerPending
  <2>2. Used(g_outputs) \subseteq Reached
    BY <2>1 DEF HandlerInv, ApplyProgress, Reached
  <2> QED BY <2>1, <2>2 DEF Promises, SuccessReaches, RebuiltIsSound, RejectedKeepsConfig,
             OnlyClaimedPinsMove, TickReachesUsed, Reached, Used
<1>4. CASE RollbackEnd
  <2>1. /\ done' = "rolledback" /\ phase = "rollback" /\ chan = NumOutputs
        /\ UNCHANGED <<hw, before>>
    BY <1>4 DEF RollbackEnd
  <2> QED BY <2>1 DEF Promises, SuccessReaches, RebuiltIsSound, RejectedKeepsConfig,
             OnlyClaimedPinsMove, TickReachesUsed
<1>5. ASSUME NEW what \in {"live", "failsafe"}, Tick(what) PROVE Promises'
  <2>1. /\ UNCHANGED <<g_outputs, g_pwmAttached, servo, done, before, asked>> /\ ticked' = what
        /\ drive' = [i \in Chans |-> IF i \in Reached THEN what ELSE drive[i]]
    BY <1>5 DEF Tick
  <2>2. SuccessReaches' /\ RebuiltIsSound' /\ RejectedKeepsConfig' /\ OnlyClaimedPinsMove'
    BY <1>0, <2>1 DEF Promises, SuccessReaches, RebuiltIsSound, RejectedKeepsConfig,
       OnlyClaimedPinsMove, Consistent, PinsDistinct,
       Reached, Used
  <2>3. TickReachesUsed'
    BY <1>0, <2>1 DEF Promises, SuccessReaches, TickReachesUsed, Used
  <2> QED BY <2>2, <2>3 DEF Promises
<1>6. CASE UNCHANGED vars
  BY <1>0, <1>6 DEF Promises, SuccessReaches, RebuiltIsSound, RejectedKeepsConfig,
     OnlyClaimedPinsMove, TickReachesUsed, Consistent,
     PinsDistinct, Reached, Used
<1>7. CASE done' = "none"
  BY <1>7 DEF Promises, SuccessReaches, RebuiltIsSound, RejectedKeepsConfig, OnlyClaimedPinsMove,
     TickReachesUsed
<1> QED BY Steps, <1>0, <1>1, <1>2, <1>3, <1>4, <1>5, <1>6, <1>7
        DEF HandlerInv, AnswerPending, Edit, StartRebuild, Rebuilding, RebuildSkip, RebuildSetup,
            RebuildFail, StartApply, ApplySkip, ApplySetup, ApplyFail, RollbackStep

(* What the loops of the web handlers and of applyPersistedConfig have     *)
(* established holds in every state, however edits, presets, failures and  *)
(* control ticks follow one another.                                       *)
THEOREM HandlerInvariance == Spec => []HandlerInv
<1>1. Init => HandlerInv
  <2> SUFFICES ASSUME Init PROVE HandlerInv
    OBVIOUS
  <2>1. /\ NoUndo \in [index : Chans, output : Outputs]
        /\ NoOld \in OldConfigs
    BY NoOutputType, NoOldType DEF NoUndo, Chans
  <2>2. TypeOK
    BY <2>1, NoOutputType, NoOldType DEF Init, TypeOK, Phases, OldConfigs
  <2>3. AnswerPending /\ RebuildProgress /\ EditTracked /\ RestoreKeeps
        /\ ApplyProgress /\ RollbackProgress
    BY DEF Init, AnswerPending, RebuildProgress, Rebuilding, EditTracked, RestoreKeeps,
       ApplyProgress, RollbackProgress
  <2>4. Promises
    BY NoPromiseYet DEF Init
  <2> QED BY <2>2, <2>3, <2>4 DEF HandlerInv, Promises
<1>2. HandlerInv /\ [Next]_vars => HandlerInv'
  <2> SUFFICES ASSUME HandlerInv, [Next]_vars PROVE HandlerInv'
    OBVIOUS
  <2>1. TypeOK'
    BY TypeStep DEF HandlerInv
  <2>2. AnswerPending' /\ RebuildProgress'
    BY AnswerStep, RebuildStep DEF HandlerInv
  <2>3. EditTracked' /\ RestoreKeeps'
    BY EditStep DEF HandlerInv
  <2>4. ApplyProgress' /\ RollbackProgress'
    BY ApplyStep, RollbackGoesOn DEF HandlerInv
  <2>5. Promises'
    BY PromiseStep
  <2> QED BY <2>1, <2>2, <2>3, <2>4, <2>5 DEF HandlerInv, Promises
<1> QED BY <1>1, <1>2, PTL DEF Spec

(* An edit answered with success leaves every used output on a pin of its  *)
(* own with its servo attached there (rebuildOutputHardware).              *)
THEOREM RebuildIsSound == Spec => []RebuiltIsSound
<1>1. HandlerInv => RebuiltIsSound
  BY DEF HandlerInv
<1> QED BY HandlerInvariance, <1>1, PTL

(* An edit answered with an error has changed nothing: putting back the    *)
(* one channel the handler backed up is enough.                            *)
THEOREM RejectionKeepsConfig == Spec => []RejectedKeepsConfig
<1>1. HandlerInv => RejectedKeepsConfig
  BY DEF HandlerInv
<1> QED BY HandlerInvariance, <1>1, PTL

(* A successful edit moves no other output but one on the pin it asks for. *)
THEOREM EditMovesOnlyClaimed == Spec => []OnlyClaimedPinsMove
<1>1. HandlerInv => OnlyClaimedPinsMove
  BY DEF HandlerInv
<1> QED BY HandlerInvariance, <1>1, PTL

(* A refused preset whose later channels hold the pin of no former PWM     *)
(* output leaves outputs, pins and servos as it found them (restoreOld in  *)
(* applyPersistedConfig).                                                  *)
THEOREM RollbackGivesBackUntaken == Spec => []RollbackRestoresUntaken
<1>1. HandlerInv => RollbackRestoresUntaken
  <2> SUFFICES ASSUME HandlerInv, RolledBack, Consistent(before), NoPinTaken
               PROVE  g_outputs = before /\ \A i \in Chans : ServoBack(i)
    BY DEF RollbackRestoresUntaken
  <2>1. /\ g_outputs \in [Chans -> Outputs] /\ before \in [Chans -> Outputs]
        /\ \A i \in Chans : i < chan
    BY DEF HandlerInv, TypeOK, RolledBack, Chans
  <2>2. \A i \in Chans : g_outputs[i] = before[i] /\ ServoBack(i)
    BY <2>1 DEF HandlerInv, RollbackProgress, RolledBack
  <2> QED BY <2>1, <2>2
<1> QED BY HandlerInvariance, <1>1, PTL

(* After a success no used output is out of reach of the control tick.     *)
THEOREM TickReachesAll == Spec => []TickReachesUsed
<1>1. HandlerInv => TickReachesUsed
  BY DEF HandlerInv
<1> QED BY HandlerInvariance, <1>1, PTL
=============================================================================
