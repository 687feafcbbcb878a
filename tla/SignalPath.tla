----------------------------- MODULE SignalPath -----------------------------
(***************************************************************************)
(* From the sticks to the pulses (control_inputs.cpp, rc_model.cpp): what  *)
(* a report of the gamepad makes of the virtual inputs, the outputs and    *)
(* the values shown to the page, while requests add, change and delete     *)
(* inputs and outputs between the control ticks.                           *)
(*                                                                         *)
(* A float is a whole number of 1/One, rounded towards 0 after each        *)
(* operation; with One = 12800 a step of a stick and a percent are exact.  *)
(* The expo curve is kept for 0, 50 and 100 percent, where its power is    *)
(* 1, 2 or 3.  All inputs are of type Direct (the toggles are in           *)
(* ToggleInput).  Which edit or preset finds its pins is decided in        *)
(* OutputHardware: here any may be refused.  A refused edit puts all       *)
(* outputs back if they had pins of their own, as they have unless a       *)
(* servo is missing.  When a tick drives, and when it gives up, is decided *)
(* in ControlLoop.                                                         *)
(***************************************************************************)
EXTENDS Integers, Sequences

CONSTANTS
    NumInputs, NumOutputs,  \* kMaxVirtualInputs, kMaxOutputChannels
    Reports,        \* what a report may hold: the raw value of each control
    InputDrafts,    \* inputs a request may describe
    OutputDrafts,   \* outputs a request may describe
    Presets         \* configurations that may be applied

Inputs  == 0 .. NumInputs - 1
Outputs == 0 .. NumOutputs - 1

(* kInputs, by kind.                                                       *)
Centered == {"AxisX", "AxisY", "AxisRX", "AxisRY"}
Positive == {"Throttle", "Brake"}
Digital  == {"ButtonA", "ButtonB", "ButtonX", "ButtonY", "ButtonL1", "ButtonR1",
             "ButtonL2", "ButtonR2", "ButtonStart", "ButtonSelect",
             "DpadUp", "DpadDown", "DpadLeft", "DpadRight"}
Controls == Centered \cup Positive \cup Digital

One == 12800

HIGH == 1
LOW  == 0

(* VirtualInputConfig and OutputChannelConfig, with numbers not yet        *)
(* limited.                                                                *)
InputConfigs ==
    [used : BOOLEAN, primary : Controls \cup {"None"}, secondary : Controls \cup {"None"},
     modifier : Controls \cup {"None"},
     modifierFunction : {"None", "Reverse", "Center", "Activate", "Desactivate"},
     deadzone : Int, expo : Int]

TermConfigs == [source : Int, weight : Int, offset : Int]

OutputConfigs ==
    [used : BOOLEAN, type : {"pwm", "switch"}, inverted : BOOLEAN, threshold : Int,
     failsafe : {"Min", "Center", "Max"}, mixMode : {"Add", "Multiply"},
     terms : [1 .. 3 -> TermConfigs]]

ASSUME SignalPathAssumption ==
    /\ NumInputs \in Nat \ {0} /\ NumOutputs \in Nat \ {0}
    /\ \A p \in Reports :
         /\ DOMAIN p = Controls
         /\ \A c \in Centered : p[c] \in -512 .. 511
         /\ \A c \in Positive : p[c] \in 0 .. 1023
         /\ \A c \in Digital : p[c] \in 0 .. 1
    /\ InputDrafts \subseteq InputConfigs /\ OutputDrafts \subseteq OutputConfigs
    /\ \A d \in InputDrafts \cup OutputDrafts : d.used     \* the handlers set it
    /\ \A d \in InputDrafts : d.expo <= 0 \/ d.expo = 50 \/ d.expo >= 100
    /\ Presets \subseteq [inputs : [Inputs -> InputConfigs], outputs : [Outputs -> OutputConfigs]]

VARIABLES
    g_virtualInputs, g_outputs,             \* the configuration
    g_virtualRuntime, g_outputRuntime,      \* the values the page shows
    level,          \* the pulse (us) or the level of each output; without
                    \* its servo, the pulse that servo would be given
    pad,            \* the last report taken
    cleared,        \* history: inputs deleted, and named by no request since
    unrestored      \* history: what a refused preset leaves behind: servos
                    \* not attached again, and switches of which the pin or
                    \* the value shown was written

config == <<g_virtualInputs, g_outputs>>
vars   == <<config, g_virtualRuntime, g_outputRuntime, level, pad, cleared, unrestored>>

-----------------------------------------------------------------------------
(* Arithmetic.                                                             *)

Quot(a, b) == IF a >= 0 THEN a \div b ELSE -((-a) \div b)

Magnitude(v) == IF v < 0 THEN -v ELSE v

Signed(v, m) == IF v < 0 THEN -m ELSE m     \* m with the sign of v

Constrain(v, lo, hi) == IF v < lo THEN lo ELSE IF v > hi THEN hi ELSE v

Percent(n) == n * (One \div 100)

-----------------------------------------------------------------------------
(* Controls.                                                               *)

(* normalizedForInput.                                                     *)
Normalized(c, p) ==
    CASE c \in Centered -> Constrain(Quot(p[c] * One, 512), -One, One)
      [] c \in Positive -> Constrain(Quot(p[c] * One, 1023), 0, One)
      [] c \in Digital  -> IF p[c] # 0 THEN One ELSE 0
      [] OTHER          -> 0

IsInputActive(c, p) ==
    c \in Controls /\ Magnitude(Normalized(c, p)) >= One \div 2

(* The candidates of detectDominantInput, in its order.                    *)
Buttons == <<"ButtonA", "ButtonB", "ButtonX", "ButtonY", "ButtonL1", "ButtonR1",
             "ButtonStart", "ButtonSelect", "DpadUp", "DpadDown", "DpadLeft", "DpadRight">>
Analogs == <<"Throttle", "Brake", "AxisX", "AxisY", "AxisRX", "AxisRY">>

Threshold(c) ==
    CASE c \in Digital -> Percent(50) [] c \in Positive -> Percent(15) [] OTHER -> Percent(25)

Candidates == Buttons \o Analogs

(* Mutant: a later candidate of the same strength wins.                    *)
BetterOrEqual(best, c, p) ==
    LET v == Magnitude(Normalized(c, p))
    IN  IF v >= Threshold(c) /\ v >= best.val THEN [id |-> c, val |-> v] ELSE best

(* The best candidate so far, or the next one.                             *)
Better(best, c, p) ==
    LET v == Magnitude(Normalized(c, p))
    IN  IF v >= Threshold(c) /\ v > best.val THEN [id |-> c, val |-> v] ELSE best

(* detectDominantInput: the best after n candidates, for each n.           *)
BestAfter(p) ==
    LET best[n \in 0 .. Len(Candidates)] ==
            IF n = 0 THEN [id |-> "None", val |-> 0]
            ELSE Better(best[n - 1], Candidates[n], p)
    IN  best

DetectDominantInput(p) == BestAfter(p)[Len(Candidates)].id

Rest == [c \in Controls |-> 0]

(* handleApiLearnDetect answers with this.                                 *)
Learned == [p \in Reports \cup {Rest} |-> DetectDominantInput(p)]

-----------------------------------------------------------------------------
(* A virtual input.                                                        *)

ApplyDeadzoneSigned(v, deadzone) ==
    LET dz == Percent(Constrain(deadzone, 0, 95)) IN
    IF Magnitude(v) <= dz THEN 0
    ELSE Signed(v, ((Magnitude(v) - dz) * One) \div (One - dz))

(* The power 1 + 2 * expo / 100 of the magnitude.                          *)
ApplyExpoSigned(v, expo) ==
    LET a      == Magnitude(v)
        square == (a * a) \div One
        power  == CASE expo <= 0 -> a [] expo = 50 -> square [] OTHER -> (square * a) \div One
    IN  Constrain(Signed(v, power), -One, One)

(* isInputEnabledByModifier.                                               *)
EnabledByModifier(in, p) ==
    \/ in.modifier = "None"
    \/ in.modifierFunction \notin {"Activate", "Desactivate"}
    \/ (in.modifierFunction = "Activate") = IsInputActive(in.modifier, p)

(* The controls of an input, combined and turned round by its modifier.    *)
Raw(in, p) ==
    LET v == Constrain(Normalized(in.primary, p) - Normalized(in.secondary, p), -One, One)
    IN  IF in.modifierFunction = "Reverse" /\ IsInputActive(in.modifier, p) THEN -v ELSE v

(* evaluateVirtualInput.                                                   *)
VirtualValue(in, p) ==
    IF ~in.used \/ in.primary = "None" \/ ~EnabledByModifier(in, p) THEN 0
    ELSE ApplyExpoSigned(ApplyDeadzoneSigned(Raw(in, p), in.deadzone), in.expo)

-----------------------------------------------------------------------------
(* An output: up to three terms source * weight + offset, mixed.           *)

SourceValue(source, rt) == IF source \in Inputs THEN rt[source] ELSE 0

Term(t, rt) == Quot(SourceValue(t.source, rt) * t.weight, 100) + Percent(t.offset)

HasTerm(t) == t.source >= 0 \/ t.offset # 0

(* The product so far, times a term that is there.                         *)
Times(a, t, rt) == IF HasTerm(t) THEN Quot(a * Term(t, rt), One) ELSE a

Mix(mixMode, terms, rt) ==
    IF mixMode = "Multiply"
    THEN IF \E k \in 1 .. 3 : HasTerm(terms[k])
         THEN Times(Times(Times(One, terms[1], rt), terms[2], rt), terms[3], rt)
         ELSE 0
    ELSE Term(terms[1], rt) + Term(terms[2], rt) + Term(terms[3], rt)

(* Mutant: the sum is not limited.                                         *)
OutputSignalUnlimited(out, rt) ==
    LET v == Mix(out.mixMode, out.terms, rt) IN IF out.inverted THEN -v ELSE v

(* evaluateOutputSignal, of an output in use.                              *)
OutputSignal(out, rt) ==
    LET v == Constrain(Mix(out.mixMode, out.terms, rt), -One, One)
    IN  IF out.inverted THEN -v ELSE v

(* pwmFromOutput: lroundf of a positive number, then clampPwmUs.           *)
Pulse(n) == Constrain((2 * (1500 * One + 500 * n) + One) \div (2 * One), 1000, 2000)

(* switchFromOutput.                                                       *)
SwitchLevel(out, n) == IF Magnitude(n) >= Percent(Constrain(out.threshold, 0, 100)) THEN HIGH ELSE LOW

Driven(out, n) == IF out.type = "pwm" THEN Pulse(n) ELSE SwitchLevel(out, n)

(* pwmFailsafeUs, and what writeFailsafeForOutput shows and writes.        *)
FailsafeUs(mode) == CASE mode = "Min" -> 1000 [] mode = "Max" -> 2000 [] OTHER -> 1500

FailsafeShown(out) ==
    IF out.type = "pwm"
    THEN CASE FailsafeUs(out.failsafe) <= 1000 -> -One
           [] FailsafeUs(out.failsafe) >= 2000 -> One
           [] OTHER -> 0
    ELSE 0

FailsafeLevel(out) == IF out.type = "pwm" THEN FailsafeUs(out.failsafe) ELSE LOW

-----------------------------------------------------------------------------
(* VirtualInputConfig() and OutputChannelConfig().                         *)
NoInput == [used |-> FALSE, primary |-> "None", secondary |-> "None", modifier |-> "None",
            modifierFunction |-> "None", deadzone |-> 10, expo |-> 0]

NoTerm == [source |-> -1, weight |-> 0, offset |-> 0]

NoOutput == [used |-> FALSE, type |-> "pwm", inverted |-> FALSE, threshold |-> 50,
             failsafe |-> "Center", mixMode |-> "Multiply",
             terms |-> <<[NoTerm EXCEPT !.weight = 100], NoTerm, NoTerm>>]

Init ==
    /\ g_virtualInputs = [i \in Inputs |-> NoInput]
    /\ g_outputs = [o \in Outputs |-> NoOutput]
    /\ g_virtualRuntime = [i \in Inputs |-> 0]
    /\ g_outputRuntime = [o \in Outputs |-> 0] /\ level = [o \in Outputs |-> 1500]
    /\ pad = Rest /\ cleared = {} /\ unrestored = {}

(* writeFailsafeForOutput for all outputs in use: applyFailsafeAllOutputs, *)
(* and the end of each setupOutputHardware of a rebuild.                   *)
FailsafeAll(outs) ==
    /\ level' = [o \in Outputs |-> IF outs[o].used THEN FailsafeLevel(outs[o]) ELSE level[o]]
    /\ g_outputRuntime' = [o \in Outputs |-> IF outs[o].used THEN FailsafeShown(outs[o])
                                             ELSE g_outputRuntime[o]]

FirstFree(S, i) == i \in S /\ \A j \in S : i <= j

-----------------------------------------------------------------------------
(* The requests.  A draft holds the numbers as they were sent.             *)

(* parseVirtualFromRequest.                                                *)
ParseVirtual(d) ==
    [d EXCEPT !.deadzone = Constrain(@, 0, 95), !.expo = Constrain(@, 0, 100)]

ParseTerm(t) ==
    [source |-> Constrain(t.source, -1, NumInputs - 1),
     weight |-> Constrain(t.weight, -100, 100),
     offset |-> Constrain(t.offset, -100, 100)]

(* parseOutputFromRequest.                                                 *)
ParseOutput(d) ==
    [d EXCEPT !.threshold = Constrain(@, 0, 100),
              !.terms = [k \in 1 .. 3 |-> ParseTerm(@[k])]]

(* handleApiVirtualAdd.                                                    *)
VirtualAdd(draft) ==
    \E i \in Inputs :
      /\ FirstFree({j \in Inputs : ~g_virtualInputs[j].used}, i)
      /\ g_virtualInputs' = [g_virtualInputs EXCEPT ![i] = ParseVirtual(draft)]
      /\ UNCHANGED <<g_outputs, g_virtualRuntime, g_outputRuntime, level, pad, cleared, unrestored>>

(* handleApiVirtualUpdate.                                                 *)
VirtualUpdate(i, draft) ==
    /\ g_virtualInputs[i].used
    /\ g_virtualInputs' = [g_virtualInputs EXCEPT ![i] = ParseVirtual(draft)]
    /\ UNCHANGED <<g_outputs, g_virtualRuntime, g_outputRuntime, level, pad, cleared, unrestored>>

(* Mutant: a term of the deleted input keeps its weight and offset.        *)
VirtualDeleteKeepsOffset(i) ==
    /\ g_virtualInputs[i].used
    /\ g_virtualInputs' = [g_virtualInputs EXCEPT ![i] = NoInput]
    /\ g_outputs' = [o \in Outputs |->
         [g_outputs[o] EXCEPT !.terms = [k \in 1 .. 3 |->
            IF g_outputs[o].used /\ @[k].source = i THEN [@[k] EXCEPT !.source = -1] ELSE @[k]]]]
    /\ cleared' = cleared \cup {i}
    /\ UNCHANGED <<g_virtualRuntime, g_outputRuntime, level, pad, unrestored>>

(* Mutant: the third source is forgotten.                                  *)
VirtualDeleteTwoTerms(i) ==
    /\ g_virtualInputs[i].used
    /\ g_virtualInputs' = [g_virtualInputs EXCEPT ![i] = NoInput]
    /\ g_outputs' = [o \in Outputs |->
         [g_outputs[o] EXCEPT !.terms = [k \in 1 .. 3 |->
            IF k # 3 /\ g_outputs[o].used /\ @[k].source = i THEN NoTerm ELSE @[k]]]]
    /\ cleared' = cleared \cup {i}
    /\ UNCHANGED <<g_virtualRuntime, g_outputRuntime, level, pad, unrestored>>

(* handleApiVirtualDelete: the terms of the used outputs that name the     *)
(* input are cleared.  No rebuild follows, and no value is reset.          *)
VirtualDelete(i) ==
    /\ g_virtualInputs[i].used
    /\ g_virtualInputs' = [g_virtualInputs EXCEPT ![i] = NoInput]
    /\ g_outputs' = [o \in Outputs |->
         [g_outputs[o] EXCEPT !.terms = [k \in 1 .. 3 |->
            IF g_outputs[o].used /\ @[k].source = i THEN NoTerm ELSE @[k]]]]
    /\ cleared' = cleared \cup {i}
    /\ UNCHANGED <<g_virtualRuntime, g_outputRuntime, level, pad, unrestored>>

Named(out) == {out.terms[k].source : k \in 1 .. 3}

(* Store an output and rebuild the hardware of all.                        *)
StoreOutput(o, out) ==
    LET outs == [g_outputs EXCEPT ![o] = out]
    IN  /\ g_outputs' = outs
        /\ FailsafeAll(outs) /\ unrestored' = {}
        /\ cleared' = cleared \ (Named(out) \ Named(g_outputs[o]))
        /\ UNCHANGED <<g_virtualInputs, g_virtualRuntime, pad>>

(* handleApiOutputAdd.                                                     *)
OutputAdd(draft) ==
    \E o \in Outputs :
      /\ FirstFree({j \in Outputs : ~g_outputs[j].used}, o)
      /\ StoreOutput(o, ParseOutput(draft))

(* handleApiOutputUpdate: without allow_rewire the wiring is kept.         *)
OutputUpdate(o, draft, allowRewire) ==
    /\ g_outputs[o].used
    /\ LET parsed == ParseOutput(draft)
       IN  StoreOutput(o, IF allowRewire THEN parsed
                          ELSE [g_outputs[o] EXCEPT !.inverted = parsed.inverted,
                                  !.threshold = parsed.threshold,
                                  !.failsafe = parsed.failsafe])

(* handleApiOutputDelete.                                                  *)
OutputDelete(o) ==
    /\ g_outputs[o].used
    /\ StoreOutput(o, NoOutput)

(* What a refused request leaves behind: the channels in tried were set up *)
(* as outs says, those in again were then set up as they had been, and not *)
(* the servos in lost, nor the switches in lost, whose pins were written.  *)
Undone(tried, outs, again, lost) ==
    LET switches == {o \in Outputs : g_outputs[o].used /\ g_outputs[o].type = "switch"}
    IN  /\ level' = [o \in Outputs |->
             IF o \in again THEN FailsafeLevel(g_outputs[o])
             ELSE IF o \in lost \cap switches THEN LOW ELSE level[o]]
        /\ g_outputRuntime' = [o \in Outputs |->
             IF o \in again THEN FailsafeShown(g_outputs[o])
             ELSE IF o \in tried THEN FailsafeShown(outs[o]) ELSE g_outputRuntime[o]]
        /\ unrestored' = (((unrestored \cup tried) \cap switches) \ again) \cup lost
        /\ UNCHANGED <<config, g_virtualRuntime, pad, cleared>>

(* An add, update or delete that finds no pin: the previous configuration  *)
(* is put back and rebuilt.  A draft that was added may have been set up   *)
(* in its place before another channel failed.  The second rebuild may     *)
(* fail only if a servo was missing before; its result is ignored.         *)
OutputRejected(o, draft) ==
    LET used   == {j \in Outputs : g_outputs[j].used}
        servos == {j \in used : g_outputs[j].type = "pwm"}
    IN  /\ o \in used \/ FirstFree(Outputs \ used, o)
        /\ \E tried \in SUBSET {o}, again \in SUBSET used :
             /\ unrestored \cap servos = {} => again = used
             /\ Undone(tried, [g_outputs EXCEPT ![o] = ParseOutput(draft)], again, servos \ again)

SourcesValid(out) == Named(out) \subseteq Inputs \cup {-1}

(* Mutant: restoreOld sets up no former output again.                      *)
ApplyRefusedNoSetup(preset, f) ==
    LET tried == {o \in Outputs : o < f /\ preset.outputs[o].used}
    IN  /\ preset.outputs[f].used
        /\ \A o \in tried : SourcesValid(preset.outputs[o])
        /\ Undone(tried, preset.outputs, {}, {})

(* applyPersistedConfig, refused at channel f because of a source or a     *)
(* pin: the channels before f have been set up.  restoreOld sets up again  *)
(* the former outputs with g_pwmAttached set, if they find a pin: servos,  *)
(* and a switch only with the flag of a servo deleted before it.  The      *)
(* preset, or a servo that was moved, may have had the pins of switches.   *)
ApplyRefused(preset, f) ==
    LET tried  == {o \in Outputs : o < f /\ preset.outputs[o].used}
        used   == {o \in Outputs : g_outputs[o].used}
        servos == {o \in used : g_outputs[o].type = "pwm"}
    IN  /\ preset.outputs[f].used
        /\ \A o \in tried : SourcesValid(preset.outputs[o])
        /\ \E again \in SUBSET used, low \in SUBSET (used \ servos) :
             /\ low # {} => tried \cup servos # {}
             /\ Undone(tried, preset.outputs, again, (servos \cup low) \ again)

(* applyPersistedConfig, accepted: the sources are valid, the numbers are  *)
(* limited, and what is not in use starts from scratch.                    *)
ApplyPreset(preset) ==
    /\ \A o \in Outputs : preset.outputs[o].used => SourcesValid(preset.outputs[o])
    /\ g_virtualInputs' = [i \in Inputs |->
          IF preset.inputs[i].used THEN ParseVirtual(preset.inputs[i]) ELSE NoInput]
    /\ g_outputs' = [o \in Outputs |->
          IF preset.outputs[o].used THEN ParseOutput(preset.outputs[o]) ELSE NoOutput]
    /\ FailsafeAll(g_outputs') /\ unrestored' = {}
    /\ cleared' = cleared \ UNION {Named(g_outputs'[o]) : o \in Outputs}
    /\ UNCHANGED <<g_virtualRuntime, pad>>

-----------------------------------------------------------------------------
(* The control tick.                                                       *)

(* Mutant: an input that is not in use keeps its last value.               *)
RuntimeOfUsedOnly(p) ==
    [i \in Inputs |-> IF g_virtualInputs[i].used THEN VirtualValue(g_virtualInputs[i], p)
                      ELSE g_virtualRuntime[i]]

(* evaluateVirtualRuntime.                                                 *)
Runtime(p) == [i \in Inputs |-> VirtualValue(g_virtualInputs[i], p)]

(* A fresh report: processGamepadToOutputs.                                *)
TickDrive(p) ==
    /\ pad' = p
    /\ g_virtualRuntime' = Runtime(p)
    /\ g_outputRuntime' = [o \in Outputs |->
         IF g_outputs[o].used THEN OutputSignal(g_outputs[o], g_virtualRuntime') ELSE 0]
    /\ level' = [o \in Outputs |->
         IF g_outputs[o].used
         THEN Driven(g_outputs[o], OutputSignal(g_outputs[o], g_virtualRuntime'))
         ELSE level[o]]
    /\ unrestored' = {o \in unrestored : g_outputs[o].type = "pwm"}
    /\ UNCHANGED <<config, cleared>>

(* No report for too long, or no gamepad: in the latter case the inputs    *)
(* show 0.                                                                 *)
TickFailsafe(linked) ==
    /\ g_virtualRuntime' = IF linked THEN g_virtualRuntime ELSE [i \in Inputs |-> 0]
    /\ FailsafeAll(g_outputs)
    /\ unrestored' = {o \in unrestored : g_outputs[o].type = "pwm"}
    /\ UNCHANGED <<config, pad, cleared>>

Next ==
    \/ \E d \in InputDrafts : VirtualAdd(d) \/ \E i \in Inputs : VirtualUpdate(i, d)
    \/ \E i \in Inputs : VirtualDelete(i)
    \/ \E d \in OutputDrafts :
         \/ OutputAdd(d)
         \/ \E o \in Outputs, allowRewire \in BOOLEAN : OutputUpdate(o, d, allowRewire)
         \/ \E o \in Outputs : OutputRejected(o, d)
    \/ \E o \in Outputs : OutputDelete(o)
    \/ \E preset \in Presets :
         ApplyPreset(preset) \/ \E f \in Outputs : ApplyRefused(preset, f)
    \/ \E p \in Reports : TickDrive(p)
    \/ \E linked \in BOOLEAN : TickFailsafe(linked)

Spec == Init /\ [][Next]_vars

-----------------------------------------------------------------------------
(* Properties.                                                             *)

InputOK(in) == in \in InputConfigs /\ in.deadzone \in 0 .. 95 /\ in.expo \in 0 .. 100

TermOK(t) ==
    /\ t.source \in -1 .. NumInputs - 1
    /\ t.weight \in -100 .. 100 /\ t.offset \in -100 .. 100

OutputOK(out) ==
    /\ out \in OutputConfigs /\ out.threshold \in 0 .. 100
    /\ \A k \in 1 .. 3 : TermOK(out.terms[k])

(* A level the pin of an output may have.                                  *)
LevelOK(out, l) == l \in IF out.type = "pwm" THEN 1000 .. 2000 ELSE {LOW, HIGH}

(* Also: no value shown leaves -1 .. 1 and no pulse 1000 .. 2000 us,       *)
(* whatever weights and offsets add up to.                                 *)
TypeOK ==
    /\ g_virtualInputs \in [Inputs -> InputConfigs] /\ g_outputs \in [Outputs -> OutputConfigs]
    /\ \A i \in Inputs : InputOK(g_virtualInputs[i])
    /\ \A o \in Outputs : OutputOK(g_outputs[o])
    /\ g_virtualRuntime \in [Inputs -> -One .. One]
    /\ g_outputRuntime \in [Outputs -> -One .. One]
    /\ \A o \in Outputs : g_outputs[o].used => LevelOK(g_outputs[o], level[o])
    /\ pad \in Reports \cup {Rest} /\ cleared \subseteq Inputs /\ unrestored \subseteq Outputs

(* A level that fits what is shown.                                        *)
Fits(out, l, n) ==
    \/ l = Driven(out, n)
    \/ out.type = "switch" /\ l = LOW /\ n = 0

(* What the page shows of an output in use is what its pin was told,       *)
(* through requests, refused ones too, reports and signal losses: the      *)
(* pulse is that of the value shown, and a switch is as the value shown    *)
(* says or is held low with 0 shown.  It fails only where restoreOld has   *)
(* not brought an output back: for a PWM output without a servo until the  *)
(* next edit or preset, for a switch whose pin or value shown the refused  *)
(* preset has written until the next tick, too.                            *)
ShownIsDriven ==
    \A o \in Outputs :
        g_outputs[o].used =>
            Fits(g_outputs[o], level[o], g_outputRuntime[o]) \/ o \in unrestored

(* A deleted input is forgotten by every output: one that is added later   *)
(* in its place moves nothing until a request or a preset names it as the  *)
(* source of an output.                                                    *)
NoGhostSource ==
    \A o \in Outputs : Named(g_outputs[o]) \cap cleared = {}

(* The sum or the product of the terms at some of the three places.        *)
MixOf(mixMode, terms, places, rt) ==
    LET term(k)     == IF k \in places THEN Term(terms[k], rt) ELSE 0
        times(a, k) == IF k \in places THEN Times(a, terms[k], rt) ELSE a
    IN  IF mixMode # "Multiply" THEN term(1) + term(2) + term(3)
        ELSE IF \E k \in places : HasTerm(terms[k]) THEN times(times(times(One, 1), 2), 3)
        ELSE 0

(* Deleting an input takes its own terms out of each mix and leaves the    *)
(* others as they are: the sum or the product of the other terms is what   *)
(* the output makes of any values of the remaining inputs.                 *)
DeleteKeepsOtherTerms ==
    [][\A i \in Inputs, o \in Outputs :
         VirtualDelete(i) /\ g_outputs[o].used =>
            LET others == {k \in 1 .. 3 : g_outputs[o].terms[k].source # i}
            IN  \A rt \in [Inputs -> {-One, 0, One \div 2}] :
                  Mix(g_outputs'[o].mixMode, g_outputs'[o].terms, rt) =
                  MixOf(g_outputs[o].mixMode, g_outputs[o].terms, others, rt)]_vars

(* All sticks are within the dead zones of the inputs that read them.      *)
WithinDeadzones(p) ==
    \A i \in Inputs : LET in == g_virtualInputs[i] IN
        in.used => Magnitude(Raw(in, p)) <= Percent(in.deadzone)

(* Noise of the sticks inside the dead zones moves nothing: a report with  *)
(* all controls in them leaves each output without offsets in neutral, and *)
(* each such switch low unless its threshold is 0, however inputs were     *)
(* deleted and replaced before.                                            *)
NoiseMovesNothing ==
    [][WithinDeadzones(pad') /\ TickDrive(pad') =>
            \A o \in Outputs :
               g_outputs[o].used /\ (\A k \in 1 .. 3 : g_outputs[o].terms[k].offset = 0) =>
                  IF g_outputs[o].type = "pwm" THEN level'[o] = 1500
                  ELSE level'[o] = LOW \/ g_outputs[o].threshold = 0]_vars

(* The learn function finds the control the user means.  The comment in    *)
(* detectDominantInput: "Ordered by interaction intent: buttons first,     *)
(* then analog controls."  The first pressed button wins over any stick;   *)
(* else the strongest stick or trigger beyond its threshold, the first of  *)
(* equals; and nothing if there is none.                                   *)
LearnFindsIntent ==
    LET strength(c) == Magnitude(Normalized(c, pad))
        pressed == {k \in DOMAIN Buttons : strength(Buttons[k]) >= Percent(50)}
        moved   == {k \in DOMAIN Analogs : strength(Analogs[k]) >= Threshold(Analogs[k])}
        hit     == Learned[pad]
    IN  CASE pressed # {} -> \E k \in pressed : hit = Buttons[k] /\ \A j \in pressed : k <= j
          [] pressed = {} /\ moved # {} ->
                \E k \in moved :
                    /\ hit = Analogs[k]
                    /\ \A j \in moved \ {k} :
                         \/ strength(Analogs[k]) > strength(Analogs[j])
                         \/ strength(Analogs[k]) = strength(Analogs[j]) /\ k < j
          [] OTHER -> hit = "None"

(* An output that is not in use names no input: what a deletion skips.     *)
UnusedNamesNone ==
    \A o \in Outputs : ~g_outputs[o].used => Named(g_outputs[o]) = {-1}

(* The inductive invariant of the signal path.                             *)
SignalInv == TypeOK /\ ShownIsDriven /\ NoGhostSource /\ UnusedNamesNone
=============================================================================
