-------------------------- MODULE SignalPathProofs --------------------------
(* Proofs about SignalPath, for any number of inputs and outputs, any      *)
(* reports within the range of the sticks and any numbers in the requests. *)
EXTENDS SignalPath, WellFoundedInduction, TLAPS

USE DEF config, vars

-----------------------------------------------------------------------------
(* Arithmetic.                                                             *)

(* The number that stands for 1.                                           *)
LEMMA OneIsPositive == One \in Nat \ {0} /\ One \in Int /\ -One \in Int /\ -One <= One
  BY DEF One

(* constrain() gives a number between its limits, and leaves one alone     *)
(* that is.                                                                *)
LEMMA ConstrainRange ==
  ASSUME NEW v \in Int, NEW lo \in Int, NEW hi \in Int, lo <= hi
  PROVE  /\ Constrain(v, lo, hi) \in lo .. hi
         /\ v \in lo .. hi => Constrain(v, lo, hi) = v
  BY DEF Constrain

(* A quotient is a whole number, and that of 0 is 0.                       *)
LEMMA QuotInt ==
  ASSUME NEW a \in Int, NEW b \in Nat \ {0}
  PROVE  Quot(a, b) \in Int /\ (a = 0 => Quot(a, b) = 0)
  BY DEF Quot

(* A report holds numbers.                                                 *)
LEMMA ReportInt ==
  ASSUME NEW p \in Reports \cup {Rest}, NEW c \in Controls PROVE p[c] \in Int
<1>1. CASE p \in Reports
  <2>1. CASE c \in Centered
    BY <1>1, <2>1, SignalPathAssumption
  <2>2. CASE c \in Positive
    BY <1>1, <2>2, SignalPathAssumption
  <2>3. CASE c \in Digital
    BY <1>1, <2>3, SignalPathAssumption
  <2> QED BY <2>1, <2>2, <2>3 DEF Controls
<1>2. CASE p = Rest
  BY <1>2 DEF Rest
<1> QED BY <1>1, <1>2

(* A control gives a number, whatever it is.                               *)
LEMMA NormalizedInt ==
  ASSUME NEW p \in Reports \cup {Rest}, NEW c \in Controls \cup {"None"}
  PROVE  Normalized(c, p) \in Int
<1>1. CASE c \in Centered
  <2>1. p[c] \in Int
    BY <1>1, ReportInt DEF Controls
  <2>2. p[c] * One \in Int
    BY <2>1 DEF One
  <2>3. Constrain(Quot(p[c] * One, 512), -One, One) \in Int
    <3>1. Quot(p[c] * One, 512) \in Int
      BY <2>2, QuotInt
    <3> QED BY <3>1 DEF Constrain, One
  <2>4. Normalized(c, p) = Constrain(Quot(p[c] * One, 512), -One, One)
    BY <1>1 DEF Normalized, Centered, Positive, Digital
  <2> QED BY <2>3, <2>4
<1>2. CASE c \in Positive
  <2>1. p[c] \in Int
    BY <1>2, ReportInt DEF Controls
  <2>2. p[c] * One \in Int
    BY <2>1 DEF One
  <2>3. Constrain(Quot(p[c] * One, 1023), 0, One) \in Int
    <3>1. Quot(p[c] * One, 1023) \in Int
      BY <2>2, QuotInt
    <3> QED BY <3>1 DEF Constrain, One
  <2>4. Normalized(c, p) = Constrain(Quot(p[c] * One, 1023), 0, One)
    BY <1>2 DEF Normalized, Centered, Positive, Digital
  <2> QED BY <2>3, <2>4
<1>3. CASE c \in Digital
  <2>1. Normalized(c, p) = IF p[c] # 0 THEN One ELSE 0
    BY <1>3 DEF Normalized, Centered, Positive, Digital
  <2> QED BY <2>1 DEF One
<1>4. CASE c = "None"
  BY <1>4 DEF Normalized, Centered, Positive, Digital
<1> QED BY <1>1, <1>2, <1>3, <1>4 DEF Controls

(* The dead zone: nothing inside it, a number outside.                     *)
LEMMA DeadzoneInt ==
  ASSUME NEW v \in Int, NEW dz \in 0 .. 95
  PROVE  /\ ApplyDeadzoneSigned(v, dz) \in Int
         /\ Magnitude(v) <= Percent(dz) => ApplyDeadzoneSigned(v, dz) = 0
<1>1. Constrain(dz, 0, 95) = dz
  BY DEF Constrain
<1>2. Percent(dz) \in Nat /\ One - Percent(dz) \in Nat \ {0} /\ Magnitude(v) \in Nat
  BY DEF Percent, One, Magnitude
<1>3. ((Magnitude(v) - Percent(dz)) * One) \div (One - Percent(dz)) \in Int
  BY <1>2 DEF One
<1> QED BY <1>1, <1>2, <1>3 DEF ApplyDeadzoneSigned, Signed

(* The expo curve stays between -1 and 1 and keeps 0.                      *)
LEMMA ExpoRange ==
  ASSUME NEW v \in Int, NEW expo \in Int
  PROVE  /\ ApplyExpoSigned(v, expo) \in -One .. One
         /\ v = 0 => ApplyExpoSigned(v, expo) = 0
<1> DEFINE a == Magnitude(v)
<1> DEFINE square == (a * a) \div One
<1> DEFINE cube == (square * a) \div One
<1> DEFINE power == CASE expo <= 0 -> a [] expo = 50 -> square [] OTHER -> cube
<1>1. a \in Nat /\ (v = 0 => a = 0)
  BY DEF Magnitude
<1>2. square \in Int /\ (v = 0 => square = 0)
  BY <1>1 DEF One
<1>3. cube \in Int /\ (v = 0 => cube = 0)
  <2> HIDE DEF a, square
  <2> QED BY <1>1, <1>2 DEF One
<1>4. power \in {a, square, cube}
  <2> HIDE DEF a, square, cube
  <2> QED OBVIOUS
<1>5. ApplyExpoSigned(v, expo) = Constrain(Signed(v, power), -One, One)
  BY DEF ApplyExpoSigned
<1> HIDE DEF a, square, cube, power
<1>6. power \in Int /\ (v = 0 => power = 0)
  BY <1>1, <1>2, <1>3, <1>4
<1>7. Signed(v, power) \in Int /\ (v = 0 => Signed(v, power) = 0)
  BY <1>6 DEF Signed
<1>8. -One \in Int /\ One \in Int /\ -One <= One /\ 0 \in -One .. One
  BY DEF One
<1> QED BY <1>5, <1>7, <1>8, ConstrainRange

(* The combined controls of an input are a number.                         *)
LEMMA RawInt ==
  ASSUME NEW in \in InputConfigs, NEW p \in Reports \cup {Rest} PROVE Raw(in, p) \in Int
<1>1. Normalized(in.primary, p) \in Int /\ Normalized(in.secondary, p) \in Int
  BY NormalizedInt DEF InputConfigs
<1>2. Constrain(Normalized(in.primary, p) - Normalized(in.secondary, p), -One, One) \in Int
  BY <1>1, ConstrainRange DEF One
<1> QED BY <1>2 DEF Raw

(* evaluateVirtualInput stays between -1 and 1, and is 0 for an input not  *)
(* in use and within the dead zone.                                        *)
LEMMA VirtualRange ==
  ASSUME NEW in \in InputConfigs, NEW p \in Reports \cup {Rest}, in.deadzone \in 0 .. 95
  PROVE  /\ VirtualValue(in, p) \in -One .. One
         /\ (in.used => Magnitude(Raw(in, p)) <= Percent(in.deadzone)) => VirtualValue(in, p) = 0
<1> DEFINE d == ApplyDeadzoneSigned(Raw(in, p), in.deadzone)
<1>1. /\ d \in Int
      /\ Magnitude(Raw(in, p)) <= Percent(in.deadzone) => d = 0
  BY RawInt, DeadzoneInt
<1>2. in.expo \in Int
  BY DEF InputConfigs
<1>3. VirtualValue(in, p) = 0 \/ (in.used /\ VirtualValue(in, p) = ApplyExpoSigned(d, in.expo))
  BY DEF VirtualValue
<1> HIDE DEF d
<1>4. ApplyExpoSigned(d, in.expo) \in -One .. One /\ (d = 0 => ApplyExpoSigned(d, in.expo) = 0)
  BY <1>1, <1>2, ExpoRange
<1>5. 0 \in -One .. One
  BY DEF One
<1> QED BY <1>1, <1>3, <1>4, <1>5

-----------------------------------------------------------------------------
(* Outputs.                                                                *)

(* What the page shows of the inputs.                                      *)
Values == [Inputs -> -One .. One]

(* A term is a number, and 0 without an offset when all inputs are 0.      *)
LEMMA TermInt ==
  ASSUME NEW t \in TermConfigs, NEW rt \in Values
  PROVE  /\ Term(t, rt) \in Int
         /\ (\A i \in Inputs : rt[i] = 0) /\ t.offset = 0 => Term(t, rt) = 0
<1>1. /\ SourceValue(t.source, rt) \in Int
      /\ (\A i \in Inputs : rt[i] = 0) => SourceValue(t.source, rt) = 0
  <2>1. CASE t.source \in Inputs
    <3>1. SourceValue(t.source, rt) = rt[t.source]
      BY <2>1 DEF SourceValue
    <3>2. rt[t.source] \in -One .. One
      BY <2>1 DEF Values
    <3>3. rt[t.source] \in Int
      BY <3>2, OneIsPositive
    <3> QED BY <2>1, <3>1, <3>3
  <2>2. CASE t.source \notin Inputs
    <3>1. SourceValue(t.source, rt) = 0
      BY <2>2 DEF SourceValue
    <3> QED BY <3>1
  <2> QED BY <2>1, <2>2
<1>2. t.weight \in Int /\ t.offset \in Int
  BY DEF TermConfigs
<1>3. /\ SourceValue(t.source, rt) * t.weight \in Int
      /\ SourceValue(t.source, rt) = 0 => SourceValue(t.source, rt) * t.weight = 0
  BY <1>1, <1>2
<1>4. /\ Quot(SourceValue(t.source, rt) * t.weight, 100) \in Int
      /\ SourceValue(t.source, rt) = 0 => Quot(SourceValue(t.source, rt) * t.weight, 100) = 0
  BY <1>3, QuotInt
<1>5. Percent(t.offset) \in Int /\ (t.offset = 0 => Percent(t.offset) = 0)
  BY <1>2 DEF Percent, One
<1> QED BY <1>1, <1>4, <1>5 DEF Term

(* So is a product with it.                                                *)
LEMMA TimesInt ==
  ASSUME NEW a \in Int, NEW t \in TermConfigs, NEW rt \in Values
  PROVE  /\ Times(a, t, rt) \in Int
         /\ a = 0 => Times(a, t, rt) = 0
         /\ Term(t, rt) = 0 /\ HasTerm(t) => Times(a, t, rt) = 0
<1>1. Term(t, rt) \in Int
  BY TermInt
<1>2. /\ a * Term(t, rt) \in Int
      /\ a = 0 \/ Term(t, rt) = 0 => a * Term(t, rt) = 0
  BY <1>1
<1>3. /\ Quot(a * Term(t, rt), One) \in Int
      /\ a = 0 \/ Term(t, rt) = 0 => Quot(a * Term(t, rt), One) = 0
  BY <1>2, QuotInt DEF One
<1> QED BY <1>3 DEF Times

(* A mix of three terms.                                                   *)
LEMMA MixInt ==
  ASSUME NEW terms \in [1 .. 3 -> TermConfigs], NEW rt \in Values, NEW mixMode
  PROVE  /\ Mix(mixMode, terms, rt) \in Int
         /\ (\A k \in 1 .. 3 : Term(terms[k], rt) = 0) => Mix(mixMode, terms, rt) = 0
<1>1. /\ terms[1] \in TermConfigs /\ terms[2] \in TermConfigs /\ terms[3] \in TermConfigs
  OBVIOUS
<1>2. \A k \in 1 .. 3 : Term(terms[k], rt) \in Int
  BY TermInt
<1> DEFINE a == Times(One, terms[1], rt)
<1> DEFINE b == Times(a, terms[2], rt)
<1> DEFINE c == Times(b, terms[3], rt)
<1>3. a \in Int /\ (Term(terms[1], rt) = 0 /\ HasTerm(terms[1]) => a = 0)
  BY <1>1, TimesInt, OneIsPositive
<1>4. /\ b \in Int
      /\ a = 0 => b = 0
      /\ Term(terms[2], rt) = 0 /\ HasTerm(terms[2]) => b = 0
  <2> HIDE DEF a
  <2> QED BY <1>1, <1>3, TimesInt
<1>5. /\ c \in Int
      /\ b = 0 => c = 0
      /\ Term(terms[3], rt) = 0 /\ HasTerm(terms[3]) => c = 0
  <2> HIDE DEF a, b
  <2> QED BY <1>1, <1>4, TimesInt
<1>6. Mix(mixMode, terms, rt) =
        IF mixMode = "Multiply"
        THEN IF \E k \in 1 .. 3 : HasTerm(terms[k]) THEN c ELSE 0
        ELSE Term(terms[1], rt) + Term(terms[2], rt) + Term(terms[3], rt)
  BY DEF Mix
<1> HIDE DEF a, b, c
<1>7. \A k \in 1 .. 3 : k = 1 \/ k = 2 \/ k = 3
  OBVIOUS
<1>8. ASSUME \A k \in 1 .. 3 : Term(terms[k], rt) = 0, \E k \in 1 .. 3 : HasTerm(terms[k])
      PROVE  c = 0
  <2>1. Term(terms[1], rt) = 0 /\ Term(terms[2], rt) = 0 /\ Term(terms[3], rt) = 0
    BY <1>8
  <2>2. HasTerm(terms[1]) \/ HasTerm(terms[2]) \/ HasTerm(terms[3])
    BY <1>7, <1>8
  <2> QED BY <1>3, <1>4, <1>5, <2>1, <2>2
<1>9. /\ Term(terms[1], rt) + Term(terms[2], rt) + Term(terms[3], rt) \in Int
      /\ (\A k \in 1 .. 3 : Term(terms[k], rt) = 0) =>
            Term(terms[1], rt) + Term(terms[2], rt) + Term(terms[3], rt) = 0
  BY <1>2
<1>10. CASE mixMode = "Multiply" /\ \E k \in 1 .. 3 : HasTerm(terms[k])
  <2>1. Mix(mixMode, terms, rt) = c
    BY <1>6, <1>10
  <2> QED BY <1>5, <1>8, <1>10, <2>1
<1>11. CASE mixMode = "Multiply" /\ ~ \E k \in 1 .. 3 : HasTerm(terms[k])
  <2>1. Mix(mixMode, terms, rt) = 0
    BY <1>6, <1>11
  <2> QED BY <2>1
<1>12. CASE mixMode # "Multiply"
  <2>1. Mix(mixMode, terms, rt) = Term(terms[1], rt) + Term(terms[2], rt) + Term(terms[3], rt)
    BY <1>6, <1>12
  <2> QED BY <1>9, <2>1
<1> QED BY <1>10, <1>11, <1>12

(* evaluateOutputSignal stays between -1 and 1.                            *)
LEMMA SignalRange ==
  ASSUME NEW out \in OutputConfigs, NEW rt \in Values
  PROVE  /\ OutputSignal(out, rt) \in -One .. One
         /\ Mix(out.mixMode, out.terms, rt) = 0 => OutputSignal(out, rt) = 0
<1>1. Mix(out.mixMode, out.terms, rt) \in Int
  BY MixInt DEF OutputConfigs
<1> DEFINE v == Mix(out.mixMode, out.terms, rt)
<1> DEFINE w == Constrain(v, -One, One)
<1>2. OutputSignal(out, rt) = w \/ OutputSignal(out, rt) = -w
  BY DEF OutputSignal
<1> HIDE DEF v
<1>3. w \in -One .. One /\ (v = 0 => w = 0)
  BY <1>1, OneIsPositive DEF Constrain, v
<1> HIDE DEF w
<1>4. OutputSignal(out, rt) \in -One .. One /\ (v = 0 => OutputSignal(out, rt) = 0)
  BY <1>2, <1>3, OneIsPositive
<1> QED BY <1>4 DEF v

(* What a driven output is told.                                           *)
LEMMA DrivenRange ==
  ASSUME NEW out \in OutputConfigs, NEW n \in -One .. One
  PROVE  Driven(out, n) \in IF out.type = "pwm" THEN 1000 .. 2000 ELSE {LOW, HIGH}
<1>1. (2 * (1500 * One + 500 * n) + One) \div (2 * One) \in Int
  BY DEF One
<1>2. Pulse(n) \in 1000 .. 2000
  BY <1>1 DEF Pulse, Constrain
<1>3. SwitchLevel(out, n) \in {LOW, HIGH}
  BY DEF SwitchLevel
<1> QED BY <1>2, <1>3 DEF Driven

(* The pulse of -1, 0 and 1.                                               *)
LEMMA PulseAtEnds == Pulse(-One) = 1000 /\ Pulse(0) = 1500 /\ Pulse(One) = 2000
<1>1. /\ (2 * (1500 * One + 500 * (-One)) + One) \div (2 * One) = 1000
      /\ (2 * (1500 * One + 500 * 0) + One) \div (2 * One) = 1500
      /\ (2 * (1500 * One + 500 * One) + One) \div (2 * One) = 2000
  BY DEF One
<1> QED BY <1>1 DEF Pulse, Constrain

(* What failsafe shows is what it writes.                                  *)
LEMMA FailsafeMatches ==
  ASSUME NEW out \in OutputConfigs
  PROVE  /\ FailsafeShown(out) \in -One .. One
         /\ FailsafeLevel(out) \in IF out.type = "pwm" THEN 1000 .. 2000 ELSE {LOW, HIGH}
         /\ \/ FailsafeLevel(out) = Driven(out, FailsafeShown(out))
            \/ out.type = "switch" /\ FailsafeLevel(out) = LOW /\ FailsafeShown(out) = 0
<1>0. 0 \in -One .. One /\ One \in -One .. One /\ -One \in -One .. One
  BY DEF One
<1>1. CASE out.type = "pwm"
  <2>1. \/ FailsafeUs(out.failsafe) = 1000 /\ FailsafeShown(out) = -One
        \/ FailsafeUs(out.failsafe) = 1500 /\ FailsafeShown(out) = 0
        \/ FailsafeUs(out.failsafe) = 2000 /\ FailsafeShown(out) = One
    <3>1. FailsafeUs(out.failsafe) \in {1000, 1500, 2000}
      BY DEF FailsafeUs, OutputConfigs
    <3> QED BY <1>1, <3>1 DEF FailsafeShown
  <2>2. FailsafeLevel(out) = FailsafeUs(out.failsafe)
    BY <1>1 DEF FailsafeLevel
  <2>3. Driven(out, FailsafeShown(out)) = Pulse(FailsafeShown(out))
    BY <1>1 DEF Driven
  <2> QED BY <1>0, <1>1, <2>1, <2>2, <2>3, PulseAtEnds
<1>2. CASE out.type = "switch"
  BY <1>0, <1>2 DEF FailsafeShown, FailsafeLevel
<1> QED BY <1>1, <1>2 DEF OutputConfigs

-----------------------------------------------------------------------------
(* The invariant, by input and by output.                                  *)

ConfigOK ==
  /\ g_virtualInputs \in [Inputs -> InputConfigs] /\ g_outputs \in [Outputs -> OutputConfigs]
  /\ \A i \in Inputs : InputOK(g_virtualInputs[i])
  /\ \A o \in Outputs : OutputOK(g_outputs[o])

ShownOK ==
  /\ g_virtualRuntime \in Values
  /\ g_outputRuntime \in [Outputs -> -One .. One]
  /\ \A o \in Outputs : g_outputs[o].used => LevelOK(g_outputs[o], level[o])
  /\ ShownIsDriven

HistoryOK ==
  pad \in Reports \cup {Rest} /\ cleared \subseteq Inputs /\ unrestored \subseteq Outputs

(* SignalInv is the conjunction of these parts.                            *)
LEMMA InvParts ==
  SignalInv <=> ConfigOK /\ ShownOK /\ HistoryOK /\ NoGhostSource /\ UnusedNamesNone
  BY Zenon DEF SignalInv, TypeOK, ConfigOK, ShownOK, HistoryOK, Values

(* The same in the next state.                                             *)
LEMMA InvPartsPrimed ==
  SignalInv' <=> ConfigOK' /\ ShownOK' /\ HistoryOK' /\ NoGhostSource' /\ UnusedNamesNone'
  BY Zenon DEF SignalInv, TypeOK, ConfigOK, ShownOK, HistoryOK, Values

(* The configurations of parseVirtualFromRequest and its default.          *)
LEMMA InputParsed ==
  /\ InputOK(NoInput)
  /\ \A d \in InputConfigs : InputOK(ParseVirtual(d))
<1>1. InputOK(NoInput)
  BY DEF InputOK, NoInput, InputConfigs
<1>2. ASSUME NEW d \in InputConfigs PROVE InputOK(ParseVirtual(d))
  <2>1. d.deadzone \in Int /\ d.expo \in Int
    BY DEF InputConfigs
  <2>2. Constrain(d.deadzone, 0, 95) \in 0 .. 95 /\ Constrain(d.expo, 0, 100) \in 0 .. 100
    BY <2>1 DEF Constrain
  <2>3. /\ ParseVirtual(d).deadzone = Constrain(d.deadzone, 0, 95)
        /\ ParseVirtual(d).expo = Constrain(d.expo, 0, 100)
    BY DEF ParseVirtual, InputConfigs
  <2>4. Constrain(d.deadzone, 0, 95) \in Int /\ Constrain(d.expo, 0, 100) \in Int
    BY <2>2
  <2>5. ParseVirtual(d) \in InputConfigs
    BY <2>4 DEF ParseVirtual, InputConfigs
  <2> QED BY <2>2, <2>3, <2>5 DEF InputOK
<1> QED BY <1>1, <1>2

(* There is an input.                                                      *)
LEMMA InputCount == NumInputs \in Nat \ {0}
  BY SignalPathAssumption

(* The terms of parseOutputFromRequest and of its default.                 *)
LEMMA TermParsed ==
  /\ NoTerm \in TermConfigs /\ TermOK(NoTerm) /\ NoTerm.source = -1
  /\ \A t \in TermConfigs : ParseTerm(t) \in TermConfigs /\ TermOK(ParseTerm(t))
<1>1. NoTerm \in TermConfigs /\ TermOK(NoTerm) /\ NoTerm.source = -1
  BY InputCount DEF NoTerm, TermConfigs, TermOK
<1>2. ASSUME NEW t \in TermConfigs PROVE ParseTerm(t) \in TermConfigs /\ TermOK(ParseTerm(t))
  <2>1. t.source \in Int /\ t.weight \in Int /\ t.offset \in Int
    BY DEF TermConfigs
  <2> DEFINE s == Constrain(t.source, -1, NumInputs - 1)
  <2> DEFINE w == Constrain(t.weight, -100, 100)
  <2> DEFINE f == Constrain(t.offset, -100, 100)
  <2>2. s \in -1 .. NumInputs - 1
    <3>1. -1 \in Int /\ NumInputs - 1 \in Int /\ -1 <= NumInputs - 1
      BY InputCount
    <3> QED BY <2>1, <3>1, ConstrainRange
  <2>3. w \in -100 .. 100 /\ f \in -100 .. 100
    <3>1. ASSUME NEW v \in Int PROVE Constrain(v, -100, 100) \in -100 .. 100
      BY DEF Constrain
    <3> QED BY <2>1, <3>1
  <2>5. ParseTerm(t) = [source |-> s, weight |-> w, offset |-> f]
    BY DEF ParseTerm
  <2> HIDE DEF s, w, f
  <2>6. s \in Int /\ w \in Int /\ f \in Int
    BY <2>2, <2>3, InputCount
  <2>7. ParseTerm(t) \in TermConfigs
    BY <2>5, <2>6 DEF TermConfigs
  <2>8. ParseTerm(t).source = s /\ ParseTerm(t).weight = w /\ ParseTerm(t).offset = f
    BY <2>5
  <2> QED BY <2>2, <2>3, <2>7, <2>8 DEF TermOK
<1> QED BY <1>1, <1>2

(* An output with its threshold and terms replaced, whatever terms are.    *)
LEMMA RecordMade ==
  ASSUME NEW T,
         NEW d \in [used : BOOLEAN, type : {"pwm", "switch"}, inverted : BOOLEAN, threshold : Int,
                    failsafe : {"Min", "Center", "Max"}, mixMode : {"Add", "Multiply"}, terms : T],
         NEW th \in Int, NEW ts \in T
  PROVE  LET out == [d EXCEPT !.threshold = th, !.terms = ts]
         IN  /\ out \in [used : BOOLEAN, type : {"pwm", "switch"}, inverted : BOOLEAN,
                          threshold : Int, failsafe : {"Min", "Center", "Max"},
                          mixMode : {"Add", "Multiply"}, terms : T]
             /\ out.threshold = th /\ out.terms = ts /\ (out.used <=> d.used)
  OBVIOUS

(* An output made of parts that are sound.                                 *)
LEMMA OutputMade ==
  ASSUME NEW d \in OutputConfigs, NEW th \in 0 .. 100, NEW ts \in [1 .. 3 -> TermConfigs],
         \A k \in 1 .. 3 : TermOK(ts[k])
  PROVE  LET out == [d EXCEPT !.threshold = th, !.terms = ts]
         IN  OutputOK(out) /\ out.terms = ts /\ (out.used <=> d.used)
<1> DEFINE out == [d EXCEPT !.threshold = th, !.terms = ts]
<1>1. th \in Int
  OBVIOUS
<1> DEFINE T == [1 .. 3 -> TermConfigs]
<1>2. OutputConfigs = [used : BOOLEAN, type : {"pwm", "switch"}, inverted : BOOLEAN,
                       threshold : Int, failsafe : {"Min", "Center", "Max"},
                       mixMode : {"Add", "Multiply"}, terms : T] /\ ts \in T
  BY DEF OutputConfigs
<1> HIDE DEF T
<1>3. /\ out \in OutputConfigs
      /\ out.threshold = th /\ out.terms = ts /\ (out.used <=> d.used)
  BY <1>1, <1>2, RecordMade, Zenon
<1> QED BY <1>3 DEF OutputOK

(* Without allow_rewire an output takes over three numbers only, whatever  *)
(* its terms are.                                                          *)
LEMMA RecordKept ==
  ASSUME NEW T, NEW F,
         NEW d \in [used : BOOLEAN, type : {"pwm", "switch"}, inverted : BOOLEAN, threshold : Int,
                    failsafe : F, mixMode : {"Add", "Multiply"}, terms : T],
         NEW inv \in BOOLEAN, NEW th \in Int, NEW f \in F
  PROVE  LET out == [d EXCEPT !.inverted = inv, !.threshold = th, !.failsafe = f]
         IN  /\ out \in [used : BOOLEAN, type : {"pwm", "switch"}, inverted : BOOLEAN,
                          threshold : Int, failsafe : F,
                          mixMode : {"Add", "Multiply"}, terms : T]
             /\ out.threshold = th /\ out.terms = d.terms /\ (out.used <=> d.used)
  OBVIOUS

(* And is sound if both are.                                               *)
LEMMA WiringKept ==
  ASSUME NEW d, NEW new, OutputOK(d), OutputOK(new)
  PROVE  LET out == [d EXCEPT !.inverted = new.inverted, !.threshold = new.threshold,
                              !.failsafe = new.failsafe]
         IN  OutputOK(out) /\ (out.used <=> d.used)
<1> DEFINE out == [d EXCEPT !.inverted = new.inverted, !.threshold = new.threshold,
                            !.failsafe = new.failsafe]
<1> DEFINE T == [1 .. 3 -> TermConfigs]
<1> DEFINE F == {"Min", "Center", "Max"}
<1>1. OutputConfigs = [used : BOOLEAN, type : {"pwm", "switch"}, inverted : BOOLEAN,
                       threshold : Int, failsafe : F, mixMode : {"Add", "Multiply"}, terms : T]
  BY DEF OutputConfigs
<1>2. new \in OutputConfigs /\ d \in OutputConfigs
  BY DEF OutputOK
<1>3. new.inverted \in BOOLEAN /\ new.threshold \in Int /\ new.failsafe \in F
  BY <1>2 DEF OutputConfigs
<1> HIDE DEF T, F
<1>4. /\ out \in OutputConfigs
      /\ out.threshold = new.threshold /\ out.terms = d.terms /\ (out.used <=> d.used)
  BY <1>1, <1>2, <1>3, RecordKept, Zenon
<1>5. new.threshold \in 0 .. 100 /\ \A k \in 1 .. 3 : TermOK(d.terms[k])
  BY DEF OutputOK
<1> HIDE DEF out
<1>6. OutputOK(out)
  BY <1>4, <1>5 DEF OutputOK
<1> QED BY <1>4, <1>6 DEF out

(* An output whose terms alone are replaced, whatever terms are.           *)
LEMMA RecordRewired ==
  ASSUME NEW T, NEW F,
         NEW d \in [used : BOOLEAN, type : {"pwm", "switch"}, inverted : BOOLEAN, threshold : Int,
                    failsafe : F, mixMode : {"Add", "Multiply"}, terms : T],
         NEW ts \in T
  PROVE  LET out == [d EXCEPT !.terms = ts]
         IN  /\ out \in [used : BOOLEAN, type : {"pwm", "switch"}, inverted : BOOLEAN,
                          threshold : Int, failsafe : F,
                          mixMode : {"Add", "Multiply"}, terms : T]
             /\ out.threshold = d.threshold /\ out.type = d.type /\ out.terms = ts
             /\ (out.used <=> d.used)
  OBVIOUS

(* It fits the same levels and values.                                     *)
LEMMA TermsReplaced ==
  ASSUME NEW d, OutputOK(d), NEW ts \in [1 .. 3 -> TermConfigs], \A k \in 1 .. 3 : TermOK(ts[k])
  PROVE  LET out == [d EXCEPT !.terms = ts]
         IN  /\ OutputOK(out) /\ (out.used <=> d.used) /\ out.terms = ts /\ out.type = d.type
             /\ \A l, n : /\ LevelOK(d, l) => LevelOK(out, l)
                          /\ Fits(d, l, n) => Fits(out, l, n)
<1> DEFINE out == [d EXCEPT !.terms = ts]
<1> DEFINE T == [1 .. 3 -> TermConfigs]
<1> DEFINE F == {"Min", "Center", "Max"}
<1>1. OutputConfigs = [used : BOOLEAN, type : {"pwm", "switch"}, inverted : BOOLEAN,
                       threshold : Int, failsafe : F, mixMode : {"Add", "Multiply"}, terms : T]
  BY DEF OutputConfigs
<1>2. d \in OutputConfigs /\ ts \in T
  BY DEF OutputOK
<1> HIDE DEF T, F
<1>3. /\ out \in OutputConfigs /\ out.threshold = d.threshold /\ out.type = d.type
      /\ out.terms = ts /\ (out.used <=> d.used)
  BY <1>1, <1>2, RecordRewired, Zenon
<1> HIDE DEF out
<1>4. OutputOK(out)
  BY <1>3 DEF OutputOK
<1>5. ASSUME NEW l, NEW n
      PROVE  (LevelOK(d, l) => LevelOK(out, l)) /\ (Fits(d, l, n) => Fits(out, l, n))
  <2>1. Driven(out, n) = Driven(d, n)
    BY <1>3, Zenon DEF Driven, SwitchLevel
  <2>2. LevelOK(d, l) => LevelOK(out, l)
    BY <1>3 DEF LevelOK
  <2>3. Fits(d, l, n) => Fits(out, l, n)
    BY <1>3, <2>1, Zenon DEF Fits
  <2> QED BY <2>2, <2>3
<1>6. /\ OutputOK(out) /\ (out.used <=> d.used) /\ out.terms = ts /\ out.type = d.type
      /\ \A l, n : /\ LevelOK(d, l) => LevelOK(out, l)
                   /\ Fits(d, l, n) => Fits(out, l, n)
  BY <1>3, <1>4, <1>5, Zenon
<1> QED BY <1>6, Zenon DEF out

(* The configurations of parseOutputFromRequest and its default.           *)
LEMMA OutputParsed ==
  /\ OutputOK(NoOutput) /\ ~ NoOutput.used /\ Named(NoOutput) = {-1}
  /\ \A d \in OutputConfigs : OutputOK(ParseOutput(d)) /\ (ParseOutput(d).used <=> d.used)
<1>1. OutputOK(NoOutput) /\ ~ NoOutput.used /\ Named(NoOutput) = {-1}
  <2> DEFINE first == [NoTerm EXCEPT !.weight = 100]
  <2>1. first \in TermConfigs /\ TermOK(first) /\ first.source = -1
    BY InputCount DEF NoTerm, TermConfigs, TermOK
  <2>2. NoOutput.terms = <<first, NoTerm, NoTerm>>
    BY DEF NoOutput
  <2> HIDE DEF first
  <2>3. /\ NoOutput.terms \in [1 .. 3 -> TermConfigs]
        /\ NoOutput.terms[1] = first /\ NoOutput.terms[2] = NoTerm /\ NoOutput.terms[3] = NoTerm
    BY <2>1, <2>2, TermParsed
  <2>4. ASSUME NEW k \in 1 .. 3
        PROVE  TermOK(NoOutput.terms[k]) /\ NoOutput.terms[k].source = -1
    <3>1. NoOutput.terms[k] = first \/ NoOutput.terms[k] = NoTerm
      <4>1. k = 1 \/ k = 2 \/ k = 3
        OBVIOUS
      <4> QED BY <2>3, <4>1
    <3>2. CASE NoOutput.terms[k] = first
      BY <2>1, <3>2, Zenon
    <3>3. CASE NoOutput.terms[k] = NoTerm
      BY <3>3, TermParsed, Zenon
    <3> QED BY <3>1, <3>2, <3>3
  <2>5. NoOutput \in OutputConfigs /\ NoOutput.threshold = 50
    BY <2>3 DEF NoOutput, OutputConfigs
  <2>6. ~ NoOutput.used
    BY DEF NoOutput
  <2>7. Named(NoOutput) = {-1}
    BY <2>4 DEF Named
  <2> QED BY <2>4, <2>5, <2>6, <2>7 DEF OutputOK
<1>2. ASSUME NEW d \in OutputConfigs
      PROVE  OutputOK(ParseOutput(d)) /\ (ParseOutput(d).used <=> d.used)
  <2>1. d.threshold \in Int /\ d.terms \in [1 .. 3 -> TermConfigs]
    BY DEF OutputConfigs
  <2> DEFINE th == Constrain(d.threshold, 0, 100)
  <2> DEFINE ts == [k \in 1 .. 3 |-> ParseTerm(d.terms[k])]
  <2>2. th \in 0 .. 100
    BY <2>1 DEF Constrain
  <2>3. ts \in [1 .. 3 -> TermConfigs] /\ \A k \in 1 .. 3 : TermOK(ts[k])
    BY <2>1, TermParsed
  <2>4. ParseOutput(d) = [d EXCEPT !.threshold = th, !.terms = ts]
    BY DEF ParseOutput, OutputConfigs
  <2> HIDE DEF th, ts
  <2>5. LET out == [d EXCEPT !.threshold = th, !.terms = ts]
        IN  OutputOK(out) /\ out.terms = ts /\ (out.used <=> d.used)
    BY <2>2, <2>3, OutputMade, Zenon
  <2> QED BY <2>4, <2>5, Zenon
<1> QED BY <1>1, <1>2

(* Failsafe shows what it writes, whatever came before.                    *)
LEMMA FailsafeEffect ==
  ASSUME NEW outs \in [Outputs -> OutputConfigs], FailsafeAll(outs),
         g_outputRuntime \in [Outputs -> -One .. One]
  PROVE  /\ g_outputRuntime' \in [Outputs -> -One .. One]
         /\ \A o \in Outputs : outs[o].used =>
               /\ LevelOK(outs[o], level'[o])
               /\ Fits(outs[o], level'[o], g_outputRuntime'[o])
<1>1. ASSUME NEW o \in Outputs
      PROVE  /\ FailsafeShown(outs[o]) \in -One .. One
             /\ LevelOK(outs[o], FailsafeLevel(outs[o]))
             /\ Fits(outs[o], FailsafeLevel(outs[o]), FailsafeShown(outs[o]))
  BY FailsafeMatches DEF LevelOK, Fits
<1>2. ASSUME NEW o \in Outputs, outs[o].used
      PROVE  level'[o] = FailsafeLevel(outs[o]) /\ g_outputRuntime'[o] = FailsafeShown(outs[o])
  BY <1>2 DEF FailsafeAll
<1>3. g_outputRuntime' \in [Outputs -> -One .. One]
  BY <1>1 DEF FailsafeAll
<1> QED BY <1>1, <1>2, <1>3


-----------------------------------------------------------------------------
(* The steps.                                                              *)

(* At power up nothing is in use.                                          *)
LEMMA InvInit == Init => SignalInv
<1> SUFFICES ASSUME Init PROVE SignalInv
  OBVIOUS
<1>1. InputOK(NoInput) /\ NoInput \in InputConfigs
  BY InputParsed DEF InputOK
<1>2. OutputOK(NoOutput) /\ NoOutput \in OutputConfigs /\ ~ NoOutput.used /\ Named(NoOutput) = {-1}
  BY OutputParsed DEF OutputOK
<1>3. ConfigOK
  BY <1>1, <1>2 DEF ConfigOK, Init
<1>4. \A o \in Outputs : g_outputs[o] = NoOutput
  BY DEF Init
<1>5. ShownOK
  <2>1. 0 \in -One .. One
    BY OneIsPositive
  <2>2. g_virtualRuntime \in Values /\ g_outputRuntime \in [Outputs -> -One .. One]
    BY <2>1 DEF Init, Values
  <2> QED BY <1>2, <1>4, <2>2 DEF ShownOK, ShownIsDriven
<1>6. HistoryOK
  BY DEF HistoryOK, Init
<1>7. NoGhostSource
  BY DEF NoGhostSource, Init
<1>8. UnusedNamesNone
  BY <1>2, <1>4 DEF UnusedNamesNone
<1> QED BY <1>3, <1>5, <1>6, <1>7, <1>8, InvParts

(* handleApiVirtualAdd and handleApiVirtualUpdate: the new input is sound, *)
(* and nothing else changes.                                               *)
LEMMA InvVirtualStore ==
  ASSUME SignalInv, NEW d \in InputDrafts, NEW i \in Inputs,
         g_virtualInputs' = [g_virtualInputs EXCEPT ![i] = ParseVirtual(d)],
         UNCHANGED <<g_outputs, g_virtualRuntime, g_outputRuntime, level, pad, cleared,
                     unrestored>>
  PROVE  SignalInv'
<1>1. ConfigOK /\ ShownOK /\ HistoryOK /\ NoGhostSource /\ UnusedNamesNone
  BY InvParts
<1>2. InputOK(ParseVirtual(d)) /\ ParseVirtual(d) \in InputConfigs
  <2>1. d \in InputConfigs
    BY SignalPathAssumption
  <2> QED BY <2>1, InputParsed DEF InputOK
<1>3. ConfigOK'
  BY <1>1, <1>2 DEF ConfigOK
<1>4. ShownOK' /\ HistoryOK' /\ NoGhostSource' /\ UnusedNamesNone'
  BY <1>1, Zenon DEF ShownOK, ShownIsDriven, HistoryOK, NoGhostSource, UnusedNamesNone
<1> QED BY <1>3, <1>4, InvPartsPrimed

(* Storing an output and rebuilding: the pins of all outputs in use are    *)
(* in failsafe, and the new output no longer counts as ghost what it names *)
(* itself.                                                                 *)
LEMMA InvStoreOutput ==
  ASSUME SignalInv, NEW o \in Outputs, NEW out, OutputOK(out),
         ~ out.used => Named(out) = {-1}, StoreOutput(o, out)
  PROVE  SignalInv'
<1>1. ConfigOK /\ ShownOK /\ HistoryOK /\ NoGhostSource /\ UnusedNamesNone
  BY InvParts
<1> DEFINE outs == [g_outputs EXCEPT ![o] = out]
<1>2. /\ g_outputs' = outs /\ FailsafeAll(outs) /\ unrestored' = {}
      /\ cleared' = cleared \ (Named(out) \ Named(g_outputs[o]))
      /\ UNCHANGED <<g_virtualInputs, g_virtualRuntime, pad>>
  BY DEF StoreOutput
<1>3. /\ outs \in [Outputs -> OutputConfigs]
      /\ outs[o] = out /\ \A j \in Outputs \ {o} : outs[j] = g_outputs[j]
  BY <1>1 DEF ConfigOK, OutputOK
<1> HIDE DEF outs
<1>4. ConfigOK'
  <2>1. ASSUME NEW j \in Outputs PROVE OutputOK(outs[j])
    BY <1>1, <1>3 DEF ConfigOK
  <2> QED BY <1>1, <1>2, <1>3, <2>1, Zenon DEF ConfigOK
<1>5. ShownOK'
  <2>1. /\ g_outputRuntime' \in [Outputs -> -One .. One]
        /\ \A j \in Outputs : outs[j].used =>
              /\ LevelOK(outs[j], level'[j])
              /\ Fits(outs[j], level'[j], g_outputRuntime'[j])
    BY <1>1, <1>2, <1>3, FailsafeEffect DEF ShownOK
  <2> QED BY <1>1, <1>2, <2>1, Zenon DEF ShownOK, ShownIsDriven
<1>6. HistoryOK'
  BY <1>1, <1>2 DEF HistoryOK
<1>7. NoGhostSource'
  <2>1. ASSUME NEW j \in Outputs PROVE Named(outs[j]) \cap cleared' = {}
    <3>1. Named(g_outputs[j]) \cap cleared = {} /\ Named(g_outputs[o]) \cap cleared = {}
      BY <1>1 DEF NoGhostSource
    <3>2. CASE j = o
      BY <1>2, <1>3, <3>1, <3>2
    <3>3. CASE j # o
      BY <1>2, <1>3, <3>1, <3>3
    <3> QED BY <3>2, <3>3
  <2> QED BY <1>2, <2>1 DEF NoGhostSource
<1>8. UnusedNamesNone'
  <2>1. ASSUME NEW j \in Outputs, ~ outs[j].used PROVE Named(outs[j]) = {-1}
    <3>1. CASE j = o
      BY <1>3, <2>1, <3>1
    <3>2. CASE j # o
      BY <1>1, <1>3, <2>1, <3>2 DEF UnusedNamesNone
    <3> QED BY <3>1, <3>2
  <2> QED BY <1>2, <2>1 DEF UnusedNamesNone
<1> QED BY <1>4, <1>5, <1>6, <1>7, <1>8, InvPartsPrimed


(* handleApiOutputAdd, handleApiOutputUpdate and handleApiOutputDelete     *)
(* store an output that is sound.                                          *)
LEMMA InvOutputs ==
  ASSUME SignalInv, NEW d \in OutputDrafts, NEW o \in Outputs
  PROVE  /\ OutputAdd(d) => SignalInv'
         /\ \A allowRewire \in BOOLEAN : OutputUpdate(o, d, allowRewire) => SignalInv'
<1>1. ConfigOK /\ ShownOK /\ HistoryOK /\ NoGhostSource /\ UnusedNamesNone
  BY InvParts
<1>2. OutputOK(ParseOutput(d)) /\ ParseOutput(d).used
  <2>1. d \in OutputConfigs /\ d.used
    BY SignalPathAssumption
  <2> QED BY <2>1, OutputParsed
<1>3. ASSUME OutputAdd(d) PROVE SignalInv'
  <2>1. PICK j \in Outputs : StoreOutput(j, ParseOutput(d))
    BY <1>3 DEF OutputAdd
  <2> QED BY <1>2, <2>1, InvStoreOutput
<1>4. ASSUME NEW allowRewire \in BOOLEAN, OutputUpdate(o, d, allowRewire) PROVE SignalInv'
  <2> DEFINE new == ParseOutput(d)
  <2> DEFINE kept == [g_outputs[o] EXCEPT !.inverted = new.inverted, !.threshold = new.threshold,
                                          !.failsafe = new.failsafe]
  <2>1. g_outputs[o].used /\ (StoreOutput(o, new) \/ StoreOutput(o, kept))
    BY <1>4 DEF OutputUpdate
  <2>2. CASE StoreOutput(o, new)
    BY <1>2, <2>2, InvStoreOutput
  <2>3. CASE StoreOutput(o, kept)
    <3>1. OutputOK(g_outputs[o])
      BY <1>1 DEF ConfigOK
    <3> DEFINE old == g_outputs[o]
    <3>2. OutputOK(kept) /\ (kept.used <=> old.used)
      BY <1>2, <3>1, WiringKept
    <3> HIDE DEF kept
    <3> QED BY <2>1, <2>3, <3>2, InvStoreOutput
  <2> QED BY <2>1, <2>2, <2>3
<1> QED BY <1>3, <1>4

(* Deleting an output.                                                     *)
LEMMA InvOutputDelete ==
  ASSUME SignalInv, NEW o \in Outputs, OutputDelete(o) PROVE SignalInv'
  BY OutputParsed, InvStoreOutput DEF OutputDelete


(* handleApiVirtualDelete: the terms that name the input are cleared, so   *)
(* no output names a deleted input, and nothing that is shown or driven    *)
(* changes.                                                                *)
LEMMA InvVirtualDelete ==
  ASSUME SignalInv, NEW i \in Inputs, VirtualDelete(i) PROVE SignalInv'
<1>1. ConfigOK /\ ShownOK /\ HistoryOK /\ NoGhostSource /\ UnusedNamesNone
  BY InvParts
<1> DEFINE ts(o) == [k \in 1 .. 3 |-> IF g_outputs[o].used /\ g_outputs[o].terms[k].source = i
                                      THEN NoTerm ELSE g_outputs[o].terms[k]]
<1> DEFINE outs == [o \in Outputs |-> [g_outputs[o] EXCEPT !.terms = ts(o)]]
<1>2. /\ g_virtualInputs' = [g_virtualInputs EXCEPT ![i] = NoInput]
      /\ g_outputs' = outs
      /\ cleared' = cleared \cup {i}
      /\ UNCHANGED <<g_virtualRuntime, g_outputRuntime, level, pad, unrestored>>
  BY DEF VirtualDelete
<1>3. ASSUME NEW o \in Outputs
      PROVE  /\ OutputOK(g_outputs[o])
             /\ ts(o) \in [1 .. 3 -> TermConfigs] /\ \A k \in 1 .. 3 : TermOK(ts(o)[k])
  <2>1. OutputOK(g_outputs[o])
    BY <1>1 DEF ConfigOK
  <2>2. /\ g_outputs[o].terms \in [1 .. 3 -> TermConfigs]
        /\ \A k \in 1 .. 3 : TermOK(g_outputs[o].terms[k])
    BY <2>1 DEF OutputOK, OutputConfigs
  <2>3. ASSUME NEW k \in 1 .. 3 PROVE ts(o)[k] \in TermConfigs /\ TermOK(ts(o)[k])
    <3>1. ts(o)[k] = NoTerm \/ ts(o)[k] = g_outputs[o].terms[k]
      OBVIOUS
    <3> HIDE DEF ts
    <3>2. CASE ts(o)[k] = NoTerm
      BY <3>2, TermParsed, Zenon
    <3>3. CASE ts(o)[k] = g_outputs[o].terms[k]
      <4>1. g_outputs[o].terms[k] \in TermConfigs /\ TermOK(g_outputs[o].terms[k])
        BY <2>2
      <4> QED BY <3>3, <4>1, Zenon
    <3> QED BY <3>1, <3>2, <3>3
  <2> QED BY <2>1, <2>3
<1>4. ASSUME NEW o \in Outputs
      PROVE  outs[o] = [g_outputs[o] EXCEPT !.terms = ts(o)]
  <2> HIDE DEF ts
  <2> QED OBVIOUS
<1>5. ASSUME NEW o \in Outputs
      PROVE  /\ OutputOK(outs[o]) /\ outs[o] \in OutputConfigs
             /\ (outs[o].used <=> g_outputs[o].used) /\ outs[o].terms = ts(o)
             /\ outs[o].type = g_outputs[o].type
             /\ \A l, n : /\ LevelOK(g_outputs[o], l) => LevelOK(outs[o], l)
                          /\ Fits(g_outputs[o], l, n) => Fits(outs[o], l, n)
  <2>1. OutputOK(g_outputs[o]) /\ ts(o) \in [1 .. 3 -> TermConfigs] /\ \A k \in 1 .. 3 : TermOK(ts(o)[k])
    BY <1>3
  <2> HIDE DEF ts, outs
  <2> DEFINE new == [g_outputs[o] EXCEPT !.terms = ts(o)]
  <2>2. /\ OutputOK(new) /\ (new.used <=> g_outputs[o].used) /\ new.terms = ts(o)
        /\ new.type = g_outputs[o].type
        /\ \A l, n : /\ LevelOK(g_outputs[o], l) => LevelOK(new, l)
                     /\ Fits(g_outputs[o], l, n) => Fits(new, l, n)
    BY <2>1, TermsReplaced, Zenon
  <2>3. outs[o] = new
    BY <1>4
  <2> HIDE DEF new
  <2>4. new \in OutputConfigs
    BY <2>2 DEF OutputOK
  <2> QED BY <2>2, <2>3, <2>4, Zenon
<1>6. ASSUME NEW o \in Outputs
      PROVE  Named(outs[o]) \cap (cleared \cup {i}) = {} /\ (~ outs[o].used => Named(outs[o]) = {-1})
  <2>1. outs[o].terms = ts(o) /\ (outs[o].used <=> g_outputs[o].used)
    BY <1>5
  <2>2. Named(g_outputs[o]) \cap cleared = {} /\ (~ g_outputs[o].used => Named(g_outputs[o]) = {-1})
    BY <1>1 DEF NoGhostSource, UnusedNamesNone
  <2>3. -1 \notin Inputs /\ -1 \notin cleared /\ i # -1
    BY <1>1, InputCount DEF Inputs, HistoryOK
  <2>4. CASE g_outputs[o].used
    <3>1. ASSUME NEW k \in 1 .. 3 PROVE ts(o)[k].source \notin cleared \cup {i}
      <4>1. CASE g_outputs[o].terms[k].source = i
        <5>1. ts(o)[k] = NoTerm
          BY <2>4, <4>1
        <5> QED BY <2>3, <5>1, TermParsed
      <4>2. CASE g_outputs[o].terms[k].source # i
        <5>1. ts(o)[k] = g_outputs[o].terms[k]
          BY <4>2
        <5>2. g_outputs[o].terms[k].source \in Named(g_outputs[o])
          BY DEF Named
        <5> QED BY <2>2, <4>2, <5>1, <5>2
      <4> QED BY <4>1, <4>2
    <3> HIDE DEF ts, outs
    <3>2. Named(outs[o]) \cap (cleared \cup {i}) = {}
      BY <2>1, <3>1 DEF Named
    <3> QED BY <2>1, <2>4, <3>2
  <2>5. CASE ~ g_outputs[o].used
    <3>1. ASSUME NEW k \in 1 .. 3 PROVE ts(o)[k].source = g_outputs[o].terms[k].source
      BY <2>5
    <3> HIDE DEF ts, outs
    <3>2. Named(outs[o]) = Named(g_outputs[o])
      BY <2>1, <3>1 DEF Named
    <3> QED BY <2>2, <2>3, <2>5, <3>2
  <2> QED BY <2>4, <2>5
<1>7. outs \in [Outputs -> OutputConfigs]
  <2>1. \A o \in Outputs : outs[o] \in OutputConfigs
    BY <1>5
  <2>2. outs = [o \in Outputs |-> outs[o]]
    OBVIOUS
  <2> HIDE DEF outs
  <2> QED BY <2>1, <2>2
<1> HIDE DEF outs, ts
<1>8. ConfigOK'
  <2>1. InputOK(NoInput) /\ NoInput \in InputConfigs
    BY InputParsed DEF InputOK
  <2>2. /\ g_virtualInputs' \in [Inputs -> InputConfigs]
        /\ \A j \in Inputs : InputOK(g_virtualInputs'[j])
    BY <1>1, <1>2, <2>1 DEF ConfigOK
  <2> QED BY <1>2, <1>5, <1>7, <2>2, Zenon DEF ConfigOK
<1>9. ShownOK'
  <2>1. ASSUME NEW o \in Outputs, outs[o].used
        PROVE  /\ LevelOK(outs[o], level[o])
               /\ Fits(outs[o], level[o], g_outputRuntime[o]) \/ o \in unrestored
    <3>1. /\ LevelOK(g_outputs[o], level[o])
          /\ Fits(g_outputs[o], level[o], g_outputRuntime[o]) \/ o \in unrestored
      BY <1>1, <1>5, <2>1, Zenon DEF ShownOK, ShownIsDriven
    <3> QED BY <1>5, <3>1, Zenon
  <2>2. g_virtualRuntime' \in Values /\ g_outputRuntime' \in [Outputs -> -One .. One]
    BY <1>1, <1>2, Zenon DEF ShownOK
  <2> QED BY <1>2, <2>1, <2>2, Zenon DEF ShownOK, ShownIsDriven
<1>10. HistoryOK'
  BY <1>1, <1>2 DEF HistoryOK
<1>11. NoGhostSource' /\ UnusedNamesNone'
  BY <1>2, <1>6, Zenon DEF NoGhostSource, UnusedNamesNone
<1> QED BY <1>8, <1>9, <1>10, <1>11, InvPartsPrimed


(* applyPersistedConfig: what is stored is limited again, and what is not  *)
(* in use is reset.                                                        *)
LEMMA InvApplyPreset ==
  ASSUME SignalInv, NEW preset \in Presets, ApplyPreset(preset) PROVE SignalInv'
<1>1. ConfigOK /\ ShownOK /\ HistoryOK /\ NoGhostSource /\ UnusedNamesNone
  BY InvParts
<1> DEFINE ins == [i \in Inputs |->
                     IF preset.inputs[i].used THEN ParseVirtual(preset.inputs[i]) ELSE NoInput]
<1> DEFINE outs == [o \in Outputs |->
                      IF preset.outputs[o].used THEN ParseOutput(preset.outputs[o]) ELSE NoOutput]
<1>2. /\ g_virtualInputs' = ins /\ g_outputs' = outs /\ FailsafeAll(outs) /\ unrestored' = {}
      /\ cleared' = cleared \ UNION {Named(outs[o]) : o \in Outputs}
      /\ UNCHANGED <<g_virtualRuntime, pad>>
  BY DEF ApplyPreset
<1>3. /\ \A i \in Inputs : preset.inputs[i] \in InputConfigs
      /\ \A o \in Outputs : preset.outputs[o] \in OutputConfigs
  <2>1. preset \in [inputs : [Inputs -> InputConfigs], outputs : [Outputs -> OutputConfigs]]
    BY SignalPathAssumption
  <2>2. preset.inputs \in [Inputs -> InputConfigs] /\ preset.outputs \in [Outputs -> OutputConfigs]
    BY <2>1
  <2> QED BY <2>2
<1>4. ASSUME NEW i \in Inputs PROVE InputOK(ins[i]) /\ ins[i] \in InputConfigs
  <2>1. InputOK(ins[i])
    <3>1. CASE preset.inputs[i].used
      BY <1>3, <3>1, InputParsed
    <3>2. CASE ~ preset.inputs[i].used
      BY <3>2, InputParsed
    <3> QED BY <3>1, <3>2
  <2> HIDE DEF ins
  <2> QED BY <2>1 DEF InputOK
<1>5. ASSUME NEW o \in Outputs
      PROVE  /\ OutputOK(outs[o]) /\ outs[o] \in OutputConfigs
             /\ ~ outs[o].used => Named(outs[o]) = {-1}
  <2>1. OutputOK(outs[o]) /\ (~ outs[o].used => Named(outs[o]) = {-1})
    <3>1. CASE preset.outputs[o].used
      <4>1. outs[o] = ParseOutput(preset.outputs[o])
        BY <3>1
      <4> HIDE DEF outs
      <4>2. OutputOK(ParseOutput(preset.outputs[o])) /\ ParseOutput(preset.outputs[o]).used
        BY <1>3, <3>1, OutputParsed
      <4> QED BY <4>1, <4>2, Zenon
    <3>2. CASE ~ preset.outputs[o].used
      <4>1. outs[o] = NoOutput
        BY <3>2
      <4> HIDE DEF outs
      <4> QED BY <4>1, OutputParsed, Zenon
    <3> QED BY <3>1, <3>2
  <2> HIDE DEF outs
  <2> QED BY <2>1 DEF OutputOK
<1>6. ins \in [Inputs -> InputConfigs]
  <2>1. ins = [i \in Inputs |-> ins[i]]
    OBVIOUS
  <2> HIDE DEF ins
  <2> QED BY <1>4, <2>1
<1>7. outs \in [Outputs -> OutputConfigs]
  <2>1. outs = [o \in Outputs |-> outs[o]]
    OBVIOUS
  <2> HIDE DEF outs
  <2> QED BY <1>5, <2>1
<1> HIDE DEF ins, outs
<1>8. ConfigOK'
  BY <1>2, <1>4, <1>5, <1>6, <1>7, Zenon DEF ConfigOK
<1>9. ShownOK'
  <2>1. /\ g_outputRuntime' \in [Outputs -> -One .. One]
        /\ \A o \in Outputs : outs[o].used =>
              /\ LevelOK(outs[o], level'[o])
              /\ Fits(outs[o], level'[o], g_outputRuntime'[o])
    BY <1>1, <1>2, <1>7, FailsafeEffect DEF ShownOK
  <2> QED BY <1>1, <1>2, <2>1, Zenon DEF ShownOK, ShownIsDriven
<1>10. HistoryOK'
  BY <1>1, <1>2 DEF HistoryOK
<1>11. NoGhostSource'
  <2>1. ASSUME NEW o \in Outputs PROVE Named(outs[o]) \cap cleared' = {}
    BY <1>2
  <2> QED BY <1>2, <2>1 DEF NoGhostSource
<1>12. UnusedNamesNone'
  BY <1>2, <1>5, Zenon DEF UnusedNamesNone
<1> QED BY <1>8, <1>9, <1>10, <1>11, <1>12, InvPartsPrimed

(* processGamepadToOutputs: each output in use shows the signal that its   *)
(* pin is told, and nothing leaves its range.                              *)
LEMMA InvTickDrive ==
  ASSUME SignalInv, NEW p \in Reports, TickDrive(p) PROVE SignalInv'
<1>1. ConfigOK /\ ShownOK /\ HistoryOK /\ NoGhostSource /\ UnusedNamesNone
  BY InvParts
<1> DEFINE rt == Runtime(p)
<1> DEFINE sig(o) == OutputSignal(g_outputs[o], rt)
<1>2. /\ pad' = p /\ g_virtualRuntime' = rt
      /\ g_outputRuntime' = [o \in Outputs |-> IF g_outputs[o].used THEN sig(o) ELSE 0]
      /\ level' = [o \in Outputs |-> IF g_outputs[o].used THEN Driven(g_outputs[o], sig(o))
                                     ELSE level[o]]
      /\ unrestored' = {o \in unrestored : g_outputs[o].type = "pwm"}
      /\ UNCHANGED <<g_virtualInputs, g_outputs, cleared>>
  BY DEF TickDrive
<1>3. rt \in Values
  <2>1. ASSUME NEW i \in Inputs PROVE VirtualValue(g_virtualInputs[i], p) \in -One .. One
    <3>1. g_virtualInputs[i] \in InputConfigs /\ g_virtualInputs[i].deadzone \in 0 .. 95
      BY <1>1 DEF ConfigOK, InputOK
    <3> QED BY <3>1, VirtualRange
  <2> QED BY <2>1 DEF Runtime, Values
<1> HIDE DEF rt
<1>4. ASSUME NEW o \in Outputs
      PROVE  /\ g_outputs[o] \in OutputConfigs
             /\ sig(o) \in -One .. One
             /\ LevelOK(g_outputs[o], Driven(g_outputs[o], sig(o)))
  <2>1. g_outputs[o] \in OutputConfigs
    BY <1>1 DEF ConfigOK
  <2>2. sig(o) \in -One .. One
    BY <1>3, <2>1, SignalRange
  <2> HIDE DEF sig
  <2> QED BY <2>1, <2>2, DrivenRange DEF LevelOK
<1> HIDE DEF sig
<1>5. ShownOK'
  <2>1. 0 \in -One .. One
    BY OneIsPositive
  <2>2. g_outputRuntime' \in [Outputs -> -One .. One]
    BY <1>2, <1>4, <2>1
  <2>3. ASSUME NEW o \in Outputs, g_outputs[o].used
        PROVE  /\ LevelOK(g_outputs[o], level'[o])
               /\ Fits(g_outputs[o], level'[o], g_outputRuntime'[o])
    <3>1. g_outputRuntime'[o] = sig(o) /\ level'[o] = Driven(g_outputs[o], sig(o))
      BY <1>2, <2>3
    <3> QED BY <1>4, <3>1, Zenon DEF Fits
  <2> QED BY <1>2, <1>3, <2>2, <2>3, Zenon DEF ShownOK, ShownIsDriven
<1>6. ConfigOK' /\ NoGhostSource' /\ UnusedNamesNone'
  BY <1>1, <1>2, Zenon DEF ConfigOK, NoGhostSource, UnusedNamesNone
<1>7. HistoryOK'
  BY <1>1, <1>2 DEF HistoryOK
<1> QED BY <1>5, <1>6, <1>7, InvPartsPrimed

(* applyFailsafeAllOutputs on a tick.                                      *)
LEMMA InvTickFailsafe ==
  ASSUME SignalInv, NEW linked \in BOOLEAN, TickFailsafe(linked) PROVE SignalInv'
<1>1. ConfigOK /\ ShownOK /\ HistoryOK /\ NoGhostSource /\ UnusedNamesNone
  BY InvParts
<1>2. /\ g_virtualRuntime' = IF linked THEN g_virtualRuntime ELSE [i \in Inputs |-> 0]
      /\ FailsafeAll(g_outputs)
      /\ unrestored' = {o \in unrestored : g_outputs[o].type = "pwm"}
      /\ UNCHANGED <<g_virtualInputs, g_outputs, pad, cleared>>
  BY DEF TickFailsafe
<1>3. g_virtualRuntime' \in Values
  <2>1. 0 \in -One .. One
    BY OneIsPositive
  <2> QED BY <1>1, <1>2, <2>1 DEF ShownOK, Values
<1>4. ShownOK'
  <2>1. /\ g_outputRuntime' \in [Outputs -> -One .. One]
        /\ \A o \in Outputs : g_outputs[o].used =>
              /\ LevelOK(g_outputs[o], level'[o])
              /\ Fits(g_outputs[o], level'[o], g_outputRuntime'[o])
    BY <1>1, <1>2, FailsafeEffect DEF ShownOK, ConfigOK
  <2> QED BY <1>2, <1>3, <2>1, Zenon DEF ShownOK, ShownIsDriven
<1>5. ConfigOK' /\ NoGhostSource' /\ UnusedNamesNone'
  BY <1>1, <1>2, Zenon DEF ConfigOK, NoGhostSource, UnusedNamesNone
<1>6. HistoryOK'
  BY <1>1, <1>2 DEF HistoryOK
<1> QED BY <1>4, <1>5, <1>6, InvPartsPrimed

(* What a refused request leaves behind: what is set up again shows what   *)
(* it writes; a servo or a switch that is not is among the unrestored, and *)
(* any other switch is as it was.                                          *)
LEMMA InvUndone ==
  ASSUME SignalInv, NEW tried \in SUBSET Outputs, NEW outs \in [Outputs -> OutputConfigs],
         NEW again \in SUBSET Outputs, NEW lost \in SUBSET Outputs,
         \A o \in Outputs : g_outputs[o].used /\ g_outputs[o].type = "pwm" => o \in again \cup lost,
         Undone(tried, outs, again, lost)
  PROVE  SignalInv'
<1>1. ConfigOK /\ ShownOK /\ HistoryOK /\ NoGhostSource /\ UnusedNamesNone
  BY InvParts
<1> DEFINE switches == {o \in Outputs : g_outputs[o].used /\ g_outputs[o].type = "switch"}
<1>2. /\ unrestored' = (((unrestored \cup tried) \cap switches) \ again) \cup lost
      /\ UNCHANGED <<g_virtualInputs, g_outputs, g_virtualRuntime, pad, cleared>>
  BY DEF Undone, config
<1>3. ASSUME NEW o \in Outputs
      PROVE  /\ FailsafeShown(g_outputs[o]) \in -One .. One
             /\ FailsafeShown(outs[o]) \in -One .. One
             /\ LevelOK(g_outputs[o], FailsafeLevel(g_outputs[o]))
             /\ Fits(g_outputs[o], FailsafeLevel(g_outputs[o]), FailsafeShown(g_outputs[o]))
  <2>1. g_outputs[o] \in OutputConfigs /\ outs[o] \in OutputConfigs
    BY <1>1 DEF ConfigOK
  <2> QED BY <2>1, FailsafeMatches DEF LevelOK, Fits
<1>4. ASSUME NEW o \in Outputs
      PROVE  /\ level'[o] = IF o \in again THEN FailsafeLevel(g_outputs[o])
                            ELSE IF o \in lost \cap switches THEN LOW ELSE level[o]
             /\ g_outputRuntime'[o] = IF o \in again THEN FailsafeShown(g_outputs[o])
                                      ELSE IF o \in tried THEN FailsafeShown(outs[o])
                                      ELSE g_outputRuntime[o]
  BY DEF Undone
<1>5. g_outputRuntime' \in [Outputs -> -One .. One]
  <2>1. ASSUME NEW o \in Outputs PROVE g_outputRuntime'[o] \in -One .. One
    <3>1. g_outputRuntime[o] \in -One .. One
      BY <1>1 DEF ShownOK
    <3> QED BY <1>3, <1>4, <3>1
  <2>2. g_outputRuntime' = [o \in Outputs |-> g_outputRuntime'[o]]
    BY DEF Undone
  <2> QED BY <2>1, <2>2
<1>6. ASSUME NEW o \in Outputs, g_outputs[o].used
      PROVE  /\ LevelOK(g_outputs[o], level'[o])
             /\ Fits(g_outputs[o], level'[o], g_outputRuntime'[o]) \/ o \in unrestored'
  <2>1. CASE o \in again
    BY <1>3, <1>4, <2>1
  <2>2. CASE o \notin again
    <3>1. o \in lost \/ o \in switches
      <4>1. g_outputs[o] \in OutputConfigs
        BY <1>1 DEF ConfigOK
      <4>2. g_outputs[o].type \in {"pwm", "switch"}
        BY <4>1 DEF OutputConfigs
      <4> QED BY <1>6, <2>2, <4>2
    <3>2. /\ LevelOK(g_outputs[o], level[o])
          /\ Fits(g_outputs[o], level[o], g_outputRuntime[o]) \/ o \in unrestored
      BY <1>1, <1>6, Zenon DEF ShownOK, ShownIsDriven
    <3>3. o \in switches => LevelOK(g_outputs[o], LOW)
      BY DEF LevelOK
    <3> HIDE DEF switches
    <3>4. LevelOK(g_outputs[o], level'[o])
      BY <1>4, <2>2, <3>2, <3>3
    <3>5. CASE o \in lost \/ o \in unrestored \cup tried
      BY <1>2, <2>2, <3>1, <3>4, <3>5
    <3>6. CASE o \notin lost /\ o \notin unrestored \cup tried
      BY <1>4, <2>2, <3>2, <3>4, <3>6
    <3> QED BY <3>5, <3>6
  <2> QED BY <2>1, <2>2
<1>7. ShownOK'
  BY <1>1, <1>2, <1>5, <1>6, Zenon DEF ShownOK, ShownIsDriven
<1>8. ConfigOK' /\ NoGhostSource' /\ UnusedNamesNone'
  BY <1>1, <1>2, Zenon DEF ConfigOK, NoGhostSource, UnusedNamesNone
<1>9. HistoryOK'
  BY <1>1, <1>2 DEF HistoryOK
<1> QED BY <1>7, <1>8, <1>9, InvPartsPrimed

(* An edit that is rejected: the outputs in use are rebuilt.               *)
LEMMA InvOutputRejected ==
  ASSUME SignalInv, NEW o \in Outputs, NEW d \in OutputDrafts, OutputRejected(o, d)
  PROVE  SignalInv'
<1> DEFINE used == {j \in Outputs : g_outputs[j].used}
           servos == {j \in used : g_outputs[j].type = "pwm"}
           outs == [g_outputs EXCEPT ![o] = ParseOutput(d)]
<1>1. PICK tried \in SUBSET {o}, again \in SUBSET used : Undone(tried, outs, again, servos \ again)
  BY DEF OutputRejected
<1>2. outs \in [Outputs -> OutputConfigs]
  <2>1. g_outputs \in [Outputs -> OutputConfigs]
    BY InvParts DEF ConfigOK
  <2>2. d \in OutputConfigs
    BY SignalPathAssumption
  <2>3. ParseOutput(d) \in OutputConfigs
    BY <2>2, OutputParsed DEF OutputOK
  <2> QED BY <2>1, <2>3
<1> HIDE DEF outs
<1> DEFINE lost == servos \ again
<1>3. /\ tried \in SUBSET Outputs /\ again \in SUBSET Outputs /\ lost \in SUBSET Outputs
      /\ \A j \in Outputs : g_outputs[j].used /\ g_outputs[j].type = "pwm" => j \in again \cup lost
      /\ Undone(tried, outs, again, lost)
  BY <1>1
<1> HIDE DEF lost
<1> QED BY <1>2, <1>3, InvUndone

(* A preset that is refused halfway: restoreOld.                           *)
LEMMA InvApplyRefused ==
  ASSUME SignalInv, NEW preset \in Presets, NEW f \in Outputs, ApplyRefused(preset, f)
  PROVE  SignalInv'
<1> DEFINE tried == {o \in Outputs : o < f /\ preset.outputs[o].used}
           used == {o \in Outputs : g_outputs[o].used}
           servos == {o \in used : g_outputs[o].type = "pwm"}
<1>1. PICK again \in SUBSET used, low \in SUBSET (used \ servos) :
        Undone(tried, preset.outputs, again, (servos \cup low) \ again)
  BY DEF ApplyRefused
<1>2. preset.outputs \in [Outputs -> OutputConfigs]
  <2>1. preset \in [inputs : [Inputs -> InputConfigs], outputs : [Outputs -> OutputConfigs]]
    BY SignalPathAssumption
  <2> QED BY <2>1
<1> DEFINE lost == (servos \cup low) \ again
<1>3. /\ tried \in SUBSET Outputs /\ again \in SUBSET Outputs /\ lost \in SUBSET Outputs
      /\ \A o \in Outputs : g_outputs[o].used /\ g_outputs[o].type = "pwm" => o \in again \cup lost
      /\ Undone(tried, preset.outputs, again, lost)
  BY <1>1
<1> HIDE DEF tried, lost
<1> QED BY <1>2, <1>3, InvUndone

(* Every step keeps the invariant.                                         *)
LEMMA InvNext == SignalInv /\ [Next]_vars => SignalInv'
<1> SUFFICES ASSUME SignalInv, [Next]_vars PROVE SignalInv'
  OBVIOUS
<1>1. ASSUME NEW d \in InputDrafts, VirtualAdd(d) PROVE SignalInv'
  BY <1>1, InvVirtualStore DEF VirtualAdd
<1>2. ASSUME NEW d \in InputDrafts, NEW i \in Inputs, VirtualUpdate(i, d) PROVE SignalInv'
  BY <1>2, InvVirtualStore DEF VirtualUpdate
<1>3. ASSUME NEW i \in Inputs, VirtualDelete(i) PROVE SignalInv'
  BY <1>3, InvVirtualDelete
<1>4. ASSUME NEW d \in OutputDrafts, OutputAdd(d) PROVE SignalInv'
  <2>1. PICK o \in Outputs : TRUE
    BY <1>4 DEF OutputAdd
  <2> QED BY <1>4, <2>1, InvOutputs
<1>5. ASSUME NEW d \in OutputDrafts, NEW o \in Outputs, NEW allowRewire \in BOOLEAN,
             OutputUpdate(o, d, allowRewire)
      PROVE  SignalInv'
  BY <1>5, InvOutputs
<1>6. ASSUME NEW o \in Outputs, OutputDelete(o) PROVE SignalInv'
  BY <1>6, InvOutputDelete
<1>7. ASSUME NEW preset \in Presets, ApplyPreset(preset) PROVE SignalInv'
  BY <1>7, InvApplyPreset
<1>8. ASSUME NEW p \in Reports, TickDrive(p) PROVE SignalInv'
  BY <1>8, InvTickDrive
<1>9. ASSUME NEW linked \in BOOLEAN, TickFailsafe(linked) PROVE SignalInv'
  BY <1>9, InvTickFailsafe
<1>10. ASSUME NEW o \in Outputs, NEW d \in OutputDrafts, OutputRejected(o, d) PROVE SignalInv'
  BY <1>10, InvOutputRejected
<1>11. ASSUME NEW preset \in Presets, NEW f \in Outputs, ApplyRefused(preset, f) PROVE SignalInv'
  BY <1>11, InvApplyRefused
<1>12. CASE UNCHANGED vars
  BY <1>12, Zenon DEF SignalInv, TypeOK, ShownIsDriven, NoGhostSource, UnusedNamesNone
<1> QED BY <1>1, <1>2, <1>3, <1>4, <1>5, <1>6, <1>7, <1>8, <1>9, <1>10, <1>11, <1>12 DEF Next

-----------------------------------------------------------------------------
(* The theorems.                                                           *)

(* The invariant of the signal path holds in every state: whatever a       *)
(* request, a preset and a report hold, no value shown leaves -1 .. 1, no  *)
(* pulse leaves 1000 .. 2000 us, and no stored number leaves its limits.   *)
THEOREM SignalInvariance == Spec => []SignalInv
<1>1. Init => SignalInv
  BY InvInit
<1>2. SignalInv /\ [Next]_vars => SignalInv'
  BY InvNext
<1> QED BY <1>1, <1>2, PTL DEF Spec

(* What the page shows of an output in use is what its pin was told last,  *)
(* by processGamepadToOutputs or by writeFailsafeForOutput, after refused  *)
(* edits and presets too, except where restoreOld has not brought it back: *)
(* a PWM output that it left without a servo, and until the next tick a    *)
(* switch of which the refused preset has written the pin or the value.    *)
THEOREM ShownMatchesDriven == Spec => []ShownIsDriven
<1>1. SignalInv => ShownIsDriven
  BY DEF SignalInv
<1> QED BY <1>1, SignalInvariance, PTL

(* An input deleted by handleApiVirtualDelete is named by no output until  *)
(* a request or a preset names it again.                                   *)
THEOREM NoGhosts == Spec => []NoGhostSource
<1>1. SignalInv => NoGhostSource
  BY DEF SignalInv
<1> QED BY <1>1, SignalInvariance, PTL

(* One tick with all sticks in their dead zones.                           *)
LEMMA NoiseTick ==
  ASSUME SignalInv, NEW p \in Reports \cup {Rest}, WithinDeadzones(p), TickDrive(p),
         NEW o \in Outputs, g_outputs[o].used, \A k \in 1 .. 3 : g_outputs[o].terms[k].offset = 0
  PROVE  IF g_outputs[o].type = "pwm" THEN level'[o] = 1500
         ELSE level'[o] = LOW \/ g_outputs[o].threshold = 0
<1>1. ConfigOK
  BY InvParts
<1> DEFINE out == g_outputs[o]
<1> DEFINE rt == Runtime(p)
<1>2. OutputOK(out) /\ out \in OutputConfigs
  BY <1>1 DEF ConfigOK
<1>3. ASSUME NEW i \in Inputs PROVE VirtualValue(g_virtualInputs[i], p) = 0
  <2>1. g_virtualInputs[i] \in InputConfigs /\ g_virtualInputs[i].deadzone \in 0 .. 95
    BY <1>1 DEF ConfigOK, InputOK
  <2>2. g_virtualInputs[i].used =>
           Magnitude(Raw(g_virtualInputs[i], p)) <= Percent(g_virtualInputs[i].deadzone)
    BY DEF WithinDeadzones
  <2> QED BY <2>1, <2>2, VirtualRange
<1>4. rt \in Values /\ \A i \in Inputs : rt[i] = 0
  <2>1. 0 \in -One .. One
    BY OneIsPositive
  <2> QED BY <1>3, <2>1 DEF Runtime, Values
<1>5. level'[o] = Driven(out, OutputSignal(out, rt))
  BY DEF TickDrive
<1> HIDE DEF rt
<1>6. out.terms \in [1 .. 3 -> TermConfigs]
  BY <1>2 DEF OutputConfigs
<1>7. ASSUME NEW k \in 1 .. 3 PROVE Term(out.terms[k], rt) = 0
  BY <1>4, <1>6, TermInt
<1>8. OutputSignal(out, rt) = 0
  <2>1. Mix(out.mixMode, out.terms, rt) = 0
    BY <1>4, <1>6, <1>7, MixInt
  <2> QED BY <1>2, <1>4, <2>1, SignalRange
<1>9. CASE out.type = "pwm"
  BY <1>5, <1>8, <1>9, PulseAtEnds DEF Driven
<1>10. CASE out.type # "pwm"
  <2>1. level'[o] = SwitchLevel(out, 0)
    BY <1>5, <1>8, <1>10 DEF Driven
  <2>2. out.threshold \in 0 .. 100
    BY <1>2 DEF OutputOK
  <2>3. out.threshold # 0 => SwitchLevel(out, 0) = LOW
    BY <2>2 DEF SwitchLevel, Magnitude, Percent, Constrain, One
  <2> QED BY <1>10, <2>1, <2>3
<1> QED BY <1>9, <1>10

(* Noise inside the dead zones moves nothing: evaluateVirtualRuntime gives *)
(* 0 for every input, so an output without offsets is told its neutral, by *)
(* either way of mixing, inverted or not.                                  *)
THEOREM NoiseIsNeutral == Spec => NoiseMovesNothing
<1>1. SignalInv /\ SignalInv' /\ [Next]_vars =>
        [WithinDeadzones(pad') /\ TickDrive(pad') =>
            \A o \in Outputs :
               g_outputs[o].used /\ (\A k \in 1 .. 3 : g_outputs[o].terms[k].offset = 0) =>
                  IF g_outputs[o].type = "pwm" THEN level'[o] = 1500
                  ELSE level'[o] = LOW \/ g_outputs[o].threshold = 0]_vars
  <2> SUFFICES ASSUME SignalInv, SignalInv', WithinDeadzones(pad'), TickDrive(pad'),
                      NEW o \in Outputs, g_outputs[o].used,
                      \A k \in 1 .. 3 : g_outputs[o].terms[k].offset = 0
               PROVE  IF g_outputs[o].type = "pwm" THEN level'[o] = 1500
                      ELSE level'[o] = LOW \/ g_outputs[o].threshold = 0
    OBVIOUS
  <2>1. PICK p \in Reports \cup {Rest} : p = pad'
    BY InvPartsPrimed DEF HistoryOK
  <2>2. WithinDeadzones(p) /\ TickDrive(p)
    BY <2>1, Zenon
  <2> QED BY <2>2, NoiseTick
<1> QED BY <1>1, SignalInvariance, PTL DEF Spec, NoiseMovesNothing


-----------------------------------------------------------------------------
(* The learn function.                                                     *)

(* What detectDominantInput starts from.                                   *)
Nothing == [id |-> "None", val |-> 0]

(* The members of a sequence, and of two in a row.                         *)
LEMMA Members ==
  ASSUME NEW S, NEW s \in Seq(S), NEW t \in Seq(S)
  PROVE  /\ \A k \in 1 .. Len(s) : s[k] \in S
         /\ Len(s \o t) = Len(s) + Len(t)
         /\ \A k \in 1 .. Len(s) : (s \o t)[k] = s[k]
         /\ \A k \in 1 .. Len(t) : (s \o t)[Len(s) + k] = t[k]
  OBVIOUS

(* The candidates of detectDominantInput: twelve buttons, then six sticks  *)
(* and triggers.                                                           *)
LEMMA CandidateFacts ==
  /\ Len(Candidates) = 18
  /\ \A k \in 1 .. 12 : Candidates[k] = Buttons[k] /\ Buttons[k] \in Digital
  /\ \A k \in 1 .. 6 : /\ Candidates[12 + k] = Analogs[k]
                       /\ Analogs[k] \in Centered \cup Positive
  /\ DOMAIN Buttons = 1 .. 12 /\ DOMAIN Analogs = 1 .. 6
<1>1. Len(Buttons) = 12 /\ Len(Analogs) = 6 /\ DOMAIN Buttons = 1 .. 12 /\ DOMAIN Analogs = 1 .. 6
  BY DEF Buttons, Analogs
<1>2. Buttons \in Seq(Digital)
  BY DEF Buttons, Digital
<1>3. Analogs \in Seq(Centered \cup Positive)
  BY DEF Analogs, Centered, Positive
<1>4. Buttons \in Seq(Controls) /\ Analogs \in Seq(Controls)
  BY <1>2, <1>3 DEF Controls
<1>5. /\ Len(Candidates) = Len(Buttons) + Len(Analogs)
      /\ \A k \in 1 .. Len(Buttons) : Candidates[k] = Buttons[k]
      /\ \A k \in 1 .. Len(Analogs) : Candidates[Len(Buttons) + k] = Analogs[k]
  BY <1>4, Members DEF Candidates
<1>6. \A k \in 1 .. Len(Buttons) : Buttons[k] \in Digital
  BY <1>2, Members
<1>7. \A k \in 1 .. Len(Analogs) : Analogs[k] \in Centered \cup Positive
  BY <1>3, Members
<1> QED BY <1>1, <1>5, <1>6, <1>7

(* BestAfter is the function that satisfies its equation, if there is one. *)
LEMMA BestIsChosen ==
  ASSUME NEW p
  PROVE  BestAfter(p) = CHOOSE b : b = [n \in 0 .. Len(Candidates) |->
                          IF n = 0 THEN [id |-> "None", val |-> 0]
                          ELSE Better(b[n - 1], Candidates[n], p)]
  BY DEF BestAfter


(* A set of numbers with a member has a least one.                         *)
LEMMA LeastExists ==
  ASSUME NEW S \in SUBSET Nat, S # {}
  PROVE  \E p \in S : \A q \in S : p <= q
<1> DEFINE Less == OpToRel(<, Nat)
<1>1. \A p, q \in Nat : <<q, p>> \in Less <=> q < p
  BY DEF OpToRel
<1>2. IsWellFoundedOn(Less, Nat)
  BY NatLessThanWellFounded
<1> HIDE DEF Less
<1>3. PICK p \in S : \A q \in S : ~ (<<q, p>> \in Less)
  BY <1>2, WFMin
<1>4. \A q \in S : ~ (q < p)
  BY <1>1, <1>3, Zenon
<1>5. \A q \in S : p <= q
  BY <1>4
<1> QED BY <1>5

(* Induction up to a number, over the set of the good ones.                *)
LEMMA UpTo ==
  ASSUME NEW N \in Nat, NEW G, 0 \in G, \A n \in 1 .. N : n - 1 \in G => n \in G
  PROVE  \A n \in 0 .. N : n \in G
<1> SUFFICES ASSUME NEW n \in 0 .. N, n \notin G PROVE FALSE
  OBVIOUS
<1> DEFINE Bad == {m \in 0 .. N : m \notin G}
<1>1. Bad \in SUBSET Nat /\ Bad # {}
  OBVIOUS
<1>2. PICK m \in Bad : \A k \in Bad : m <= k
  BY <1>1, LeastExists
<1>3. m \in 1 .. N
  BY <1>2
<1>4. m - 1 \in 0 .. N /\ m - 1 \notin Bad
  BY <1>2, <1>3
<1> QED BY <1>2, <1>3, <1>4

(* A pass over N candidates: f[n] is what is known after n of them.        *)
IsPass(f, N, base, step) ==
    f[0] = base /\ \A n \in 1 .. N : f[n] = step[n][f[n - 1]]

(* For every way of going on from one candidate to the next there is a     *)
(* pass over all of them.                                                  *)
LEMMA PassExists ==
  ASSUME NEW N \in Nat, NEW B, NEW base \in B, NEW step \in [1 .. N -> [B -> B]]
  PROVE  \E f \in [0 .. N -> B] : IsPass(f, N, base, step)
<1> DEFINE G == {m \in 0 .. N : \E f \in [0 .. m -> B] : IsPass(f, m, base, step)}
<1>1. 0 \in G
  <2> DEFINE f == [k \in 0 .. 0 |-> base]
  <2>1. f \in [0 .. 0 -> B]
    OBVIOUS
  <2>2. f[0] = base
    OBVIOUS
  <2>3. \A n \in 1 .. 0 : f[n] = step[n][f[n - 1]]
    <3>1. 1 .. 0 = {}
      OBVIOUS
    <3> QED BY <3>1, Zenon
  <2>4. 0 \in 0 .. N
    OBVIOUS
  <2> HIDE DEF f
  <2>5. \E h \in [0 .. 0 -> B] : IsPass(h, 0, base, step)
    BY <2>1, <2>2, <2>3, Zenon DEF IsPass
  <2> QED BY <2>4, <2>5, Zenon
<1>2. ASSUME NEW m \in 1 .. N, m - 1 \in G PROVE m \in G
  <2>1. PICK f \in [0 .. m - 1 -> B] : IsPass(f, m - 1, base, step)
    BY <1>2
  <2> DEFINE g == [k \in 0 .. m |-> IF k = m THEN step[m][f[m - 1]] ELSE f[k]]
  <2>2. step[m][f[m - 1]] \in B
    BY <2>1
  <2>3. g \in [0 .. m -> B]
    BY <2>1, <2>2
  <2>4. g[0] = base
    BY <2>1 DEF IsPass
  <2>5. ASSUME NEW n \in 1 .. m PROVE g[n] = step[n][g[n - 1]]
    <3>1. CASE n = m
      BY <3>1
    <3>2. CASE n # m
      BY <2>1, <3>2 DEF IsPass
    <3> QED BY <3>1, <3>2
  <2> HIDE DEF g
  <2>6. IsPass(g, m, base, step)
    BY <2>4, <2>5 DEF IsPass
  <2> QED BY <2>3, <2>6
<1>3. N \in G
  <2> HIDE DEF G
  <2>1. \A n \in 1 .. N : n - 1 \in G => n \in G
    BY <1>2, Zenon
  <2>2. \A n \in 0 .. N : n \in G
    BY <1>1, <2>1, UpTo, Zenon
  <2>3. N \in 0 .. N
    OBVIOUS
  <2> QED BY <2>2, <2>3, Zenon
<1> QED BY <1>3

(* What a control gives is between -1 and 1.                               *)
LEMMA NormalizedRange ==
  ASSUME NEW p \in Reports \cup {Rest}, NEW c \in Controls
  PROVE  /\ Normalized(c, p) \in -One .. One
         /\ Magnitude(Normalized(c, p)) \in 0 .. One
         /\ c \in Digital => Magnitude(Normalized(c, p)) \in {0, One}
<1>0. p[c] \in Int
  BY ReportInt
<1>1. CASE c \in Centered
  <2>1. Quot(p[c] * One, 512) \in Int
    <3>1. p[c] * One \in Int
      BY <1>0, OneIsPositive
    <3> QED BY <3>1, QuotInt
  <2>2. Constrain(Quot(p[c] * One, 512), -One, One) \in -One .. One
    <3>1. ASSUME NEW v \in Int PROVE Constrain(v, -One, One) \in -One .. One
      BY OneIsPositive DEF Constrain
    <3> QED BY <2>1, <3>1
  <2>3. Normalized(c, p) = Constrain(Quot(p[c] * One, 512), -One, One) /\ c \notin Digital
    BY <1>1 DEF Normalized, Centered, Positive, Digital
  <2> QED BY <2>2, <2>3, OneIsPositive DEF Magnitude
<1>2. CASE c \in Positive
  <2>1. Quot(p[c] * One, 1023) \in Int
    <3>1. p[c] * One \in Int
      BY <1>0, OneIsPositive
    <3> QED BY <3>1, QuotInt
  <2>2. Constrain(Quot(p[c] * One, 1023), 0, One) \in 0 .. One
    <3>1. ASSUME NEW v \in Int PROVE Constrain(v, 0, One) \in 0 .. One
      BY OneIsPositive DEF Constrain
    <3> QED BY <2>1, <3>1
  <2>3. Normalized(c, p) = Constrain(Quot(p[c] * One, 1023), 0, One) /\ c \notin Digital
    BY <1>2 DEF Normalized, Centered, Positive, Digital
  <2> QED BY <2>2, <2>3, OneIsPositive DEF Magnitude
<1>3. CASE c \in Digital
  <2>1. Normalized(c, p) = One \/ Normalized(c, p) = 0
    BY <1>3 DEF Normalized, Centered, Positive, Digital
  <2> QED BY <2>1, OneIsPositive DEF Magnitude
<1> QED BY <1>1, <1>2, <1>3 DEF Controls


(* What the pass of detectDominantInput may know.                          *)
BestRecords == [id : Controls \cup {"None"}, val : Nat]

(* The strength of the k-th candidate, and whether it passes its           *)
(* threshold.                                                              *)
Strength(k, p) == Magnitude(Normalized(Candidates[k], p))
Hit(k, p) == Strength(k, p) >= Threshold(Candidates[k])

(* Every threshold is above 0, so a control at rest is never a hit.        *)
LEMMA ThresholdPositive ==
  ASSUME NEW c \in Controls
  PROVE  Threshold(c) \in Nat /\ Threshold(c) > 0
<1>1. /\ Percent(50) \in Nat /\ Percent(50) > 0
      /\ Percent(15) \in Nat /\ Percent(15) > 0
      /\ Percent(25) \in Nat /\ Percent(25) > 0
  BY DEF Percent, One
<1> QED BY <1>1, Zenon DEF Threshold

(* Every candidate is a control.                                           *)
LEMMA CandidateControl ==
  ASSUME NEW k \in 1 .. 18
  PROVE  Candidates[k] \in Controls
<1>1. CASE k \in 1 .. 12
  BY <1>1, CandidateFacts DEF Controls
<1>2. CASE k \notin 1 .. 12
  <2>1. k - 12 \in 1 .. 6 /\ 12 + (k - 12) = k
    BY <1>2
  <2> QED BY <2>1, CandidateFacts DEF Controls
<1> QED BY <1>1, <1>2

(* One step of the pass.                                                   *)
LEMMA BetterCases ==
  ASSUME NEW p \in Reports \cup {Rest}, NEW k \in 1 .. 18, NEW b \in BestRecords
  PROVE  /\ Strength(k, p) \in 0 .. One
         /\ Better(b, Candidates[k], p) \in BestRecords
         /\ Hit(k, p) /\ Strength(k, p) > b.val =>
               Better(b, Candidates[k], p) = [id |-> Candidates[k], val |-> Strength(k, p)]
         /\ ~ (Hit(k, p) /\ Strength(k, p) > b.val) => Better(b, Candidates[k], p) = b
<1>1. Candidates[k] \in Controls
  BY CandidateControl
<1>2. Strength(k, p) \in 0 .. One
  BY <1>1, NormalizedRange DEF Strength
<1>3. Better(b, Candidates[k], p) =
        IF Hit(k, p) /\ Strength(k, p) > b.val
        THEN [id |-> Candidates[k], val |-> Strength(k, p)] ELSE b
  BY DEF Better, Hit, Strength
<1>4. [id |-> Candidates[k], val |-> Strength(k, p)] \in BestRecords
  BY <1>1, <1>2, OneIsPositive DEF BestRecords
<1> QED BY <1>2, <1>3, <1>4, Zenon

(* BestAfter runs through the candidates: it starts from nothing and takes *)
(* one step for each.                                                      *)
LEMMA BestAfterSteps ==
  ASSUME NEW p \in Reports \cup {Rest}
  PROVE  /\ BestAfter(p)[0] = Nothing
         /\ \A n \in 1 .. 18 : BestAfter(p)[n] = Better(BestAfter(p)[n - 1], Candidates[n], p)
         /\ \A n \in 0 .. 18 : BestAfter(p)[n] \in BestRecords
<1> DEFINE Run(b) == b = [n \in 0 .. Len(Candidates) |->
                            IF n = 0 THEN Nothing ELSE Better(b[n - 1], Candidates[n], p)]
<1> DEFINE step == [n \in 1 .. 18 |-> [b \in BestRecords |-> Better(b, Candidates[n], p)]]
<1>1. Nothing \in BestRecords
  BY DEF Nothing, BestRecords
<1>2. step \in [1 .. 18 -> [BestRecords -> BestRecords]]
  BY BetterCases
<1>3. ASSUME NEW n \in 1 .. 18, NEW b \in BestRecords PROVE step[n][b] = Better(b, Candidates[n], p)
  OBVIOUS
<1> HIDE DEF step
<1>4. 18 \in Nat
  OBVIOUS
<1>5. PICK f \in [0 .. 18 -> BestRecords] : IsPass(f, 18, Nothing, step)
  BY <1>1, <1>2, <1>4, PassExists, Zenon
<1>6. f[0] = Nothing /\ \A n \in 1 .. 18 : f[n] = step[n][f[n - 1]]
  BY <1>5 DEF IsPass
<1>7. \A n \in 1 .. 18 : n \in 0 .. 18 /\ n - 1 \in 0 .. 18 /\ n # 0
  OBVIOUS
<1>8. \A n \in 0 .. 18 : n = 0 \/ n \in 1 .. 18
  OBVIOUS
<1>9. \A n \in 1 .. 18 : f[n] = Better(f[n - 1], Candidates[n], p)
  BY <1>3, <1>5, <1>6, <1>7
<1>10. Run(f)
  <2>1. \A n \in 0 .. 18 : f[n] = IF n = 0 THEN Nothing ELSE Better(f[n - 1], Candidates[n], p)
    BY <1>6, <1>8, <1>9
  <2> QED BY <1>5, <2>1, CandidateFacts
<1>11. BestAfter(p) = CHOOSE b : Run(b)
  BY BestIsChosen DEF Nothing
<1>12. Run(BestAfter(p))
  <2> HIDE DEF Run
  <2> QED BY <1>10, <1>11
<1>13. \A n \in 0 .. 18 : BestAfter(p)[n] =
          IF n = 0 THEN Nothing ELSE Better(BestAfter(p)[n - 1], Candidates[n], p)
  BY <1>12, CandidateFacts
<1>14. BestAfter(p)[0] = Nothing
  BY <1>13
<1>15. \A n \in 1 .. 18 : BestAfter(p)[n] = Better(BestAfter(p)[n - 1], Candidates[n], p)
  BY <1>7, <1>13
<1>16. \A n \in 0 .. 18 : BestAfter(p)[n] \in BestRecords
  <2> DEFINE G == {n \in 0 .. 18 : BestAfter(p)[n] \in BestRecords}
  <2>1. 0 \in G
    BY <1>1, <1>14
  <2>2. ASSUME NEW n \in 1 .. 18, n - 1 \in G PROVE n \in G
    <3>1. BestAfter(p)[n - 1] \in BestRecords
      BY <2>2
    <3>2. Better(BestAfter(p)[n - 1], Candidates[n], p) \in BestRecords
      BY <3>1, BetterCases
    <3> QED BY <1>7, <1>15, <3>2
  <2>3. \A n \in 0 .. 18 : n \in G
    <3> HIDE DEF G
    <3> QED BY <1>4, <2>1, <2>2, UpTo, Zenon
  <2> QED BY <2>3
<1> QED BY <1>14, <1>15, <1>16


(* Candidate k leads the first n: it is a hit, none of the earlier hits is *)
(* as strong and none of the later ones is stronger.                       *)
LeadsAt(b, k, n, p) ==
    /\ Hit(k, p) /\ b.id = Candidates[k] /\ b.val = Strength(k, p)
    /\ \A j \in 1 .. n : Hit(j, p) =>
          /\ Strength(j, p) <= Strength(k, p)
          /\ j < k => Strength(j, p) < Strength(k, p)

(* What the pass knows after n candidates: the leader, or that there is no *)
(* hit.                                                                    *)
Leads(b, n, p) ==
    \/ b = Nothing /\ \A j \in 1 .. n : ~Hit(j, p)
    \/ \E k \in 1 .. n : LeadsAt(b, k, n, p)

(* One more candidate keeps the lead right.                                *)
LEMMA LeadsStep ==
  ASSUME NEW p \in Reports \cup {Rest}, NEW n \in 1 .. 18, NEW b \in BestRecords,
         Leads(b, n - 1, p)
  PROVE  Leads(Better(b, Candidates[n], p), n, p)
<1> DEFINE c == Better(b, Candidates[n], p)
<1> USE DEF BestRecords
<1>1. \A j \in 1 .. 18 : Strength(j, p) \in 0 .. One
  BY BetterCases
<1>2. Hit(n, p) => Strength(n, p) > 0
  <2>1. Threshold(Candidates[n]) \in Nat /\ Threshold(Candidates[n]) > 0
    BY CandidateControl, ThresholdPositive
  <2> QED BY <1>1, <2>1, OneIsPositive DEF Hit
<1>3. \A j \in 1 .. n : j \in 1 .. 18 /\ (j = n \/ (j \in 1 .. n - 1 /\ j < n))
  OBVIOUS
<1>4. CASE Hit(n, p) /\ Strength(n, p) > b.val
  <2>1. c.id = Candidates[n] /\ c.val = Strength(n, p)
    <3>1. c = [id |-> Candidates[n], val |-> Strength(n, p)]
      BY <1>4, BetterCases, Zenon
    <3> QED BY <3>1
  <2>2. ASSUME NEW j \in 1 .. n - 1, Hit(j, p) PROVE Strength(j, p) < Strength(n, p)
    <3>1. PICK k \in 1 .. n - 1 : LeadsAt(b, k, n - 1, p)
      BY <2>2 DEF Leads
    <3>2. Strength(j, p) <= b.val
      BY <2>2, <3>1 DEF LeadsAt
    <3>3. j \in 1 .. 18
      OBVIOUS
    <3> QED BY <1>1, <1>4, <3>2, <3>3, OneIsPositive
  <2>3. LeadsAt(c, n, n, p)
    <3> HIDE DEF c
    <3> QED BY <1>1, <1>3, <1>4, <2>1, <2>2, OneIsPositive DEF LeadsAt
  <2>4. n \in 1 .. n
    OBVIOUS
  <2> HIDE DEF c
  <2> QED BY <2>3, <2>4, Zenon DEF Leads, c
<1>5. CASE ~ (Hit(n, p) /\ Strength(n, p) > b.val)
  <2>1. c = b
    BY <1>5, BetterCases
  <2>2. CASE b = Nothing /\ \A j \in 1 .. n - 1 : ~Hit(j, p)
    <3>1. ~Hit(n, p)
      BY <1>2, <1>5, <2>2 DEF Nothing
    <3>2. \A j \in 1 .. n : ~Hit(j, p)
      BY <1>3, <2>2, <3>1
    <3> HIDE DEF c
    <3> QED BY <2>1, <2>2, <3>2, Zenon DEF Leads, c
  <2>3. CASE \E k \in 1 .. n - 1 : LeadsAt(b, k, n - 1, p)
    <3>1. PICK k \in 1 .. n - 1 : LeadsAt(b, k, n - 1, p)
      BY <2>3
    <3>2. k \in 1 .. n /\ k \in 1 .. 18 /\ k < n
      OBVIOUS
    <3>3. Hit(n, p) => Strength(n, p) <= Strength(k, p)
      BY <1>1, <1>5, <3>1, <3>2, OneIsPositive DEF LeadsAt
    <3>4. LeadsAt(b, k, n, p)
      BY <1>3, <3>1, <3>2, <3>3 DEF LeadsAt
    <3> HIDE DEF c
    <3> QED BY <2>1, <3>2, <3>4, Zenon DEF Leads, c
  <2> QED BY <2>2, <2>3 DEF Leads
<1> QED BY <1>4, <1>5, Zenon

(* What detectDominantInput knows at its end.                              *)
LEMMA PassLeads ==
  ASSUME NEW p \in Reports \cup {Rest}
  PROVE  Leads(BestAfter(p)[18], 18, p)
<1> DEFINE G == {n \in 0 .. 18 : Leads(BestAfter(p)[n], n, p)}
<1>1. 0 \in G
  <2>1. \A j \in 1 .. 0 : ~Hit(j, p)
    <3>1. 1 .. 0 = {}
      OBVIOUS
    <3> QED BY <3>1, Zenon
  <2>2. Leads(BestAfter(p)[0], 0, p)
    BY <2>1, BestAfterSteps, Zenon DEF Leads
  <2> QED BY <2>2
<1>2. ASSUME NEW n \in 1 .. 18, n - 1 \in G PROVE n \in G
  <2>1. n \in 0 .. 18 /\ n - 1 \in 0 .. 18
    OBVIOUS
  <2>2. Leads(BestAfter(p)[n - 1], n - 1, p) /\ BestAfter(p)[n - 1] \in BestRecords
    BY <1>2, <2>1, BestAfterSteps, Zenon
  <2>3. Leads(Better(BestAfter(p)[n - 1], Candidates[n], p), n, p)
    BY <2>2, LeadsStep, Zenon
  <2>4. Leads(BestAfter(p)[n], n, p)
    BY <2>3, BestAfterSteps, Zenon
  <2> QED BY <2>1, <2>4, Zenon
<1>3. 18 \in Nat /\ 18 \in 0 .. 18
  OBVIOUS
<1>4. 18 \in G
  <2> HIDE DEF G
  <2>1. \A n \in 0 .. 18 : n \in G
    BY <1>1, <1>2, <1>3, UpTo, Zenon
  <2> QED BY <1>3, <2>1, Zenon
<1> QED BY <1>4, Zenon


(* A pressed button has the full strength.                                 *)
LEMMA ButtonStrength ==
  ASSUME NEW p \in Reports \cup {Rest}, NEW k \in 1 .. 12
  PROVE  /\ Strength(k, p) = Magnitude(Normalized(Buttons[k], p))
         /\ Hit(k, p) <=> Strength(k, p) >= Percent(50)
         /\ Hit(k, p) => Strength(k, p) = One
<1>1. Candidates[k] = Buttons[k] /\ Candidates[k] \in Digital
  BY CandidateFacts
<1>2. Strength(k, p) \in {0, One}
  BY <1>1, NormalizedRange DEF Strength, Controls
<1>3. Threshold(Candidates[k]) = Percent(50)
  BY <1>1 DEF Threshold, Digital, Positive
<1>4. Threshold(Candidates[k]) \in Nat /\ Threshold(Candidates[k]) > 0
  BY <1>1, ThresholdPositive DEF Controls
<1>5. Hit(k, p) => Strength(k, p) = One
  BY <1>2, <1>4 DEF Hit
<1> QED BY <1>1, <1>3, <1>5, Zenon DEF Hit, Strength

(* The learn function finds the control the user means, whatever the sizes *)
(* and the reports: the loop of detectDominantInput keeps, after each      *)
(* candidate, the first of the strongest hits so far, and a pressed button *)
(* has the full strength, so that nothing after it is stronger.            *)
THEOREM LearnIsRight == Spec => []LearnFindsIntent
<1>1. SignalInv => LearnFindsIntent
  <2> SUFFICES ASSUME SignalInv PROVE LearnFindsIntent
    OBVIOUS
  <2>1. PICK p \in Reports \cup {Rest} : p = pad
    BY InvParts DEF HistoryOK
  <2> DEFINE b == BestAfter(p)[18]
  <2> DEFINE strength(c) == Magnitude(Normalized(c, p))
  <2> DEFINE pressed == {k \in DOMAIN Buttons : strength(Buttons[k]) >= Percent(50)}
  <2> DEFINE moved == {k \in DOMAIN Analogs : strength(Analogs[k]) >= Threshold(Analogs[k])}
  <2>2. Learned[p] = b.id
    BY CandidateFacts DEF Learned, DetectDominantInput
  <2>3. Leads(b, 18, p)
    BY PassLeads
  <2> HIDE DEF b
  <2>4. \A k \in 1 .. 12 : k \in pressed <=> Hit(k, p)
    BY ButtonStrength, CandidateFacts
  <2>5. pressed \subseteq 1 .. 12 /\ moved \subseteq 1 .. 6
    BY CandidateFacts
  <2>6. \A k \in 1 .. 6 : /\ Strength(12 + k, p) = strength(Analogs[k])
                          /\ k \in moved <=> Hit(12 + k, p)
    BY CandidateFacts DEF Hit, Strength
  <2>7. \A j \in 1 .. 18 : Strength(j, p) \in 0 .. One
    <3>1. Nothing \in BestRecords
      BY DEF Nothing, BestRecords
    <3> QED BY <3>1, BetterCases
  <2>8. \A j \in 1 .. 12 : Hit(j, p) => Strength(j, p) = One
    BY ButtonStrength
  <2>9. \A j \in 1 .. 18 : j \in 1 .. 12 \/ (j - 12 \in 1 .. 6 /\ 12 + (j - 12) = j)
    OBVIOUS
  <2>10. \A j \in 1 .. 6 : 12 + j \in 1 .. 18
    OBVIOUS
  <2>11. \A j \in 1 .. 12 : j \in 1 .. 18
    OBVIOUS
  <2> HIDE DEF pressed, moved
  <2>12. CASE pressed # {}
    <3>1. PICK i \in 1 .. 12 : Hit(i, p)
      BY <2>4, <2>5, <2>12
    <3>2. PICK k \in 1 .. 18 : LeadsAt(b, k, 18, p)
      BY <2>3, <2>11, <3>1 DEF Leads
    <3>3. Strength(i, p) <= Strength(k, p) /\ (i < k => Strength(i, p) < Strength(k, p))
      BY <2>11, <3>1, <3>2 DEF LeadsAt
    <3>4. ~ (i < k) /\ k \in 1 .. 12
      BY <2>7, <2>8, <3>1, <3>3, OneIsPositive
    <3>5. k \in pressed /\ b.id = Buttons[k]
      BY <2>4, <3>2, <3>4, CandidateFacts DEF LeadsAt
    <3>6. ASSUME NEW j \in pressed PROVE k <= j
      <4>1. j \in 1 .. 12 /\ Hit(j, p)
        BY <2>4, <2>5
      <4>2. j < k => Strength(j, p) < Strength(k, p)
        BY <2>11, <3>2, <4>1 DEF LeadsAt
      <4>3. Strength(k, p) = One /\ Strength(j, p) = One
        BY <2>8, <3>2, <3>4, <4>1 DEF LeadsAt
      <4> QED BY <3>4, <4>1, <4>2, <4>3, OneIsPositive
    <3>7. \E m \in pressed : Learned[p] = Buttons[m] /\ \A j \in pressed : m <= j
      BY <2>2, <3>5, <3>6, Zenon
    <3> QED BY <2>1, <2>12, <3>7, Zenon DEF LearnFindsIntent, pressed
  <2>13. CASE pressed = {} /\ moved # {}
    <3>1. PICK i \in 1 .. 6 : Hit(12 + i, p)
      BY <2>5, <2>6, <2>13
    <3>2. PICK k \in 1 .. 18 : LeadsAt(b, k, 18, p)
      BY <2>3, <2>10, <3>1 DEF Leads
    <3>3. k \notin 1 .. 12
      BY <2>4, <2>13, <3>2 DEF LeadsAt
    <3>4. PICK m \in 1 .. 6 : k = 12 + m
      BY <2>9, <3>3
    <3>5. m \in moved /\ b.id = Analogs[m]
      BY <2>6, <3>2, <3>4, CandidateFacts DEF LeadsAt
    <3>6. ASSUME NEW j \in moved \ {m}
          PROVE  \/ strength(Analogs[m]) > strength(Analogs[j])
                 \/ strength(Analogs[m]) = strength(Analogs[j]) /\ m < j
      <4>1. j \in 1 .. 6 /\ Hit(12 + j, p) /\ 12 + j \in 1 .. 18
        BY <2>5, <2>6, <2>10
      <4>2. /\ Strength(12 + j, p) <= Strength(12 + m, p)
            /\ 12 + j < 12 + m => Strength(12 + j, p) < Strength(12 + m, p)
        BY <3>2, <3>4, <4>1 DEF LeadsAt
      <4>3. Strength(12 + j, p) \in Int /\ Strength(12 + m, p) \in Int
        BY <2>7, <2>10, <3>4, <4>1, OneIsPositive
      <4>4. \/ Strength(12 + m, p) > Strength(12 + j, p)
            \/ Strength(12 + m, p) = Strength(12 + j, p) /\ m < j
        BY <4>1, <4>2, <4>3
      <4> HIDE DEF strength
      <4> QED BY <2>6, <4>1, <4>4
    <3>7. \E a \in moved :
             /\ Learned[p] = Analogs[a]
             /\ \A j \in moved \ {a} :
                  \/ strength(Analogs[a]) > strength(Analogs[j])
                  \/ strength(Analogs[a]) = strength(Analogs[j]) /\ a < j
      BY <2>2, <3>5, <3>6, Zenon
    <3> QED BY <2>1, <2>13, <3>7, Zenon DEF LearnFindsIntent, pressed, moved
  <2>14. CASE pressed = {} /\ moved = {}
    <3>1. ASSUME NEW j \in 1 .. 18 PROVE ~Hit(j, p)
      BY <2>4, <2>6, <2>9, <2>14
    <3>2. b = Nothing
      BY <2>3, <3>1 DEF Leads, LeadsAt
    <3>3. Learned[p] = "None"
      BY <2>2, <3>2 DEF Nothing
    <3> QED BY <2>1, <2>14, <3>3, Zenon DEF LearnFindsIntent, pressed, moved
  <2> QED BY <2>12, <2>13, <2>14, Zenon
<1> QED BY <1>1, SignalInvariance, PTL


-----------------------------------------------------------------------------
(* Deleting an input.                                                      *)

(* A cleared term adds nothing to a sum and leaves a product as it is.     *)
LEMMA NoTermIsNeutral ==
  ASSUME NEW rt
  PROVE  Term(NoTerm, rt) = 0 /\ ~HasTerm(NoTerm) /\ \A a : Times(a, NoTerm, rt) = a
<1>1. NoTerm.source = -1 /\ NoTerm.weight = 0 /\ NoTerm.offset = 0
  BY DEF NoTerm
<1>2. -1 \notin Inputs
  BY InputCount DEF Inputs
<1>3. SourceValue(-1, rt) = 0
  BY <1>2 DEF SourceValue
<1>4. Term(NoTerm, rt) = 0
  <2>1. Quot(0 * 0, 100) = 0
    BY DEF Quot
  <2>2. Percent(0) = 0
    BY DEF Percent, One
  <2> QED BY <1>1, <1>3, <2>1, <2>2 DEF Term
<1>5. ~HasTerm(NoTerm)
  BY <1>1 DEF HasTerm
<1> QED BY <1>4, <1>5, Zenon DEF Times

(* The mix of the terms after those of input i were cleared is the mix of  *)
(* the others, for any values of the inputs.                               *)
LEMMA MixCleared ==
  ASSUME NEW i, NEW mode, NEW ts, NEW us, NEW rt,
         \A k \in 1 .. 3 : us[k] = IF ts[k].source = i THEN NoTerm ELSE ts[k]
  PROVE  Mix(mode, us, rt) = MixOf(mode, ts, {k \in 1 .. 3 : ts[k].source # i}, rt)
<1> DEFINE others == {k \in 1 .. 3 : ts[k].source # i}
<1> DEFINE term(k) == IF k \in others THEN Term(ts[k], rt) ELSE 0
<1> DEFINE times(a, k) == IF k \in others THEN Times(a, ts[k], rt) ELSE a
<1>1. \A k \in 1 .. 3 : (k \in others => us[k] = ts[k]) /\ (k \notin others => us[k] = NoTerm)
  BY Zenon
<1>2. others \subseteq 1 .. 3 /\ 1 \in 1 .. 3 /\ 2 \in 1 .. 3 /\ 3 \in 1 .. 3
  OBVIOUS
<1> HIDE DEF others
<1>3. ASSUME NEW k \in 1 .. 3 PROVE Term(us[k], rt) = term(k)
  BY <1>1, NoTermIsNeutral, Zenon
<1>4. ASSUME NEW k \in 1 .. 3, NEW a PROVE Times(a, us[k], rt) = times(a, k)
  BY <1>1, NoTermIsNeutral, Zenon
<1>5. (\E k \in 1 .. 3 : HasTerm(us[k])) <=> (\E k \in others : HasTerm(ts[k]))
  <2>1. ASSUME NEW k \in 1 .. 3, HasTerm(us[k]) PROVE k \in others /\ HasTerm(ts[k])
    BY <1>1, <2>1, NoTermIsNeutral, Zenon
  <2>2. ASSUME NEW k \in others, HasTerm(ts[k]) PROVE k \in 1 .. 3 /\ HasTerm(us[k])
    BY <1>1, <1>2, <2>2, Zenon
  <2> QED BY <2>1, <2>2, Zenon
<1>6. MixOf(mode, ts, others, rt) =
        IF mode # "Multiply" THEN term(1) + term(2) + term(3)
        ELSE IF \E k \in others : HasTerm(ts[k]) THEN times(times(times(One, 1), 2), 3)
        ELSE 0
  BY Zenon DEF MixOf
<1>7. Mix(mode, us, rt) =
        IF mode # "Multiply" THEN term(1) + term(2) + term(3)
        ELSE IF \E k \in 1 .. 3 : HasTerm(us[k]) THEN times(times(times(One, 1), 2), 3)
        ELSE 0
  <2>1. Term(us[1], rt) = term(1) /\ Term(us[2], rt) = term(2) /\ Term(us[3], rt) = term(3)
    BY <1>2, <1>3, Zenon
  <2>2. Times(Times(Times(One, us[1], rt), us[2], rt), us[3], rt) = times(times(times(One, 1), 2), 3)
    <3>1. Times(One, us[1], rt) = times(One, 1)
      BY <1>2, <1>4, Zenon
    <3>2. Times(times(One, 1), us[2], rt) = times(times(One, 1), 2)
      BY <1>2, <1>4
    <3>3. Times(times(times(One, 1), 2), us[3], rt) = times(times(times(One, 1), 2), 3)
      BY <1>2, <1>4
    <3> HIDE DEF times
    <3> QED BY <3>1, <3>2, <3>3, Zenon
  <2> HIDE DEF term, times
  <2> QED BY <2>1, <2>2 DEF Mix
<1>8. Mix(mode, us, rt) = MixOf(mode, ts, others, rt)
  <2> HIDE DEF term, times
  <2>1. CASE mode # "Multiply"
    BY <1>6, <1>7, <2>1, Zenon
  <2>2. CASE mode = "Multiply" /\ \E k \in others : HasTerm(ts[k])
    BY <1>5, <1>6, <1>7, <2>2, Zenon
  <2>3. CASE mode = "Multiply" /\ ~ \E k \in others : HasTerm(ts[k])
    BY <1>5, <1>6, <1>7, <2>3, Zenon
  <2> QED BY <2>1, <2>2, <2>3, Zenon
<1> QED BY <1>8 DEF others

(* A record keeps its other fields when its terms are replaced.            *)
LEMMA ModeKept ==
  ASSUME NEW T, NEW F,
         NEW d \in [used : BOOLEAN, type : {"pwm", "switch"}, inverted : BOOLEAN, threshold : Int,
                    failsafe : F, mixMode : {"Add", "Multiply"}, terms : T],
         NEW ts
  PROVE  [d EXCEPT !.terms = ts].mixMode = d.mixMode /\ [d EXCEPT !.terms = ts].terms = ts
  OBVIOUS

(* What VirtualDelete leaves of a used output.                             *)
LEMMA DeletedTerms ==
  ASSUME SignalInv, NEW i \in Inputs, VirtualDelete(i), NEW o \in Outputs, g_outputs[o].used
  PROVE  /\ g_outputs'[o].mixMode = g_outputs[o].mixMode
         /\ \A k \in 1 .. 3 : g_outputs'[o].terms[k] =
               IF g_outputs[o].terms[k].source = i THEN NoTerm ELSE g_outputs[o].terms[k]
<1> DEFINE ts == [k \in 1 .. 3 |-> IF g_outputs[o].used /\ g_outputs[o].terms[k].source = i
                                   THEN NoTerm ELSE g_outputs[o].terms[k]]
<1> DEFINE T == [1 .. 3 -> TermConfigs]
<1> DEFINE F == {"Min", "Center", "Max"}
<1>1. g_outputs'[o] = [g_outputs[o] EXCEPT !.terms = ts]
  BY DEF VirtualDelete
<1>2. g_outputs[o] \in [used : BOOLEAN, type : {"pwm", "switch"}, inverted : BOOLEAN,
                        threshold : Int, failsafe : F, mixMode : {"Add", "Multiply"}, terms : T]
  BY InvParts DEF ConfigOK, OutputConfigs
<1>3. \A k \in 1 .. 3 : ts[k] = IF g_outputs[o].terms[k].source = i
                                THEN NoTerm ELSE g_outputs[o].terms[k]
  OBVIOUS
<1> HIDE DEF ts, T, F
<1>4. g_outputs'[o].mixMode = g_outputs[o].mixMode /\ g_outputs'[o].terms = ts
  BY <1>1, <1>2, ModeKept, Zenon
<1> QED BY <1>3, <1>4, Zenon

(* handleApiVirtualDelete takes the terms of the deleted input out of each *)
(* mix and leaves the others as they are: a cleared term is neutral both   *)
(* for the sum and for the product, and a product without terms is 0, not  *)
(* 1.                                                                      *)
THEOREM DeletionKeepsMix == Spec => DeleteKeepsOtherTerms
<1> DEFINE Kept(i, o) ==
      VirtualDelete(i) /\ g_outputs[o].used =>
         LET others == {k \in 1 .. 3 : g_outputs[o].terms[k].source # i}
         IN  \A rt \in [Inputs -> {-One, 0, One \div 2}] :
               Mix(g_outputs'[o].mixMode, g_outputs'[o].terms, rt) =
               MixOf(g_outputs[o].mixMode, g_outputs[o].terms, others, rt)
<1>1. ASSUME SignalInv, NEW i \in Inputs, NEW o \in Outputs PROVE Kept(i, o)
  <2> SUFFICES ASSUME VirtualDelete(i), g_outputs[o].used, NEW rt
               PROVE  Mix(g_outputs'[o].mixMode, g_outputs'[o].terms, rt) =
                      MixOf(g_outputs[o].mixMode, g_outputs[o].terms,
                            {k \in 1 .. 3 : g_outputs[o].terms[k].source # i}, rt)
    BY Zenon
  <2>1. /\ g_outputs'[o].mixMode = g_outputs[o].mixMode
        /\ \A k \in 1 .. 3 : g_outputs'[o].terms[k] =
              IF g_outputs[o].terms[k].source = i THEN NoTerm ELSE g_outputs[o].terms[k]
    BY <1>1, DeletedTerms, Zenon
  <2> DEFINE ts == g_outputs[o].terms
  <2> DEFINE us == g_outputs'[o].terms
  <2> DEFINE mode == g_outputs[o].mixMode
  <2>2. \A k \in 1 .. 3 : us[k] = IF ts[k].source = i THEN NoTerm ELSE ts[k]
    BY <2>1, Zenon
  <2>3. Mix(mode, us, rt) = MixOf(mode, ts, {k \in 1 .. 3 : ts[k].source # i}, rt)
    <3> HIDE DEF ts, us, mode
    <3> QED BY <2>2, MixCleared
  <2> QED BY <2>1, <2>3, Zenon
<1>2. SignalInv => [\A i \in Inputs, o \in Outputs : Kept(i, o)]_vars
  <2> HIDE DEF Kept
  <2> QED BY <1>1, Zenon
<1> QED BY <1>2, SignalInvariance, PTL DEF DeleteKeepsOtherTerms


-----------------------------------------------------------------------------
(* Pushing a stick further never drives an output back.                    *)

(* A product keeps the order of its factors.                               *)
LEMMA ProductMono ==
  ASSUME NEW a \in Nat, NEW b \in Nat, NEW c \in Nat, NEW d \in Nat, a <= b, c <= d
  PROVE  a * c <= b * d
<1>1. a * c <= b * c
  OBVIOUS
<1>2. b * c <= b * d
  OBVIOUS
<1>3. a * c \in Int /\ b * c \in Int /\ b * d \in Int
  OBVIOUS
<1> QED BY <1>1, <1>2, <1>3

(* A quotient keeps the order of the dividends.                            *)
LEMMA DivMono ==
  ASSUME NEW a \in Int, NEW b \in Int, NEW d \in Nat \ {0}, a <= b
  PROVE  a \div d <= b \div d
<1> DEFINE x == a \div d
<1> DEFINE y == b \div d
<1>1. x \in Int /\ y \in Int
  OBVIOUS
<1>2. d * x <= a /\ b < d * y + d
  OBVIOUS
<1> HIDE DEF x, y
<1>3. ASSUME x > y PROVE FALSE
  <2>1. x - y - 1 \in Nat
    BY <1>1, <1>3
  <2>2. d * (x - y - 1) >= 0
    BY <2>1
  <2>3. d * (x - y - 1) = d * x - d * y - d
    BY <1>1
  <2>4. d * x \in Int /\ d * y \in Int
    BY <1>1
  <2> QED BY <1>2, <2>2, <2>3, <2>4
<1> QED BY <1>1, <1>3 DEF x, y

(* So does one rounded towards 0.                                          *)
LEMMA QuotMono ==
  ASSUME NEW a \in Int, NEW b \in Int, NEW d \in Nat \ {0}, a <= b
  PROVE  Quot(a, d) <= Quot(b, d)
<1>1. ASSUME NEW x \in Nat PROVE x \div d \in Nat
  OBVIOUS
<1>2. CASE a >= 0
  BY <1>2, DivMono DEF Quot
<1>3. CASE a < 0 /\ b < 0
  <2>1. (-b) \div d <= (-a) \div d
    BY <1>3, DivMono
  <2>2. (-b) \div d \in Int /\ (-a) \div d \in Int
    OBVIOUS
  <2>3. Quot(a, d) = -((-a) \div d) /\ Quot(b, d) = -((-b) \div d)
    BY <1>3 DEF Quot
  <2> DEFINE x == (-a) \div d
  <2> DEFINE y == (-b) \div d
  <2> HIDE DEF x, y
  <2>4. -x <= -y
    BY <2>1, <2>2 DEF x, y
  <2> QED BY <2>3, <2>4 DEF x, y
<1>4. CASE a < 0 /\ b >= 0
  <2>1. (-a) \div d \in Nat /\ b \div d \in Nat
    BY <1>1, <1>4
  <2>2. Quot(a, d) = -((-a) \div d) /\ Quot(b, d) = b \div d
    BY <1>4 DEF Quot
  <2> DEFINE x == (-a) \div d
  <2> DEFINE y == b \div d
  <2> HIDE DEF x, y
  <2>3. -x <= y
    BY <2>1 DEF x, y
  <2> QED BY <2>2, <2>3 DEF x, y
<1> QED BY <1>2, <1>3, <1>4

(* Limiting keeps the order.                                               *)
LEMMA ConstrainMono ==
  ASSUME NEW v \in Int, NEW w \in Int, NEW lo \in Int, NEW hi \in Int, lo <= hi, v <= w
  PROVE  Constrain(v, lo, hi) <= Constrain(w, lo, hi)
  BY DEF Constrain

(* Giving the sign back keeps the order, if the magnitudes are in order    *)
(* and none is negative.                                                   *)
LEMMA SignedMono ==
  ASSUME NEW v \in Int, NEW w \in Int, v <= w, NEW m \in Nat, NEW n \in Nat,
         Magnitude(v) <= Magnitude(w) => m <= n, Magnitude(w) <= Magnitude(v) => n <= m
  PROVE  Signed(v, m) <= Signed(w, n)
<1>1. CASE v >= 0
  BY <1>1 DEF Signed, Magnitude
<1>2. CASE v < 0 /\ w < 0
  BY <1>2 DEF Signed, Magnitude
<1>3. CASE v < 0 /\ w >= 0
  BY <1>3 DEF Signed, Magnitude
<1> QED BY <1>1, <1>2, <1>3

(* The magnitude of the dead zone's result.                                *)
Past(a, dz) == IF a <= dz THEN 0 ELSE ((a - dz) * One) \div (One - dz)

(* It grows with the magnitude.                                            *)
LEMMA PastMono ==
  ASSUME NEW a \in Nat, NEW b \in Nat, NEW dz \in Nat, One - dz \in Nat \ {0}, a <= b
  PROVE  Past(a, dz) \in Nat /\ Past(a, dz) <= Past(b, dz)
<1>1. ASSUME NEW c \in Nat PROVE Past(c, dz) \in Nat
  <2>1. CASE c <= dz
    BY <2>1 DEF Past
  <2>2. CASE c > dz
    <3>1. c - dz \in Nat
      BY <2>2
    <3>2. (c - dz) * One \in Nat
      BY <3>1, OneIsPositive
    <3>3. ((c - dz) * One) \div (One - dz) \in Nat
      BY <3>2
    <3> QED BY <2>2, <3>3 DEF Past
  <2> QED BY <2>1, <2>2
<1>2. CASE a <= dz
  <2>1. Past(a, dz) = 0
    BY <1>2 DEF Past
  <2>2. Past(b, dz) \in Nat
    BY <1>1
  <2> QED BY <2>1, <2>2
<1>3. CASE a > dz
  <2>1. a - dz \in Nat /\ b - dz \in Nat /\ a - dz <= b - dz /\ One \in Nat /\ One <= One
    BY <1>3, OneIsPositive
  <2>2. (a - dz) * One <= (b - dz) * One
    BY <2>1, ProductMono
  <2>3. (a - dz) * One \in Int /\ (b - dz) * One \in Int
    BY <2>1
  <2>4. ((a - dz) * One) \div (One - dz) <= ((b - dz) * One) \div (One - dz)
    BY <2>2, <2>3, DivMono
  <2>5. ~ (a <= dz) /\ ~ (b <= dz)
    BY <1>3
  <2> QED BY <1>1, <2>4, <2>5 DEF Past
<1> QED BY <1>2, <1>3

(* The dead zone keeps the order.                                          *)
LEMMA DeadzoneMono ==
  ASSUME NEW v \in Int, NEW w \in Int, NEW dz \in 0 .. 95, v <= w
  PROVE  ApplyDeadzoneSigned(v, dz) <= ApplyDeadzoneSigned(w, dz)
<1> DEFINE z == Percent(dz)
<1>1. Constrain(dz, 0, 95) = dz
  BY DEF Constrain
<1>2. z \in Nat /\ One - z \in Nat \ {0} /\ Magnitude(v) \in Nat /\ Magnitude(w) \in Nat
  BY DEF Percent, One, Magnitude
<1> HIDE DEF z
<1>3. ASSUME NEW u \in Int PROVE ApplyDeadzoneSigned(u, dz) = Signed(u, Past(Magnitude(u), z))
  <2>1. ApplyDeadzoneSigned(u, dz) =
          IF Magnitude(u) <= z THEN 0
          ELSE Signed(u, ((Magnitude(u) - z) * One) \div (One - z))
    BY <1>1, Zenon DEF ApplyDeadzoneSigned, z
  <2>2. Signed(u, 0) = 0
    <3>1. ASSUME NEW m \in Nat, m <= 0 PROVE Signed(u, m) = 0
      BY <3>1 DEF Signed
    <3>2. 0 \in Nat /\ 0 <= 0
      OBVIOUS
    <3> QED BY <3>1, <3>2, Zenon
  <2>3. CASE Magnitude(u) <= z
    BY <2>1, <2>2, <2>3, Zenon DEF Past
  <2>4. CASE ~ (Magnitude(u) <= z)
    BY <2>1, <2>4, Zenon DEF Past
  <2> QED BY <2>3, <2>4
<1>4. /\ Past(Magnitude(v), z) \in Nat /\ Past(Magnitude(w), z) \in Nat
      /\ Magnitude(v) <= Magnitude(w) => Past(Magnitude(v), z) <= Past(Magnitude(w), z)
      /\ Magnitude(w) <= Magnitude(v) => Past(Magnitude(w), z) <= Past(Magnitude(v), z)
  BY <1>2, PastMono
<1> QED BY <1>3, <1>4, SignedMono


(* The power of a magnitude that the expo curve takes.                     *)
Power(a, expo) ==
    LET square == (a * a) \div One
    IN  CASE expo <= 0 -> a [] expo = 50 -> square [] OTHER -> (square * a) \div One

(* It grows with the magnitude.                                            *)
LEMMA PowerMono ==
  ASSUME NEW a \in Nat, NEW b \in Nat, NEW expo \in Int, a <= b
  PROVE  Power(a, expo) \in Nat /\ Power(b, expo) \in Nat /\ Power(a, expo) <= Power(b, expo)
<1> DEFINE square(c) == (c * c) \div One
<1> DEFINE cube(c) == (square(c) * c) \div One
<1>1. ASSUME NEW x \in Nat, NEW y \in Nat, x <= y
      PROVE  x \div One \in Nat /\ y \div One \in Nat /\ x \div One <= y \div One
  <2>1. x \div One \in Nat /\ y \div One \in Nat
    BY DEF One
  <2>2. x \div One <= y \div One
    BY <1>1, OneIsPositive, DivMono
  <2> QED BY <2>1, <2>2
<1>2. a * a \in Nat /\ b * b \in Nat /\ a * a <= b * b
  BY ProductMono
<1>3. square(a) \in Nat /\ square(b) \in Nat /\ square(a) <= square(b)
  BY <1>1, <1>2
<1> HIDE DEF square
<1>4. square(a) * a \in Nat /\ square(b) * b \in Nat /\ square(a) * a <= square(b) * b
  BY <1>3, ProductMono
<1>5. cube(a) \in Nat /\ cube(b) \in Nat /\ cube(a) <= cube(b)
  BY <1>1, <1>4
<1>6. ASSUME NEW c
      PROVE  Power(c, expo) = CASE expo <= 0 -> c [] expo = 50 -> square(c) [] OTHER -> cube(c)
  BY Zenon DEF Power, square
<1> HIDE DEF cube
<1>7. CASE expo <= 0
  <2>1. Power(a, expo) = a /\ Power(b, expo) = b
    BY <1>6, <1>7
  <2> QED BY <2>1
<1>8. CASE ~ (expo <= 0) /\ expo = 50
  <2>1. Power(a, expo) = square(a) /\ Power(b, expo) = square(b)
    BY <1>6, <1>8
  <2> QED BY <1>3, <2>1
<1>9. CASE ~ (expo <= 0) /\ expo # 50
  <2>1. Power(a, expo) = cube(a) /\ Power(b, expo) = cube(b)
    BY <1>6, <1>9
  <2> QED BY <1>5, <2>1
<1> QED BY <1>7, <1>8, <1>9

(* The expo curve keeps the order.                                         *)
LEMMA ExpoMono ==
  ASSUME NEW v \in Int, NEW w \in Int, NEW expo \in Int, v <= w
  PROVE  ApplyExpoSigned(v, expo) <= ApplyExpoSigned(w, expo)
<1> DEFINE m == Power(Magnitude(v), expo)
<1> DEFINE n == Power(Magnitude(w), expo)
<1>1. /\ ApplyExpoSigned(v, expo) = Constrain(Signed(v, m), -One, One)
      /\ ApplyExpoSigned(w, expo) = Constrain(Signed(w, n), -One, One)
  BY Zenon DEF ApplyExpoSigned, Power
<1>2. Magnitude(v) \in Nat /\ Magnitude(w) \in Nat
  BY DEF Magnitude
<1>3. /\ m \in Nat /\ n \in Nat
      /\ Magnitude(v) <= Magnitude(w) => m <= n
      /\ Magnitude(w) <= Magnitude(v) => n <= m
  <2> DEFINE a == Magnitude(v)
  <2> DEFINE b == Magnitude(w)
  <2>1. a \in Nat /\ b \in Nat /\ (a <= b \/ b <= a)
    BY <1>2
  <2> HIDE DEF a, b
  <2>2. /\ Power(a, expo) \in Nat /\ Power(b, expo) \in Nat
        /\ a <= b => Power(a, expo) <= Power(b, expo)
        /\ b <= a => Power(b, expo) <= Power(a, expo)
    BY <2>1, PowerMono
  <2> QED BY <2>2, Zenon DEF a, b
<1> HIDE DEF m, n
<1>4. Signed(v, m) <= Signed(w, n)
  BY <1>3, SignedMono
<1>5. Signed(v, m) \in Int /\ Signed(w, n) \in Int
  BY <1>3 DEF Signed
<1>6. Constrain(Signed(v, m), -One, One) <= Constrain(Signed(w, n), -One, One)
  BY <1>4, <1>5, OneIsPositive, ConstrainMono
<1> QED BY <1>1, <1>6

(* evaluateVirtualInput keeps the order of the combined controls, while    *)
(* its modifier allows it or not.                                          *)
LEMMA VirtualMono ==
  ASSUME NEW in \in InputConfigs, in.deadzone \in 0 .. 95,
         NEW p \in Reports \cup {Rest}, NEW q \in Reports \cup {Rest},
         in.used => /\ EnabledByModifier(in, p) <=> EnabledByModifier(in, q)
                    /\ Raw(in, p) <= Raw(in, q)
  PROVE  VirtualValue(in, p) <= VirtualValue(in, q)
<1> DEFINE v == ApplyDeadzoneSigned(Raw(in, p), in.deadzone)
<1> DEFINE w == ApplyDeadzoneSigned(Raw(in, q), in.deadzone)
<1>1. Raw(in, p) \in Int /\ Raw(in, q) \in Int /\ in.expo \in Int
  BY RawInt DEF InputConfigs
<1>2. CASE ~in.used \/ in.primary = "None" \/ ~EnabledByModifier(in, p)
  <2>1. VirtualValue(in, p) = 0 /\ VirtualValue(in, q) = 0
    BY <1>2, Zenon DEF VirtualValue
  <2> QED BY <2>1
<1>3. CASE ~ (~in.used \/ in.primary = "None" \/ ~EnabledByModifier(in, p))
  <2>1. /\ VirtualValue(in, p) = ApplyExpoSigned(v, in.expo)
        /\ VirtualValue(in, q) = ApplyExpoSigned(w, in.expo)
    BY <1>3, Zenon DEF VirtualValue
  <2>2. v \in Int /\ w \in Int
    BY <1>1, DeadzoneInt
  <2>3. v <= w
    BY <1>1, <1>3, DeadzoneMono
  <2> HIDE DEF v, w
  <2>4. ApplyExpoSigned(v, in.expo) <= ApplyExpoSigned(w, in.expo)
    BY <1>1, <2>2, <2>3, ExpoMono
  <2> QED BY <2>1, <2>4
<1> QED BY <1>2, <1>3

(* A term with a weight that is not negative keeps the order of the values *)
(* of its source.                                                          *)
LEMMA TermMono ==
  ASSUME NEW t \in TermConfigs, t.weight >= 0, NEW rt \in Values, NEW st \in Values,
         \A i \in Inputs : rt[i] <= st[i]
  PROVE  Term(t, rt) <= Term(t, st)
<1> DEFINE a == SourceValue(t.source, rt)
<1> DEFINE b == SourceValue(t.source, st)
<1>1. t.weight \in Nat /\ t.offset \in Int /\ Percent(t.offset) \in Int
  BY DEF TermConfigs, Percent, One
<1>2. a \in Int /\ b \in Int /\ a <= b
  <2>1. CASE t.source \in Inputs
    <3>1. a = rt[t.source] /\ b = st[t.source]
      BY <2>1 DEF SourceValue
    <3>2. rt[t.source] \in -One .. One /\ st[t.source] \in -One .. One
      BY <2>1 DEF Values
    <3>3. rt[t.source] \in Int /\ st[t.source] \in Int
      BY <3>2, OneIsPositive
    <3> QED BY <2>1, <3>1, <3>3
  <2>2. CASE t.source \notin Inputs
    <3>1. a = 0 /\ b = 0
      BY <2>2 DEF SourceValue
    <3> QED BY <3>1
  <2> QED BY <2>1, <2>2
<1> HIDE DEF a, b
<1>3. a * t.weight \in Int /\ b * t.weight \in Int /\ a * t.weight <= b * t.weight
  <2>1. b - a \in Nat
    BY <1>2
  <2>2. (b - a) * t.weight \in Nat
    BY <1>1, <2>1
  <2>3. (b - a) * t.weight = b * t.weight - a * t.weight
    BY <1>1, <1>2
  <2>4. a * t.weight \in Int /\ b * t.weight \in Int
    BY <1>1, <1>2
  <2> QED BY <2>2, <2>3, <2>4
<1>4. Quot(a * t.weight, 100) <= Quot(b * t.weight, 100)
  BY <1>3, QuotMono
<1>5. Quot(a * t.weight, 100) \in Int /\ Quot(b * t.weight, 100) \in Int
  BY <1>3, QuotInt
<1>6. Term(t, rt) = Quot(a * t.weight, 100) + Percent(t.offset)
  BY DEF Term, a
<1>7. Term(t, st) = Quot(b * t.weight, 100) + Percent(t.offset)
  BY DEF Term, b
<1> QED BY <1>1, <1>4, <1>5, <1>6, <1>7


(* A sum of such terms, limited and turned round or not.                   *)
LEMMA SignalMono ==
  ASSUME NEW out \in OutputConfigs, out.mixMode = "Add", \A k \in 1 .. 3 : out.terms[k].weight >= 0,
         NEW rt \in Values, NEW st \in Values, \A i \in Inputs : rt[i] <= st[i]
  PROVE  IF out.inverted THEN OutputSignal(out, st) <= OutputSignal(out, rt)
                         ELSE OutputSignal(out, rt) <= OutputSignal(out, st)
<1> DEFINE v == Mix(out.mixMode, out.terms, rt)
<1> DEFINE w == Mix(out.mixMode, out.terms, st)
<1>1. out.terms \in [1 .. 3 -> TermConfigs]
  BY DEF OutputConfigs
<1>2. v \in Int /\ w \in Int
  BY <1>1, MixInt
<1>3. v <= w
  <2>1. \A k \in 1 .. 3 : /\ Term(out.terms[k], rt) \in Int /\ Term(out.terms[k], st) \in Int
                          /\ Term(out.terms[k], rt) <= Term(out.terms[k], st)
    BY <1>1, TermInt, TermMono
  <2>2. /\ v = Term(out.terms[1], rt) + Term(out.terms[2], rt) + Term(out.terms[3], rt)
        /\ w = Term(out.terms[1], st) + Term(out.terms[2], st) + Term(out.terms[3], st)
    BY DEF Mix
  <2> HIDE DEF v, w
  <2> QED BY <2>1, <2>2
<1> HIDE DEF v, w
<1>4. /\ Constrain(v, -One, One) <= Constrain(w, -One, One)
      /\ Constrain(v, -One, One) \in Int /\ Constrain(w, -One, One) \in Int
  <2>1. Constrain(v, -One, One) <= Constrain(w, -One, One)
    BY <1>2, <1>3, OneIsPositive, ConstrainMono
  <2>2. Constrain(v, -One, One) \in Int /\ Constrain(w, -One, One) \in Int
    BY <1>2, OneIsPositive DEF Constrain
  <2> QED BY <2>1, <2>2
<1> DEFINE x == Constrain(v, -One, One)
<1> DEFINE y == Constrain(w, -One, One)
<1>5. OutputSignal(out, rt) = IF out.inverted THEN -x ELSE x
  BY Zenon DEF OutputSignal, v
<1>6. OutputSignal(out, st) = IF out.inverted THEN -y ELSE y
  BY Zenon DEF OutputSignal, w
<1>7. x <= y /\ -y <= -x
  <2>1. ASSUME NEW a \in Int, NEW b \in Int, a <= b PROVE -b <= -a
    BY <2>1
  <2> QED BY <1>4, <2>1
<1> HIDE DEF x, y
<1>8. CASE out.inverted
  BY <1>5, <1>6, <1>7, <1>8, Zenon
<1>9. CASE ~ out.inverted
  BY <1>5, <1>6, <1>7, <1>9, Zenon
<1> QED BY <1>8, <1>9, Zenon

(* The pulse grows with the signal.                                        *)
LEMMA PulseMono ==
  ASSUME NEW m \in -One .. One, NEW n \in -One .. One, m <= n
  PROVE  Pulse(m) <= Pulse(n)
<1> DEFINE a == (2 * (1500 * One + 500 * m) + One) \div (2 * One)
<1> DEFINE b == (2 * (1500 * One + 500 * n) + One) \div (2 * One)
<1>1. a \in Int /\ b \in Int /\ a <= b
  BY DEF One
<1>2. Pulse(m) = Constrain(a, 1000, 2000) /\ Pulse(n) = Constrain(b, 1000, 2000)
  BY Zenon DEF Pulse
<1> HIDE DEF a, b
<1>3. Constrain(a, 1000, 2000) <= Constrain(b, 1000, 2000)
  BY <1>1, ConstrainMono
<1> QED BY <1>2, <1>3

(* Report q pushes every control on from report p, or not at all: the      *)
(* combined controls of each input are at least as far, with its modifier  *)
(* in the same state.                                                      *)
PushedOn(p, q) ==
    \A i \in Inputs : LET in == g_virtualInputs[i] IN in.used =>
        /\ EnabledByModifier(in, p) <=> EnabledByModifier(in, q)
        /\ Raw(in, p) <= Raw(in, q)

(* The pulse of output o after a tick with report p.                       *)
PulseFor(o, p) == Driven(g_outputs[o], OutputSignal(g_outputs[o], Runtime(p)))

(* Pushing a stick further never drives a servo or motor back: of two      *)
(* reports, the one further on gives each output that adds its terms, with *)
(* no negative weight, a pulse at least as long, or at most if inverted.   *)
PushNeverDrivesBack ==
    \A o \in Outputs, p \in Reports \cup {Rest}, q \in Reports \cup {Rest} :
        LET out == g_outputs[o] IN
        /\ out.used /\ out.type = "pwm" /\ out.mixMode = "Add"
        /\ \A k \in 1 .. 3 : out.terms[k].weight >= 0
        /\ PushedOn(p, q)
        => IF out.inverted THEN PulseFor(o, q) <= PulseFor(o, p) ELSE PulseFor(o, p) <= PulseFor(o, q)

(* The whole path keeps the order in every configuration that requests and *)
(* presets can build: the dead zone, the expo curve, the weights and the   *)
(* limits are each monotone, roundings included.                           *)
THEOREM PushIsMonotone == Spec => []PushNeverDrivesBack
<1>1. SignalInv => PushNeverDrivesBack
  <2> SUFFICES ASSUME SignalInv, NEW o \in Outputs,
                      NEW p \in Reports \cup {Rest}, NEW q \in Reports \cup {Rest},
                      g_outputs[o].type = "pwm", g_outputs[o].mixMode = "Add",
                      \A k \in 1 .. 3 : g_outputs[o].terms[k].weight >= 0, PushedOn(p, q)
               PROVE  IF g_outputs[o].inverted THEN PulseFor(o, q) <= PulseFor(o, p)
                                               ELSE PulseFor(o, p) <= PulseFor(o, q)
    BY Zenon DEF PushNeverDrivesBack
  <2> DEFINE out == g_outputs[o]
  <2>1. ConfigOK
    BY InvParts
  <2>2. out \in OutputConfigs
    BY <2>1 DEF ConfigOK
  <2>3. ASSUME NEW i \in Inputs
        PROVE  /\ VirtualValue(g_virtualInputs[i], p) <= VirtualValue(g_virtualInputs[i], q)
               /\ VirtualValue(g_virtualInputs[i], p) \in -One .. One
               /\ VirtualValue(g_virtualInputs[i], q) \in -One .. One
    <3>1. g_virtualInputs[i] \in InputConfigs /\ g_virtualInputs[i].deadzone \in 0 .. 95
      BY <2>1 DEF ConfigOK, InputOK
    <3>2. g_virtualInputs[i].used =>
             /\ EnabledByModifier(g_virtualInputs[i], p) <=> EnabledByModifier(g_virtualInputs[i], q)
             /\ Raw(g_virtualInputs[i], p) <= Raw(g_virtualInputs[i], q)
      BY Zenon DEF PushedOn
    <3>3. VirtualValue(g_virtualInputs[i], p) <= VirtualValue(g_virtualInputs[i], q)
      BY <3>1, <3>2, VirtualMono, Zenon
    <3> QED BY <3>1, <3>3, VirtualRange
  <2>4. /\ Runtime(p) \in Values /\ Runtime(q) \in Values
        /\ \A i \in Inputs : Runtime(p)[i] <= Runtime(q)[i]
    BY <2>3 DEF Runtime, Values
  <2> DEFINE m == OutputSignal(out, Runtime(p))
  <2> DEFINE n == OutputSignal(out, Runtime(q))
  <2>5. m \in -One .. One /\ n \in -One .. One
    BY <2>2, <2>4, SignalRange
  <2>6. PulseFor(o, p) = Pulse(m) /\ PulseFor(o, q) = Pulse(n)
    BY Zenon DEF PulseFor, Driven
  <2>7. IF out.inverted THEN n <= m ELSE m <= n
    BY <2>2, <2>4, SignalMono, Zenon
  <2> HIDE DEF m, n
  <2>8. (n <= m => Pulse(n) <= Pulse(m)) /\ (m <= n => Pulse(m) <= Pulse(n))
    BY <2>5, PulseMono
  <2> QED BY <2>6, <2>7, <2>8, Zenon
<1> QED BY <1>1, SignalInvariance, PTL
=============================================================================
