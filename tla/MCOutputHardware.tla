-------------------------- MODULE MCOutputHardware --------------------------
(* Small instances of OutputHardware: three channels, three pins of which  *)
(* two can do PWM.                                                         *)
EXTENDS OutputHardware

Ch(type, pin) == [used |-> TRUE, type |-> type, pin |-> pin, sourceValid |-> TRUE]

Unused == [used |-> FALSE, type |-> "pwm", pin |-> DefaultPin, sourceValid |-> TRUE]

(* Presets of this board, and of boards with other PWM pins: one that fits,*)
(* one whose second channel must move onto the pin of a later switch, one  *)
(* with more PWM channels than pins, one with an invalid source.           *)
SomePresets == {
    <<Ch("pwm", 2), Ch("switch", 0), Unused>>,
    <<Unused, Ch("pwm", 0), Ch("switch", 1)>>,
    <<Ch("pwm", 0), Ch("pwm", 1), Ch("pwm", 2)>>,
    <<Ch("pwm", 1), [Ch("pwm", 2) EXCEPT !.sourceValid = FALSE], Unused>> }

MCPresets == {[i \in 0 .. 2 |-> p[i + 1]] : p \in SomePresets}
=============================================================================
