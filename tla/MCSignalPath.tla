---------------------------- MODULE MCSignalPath ----------------------------
(* A small instance of SignalPath: two inputs and two outputs, configured  *)
(* in ways that reach the limits of the mix, the dead zone and the switch, *)
(* with a preset that is always refused.                                   *)
EXTENDS SignalPath

Report(moved) == [c \in Controls |-> IF c \in DOMAIN moved THEN moved[c] ELSE 0]

(* Noise, full travel with buttons of the same strength, and part travel.  *)
MCReports == {Report(m) : m \in {
    [AxisX |-> 30, AxisY |-> -40, Throttle |-> 60],
    [AxisX |-> -512, Throttle |-> 1023, ButtonA |-> 1, ButtonB |-> 1, ButtonL1 |-> 1],
    [AxisX |-> 511, AxisY |-> 300, Throttle |-> 700, Brake |-> 100, ButtonB |-> 1]}}

Input(primary, secondary, modifier, function, deadzone, expo) ==
    [used |-> TRUE, primary |-> primary, secondary |-> secondary, modifier |-> modifier,
     modifierFunction |-> function, deadzone |-> deadzone, expo |-> expo]

MCInputDrafts == {
    Input("AxisX", "None", "ButtonA", "Reverse", 10, 150),
    Input("Throttle", "Brake", "ButtonB", "Activate", 120, 50)}

T(source, weight, offset) == [source |-> source, weight |-> weight, offset |-> offset]

Output(type, mixMode, terms, inverted, threshold, failsafe) ==
    [used |-> TRUE, type |-> type, mixMode |-> mixMode, terms |-> terms,
     inverted |-> inverted, threshold |-> threshold, failsafe |-> failsafe]

(* A switch that any report turns on, with numbers out of range and a sum  *)
(* beyond 1.                                                               *)
MCOutputDrafts == {
    Output("switch", "Add", <<T(0, 120, 50), T(1, 100, -50), T(0, 30, 300)>>, FALSE, -5, "Center")}

(* A product or a switch first; the second channel has a source that is    *)
(* invalid, or is left over and not in use.                                *)
MCPresets ==
    LET first(type) == Output(type, "Multiply", <<T(-1, 100, 0), T(0, 50, 50), T(1, -150, 0)>>,
                              TRUE, 50, "Max")
        second == Output("switch", "Add", <<T(NumInputs, 100, 0), NoTerm, NoTerm>>,
                         FALSE, 50, "Center")
        preset(type, used) ==
            [inputs  |-> [i \in Inputs |-> IF i = 0
                                           THEN Input("Throttle", "Brake", "ButtonB", "Activate", 120, 50)
                                           ELSE NoInput],
             outputs |-> [o \in Outputs |-> IF o = 0 THEN first(type)
                                            ELSE [second EXCEPT !.used = used]]]
    IN  {preset("pwm", FALSE), preset("switch", TRUE)}
=============================================================================
