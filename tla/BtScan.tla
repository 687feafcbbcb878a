------------------------------- MODULE BtScan -------------------------------
(***************************************************************************)
(* When the controller looks for gamepads: updateBtScanScheduler, the      *)
(* pairing handlers and the connect and disconnect callbacks of sketch.cpp.*)
(*                                                                         *)
(* A turn of loop() is: callbacks, scheduler, at most one pairing request, *)
(* then the time the turn takes.  Deadlines are sums of millis() values    *)
(* compared with <, as in the code; 0 stands for "at once".                *)
(***************************************************************************)
EXTENDS Integers

CONSTANTS
    Devices, Gamepads,      \* as in ControlLoop
    AutoOn, AutoOff,        \* kBtAutoScanOnMs, kBtAutoScanOffMs
    PairOn, PairOff,        \* kBtPairingScanOnMs, kBtPairingScanOffMs
    PairingWindow,          \* kPairingWindowMs
    StartupDelay, Settle,   \* the 5000 of setup() and the 2000 of the scheduler
    LoopDelay, HandlerMax,  \* delay(20), and the longest web request
    Modulus,                \* 2^32
    UptimeMax,              \* the power is cycled before millis() exceeds this
    None

Longer(a, b) == IF a >= b THEN a ELSE b

(* The longest deadline, and the longest turn of loop().                   *)
Horizon == Longer(Longer(Longer(AutoOn, AutoOff), Longer(PairOn, PairOff)),
                  Longer(PairingWindow, Longer(StartupDelay, Settle)))
Turn    == LoopDelay + HandlerMax

(* The longest pulse, and the longest pause.                               *)
BurstMax == Longer(AutoOn, PairOn)
QuietMax == Longer(Longer(AutoOff, PairOff), StartupDelay)

(* The power is cycled so early that no deadline wraps.                    *)
NoWrap == UptimeMax + Horizon < Modulus

ASSUME BtScanAssumption ==
    /\ Gamepads \subseteq Devices /\ None \notin Devices
    /\ {AutoOn, AutoOff, PairOn, PairOff, PairingWindow, StartupDelay, Settle} \subseteq Nat \ {0}
    /\ LoopDelay \in Nat \ {0} /\ HandlerMax \in Nat
    /\ Modulus \in Nat /\ Horizon + Turn < Modulus
    /\ UptimeMax \in Nat

VARIABLES
    connected,              \* controllers with _connected
    g_gamepad,
    g_pairingScanEnabled, g_pairingScanUntilMs,
    g_btScanToggleAtMs, g_btScanActive,
    pc, now,
    burst, quiet, window    \* history: time spent scanning, not scanning with
                            \* no gamepad adopted, and since pairing was asked for

timers  == <<g_pairingScanEnabled, g_pairingScanUntilMs, g_btScanToggleAtMs, g_btScanActive>>
history == <<burst, quiet, window>>
vars    == <<connected, g_gamepad, timers, pc, now, history>>

(* Unsigned addition.                                                      *)
Plus(t, d) == IF t + d >= Modulus THEN t + d - Modulus ELSE t + d

(* setup().                                                                *)
Init ==
    /\ connected = {} /\ g_gamepad = None
    /\ g_pairingScanEnabled = FALSE /\ g_pairingScanUntilMs = 0
    /\ g_btScanActive = FALSE /\ g_btScanToggleAtMs = StartupDelay
    /\ pc = "update" /\ now = 0
    /\ burst = 0 /\ quiet = 0 /\ window = 0

-----------------------------------------------------------------------------
(* onConnectedController adopts the device: pairing and scanning end.      *)
Adopt(d) ==
    /\ g_gamepad' = d
    /\ g_pairingScanEnabled' = FALSE
    /\ g_pairingScanUntilMs' = IF g_pairingScanEnabled THEN 0 ELSE g_pairingScanUntilMs
    /\ g_btScanToggleAtMs' = 0
    /\ g_btScanActive' = FALSE

(* onConnectedController.  A device that is no gamepad is turned away only *)
(* if it has sent a report by now.                                         *)
OnConnected(d) ==
    /\ pc = "update"
    /\ d \notin connected
    /\ connected' = connected \cup {d}
    /\ \/ g_gamepad \notin connected /\ Adopt(d)
       \/ g_gamepad \in connected /\ UNCHANGED <<g_gamepad, timers>>
       \/ d \notin Gamepads /\ UNCHANGED <<g_gamepad, timers>>
    /\ UNCHANGED <<pc, now, history>>

(* onDisconnectedController.                                               *)
OnDisconnected(d) ==
    /\ pc = "update"
    /\ d \in connected
    /\ connected' = connected \ {d}
    /\ IF g_gamepad = d
       THEN g_gamepad' = None /\ g_btScanToggleAtMs' = 0
       ELSE UNCHANGED <<g_gamepad, g_btScanToggleAtMs>>
    /\ UNCHANGED <<g_pairingScanEnabled, g_pairingScanUntilMs, g_btScanActive, pc, now, history>>

UpdateDone ==
    /\ pc = "update"
    /\ pc' = "scan"
    /\ UNCHANGED <<connected, g_gamepad, timers, now, history>>

-----------------------------------------------------------------------------
OnMs(pairing)  == IF pairing THEN PairOn ELSE AutoOn
OffMs(pairing) == IF pairing THEN PairOff ELSE AutoOff

(* Mutant: on and off times exchanged.                                     *)
PulseSwapped(pairing) ==
    /\ g_btScanActive' = ~g_btScanActive
    /\ g_btScanToggleAtMs' =
         Plus(now, IF g_btScanActive THEN OnMs(pairing) ELSE OffMs(pairing))

(* The end of updateBtScanScheduler: start or end a pulse.                 *)
Pulse(pairing) ==
    /\ g_btScanActive' = ~g_btScanActive
    /\ g_btScanToggleAtMs' =
         Plus(now, IF g_btScanActive THEN OffMs(pairing) ELSE OnMs(pairing))

(* Mutant: a pulse that is due now waits for one more turn.                *)
DueLate(toggleAt) == toggleAt = 0 \/ now > toggleAt

(* Not (g_btScanToggleAtMs != 0 && now < g_btScanToggleAtMs).              *)
Due(toggleAt) == toggleAt = 0 \/ now >= toggleAt

(* Mutant: the window is looked at only while no gamepad is connected.     *)
SchedulerGamepadFirst ==
    /\ pc = "scan"
    /\ LET expired  == g_pairingScanEnabled /\ now > g_pairingScanUntilMs
           pairing  == g_pairingScanEnabled /\ ~expired
           toggleAt == IF expired THEN 0 ELSE g_btScanToggleAtMs
       IN  IF g_gamepad \in connected
           THEN /\ g_btScanActive' = FALSE
                /\ g_btScanToggleAtMs' = Plus(now, Settle)
                /\ UNCHANGED g_pairingScanEnabled
           ELSE /\ g_pairingScanEnabled' = pairing
                /\ IF Due(toggleAt) THEN Pulse(pairing)
                   ELSE g_btScanToggleAtMs' = toggleAt /\ UNCHANGED g_btScanActive
    /\ burst' = IF g_btScanActive' /\ ~g_btScanActive THEN 0 ELSE burst
    /\ quiet' = IF g_btScanActive' \/ g_gamepad # None THEN 0 ELSE quiet
    /\ pc' = "handle"
    /\ UNCHANGED <<connected, g_gamepad, g_pairingScanUntilMs, now, window>>

(* updateBtScanScheduler.                                                  *)
Scheduler ==
    /\ pc = "scan"
    /\ LET expired  == g_pairingScanEnabled /\ now > g_pairingScanUntilMs
           pairing  == g_pairingScanEnabled /\ ~expired
           toggleAt == IF expired THEN 0 ELSE g_btScanToggleAtMs
       IN  /\ g_pairingScanEnabled' = pairing
           /\ IF g_gamepad \in connected
              THEN g_btScanActive' = FALSE /\ g_btScanToggleAtMs' = Plus(now, Settle)
              ELSE IF Due(toggleAt) THEN Pulse(pairing)
              ELSE g_btScanToggleAtMs' = toggleAt /\ UNCHANGED g_btScanActive
    /\ burst' = IF g_btScanActive' /\ ~g_btScanActive THEN 0 ELSE burst
    /\ quiet' = IF g_btScanActive' \/ g_gamepad # None THEN 0 ELSE quiet
    /\ pc' = "handle"
    /\ UNCHANGED <<connected, g_gamepad, g_pairingScanUntilMs, now, window>>

-----------------------------------------------------------------------------
(* Mutant: a second request does not extend the window.                    *)
PairingOnKeepsWindow ==
    /\ pc = "handle"
    /\ g_pairingScanEnabled' = TRUE
    /\ g_pairingScanUntilMs' =
         IF g_pairingScanEnabled THEN g_pairingScanUntilMs ELSE Plus(now, PairingWindow)
    /\ g_btScanToggleAtMs' = 0
    /\ window' = 0
    /\ pc' = "delay"
    /\ UNCHANGED <<connected, g_gamepad, g_btScanActive, now, burst, quiet>>

(* Mutant: pairing waits for the end of the pause.                         *)
PairingOnPatient ==
    /\ pc = "handle"
    /\ g_pairingScanEnabled' = TRUE
    /\ g_pairingScanUntilMs' = Plus(now, PairingWindow)
    /\ window' = 0
    /\ pc' = "delay"
    /\ UNCHANGED <<connected, g_gamepad, g_btScanToggleAtMs, g_btScanActive, now, burst, quiet>>

(* handleApiPairingOn.                                                     *)
PairingOn ==
    /\ pc = "handle"
    /\ g_pairingScanEnabled' = TRUE
    /\ g_pairingScanUntilMs' = Plus(now, PairingWindow)
    /\ g_btScanToggleAtMs' = 0
    /\ window' = 0
    /\ pc' = "delay"
    /\ UNCHANGED <<connected, g_gamepad, g_btScanActive, now, burst, quiet>>

(* handleApiPairingOff.                                                    *)
PairingOff ==
    /\ pc = "handle"
    /\ g_pairingScanEnabled' = FALSE
    /\ g_pairingScanUntilMs' = 0
    /\ g_btScanToggleAtMs' = 0
    /\ pc' = "delay"
    /\ UNCHANGED <<connected, g_gamepad, g_btScanActive, now, history>>

OtherRequest ==
    /\ pc = "handle"
    /\ pc' = "delay"
    /\ UNCHANGED <<connected, g_gamepad, timers, now, history>>

(* History beyond every bound below is not told apart.                     *)
Capped(t) == IF t > Horizon + Turn THEN Horizon + Turn + 1 ELSE t

(* The time a turn takes: the web request and delay(20).                   *)
Delay(d) ==
    /\ pc = "delay"
    /\ now + d <= UptimeMax
    /\ now' = Plus(now, d)
    /\ burst' = IF g_btScanActive THEN Capped(burst + d) ELSE burst
    /\ quiet' = IF g_btScanActive \/ g_gamepad # None THEN 0 ELSE Capped(quiet + d)
    /\ window' = IF g_pairingScanEnabled THEN Capped(window + d) ELSE window
    /\ pc' = "update"
    /\ UNCHANGED <<connected, g_gamepad, timers>>

(* Power off and on again.                                                 *)
PowerCycle ==
    /\ connected' = {}
    /\ g_gamepad' = None
    /\ g_pairingScanEnabled' = FALSE /\ g_pairingScanUntilMs' = 0
    /\ g_btScanActive' = FALSE
    /\ g_btScanToggleAtMs' = StartupDelay
    /\ pc' = "update" /\ now' = 0
    /\ burst' = 0 /\ quiet' = 0 /\ window' = 0

Next ==
    \/ \E d \in Devices : OnConnected(d) \/ OnDisconnected(d)
    \/ UpdateDone \/ Scheduler
    \/ PairingOn \/ PairingOff \/ OtherRequest
    \/ \E d \in LoopDelay .. Turn : Delay(d)
    \/ PowerCycle

Spec == Init /\ [][Next]_vars

-----------------------------------------------------------------------------
(* Properties.                                                             *)

TypeOK ==
    /\ connected \subseteq Devices /\ g_gamepad \in Devices \cup {None}
    /\ g_pairingScanEnabled \in BOOLEAN /\ g_pairingScanUntilMs \in 0 .. Modulus - 1
    /\ g_btScanToggleAtMs \in 0 .. Modulus - 1 /\ g_btScanActive \in BOOLEAN
    /\ pc \in {"update", "scan", "handle", "delay"} /\ now \in 0 .. Modulus - 1
    /\ burst \in 0 .. Horizon + Turn + 1 /\ quiet \in 0 .. Horizon + Turn + 1
    /\ window \in 0 .. Horizon + Turn + 1

(* The scheduler, the callbacks and the pairing requests together never    *)
(* scan while a gamepad is adopted, with or without a wrap of millis().    *)
ScanOffWhileAdopted ==
    /\ g_gamepad # None => ~g_btScanActive
    /\ g_gamepad # None => g_gamepad \in connected

(* A scan pulse is never longer than the longest one configured, to a turn *)
(* of loop(), however pairing requests and expiry cut into it.             *)
BurstBounded ==
    g_btScanActive => burst < BurstMax + Turn

(* SPECIFICATIONS.md 4.3: "auto reconnect mode: ON 1.5 s / OFF 12 s".      *)
(* Without an adopted gamepad the controller is never deaf for longer than *)
(* the longest pause, to a turn of loop(): a lost gamepad can come back.   *)
QuietBounded ==
    quiet < QuietMax + Turn

(* While pairing is open and no gamepad is adopted, pauses are the short   *)
(* ones of the pairing mode, from the request on.                          *)
ReachableWhilePairing ==
    g_pairingScanEnabled /\ g_gamepad = None =>
        quiet < PairOff + Turn \/ window < PairOff + Turn

(* SPECIFICATIONS.md 4.3: "Pairing window duration: 120 s."  Pairing is    *)
(* open no longer than that after the last request, to a turn of loop(),   *)
(* whether or not a gamepad is connected meanwhile.                        *)
PairingBounded ==
    g_pairingScanEnabled => window <= PairingWindow + Turn

(* Pairing ends only because its window has passed, because a gamepad was  *)
(* adopted, or because somebody asked or pulled the plug.                  *)
PairingEndsForAReason ==
    [][g_pairingScanEnabled /\ ~g_pairingScanEnabled' =>
          window > PairingWindow \/ g_gamepad' # g_gamepad \/ PairingOff \/ PowerCycle]_vars

(* Why the bounds hold: the parts of an inductive invariant, for a clock   *)
(* that does not wrap.  Late is the half of a turn in which time has       *)
(* passed since the scheduler ran.                                         *)

Late == pc \in {"update", "scan"}

(* A pulse ends when it is due, or at once.                                *)
BurstOnSchedule ==
    g_btScanActive =>
        /\ quiet = 0
        /\ g_btScanToggleAtMs # 0 => g_btScanToggleAtMs - now + burst <= BurstMax
        /\ burst < BurstMax + (IF Late THEN Turn ELSE 0)

(* So does a pause.                                                        *)
QuietOnSchedule ==
    /\ ~g_btScanActive /\ g_gamepad = None /\ g_btScanToggleAtMs # 0 =>
         g_btScanToggleAtMs - now + quiet <= QuietMax
    /\ g_gamepad # None /\ (g_pairingScanEnabled \/ ~Late) => quiet = 0
    /\ quiet < QuietMax + (IF Late THEN Turn ELSE 0)

(* The window and its deadline run together.                               *)
PairingOnSchedule ==
    g_pairingScanEnabled =>
        /\ g_pairingScanUntilMs - now + window = PairingWindow
        /\ window <= PairingWindow + (IF Late THEN Turn ELSE 0)

(* A pause of the pairing mode is short, or is about to end because        *)
(* pairing was asked for or the gamepad lost in this turn.                 *)
PairingPauseOnSchedule ==
    g_pairingScanEnabled /\ g_gamepad = None /\ ~g_btScanActive =>
        /\ g_btScanToggleAtMs # 0 =>
             /\ g_btScanToggleAtMs - now + quiet <= PairOff
             /\ quiet < PairOff + (IF Late THEN Turn ELSE 0)
        /\ g_btScanToggleAtMs = 0 =>
             /\ pc # "handle"
             /\ window <= (IF Late THEN Turn ELSE 0) \/ (Late /\ quiet = 0)

(* Pulses, pauses and the pairing window are on schedule at every point of *)
(* loop(): the inductive invariant behind the bounds.                      *)
ScanInv ==
    /\ TypeOK
    /\ now <= UptimeMax
    /\ ScanOffWhileAdopted
    /\ BurstOnSchedule
    /\ QuietOnSchedule
    /\ PairingOnSchedule
    /\ PairingPauseOnSchedule
=============================================================================
