---------------------------- MODULE ControlLoop ----------------------------
(***************************************************************************)
(* The gamepad path of the firmware: the slots shared by the Bluetooth     *)
(* task (CPU 0, arduino_platform.c) and the Arduino loop task (CPU 1),     *)
(* Bluepad32::update with its connect and disconnect callbacks, and one    *)
(* turn of loop() after another: update, scan scheduler, one web request,  *)
(* control tick, delay.                                                    *)
(*                                                                         *)
(* The data of a report is abstracted to the device that sent it: that is  *)
(* what decides its class, and a zeroed report has class "none".  The      *)
(* outputs are either driven from a report ("live") or hold their failsafe *)
(* values.  millis() is a counter that wraps at Modulus.                   *)
(***************************************************************************)
EXTENDS Integers, FiniteSets

CONSTANTS
    Devices,        \* Bluetooth devices that may connect
    Gamepads,       \* those that are neither mouse, keyboard nor balance board
    MaxDevices,     \* CONFIG_BLUEPAD32_MAX_DEVICES
    SignalTimeout,  \* kSignalTimeoutMs
    LoopDelay,      \* delay(20) at the end of loop()
    HandlerMax,     \* longest time one web request may take
    Modulus,        \* 2^32: millis() and unsigned subtraction wrap here
    NoData,         \* a report of zeros (what memset leaves)
    None            \* nullptr, UNI_ARDUINO_GAMEPAD_INVALID

Slots == 0 .. MaxDevices - 1

ASSUME ControlLoopAssumption ==
    /\ Gamepads \subseteq Devices /\ NoData \notin Devices
    /\ None \notin Slots /\ MaxDevices \in Nat \ {0}
    /\ SignalTimeout \in Nat /\ LoopDelay \in Nat
    /\ HandlerMax \in Nat /\ Modulus \in Nat
    /\ SignalTimeout + LoopDelay + HandlerMax < Modulus

VARIABLES
    \* shared: controllers_[] of arduino_platform.c
    inUse,              \* slots whose idx is not INVALID
    data,               \* the last report stored in each slot
    updated,            \* slots with data_updated set
    \* Bluetooth task
    seat,               \* ins->controller_idx of each device
    usedControllers,    \* used_controllers_
    wiping,             \* the slot a disconnect is clearing, outside the mutex
    \* loop task: Bluepad32 and its Controller objects
    pc, slot,           \* where loop() is, and the slot it looks at
    seen,               \* connectedControllers of the update in progress
    prevSeen,           \* _prevConnectedControllers
    connected,          \* controllers with _connected
    hasData,            \* controllers with _hasData
    ctlData,            \* _data of each controller
    \* loop task: sketch.cpp
    g_gamepad, g_lastPacketMs, g_signalTimedOut, g_btScanActive,
    now,                \* millis()
    out,                \* what the outputs carry
    \* history
    age                 \* time since the last report stored in each slot

shared == <<inUse, data, updated>>
bt     == <<seat, usedControllers, wiping>>
bp32   == <<seen, prevSeen, connected, hasData, ctlData>>
sketch == <<g_gamepad, g_lastPacketMs, g_signalTimedOut, g_btScanActive, out>>
clock  == <<now, age>>
vars   == <<shared, bt, pc, slot, bp32, sketch, clock>>

(* Unsigned arithmetic on milliseconds: now + d and now - then.            *)
Plus(t, d)     == IF t + d >= Modulus THEN t + d - Modulus ELSE t + d
Elapsed(t, t0) == IF t >= t0 THEN t - t0 ELSE t - t0 + Modulus

(* Oldest report that may still drive the outputs: see LiveIsFresh.        *)
StaleBound == SignalTimeout + 3 * HandlerMax + 2 * LoopDelay

Older(a, d) == IF a + d > StaleBound THEN StaleBound + 1 ELSE a + d

AdvanceClock(d) ==
    /\ now' = Plus(now, d)
    /\ age' = [s \in Slots |-> Older(age[s], d)]

Init ==
    /\ inUse = {} /\ data = [s \in Slots |-> NoData]
    /\ updated = {} /\ seat = [d \in Devices |-> None]
    /\ usedControllers = 0 /\ wiping = None
    /\ pc = "check" /\ slot = 0
    /\ seen = {} /\ prevSeen = {} /\ connected = {} /\ hasData = {}
    /\ ctlData = [s \in Slots |-> NoData] /\ g_gamepad = None
    /\ g_lastPacketMs = 0 /\ g_signalTimedOut = FALSE
    /\ g_btScanActive = FALSE /\ now = 0
    /\ out = "failsafe" /\ age = [s \in Slots |-> StaleBound + 1]

-----------------------------------------------------------------------------
(* Bluetooth task.  It runs one callback at a time; wiping # None is the   *)
(* middle of a disconnect.                                                 *)

(* Mutant: the seat is the number of devices seated so far.                *)
DeviceReadyByCount(d) ==
    /\ wiping = None
    /\ usedControllers # MaxDevices
    /\ seat[d] = None
    /\ inUse' = inUse \cup {usedControllers}
    /\ seat' = [seat EXCEPT ![d] = usedControllers]
    /\ usedControllers' = usedControllers + 1
    /\ UNCHANGED <<data, updated, wiping, pc, slot, bp32, sketch, clock>>

(* arduino_on_device_ready: take the first free slot, or be rejected.      *)
DeviceReady(d) ==
    /\ wiping = None
    /\ usedControllers # MaxDevices
    /\ seat[d] = None
    /\ \E s \in Slots \ inUse :
         /\ \A r \in Slots \ inUse : s <= r
         /\ inUse' = inUse \cup {s}
         /\ seat' = [seat EXCEPT ![d] = s]
    /\ usedControllers' = usedControllers + 1
    /\ UNCHANGED <<data, updated, wiping, pc, slot, bp32, sketch, clock>>

(* arduino_on_controller_data, under controller_mutex_.                    *)
ControllerData(d) ==
    /\ wiping = None
    /\ seat[d] # None
    /\ data' = [data EXCEPT ![seat[d]] = d]
    /\ updated' = updated \cup {seat[d]}
    /\ age' = [age EXCEPT ![seat[d]] = 0]
    /\ UNCHANGED <<inUse, bt, pc, slot, bp32, sketch, now>>

(* arduino_on_device_disconnected starts to clear the slot without taking  *)
(* the mutex; idx is not INVALID while it does (memset leaves 0).          *)
DisconnectBegin(d) ==
    /\ wiping = None
    /\ seat[d] # None
    /\ wiping' = seat[d]
    /\ usedControllers' = usedControllers - 1
    /\ UNCHANGED <<shared, seat, pc, slot, bp32, sketch, clock>>

(* ... and ends with the slot zeroed and free.                             *)
DisconnectEnd(d) ==
    /\ wiping # None
    /\ seat[d] = wiping
    /\ data' = [data EXCEPT ![wiping] = NoData]
    /\ updated' = updated \ {wiping}
    /\ inUse' = inUse \ {wiping}
    /\ seat' = [seat EXCEPT ![d] = None]
    /\ wiping' = None
    /\ UNCHANGED <<usedControllers, pc, slot, bp32, sketch, clock>>

-----------------------------------------------------------------------------
(* Loop task: Bluepad32::update, one slot at a time.                       *)

(* Mutant: callbacks only when a slot was added.                           *)
NextSlotAddedOnly(seenNow) ==
    IF slot + 1 < MaxDevices
    THEN pc' = "check" /\ slot' = slot + 1
    ELSE /\ pc' = IF seenNow \subseteq prevSeen THEN "scan" ELSE "notify"
         /\ slot' = 0

(* To the next slot, or on to the callbacks when some slot changed.        *)
NextSlot(seenNow) ==
    IF slot + 1 < MaxDevices
    THEN pc' = "check" /\ slot' = slot + 1
    ELSE /\ pc' = IF seenNow = prevSeen THEN "scan" ELSE "notify"
         /\ slot' = 0

(* arduino_get_controller_data looks at idx before it takes the mutex.     *)
PollCheck ==
    /\ pc = "check"
    /\ IF slot \in inUse
       THEN pc' = "take" /\ slot' = slot
       ELSE NextSlot(seen)
    /\ UNCHANGED <<shared, bt, bp32, sketch, clock>>

(* Mutant: data_updated is not cleared by the reader.                      *)
PollTakeKeepsFlag ==
    /\ pc = "take"
    /\ ctlData' = IF slot \in updated THEN [ctlData EXCEPT ![slot] = data[slot]] ELSE ctlData
    /\ hasData' = IF slot \in updated THEN hasData \cup {slot} ELSE hasData \ {slot}
    /\ seen' = seen \cup {slot}
    /\ NextSlot(seen \cup {slot})
    /\ UNCHANGED <<shared, bt, prevSeen, connected, sketch, clock>>

(* Under the mutex: copy the report if there is a new one.  The flag and   *)
(* the report of a slot that is being wiped may each be read before or     *)
(* after memset has passed over them; a flag read as cleared stays so.     *)
PollTake ==
    /\ pc = "take"
    /\ \E fresh \in BOOLEAN, copy \in {data[slot], NoData} :
         /\ fresh => slot \in updated
         /\ wiping # slot => (slot \in updated => fresh) /\ copy = data[slot]
         /\ ctlData' = IF fresh THEN [ctlData EXCEPT ![slot] = copy] ELSE ctlData
         /\ hasData' = IF fresh THEN hasData \cup {slot} ELSE hasData \ {slot}
    /\ updated' = updated \ {slot}
    /\ seen' = seen \cup {slot}
    /\ NextSlot(seen \cup {slot})
    /\ UNCHANGED <<inUse, data, bt, prevSeen, connected, sketch, clock>>

(* Mutant: the newcomer replaces the gamepad that is active.               *)
OnConnectedTakesOver(s) ==
    IF ctlData[s] \in Devices \ Gamepads
    THEN UNCHANGED sketch
    ELSE /\ g_gamepad' = s
         /\ g_lastPacketMs' = now
         /\ g_signalTimedOut' = FALSE
         /\ g_btScanActive' = FALSE
         /\ UNCHANGED out

(* onConnectedController: adopt the controller unless its last report says *)
(* it is no gamepad, or another gamepad is active.                         *)
OnConnected(s) ==
    IF \/ ctlData[s] \in Devices \ Gamepads
       \/ g_gamepad \in connected \cup {s}
    THEN UNCHANGED sketch
    ELSE /\ g_gamepad' = s
         /\ g_lastPacketMs' = now
         /\ g_signalTimedOut' = FALSE
         /\ g_btScanActive' = FALSE
         /\ UNCHANGED out

(* Mutant: the outputs are left to the next control tick.                  *)
OnDisconnectedLeavesOutputs(s) ==
    IF g_gamepad = s
    THEN /\ g_gamepad' = None
         /\ g_signalTimedOut' = FALSE
         /\ UNCHANGED <<g_lastPacketMs, g_btScanActive, out>>
    ELSE UNCHANGED sketch

(* onDisconnectedController: release the gamepad, outputs to failsafe.     *)
OnDisconnected(s) ==
    IF g_gamepad = s
    THEN /\ g_gamepad' = None
         /\ g_signalTimedOut' = FALSE
         /\ out' = "failsafe"
         /\ UNCHANGED <<g_lastPacketMs, g_btScanActive>>
    ELSE UNCHANGED sketch

(* The callbacks, slot by slot, for the slots that differ from prevSeen.   *)
Notify ==
    /\ pc = "notify"
    /\ \/ /\ slot \in seen \ prevSeen
          /\ connected' = connected \cup {slot}
          /\ OnConnected(slot)
       \/ /\ slot \in prevSeen \ seen
          /\ connected' = connected \ {slot}
          /\ OnDisconnected(slot)
       \/ /\ slot \in seen <=> slot \in prevSeen
          /\ UNCHANGED <<connected, sketch>>
    /\ IF slot + 1 < MaxDevices
       THEN slot' = slot + 1 /\ UNCHANGED <<pc, prevSeen>>
       ELSE slot' = 0 /\ pc' = "scan" /\ prevSeen' = seen
    /\ UNCHANGED <<shared, bt, seen, hasData, ctlData, clock>>

(* updateBtScanScheduler: scanning is off while the gamepad is connected;  *)
(* otherwise its timers decide (module BtScan), which is left open here.   *)
ScanScheduler ==
    /\ pc = "scan"
    /\ g_btScanActive' \in IF g_gamepad \in connected THEN {FALSE} ELSE BOOLEAN
    /\ pc' = "handle"
    /\ UNCHANGED <<shared, bt, slot, bp32, clock, g_gamepad, g_lastPacketMs,
                   g_signalTimedOut, out>>

(* g_server.handleClient(): takes time, and a handler that rebuilds the    *)
(* outputs leaves them at failsafe.                                        *)
HandleClient ==
    /\ pc = "handle"
    /\ \E d \in 0 .. HandlerMax : AdvanceClock(d)
    /\ out' \in {out, "failsafe"}
    /\ pc' = "tick"
    /\ UNCHANGED <<shared, bt, slot, bp32, g_gamepad, g_lastPacketMs,
                   g_signalTimedOut, g_btScanActive>>

(* Mutant: the packet time is stamped on every tick.                       *)
ControlTickStampsAlways ==
    /\ pc = "tick"
    /\ g_lastPacketMs' = now
    /\ IF g_gamepad \in connected
       THEN /\ out' = IF g_gamepad \in hasData THEN "live" ELSE out
            /\ g_signalTimedOut' = (g_signalTimedOut /\ g_gamepad \notin hasData)
       ELSE out' = "failsafe" /\ UNCHANGED g_signalTimedOut
    /\ pc' = "delay"
    /\ UNCHANGED <<shared, bt, slot, bp32, g_gamepad, g_btScanActive, clock>>

(* processControlTick.                                                     *)
ControlTick ==
    /\ pc = "tick"
    /\ IF g_gamepad \in connected
       THEN IF g_gamepad \in hasData
            THEN /\ g_lastPacketMs' = now
                 /\ g_signalTimedOut' = FALSE
                 /\ out' = "live"
            ELSE IF Elapsed(now, g_lastPacketMs) > SignalTimeout
            THEN /\ g_signalTimedOut' = TRUE
                 /\ out' = "failsafe"
                 /\ UNCHANGED g_lastPacketMs
            ELSE UNCHANGED <<g_lastPacketMs, g_signalTimedOut, out>>
       ELSE /\ out' = "failsafe"
            /\ UNCHANGED <<g_lastPacketMs, g_signalTimedOut>>
    /\ pc' = "delay"
    /\ UNCHANGED <<shared, bt, slot, bp32, g_gamepad, g_btScanActive, clock>>

(* delay(20), then the next turn of loop(); update() starts with no bits.  *)
Delay ==
    /\ pc = "delay"
    /\ AdvanceClock(LoopDelay)
    /\ pc' = "check"
    /\ seen' = {}
    /\ UNCHANGED <<shared, bt, slot, prevSeen, connected, hasData, ctlData, sketch>>

BtTask ==
    \E d \in Devices :
        DeviceReady(d) \/ ControllerData(d) \/ DisconnectBegin(d) \/ DisconnectEnd(d)

LoopTask ==
    \/ PollCheck \/ PollTake \/ Notify
    \/ ScanScheduler \/ HandleClient \/ ControlTick \/ Delay

Next == BtTask \/ LoopTask

Spec == Init /\ [][Next]_vars

(* The loop task is never blocked for good: the mutex is held for a copy   *)
(* only, and loop() is called again for ever.  A disconnect callback, once *)
(* started, runs to its end.                                               *)
FairSpec ==
    /\ Spec
    /\ WF_vars(LoopTask)
    /\ WF_vars(\E d \in Devices : DisconnectEnd(d))

-----------------------------------------------------------------------------
(* Properties.                                                             *)

Phases == {"check", "take", "notify", "scan", "handle", "tick", "delay"}

TypeOK ==
    /\ inUse \subseteq Slots /\ data \in [Slots -> Devices \cup {NoData}]
    /\ updated \subseteq Slots /\ seat \in [Devices -> Slots \cup {None}]
    /\ usedControllers \in Int /\ wiping \in Slots \cup {None}
    /\ pc \in Phases /\ slot \in Slots
    /\ seen \subseteq Slots /\ prevSeen \subseteq Slots
    /\ connected \subseteq Slots /\ hasData \subseteq Slots
    /\ ctlData \in [Slots -> Devices \cup {NoData}] /\ g_gamepad \in Slots \cup {None}
    /\ g_lastPacketMs \in 0 .. Modulus - 1 /\ g_signalTimedOut \in BOOLEAN
    /\ g_btScanActive \in BOOLEAN /\ now \in 0 .. Modulus - 1
    /\ out \in {"failsafe", "live"} /\ age \in [Slots -> 0 .. StaleBound + 1]

(* The outputs carry a report only while the gamepad whose slot drives     *)
(* them is adopted, and only if its slot received a report no longer ago   *)
(* than the signal timeout stretched by the web handlers between the       *)
(* report, the tick that stamps it and the tick that notices the silence.  *)
LiveIsFresh ==
    out = "live" => g_gamepad # None /\ age[g_gamepad] <= StaleBound

(* What handleApiState and handleApiActivity report as failsafeActive.     *)
failsafeActive == g_signalTimedOut \/ g_gamepad = None \/ g_gamepad \notin connected

(* Whenever the web page would be told that the failsafe is active, the    *)
(* outputs are indeed at failsafe, at every point of loop() and between    *)
(* the callbacks of one update.                                            *)
FailsafeShownIsSafe == failsafeActive => out = "failsafe"

(* Part of LoopInv: the flag of processControlTick goes with the outputs.  *)
TimedOutIsSafe == g_signalTimedOut => out = "failsafe"

(* Scanning never runs while a gamepad is adopted, at whatever point of    *)
(* loop() the adoption and its end are noticed.                            *)
ScanOffWhileAdopted == g_gamepad # None => ~g_btScanActive

(* Slots and seats agree: no two devices share a slot, a slot is in use    *)
(* exactly when a device sits there, and the counter that rejects          *)
(* connections counts them.                                                *)
SeatsAgree ==
    /\ \A d, e \in Devices : seat[d] = seat[e] /\ seat[d] # None => d = e
    /\ inUse = {seat[d] : d \in Devices} \ {None}
    /\ usedControllers = Cardinality(inUse \ {wiping})

(* Why LiveIsFresh holds: the parts of an inductive invariant.             *)

(* _connected follows the callbacks, and an adopted gamepad is connected.  *)
ConnectedTracked ==
    /\ pc \in {"check", "take"} => connected = prevSeen /\ \A s \in seen : s < slot
    /\ pc = "notify" =>
         \A s \in Slots : s \in connected <=> s \in (IF s < slot THEN seen ELSE prevSeen)
    /\ pc \in {"scan", "handle", "tick", "delay"} =>
         connected = seen /\ prevSeen = seen /\ slot = 0
    /\ g_gamepad # None => g_gamepad \in connected

(* A slot with an unread report is in use by exactly one device.           *)
SeatsHeld ==
    /\ \A d, e \in Devices : seat[d] = seat[e] /\ seat[d] # None => d = e
    /\ \A d \in Devices : seat[d] # None => seat[d] \in inUse
    /\ updated \subseteq inUse

(* How old an unread report may be: it arrived after the last poll.        *)
UnreadIsRecent ==
    \A s \in updated :
        /\ pc \in {"check", "take"} /\ s < slot => age[s] = 0
        /\ pc \in {"notify", "scan", "handle"} => age[s] = 0
        /\ pc \in {"tick", "delay"} => age[s] <= HandlerMax
        /\ age[s] <= HandlerMax + LoopDelay

(* How old a report read in this turn of loop() may be.                    *)
ReadIsRecent ==
    \A s \in seen \cap hasData :
        /\ pc \in {"check", "take", "notify", "scan", "handle"} =>
              age[s] <= HandlerMax + LoopDelay
        /\ pc = "tick" => age[s] <= 2 * HandlerMax + LoopDelay

(* How old the report that drives the outputs may be, against the stamp.   *)
DrivenIsStamped ==
    out = "live" =>
        /\ g_gamepad # None
        /\ age[g_gamepad] <= Elapsed(now, g_lastPacketMs) + 2 * HandlerMax + LoopDelay
        /\ pc = "delay" => Elapsed(now, g_lastPacketMs) <= SignalTimeout
        /\ pc \notin {"delay", "tick"} =>
              Elapsed(now, g_lastPacketMs) <= SignalTimeout + LoopDelay
        /\ Elapsed(now, g_lastPacketMs) <= SignalTimeout + LoopDelay + HandlerMax

(* The inductive invariant behind LiveIsFresh: seats, callbacks and ages   *)
(* fit together at every point of loop() and of the Bluetooth callbacks.   *)
LoopInv ==
    /\ TypeOK
    /\ ConnectedTracked
    /\ SeatsHeld
    /\ UnreadIsRecent
    /\ ReadIsRecent
    /\ DrivenIsStamped
    /\ TimedOutIsSafe
    /\ ScanOffWhileAdopted

(* How old a report may be when the control tick drives the outputs by it. *)
DriveBound == 2 * HandlerMax + LoopDelay

(* Time since the slot of the adopted controller received a report.        *)
Silence == IF g_gamepad = None THEN StaleBound + 1 ELSE age[g_gamepad]

(* The gamepad path implements a dead man's switch whose driver is the     *)
(* adopted controller.                                                     *)
DMS == INSTANCE DeadManSwitch WITH
    Drivers    <- Slots,
    Nobody     <- None,
    DriveLimit <- DriveBound,
    HoldLimit  <- StaleBound,
    driver     <- g_gamepad,
    silence    <- Silence,
    outputs    <- out

(* Every step of the two tasks is a step of the dead man's switch, or none *)
(* of its business: one controller at a time is adopted, none takes over   *)
(* from another without a release that stops the outputs, and every tick   *)
(* that drives them uses a report at most DriveBound old.                  *)
ImplementsDeadMan == DMS!Spec

(* A gamepad whose slot is freed by a disconnect does not leave the        *)
(* outputs live: they reach failsafe, unless a device takes the slot       *)
(* before loop() looks.                                                    *)
LinkLossReachesFailsafe ==
    \A s \in Slots :
        g_gamepad = s /\ s \notin inUse ~> out = "failsafe" \/ s \in inUse

(* Outputs that are live again and again are fed by reports again and      *)
(* again: silence alone is enough to end in failsafe.                      *)
LiveNeedsReports ==
    []<>(out = "live") => []<>(\E s \in Slots : age[s] = 0)

(* SPECIFICATIONS.md 4.3: "Mouse/keyboard/balance board are ignored."      *)
(* Outputs are never driven by the report of such a device.                *)
OnlyGamepadsDrive ==
    pc = "tick" /\ g_gamepad \in connected \cap hasData
        => ctlData[g_gamepad] \in Gamepads \cup {NoData}
=============================================================================
