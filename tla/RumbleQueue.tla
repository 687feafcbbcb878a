---------------------------- MODULE RumbleQueue ----------------------------
(***************************************************************************)
(* The requests that travel the other way: the control tick asks for a     *)
(* rumble when a virtual input with rumble changes (rc_model.cpp), the     *)
(* request waits in a queue of MAX_PENDING_REQUESTS, and the Bluetooth     *)
(* task takes it out when the next report of any device arrives, before it *)
(* stores that report (arduino_platform.c).                                *)
(*                                                                         *)
(* A request names a slot, not a device.  Which inputs change in a tick is *)
(* left open; what a rumble feels like is left out.  The gamepad path is   *)
(* that of ControlLoop, with one update() as one step, since the queue is  *)
(* not touched while update() runs.  Time is kept as the time since the    *)
(* last rumble of each input, up to the gap it is compared with.  A web    *)
(* request may take any time, and the Bluetooth task may be held up at any *)
(* point: neither task waits for the other.                                *)
(***************************************************************************)
EXTENDS Integers, Sequences, FiniteSets

CONSTANTS
    Devices,        \* Bluetooth gamepads
    MaxDevices,     \* CONFIG_BLUEPAD32_MAX_DEVICES
    NumInputs,      \* virtual inputs that rumble, at most kMaxVirtualInputs
    QueueMax,       \* MAX_PENDING_REQUESTS
    RumbleGap,      \* 80 ms between two rumbles of one input
    LoopDelay,      \* delay(20) at the end of loop()
    None            \* no slot, no device

Slots  == 0 .. MaxDevices - 1
Inputs == 1 .. NumInputs

ASSUME RumbleQueueAssumption ==
    /\ MaxDevices \in Nat \ {0} /\ NumInputs \in Nat /\ QueueMax \in Nat
    /\ RumbleGap \in Nat /\ LoopDelay \in Nat /\ None \notin Slots \cup Devices

VARIABLES
    seat,           \* ins->controller_idx of each device
    updated,        \* slots with data_updated set
    bt, from,       \* where the Bluetooth task is, and whose report it handles
    pending_queue_,
    phase, input,   \* where loop() is, and the input the tick looks at
    seen,           \* slots seen by the last update(): _connected
    hasData,        \* slots whose report the last update() copied
    g_gamepad,
    sinceRumble,    \* now - g_lastRumbleMs[i]
    \* history
    orderly,        \* no drain has been cut short since the queue was empty
    laps,           \* ticks that have asked since a drain emptied the queue
    heard,          \* devices that have reported since they took their seat
    played          \* the request just played: by whom, and meant for whom

btVars   == <<seat, updated, bt, from, heard>>
loopVars == <<phase, input, seen, hasData, g_gamepad, sinceRumble>>
history  == <<orderly, laps, played>>
vars     == <<btVars, loopVars, pending_queue_, history>>

InUse == {seat[d] : d \in Devices} \ {None}

Seated(s) == {d \in Devices : seat[d] = s}

NotPlayed == [by |-> None, to |-> None]

Init ==
    /\ seat = [d \in Devices |-> None] /\ updated = {} /\ heard = {}
    /\ bt = "idle" /\ from = None
    /\ pending_queue_ = <<>> /\ phase = "update" /\ input = 1
    /\ seen = {} /\ hasData = {}
    /\ g_gamepad = None /\ sinceRumble = [i \in Inputs |-> RumbleGap]
    /\ orderly = TRUE /\ laps = 0 /\ played = NotPlayed

-----------------------------------------------------------------------------
(* Bluetooth task, one callback at a time.                                 *)

(* arduino_on_device_ready: the first free slot.                           *)
DeviceReady(d) ==
    /\ bt = "idle"
    /\ seat[d] = None
    /\ \E s \in Slots \ InUse :
         /\ \A r \in Slots \ InUse : s <= r
         /\ seat' = [seat EXCEPT ![d] = s]
    /\ UNCHANGED <<updated, bt, from, heard, loopVars, pending_queue_, history>>

(* arduino_on_device_disconnected: the queue keeps the slot's requests.    *)
DeviceDisconnected(d) ==
    /\ bt = "idle"
    /\ seat[d] # None
    /\ updated' = updated \ {seat[d]}
    /\ seat' = [seat EXCEPT ![d] = None]
    /\ heard' = heard \ {d}
    /\ UNCHANGED <<bt, from, loopVars, pending_queue_, history>>

(* arduino_on_controller_data starts with process_pending_requests.        *)
ControllerData(d) ==
    /\ bt = "idle"
    /\ seat[d] # None
    /\ bt' = "drain" /\ from' = d
    /\ UNCHANGED <<seat, updated, heard, loopVars, pending_queue_, history>>

(* Mutant: one request per report.                                         *)
DrainOneOnly ==
    /\ bt = "drain"
    /\ pending_queue_ # <<>>
    /\ pending_queue_' = Tail(pending_queue_)
    /\ \/ \E d \in Seated(Head(pending_queue_).slot) :
            /\ played' = [by |-> d, to |-> Head(pending_queue_).to]
            /\ bt' = "store" /\ UNCHANGED <<orderly, laps>>
       \/ /\ Seated(Head(pending_queue_).slot) = {}
          /\ bt' = "store"
          /\ orderly' = FALSE /\ laps' = 0 /\ played' = NotPlayed
    /\ UNCHANGED <<seat, updated, from, heard, loopVars>>

(* xQueueReceive, and the device in the slot plays the rumble.  Without a  *)
(* device the function returns, and leaves the other requests waiting.     *)
DrainOne ==
    /\ bt = "drain"
    /\ pending_queue_ # <<>>
    /\ pending_queue_' = Tail(pending_queue_)
    /\ \/ \E d \in Seated(Head(pending_queue_).slot) :
            /\ played' = [by |-> d, to |-> Head(pending_queue_).to]
            /\ UNCHANGED <<bt, orderly, laps>>
       \/ /\ Seated(Head(pending_queue_).slot) = {}
          /\ bt' = "store"
          /\ orderly' = FALSE /\ laps' = 0 /\ played' = NotPlayed
    /\ UNCHANGED <<seat, updated, from, heard, loopVars>>

DrainEnd ==
    /\ bt = "drain"
    /\ pending_queue_ = <<>>
    /\ bt' = "store" /\ orderly' = TRUE /\ laps' = 0 /\ played' = NotPlayed
    /\ UNCHANGED <<seat, updated, from, heard, loopVars, pending_queue_>>

(* ... and then stores the report.                                         *)
StoreReport ==
    /\ bt = "store"
    /\ updated' = updated \cup {seat[from]}
    /\ heard' = heard \cup {from}
    /\ bt' = "idle" /\ from' = None
    /\ UNCHANGED <<seat, loopVars, pending_queue_, history>>

-----------------------------------------------------------------------------
(* Loop task.                                                              *)

(* Bluepad32::update with its callbacks in the order of the slots: a slot  *)
(* that is new before the loss of the gamepad is noticed is refused.       *)
Adopted(now) ==
    LET joined == IF g_gamepad \in now THEN {}
                  ELSE {s \in now \ seen : g_gamepad = None \/ s > g_gamepad}
    IN  IF g_gamepad \in now THEN g_gamepad
        ELSE IF joined = {} THEN None
        ELSE CHOOSE s \in joined : \A r \in joined : s <= r

(* Mutant: getControllerData leaves data_updated set.                      *)
UpdateKeepsFlag ==
    /\ phase = "update"
    /\ seen' = InUse
    /\ hasData' = updated
    /\ g_gamepad' = Adopted(InUse)
    /\ phase' = "handle"
    /\ UNCHANGED <<btVars, input, sinceRumble, pending_queue_, history>>

Update ==
    /\ phase = "update"
    /\ seen' = InUse
    /\ hasData' = updated
    /\ updated' = {}
    /\ g_gamepad' = Adopted(InUse)
    /\ phase' = "handle"
    /\ UNCHANGED <<seat, bt, from, heard, input, sinceRumble, pending_queue_, history>>

Later(d) ==
    [i \in Inputs |-> IF sinceRumble[i] + d > RumbleGap THEN RumbleGap ELSE sinceRumble[i] + d]

(* One web request, of any length (a time beyond the gap is as good as the *)
(* gap); one that brings a preset zeroes g_lastRumbleMs of its inputs.     *)
HandleClient ==
    /\ phase = "handle"
    /\ \/ \E d \in 0 .. RumbleGap : sinceRumble' = Later(d)
       \/ \E S \in SUBSET Inputs :
            sinceRumble' = [i \in Inputs |-> IF i \in S THEN RumbleGap ELSE sinceRumble[i]]
    /\ phase' = "tick" /\ input' = 1
    /\ UNCHANGED <<btVars, seen, hasData, g_gamepad, pending_queue_, history>>

(* The guard of playInputRumble.                                           *)
MayRumble(i) == sinceRumble[i] >= RumbleGap

(* xQueueSendToBack without waiting; nobody looks at the result.           *)
SendToBack(request) ==
    IF Len(pending_queue_) < QueueMax
    THEN pending_queue_' = Append(pending_queue_, request)
    ELSE UNCHANGED pending_queue_

(* playInputRumble and arduino_play_dual_rumble: the gap starts whether or *)
(* not the slot is still in use and the queue takes the request.           *)
PlayInputRumble(i) ==
    /\ sinceRumble' = [sinceRumble EXCEPT ![i] = 0]
    /\ \/ \E d \in Seated(g_gamepad) :
            SendToBack([slot |-> g_gamepad, input |-> i, to |-> d, lap |-> laps])
       \/ g_gamepad \notin InUse /\ UNCHANGED pending_queue_

(* evaluateVirtualRuntime, input by input, in a tick with a new report: an *)
(* input may have changed or not.                                          *)
TickInput ==
    /\ phase = "tick"
    /\ g_gamepad \in hasData
    /\ input \in Inputs
    /\ \/ MayRumble(input) /\ PlayInputRumble(input)
       \/ UNCHANGED <<sinceRumble, pending_queue_>>
    /\ input' = input + 1
    /\ UNCHANGED <<btVars, phase, seen, hasData, g_gamepad, history>>

(* The end of the tick, or a tick without a report, in which no input is   *)
(* looked at (or only to be reset).                                        *)
TickEnd ==
    /\ phase = "tick"
    /\ input \notin Inputs \/ g_gamepad \notin hasData
    /\ phase' = "delay" /\ input' = 1
    /\ laps' = IF orderly /\ g_gamepad \in hasData THEN laps + 1 ELSE laps
    /\ UNCHANGED <<btVars, seen, hasData, g_gamepad, sinceRumble, pending_queue_, orderly,
                   played>>

(* delay(20).                                                              *)
Delay ==
    /\ phase = "delay"
    /\ sinceRumble' = Later(LoopDelay)
    /\ phase' = "update"
    /\ UNCHANGED <<btVars, input, seen, hasData, g_gamepad, pending_queue_, history>>

Next ==
    \/ \E d \in Devices : DeviceReady(d) \/ DeviceDisconnected(d) \/ ControllerData(d)
    \/ DrainOne \/ DrainEnd \/ StoreReport
    \/ Update \/ HandleClient \/ TickInput \/ TickEnd \/ Delay

Spec == Init /\ [][Next]_vars

-----------------------------------------------------------------------------
(* Properties.                                                             *)

(* The ticks that can ask between two drains that empty the queue: the one *)
(* that is running at the first drain, the one driven by the report stored *)
(* before it, and the one driven by the report stored after it.            *)
MaxLaps == 3

Requests == [slot : Slots, input : Inputs, to : Devices, lap : 0 .. MaxLaps]

TypeOK ==
    /\ seat \in [Devices -> Slots \cup {None}] /\ updated \subseteq Slots
    /\ bt \in {"idle", "drain", "store"} /\ from \in Devices \cup {None}
    /\ pending_queue_ \in Seq(Requests) /\ Len(pending_queue_) <= QueueMax
    /\ phase \in {"update", "handle", "tick", "delay"} /\ input \in 1 .. NumInputs + 1
    /\ seen \subseteq Slots /\ hasData \subseteq Slots
    /\ g_gamepad \in Slots \cup {None} /\ sinceRumble \in [Inputs -> 0 .. RumbleGap]
    /\ orderly \in BOOLEAN /\ laps \in 0 .. MaxLaps /\ heard \subseteq Devices
    /\ played \in [by : Devices \cup {None}, to : Devices \cup {None}]

(* However long the handlers take and however the two tasks interleave, no *)
(* input has more than three requests waiting, as long as no drain is cut  *)
(* short at an empty slot: a tick asks only if a report was stored since   *)
(* the last update(), and whoever stores a report has emptied the queue    *)
(* before.                                                                 *)
FewPerInput ==
    orderly => \A i \in Inputs :
        Cardinality({k \in DOMAIN pending_queue_ : pending_queue_[k].input = i}) <= MaxLaps

(* So nothing is lost to the ignored result of xQueueSendToBack while no   *)
(* more inputs rumble than a third of the queue's length, five of the      *)
(* sixteen.                                                                *)
RoomWhenAsked ==
    [][orderly /\ MaxLaps * NumInputs <= QueueMax =>
          (TickInput /\ MayRumble(input) => Len(pending_queue_) < QueueMax)]_vars

(* Why these hold, in every state: the parts of the inductive invariant.   *)

(* A slot has one device; who has reported, or is just being handled, has  *)
(* a slot.                                                                 *)
SeatsHeld ==
    /\ \A d, e \in Devices : seat[d] = seat[e] /\ seat[d] # None => d = e
    /\ \A d \in heard : seat[d] # None
    /\ bt # "idle" => from \in Devices /\ seat[from] # None

Waiting == {pending_queue_[k] : k \in DOMAIN pending_queue_}

One(condition) == IF condition THEN 1 ELSE 0

(* Each tick that has asked used up a report; there is one in use, one     *)
(* stored and one about to be stored, at the most.                         *)
LapsBounded ==
    orderly => laps + One(phase \in {"handle", "tick"} /\ hasData # {})
                    + One(updated # {}) + One(bt = "store") <= MaxLaps

(* What waits was asked for in earlier laps, or for an earlier input.      *)
LapsInOrder ==
    orderly => \A r \in Waiting :
        \/ r.lap < laps
        \/ r.lap = laps /\ phase = "tick" /\ g_gamepad \in hasData /\ r.input < input

(* An input asks once in a tick.                                           *)
OncePerLap ==
    orderly => \A j, k \in DOMAIN pending_queue_ :
        /\ pending_queue_[j].input = pending_queue_[k].input
        /\ pending_queue_[j].lap = pending_queue_[k].lap
        => j = k

(* The device that will play a request is the one it is meant for, unless  *)
(* it has not reported yet.                                                *)
MeantForPlayer ==
    orderly => \A r \in Waiting : \A d \in Seated(r.slot) :
        d \in heard \/ bt = "store" => r.to = d

(* The inductive invariant of the queue.                                   *)
RumbleInv ==
    /\ TypeOK /\ SeatsHeld /\ MeantForPlayer
    /\ LapsBounded /\ LapsInOrder /\ OncePerLap

(* Requests name a slot, and a device that takes the slot of one that left *)
(* may be given its rumbles, but only while its first report is handled:   *)
(* that drain removes what its predecessor left, unless a drain stops at a *)
(* slot that is empty.                                                     *)
OwnRumblesOnly ==
    [][played' # played /\ played'.by \in heard /\ orderly => played'.to = played'.by]_vars
=============================================================================
