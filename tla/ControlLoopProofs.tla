------------------------- MODULE ControlLoopProofs -------------------------
(* Proofs about ControlLoop, for every number of slots and devices and     *)
(* every timeout, delay and handler time.                                  *)
EXTENDS ControlLoop, FiniteSetTheorems, TLAPS

USE ControlLoopAssumption DEF Slots

(* The staleness bound is a natural number, so ages have a finite range.   *)
LEMMA StaleBoundNat == StaleBound \in Nat
  BY DEF StaleBound

(* What AdvanceClock does to millis() and to the ages: the clock stays in  *)
(* range, and an age grows by the time passed until it reaches the cap.    *)
LEMMA ClockAdvances ==
  ASSUME TypeOK, NEW d \in Nat, d < Modulus, AdvanceClock(d)
  PROVE  /\ now' = Plus(now, d)
         /\ now' \in 0 .. Modulus - 1
         /\ age' \in [Slots -> 0 .. StaleBound + 1]
         /\ \A s \in Slots : age'[s] <= age[s] + d
<1>1. now' = Plus(now, d) /\ now' \in 0 .. Modulus - 1
  BY DEF TypeOK, AdvanceClock, Plus
<1>2. \A s \in Slots : Older(age[s], d) \in 0 .. StaleBound + 1 /\ Older(age[s], d) <= age[s] + d
  BY StaleBoundNat DEF TypeOK, Older
<1> QED BY <1>1, <1>2 DEF AdvanceClock

(* Unsigned subtraction measures the time passed as long as it is less     *)
(* than one turn of the counter.                                           *)
LEMMA ElapsedAdvances ==
  ASSUME NEW t \in 0 .. Modulus - 1, NEW u \in 0 .. Modulus - 1, NEW d \in Nat,
         Elapsed(t, u) + d < Modulus
  PROVE  Elapsed(Plus(t, d), u) = Elapsed(t, u) + d
  BY DEF Elapsed, Plus

(* The time since a stamp is a natural number, and zero right after it.    *)
LEMMA ElapsedType ==
  ASSUME NEW t \in 0 .. Modulus - 1, NEW u \in 0 .. Modulus - 1
  PROVE  Elapsed(t, u) \in Nat /\ Elapsed(t, t) = 0
  BY DEF Elapsed

(* Every action preserves the type invariant. *)
LEMMA TypeStep == LoopInv /\ [Next]_vars => TypeOK'
<1> SUFFICES ASSUME LoopInv, [Next]_vars PROVE TypeOK'
  OBVIOUS
<1> USE DEF LoopInv, vars, shared, bt, bp32, sketch, clock
<1>1. ASSUME NEW d \in Devices, DeviceReady(d) PROVE TypeOK'
  BY <1>1, StaleBoundNat DEF TypeOK, Phases, DeviceReady
<1>2. ASSUME NEW d \in Devices, ControllerData(d) PROVE TypeOK'
  <2>1. seat[d] \in Slots
    BY <1>2 DEF TypeOK, ControllerData
  <2>2. /\ age' \in [Slots -> 0 .. StaleBound + 1]
        /\ age'[seat[d]] = 0
        /\ \A s \in Slots \ {seat[d]} : age'[s] = age[s]
    BY <1>2, <2>1, StaleBoundNat DEF TypeOK, ControllerData
  <2> QED
    BY <1>2, <2>1, <2>2, StaleBoundNat DEF TypeOK, Phases, ControllerData
<1>3. ASSUME NEW d \in Devices, DisconnectBegin(d) PROVE TypeOK'
  BY <1>3, StaleBoundNat DEF TypeOK, Phases, DisconnectBegin
<1>4. ASSUME NEW d \in Devices, DisconnectEnd(d) PROVE TypeOK'
  BY <1>4, StaleBoundNat DEF TypeOK, Phases, DisconnectEnd
<1>5. CASE PollCheck
  BY <1>5, StaleBoundNat DEF TypeOK, Phases, PollCheck, NextSlot
<1>6. CASE PollTake
  <2>1. ctlData' \in [Slots -> Devices \cup {NoData}] /\ hasData' \subseteq Slots
    <3>1. PICK fresh \in BOOLEAN, copy \in {data[slot], NoData} :
            /\ ctlData' = IF fresh THEN [ctlData EXCEPT ![slot] = copy] ELSE ctlData
            /\ hasData' = IF fresh THEN hasData \cup {slot} ELSE hasData \ {slot}
      BY <1>6 DEF PollTake
    <3>2. copy \in Devices \cup {NoData}
      BY DEF TypeOK
    <3> QED BY <3>1, <3>2 DEF TypeOK
  <2>2. pc' \in Phases /\ slot' \in Slots
    BY <1>6 DEF TypeOK, Phases, PollTake, NextSlot
  <2>3. updated' \subseteq Slots /\ seen' \subseteq Slots
    BY <1>6 DEF TypeOK, PollTake
  <2> QED BY <1>6, <2>1, <2>2, <2>3, Zenon DEF TypeOK, PollTake
<1>7. CASE Notify
  <2>1. slot' \in Slots /\ pc' \in {"notify", "scan"}
    BY <1>7 DEF TypeOK, Notify
  <2>2. CASE /\ slot \in seen \ prevSeen
             /\ connected' = connected \cup {slot}
             /\ OnConnected(slot)
    BY <1>7, <2>1, <2>2 DEF TypeOK, Phases, Notify, OnConnected
  <2>3. CASE /\ slot \in prevSeen \ seen
             /\ connected' = connected \ {slot}
             /\ OnDisconnected(slot)
    BY <1>7, <2>1, <2>3 DEF TypeOK, Phases, Notify, OnDisconnected
  <2>4. CASE UNCHANGED <<connected, sketch>> /\ (slot \in seen <=> slot \in prevSeen)
    BY <1>7, <2>1, <2>4 DEF TypeOK, Phases, Notify
  <2> QED BY <1>7, <2>2, <2>3, <2>4 DEF Notify
<1>8. CASE ScanScheduler
  BY <1>8, StaleBoundNat DEF TypeOK, Phases, ScanScheduler
<1>9. CASE HandleClient
  <2>1. PICK d \in 0 .. HandlerMax : AdvanceClock(d)
    BY <1>9 DEF HandleClient
  <2>2. /\ now' = Plus(now, d)
        /\ now' \in 0 .. Modulus - 1
        /\ age' \in [Slots -> 0 .. StaleBound + 1]
        /\ \A s \in Slots : age'[s] <= age[s] + d
    BY <2>1, ClockAdvances, d < Modulus
  <2> QED
    BY <1>9, <2>2, StaleBoundNat DEF TypeOK, Phases, HandleClient
<1>10. CASE ControlTick
  BY <1>10, StaleBoundNat DEF TypeOK, Phases, ControlTick
<1>11. CASE Delay
  <2>1. AdvanceClock(LoopDelay)
    BY <1>11 DEF Delay
  <2>2. /\ now' = Plus(now, LoopDelay)
        /\ now' \in 0 .. Modulus - 1
        /\ age' \in [Slots -> 0 .. StaleBound + 1]
        /\ \A s \in Slots : age'[s] <= age[s] + LoopDelay
    BY <2>1, ClockAdvances, LoopDelay < Modulus
  <2> QED
    BY <1>11, <2>2, StaleBoundNat DEF TypeOK, Phases, Delay
<1>12. CASE UNCHANGED vars
  BY <1>12 DEF TypeOK, Phases
<1> QED BY <1>1, <1>2, <1>3, <1>4, <1>5, <1>6, <1>7, <1>8, <1>9, <1>10, <1>11, <1>12
   DEF Next, BtTask, LoopTask

(* _connected keeps following the callbacks.                                *)
LEMMA ConnectedStep == LoopInv /\ [Next]_vars => ConnectedTracked'
<1> SUFFICES ASSUME LoopInv, [Next]_vars PROVE ConnectedTracked'
  OBVIOUS
<1> USE DEF LoopInv, vars, shared, bt, bp32, sketch, clock
<1>1. ASSUME NEW d \in Devices, DeviceReady(d) PROVE ConnectedTracked'
  BY <1>1 DEF TypeOK, ConnectedTracked, Phases, DeviceReady
<1>2. ASSUME NEW d \in Devices, ControllerData(d) PROVE ConnectedTracked'
  BY <1>2 DEF TypeOK, ConnectedTracked, Phases, ControllerData
<1>3. ASSUME NEW d \in Devices, DisconnectBegin(d) PROVE ConnectedTracked'
  BY <1>3 DEF TypeOK, ConnectedTracked, Phases, DisconnectBegin
<1>4. ASSUME NEW d \in Devices, DisconnectEnd(d) PROVE ConnectedTracked'
  BY <1>4 DEF TypeOK, ConnectedTracked, Phases, DisconnectEnd
<1>5. CASE PollCheck
  BY <1>5 DEF TypeOK, ConnectedTracked, Phases, PollCheck, NextSlot
<1>6. CASE PollTake
  BY <1>6 DEF TypeOK, ConnectedTracked, Phases, PollTake, NextSlot
<1>7. CASE Notify
  <2>1. slot \in Slots /\ pc = "notify" /\ seen' = seen
    BY <1>7 DEF TypeOK, Notify
  <2>2. /\ slot \in connected' <=> slot \in seen
        /\ \A s \in Slots \ {slot} : s \in connected' <=> s \in connected
    BY <1>7, <2>1 DEF ConnectedTracked, Notify
  <2>3. \A s \in Slots : s \in connected' <=> s \in (IF s < slot + 1 THEN seen ELSE prevSeen)
    BY <2>1, <2>2 DEF ConnectedTracked
  <2>4. g_gamepad' # None => g_gamepad' \in connected'
    <3>1. CASE slot \in seen \ prevSeen
      BY <1>7, <3>1 DEF ConnectedTracked, Notify, OnConnected
    <3>2. CASE slot \in prevSeen \ seen
      BY <1>7, <3>2 DEF ConnectedTracked, Notify, OnDisconnected
    <3>3. CASE slot \in seen <=> slot \in prevSeen
      BY <1>7, <3>3 DEF ConnectedTracked, Notify
    <3> QED BY <3>1, <3>2, <3>3
  <2>5. CASE slot + 1 < MaxDevices
    <3>1. pc' = "notify" /\ slot' = slot + 1 /\ prevSeen' = prevSeen
      BY <1>7, <2>5 DEF Notify
    <3> QED BY <2>1, <2>3, <2>4, <3>1 DEF ConnectedTracked
  <2>6. CASE ~(slot + 1 < MaxDevices)
    <3>1. pc' = "scan" /\ prevSeen' = seen /\ slot' = 0
      BY <1>7, <2>6 DEF Notify
    <3>2. \A s \in Slots : s < slot + 1
      BY <2>1, <2>6
    <3>3. connected' = seen
      BY <2>3, <3>2, TypeStep, <2>1 DEF TypeOK
    <3> QED BY <2>1, <2>4, <3>1, <3>3 DEF ConnectedTracked
  <2> QED BY <2>5, <2>6
<1>8. CASE ScanScheduler
  BY <1>8 DEF TypeOK, ConnectedTracked, Phases, ScanScheduler
<1>9. CASE HandleClient
  BY <1>9
     DEF TypeOK, ConnectedTracked, Phases, HandleClient, AdvanceClock, Plus, Older
<1>10. CASE ControlTick
  BY <1>10 DEF TypeOK, ConnectedTracked, Phases, ControlTick
<1>11. CASE Delay
  BY <1>11 DEF TypeOK, ConnectedTracked, Phases, Delay, AdvanceClock, Plus, Older
<1>12. CASE UNCHANGED vars
  BY <1>12 DEF TypeOK, ConnectedTracked, Phases
<1> QED BY <1>1, <1>2, <1>3, <1>4, <1>5, <1>6, <1>7, <1>8, <1>9, <1>10, <1>11, <1>12
   DEF Next, BtTask, LoopTask

(* No callback of the Bluetooth task makes two devices share a slot, or leaves *)
(* an unread report in a free slot.                                            *)
LEMMA SeatsStep == LoopInv /\ [Next]_vars => SeatsHeld'
<1> SUFFICES ASSUME LoopInv, [Next]_vars PROVE SeatsHeld'
  OBVIOUS
<1> USE DEF LoopInv, vars, shared, bt, bp32, sketch, clock
<1>1. ASSUME NEW d \in Devices, DeviceReady(d) PROVE SeatsHeld'
  BY <1>1 DEF TypeOK, SeatsHeld, DeviceReady
<1>2. ASSUME NEW d \in Devices, ControllerData(d) PROVE SeatsHeld'
  BY <1>2 DEF TypeOK, SeatsHeld, ControllerData
<1>3. ASSUME NEW d \in Devices, DisconnectBegin(d) PROVE SeatsHeld'
  BY <1>3 DEF TypeOK, SeatsHeld, DisconnectBegin
<1>4. ASSUME NEW d \in Devices, DisconnectEnd(d) PROVE SeatsHeld'
  BY <1>4 DEF TypeOK, SeatsHeld, DisconnectEnd
<1>5. CASE PollCheck
  BY <1>5 DEF TypeOK, SeatsHeld, PollCheck, NextSlot
<1>6. CASE PollTake
  BY <1>6 DEF TypeOK, SeatsHeld, PollTake, NextSlot
<1>7. CASE Notify
  BY <1>7 DEF TypeOK, SeatsHeld, Notify, OnConnected, OnDisconnected
<1>8. CASE ScanScheduler
  BY <1>8 DEF TypeOK, SeatsHeld, ScanScheduler
<1>9. CASE HandleClient
  BY <1>9 DEF TypeOK, SeatsHeld, HandleClient, AdvanceClock, Plus, Older
<1>10. CASE ControlTick
  BY <1>10 DEF TypeOK, SeatsHeld, ControlTick
<1>11. CASE Delay
  BY <1>11 DEF TypeOK, SeatsHeld, Delay, AdvanceClock, Plus, Older
<1>12. CASE UNCHANGED vars
  BY <1>12 DEF TypeOK, SeatsHeld
<1> QED BY <1>1, <1>2, <1>3, <1>4, <1>5, <1>6, <1>7, <1>8, <1>9, <1>10, <1>11, <1>12
   DEF Next, BtTask, LoopTask

(* Reports that wait in a slot stay as young as the polling makes them.        *)
LEMMA UnreadStep == LoopInv /\ [Next]_vars => UnreadIsRecent'
<1> SUFFICES ASSUME LoopInv, [Next]_vars PROVE UnreadIsRecent'
  OBVIOUS
<1> USE DEF LoopInv, vars, shared, bt, bp32, sketch, clock
<1>1. ASSUME NEW d \in Devices, DeviceReady(d) PROVE UnreadIsRecent'
  BY <1>1, StaleBoundNat DEF TypeOK, SeatsHeld, UnreadIsRecent, Phases, DeviceReady
<1>2. ASSUME NEW d \in Devices, ControllerData(d) PROVE UnreadIsRecent'
  <2>1. seat[d] \in Slots
    BY <1>2 DEF TypeOK, ControllerData
  <2>2. /\ age' \in [Slots -> 0 .. StaleBound + 1]
        /\ age'[seat[d]] = 0
        /\ \A s \in Slots \ {seat[d]} : age'[s] = age[s]
    BY <1>2, <2>1, StaleBoundNat DEF TypeOK, ControllerData
  <2> QED
    BY <1>2, <2>1, <2>2, StaleBoundNat
       DEF TypeOK, SeatsHeld, UnreadIsRecent, Phases, ControllerData
<1>3. ASSUME NEW d \in Devices, DisconnectBegin(d) PROVE UnreadIsRecent'
  BY <1>3, StaleBoundNat
     DEF TypeOK, SeatsHeld, UnreadIsRecent, Phases, DisconnectBegin
<1>4. ASSUME NEW d \in Devices, DisconnectEnd(d) PROVE UnreadIsRecent'
  BY <1>4, StaleBoundNat
     DEF TypeOK, SeatsHeld, UnreadIsRecent, Phases, DisconnectEnd
<1>5. CASE PollCheck
  BY <1>5, StaleBoundNat
     DEF TypeOK, SeatsHeld, UnreadIsRecent, Phases, PollCheck, NextSlot
<1>6. CASE PollTake
  BY <1>6, StaleBoundNat
     DEF TypeOK, SeatsHeld, UnreadIsRecent, Phases, PollTake, NextSlot
<1>7. CASE Notify
  BY <1>7, StaleBoundNat
     DEF TypeOK, SeatsHeld, UnreadIsRecent, Phases, Notify, OnConnected,
       OnDisconnected
<1>8. CASE ScanScheduler
  BY <1>8, StaleBoundNat
     DEF TypeOK, SeatsHeld, UnreadIsRecent, Phases, ScanScheduler
<1>9. CASE HandleClient
  <2> SUFFICES ASSUME NEW s \in updated
              PROVE  /\ ~(pc' = "check" /\ s < slot')
                     /\ age'[s] \in Int
                     /\ age'[s] <= HandlerMax
    BY <1>9 DEF TypeOK, UnreadIsRecent, HandleClient
  <2>1. PICK d \in 0 .. HandlerMax : AdvanceClock(d)
    BY <1>9 DEF HandleClient
  <2>2. s \in Slots /\ age[s] \in Int /\ age[s] = 0
    BY <1>9, StaleBoundNat DEF TypeOK, UnreadIsRecent, HandleClient
  <2>3. age'[s] \in Int /\ age'[s] <= age[s] + d
    BY <2>1, <2>2, ClockAdvances, d < Modulus, StaleBoundNat
  <2> QED
    BY <1>9, <2>2, <2>3 DEF TypeOK, ConnectedTracked, HandleClient
<1>10. CASE ControlTick
  BY <1>10, StaleBoundNat DEF TypeOK, SeatsHeld, UnreadIsRecent, Phases, ControlTick
<1>11. CASE Delay
  <2> SUFFICES ASSUME NEW s \in updated
              PROVE  /\ ~(pc' = "check" /\ s < slot')
                     /\ age'[s] \in Int
                     /\ age'[s] <= HandlerMax + LoopDelay
    BY <1>11 DEF TypeOK, UnreadIsRecent, Delay
  <2>1. AdvanceClock(LoopDelay)
    BY <1>11 DEF Delay
  <2>2. s \in Slots /\ age[s] \in Int /\ age[s] <= HandlerMax
    BY <1>11, StaleBoundNat DEF TypeOK, UnreadIsRecent, Delay
  <2>3. age'[s] \in Int /\ age'[s] <= age[s] + LoopDelay
    BY <2>1, <2>2, ClockAdvances, LoopDelay < Modulus, StaleBoundNat
  <2> QED
    BY <1>11, <2>2, <2>3 DEF TypeOK, ConnectedTracked, Delay
<1>12. CASE UNCHANGED vars
  BY <1>12 DEF TypeOK, SeatsHeld, UnreadIsRecent, Phases
<1> QED BY <1>1, <1>2, <1>3, <1>4, <1>5, <1>6, <1>7, <1>8, <1>9, <1>10, <1>11, <1>12
   DEF Next, BtTask, LoopTask

(* So do the reports read in the current turn of loop().                       *)
LEMMA ReadStep == LoopInv /\ [Next]_vars => ReadIsRecent'
<1> SUFFICES ASSUME LoopInv, [Next]_vars PROVE ReadIsRecent'
  OBVIOUS
<1> USE DEF LoopInv, vars, shared, bt, bp32, sketch, clock
<1>1. ASSUME NEW d \in Devices, DeviceReady(d) PROVE ReadIsRecent'
  BY <1>1, StaleBoundNat
     DEF TypeOK, ConnectedTracked, UnreadIsRecent, ReadIsRecent, Phases, DeviceReady
<1>2. ASSUME NEW d \in Devices, ControllerData(d) PROVE ReadIsRecent'
  <2>1. seat[d] \in Slots
    BY <1>2 DEF TypeOK, ControllerData
  <2>2. /\ age' \in [Slots -> 0 .. StaleBound + 1]
        /\ age'[seat[d]] = 0
        /\ \A s \in Slots \ {seat[d]} : age'[s] = age[s]
    BY <1>2, <2>1, StaleBoundNat DEF TypeOK, ControllerData
  <2> QED
    BY <1>2, <2>1, <2>2, StaleBoundNat
       DEF TypeOK, ConnectedTracked, UnreadIsRecent, ReadIsRecent, Phases,
         ControllerData
<1>3. ASSUME NEW d \in Devices, DisconnectBegin(d) PROVE ReadIsRecent'
  BY <1>3, StaleBoundNat
     DEF TypeOK, ConnectedTracked, UnreadIsRecent, ReadIsRecent, Phases,
       DisconnectBegin
<1>4. ASSUME NEW d \in Devices, DisconnectEnd(d) PROVE ReadIsRecent'
  BY <1>4, StaleBoundNat
     DEF TypeOK, ConnectedTracked, UnreadIsRecent, ReadIsRecent, Phases,
       DisconnectEnd
<1>5. CASE PollCheck
  BY <1>5, StaleBoundNat
     DEF TypeOK, ConnectedTracked, UnreadIsRecent, ReadIsRecent, Phases, PollCheck,
       NextSlot
<1>6. CASE PollTake
  BY <1>6, StaleBoundNat
     DEF TypeOK, ConnectedTracked, UnreadIsRecent, ReadIsRecent, Phases, PollTake,
       NextSlot
<1>7. CASE Notify
  BY <1>7, StaleBoundNat
     DEF TypeOK, ConnectedTracked, UnreadIsRecent, ReadIsRecent, Phases, Notify,
       OnConnected, OnDisconnected
<1>8. CASE ScanScheduler
  BY <1>8, StaleBoundNat
     DEF TypeOK, ConnectedTracked, UnreadIsRecent, ReadIsRecent, Phases,
       ScanScheduler
<1>9. CASE HandleClient
  <2>1. PICK d \in 0 .. HandlerMax : AdvanceClock(d)
    BY <1>9 DEF HandleClient
  <2>2. /\ now' = Plus(now, d)
        /\ now' \in 0 .. Modulus - 1
        /\ age' \in [Slots -> 0 .. StaleBound + 1]
        /\ \A s \in Slots : age'[s] <= age[s] + d
    BY <2>1, ClockAdvances, d < Modulus
  <2>3. pc = "handle" /\ pc' = "tick" /\ seen' = seen /\ hasData' = hasData
    BY <1>9 DEF HandleClient
  <2>4. seen \subseteq Slots /\ age \in [Slots -> 0 .. StaleBound + 1]
    BY DEF TypeOK
  <2>5. HandlerMax \in Nat /\ LoopDelay \in Nat
    BY ControlLoopAssumption
  <2>6. ASSUME NEW s \in seen \cap hasData PROVE age'[s] <= 2 * HandlerMax + LoopDelay
    <3>1. age[s] <= HandlerMax + LoopDelay
      BY <2>3 DEF ReadIsRecent
    <3>2. age[s] \in Int /\ age'[s] \in Int /\ age'[s] <= age[s] + d
      BY <2>2, <2>4, StaleBoundNat
    <3> QED BY <2>5, <3>1, <3>2
  <2> QED BY <2>3, <2>6 DEF ReadIsRecent
<1>10. CASE ControlTick
  BY <1>10, StaleBoundNat
     DEF TypeOK, ConnectedTracked, UnreadIsRecent, ReadIsRecent, Phases, ControlTick
<1>11. CASE Delay
  <2>1. AdvanceClock(LoopDelay)
    BY <1>11 DEF Delay
  <2>2. /\ now' = Plus(now, LoopDelay)
        /\ now' \in 0 .. Modulus - 1
        /\ age' \in [Slots -> 0 .. StaleBound + 1]
        /\ \A s \in Slots : age'[s] <= age[s] + LoopDelay
    BY <2>1, ClockAdvances, LoopDelay < Modulus
  <2> QED
    BY <1>11, <2>2, StaleBoundNat
       DEF TypeOK, ConnectedTracked, UnreadIsRecent, ReadIsRecent, Phases, Delay
<1>12. CASE UNCHANGED vars
  BY <1>12 DEF TypeOK, ConnectedTracked, UnreadIsRecent, ReadIsRecent, Phases
<1> QED BY <1>1, <1>2, <1>3, <1>4, <1>5, <1>6, <1>7, <1>8, <1>9, <1>10, <1>11, <1>12
   DEF Next, BtTask, LoopTask

(* The age of the driving report never exceeds the stamp's by more than the    *)
(* time between report and stamp.                                              *)
LEMMA DrivenStep == LoopInv /\ [Next]_vars => DrivenIsStamped'
<1> SUFFICES ASSUME LoopInv, [Next]_vars PROVE DrivenIsStamped'
  OBVIOUS
<1> USE DEF LoopInv, vars, shared, bt, bp32, sketch, clock
<1>1. ASSUME NEW d \in Devices, DeviceReady(d) PROVE DrivenIsStamped'
  BY <1>1, StaleBoundNat, ElapsedType
     DEF TypeOK, ConnectedTracked, ReadIsRecent, DrivenIsStamped, Phases,
       DeviceReady
<1>2. ASSUME NEW d \in Devices, ControllerData(d) PROVE DrivenIsStamped'
  <2>1. seat[d] \in Slots
    BY <1>2 DEF TypeOK, ControllerData
  <2>2. \A s \in Slots : age'[s] \in Int /\ age'[s] <= age[s]
    BY <1>2, <2>1, StaleBoundNat DEF TypeOK, ControllerData
  <2>3. /\ Elapsed(now, g_lastPacketMs) \in Nat
        /\ \A s \in Slots : age[s] \in Int
    BY ElapsedType, StaleBoundNat DEF TypeOK
  <2>4. Elapsed(now', g_lastPacketMs') = Elapsed(now, g_lastPacketMs)
    BY <1>2 DEF ControllerData
  <2> SUFFICES ASSUME out' = "live"
               PROVE age'[g_gamepad] <= Elapsed(now, g_lastPacketMs) + 2 * HandlerMax + LoopDelay
    BY <1>2, <2>4 DEF DrivenIsStamped, ControllerData
  <2>5. /\ g_gamepad \in Slots
        /\ age[g_gamepad] <= Elapsed(now, g_lastPacketMs) + 2 * HandlerMax + LoopDelay
    BY <1>2 DEF TypeOK, DrivenIsStamped, ControllerData
  <2> QED BY <2>2, <2>3, <2>5
<1>3. ASSUME NEW d \in Devices, DisconnectBegin(d) PROVE DrivenIsStamped'
  BY <1>3, StaleBoundNat, ElapsedType
     DEF TypeOK, ConnectedTracked, ReadIsRecent, DrivenIsStamped, Phases,
       DisconnectBegin
<1>4. ASSUME NEW d \in Devices, DisconnectEnd(d) PROVE DrivenIsStamped'
  BY <1>4, StaleBoundNat, ElapsedType
     DEF TypeOK, ConnectedTracked, ReadIsRecent, DrivenIsStamped, Phases,
       DisconnectEnd
<1>5. CASE PollCheck
  BY <1>5, StaleBoundNat, ElapsedType
     DEF TypeOK, ConnectedTracked, ReadIsRecent, DrivenIsStamped, Phases, PollCheck,
       NextSlot
<1>6. CASE PollTake
  BY <1>6, StaleBoundNat, ElapsedType
     DEF TypeOK, ConnectedTracked, ReadIsRecent, DrivenIsStamped, Phases, PollTake,
       NextSlot
<1>7. CASE Notify
  BY <1>7, StaleBoundNat, ElapsedType
     DEF TypeOK, ConnectedTracked, ReadIsRecent, DrivenIsStamped, Phases, Notify,
       OnConnected, OnDisconnected
<1>8. CASE ScanScheduler
  BY <1>8, StaleBoundNat, ElapsedType
     DEF TypeOK, ConnectedTracked, ReadIsRecent, DrivenIsStamped, Phases,
       ScanScheduler
<1>9. CASE HandleClient
  <2> SUFFICES ASSUME out' = "live" PROVE DrivenIsStamped'
    BY DEF DrivenIsStamped
  <2> DEFINE e == Elapsed(now, g_lastPacketMs)
  <2>1. PICK d \in 0 .. HandlerMax : AdvanceClock(d)
    BY <1>9 DEF HandleClient
  <2>2. now' = Plus(now, d) /\ \A s \in Slots : age'[s] \in Int /\ age'[s] <= age[s] + d
    BY <2>1, ClockAdvances, d < Modulus, StaleBoundNat
  <2>3. /\ out = "live" /\ pc = "handle" /\ pc' = "tick"
        /\ UNCHANGED <<g_gamepad, g_lastPacketMs>>
    BY <1>9 DEF HandleClient
  <2>4. e \in Nat /\ e <= SignalTimeout + LoopDelay
    BY <2>3, ElapsedType DEF TypeOK, DrivenIsStamped
  <2>5. Elapsed(now', g_lastPacketMs') = e + d
    BY <2>2, <2>3, <2>4, ElapsedAdvances DEF TypeOK
  <2>6. g_gamepad \in Slots /\ age[g_gamepad] \in Int /\ age[g_gamepad] <= e + 2 * HandlerMax + LoopDelay
    BY <2>3, StaleBoundNat DEF TypeOK, DrivenIsStamped
  <2>7. age'[g_gamepad'] <= e + d + 2 * HandlerMax + LoopDelay
    BY <2>2, <2>3, <2>4, <2>6
  <2> HIDE DEF e
  <2> QED
    BY <2>3, <2>4, <2>5, <2>6, <2>7 DEF DrivenIsStamped
<1>10. CASE ControlTick
  <2> SUFFICES ASSUME out' = "live" PROVE DrivenIsStamped'
    BY DEF DrivenIsStamped
  <2>1. /\ pc = "tick" /\ pc' = "delay"
        /\ UNCHANGED <<now, age, g_gamepad>>
        /\ g_gamepad \in connected /\ g_gamepad \in Slots
    BY <1>10 DEF TypeOK, ControlTick
  <2>2. CASE g_gamepad \in hasData
    <3>1. g_lastPacketMs' = now /\ Elapsed(now', now) = 0
      BY <1>10, <2>1, <2>2, ElapsedType DEF TypeOK, ControlTick
    <3>2. age[g_gamepad] <= 2 * HandlerMax + LoopDelay
      BY <2>1, <2>2 DEF ConnectedTracked, ReadIsRecent
    <3> QED BY <2>1, <3>1, <3>2 DEF DrivenIsStamped
  <2>3. CASE g_gamepad \notin hasData
    <3>1. /\ UNCHANGED <<g_lastPacketMs, out>>
          /\ ~(Elapsed(now, g_lastPacketMs) > SignalTimeout)
      BY <1>10, <2>1, <2>3 DEF ControlTick
    <3>2. Elapsed(now, g_lastPacketMs) \in Nat
      BY ElapsedType DEF TypeOK
    <3> QED BY <2>1, <3>1, <3>2 DEF DrivenIsStamped
  <2> QED BY <2>2, <2>3
<1>11. CASE Delay
  <2> SUFFICES ASSUME out' = "live" PROVE DrivenIsStamped'
    BY DEF DrivenIsStamped
  <2> DEFINE e == Elapsed(now, g_lastPacketMs)
  <2>1. AdvanceClock(LoopDelay)
    BY <1>11 DEF Delay
  <2>2. now' = Plus(now, LoopDelay) /\ \A s \in Slots : age'[s] \in Int /\ age'[s] <= age[s] + LoopDelay
    BY <2>1, ClockAdvances, LoopDelay < Modulus, StaleBoundNat
  <2>3. /\ out = "live" /\ pc = "delay" /\ pc' = "check"
        /\ UNCHANGED <<g_gamepad, g_lastPacketMs>>
    BY <1>11 DEF Delay
  <2>4. e \in Nat /\ e <= SignalTimeout
    BY <2>3, ElapsedType DEF TypeOK, DrivenIsStamped
  <2>5. Elapsed(now', g_lastPacketMs') = e + LoopDelay
    BY <2>2, <2>3, <2>4, ElapsedAdvances DEF TypeOK
  <2>6. g_gamepad \in Slots /\ age[g_gamepad] \in Int /\ age[g_gamepad] <= e + 2 * HandlerMax + LoopDelay
    BY <2>3, StaleBoundNat DEF TypeOK, DrivenIsStamped
  <2>7. age'[g_gamepad'] <= e + LoopDelay + 2 * HandlerMax + LoopDelay
    BY <2>2, <2>3, <2>4, <2>6
  <2> HIDE DEF e
  <2> QED
    BY <2>3, <2>4, <2>5, <2>6, <2>7 DEF DrivenIsStamped
<1>12. CASE UNCHANGED vars
  BY <1>12 DEF TypeOK, ConnectedTracked, ReadIsRecent, DrivenIsStamped, Phases
<1> QED BY <1>1, <1>2, <1>3, <1>4, <1>5, <1>6, <1>7, <1>8, <1>9, <1>10, <1>11, <1>12
   DEF Next, BtTask, LoopTask

(* The failsafe flag is raised only together with the failsafe itself.         *)
LEMMA TimedOutStep == LoopInv /\ [Next]_vars => TimedOutIsSafe'
<1> SUFFICES ASSUME LoopInv, [Next]_vars PROVE TimedOutIsSafe'
  OBVIOUS
<1> USE DEF LoopInv, vars, shared, bt, bp32, sketch, clock
<1>1. ASSUME NEW d \in Devices, DeviceReady(d) PROVE TimedOutIsSafe'
  BY <1>1 DEF TypeOK, DrivenIsStamped, TimedOutIsSafe, DeviceReady
<1>2. ASSUME NEW d \in Devices, ControllerData(d) PROVE TimedOutIsSafe'
  BY <1>2 DEF TypeOK, DrivenIsStamped, TimedOutIsSafe, ControllerData
<1>3. ASSUME NEW d \in Devices, DisconnectBegin(d) PROVE TimedOutIsSafe'
  BY <1>3 DEF TypeOK, DrivenIsStamped, TimedOutIsSafe, DisconnectBegin
<1>4. ASSUME NEW d \in Devices, DisconnectEnd(d) PROVE TimedOutIsSafe'
  BY <1>4 DEF TypeOK, DrivenIsStamped, TimedOutIsSafe, DisconnectEnd
<1>5. CASE PollCheck
  BY <1>5 DEF TypeOK, DrivenIsStamped, TimedOutIsSafe, PollCheck, NextSlot
<1>6. CASE PollTake
  BY <1>6 DEF TypeOK, DrivenIsStamped, TimedOutIsSafe, PollTake, NextSlot
<1>7. CASE Notify
  BY <1>7
     DEF TypeOK, DrivenIsStamped, TimedOutIsSafe, Notify, OnConnected,
       OnDisconnected
<1>8. CASE ScanScheduler
  BY <1>8 DEF TypeOK, DrivenIsStamped, TimedOutIsSafe, ScanScheduler
<1>9. CASE HandleClient
  BY <1>9
     DEF TypeOK, DrivenIsStamped, TimedOutIsSafe, HandleClient, AdvanceClock, Plus,
       Older
<1>10. CASE ControlTick
  BY <1>10 DEF TypeOK, DrivenIsStamped, TimedOutIsSafe, ControlTick
<1>11. CASE Delay
  BY <1>11
     DEF TypeOK, DrivenIsStamped, TimedOutIsSafe, Delay, AdvanceClock, Plus, Older
<1>12. CASE UNCHANGED vars
  BY <1>12 DEF TypeOK, DrivenIsStamped, TimedOutIsSafe
<1> QED BY <1>1, <1>2, <1>3, <1>4, <1>5, <1>6, <1>7, <1>8, <1>9, <1>10, <1>11, <1>12
   DEF Next, BtTask, LoopTask

(* Scanning stays off while a gamepad is adopted.                              *)
LEMMA ScanStep == LoopInv /\ [Next]_vars => ScanOffWhileAdopted'
<1> SUFFICES ASSUME LoopInv, [Next]_vars PROVE ScanOffWhileAdopted'
  OBVIOUS
<1> USE DEF LoopInv, vars, shared, bt, bp32, sketch, clock
<1>1. ASSUME NEW d \in Devices, DeviceReady(d) PROVE ScanOffWhileAdopted'
  BY <1>1 DEF TypeOK, ConnectedTracked, ScanOffWhileAdopted, DeviceReady
<1>2. ASSUME NEW d \in Devices, ControllerData(d) PROVE ScanOffWhileAdopted'
  BY <1>2 DEF TypeOK, ConnectedTracked, ScanOffWhileAdopted, ControllerData
<1>3. ASSUME NEW d \in Devices, DisconnectBegin(d) PROVE ScanOffWhileAdopted'
  BY <1>3 DEF TypeOK, ConnectedTracked, ScanOffWhileAdopted, DisconnectBegin
<1>4. ASSUME NEW d \in Devices, DisconnectEnd(d) PROVE ScanOffWhileAdopted'
  BY <1>4 DEF TypeOK, ConnectedTracked, ScanOffWhileAdopted, DisconnectEnd
<1>5. CASE PollCheck
  BY <1>5 DEF TypeOK, ConnectedTracked, ScanOffWhileAdopted, PollCheck, NextSlot
<1>6. CASE PollTake
  BY <1>6 DEF TypeOK, ConnectedTracked, ScanOffWhileAdopted, PollTake, NextSlot
<1>7. CASE Notify
  BY <1>7
     DEF TypeOK, ConnectedTracked, ScanOffWhileAdopted, Notify, OnConnected,
       OnDisconnected
<1>8. CASE ScanScheduler
  BY <1>8 DEF TypeOK, ConnectedTracked, ScanOffWhileAdopted, ScanScheduler
<1>9. CASE HandleClient
  BY <1>9
     DEF TypeOK, ConnectedTracked, ScanOffWhileAdopted, HandleClient, AdvanceClock,
       Plus, Older
<1>10. CASE ControlTick
  BY <1>10 DEF TypeOK, ConnectedTracked, ScanOffWhileAdopted, ControlTick
<1>11. CASE Delay
  BY <1>11
     DEF TypeOK, ConnectedTracked, ScanOffWhileAdopted, Delay, AdvanceClock, Plus,
       Older
<1>12. CASE UNCHANGED vars
  BY <1>12 DEF TypeOK, ConnectedTracked, ScanOffWhileAdopted
<1> QED BY <1>1, <1>2, <1>3, <1>4, <1>5, <1>6, <1>7, <1>8, <1>9, <1>10, <1>11, <1>12
   DEF Next, BtTask, LoopTask

(* The invariant holds in the initial state.                               *)
LEMMA LoopInit == Init => LoopInv
<1> SUFFICES ASSUME Init PROVE LoopInv
  OBVIOUS
<1>1. TypeOK
  <2>1. 0 \in Slots /\ 0 \in 0 .. Modulus - 1 /\ StaleBound + 1 \in 0 .. StaleBound + 1
    BY StaleBoundNat
  <2>2. /\ data \in [Slots -> Devices \cup {NoData}] /\ ctlData \in [Slots -> Devices \cup {NoData}]
        /\ seat \in [Devices -> Slots \cup {None}]
        /\ age \in [Slots -> 0 .. StaleBound + 1]
    BY <2>1 DEF Init
  <2>3. /\ inUse \subseteq Slots /\ updated \subseteq Slots /\ seen \subseteq Slots
        /\ prevSeen \subseteq Slots /\ connected \subseteq Slots /\ hasData \subseteq Slots
    BY DEF Init
  <2>4. /\ usedControllers \in Int /\ slot \in Slots
        /\ now \in 0 .. Modulus - 1 /\ g_lastPacketMs \in 0 .. Modulus - 1
    BY <2>1 DEF Init
  <2>5. wiping \in Slots \cup {None} /\ g_gamepad \in Slots \cup {None}
    BY DEF Init
  <2>6. pc \in Phases /\ out \in {"failsafe", "live"}
    BY DEF Init, Phases
  <2>7. g_signalTimedOut \in BOOLEAN /\ g_btScanActive \in BOOLEAN
    BY DEF Init
  <2> QED BY <2>2, <2>3, <2>4, <2>5, <2>6, <2>7 DEF TypeOK
<1>2. ConnectedTracked /\ SeatsHeld /\ UnreadIsRecent /\ ReadIsRecent
  BY DEF Init, ConnectedTracked, SeatsHeld, UnreadIsRecent, ReadIsRecent
<1>3. DrivenIsStamped /\ TimedOutIsSafe /\ ScanOffWhileAdopted
  BY DEF Init, DrivenIsStamped, TimedOutIsSafe, ScanOffWhileAdopted
<1> QED BY <1>1, <1>2, <1>3 DEF LoopInv

(* LoopInv is an invariant of the control loop: the types, and the         *)
(* agreement of seats, callbacks, stamps and report ages.                  *)
THEOREM LoopInvariance == Spec => []LoopInv
<1>1. LoopInv /\ [Next]_vars => LoopInv'
  BY TypeStep, ConnectedStep, SeatsStep, UnreadStep, ReadStep, DrivenStep,
     TimedOutStep, ScanStep DEF LoopInv
<1> QED BY <1>1, LoopInit, PTL DEF Spec

(* Every variable keeps its type, for any number of devices and slots.     *)
THEOREM TypeCorrect == Spec => []TypeOK
<1>1. LoopInv => TypeOK
  BY DEF LoopInv
<1> QED BY <1>1, LoopInvariance, PTL

(* The stamp bounds the age of the report that drives the outputs.         *)
LEMMA FreshFromInv == LoopInv => LiveIsFresh
<1> SUFFICES ASSUME LoopInv, out = "live"
             PROVE  g_gamepad # None /\ age[g_gamepad] <= StaleBound
  BY DEF LiveIsFresh
<1>1. g_gamepad \in Slots /\ age[g_gamepad] \in Int
  BY StaleBoundNat DEF LoopInv, TypeOK, DrivenIsStamped
<1>2. Elapsed(now, g_lastPacketMs) \in Nat
  BY ElapsedType DEF LoopInv, TypeOK
<1> QED BY <1>1, <1>2 DEF LoopInv, DrivenIsStamped, StaleBound

(* Outputs are live only while a gamepad is adopted whose slot received a  *)
(* report at most StaleBound milliseconds ago: the failsafe of             *)
(* processControlTick, whatever the Bluetooth task does meanwhile and      *)
(* although millis() wraps.                                                *)
THEOREM LiveOnlyIfFresh == Spec => []LiveIsFresh
  BY FreshFromInv, LoopInvariance, PTL

(* The failsafe flag of the state and activity replies is never raised     *)
(* while the outputs are driven by the gamepad, at whatever point of       *)
(* loop() it is computed.                                                  *)
THEOREM ShownOnlyIfSafe == Spec => []FailsafeShownIsSafe
<1>1. LoopInv => FailsafeShownIsSafe
  <2> SUFFICES ASSUME LoopInv, failsafeActive, out # "failsafe" PROVE FALSE
    BY DEF FailsafeShownIsSafe
  <2>1. out = "live" /\ g_gamepad # None
    BY DEF LoopInv, TypeOK, DrivenIsStamped
  <2>2. g_gamepad \in connected
    BY <2>1 DEF LoopInv, ConnectedTracked
  <2> QED BY <2>1, <2>2 DEF failsafeActive, LoopInv, TimedOutIsSafe
<1> QED BY <1>1, LoopInvariance, PTL

(* No point of loop() is reached with a gamepad adopted and the radio      *)
(* scanning.                                                               *)
THEOREM ScanOffOnceAdopted == Spec => []ScanOffWhileAdopted
<1>1. LoopInv => ScanOffWhileAdopted
  BY DEF LoopInv
<1> QED BY <1>1, LoopInvariance, PTL

(* What the dead man's switch needs to know of the silence: its range, and *)
(* that a live state has a driver that was heard of recently enough.       *)
LEMMA SilenceFacts ==
  ASSUME LoopInv
  PROVE  /\ g_gamepad \in Slots \cup {None}
         /\ out \in {"failsafe", "live"}
         /\ Silence \in 0 .. StaleBound + 1
         /\ g_gamepad = None => out = "failsafe" /\ Silence = StaleBound + 1
         /\ out = "live" => Silence <= StaleBound
<1>1. /\ g_gamepad \in Slots \cup {None} /\ out \in {"failsafe", "live"}
      /\ age \in [Slots -> 0 .. StaleBound + 1]
  BY DEF LoopInv, TypeOK
<1>2. out = "live" => g_gamepad # None /\ age[g_gamepad] <= StaleBound
  BY FreshFromInv DEF LiveIsFresh
<1> QED BY <1>1, <1>2, StaleBoundNat DEF Silence

(* Steps that leave the driver, the report ages and the outputs alone.     *)
LEMMA Unconcerned ==
  ASSUME UNCHANGED <<g_gamepad, age, out>>
  PROVE  UNCHANGED DMS!dmsVars
  BY DEF DMS!dmsVars, Silence

(* A step during which time passes and the outputs stay or are stopped.    *)
LEMMA TimePasses ==
  ASSUME LoopInv, LoopInv', NEW d \in Nat, d < Modulus, AdvanceClock(d),
         g_gamepad' = g_gamepad, out' \in {out, "failsafe"}
  PROVE  [DMS!Next]_(DMS!dmsVars)
<1>1. CASE g_gamepad = None
  <2>1. Silence' = Silence /\ out' = out
    BY <1>1, SilenceFacts DEF Silence
  <2> QED BY <2>1 DEF DMS!dmsVars
<1>2. CASE g_gamepad # None
  <2>1. g_gamepad \in Slots
    BY <1>2, SilenceFacts
  <2>2. age[g_gamepad] \in 0 .. StaleBound + 1 /\ age'[g_gamepad] = Older(age[g_gamepad], d)
    BY <2>1 DEF LoopInv, TypeOK, AdvanceClock
  <2>3. Silence' \in Silence .. StaleBound + 1
    BY <1>2, <2>2, StaleBoundNat DEF Silence, Older
  <2>4. out' = "live" => Silence' <= StaleBound
    <3>1. LiveIsFresh'
      BY FreshFromInv, PTL
    <3> QED BY <1>2, <3>1 DEF LiveIsFresh, Silence
  <2>5. DMS!Pass
    BY <1>2, <2>3, <2>4 DEF DMS!Pass
  <2> QED BY <2>5 DEF DMS!Next
<1> QED BY <1>1, <1>2

(* A callback adopts a controller when there is none, releases the one     *)
(* there is, or changes nothing the switch can see.                        *)
LEMMA NotifySteps ==
  ASSUME LoopInv, LoopInv', Notify
  PROVE  [DMS!Next]_(DMS!dmsVars)
<1>0. age' = age /\ slot \in Slots
  BY DEF Notify, clock, LoopInv, TypeOK
<1>1. CASE OnConnected(slot) /\ slot \in seen \ prevSeen
  <2>1. CASE \/ ctlData[slot] \in Devices \ Gamepads
             \/ g_gamepad \in connected \cup {slot}
    BY <1>0, <1>1, <2>1, Unconcerned DEF OnConnected, sketch
  <2>2. CASE ~(\/ ctlData[slot] \in Devices \ Gamepads
               \/ g_gamepad \in connected \cup {slot})
    <3>1. g_gamepad = None
      BY <2>2 DEF LoopInv, ConnectedTracked
    <3>2. g_gamepad' = slot /\ out' = out
      BY <1>1, <2>2 DEF OnConnected
    <3>3. slot # None /\ Silence' \in 0 .. StaleBound + 1
      BY <1>0, <3>2 DEF Silence, LoopInv, TypeOK
    <3>4. DMS!Engage
      BY <1>0, <3>1, <3>2, <3>3, SilenceFacts DEF DMS!Engage
    <3> QED BY <3>4 DEF DMS!Next
  <2> QED BY <2>1, <2>2
<1>2. CASE OnDisconnected(slot) /\ slot \in prevSeen \ seen
  <2>1. CASE g_gamepad = slot
    <3>1. g_gamepad # None /\ g_gamepad' = None /\ out' = "failsafe"
      BY <1>0, <1>2, <2>1 DEF OnDisconnected
    <3>2. DMS!Disengage
      BY <3>1 DEF DMS!Disengage, Silence
    <3> QED BY <3>2 DEF DMS!Next
  <2>2. CASE g_gamepad # slot
    BY <1>0, <1>2, <2>2, Unconcerned DEF OnDisconnected, sketch
  <2> QED BY <2>1, <2>2
<1>3. CASE UNCHANGED sketch
  BY <1>0, <1>3, Unconcerned DEF sketch
<1> QED BY <1>1, <1>2, <1>3 DEF Notify

(* The control tick drives the outputs by a report read in this turn of    *)
(* loop(), stops them, or leaves them.                                     *)
LEMMA TickSteps ==
  ASSUME LoopInv, ControlTick
  PROVE  [DMS!Next]_(DMS!dmsVars)
<1>1. g_gamepad' = g_gamepad /\ age' = age /\ Silence' = Silence
  BY DEF ControlTick, clock, Silence
<1>2. CASE g_gamepad \in connected /\ g_gamepad \in hasData
  <2>1. g_gamepad \in Slots /\ g_gamepad # None
    BY <1>2 DEF LoopInv, TypeOK
  <2>2. age[g_gamepad] <= 2 * HandlerMax + LoopDelay
    BY <1>2, <2>1 DEF LoopInv, ConnectedTracked, ReadIsRecent, ControlTick
  <2>3. DMS!Drive
    BY <1>1, <1>2, <2>1, <2>2 DEF DMS!Drive, ControlTick, Silence, DriveBound
  <2> QED BY <2>3 DEF DMS!Next
<1>3. CASE ~(g_gamepad \in connected /\ g_gamepad \in hasData)
  <2>1. out' = "failsafe" \/ out' = out
    BY <1>3 DEF ControlTick
  <2> QED BY <1>1, <2>1 DEF DMS!Next, DMS!Stop, DMS!dmsVars
<1> QED BY <1>2, <1>3

(* Every step of the two tasks is a step of the dead man's switch.         *)
LEMMA DeadManStep ==
  LoopInv /\ LoopInv' /\ [Next]_vars => [DMS!Next]_(DMS!dmsVars)
<1> SUFFICES ASSUME LoopInv, LoopInv', [Next]_vars PROVE [DMS!Next]_(DMS!dmsVars)
  OBVIOUS
<1> USE DEF vars, shared, bt, bp32, sketch, clock
<1>1. ASSUME NEW d \in Devices, ControllerData(d) PROVE [DMS!Next]_(DMS!dmsVars)
  <2>1. /\ seat[d] \in Slots
        /\ age' = [age EXCEPT ![seat[d]] = 0]
        /\ g_gamepad' = g_gamepad /\ out' = out
    BY <1>1 DEF ControllerData, LoopInv, TypeOK
  <2>2. CASE g_gamepad = seat[d]
    <3>1. g_gamepad # None /\ Silence' = 0
      BY <2>1, <2>2 DEF Silence, LoopInv, TypeOK
    <3> QED BY <2>1, <3>1 DEF DMS!Hear, DMS!Next
  <2>3. CASE g_gamepad # seat[d]
    <3>1. Silence' = Silence
      BY <2>1, <2>3, SilenceFacts DEF Silence, LoopInv, TypeOK
    <3> QED BY <2>1, <3>1 DEF DMS!dmsVars
  <2> QED BY <2>2, <2>3
<1>2. ASSUME NEW d \in Devices, DeviceReady(d) \/ DisconnectBegin(d) \/ DisconnectEnd(d)
      PROVE [DMS!Next]_(DMS!dmsVars)
  BY <1>2, Unconcerned DEF DeviceReady, DisconnectBegin, DisconnectEnd
<1>3. CASE PollCheck \/ PollTake \/ ScanScheduler
  BY <1>3, Unconcerned DEF PollCheck, PollTake, ScanScheduler
<1>4. CASE Notify
  BY <1>4, NotifySteps
<1>5. CASE HandleClient
  <2>1. PICK d \in 0 .. HandlerMax : AdvanceClock(d)
    BY <1>5 DEF HandleClient
  <2>2. d \in Nat /\ d < Modulus /\ g_gamepad' = g_gamepad /\ out' \in {out, "failsafe"}
    BY <1>5 DEF HandleClient
  <2> QED BY <2>1, <2>2, TimePasses
<1>6. CASE ControlTick
  BY <1>6, TickSteps
<1>7. CASE Delay
  <2>1. AdvanceClock(LoopDelay) /\ g_gamepad' = g_gamepad /\ out' = out
    BY <1>7 DEF Delay
  <2>2. LoopDelay \in Nat /\ LoopDelay < Modulus
    OBVIOUS
  <2> QED BY <2>1, <2>2, TimePasses
<1>8. CASE UNCHANGED vars
  BY <1>8, Unconcerned
<1> QED BY <1>1, <1>2, <1>3, <1>4, <1>5, <1>6, <1>7, <1>8 DEF Next, BtTask, LoopTask

(* The two tasks together implement the dead man's switch, for every       *)
(* number of slots and devices and all times.                              *)
THEOREM DeadManRefined == Spec => ImplementsDeadMan
<1>1. Init => DMS!Init
  BY DEF Init, DMS!Init, Silence
<1> QED BY <1>1, DeadManStep, LoopInvariance, PTL DEF Spec, ImplementsDeadMan, DMS!Spec


-----------------------------------------------------------------------------
(* Slots and seats.                                                        *)

(* A slot being wiped still counts as in use: used_controllers_ is lowered *)
(* before arduino_on_device_disconnected frees the slot.                   *)
SeatsInv == SeatsAgree /\ (wiping # None => wiping \in inUse)

(* Sets of slots are finite, and counting them follows what is added and   *)
(* taken away.                                                             *)
LEMMA CountSlots ==
  ASSUME NEW S \in SUBSET Slots, NEW s \in Slots
  PROVE  /\ Cardinality(S) \in Nat
         /\ s \notin S => Cardinality(S \cup {s}) = Cardinality(S) + 1
         /\ s \in S => Cardinality(S \ {s}) = Cardinality(S) - 1
<1>1. IsFiniteSet(Slots)
  BY FS_Interval
<1>2. IsFiniteSet(S)
  BY <1>1, FS_Subset
<1>3. Cardinality(S) \in Nat
  BY <1>2, FS_CardinalityType
<1>4. s \notin S => Cardinality(S \cup {s}) = Cardinality(S) + 1
  BY <1>2, FS_AddElement
<1>5. s \in S => Cardinality(S \ {s}) = Cardinality(S) - 1
  BY <1>2, FS_RemoveElement
<1> QED BY <1>3, <1>4, <1>5

(* Every callback of the Bluetooth task keeps slots, seats and the counter *)
(* in step; the loop task touches none of them.                            *)
LEMMA SeatsInvStep == TypeOK /\ SeatsInv /\ [Next]_vars => SeatsInv'
<1> SUFFICES ASSUME TypeOK, SeatsInv, [Next]_vars PROVE SeatsInv'
  OBVIOUS
<1> USE DEF vars, shared, bt, bp32, sketch, clock
<1>0. inUse \in SUBSET Slots /\ seat \in [Devices -> Slots \cup {None}] /\ None \notin Slots
  BY DEF TypeOK
<1>1. ASSUME NEW d \in Devices, DeviceReady(d) PROVE SeatsInv'
  <2>1. PICK s \in Slots \ inUse : inUse' = inUse \cup {s} /\ seat' = [seat EXCEPT ![d] = s]
    BY <1>1 DEF DeviceReady
  <2>2. wiping = None /\ wiping' = None /\ usedControllers' = usedControllers + 1 /\ seat[d] = None
    BY <1>1 DEF DeviceReady
  <2>3. seat'[d] = s /\ \A e \in Devices \ {d} : seat'[e] = seat[e]
    BY <1>0, <2>1
  <2>4. \A e \in Devices : seat[e] # s
    BY <1>0, <2>1 DEF SeatsInv, SeatsAgree
  <2>5. \A e, f \in Devices : seat'[e] = seat'[f] /\ seat'[e] # None => e = f
    BY <2>3, <2>4 DEF SeatsInv, SeatsAgree
  <2>6. inUse' = {seat'[e] : e \in Devices} \ {None}
    <3>1. inUse = {seat[e] : e \in Devices} \ {None}
      BY DEF SeatsInv, SeatsAgree
    <3> QED BY <1>0, <2>1, <2>2, <2>3, <3>1
  <2>7. usedControllers' = Cardinality(inUse' \ {wiping'})
    <3>1. inUse \ {wiping} = inUse /\ inUse' \ {wiping'} = inUse \cup {s}
      BY <1>0, <2>1, <2>2
    <3>2. Cardinality(inUse \cup {s}) = Cardinality(inUse) + 1
      BY <1>0, <2>1, CountSlots
    <3> QED BY <2>2, <3>1, <3>2 DEF SeatsInv, SeatsAgree
  <2> QED BY <2>2, <2>5, <2>6, <2>7 DEF SeatsInv, SeatsAgree
<1>2. ASSUME NEW d \in Devices, ControllerData(d) PROVE SeatsInv'
  BY <1>2 DEF SeatsInv, SeatsAgree, ControllerData
<1>3. ASSUME NEW d \in Devices, DisconnectBegin(d) PROVE SeatsInv'
  <2>1. /\ wiping = None /\ seat[d] # None /\ wiping' = seat[d]
        /\ usedControllers' = usedControllers - 1 /\ UNCHANGED <<inUse, seat>>
    BY <1>3 DEF DisconnectBegin
  <2>2. seat[d] \in inUse /\ seat[d] \in Slots
    BY <1>0, <2>1 DEF SeatsInv, SeatsAgree
  <2>3. inUse \ {wiping} = inUse
    BY <1>0, <2>1
  <2>4. Cardinality(inUse \ {seat[d]}) = Cardinality(inUse) - 1
    BY <1>0, <2>2, CountSlots
  <2>5. usedControllers' = Cardinality(inUse' \ {wiping'})
    BY <2>1, <2>3, <2>4 DEF SeatsInv, SeatsAgree
  <2>6. /\ \A e, f \in Devices : seat'[e] = seat'[f] /\ seat'[e] # None => e = f
        /\ inUse' = {seat'[e] : e \in Devices} \ {None}
    BY <2>1, Zenon DEF SeatsInv, SeatsAgree
  <2>7. wiping' \in inUse'
    BY <2>1, <2>2
  <2> QED BY <2>5, <2>6, <2>7, Zenon DEF SeatsInv, SeatsAgree
<1>4. ASSUME NEW d \in Devices, DisconnectEnd(d) PROVE SeatsInv'
  <2>1. /\ wiping # None /\ seat[d] = wiping /\ inUse' = inUse \ {wiping}
        /\ seat' = [seat EXCEPT ![d] = None] /\ wiping' = None
        /\ usedControllers' = usedControllers
    BY <1>4 DEF DisconnectEnd
  <2>2. seat'[d] = None /\ \A e \in Devices \ {d} : seat'[e] = seat[e]
    BY <1>0, <2>1
  <2>3. \A e \in Devices \ {d} : seat[e] # wiping
    BY <2>1 DEF SeatsInv, SeatsAgree
  <2>4. \A e, f \in Devices : seat'[e] = seat'[f] /\ seat'[e] # None => e = f
    BY <2>2 DEF SeatsInv, SeatsAgree
  <2>5. inUse' = {seat'[e] : e \in Devices} \ {None}
    <3>1. inUse = {seat[e] : e \in Devices} \ {None}
      BY DEF SeatsInv, SeatsAgree
    <3> QED BY <2>1, <2>2, <2>3, <3>1
  <2>6. inUse' \ {wiping'} = inUse \ {wiping}
    BY <1>0, <2>1
  <2> QED BY <2>1, <2>4, <2>5, <2>6 DEF SeatsInv, SeatsAgree
<1>5. ASSUME LoopTask PROVE SeatsInv'
  <2>1. UNCHANGED <<inUse, seat, usedControllers, wiping>>
    BY <1>5 DEF LoopTask, PollCheck, PollTake, Notify, ScanScheduler, HandleClient, ControlTick,
                Delay
  <2> QED BY <2>1 DEF SeatsInv, SeatsAgree
<1>6. CASE UNCHANGED vars
  BY <1>6 DEF SeatsInv, SeatsAgree
<1> QED BY <1>1, <1>2, <1>3, <1>4, <1>5, <1>6 DEF Next, BtTask

(* No two devices share a slot of controllers_, a slot is in use exactly   *)
(* when a device sits there, and used_controllers_ counts them, at every   *)
(* point of a connect or disconnect callback.                              *)
THEOREM SeatsAlwaysAgree == Spec => []SeatsAgree
<1>1. Init => SeatsInv
  <2> SUFFICES ASSUME Init PROVE SeatsInv
    OBVIOUS
  <2>1. Cardinality({}) = 0
    BY FS_EmptySet
  <2>2. {seat[d] : d \in Devices} \ {None} = {}
    BY DEF Init
  <2> QED BY <2>1, <2>2 DEF Init, SeatsInv, SeatsAgree
<1>2. SeatsInv => SeatsAgree
  BY DEF SeatsInv
<1> QED BY <1>1, <1>2, TypeCorrect, SeatsInvStep, PTL DEF Spec


(* Once update() has looked at all slots, the outputs are live only if it  *)
(* found the slot of the adopted gamepad in use in this very turn.         *)
LiveWasSeen ==
    pc \in {"scan", "handle", "tick", "delay"} /\ out = "live" => g_gamepad \in seen

(* A lost link is noticed in the turn that looks, not some turns later:    *)
(* between the end of update() and the next turn, no handler and no        *)
(* control tick leaves the outputs live for a gamepad that update() missed *)
(* (the part of LinkLossReachesFailsafe that needs no fairness).           *)
THEOREM LossNoticedInTurn == Spec => []LiveWasSeen
<1>1. LoopInv => LiveWasSeen
  <2> SUFFICES ASSUME LoopInv, pc \in {"scan", "handle", "tick", "delay"}, out = "live"
               PROVE  g_gamepad \in seen
    BY DEF LiveWasSeen
  <2>1. g_gamepad # None
    BY SilenceFacts
  <2> QED BY <2>1 DEF LoopInv, ConnectedTracked
<1> QED BY <1>1, LoopInvariance, PTL
=============================================================================
