------------------------- MODULE RumbleQueueProofs -------------------------
(* Proofs about RumbleQueue, for any number of gamepads, slots and inputs, *)
(* any length of the queue, any gap between two rumbles and web requests   *)
(* of any duration.                                                        *)
EXTENDS RumbleQueue, SequenceTheorems, WellFoundedInduction,
        FiniteSetTheorems, TLAPS

USE RumbleQueueAssumption DEF btVars, loopVars, history, vars

(* A set of numbers with a member has a least one.                         *)
LEMMA LeastExists ==
  ASSUME NEW S \in SUBSET Nat, S # {}
  PROVE  \E p \in S : \A q \in S : p <= q
<1> DEFINE Less == OpToRel(<, Nat)
<1>1. \A p, q \in Nat : <<q, p>> \in Less <=> q < p
  BY DEF OpToRel
<1>2. IsWellFoundedOn(Less, Nat)
  BY NatLessThanWellFounded
<1> HIDE DEF Less
<1>3. PICK p \in S : \A q \in S : ~ (<<q, p>> \in Less)
  BY <1>2, WFMin
<1>4. \A q \in S : ~ (q < p)
  BY <1>1, <1>3, Zenon
<1>5. \A q \in S : p <= q
  BY <1>4
<1> QED BY <1>5

(* The state apart from the Boolean history.                               *)
Ranges ==
  /\ seat \in [Devices -> Slots \cup {None}]
  /\ updated \subseteq Slots
  /\ bt \in {"idle", "drain", "store"} /\ from \in Devices \cup {None}
  /\ pending_queue_ \in Seq(Requests) /\ Len(pending_queue_) <= QueueMax
  /\ phase \in {"update", "handle", "tick", "delay"}
  /\ input \in 1 .. NumInputs + 1
  /\ seen \subseteq Slots /\ hasData \subseteq Slots
  /\ g_gamepad \in Slots \cup {None}
  /\ sinceRumble \in [Inputs -> 0 .. RumbleGap]
  /\ laps \in 0 .. MaxLaps /\ heard \subseteq Devices
  /\ played \in [by : Devices \cup {None}, to : Devices \cup {None}]

(* The type invariant is the conjunction of these parts.                   *)
LEMMA TypeParts == TypeOK <=> Ranges /\ orderly \in BOOLEAN
  BY Zenon DEF TypeOK, Ranges

(* The same in the next state.                                             *)
LEMMA TypePartsPrimed == TypeOK' <=> Ranges' /\ orderly' \in BOOLEAN
  BY Zenon DEF TypeOK, Ranges

(* The history flag stays a Boolean.                                       *)
LEMMA OrderlyStep == orderly \in BOOLEAN /\ [Next]_vars => orderly' \in BOOLEAN
  BY Zenon DEF Next, DeviceReady, DeviceDisconnected, ControllerData, DrainOne, DrainEnd,
     StoreReport, Update, HandleClient, TickInput, TickEnd, Delay

(* The gamepad update() leaves adopted is a slot or none.                  *)
LEMMA AdoptedType ==
  ASSUME Ranges PROVE Adopted(InUse) \in Slots \cup {None}
<1> DEFINE joined == IF g_gamepad \in InUse THEN {}
                     ELSE {s \in InUse \ seen : g_gamepad = None \/ s > g_gamepad}
<1>1. InUse \subseteq Slots
  BY DEF InUse, Ranges
<1>2. joined \in SUBSET Slots /\ joined \in SUBSET Nat
  <2>1. joined \subseteq InUse
    OBVIOUS
  <2>2. Slots \subseteq Nat
    BY DEF Slots
  <2> HIDE DEF joined
  <2> QED BY <1>1, <2>1, <2>2
<1>3. ASSUME joined # {} PROVE (CHOOSE s \in joined : \A r \in joined : s <= r) \in joined
  <2>1. \E s \in joined : \A r \in joined : s <= r
    BY <1>2, <1>3, LeastExists
  <2> QED BY <2>1
<1>4. \/ Adopted(InUse) = g_gamepad /\ g_gamepad \in InUse
      \/ Adopted(InUse) = None
      \/ joined # {} /\ Adopted(InUse) = CHOOSE s \in joined : \A r \in joined : s <= r
  BY Zenon DEF Adopted
<1> HIDE DEF joined
<1> QED BY <1>1, <1>2, <1>3, <1>4

(* A request is taken from the front.                                      *)
LEMMA TailWaits ==
  ASSUME Ranges, pending_queue_ # <<>>, pending_queue_' = Tail(pending_queue_)
  PROVE  /\ pending_queue_' \in Seq(Requests) /\ Len(pending_queue_') = Len(pending_queue_) - 1
         /\ Len(pending_queue_) \in Nat \ {0}
         /\ DOMAIN pending_queue_' = 1 .. Len(pending_queue_) - 1
         /\ DOMAIN pending_queue_ = 1 .. Len(pending_queue_)
         /\ \A k \in DOMAIN pending_queue_' : /\ k + 1 \in DOMAIN pending_queue_
                                              /\ pending_queue_'[k] = pending_queue_[k + 1]
         /\ Waiting' \subseteq Waiting
         /\ Head(pending_queue_) \in Requests /\ Head(pending_queue_) \in Waiting
<1>1. /\ pending_queue_ \in Seq(Requests) /\ Len(pending_queue_) \in Nat \ {0}
      /\ DOMAIN pending_queue_ = 1 .. Len(pending_queue_)
      /\ Head(pending_queue_) = pending_queue_[1] /\ pending_queue_[1] \in Requests
  BY EmptySeq DEF Ranges
<1>2. /\ Tail(pending_queue_) \in Seq(Requests)
      /\ Len(Tail(pending_queue_)) = Len(pending_queue_) - 1
      /\ \A k \in 1 .. Len(pending_queue_) - 1 : Tail(pending_queue_)[k] = pending_queue_[k + 1]
  BY <1>1, HeadTailProperties
<1>3. DOMAIN pending_queue_' = 1 .. Len(pending_queue_) - 1
  BY <1>2, LenProperties
<1>4. \A k \in DOMAIN pending_queue_' : /\ k + 1 \in DOMAIN pending_queue_
                                        /\ pending_queue_'[k] = pending_queue_[k + 1]
  BY <1>1, <1>2, <1>3
<1>5. Waiting' \subseteq Waiting
  BY <1>4 DEF Waiting
<1>6. Head(pending_queue_) \in Waiting
  BY <1>1 DEF Waiting
<1> QED BY <1>1, <1>2, <1>3, <1>4, <1>5, <1>6

(* A request is added at the end.                                          *)
LEMMA AppendWaits ==
  ASSUME Ranges, NEW r \in Requests, pending_queue_' = Append(pending_queue_, r)
  PROVE  /\ pending_queue_' \in Seq(Requests) /\ Len(pending_queue_') = Len(pending_queue_) + 1
         /\ Len(pending_queue_) \in Nat
         /\ DOMAIN pending_queue_' = 1 .. Len(pending_queue_) + 1
         /\ DOMAIN pending_queue_ = 1 .. Len(pending_queue_)
         /\ \A k \in DOMAIN pending_queue_ : pending_queue_'[k] = pending_queue_[k]
         /\ pending_queue_'[Len(pending_queue_) + 1] = r
         /\ Waiting' = Waiting \cup {r}
<1>1. /\ pending_queue_ \in Seq(Requests) /\ Len(pending_queue_) \in Nat
      /\ DOMAIN pending_queue_ = 1 .. Len(pending_queue_)
  BY DEF Ranges
<1>2. /\ pending_queue_' \in Seq(Requests) /\ Len(pending_queue_') = Len(pending_queue_) + 1
      /\ \A k \in 1 .. Len(pending_queue_) : pending_queue_'[k] = pending_queue_[k]
      /\ pending_queue_'[Len(pending_queue_) + 1] = r
  BY <1>1, AppendProperties
<1>3. DOMAIN pending_queue_' = 1 .. Len(pending_queue_) + 1
  BY <1>2, LenProperties
<1>4. Waiting' = Waiting \cup {r}
  <2>1. ASSUME NEW k \in DOMAIN pending_queue_' PROVE pending_queue_'[k] \in Waiting \cup {r}
    <3>1. k \in 1 .. Len(pending_queue_) \/ k = Len(pending_queue_) + 1
      BY <1>1, <1>3
    <3> QED BY <1>1, <1>2, <3>1 DEF Waiting
  <2>2. ASSUME NEW k \in DOMAIN pending_queue_
        PROVE  k \in DOMAIN pending_queue_' /\ pending_queue_'[k] = pending_queue_[k]
    BY <1>1, <1>2, <1>3
  <2>3. Len(pending_queue_) + 1 \in DOMAIN pending_queue_'
    BY <1>1, <1>3
  <2> QED BY <1>2, <2>1, <2>2, <2>3 DEF Waiting
<1> QED BY <1>1, <1>2, <1>3, <1>4

(* Later keeps each time within the gap, and moves it by the given amount. *)
LEMMA LaterBound ==
  ASSUME Ranges, NEW t \in Nat
  PROVE  /\ Later(t) \in [Inputs -> 0 .. RumbleGap]
         /\ \A i \in Inputs : Later(t)[i] <= sinceRumble[i] + t
  BY DEF Ranges, Later

(* What one request and its answer do to the queue and the times.          *)
LEMMA RumbleStep ==
  ASSUME Ranges, phase = "tick", input \in Inputs, g_gamepad \in hasData,
         MayRumble(input), PlayInputRumble(input)
  PROVE  /\ sinceRumble' = [sinceRumble EXCEPT ![input] = 0]
         /\ \/ pending_queue_' = pending_queue_
            \/ \E d \in Devices :
                 /\ seat[d] = g_gamepad /\ Len(pending_queue_) < QueueMax
                 /\ [slot |-> g_gamepad, input |-> input, to |-> d, lap |-> laps] \in Requests
                 /\ pending_queue_' =
                      Append(pending_queue_, [slot |-> g_gamepad, input |-> input, to |-> d, lap |-> laps])
<1>1. g_gamepad \in Slots /\ laps \in 0 .. MaxLaps
  BY DEF Ranges
<1>2. \A d \in Devices : [slot |-> g_gamepad, input |-> input, to |-> d, lap |-> laps] \in Requests
  BY <1>1 DEF Requests
<1> QED BY <1>2 DEF PlayInputRumble, SendToBack, Seated

(* The ranges survive every step.                                          *)
LEMMA RangesStep ==
  ASSUME Ranges, SeatsHeld, LapsBounded, [Next]_vars PROVE Ranges'
<1>1. ASSUME NEW d \in Devices, DeviceReady(d) PROVE Ranges'
  BY <1>1 DEF DeviceReady, Ranges
<1>2. ASSUME NEW d \in Devices, DeviceDisconnected(d) PROVE Ranges'
  BY <1>2 DEF DeviceDisconnected, Ranges
<1>3. ASSUME NEW d \in Devices, ControllerData(d) PROVE Ranges'
  BY <1>3 DEF ControllerData, Ranges
<1>4. CASE DrainOne
  <2>1. /\ pending_queue_' \in Seq(Requests) /\ Len(pending_queue_') <= QueueMax
        /\ Head(pending_queue_).to \in Devices
    <3>1. pending_queue_ # <<>> /\ pending_queue_' = Tail(pending_queue_)
      BY <1>4 DEF DrainOne
    <3>2. /\ pending_queue_' \in Seq(Requests) /\ Len(pending_queue_') = Len(pending_queue_) - 1
          /\ Len(pending_queue_) \in Nat \ {0} /\ Head(pending_queue_) \in Requests
      BY <3>1, TailWaits
    <3> QED BY <3>2 DEF Ranges, Requests
  <2>2. played' \in [by : Devices \cup {None}, to : Devices \cup {None}]
    BY <1>4, <2>1 DEF DrainOne, Seated, Ranges, NotPlayed
  <2>3. bt' \in {"drain", "store"} /\ laps' \in {laps, 0}
    BY <1>4 DEF DrainOne
  <2> QED BY <1>4, <2>1, <2>2, <2>3 DEF DrainOne, Ranges, MaxLaps
<1>5. CASE DrainEnd
  BY <1>5 DEF DrainEnd, Ranges, NotPlayed, MaxLaps
<1>6. CASE StoreReport
  BY <1>6 DEF StoreReport, Ranges, SeatsHeld
<1>7. CASE Update
  <2>1. InUse \subseteq Slots
    BY DEF InUse, Ranges
  <2> QED BY <1>7, <2>1, AdoptedType DEF Update, Ranges
<1>8. CASE HandleClient
  <2>1. sinceRumble' \in [Inputs -> 0 .. RumbleGap]
    <3>1. ASSUME NEW t \in 0 .. RumbleGap PROVE Later(t) \in [Inputs -> 0 .. RumbleGap]
      <4>1. t \in Nat
        OBVIOUS
      <4> QED BY <4>1, LaterBound
    <3>2. \A S \in SUBSET Inputs :
            [i \in Inputs |-> IF i \in S THEN RumbleGap ELSE sinceRumble[i]]
              \in [Inputs -> 0 .. RumbleGap]
      BY DEF Ranges
    <3> QED BY <1>8, <3>1, <3>2 DEF HandleClient
  <2> QED BY <1>8, <2>1 DEF HandleClient, Ranges
<1>9. CASE TickInput
  <2>1. /\ pending_queue_' \in Seq(Requests) /\ Len(pending_queue_') <= QueueMax
        /\ sinceRumble' \in [Inputs -> 0 .. RumbleGap]
    <3>1. CASE MayRumble(input) /\ PlayInputRumble(input)
      <4>1. sinceRumble' \in [Inputs -> 0 .. RumbleGap]
        BY <1>9, <3>1, RumbleStep DEF TickInput, Ranges
      <4>2. CASE pending_queue_' = pending_queue_
        BY <4>1, <4>2 DEF Ranges
      <4>3. CASE \E r \in Requests : /\ Len(pending_queue_) < QueueMax
                                     /\ pending_queue_' = Append(pending_queue_, r)
        <5>1. PICK r \in Requests : /\ Len(pending_queue_) < QueueMax
                                    /\ pending_queue_' = Append(pending_queue_, r)
          BY <4>3
        <5>2. /\ pending_queue_' \in Seq(Requests)
              /\ Len(pending_queue_') = Len(pending_queue_) + 1 /\ Len(pending_queue_) \in Nat
          BY <5>1, AppendWaits
        <5> QED BY <4>1, <5>1, <5>2
      <4> QED BY <1>9, <3>1, <4>2, <4>3, RumbleStep DEF TickInput
    <3> QED BY <1>9, <3>1 DEF TickInput, Ranges
  <2> QED BY <1>9, <2>1 DEF TickInput, Ranges, Inputs
<1>10. CASE TickEnd
  <2>1. laps' \in 0 .. MaxLaps
    BY <1>10 DEF TickEnd, Ranges, LapsBounded, One, MaxLaps
  <2> QED BY <1>10, <2>1 DEF TickEnd, Ranges
<1>11. CASE Delay
  BY <1>11, LaterBound DEF Delay, Ranges
<1>12. CASE UNCHANGED vars
  BY <1>12 DEF Ranges
<1> QED BY <1>1, <1>2, <1>3, <1>4, <1>5, <1>6, <1>7, <1>8, <1>9, <1>10, <1>11, <1>12 DEF Next

(* A slot keeps one device, and whoever has reported keeps its slot.       *)
LEMMA SeatsHeldStep ==
  ASSUME Ranges, SeatsHeld, [Next]_vars PROVE SeatsHeld'
<1>1. ASSUME NEW d \in Devices, DeviceReady(d) PROVE SeatsHeld'
  <2>1. PICK s \in Slots \ InUse : seat' = [seat EXCEPT ![d] = s]
    BY <1>1 DEF DeviceReady
  <2>2. s # None /\ \A e \in Devices : seat[e] # s
    BY <2>1 DEF InUse, Slots
  <2> QED BY <1>1, <2>1, <2>2 DEF DeviceReady, SeatsHeld, Ranges
<1>2. ASSUME NEW d \in Devices, DeviceDisconnected(d) PROVE SeatsHeld'
  BY <1>2 DEF DeviceDisconnected, SeatsHeld, Ranges
<1>3. ASSUME NEW d \in Devices, ControllerData(d) PROVE SeatsHeld'
  BY <1>3 DEF ControllerData, SeatsHeld
<1>4. CASE DrainOne \/ DrainEnd
  BY <1>4 DEF DrainOne, DrainEnd, SeatsHeld
<1>5. CASE StoreReport
  BY <1>5 DEF StoreReport, SeatsHeld
<1>6. CASE Update \/ HandleClient \/ TickInput \/ TickEnd \/ Delay \/ UNCHANGED vars
  BY <1>6 DEF Update, HandleClient, TickInput, TickEnd, Delay, SeatsHeld
<1> QED BY <1>1, <1>2, <1>3, <1>4, <1>5, <1>6 DEF Next

(* The steps that leave the queue and what is known of its age alone.      *)
QueueIdle ==
  UNCHANGED <<pending_queue_, orderly, laps, phase, input, hasData, g_gamepad>>

(* Every waiting request is a request.                                     *)
LEMMA WaitingType == ASSUME Ranges PROVE Waiting \subseteq Requests
  BY DEF Ranges, Waiting

(* What is new in the queue after a tick has looked at an input is a       *)
(* request of that input, for the device in the adopted slot.              *)
LEMMA TickAsks ==
  ASSUME Ranges, TickInput, NEW r \in Waiting'
  PROVE  \/ r \in Waiting
         \/ /\ r.input = input /\ r.lap = laps
            /\ r.to \in Devices /\ seat[r.to] = r.slot /\ r.slot # None
<1>1. CASE pending_queue_' = pending_queue_
  BY <1>1 DEF Waiting
<1>2. CASE pending_queue_' # pending_queue_
  <2>1. /\ phase = "tick" /\ input \in Inputs /\ g_gamepad \in hasData
        /\ MayRumble(input) /\ PlayInputRumble(input)
    BY <1>2 DEF TickInput
  <2>2. PICK d \in Devices :
          /\ seat[d] = g_gamepad
          /\ [slot |-> g_gamepad, input |-> input, to |-> d, lap |-> laps] \in Requests
          /\ pending_queue_' =
               Append(pending_queue_, [slot |-> g_gamepad, input |-> input, to |-> d, lap |-> laps])
    BY <1>2, <2>1, RumbleStep
  <2>3. Waiting' = Waiting \cup {[slot |-> g_gamepad, input |-> input, to |-> d, lap |-> laps]}
    BY <2>2, AppendWaits
  <2>4. g_gamepad # None
    BY <2>1 DEF Ranges
  <2> QED BY <2>2, <2>3, <2>4
<1> QED BY <1>1, <1>2

(* Every tick that asks uses up a report, and a report is stored only      *)
(* after the queue was emptied.                                            *)
LEMMA LapsBoundedStep ==
  ASSUME Ranges, LapsBounded, [Next]_vars PROVE LapsBounded'
<1> USE DEF One, MaxLaps, LapsBounded
<1>1. ASSUME NEW d \in Devices, DeviceReady(d) \/ DeviceDisconnected(d) \/ ControllerData(d)
      PROVE  LapsBounded'
  <2>1. /\ QueueIdle /\ updated' \subseteq updated
        /\ bt = "idle" /\ bt' \in {"idle", "drain"}
    BY <1>1 DEF DeviceReady, DeviceDisconnected, ControllerData, QueueIdle
  <2> QED BY <2>1 DEF QueueIdle, Ranges
<1>2. CASE DrainOne
  <2>1. orderly' => orderly /\ UNCHANGED <<bt, laps, updated, phase, hasData>>
    BY <1>2 DEF DrainOne
  <2> QED BY <2>1
<1>3. CASE DrainEnd
  BY <1>3 DEF DrainEnd
<1>4. CASE StoreReport
  <2>1. bt = "store" /\ bt' = "idle" /\ QueueIdle
    BY <1>4 DEF StoreReport, QueueIdle
  <2> QED BY <2>1 DEF QueueIdle, Ranges
<1>5. CASE Update
  <2>1. /\ phase = "update" /\ phase' = "handle" /\ hasData' = updated /\ updated' = {}
        /\ UNCHANGED <<laps, bt, orderly>>
    BY <1>5 DEF Update
  <2> QED BY <2>1 DEF Ranges
<1>6. CASE HandleClient \/ TickInput
  <2>1. /\ phase \in {"handle", "tick"} /\ phase' = "tick"
        /\ UNCHANGED <<laps, bt, orderly, hasData, updated>>
    BY <1>6 DEF HandleClient, TickInput
  <2> QED BY <2>1 DEF Ranges
<1>7. CASE TickEnd
  <2>1. /\ phase = "tick" /\ phase' = "delay"
        /\ laps' = laps \/ (laps' = laps + 1 /\ hasData # {})
        /\ UNCHANGED <<bt, orderly, hasData, updated>>
    BY <1>7 DEF TickEnd
  <2> QED BY <2>1 DEF Ranges
<1>8. CASE Delay
  <2>1. /\ phase = "delay" /\ phase' = "update"
        /\ UNCHANGED <<laps, bt, orderly, hasData, updated>>
    BY <1>8 DEF Delay
  <2> QED BY <2>1 DEF Ranges
<1>9. CASE UNCHANGED vars
  BY <1>9
<1> QED BY <1>1, <1>2, <1>3, <1>4, <1>5, <1>6, <1>7, <1>8, <1>9 DEF Next

(* LapsInOrder, for one request.                                           *)
LEMMA LapMeans ==
  ASSUME LapsInOrder, orderly, NEW r \in Waiting
  PROVE  \/ r.lap < laps
         \/ r.lap = laps /\ phase = "tick" /\ g_gamepad \in hasData /\ r.input < input
  BY Zenon DEF LapsInOrder

(* What waits is of earlier laps, or of an earlier input of this one.      *)
LEMMA LapsInOrderStep ==
  ASSUME Ranges, LapsInOrder, [Next]_vars PROVE LapsInOrder'
<1>0. \A r \in Waiting : r.lap \in 0 .. MaxLaps /\ r.input \in Inputs
  BY WaitingType DEF Requests
<1>1. CASE QueueIdle
  BY <1>1 DEF QueueIdle, LapsInOrder, Waiting
<1>2. CASE DrainOne
  <2>1. Waiting' \subseteq Waiting
    BY <1>2, TailWaits DEF DrainOne
  <2>2. orderly' => orderly /\ UNCHANGED <<laps, phase, hasData, g_gamepad, input>>
    BY <1>2 DEF DrainOne
  <2> QED BY <2>1, <2>2 DEF LapsInOrder
<1>3. CASE DrainEnd
  <2>1. Waiting' = {}
    BY <1>3 DEF DrainEnd, Waiting
  <2> QED BY <2>1 DEF LapsInOrder
<1>4. CASE Update \/ HandleClient \/ Delay
  <2>1. /\ phase # "tick" /\ Waiting' = Waiting /\ UNCHANGED <<laps, orderly>>
    BY <1>4 DEF Update, HandleClient, Delay, Waiting
  <2>2. ASSUME orderly, NEW r \in Waiting PROVE r.lap < laps
    BY <2>1, <2>2, LapMeans
  <2> QED BY <2>1, <2>2 DEF LapsInOrder
<1>5. CASE TickInput
  <2>1. /\ phase = "tick" /\ g_gamepad \in hasData /\ input' = input + 1 /\ input \in Inputs
        /\ UNCHANGED <<phase, g_gamepad, hasData, laps, orderly>>
    BY <1>5 DEF TickInput
  <2>2. SUFFICES ASSUME orderly, NEW r \in Waiting'
                 PROVE  r.lap < laps \/ (r.lap = laps /\ r.input < input + 1)
    BY <2>1 DEF LapsInOrder
  <2>3. CASE r \in Waiting
    BY <1>0, <2>1, <2>2, <2>3, LapMeans DEF Inputs
  <2>4. CASE r.input = input /\ r.lap = laps
    BY <2>1, <2>4 DEF Inputs
  <2> QED BY <1>5, <2>3, <2>4, TickAsks
<1>6. CASE TickEnd
  <2>1. /\ Waiting' = Waiting /\ UNCHANGED <<orderly, g_gamepad, hasData>>
        /\ orderly => laps' = IF g_gamepad \in hasData THEN laps + 1 ELSE laps
    BY <1>6 DEF TickEnd, Waiting
  <2>2. ASSUME orderly, NEW r \in Waiting PROVE r.lap < laps'
    <3>1. r.lap < laps \/ (r.lap = laps /\ g_gamepad \in hasData)
      BY <2>2, LapMeans
    <3> QED BY <1>0, <2>1, <2>2, <3>1 DEF Ranges
  <2> QED BY <2>1, <2>2 DEF LapsInOrder
<1>7. ASSUME ~ DrainOne, ~ DrainEnd, ~ Update, ~ HandleClient, ~ TickInput, ~ TickEnd, ~ Delay
      PROVE  QueueIdle
  BY <1>7 DEF Next, DeviceReady, DeviceDisconnected, ControllerData, StoreReport, QueueIdle
<1> QED BY <1>1, <1>2, <1>3, <1>4, <1>5, <1>6, <1>7

(* OncePerLap, for two requests.                                           *)
LEMMA OnceMeans ==
  ASSUME OncePerLap, orderly, NEW j \in DOMAIN pending_queue_, NEW k \in DOMAIN pending_queue_,
         pending_queue_[j].input = pending_queue_[k].input,
         pending_queue_[j].lap = pending_queue_[k].lap
  PROVE  j = k
  BY Zenon DEF OncePerLap

(* No step gives an input a second request of the same lap.                *)
LEMMA OncePerLapStep ==
  ASSUME Ranges, LapsInOrder, OncePerLap, [Next]_vars PROVE OncePerLap'
<1>1. CASE UNCHANGED pending_queue_ /\ (orderly' => orderly)
  BY <1>1 DEF OncePerLap
<1>2. CASE DrainOne
  <2>1. pending_queue_ # <<>> /\ pending_queue_' = Tail(pending_queue_) /\ (orderly' => orderly)
    BY <1>2 DEF DrainOne
  <2>2. /\ DOMAIN pending_queue_' = 1 .. Len(pending_queue_) - 1
        /\ Len(pending_queue_) \in Nat
        /\ \A k \in DOMAIN pending_queue_' : /\ k + 1 \in DOMAIN pending_queue_
                                             /\ pending_queue_'[k] = pending_queue_[k + 1]
    BY <2>1, TailWaits
  <2>3. SUFFICES ASSUME orderly, NEW j \in DOMAIN pending_queue_', NEW k \in DOMAIN pending_queue_',
                        pending_queue_'[j].input = pending_queue_'[k].input,
                        pending_queue_'[j].lap = pending_queue_'[k].lap
                 PROVE  j = k
    BY <2>1 DEF OncePerLap
  <2>4. j + 1 = k + 1
    BY <2>2, <2>3, OnceMeans
  <2> QED BY <2>2, <2>4
<1>3. CASE DrainEnd
  <2>1. pending_queue_' = <<>>
    BY <1>3 DEF DrainEnd
  <2> QED BY <2>1 DEF OncePerLap
<1>4. CASE TickInput /\ pending_queue_' # pending_queue_
  <2>1. /\ phase = "tick" /\ input \in Inputs /\ g_gamepad \in hasData
        /\ MayRumble(input) /\ PlayInputRumble(input) /\ orderly' = orderly
    BY <1>4 DEF TickInput
  <2>2. PICK r \in Requests : /\ pending_queue_' = Append(pending_queue_, r)
                              /\ r.input = input /\ r.lap = laps
    BY <1>4, <2>1, RumbleStep
  <2>3. /\ DOMAIN pending_queue_' = 1 .. Len(pending_queue_) + 1
        /\ DOMAIN pending_queue_ = 1 .. Len(pending_queue_)
        /\ Len(pending_queue_) \in Nat
        /\ \A k \in DOMAIN pending_queue_ : pending_queue_'[k] = pending_queue_[k]
        /\ pending_queue_'[Len(pending_queue_) + 1] = r
    BY <2>2, AppendWaits
  <2>4. SUFFICES ASSUME orderly, NEW j \in DOMAIN pending_queue_',
                        NEW k \in DOMAIN pending_queue_',
                        pending_queue_'[j].input = pending_queue_'[k].input,
                        pending_queue_'[j].lap = pending_queue_'[k].lap
                 PROVE  j = k
    BY <2>1 DEF OncePerLap
  <2>5. ASSUME NEW m \in DOMAIN pending_queue_
        PROVE  ~ (pending_queue_[m].input = input /\ pending_queue_[m].lap = laps)
    <3>1. pending_queue_[m] \in Waiting
      BY DEF Waiting
    <3>2. \/ pending_queue_[m].lap < laps
          \/ pending_queue_[m].input < input
      BY <2>4, <3>1, LapMeans
    <3> QED BY <2>1, <3>2 DEF Ranges, Inputs
  <2>6. /\ j \in DOMAIN pending_queue_ \/ j = Len(pending_queue_) + 1
        /\ k \in DOMAIN pending_queue_ \/ k = Len(pending_queue_) + 1
    BY <2>3
  <2>7. CASE j \in DOMAIN pending_queue_ /\ k \in DOMAIN pending_queue_
    BY <2>3, <2>4, <2>7, OnceMeans
  <2> QED BY <2>2, <2>3, <2>4, <2>5, <2>6, <2>7
<1>5. ASSUME ~ DrainOne, ~ DrainEnd, ~ (TickInput /\ pending_queue_' # pending_queue_)
      PROVE  UNCHANGED pending_queue_ /\ (orderly' => orderly)
  BY <1>5 DEF Next, DeviceReady, DeviceDisconnected, ControllerData, StoreReport, Update,
     HandleClient, TickInput, TickEnd, Delay
<1> QED BY <1>1, <1>2, <1>3, <1>4, <1>5

(* A request that waits for the slot of a device that has reported is for  *)
(* that device.                                                            *)
LEMMA MeantForPlayerStep ==
  ASSUME Ranges, SeatsHeld, MeantForPlayer, [Next]_vars PROVE MeantForPlayer'
<1>1. ASSUME NEW d \in Devices, DeviceReady(d) PROVE MeantForPlayer'
  <2>1. /\ d \notin heard /\ bt = "idle"
        /\ QueueIdle /\ heard' = heard /\ bt' = bt
        /\ \A e \in Devices \ {d} : seat'[e] = seat[e]
    BY <1>1 DEF DeviceReady, QueueIdle, SeatsHeld, Ranges
  <2> QED BY <2>1 DEF MeantForPlayer, Seated, Waiting, QueueIdle
<1>2. ASSUME NEW d \in Devices, DeviceDisconnected(d) PROVE MeantForPlayer'
  <2>1. /\ QueueIdle /\ heard' = heard \ {d} /\ bt = "idle" /\ bt' = bt
        /\ \A e \in Devices \ {d} : seat'[e] = seat[e]
    BY <1>2 DEF DeviceDisconnected, QueueIdle, Ranges
  <2> QED BY <2>1 DEF MeantForPlayer, Seated, Waiting, QueueIdle
<1>3. ASSUME NEW d \in Devices, ControllerData(d) PROVE MeantForPlayer'
  BY <1>3 DEF ControllerData, MeantForPlayer, Seated, Waiting
<1>4. CASE DrainOne
  <2>1. Waiting' \subseteq Waiting
    BY <1>4, TailWaits DEF DrainOne
  <2>2. orderly' => orderly /\ bt' = bt
    BY <1>4 DEF DrainOne
  <2>3. seat' = seat /\ heard' = heard
    BY <1>4 DEF DrainOne
  <2> QED BY <2>1, <2>2, <2>3 DEF MeantForPlayer, Seated
<1>5. CASE DrainEnd
  <2>1. Waiting' = {}
    BY <1>5 DEF DrainEnd, Waiting
  <2> QED BY <2>1 DEF MeantForPlayer
<1>6. CASE StoreReport
  BY <1>6 DEF StoreReport, MeantForPlayer, Seated, Waiting
<1>7. CASE Update \/ HandleClient \/ TickEnd \/ Delay \/ UNCHANGED vars
  <2>1. /\ orderly' => orderly
        /\ UNCHANGED <<seat, heard, bt, pending_queue_>>
    BY <1>7 DEF Update, HandleClient, TickEnd, Delay
  <2> QED BY <2>1 DEF MeantForPlayer, Seated, Waiting
<1>8. CASE TickInput
  <2>1. /\ orderly' => orderly
        /\ UNCHANGED <<seat, heard, bt>>
    BY <1>8 DEF TickInput
  <2>2. ASSUME NEW r \in Waiting', r \notin Waiting, NEW d \in Devices, seat[d] = r.slot
        PROVE  r.to = d
    BY <1>8, <2>2, TickAsks DEF SeatsHeld
  <2> QED BY <2>1, <2>2 DEF MeantForPlayer, Seated
<1> QED BY <1>1, <1>2, <1>3, <1>4, <1>5, <1>6, <1>7, <1>8 DEF Next

-----------------------------------------------------------------------------
(* The state at start-up satisfies the invariant.                          *)
LEMMA RumbleInit == Init => RumbleInv
<1> SUFFICES ASSUME Init PROVE RumbleInv
  OBVIOUS
<1>1. Ranges
  BY DEF Init, Ranges, NotPlayed, Inputs, Slots, MaxLaps
<1>2. orderly \in BOOLEAN
  BY Zenon DEF Init
<1>3. Waiting = {} /\ SeatsHeld
  BY DEF Init, Waiting, SeatsHeld
<1>4. OncePerLap
  BY DEF Init, OncePerLap
<1>5. LapsInOrder /\ MeantForPlayer
  BY <1>3 DEF LapsInOrder, MeantForPlayer
<1>6. LapsBounded
  BY DEF Init, LapsBounded, One, MaxLaps
<1> QED BY <1>1, <1>2, <1>3, <1>4, <1>5, <1>6, TypeParts DEF RumbleInv

(* Every step keeps the invariant.                                         *)
LEMMA RumbleNext == RumbleInv /\ [Next]_vars => RumbleInv'
<1> SUFFICES ASSUME RumbleInv, [Next]_vars PROVE RumbleInv'
  OBVIOUS
<1>1. /\ Ranges /\ orderly \in BOOLEAN
      /\ SeatsHeld /\ MeantForPlayer /\ LapsBounded /\ LapsInOrder /\ OncePerLap
  BY TypeParts, Zenon DEF RumbleInv
<1>2. Ranges'
  BY <1>1, RangesStep
<1>3. orderly' \in BOOLEAN
  BY <1>1, OrderlyStep
<1>4. SeatsHeld' /\ MeantForPlayer'
  BY <1>1, SeatsHeldStep, MeantForPlayerStep
<1>5. LapsBounded' /\ LapsInOrder' /\ OncePerLap'
  BY <1>1, LapsBoundedStep, LapsInOrderStep, OncePerLapStep
<1> QED BY <1>2, <1>3, <1>4, <1>5, TypePartsPrimed, Zenon DEF RumbleInv

(* The inductive invariant of the queue holds in every state: whatever the *)
(* handlers take and however callbacks and ticks interleave.               *)
THEOREM RumbleInvariance == Spec => []RumbleInv
  BY RumbleInit, RumbleNext, PTL DEF Spec

(* There are three laps.                                                   *)
LEMMA LapCount ==
  IsFiniteSet(0 .. MaxLaps - 1) /\ Cardinality(0 .. MaxLaps - 1) = MaxLaps
<1>1. 0 .. MaxLaps - 1 = 0 .. 2 /\ MaxLaps = 3 /\ 0 \in Int /\ 2 \in Int
  BY DEF MaxLaps
<1>2. IsFiniteSet(0 .. 2) /\ Cardinality(0 .. 2) = IF 0 > 2 THEN 0 ELSE 2 - 0 + 1
  BY <1>1, FS_Interval, Zenon
<1>3. (IF 0 > 2 THEN 0 ELSE 2 - 0 + 1) = 3
  OBVIOUS
<1> QED BY <1>1, <1>2, <1>3, Zenon

(* The first n numbers.                                                    *)
LEMMA FirstNumbers ==
  ASSUME NEW n \in Nat PROVE IsFiniteSet(1 .. n) /\ Cardinality(1 .. n) = n
<1>1. 1 \in Int /\ n \in Int
  OBVIOUS
<1>2. IsFiniteSet(1 .. n) /\ Cardinality(1 .. n) = IF 1 > n THEN 0 ELSE n - 1 + 1
  BY <1>1, FS_Interval, Zenon
<1>3. (IF 1 > n THEN 0 ELSE n - 1 + 1) = n
  OBVIOUS
<1> QED BY <1>2, <1>3

(* What waits while no drain was cut short has a lap of the three.         *)
LEMMA LapRange ==
  ASSUME RumbleInv, orderly, NEW r \in Waiting PROVE r.lap \in 0 .. MaxLaps - 1
<1>1. Ranges /\ LapsBounded /\ LapsInOrder
  BY TypeParts, Zenon DEF RumbleInv
<1>2. r.lap \in 0 .. MaxLaps
  BY <1>1, WaitingType DEF Requests
<1>3. \/ r.lap < laps
      \/ r.lap = laps /\ phase = "tick" /\ hasData # {}
  BY <1>1, LapMeans
<1> QED BY <1>1, <1>2, <1>3 DEF Ranges, LapsBounded, One, MaxLaps

(* No input has more than three requests waiting, while no drain was cut   *)
(* short at an empty slot: one of the tick that runs while the queue is    *)
(* emptied, one driven by the report stored before, one by the report      *)
(* stored after.  No assumption about the length of a turn is needed.      *)
THEOREM FewRequestsPerInput == Spec => []FewPerInput
<1>1. RumbleInv => FewPerInput
  <2> SUFFICES ASSUME RumbleInv, orderly, NEW i \in Inputs
               PROVE  Cardinality({k \in DOMAIN pending_queue_ : pending_queue_[k].input = i})
                        <= MaxLaps
    BY DEF FewPerInput
  <2> DEFINE mine == {k \in DOMAIN pending_queue_ : pending_queue_[k].input = i}
  <2> DEFINE f == [k \in mine |-> pending_queue_[k].lap]
  <2>1. Ranges /\ OncePerLap
    BY TypeParts, Zenon DEF RumbleInv
  <2>2. f \in [mine -> 0 .. MaxLaps - 1]
    <3>1. \A k \in mine : pending_queue_[k].lap \in 0 .. MaxLaps - 1
      BY LapRange DEF Waiting
    <3> QED BY <3>1
  <2>3. \A j, k \in mine : f[j] = f[k] => j = k
    BY <2>1, OnceMeans
  <2>4. f \in Injection(mine, 0 .. MaxLaps - 1)
    <3> HIDE DEF f
    <3> QED BY <2>2, <2>3 DEF Injection, IsInjective
  <2>5. IsFiniteSet(0 .. MaxLaps - 1) /\ Cardinality(0 .. MaxLaps - 1) = MaxLaps
    BY LapCount
  <2>6. IsFiniteSet(mine)
    <3>1. DOMAIN pending_queue_ = 1 .. Len(pending_queue_) /\ Len(pending_queue_) \in Nat
      BY <2>1 DEF Ranges
    <3>2. IsFiniteSet(1 .. Len(pending_queue_))
      BY <3>1, FirstNumbers
    <3> QED BY <3>1, <3>2, FS_Subset
  <2> HIDE DEF mine, f
  <2>7. Cardinality(mine) <= MaxLaps
    BY <2>4, <2>5, <2>6, FS_Injection
  <2> QED BY <2>7 DEF mine
<1> QED BY <1>1, RumbleInvariance, PTL

(* The requests are as many as the inputs and laps they are of, and the    *)
(* input that asks has none of this lap.                                   *)
LEMMA QueueHasRoom ==
  ASSUME RumbleInv, orderly, TickInput, MaxLaps * NumInputs <= QueueMax
  PROVE  Len(pending_queue_) < QueueMax
<1> DEFINE n == Len(pending_queue_)
<1> DEFINE places == (Inputs \X (0 .. MaxLaps - 1)) \ {<<input, laps>>}
<1>1. /\ Ranges /\ OncePerLap /\ LapsInOrder /\ LapsBounded
  BY TypeParts, Zenon DEF RumbleInv
<1>2. /\ n \in Nat /\ DOMAIN pending_queue_ = 1 .. n /\ input \in Inputs
      /\ \A k \in 1 .. n : pending_queue_[k] \in Requests /\ pending_queue_[k] \in Waiting
  BY <1>1 DEF Ranges, TickInput, Waiting
<1>3. laps \in 0 .. MaxLaps - 1
  BY <1>1 DEF TickInput, LapsBounded, One, Ranges, MaxLaps
<1> DEFINE f == [k \in 1 .. n |-> <<pending_queue_[k].input, pending_queue_[k].lap>>]
<1>4. ASSUME NEW k \in 1 .. n
      PROVE  <<pending_queue_[k].input, pending_queue_[k].lap>> \in places
  <2>1. pending_queue_[k].input \in Inputs /\ pending_queue_[k].lap \in 0 .. MaxLaps - 1
    BY <1>2, LapRange DEF Requests
  <2>2. pending_queue_[k].lap < laps \/ pending_queue_[k].input < input
    BY <1>1, <1>2, LapMeans
  <2>3. ~ (pending_queue_[k].lap = laps /\ pending_queue_[k].input = input)
    BY <1>2, <1>3, <2>2 DEF Inputs
  <2> QED BY <2>1, <2>3
<1>5. f \in [1 .. n -> places]
  BY <1>4
<1>6. \A j, k \in 1 .. n : f[j] = f[k] => j = k
  BY <1>1, <1>2, OnceMeans
<1>7. f \in Injection(1 .. n, places)
  <2> HIDE DEF f, places
  <2> QED BY <1>5, <1>6 DEF Injection, IsInjective
<1>8. /\ IsFiniteSet(Inputs \X (0 .. MaxLaps - 1))
      /\ Cardinality(Inputs \X (0 .. MaxLaps - 1)) = NumInputs * MaxLaps
  <2>1. IsFiniteSet(Inputs) /\ Cardinality(Inputs) = NumInputs
    BY FirstNumbers DEF Inputs
  <2> QED BY <2>1, LapCount, FS_Product
<1>9. IsFiniteSet(places) /\ Cardinality(places) = NumInputs * MaxLaps - 1
  <2>1. <<input, laps>> \in Inputs \X (0 .. MaxLaps - 1)
    BY <1>2, <1>3
  <2> DEFINE all == Inputs \X (0 .. MaxLaps - 1)
  <2>2. /\ IsFiniteSet(all \ {<<input, laps>>})
        /\ Cardinality(all \ {<<input, laps>>}) = Cardinality(all) - 1
    <3>1. <<input, laps>> \in all /\ IsFiniteSet(all)
      BY <1>8, <2>1
    <3> HIDE DEF all
    <3> QED BY <3>1, FS_RemoveElement, Zenon
  <2> QED BY <1>8, <2>2
<1>10. IsFiniteSet(1 .. n) /\ Cardinality(1 .. n) = n
  <2> HIDE DEF n
  <2> QED BY <1>2, FirstNumbers
<1>11. n <= NumInputs * MaxLaps - 1
  <2> HIDE DEF places, f, n
  <2> QED BY <1>7, <1>9, <1>10, FS_Injection
<1> QED BY <1>2, <1>11 DEF MaxLaps

(* While no drain was cut short, and if at most a third of QueueMax inputs *)
(* rumble, the queue takes every request a tick makes: the result of       *)
(* xQueueSendToBack may be ignored.  With more inputs it may not.          *)
THEOREM NoRequestDropped == Spec => RoomWhenAsked
<1>1. ASSUME RumbleInv, [Next]_vars
      PROVE  [orderly /\ MaxLaps * NumInputs <= QueueMax =>
                (TickInput /\ MayRumble(input) => Len(pending_queue_) < QueueMax)]_vars
  BY <1>1, QueueHasRoom
<1> QED BY <1>1, RumbleInvariance, PTL DEF Spec, RoomWhenAsked

(* Who plays a rumble plays its own, once it has reported.                 *)
LEMMA PlayedIsOwn ==
  ASSUME RumbleInv, [Next]_vars, played' # played, played'.by \in heard, orderly
  PROVE  played'.to = played'.by
<1>1. Ranges /\ MeantForPlayer
  BY TypeParts, Zenon DEF RumbleInv
<1>2. played' # NotPlayed
  BY <1>1 DEF NotPlayed, Ranges
<1>3. DrainOne
  BY <1>2 DEF Next, DeviceReady, DeviceDisconnected, ControllerData, DrainEnd, StoreReport, Update,
     HandleClient, TickInput, TickEnd, Delay
<1>4. PICK d \in Seated(Head(pending_queue_).slot) :
        played' = [by |-> d, to |-> Head(pending_queue_).to]
  BY <1>2, <1>3 DEF DrainOne
<1>5. Head(pending_queue_) \in Waiting
  BY <1>1, <1>3, TailWaits DEF DrainOne
<1>6. Head(pending_queue_).to = d
  BY <1>1, <1>4, <1>5 DEF MeantForPlayer
<1> QED BY <1>4, <1>6

(* A device that has reported since it took its slot is never given the    *)
(* rumble of the device that had the slot before.                          *)
THEOREM RumblesAreOwn == Spec => OwnRumblesOnly
<1>1. RumbleInv /\ [Next]_vars =>
        [played' # played /\ played'.by \in heard /\ orderly => played'.to = played'.by]_vars
  BY PlayedIsOwn
<1> QED BY <1>1, RumbleInvariance, PTL DEF Spec, OwnRumblesOnly
=============================================================================
