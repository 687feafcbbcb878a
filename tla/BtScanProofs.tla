---------------------------- MODULE BtScanProofs ----------------------------
(***************************************************************************)
(* Proofs about BtScan, for every device set and all pulse, pause and      *)
(* window lengths.  The bounds are proved for a clock that does not wrap   *)
(* (NoWrap); that nothing scans while a gamepad is adopted needs no such   *)
(* assumption.                                                             *)
(***************************************************************************)
EXTENDS BtScan, TLAPS

(* The configured times against the longest pulse, pause and deadline.     *)
LEMMA Times ==
    /\ AutoOn \in Nat /\ AutoOff \in Nat /\ PairOn \in Nat /\ PairOff \in Nat
    /\ AutoOn > 0 /\ AutoOff > 0 /\ PairOn > 0 /\ PairOff > 0
    /\ PairingWindow \in Nat /\ PairingWindow > 0
    /\ StartupDelay \in Nat /\ StartupDelay > 0 /\ Settle \in Nat /\ Settle > 0
    /\ LoopDelay \in Nat /\ LoopDelay > 0 /\ HandlerMax \in Nat
    /\ Turn \in Nat /\ Turn > 0 /\ LoopDelay <= Turn
    /\ BurstMax \in Nat /\ AutoOn <= BurstMax /\ PairOn <= BurstMax /\ BurstMax <= Horizon
    /\ QuietMax \in Nat /\ AutoOff <= QuietMax /\ PairOff <= QuietMax
    /\ StartupDelay <= QuietMax /\ QuietMax <= Horizon
    /\ Horizon \in Nat /\ PairingWindow <= Horizon /\ Settle <= Horizon
    /\ Modulus \in Nat /\ Horizon + Turn < Modulus /\ UptimeMax \in Nat
  BY BtScanAssumption, SMT DEF Turn, BurstMax, QuietMax, Horizon, Longer

(* The actions that assign truth values, with the flags as formulas.       *)

(* The state after setup().                                                *)
LEMMA InitSteps ==
    ASSUME Init
    PROVE  /\ connected = {} /\ g_gamepad = None
           /\ ~g_pairingScanEnabled /\ g_pairingScanEnabled \in BOOLEAN
           /\ ~g_btScanActive /\ g_btScanActive \in BOOLEAN
           /\ g_pairingScanUntilMs = 0 /\ g_btScanToggleAtMs = StartupDelay
           /\ pc = "update" /\ now = 0
           /\ burst = 0 /\ quiet = 0 /\ window = 0
  BY Zenon DEF Init

(* The same, after a power cycle.                                          *)
LEMMA PowerCycleSteps ==
    ASSUME PowerCycle
    PROVE  /\ connected' = {} /\ g_gamepad' = None
           /\ ~g_pairingScanEnabled' /\ g_pairingScanEnabled' \in BOOLEAN
           /\ ~g_btScanActive' /\ g_btScanActive' \in BOOLEAN
           /\ g_pairingScanUntilMs' = 0 /\ g_btScanToggleAtMs' = StartupDelay
           /\ pc' = "update" /\ now' = 0
           /\ burst' = 0 /\ quiet' = 0 /\ window' = 0
  BY Zenon DEF PowerCycle

(* onConnectedController either adopts the device or changes nothing.      *)
LEMMA OnConnectedSteps ==
    ASSUME NEW d, OnConnected(d)
    PROVE  /\ pc = "update" /\ connected' = connected \cup {d}
           /\ UNCHANGED <<pc, now, history>>
           /\ \/ /\ g_gamepad \notin connected /\ g_gamepad' = d
                 /\ ~g_pairingScanEnabled' /\ g_pairingScanEnabled' \in BOOLEAN
                 /\ g_pairingScanUntilMs' \in {0, g_pairingScanUntilMs}
                 /\ g_btScanToggleAtMs' = 0
                 /\ ~g_btScanActive' /\ g_btScanActive' \in BOOLEAN
              \/ UNCHANGED <<g_gamepad, timers>>
  BY Zenon DEF OnConnected, Adopt

(* handleApiPairingOff.                                                    *)
LEMMA PairingOffSteps ==
    ASSUME PairingOff
    PROVE  /\ pc = "handle" /\ pc' = "delay"
           /\ ~g_pairingScanEnabled' /\ g_pairingScanEnabled' \in BOOLEAN
           /\ g_pairingScanUntilMs' = 0 /\ g_btScanToggleAtMs' = 0
           /\ UNCHANGED <<connected, g_gamepad, g_btScanActive, now, history>>
  BY Zenon DEF PairingOff

(* updateBtScanScheduler: the window, then one of three cases.             *)
LEMMA SchedulerSteps ==
    ASSUME TypeOK, Scheduler
    PROVE  /\ pc = "scan" /\ pc' = "handle"
           /\ g_pairingScanEnabled' \in BOOLEAN /\ g_btScanActive' \in BOOLEAN
           /\ g_pairingScanEnabled' <=> g_pairingScanEnabled /\ ~(now > g_pairingScanUntilMs)
           /\ LET toggleAt == IF g_pairingScanEnabled /\ now > g_pairingScanUntilMs
                              THEN 0 ELSE g_btScanToggleAtMs
              IN  \/ /\ g_gamepad \in connected
                     /\ ~g_btScanActive'
                     /\ g_btScanToggleAtMs' = Plus(now, Settle)
                  \/ /\ g_gamepad \notin connected
                     /\ Due(toggleAt)
                     /\ g_btScanActive' <=> ~g_btScanActive
                     /\ g_btScanActive =>
                          g_btScanToggleAtMs' = Plus(now, OffMs(g_pairingScanEnabled'))
                     /\ ~g_btScanActive =>
                          g_btScanToggleAtMs' = Plus(now, OnMs(g_pairingScanEnabled'))
                  \/ /\ g_gamepad \notin connected
                     /\ ~Due(toggleAt)
                     /\ g_btScanActive' <=> g_btScanActive
                     /\ g_btScanToggleAtMs' = toggleAt
           /\ burst' = IF g_btScanActive' /\ ~g_btScanActive THEN 0 ELSE burst
           /\ quiet' = IF g_btScanActive' \/ g_gamepad # None THEN 0 ELSE quiet
           /\ UNCHANGED <<connected, g_gamepad, g_pairingScanUntilMs, now, window>>
  BY Zenon DEF TypeOK, Scheduler, Pulse

(* What setup() leaves is on schedule.                                     *)
LEMMA InitScan == Init => ScanInv
  BY InitSteps, Times, BtScanAssumption
  DEF ScanInv, TypeOK, ScanOffWhileAdopted, BurstOnSchedule, QuietOnSchedule,
      PairingOnSchedule, PairingPauseOnSchedule, Late

(* Every step keeps scanning off while a gamepad is adopted, whatever the  *)
(* clock does.                                                             *)
LEMMA StepScanOff ==
    ASSUME TypeOK, ScanOffWhileAdopted, [Next]_vars
    PROVE  TypeOK' /\ ScanOffWhileAdopted'
<1> USE Times, BtScanAssumption
<1>1. ASSUME NEW d \in Devices, OnConnected(d) PROVE TypeOK' /\ ScanOffWhileAdopted'
  BY <1>1, OnConnectedSteps
  DEF timers, history, TypeOK, ScanOffWhileAdopted
<1>2. ASSUME NEW d \in Devices, OnDisconnected(d) PROVE TypeOK' /\ ScanOffWhileAdopted'
  BY <1>2
  DEF OnDisconnected, history, TypeOK, ScanOffWhileAdopted
<1>3. CASE UpdateDone
  BY <1>3
  DEF UpdateDone, timers, history, TypeOK, ScanOffWhileAdopted
<1>4. CASE Scheduler
  BY <1>4, SchedulerSteps
  DEF Due, OnMs, OffMs, Plus, TypeOK, ScanOffWhileAdopted
<1>5. CASE PairingOn
  BY <1>5
  DEF PairingOn, Plus, TypeOK, ScanOffWhileAdopted
<1>6. CASE PairingOff
  BY <1>6, PairingOffSteps
  DEF history, TypeOK, ScanOffWhileAdopted
<1>7. CASE OtherRequest
  BY <1>7
  DEF OtherRequest, timers, history, TypeOK, ScanOffWhileAdopted
<1>8. ASSUME NEW d \in LoopDelay .. Turn, Delay(d) PROVE TypeOK' /\ ScanOffWhileAdopted'
  BY <1>8
  DEF Delay, Plus, Capped, timers, TypeOK, ScanOffWhileAdopted
<1>9. CASE PowerCycle
  BY <1>9, PowerCycleSteps
  DEF TypeOK, ScanOffWhileAdopted
<1>10. CASE UNCHANGED vars
  BY <1>10 DEF vars, timers, history, TypeOK, ScanOffWhileAdopted
<1> QED
  BY <1>1, <1>2, <1>3, <1>4, <1>5, <1>6, <1>7, <1>8, <1>9, <1>10 DEF Next

(* Every step of a clock that does not wrap keeps the schedule.            *)
LEMMA StepScan ==
    ASSUME NoWrap, ScanInv, [Next]_vars
    PROVE  ScanInv'
<1> USE Times, BtScanAssumption DEF NoWrap
<1>0. TypeOK /\ TypeOK' /\ ScanOffWhileAdopted'
  BY StepScanOff DEF ScanInv
<1>1. ASSUME NEW d \in Devices, OnConnected(d) PROVE ScanInv'
  <2>1. now' <= UptimeMax
    BY <1>1, <1>0, OnConnectedSteps
    DEF timers, history, ScanInv, TypeOK
  <2>2. BurstOnSchedule'
    BY <1>1, <1>0, OnConnectedSteps
    DEF timers, history, ScanInv, TypeOK,
        BurstOnSchedule, ScanOffWhileAdopted, Late
  <2>3. QuietOnSchedule'
    BY <1>1, <1>0, OnConnectedSteps
    DEF timers, history, ScanInv, TypeOK,
        QuietOnSchedule, BurstOnSchedule, ScanOffWhileAdopted, Late
  <2>4. PairingOnSchedule'
    BY <1>1, <1>0, OnConnectedSteps
    DEF timers, history, ScanInv, TypeOK,
        PairingOnSchedule, Late
  <2>5. PairingPauseOnSchedule'
    BY <1>1, <1>0, OnConnectedSteps
    DEF timers, history, ScanInv, TypeOK,
        PairingPauseOnSchedule, PairingOnSchedule, QuietOnSchedule, BurstOnSchedule,
        ScanOffWhileAdopted, Late
  <2> QED
    BY <1>0, <2>1, <2>2, <2>3, <2>4, <2>5 DEF ScanInv
<1>2. ASSUME NEW d \in Devices, OnDisconnected(d) PROVE ScanInv'
  <2>1. now' <= UptimeMax
    BY <1>2, <1>0
    DEF OnDisconnected, history, ScanInv, TypeOK
  <2>2. BurstOnSchedule'
    BY <1>2, <1>0
    DEF OnDisconnected, history, ScanInv, TypeOK,
        BurstOnSchedule, ScanOffWhileAdopted, Late
  <2>3. QuietOnSchedule'
    BY <1>2, <1>0
    DEF OnDisconnected, history, ScanInv, TypeOK,
        QuietOnSchedule, BurstOnSchedule, ScanOffWhileAdopted, Late
  <2>4. PairingOnSchedule'
    BY <1>2, <1>0
    DEF OnDisconnected, history, ScanInv, TypeOK,
        PairingOnSchedule, Late
  <2>5. PairingPauseOnSchedule'
    BY <1>2, <1>0
    DEF OnDisconnected, history, ScanInv, TypeOK,
        PairingPauseOnSchedule, PairingOnSchedule, QuietOnSchedule, BurstOnSchedule,
        ScanOffWhileAdopted, Late
  <2> QED
    BY <1>0, <2>1, <2>2, <2>3, <2>4, <2>5 DEF ScanInv
<1>3. CASE UpdateDone
  <2>1. now' <= UptimeMax
    BY <1>3, <1>0
    DEF UpdateDone, timers, history, ScanInv, TypeOK
  <2>2. BurstOnSchedule'
    BY <1>3, <1>0
    DEF UpdateDone, timers, history, ScanInv, TypeOK,
        BurstOnSchedule, ScanOffWhileAdopted, Late
  <2>3. QuietOnSchedule'
    BY <1>3, <1>0
    DEF UpdateDone, timers, history, ScanInv, TypeOK,
        QuietOnSchedule, BurstOnSchedule, ScanOffWhileAdopted, Late
  <2>4. PairingOnSchedule'
    BY <1>3, <1>0
    DEF UpdateDone, timers, history, ScanInv, TypeOK,
        PairingOnSchedule, Late
  <2>5. PairingPauseOnSchedule'
    BY <1>3, <1>0
    DEF UpdateDone, timers, history, ScanInv, TypeOK,
        PairingPauseOnSchedule, PairingOnSchedule, QuietOnSchedule, BurstOnSchedule,
        ScanOffWhileAdopted, Late
  <2> QED
    BY <1>0, <2>1, <2>2, <2>3, <2>4, <2>5 DEF ScanInv
<1>4. CASE Scheduler
  <2> DEFINE expired  == g_pairingScanEnabled /\ now > g_pairingScanUntilMs
             toggleAt == IF expired THEN 0 ELSE g_btScanToggleAtMs
  <2>1. /\ pc = "scan" /\ pc' = "handle"
        /\ g_pairingScanEnabled' <=> g_pairingScanEnabled /\ ~(now > g_pairingScanUntilMs)
        /\ burst' = IF g_btScanActive' /\ ~g_btScanActive THEN 0 ELSE burst
        /\ quiet' = IF g_btScanActive' \/ g_gamepad # None THEN 0 ELSE quiet
        /\ UNCHANGED <<connected, g_gamepad, g_pairingScanUntilMs, now, window>>
    BY <1>0, <1>4, SchedulerSteps
  <2>2. now' <= UptimeMax /\ PairingOnSchedule'
    BY <1>0, <2>1 DEF ScanInv, TypeOK, PairingOnSchedule, Late
  <2>3. CASE /\ g_gamepad \in connected
             /\ ~g_btScanActive'
             /\ g_btScanToggleAtMs' = Plus(now, Settle)
    <3>1. g_gamepad # None /\ quiet' = 0
      BY <1>0, <2>1, <2>3 DEF TypeOK
    <3>2. BurstOnSchedule' /\ QuietOnSchedule' /\ PairingPauseOnSchedule'
      BY <1>0, <2>1, <2>3, <3>1
      DEF BurstOnSchedule, QuietOnSchedule, PairingPauseOnSchedule, Late
    <3> QED
      BY <1>0, <2>2, <3>2 DEF ScanInv
  <2>4. CASE /\ g_gamepad \notin connected
             /\ Due(toggleAt)
             /\ g_btScanActive' <=> ~g_btScanActive
             /\ g_btScanActive =>
                  g_btScanToggleAtMs' = Plus(now, OffMs(g_pairingScanEnabled'))
             /\ ~g_btScanActive =>
                  g_btScanToggleAtMs' = Plus(now, OnMs(g_pairingScanEnabled'))
    <3>1. g_gamepad = None
      BY <2>4 DEF ScanInv, ScanOffWhileAdopted
    <3>2. CASE g_btScanActive
      <4>1. /\ ~g_btScanActive' /\ quiet = 0 /\ quiet' = 0
            /\ g_btScanToggleAtMs' = now + OffMs(g_pairingScanEnabled')
        BY <1>0, <2>1, <2>4, <3>1, <3>2
        DEF ScanInv, TypeOK, BurstOnSchedule, Plus, OffMs
      <4>2. BurstOnSchedule' /\ QuietOnSchedule' /\ PairingPauseOnSchedule'
        BY <1>0, <2>1, <3>1, <4>1
        DEF BurstOnSchedule, QuietOnSchedule, PairingPauseOnSchedule, Late, OffMs, TypeOK
      <4> QED
        BY <1>0, <2>2, <4>2 DEF ScanInv
    <3>3. CASE ~g_btScanActive
      <4>1. /\ g_btScanActive' /\ burst' = 0 /\ quiet' = 0
            /\ g_btScanToggleAtMs' = now + OnMs(g_pairingScanEnabled')
        BY <1>0, <2>1, <2>4, <3>1, <3>3 DEF ScanInv, TypeOK, Plus, OnMs
      <4>2. BurstOnSchedule' /\ QuietOnSchedule' /\ PairingPauseOnSchedule'
        BY <1>0, <2>1, <3>1, <4>1
        DEF BurstOnSchedule, QuietOnSchedule, PairingPauseOnSchedule, Late, OnMs, TypeOK
      <4> QED
        BY <1>0, <2>2, <4>2 DEF ScanInv
    <3> QED
      BY <3>2, <3>3
  <2>5. CASE /\ g_gamepad \notin connected
             /\ ~Due(toggleAt)
             /\ g_btScanActive' <=> g_btScanActive
             /\ g_btScanToggleAtMs' = toggleAt
    <3>1. /\ g_gamepad = None /\ ~expired
          /\ g_btScanToggleAtMs # 0 /\ now < g_btScanToggleAtMs
          /\ UNCHANGED <<g_btScanToggleAtMs, burst>>
          /\ quiet' = IF g_btScanActive THEN 0 ELSE quiet
          /\ g_pairingScanEnabled' <=> g_pairingScanEnabled
      BY <1>0, <2>1, <2>5 DEF ScanInv, TypeOK, ScanOffWhileAdopted, Due
    <3>2. BurstOnSchedule' /\ QuietOnSchedule' /\ PairingPauseOnSchedule'
      BY <1>0, <2>1, <2>5, <3>1
      DEF ScanInv, TypeOK, BurstOnSchedule, QuietOnSchedule, PairingPauseOnSchedule, Late
    <3> QED
      BY <1>0, <2>2, <3>2 DEF ScanInv
  <2> QED
    BY <1>0, <1>4, <2>3, <2>4, <2>5, SchedulerSteps
<1>5. CASE PairingOn
  <2>1. now' <= UptimeMax
    BY <1>5, <1>0
    DEF PairingOn, Plus, ScanInv, TypeOK
  <2>2. BurstOnSchedule'
    BY <1>5, <1>0
    DEF PairingOn, Plus, ScanInv, TypeOK,
        BurstOnSchedule, ScanOffWhileAdopted, Late
  <2>3. QuietOnSchedule'
    BY <1>5, <1>0
    DEF PairingOn, Plus, ScanInv, TypeOK,
        QuietOnSchedule, BurstOnSchedule, ScanOffWhileAdopted, Late
  <2>4. PairingOnSchedule'
    BY <1>5, <1>0
    DEF PairingOn, Plus, ScanInv, TypeOK,
        PairingOnSchedule, Late
  <2>5. PairingPauseOnSchedule'
    BY <1>5, <1>0
    DEF PairingOn, Plus, ScanInv, TypeOK,
        PairingPauseOnSchedule, PairingOnSchedule, QuietOnSchedule, BurstOnSchedule,
        ScanOffWhileAdopted, Late
  <2> QED
    BY <1>0, <2>1, <2>2, <2>3, <2>4, <2>5 DEF ScanInv
<1>6. CASE PairingOff
  <2>1. now' <= UptimeMax
    BY <1>6, <1>0, PairingOffSteps
    DEF history, ScanInv, TypeOK
  <2>2. BurstOnSchedule'
    BY <1>6, <1>0, PairingOffSteps
    DEF history, ScanInv, TypeOK,
        BurstOnSchedule, ScanOffWhileAdopted, Late
  <2>3. QuietOnSchedule'
    BY <1>6, <1>0, PairingOffSteps
    DEF history, ScanInv, TypeOK,
        QuietOnSchedule, BurstOnSchedule, ScanOffWhileAdopted, Late
  <2>4. PairingOnSchedule'
    BY <1>6, <1>0, PairingOffSteps
    DEF history, ScanInv, TypeOK,
        PairingOnSchedule, Late
  <2>5. PairingPauseOnSchedule'
    BY <1>6, <1>0, PairingOffSteps
    DEF history, ScanInv, TypeOK,
        PairingPauseOnSchedule, PairingOnSchedule, QuietOnSchedule, BurstOnSchedule,
        ScanOffWhileAdopted, Late
  <2> QED
    BY <1>0, <2>1, <2>2, <2>3, <2>4, <2>5 DEF ScanInv
<1>7. CASE OtherRequest
  <2>1. now' <= UptimeMax
    BY <1>7, <1>0
    DEF OtherRequest, timers, history, ScanInv, TypeOK
  <2>2. BurstOnSchedule'
    BY <1>7, <1>0
    DEF OtherRequest, timers, history, ScanInv, TypeOK,
        BurstOnSchedule, ScanOffWhileAdopted, Late
  <2>3. QuietOnSchedule'
    BY <1>7, <1>0
    DEF OtherRequest, timers, history, ScanInv, TypeOK,
        QuietOnSchedule, BurstOnSchedule, ScanOffWhileAdopted, Late
  <2>4. PairingOnSchedule'
    BY <1>7, <1>0
    DEF OtherRequest, timers, history, ScanInv, TypeOK,
        PairingOnSchedule, Late
  <2>5. PairingPauseOnSchedule'
    BY <1>7, <1>0
    DEF OtherRequest, timers, history, ScanInv, TypeOK,
        PairingPauseOnSchedule, PairingOnSchedule, QuietOnSchedule, BurstOnSchedule,
        ScanOffWhileAdopted, Late
  <2> QED
    BY <1>0, <2>1, <2>2, <2>3, <2>4, <2>5 DEF ScanInv
<1>8. ASSUME NEW d \in LoopDelay .. Turn, Delay(d) PROVE ScanInv'
  <2>1. now' <= UptimeMax
    BY <1>8, <1>0
    DEF Delay, Plus, Capped, timers, ScanInv, TypeOK
  <2>2. BurstOnSchedule'
    BY <1>8, <1>0
    DEF Delay, Plus, Capped, timers, ScanInv, TypeOK,
        BurstOnSchedule, ScanOffWhileAdopted, Late
  <2>3. QuietOnSchedule'
    BY <1>8, <1>0
    DEF Delay, Plus, Capped, timers, ScanInv, TypeOK,
        QuietOnSchedule, BurstOnSchedule, ScanOffWhileAdopted, Late
  <2>4. PairingOnSchedule'
    BY <1>8, <1>0
    DEF Delay, Plus, Capped, timers, ScanInv, TypeOK,
        PairingOnSchedule, Late
  <2>5. PairingPauseOnSchedule'
    BY <1>8, <1>0
    DEF Delay, Plus, Capped, timers, ScanInv, TypeOK,
        PairingPauseOnSchedule, PairingOnSchedule, QuietOnSchedule, BurstOnSchedule,
        ScanOffWhileAdopted, Late
  <2> QED
    BY <1>0, <2>1, <2>2, <2>3, <2>4, <2>5 DEF ScanInv
<1>9. CASE PowerCycle
  <2>1. now' <= UptimeMax
    BY <1>9, <1>0, PowerCycleSteps
    DEF ScanInv, TypeOK
  <2>2. BurstOnSchedule'
    BY <1>9, <1>0, PowerCycleSteps
    DEF ScanInv, TypeOK,
        BurstOnSchedule, ScanOffWhileAdopted, Late
  <2>3. QuietOnSchedule'
    BY <1>9, <1>0, PowerCycleSteps
    DEF ScanInv, TypeOK,
        QuietOnSchedule, BurstOnSchedule, ScanOffWhileAdopted, Late
  <2>4. PairingOnSchedule'
    BY <1>9, <1>0, PowerCycleSteps
    DEF ScanInv, TypeOK,
        PairingOnSchedule, Late
  <2>5. PairingPauseOnSchedule'
    BY <1>9, <1>0, PowerCycleSteps
    DEF ScanInv, TypeOK,
        PairingPauseOnSchedule, PairingOnSchedule, QuietOnSchedule, BurstOnSchedule,
        ScanOffWhileAdopted, Late
  <2> QED
    BY <1>0, <2>1, <2>2, <2>3, <2>4, <2>5 DEF ScanInv
<1>10. CASE UNCHANGED vars
  BY <1>10
  DEF vars, timers, history, ScanInv, TypeOK, ScanOffWhileAdopted, BurstOnSchedule,
      QuietOnSchedule, PairingOnSchedule, PairingPauseOnSchedule, Late
<1> QED
  BY <1>1, <1>2, <1>3, <1>4, <1>5, <1>6, <1>7, <1>8, <1>9, <1>10 DEF Next

(* The schedule holds at every point of loop(), for every configuration of *)
(* pulses, pauses and window (sketch.cpp, updateBtScanScheduler).          *)
THEOREM ScanInvariance ==
    ASSUME NoWrap PROVE Spec => []ScanInv
<1>1. ScanInv /\ [Next]_vars => ScanInv'
  BY StepScan
<1> QED
  BY InitScan, <1>1, PTL DEF Spec

(* What the schedule says of the time a pulse, a pause and the pairing     *)
(* window have lasted.                                                     *)
LEMMA ScheduleBounds ==
    ScanInv => BurstBounded /\ QuietBounded /\ PairingBounded /\ ReachableWhilePairing
BY Times
DEF ScanInv, TypeOK, BurstOnSchedule, QuietOnSchedule, PairingOnSchedule,
    PairingPauseOnSchedule, Late, BurstBounded, QuietBounded, PairingBounded,
    ReachableWhilePairing

(* A pulse of scanning lasts no longer than configured, to a turn of       *)
(* loop() (sketch.cpp, updateBtScanScheduler).                             *)
THEOREM PulsesBounded ==
    ASSUME NoWrap PROVE Spec => []BurstBounded
BY ScanInvariance, ScheduleBounds, PTL

(* Nor does a pause: while no gamepad is adopted, the firmware can be      *)
(* found again and again.                                                  *)
THEOREM PausesBounded ==
    ASSUME NoWrap PROVE Spec => []QuietBounded
BY ScanInvariance, ScheduleBounds, PTL

(* While pairing, the pauses are those of pairing mode, however pairing    *)
(* was started in the middle of a longer one.                              *)
THEOREM PairingReachable ==
    ASSUME NoWrap PROVE Spec => []ReachableWhilePairing
BY ScanInvariance, ScheduleBounds, PTL

(* The pairing window closes in time, a connected gamepad or not.          *)
THEOREM WindowBounded ==
    ASSUME NoWrap PROVE Spec => []PairingBounded
BY ScanInvariance, ScheduleBounds, PTL

(* Pairing closes only when its window has passed, on adoption, on request *)
(* or with the power.                                                      *)
THEOREM PairingEnds ==
    ASSUME NoWrap PROVE Spec => PairingEndsForAReason
<1>1. ASSUME ScanInv, [Next]_vars,
             g_pairingScanEnabled, ~g_pairingScanEnabled'
      PROVE  window > PairingWindow \/ g_gamepad' # g_gamepad \/ PairingOff \/ PowerCycle
  <2>1. ASSUME NEW d \in Devices, OnConnected(d) PROVE g_gamepad' # g_gamepad
    BY <1>1, <2>1, BtScanAssumption
    DEF OnConnected, Adopt, timers, ScanInv, ScanOffWhileAdopted
  <2>2. CASE Scheduler
    BY <1>1, <2>2, Times, SchedulerSteps DEF ScanInv, TypeOK, PairingOnSchedule
  <2>3. ASSUME NEW d \in Devices, OnDisconnected(d) PROVE FALSE
    BY <1>1, <2>3 DEF OnDisconnected
  <2>4. ASSUME NEW d \in LoopDelay .. Turn, Delay(d) PROVE FALSE
    BY <1>1, <2>4 DEF Delay, timers
  <2>5. CASE UpdateDone \/ PairingOn \/ OtherRequest \/ UNCHANGED vars
    BY <1>1, <2>5 DEF UpdateDone, PairingOn, OtherRequest, vars, timers
  <2> QED
    BY <1>1, <2>1, <2>2, <2>3, <2>4, <2>5 DEF Next
<1>2. ScanInv /\ [Next]_vars =>
        [g_pairingScanEnabled /\ ~g_pairingScanEnabled' =>
           window > PairingWindow \/ g_gamepad' # g_gamepad \/ PairingOff \/ PowerCycle]_vars
  BY <1>1
<1> QED
  BY ScanInvariance, <1>2, PTL DEF Spec, PairingEndsForAReason

(* Nothing scans while a gamepad is adopted, on any clock: the scheduler   *)
(* and both callbacks keep it (sketch.cpp, setBtScanActive and callers).   *)
THEOREM ScanOffAlways == Spec => [](TypeOK /\ ScanOffWhileAdopted)
<1>1. Init => TypeOK /\ ScanOffWhileAdopted
  BY InitScan DEF ScanInv
<1>2. TypeOK /\ ScanOffWhileAdopted /\ [Next]_vars => (TypeOK /\ ScanOffWhileAdopted)'
  BY StepScanOff
<1> QED
  BY <1>1, <1>2, PTL DEF Spec
=============================================================================
