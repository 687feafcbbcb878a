# A TLA+ verification of esp32-rc-controller

The firmware turns an ESP32 into an RC receiver: a Bluetooth gamepad drives PWM
servos and switches through virtual inputs that the user configures on a web
page and stores as presets. This directory models the firmware's own code
(`src/main` and `src/components/bluepad32_arduino`). Every definition that
stands for code names its lines in `PROJECT.json` ("map"); definitions keep the
names of the source.

## 1. Inventory

| component | state | operations | module |
|---|---|---|---|
| Gamepad slots (`arduino_platform.c`, Bluetooth task, CPU 0) | `controllers_[]` (index, last report, `data_updated`), `used_controllers_`, the seat of each device | device ready, report, disconnect; `pending_queue_` of requests to the devices, drained at each report | `ControlLoop`, `RumbleQueue` |
| Bluepad32 wrapper (`ArduinoBluepad32.cpp`, loop task, CPU 1) | `_prevConnectedControllers`, per controller `_connected`, `_hasData`, `_data` | `update()`: poll the slots, run the connect and disconnect callbacks | `ControlLoop` |
| Control loop and failsafe (`sketch.cpp`, `runtime_loop.cpp`) | `g_gamepad`, `g_lastPacketMs`, `g_signalTimedOut` | `loop()`: update, scheduler, one web request, `processControlTick`, delay | `ControlLoop` |
| Bluetooth scan and pairing (`sketch.cpp`) | `g_btScanActive`, `g_btScanToggleAtMs`, `g_pairingScanEnabled`, `g_pairingScanUntilMs` | scheduler, pairing on/off, callbacks | `BtScan` |
| Output channels and hardware (`rc_model.cpp`, `sketch.cpp`) | `g_outputs`, `g_pwmAttached`, the servos | add, update, delete, rebuild, apply with rollback, failsafe, tick | `OutputHardware` |
| Presets and boot model (`preset_store.cpp`, `preset_service.cpp`, `sketch.cpp`) | NVS: directory, eight blobs, boot model; RAM: current and boot model, dirty flag | create, save, apply, revert, delete, set default, boot | `PresetStore` |
| Virtual inputs and toggles (`rc_model.cpp`) | `g_virtualInputs`, toggle position, direction, button memories | evaluation per tick, add, update, delete, apply; rumble on a change, at most one per input in 80 ms | `ToggleInput`, `SignalPath`, `RumbleQueue` |
| Signal mathematics (`rc_model.cpp`, `control_inputs.cpp`) | `g_virtualRuntime`, `g_outputRuntime`, the pulse on each pin | normalisation, dead zone, expo, mixing, thresholds, pulse width, learn | `SignalPath` |
| Access point (`sketch.cpp`) | AP name and password in NVS, in RAM and in the radio | sanitize, validate, save in two writes, restart, boot | `ApConfig` |
| JSON replies (`json_utils.cpp`, `state_service.cpp`) | none | formatting | not modelled |
| Web routes and page (`web_routes.cpp`, `web_ui.cpp`) | none of its own | routing, static text | not modelled |
| Start-up (`main.c`), ESP32Servo, Arduino core, Bluepad32, BTstack | | third party or glue | not modelled |

How they interact. The Bluetooth task writes the slots; the loop task polls them
under a mutex and turns changes of the set of used slots into callbacks, which
adopt or release *the* gamepad. `loop()` then runs the scan scheduler, serves at
most one web request and runs the control tick, which evaluates the virtual
inputs and drives the outputs or puts them at failsafe. Web handlers run in the
loop task, so they are atomic for everything but the Bluetooth task and the
power; they change inputs, outputs and presets between two ticks. `setup()` and
the preset handlers install configurations through `applyPersistedConfig`.

What is hard here, and what each part should guarantee:

- *Two tasks on two cores.* A disconnect clears its slot outside the mutex; the
  loop task tests the slot before it takes the mutex. Reports that are old, or of
  a device that has left, must not keep the outputs live.
- *Time.* `millis()` wraps; web handlers of unknown length sit between poll and
  tick; scan and pairing deadlines are compared as plain numbers. Silence must
  lead to failsafe; a lost gamepad must be able to come back.
- *Partial failure.* Output set-up may fail at any channel, and may move a channel
  to another pin. A rejected change must change nothing.
- *Power loss* between the NVS writes of one operation. A name must keep its blob;
  an access point must not come up open because a write was lost.
- *A bounded queue* between the tasks, filled by one and drained by the other only
  when a report arrives, with the result of a send ignored.
- *State that outlives its configuration*: attached servos of deleted outputs,
  toggle positions of deleted inputs, sources that name a deleted input, rumbles
  that name the slot of a device that left.

`PROJECT.json` "hazards" lists these at their lines.

## 2. Modules

**`ControlLoop`** (proofs in `ControlLoopProofs`). Bluetooth actions
`DeviceReady`, `ControllerData`, `DisconnectBegin` / `DisconnectEnd` (the part
before and after the `memset`) interleave with the loop task: `PollCheck` and
`PollTake` (the unlocked test and the locked copy of one slot), `Notify` (the
callbacks), `ScanScheduler`, `HandleClient`, `ControlTick`, `Delay`. A report is
abstracted to the device that sent it, since that decides its class; a zeroed
report is `NoData`. `out` says whether the outputs carry a report or their
failsafe values. `age` is a history variable: time since the last report of a
slot, counted up to just above the bound that matters.

**`DeadManSwitch`** is the abstract specification of that path: one driver is
engaged and released; a change of driver finds the outputs at failsafe; each time
the outputs are driven, the driver was heard of at most `DriveLimit` ago; and they
stop before it has been silent for more than `HoldLimit`. `ControlLoop`
instantiates it with the adopted controller as driver, the age of its slot as
silence, and limits computed from the signal timeout, the loop delay and the
longest handler (`ImplementsDeadMan`). Slots, seats, flags, callbacks and the
clock are not in it.

**`BtScan`** (proofs in `BtScanProofs`). The scheduler with its two modes of
pulses and pauses, pairing requests, adoption and loss. `burst`, `quiet` and
`window` are history variables that measure what the deadlines are meant to
bound. `PowerCycle` restarts the clock; `UptimeMax` says how late at most.

**`OutputHardware`**. `OutputAdd`, `OutputUpdate`, `OutputDelete` start a
rebuild; its second loop is taken channel by channel (`RebuildSkip`,
`RebuildSetup`, `RebuildFail`), a failure is followed by the handler's second
rebuild of the previous configuration. `StartApply` .. `ApplyEnd` is
`applyPersistedConfig`, `RollbackStep` its `restoreOld`; `old.failed` (history) is
the configuration at the point of failure. `Tick` drives the outputs or puts them
at failsafe. Only `used`, `type` and `pin` are kept of a
channel; whether an attach succeeds depends on the pin alone.

**`PresetStore`**. Every NVS write is a step (`SaveBlob`, `SaveDir`, `DeleteCopy`,
`DeleteErase`, `DeleteDir`, `DeleteAfter`), after which `Crash` or `WriteRefused`
may happen, in the phases that `Interrupts` names. A configuration is
represented by its failsafe mode, the field whose packed form is not read back as
it was written. A refused erase may or may not have erased. Names that differ in
case only are folded for the directory and compared exactly by the handlers, as
in the code.

**`PresetList`** is its abstract specification: a list of named blobs in which
`Save` and `Delete` are single steps. `CutDelete` is the damage that a deletion
cut short may do, and no more: all names stay, the entries before the deleted one
are as they were, a later one may hold the blob of an entry behind it or none.
The mapping shows the list as of the last directory while a deletion is under
way (`kept`), and as the directory and blobs say otherwise. `Delete` says what
holds after it (the survivors, each once, in their order) rather than how to
compute it: the refinement then needs no induction over the list.

**`ToggleInput`**. One virtual input with buttons as sources: evaluation with and
without a gamepad, the web handlers, and presets that apply or fail.

**`SignalPath`**. From a report to the pulses, with the handlers that edit inputs
and outputs between the ticks. A float is a whole number of 1/12800, in which a
step of a stick and a percent are exact (that of a trigger is rounded); each
operation rounds towards 0. The
expo curve is kept at 0, 50 and 100 percent, where its power is 1, 2 or 3.
Requests and presets hold numbers out of range as well, and the parsers and
`applyPersistedConfig` limit them. The three terms of a mix are written out, as
in `evaluateOutputSignal`; `MixOf`, the reference for what deleting an input
leaves of a mix, takes the terms at some of the three places only. The loop of
`detectDominantInput` is the recursive function `BestAfter`: the best candidate
after each number of them. Inputs
are of type Direct (`ToggleInput` has the others). Pins are in `OutputHardware`;
here any edit may be rejected (`OutputRejected`: the old configuration is rebuilt)
and any preset refused at any channel (`ApplyRefused`: the channels before it have
been set up, then `restoreOld` sets up the former PWM outputs again, as far as they
find a pin, but not the former switches). `cleared` is a history variable: inputs that
were deleted and that no request or preset has named as a source since.
`unrestored` is another: the PWM outputs that a refused preset leaves without a
servo, and the switches of which it has written the pin or the value shown. The
`level` of an output without a servo is the pulse that servo would be given.

**`RumbleQueue`**. The requests from the loop task to the Bluetooth task: which
input changes in a tick is left open, so every pattern of rumbles is covered.
`update()` is one step, since the loop task does not touch the queue in it; the
adoption rule is that of `ControlLoop`. A drain takes one request per step and
interleaves with the tick that fills the queue. A web handler takes any time, and
neither task waits for the other. `orderly` (history) says that no drain has been
cut short since one emptied the queue; `laps` counts the ticks that have asked
since; `heard` and `played` tell whose rumble was played by whom.

**`ApConfig`**. Strings are sequences of blanks and of the characters in `Letters`;
those a request may hold are `Texts`, for TLC short ones, long enough to be cut and
trimmed. The two writes of a save are steps; each may be
refused, with the value written or not, and the power may fail between them.
`RestartErased` is the erasure of NVS in `setup()`. `asked` (history) is taken from
requests as they come in, before anything is trimmed: whether one carried an empty
password, or one of blanks only, since NVS last held another.

Each module ends with its properties and, last, the inductive invariant that
its proof module (`...Proofs`) uses: `LoopInv`, `ScanInv`, `HandlerInv`, `StoreInv`,
`ToggleInv`, `SignalInv`, `RumbleInv`, `ConfigInv`. The runs check them too.

Modules named `MC...` extend these for TLC with constants only.

## 3. Runs

| run | result | what it shows |
|---|---|---|
| `control_timing` | pass | Outputs are live only on a report no older than the timeout plus three handler times and two loop delays (`LiveIsFresh`); whenever the page would be told of a failsafe, it is in force (`FailsafeShownIsSafe`); link loss and silence lead to failsafe (`LinkLossReachesFailsafe`, `LiveNeedsReports`); `LoopInv` is an invariant |
| `control_slots` | pass | Two slots, two gamepads, a mouse: seats, slots and the counter agree at every point (`SeatsAgree`), and the two tasks implement the dead man's switch (`ImplementsDeadMan`) |
| `mouse_drives` | violation | A mouse adopted before its first report drives the outputs |
| `scan_pulses` | pass | Pulses, pauses, pauses while pairing, and the pairing window keep their configured lengths to one turn of `loop()`; pairing closes only for one of the reasons in the code; nothing scans while a gamepad is adopted |
| `outputs` | pass | A successful edit gives every output its own pin and every PWM output its servo there; a rejected one changes nothing; an edit moves only outputs whose pin it asked for; a rollback restores every channel, pin and servo, unless a later channel of the preset has taken the pin of a PWM output (`RollbackRestoresUntaken`); after a success every tick reaches every used output |
| `outputs_orphan` | violation | The servo of a deleted output keeps its last pulse through failsafe |
| `presets` | pass | With power loss and refused writes at every NVS write, the store implements `PresetList`; names stay unambiguous; the boot model shown is the stored one or the fallback |
| `presets_failsafe` | violation | Failsafe mode Center is read back as Max, and Max as Center |
| `toggles` | pass | The three-position cycle goes on whatever is pressed, released, lost or disabled between; an input from a preset starts at 0 (unipolar) and never sticks |
| `signals` | pass | With edits and presets accepted or refused, what the page shows of an output is what its pin was told, except for the outputs that a refused preset has not brought back (`ShownIsDriven`); a deleted input leaves no source behind and does not disturb the other terms of a mix; noise inside the dead zones moves nothing; values and pulses stay in range; learn finds the control that is meant |
| `rumble` | pass | However long the handlers take, at most three requests of an input wait (`FewPerInput`), so that a queue with room for them loses none (`RoomWhenAsked`); a gamepad that has reported once plays only its own rumbles; all unless a drain stopped at an empty slot |
| `ap_config` | pass | The access point is open only if a request carried a password of nothing, or of blanks only; unless a save failed, the next boot uses what the page shows |

The violations are disagreements between the code and a sentence of its
documentation; `PROJECT.json` "findings" quotes both.

Bounds, and why they are enough.

- `control_timing`: one slot and one gamepad, since timing concerns one slot at a
  time (`control_slots` covers several); timeout 3, delay 1, handler at most 2,
  clock modulo 13, so that every stale bound is reached, several turns of
  `loop()` fit into a timeout, and the clock wraps many times. The assumption
  `SignalTimeout + LoopDelay + HandlerMax < Modulus` is that of the proof.
- `control_slots`: two slots and three devices, so that a connection is refused,
  a slot is reused by another device and a class is unknown; time is frozen
  (all durations 0), which gives every interleaving. Gamepads are symmetric; the
  refinement it checks is a safety property, for which symmetry is sound.
- `scan_pulses`: lengths differ from each other and from the turn so that each
  deadline is told apart; a window holds more than one pulse and pause.
- `outputs*`: three channels and three pins of which two can do PWM: the fewest
  with a channel before and after the one that fails, too few PWM pins, and a
  pin that can only be a switch. Four presets: one fits, one must move onto a
  later channel's pin, one has too many PWM channels, one an invalid source.
- `presets*`: two slots of user presets (full, shifted down and reused), a
  built-in name, the legacy name of the car, and two names that differ in case
  only; a preset of an older version may be there at first. A third slot takes
  the run beyond reach; with two, a deletion still moves a blob, skips an entry
  without one and is cut at each of its writes.
- `toggles`: every configuration, every button pattern.
- `signals`: two inputs (one deleted and replaced while the other is mixed) and two
  outputs of three terms, so that one is set up before the other is refused;
  reports with noise, part and full travel both ways, and buttons at the same
  strength as a stick; numbers out of range, sums beyond 1, a product, a threshold
  of 0. Requests bring switches, presets bring a servo or a switch; one preset has
  an invalid source on its second channel, the other may be accepted or refused.
- `rumble`: three gamepads in two slots (one leaves, another takes its slot or finds
  none) and one rumbling input with room for four requests: three do wait at once,
  and a fourth would show. The theorems are for any number of inputs and places.
  Handlers last from nothing to the gap; longer is as good as the gap.
- `ap_config`: names up to 2, passwords of 2 to 3, and every string of blanks and
  letters up to 4 long, so that a cut leaves a blank at the end, and trimming
  makes a password too short.

Fairness. Only the two liveness properties of `ControlLoop` need it: weak
fairness of the loop task (`loop()` is called for ever by the Arduino task, the
mutex is held for a copy only, and the model has no step on which the task could
block), and weak fairness of `DisconnectEnd` (a callback that has started runs to
its end). Nothing is assumed of devices: they may fall silent or never connect.

## 4. Proofs

All theorems hold for every value of the constants that satisfies the named
assumptions of the modules. None of the properties is inductive by itself; each
proof module proves that one invariant is kept by every action, with one lemma
per action or per part, and derives the properties from it.

`ControlLoopProofs` proves `Spec => []LoopInv` and from it `TypeOK`,
`LiveIsFresh`, `FailsafeShownIsSafe` and `ScanOffWhileAdopted`. For `LiveIsFresh`,
the age of what drives the outputs depends on when it was stamped
(`DrivenIsStamped`), which depends on how old a report read in this turn is
(`ReadIsRecent`), which depends on how old an unread one may be
(`UnreadIsRecent`: it arrived after the last poll of its slot), which needs that
no two devices write one slot (`SeatsHeld`) and that an adopted gamepad is a
connected one at every point of `update()` (`ConnectedTracked`). The wrapping
subtraction is dealt with in `ClockAdvances` and `ElapsedAdvances`: elapsed time is
exact as long as it is below the modulus, and `DrivenIsStamped` keeps it there.
`SeatsAlwaysAgree` proves `SeatsAgree`, from the fact that a slot that is being
wiped is still in use (`SeatsInv`), so that the counter lowered at the beginning of
a disconnect is right at its end. `LossNoticedInTurn` proves `LiveWasSeen`: from the
end of `update()` to the next turn, the outputs are live only if that `update()`
found the adopted gamepad.

`DeadManRefined` proves `Spec => ImplementsDeadMan`: under `LoopInv`, before and
after, each action maps to `Engage`, `Disengage`, `Hear`, `Drive`, `Stop`, `Pass` or
a stutter, for every number of slots and devices and with the clock running
(TLC checks the refinement with the clock stopped). The step that matters is
`ControlTick`: that it may drive is `ReadIsRecent`, that it must stop in time is
`DrivenIsStamped`.

`BtScanProofs` proves `ScanInv` under `NoWrap` (no deadline passes the modulus
before the power is cycled), and from it, one theorem each, `BurstBounded`,
`QuietBounded`, `ReachableWhilePairing`, `PairingBounded` and
`PairingEndsForAReason`. The invariant ties each deadline to the history variable
it bounds ("deadline minus now plus time already spent is at most the length"),
with one turn of slack in the half of a turn before the scheduler runs (`Late`).
`ScanOffAlways` needs no assumption about the clock.

`OutputHardwareProofs` proves `HandlerInv` for any number of channels and any set
of pins, and from it the five guarantees of the `outputs` run
(`RollbackGivesBackUntaken` among them). The guarantees speak
of the end of a handler; the invariant says what each loop has established for the
channels behind it: set up or released (`RebuildProgress`), loaded
(`ApplyProgress`), given back (`RollbackProgress`). The hard part is
`RejectedKeepsConfig`: the first rebuild may have moved other channels before it
fails. `EditTracked` says why this does no harm: from a consistent configuration,
a channel moves only because the edited one, still ahead, asks for its pin, and
once one has moved nothing can fail. In a rollback, channels behind the current
one are as before the preset and those ahead as at its failure; with no pin taken,
a former PWM output finds its own pin free (`OwnPinIsFree`).

`PresetStoreProofs` proves `StoreInv` and from it `DirectoryUnambiguous`,
`BootShownIsStored` and the refinement `PresetListRefined`, for any names, any
number of slots and interruptions at every write. During a deletion
`SurvivorsPacked` gives the order-preserving map from the slots already written to
the presets that survive, and `DamageBounded` what the other slots hold; the former
makes the last write a `Delete` of the abstract list, the latter makes a power loss
or a refused write a `CutDelete`.

`ToggleInputProofs` proves `ToggleInv` and the action properties `CycleGoesOn`,
`PressMoves` and `AppliedStartsAtZero`: position and direction remember where the
last press came from (`DirectionRemembered`), and a preset sets up both
(`AppliedIsSetUp`).

`RumbleQueueProofs` proves `RumbleInv`, `FewPerInput`, `RoomWhenAsked` and
`OwnRumblesOnly`, with no assumption about time. A tick asks only if a report was
stored since the last `update()`, and whoever stores a report has emptied the queue
before. So between two drains that empty it, three ticks can ask at most: the one
that is running at the first drain, one on a report stored before it, one on the
report stored after it (`LapsBounded`). An input asks once in a tick
(`OncePerLap`), so at most three of its requests wait, and none finds the queue full
if three for each rumbling input fit: five inputs, with sixteen places. The history
variable `orderly` is a premise of all of them (section 5 says what happens
otherwise).

`ApConfigProofs` proves `ConfigInv`, `OpenOnlyIfAsked` and `ShownIsNextBoot`, for
strings and limits of any length. It rests on lemmas about `trim` and
`substring`: sanitizing once may leave blanks at the end (`Flush`), sanitizing twice
leaves none, and what is clean comes back as it is, so that NVS always holds what
the next boot will use (`StoredIsClean`). What is shown may end in blanks, and a
password may be empty; an empty one in NVS is traced to the request it came from
(`EmptyWasAsked`).

`SignalPathProofs` proves `SignalInv`, `ShownIsDriven`, `NoGhostSource` and the action
property `NoiseMovesNothing`, for any number of inputs and outputs, any reports
within the range of the sticks and any numbers in requests and presets. Lemmas on
the arithmetic (`DeadzoneInt`, `ExpoRange`, `MixInt`, `SignalRange`) carry a value of
-1 .. 1, or a 0, from the stick to the pulse. `NoGhostSource` needs
`UnusedNamesNone`: a deletion clears the sources of used outputs only, so an unused
one must name none. For `ShownIsDriven`, `InvUndone` goes through what a refused
request leaves of each output: set up again, as it was, or `unrestored`. The proof
needs that a request describes an input or output in use (`draft.used = true` in the
handlers), which is an assumption of the module on the drafts.

`LearnIsRight` proves `LearnFindsIntent`. What a recursive function computes needs
induction, and the library's induction theorems cannot be instantiated here; but
induction over a *set* of good numbers can be proved once (`UpTo`, from the least
number outside it) and cited. With it `PassExists` shows that a pass over the
candidates exists, so that `BestAfter` satisfies its equation (`BestAfterSteps`), and
`PassLeads` that after n candidates it holds the first of the strongest hits among
them (`Leads`), or nothing if there is no hit. Buttons come first and have the full
strength, so none after them can be stronger.

`DeletionKeepsMix` proves `DeleteKeepsOtherTerms`: a cleared term adds 0 to a sum, is
skipped by a product, and does not count as a term when a product has no other
(`NoTermIsNeutral`, `MixCleared`). The lemma is for any values of the inputs; the
run tries three.

`PushIsMonotone` proves `PushNeverDrivesBack`, which has no run of its own: of two
reports that leave the modifiers alone, the one in which no input is pushed back
gives an additive output without negative weights a pulse at least as long (at
most, if inverted). Each stage keeps the order, roundings included (`DivMono`,
`DeadzoneMono`, `ExpoMono`, `VirtualMono`, `TermMono`, `SignalMono`, `PulseMono`). A
product does not: two negative factors give a positive one.

Only model-checked:

- the liveness properties `LinkLossReachesFailsafe` and `LiveNeedsReports`: liveness
  under fairness is out of the prover's reach. Their safety counterparts,
  `LiveIsFresh` and `LiveWasSeen`, are proved.

Every other property of a passing run is stated by a theorem.

## 5. Observations without a run of their own

- After a wrap of `millis()` during a pause or a pairing window, the plain
  comparisons of `updateBtScanScheduler` (`sketch.cpp:298`, `:311`) see a deadline
  almost 2^32 ms ahead: the pause, or pairing, lasts until something else ends it.
  This is why `NoWrap` is assumed.
- A gamepad that connects while another is adopted is ignored for good: when the
  first leaves, scanning runs although a gamepad is connected (`sketch.cpp:1071`).
  The same happens to one that connects in a lower slot in the very `update()` in
  which the adopted one leaves.
- A device that takes a slot between two polls after another left it inherits the
  adoption, whatever its class: no callback runs (`ArduinoBluepad32.cpp:42`).
- A rollback restores channel 0 while later channels still hold the pins of the
  preset that failed (`rc_model.cpp:668-676`): a PWM output whose pin one of them has
  taken comes back on another pin, possibly that of a switch, or without a servo.
  docs/SPECIFICATIONS.md:137 ("apply fails and previous config is restored") and the
  comment at `rc_model.cpp:663` say otherwise. `RollbackRestoresUntaken` shows that
  this is the only case: drop `NoPinTaken` from it and TLC finds channel 0 moved to
  another pin, because a later channel of the failed preset holds its own.
- A preset that is refused halfway leaves the values shown of its first channels
  behind, and `restoreOld` does not set up the former switches (`rc_model.cpp:673`):
  until the next tick the page may show 0 for a switch that is HIGH. If a servo was
  not attached again, what is shown for that output reaches no pin until the next
  edit or preset.
- docs/SPECIFICATIONS.md:141-143 says that failsafe puts PWM outputs at 1500 us. The
  code uses the failsafe mode of each output, 1000, 1500 or 2000 us
  (`rc_model.cpp:90`); the modules follow the code.
- A deletion that is cut short mixes up the presets stored after the deleted one
  (`CutDelete`), and repeating it may lose one of them.
- `g_pwmAttached` of a deleted output stays set. If no PWM pin is left,
  `setupOutputHardware` (`rc_model.cpp:453`) then reports success for a later
  output with that index although its pin is taken.
- A user preset may be created under a built-in name; loads then give the
  built-in one. A deletion ignores case, the comparison with the current and the
  boot model does not.
- `g_toggle3Direction = {1}` initialises element 0 only. A two-position input added
  at a higher index, pressed once, and edited to three positions does not move.
- A preset that fails to apply leaves the toggle positions of that preset behind,
  although the configuration is restored (`ApplyFailed`).
- An input that is added takes over the toggle position its index had before
  (docs/USER_GUIDE.md:99 says startup is 0); one from a preset does not.
- A switch with threshold 0 is high whenever a report arrives and low in failsafe.
  In Multiply, a source with weight 0 makes the product 0. A stick pushed fully to
  the right reads 511 of 512 and gives 1999 us. An output may be wired to an
  input that is not in use, and then shows 0.
- A failed save of the access point may leave the new name with the old password.
  A password that is valid after the first sanitizing may be too short after the
  second, and the save then fails. The page may show blanks at the end that the
  next boot drops. A password of eight blanks is trimmed to the empty one and opens
  the access point, although docs/SPECIFICATIONS.md:51-53 allows any password of 8 to
  63 characters; `OpenOnlyIfAsked` counts it among the requests that open it.
- With more than five inputs that rumble at once, three requests of each may not fit
  into the queue: the report of a device that is handled while a web request holds
  up the loop task lets further ticks ask before the next drain. The result of
  `xQueueSendToBack` is ignored, and the rumble is lost.
- A rumble that waits for a device that has left is played by the device that
  takes its slot, before its first report is stored; or, if the slot stays empty,
  ends the drain at that point (`arduino_platform.c:116`).

## 6. Not modelled, and the plan

Left out: the wording of replies, the web page, routing and captive portal; player
LED, lightbar and disconnect requests, which this firmware never makes; what a
rumble feels like; the wrap of `millis()` in the 80 ms gap between rumbles; expo
other than 0, 50 and 100 percent (`powf`); the runtime copy of the configuration
under the NVS key `cfg`, which nothing reads. The rest of the repository, about
370 000 lines, is third-party code (BTstack, Bluepad32, the Arduino core,
ESP32Servo) that the firmware reaches through the callbacks and calls modelled
here; of the firmware's own control code all that changes state is modelled.

Done, in the order of importance: the gamepad path with its refinement, scanning,
outputs, presets with their refinement, toggles, the signal path, rumbles, the
access point; and the proofs of all of them, with the order the signal path keeps
as the last. Left: `System`, `ControlLoop` composed with the outputs and their edits
between ticks, so that failsafe is stated of the servos in one module. Today
`ControlLoop` says when the outputs are told to stop, and `OutputHardware` which
servos that reaches.
