# A TLA+ model of AThermostat

AThermostat is ESP32-S3 firmware that drives a dual-stage heat pump with a gas
furnace.  This directory holds a model of its control logic in TLA+, the TLC
runs that check it on small instances, and TLAPS proofs of the properties that
matter most.  Source paths below are relative to the repository's root.

## 1. The system

### 1.1 Who runs

| Task | Runs | Touches |
|---|---|---|
| loop (TaskScheduler) | `Thermostat::update()` each second, input queue check each 500 ms, debounce and pin callbacks, periodic state save (5 min), `checkOverride()` (5 s), MQTT publications, reconnect timers | everything |
| AsyncTCP | HTTP handlers (`WebHandler.cpp`), MQTT callbacks (`MQTTHandler.cpp`) | mode, setpoints, force flags, overrides, temperature, config file, sessions, FTP window |
| httpd | HTTPS handlers (`HttpsServer.cpp`) | the same, and firmware images, reboot flags |
| WiFi events | `onWiFiEvent()` | MQTT and AP timers |
| interrupt | `inputISRChange()` | the input queue |

No state is locked.  Every object is shared as it is.

### 1.2 Components

* **Thermostat** (`src/Thermostat.cpp`): mode, action, heat and cool level,
  defrost flag and the level saved by it, fan idle cycle, five timestamps.
  `update()` decides once a second; web, MQTT and CAN handlers call the
  setters.  It drives the outputs and reads the inputs.  Correct when the relays
  match the reported level, runs are bounded and rested between, OFF is off, and
  a call for heat is served.
* **OutPin** (`src/OutPin.cpp`): the software state of one relay, the operator's
  override with its end time, a delayed callback that drives the pin again.
  Called by Thermostat on the scheduler and by the pins page on a web task.
  Correct when the pin shows the override while one is in force and the
  commanded state otherwise.
* **InputPin** (`src/InputPin.cpp`, `src/main.cpp:206-223, 346-361`): interrupt,
  queue, debounce task.  Correct when a settled pin is eventually reported and a
  glitch never is.
* **Boot** (`src/main.cpp:451-746`): crash counter in RTC memory, safe mode, reboot
  flags, the periodic save of the mode.  Correct when safe mode follows the
  crashes, a mode survives a restart and a requested reboot happens.
* **Config** (`src/Config.cpp`): the JSON file on flash and its copies in memory;
  load, full save, partial save, format.  Three tasks write it.  Correct when
  what a restart loads is what the device runs with, as far as saves have reached it.
* **Settings** (the configuration forms and `/api/...` handlers of both web
  servers, `onSaveThermostatState()`): a value in use, one in `proj`, one in the
  file, and each handler writes some of the three.  Correct when the device runs
  with, and restarts with, what was last asked for.
* **Network** (`src/main.cpp:227-305, 418-445`, `src/MQTTHandler.cpp`,
  `src/HttpsServer.cpp`): station and access point, the test of a new network, MQTT
  reconnects.  Events come from the WiFi and TCP tasks.  Correct when the device
  stays reachable and tries its broker again.
* **Sessions** (`src/SessionManager.cpp`): five slots with tokens and the millis()
  of their last request, shared by both web servers.  Correct when live sessions
  survive and expired ones do not, across a wrap of millis(), and when a logout
  is final whatever the other server does meanwhile.
* **OTA** (`src/OtaUtils.cpp`): upload, apply, backup, revert, on three tasks.
  Correct when the backup can be reverted to; that only whole images run is left to
  the `Update` library and the boot loader (section 7).
* **Logger** (`src/Logger.cpp`): ring buffer in memory and rotated files on flash,
  to which every task logs.  Correct when the pages show the latest messages in
  their order and the files stay in the order of their age.
* **CAN** (`src/CANBus.cpp`, `src/main.cpp:616-712`): the driver, its receive
  queue, a poll each 10 ms, status and command frames; a command calls the same
  setters as the web.  Correct when the last command rules, a setpoint survives
  the way through bytes and floats, and the board comes back from bus-off.
* **FTP window** (`src/main.cpp:590-612, 727-732`): the web task opens and closes
  the server, `loop()` closes it when its time is over.
* Web pages, HTTP routing and authentication, the pressure sensor and the
  allocator are not modelled (section 9).

PROJECT.json lists, with its line, every place where this code is hard to test,
and the properties that watch it.

## 2. Plan

Modules in the order they were written, and what each composes:

| Module | Models | Builds on |
|---|---|---|
| `Relays` | modes, levels, the outputs of a level | |
| `Thermostat` | the controller, one step per handler | `Relays` |
| `RunCycle` | abstract: bounded runs, rest between them | |
| `ThermostatRuns` | refinement of `RunCycle`, liveness | `Thermostat`, `RunCycle` |
| `ThermostatClaims` | what comments say of the relays, each violated | `Thermostat` |
| `ThermostatTasks` | `update()` against `setMode()`, relay by relay | `Relays` |
| `TemperatureAge` | `update()` against the MQTT callback, on a wrapping clock | |
| `OutPin`, `InputPin` | one relay, one input | |
| `Interleavings` | the one run of the four above: what the scheduler shares with a task or an interrupt | `ThermostatTasks`, `TemperatureAge`, `OutPin`, `InputPin` |
| `Boot`, `Network`, `Sessions` | what runs around the controller | |
| `SessionRace` | the session table access by access, under both servers | |
| `CanBus`, `CanFrames` | driver, queue and poll; the arithmetic of a setpoint frame | |
| `FtpTimer` | the FTP window between the web task and `loop()` | |
| `Board` | the one run of the seven above | all of them |
| `ConfigStore`, `Settings`, `Ota` | the file, the copies of one setting, the firmware images | |
| `LogFiles`, `LogRing` | the log's files and its ring, under two tasks that log | |
| `Storage` | the one run of the five above | all of them |
| `ThermostatProofs`, `ThermostatRunsProofs` | proofs of the controller and of its refinement | `Thermostat`, `ThermostatRuns` |
| `ThermostatTasksProofs` | proofs of `update()` against other tasks | `ThermostatTasks`, `TemperatureAge` |
| `OutPinProofs` | proofs of one output and one input | `OutPin`, `InputPin` |
| `BootProofs` | proofs of boot, safe mode and the saved mode | `Boot` |
| `SessionProofs` | proofs of the session table by the clock and access by access | `Sessions`, `SessionRace` |
| `LinkProofs` | proofs of what connects the device | `Network`, `CanBus`, `CanFrames`, `FtpTimer` |
| `StorageProofs` | proofs of what is kept | `ConfigStore`, `Settings`, `Ota`, `LogFiles`, `LogRing` |

What the plan has left:

1. A second refinement: `OutPin` with serial calls as an implementation of the output
   `Thermostat` sees, which drops commands while an override is in force.
2. The temperature payload (section 8) as an operator with a reference.
3. The pages' own files (upload and removal under `/www`), which nothing else
   depends on, and the CPU load average, which is only shown.

## 3. How the models correspond to the code

**Time.** A tick stands for the scheduler's second.  `Thermostat` replaces a
timestamp by its age, `millis() - timestamp`, and stops counting one past the
largest threshold it is compared with: no guard of the code can tell larger ages
apart.  Where the unsigned arithmetic itself matters, the clock is a counter modulo
`Word`, `InputWord`, `ClockValues`, `ClockWords` or `Wrap`: `OutPin`, `InputPin`,
`TemperatureAge`, `FtpTimer`, `Sessions`.

**`Thermostat`.** The record `ctl` is the part of the object `update()` rewrites;
`on` is the software state of the eight outputs, `override` the overrides in
force.  `Update` is the whole of `update()` (`src/Thermostat.cpp:60-123`) as a
composition of its parts in the order the code calls them: stale check, defrost
edges, maximum run time, then heating, cooling and fan cycle by mode, with its
early returns.  `SetMode`, `SetCurrentTemperature`, the setpoints and the flags are
the setters; `OutTempChange` and `DefrostChange` are the debounced inputs;
`ForceOutput` and `ReleaseOutput` the overrides as Thermostat meets them (a command
to an overridden output is dropped); `Reboot` comes back in any mode.

**`ThermostatTasks`.** One step per relay command, in the order of `OutputIdx`.
What `update()` decides is left open to the outcomes `Thermostat` derives; whether
the action is written before or after the relays follows the code.

**`OutPin`.** Every access to a shared field is a step; `pc` and `arg` are per task.
`CheckOverride` is the poll, `Callback` the delayed task.

**`InputPin`.** `Edge` is `inputISRChange()`; the scan is two steps, the read of the
pin and the erase of the queue entry, with the interrupt free to come between;
`Confirm` is `InputPin::Callback`.  `CheckTickTime` compares `now` with a sum that wraps, as
the code does.

**`Boot`.** One phase per callback of the first pass of `loop()`, in the order the
tasks were created, since each is `enable()`d without a delay.  RTC memory holds
anything at power on.

**`Network`.** `link` and `event` are the driver; `GotIp` and `Lost` the two branches of
`onWiFiEvent()`; `WaitEnds` and `APReconnect` scheduler tasks; `TestBegins`,
`TestSucceeds`, `TestFails` the runs of the WiFi test task; `Retry` and
`RetryDisable` the two halves of the MQTT reconnect task; `OnConnect`,
`OnDisconnect` the MQTT callbacks.  With `Serial = TRUE` a callback waits for the
call of another task to end and the driver reports a lost connection before the
next call; with `FALSE` it need not.

**`Sessions`.** `stamp` is `lastActivity`; `Expired` is the test of `cleanup()` on an
unsigned difference; `idle` is the true time since the last request, a history
variable the properties compare with.  `holder` tells a slot's session from the one
an eviction puts in its place.

**`ConfigStore`.** A save is two steps: the document is built, then written.
`formatFS()` is two as well, and its second may fail.  A crash may come between any
two.  `inUse` and `settings` are the two copies of the settings in memory: `FanIdle`
changes the first only.  `Load` is the part of `setup()` that reads the file, in safe mode
or not; `unsaved` names the fields that no save has written yet.

**`Ota`.** Each task's call is a program counter `step` and the `image` it has
opened.  An image is a build and whether it is whole.

**`Settings`.** One setting of each kind the handlers tell apart, followed alone:
`live`, `proj` and `flash` are its three copies.  `HttpsForm` and `HttpForm` are the
two configuration forms with their different fields and answers, `Api` the
handlers that change the value in use only, `SaveThermostatState` the five-minute
task.  `Restart` leaves the mode `Off` in safe mode.  `asked` is what a request last asked
for.

**`SessionRace`.** `Keep`, `Expire` and `Wipe` are `cleanup()` slot by slot, `Scan` to
`Answer` the rest of `createSession()`, `Find` and `Drop` `invalidateSession()`.  A
token is the pair of the logins that wrote its beginning and its end, so that
mixed ones can be told.

**`CanBus`.** `Arrive` is the driver's interrupt; `Poll` begins the scheduler's task,
`Receive` takes a frame off the queue, `Deliver` is the callback of `main.cpp` with it, `Status`
the look after the driver that ends the poll.  The driver and the web go on between
any two of these, the sending tasks (`Publish`) do not: they run on the same loop.
`Choose` is one of the same setters called by the web.  **`CanFrames`** carries a setpoint
through `Bytes`, `Signed`, and a 24-bit float, for every `int16_t`.

**`FtpTimer`.** Each write of the two shared variables is a step: `FtpEnable`,
`SetStopTime`, `FtpDisable`, `ClearStopTime` on the web task, `FtpTest`, `FtpEnd`,
`FtpClear` in `loop()`.

**`LogRing`.** `Format` to `GrowCount` are the accesses of `log()` and
`addToRingBuffer()` in their order; a message is known by its age.  `Entries` is the
index arithmetic of the log pages.  **`LogFiles`** has one step per file operation
of `writeToFile()` and `rotateLogFiles()`, for each of two tasks; a generation is
known by its age.

**Sums.** `Interleavings`, `Board` and `Storage` each join models that share no
state.  Their variable `part` names the one that moves; the others stay in one of
their initial states.  A property of one part is thus checked in exactly the
behaviours of that part, and the state spaces are added and not multiplied.

**Mutants.** A definition named `X_Something` before a definition `X` is a
plausible wrong version of it, kept to show that a property of the runs notices.

## 4. Runs

| Run | Checks | Bounds, and why they are enough |
|---|---|---|
| `heat_runs` | relays of a heating run, defrost, levels change when the code has a reason, minimum on time | modes OFF, HEAT, COOL; three temperatures: below, within and above the band; both flags and inputs free; `MinOn` 2 < `MaxRun` 4, so a run can be too short, long enough, and too long; `EscDelay` 2, so that it escalates twice |
| `auto_runs` | a cooling run's relays; implements `RunCycle` | HEAT_COOL, FAN_ONLY and OFF; two cool setpoints, one of them below the heat setpoint, so that both may call; fan cycle on and off; both inputs free |
| `liveness` | interlock and OFF under overrides; every run ends; heat is served | the compressor may be forced and released; `MaxRun` 1 and no flags keep the graph small enough for liveness; COOL is there to leave a defrost flag behind |
| `interleavings` | an output's intent and both bounds of its override; settled and glitching input; reversing valve against furnace in every interleaving; OFF when calls do not overlap; the age of the temperature | an override of 2 ticks polled every 2, so a poll may fall before, on and after its end; debounce 8, scan 2, settle 1: the order of the code's times; all modes; a clock of 8 values and a limit of 3, so that it wraps many times; the input's has 16 |
| `board` | safe mode, the saved mode, reboot; reachability, reconnect; sessions by the clock and logouts under both servers; CAN commands and setpoints; the FTP window | two crashes to safe mode (code 3); two networks; fallback after 2 losses (code 60); 3 slots by the clock (code 5), timeout 2 or none, 5 clock values, a request at least every 2 ticks; 2 slots and 3 logins access by access, so that a login meets a full table and another login; a queue of 2 frames (code 16), two setpoints, a mode byte inside the enumeration and one outside; all 65,536 setpoints of two bytes; FTP windows of 1 and 2 ticks on a clock of 6 |
| `storage` | file and memory agree; a setting's three copies; a usable backup; the log's ring and its generations | two of everything in the configuration; three values of a setting, one of them OFF; three builds (running, older, newest), symmetric; 3 ring slots (code 500); 0, 1 or 3 generations, 1 message per file; two tasks that log |
| `claim_max_run` | violated: `MaxContinuousRun` | section 8 |
| `tasks_race` | violated: `OffStaysOff` | section 8 |
| `boot_https_reboot` | violated: `HttpsRebootHappens` | section 8 |
| `ap_return` | violated: `StationReturns` | section 8 |
| `format_credentials` | violated: `CredentialsPreserved` | section 8 |
| `can_bus_off` | violated: `BusRecovers` | section 8 |

The modes are split over `heat_runs` and `auto_runs`; the proofs of section 6 have no
such split.  In every passing run each action and each disjunct of its next-state
relation fires.  Bounds in the guards: `MaxResets` caps the counted crashes in
`Boot`; `Horizon` the ticks in `OutPin` and the time without a cleanup in
`Sessions` (`cleanup()` runs with a request: with none for a whole wrap of millis()
an expired session would look fresh again); `LastLogin` the logins in `SessionRace`;
`RxMax` the frames in the queue, as the driver does; `MaxAge` the age of a
generation in `LogFiles`.
The symmetry in `Storage` permutes builds, which are only compared for equality,
and that run checks no liveness.

Deadlock is checked in every run.

## 5. Fairness

* `ThermostatRuns`: weak fairness of `Tick` and `Update`, the scheduler's pass.  No
  setter, input or override has to come.  `HeatCallServed` assumes in addition that
  fresh temperatures keep coming and that `update()` sometimes finds the defrost
  input clear.
* `Boot`: weak fairness of `Setup`, of the tasks and of `Restart`.  Operators,
  crashes and power cuts are never owed.
* `Network` (`NetFairSpec`, for `ap_return`): event handlers and scheduler tasks are
  weakly fair; joining a network is strongly fair, since the device may lose
  its link again and again.  Losses, operators and the broker are not.
* `CanBus` (`CanFairSpec`, for `can_bus_off`): the steps of the poll and the end of a
  recovery the driver has begun are weakly fair; the driver does not refuse the
  recovery for ever, which is strong fairness of the `Status` that begins it.
  Frames, errors and operators are never owed.

`board` takes the fairness of `Boot`, for `HttpRebootHappens`.  The other runs check
safety only and assume none.

## 6. Proofs

All are checked by TLAPS for every value of the constants, under the assumptions
named in the modules (`ModesAssumption`, `TimesAssumption` ...), which TLC evaluates.

**Thermostat** (`ThermostatProofs`).  The inductive invariant is `Inv`: `TypeOK`,
`ControlOK(ctl)` (the relays, the defrost flag and the levels of a run fit
together, and the interlock), `OffMeansOff` and `RunSuitsMode`.  The relay
property alone is not inductive: what `exitDefrost()` restores depends on the saved
level, and whether `update()` may start a run depends on the mode.  `update()` is a
composition of intermediate states, so the proof goes part by part: each part
takes a control state that satisfies `ControlOK` to one that does, by a `GoodStep` (a
run that goes on keeps its start and changes its level only when due; one that ends
is old enough or too old), and `GoodStep` is transitive.  `Inv` yields `TypeCorrect`,
`HeatingRelays`, `CoolingRelays`, `DefrostSafe`, `Interlocked` and `OffIsOff`; `GoodStep`
yields the action properties `LevelChangesAreDue` and `MinOnRespected`.  Overrides are
arbitrary: the theorems speak of the outputs that may not be overridden.

**Runs** (`ThermostatRunsProofs`).  `RunsInv` adds that a run is no older than `MaxRun`,
plus one tick while `update()` is due, and that the age `canTurnOn()` consults never
exceeds the true rest.  It gives `RunTimesInvariance` and `Refinement`: every step of the
controller is a step of `RunCycle` or a stutter.  `RunTimes` is proved and not in a run.

**Tasks** (`ThermostatTasksProofs`).  Only `update()` turns relays on.  `TaskInv` says
what is on at each of its steps: while it turns relays off, what is on is still to
be turned off; while it turns its plan on, everything on is part of one pattern,
and no pattern mixes heat and cool (`NeverMixed`).  `SerialInv` adds that without an overlap one
of the tasks is idle (`SerialOff`).

**Temperature** (the same module).  `update()` sees a difference modulo the clock, so
`DecidesOnFreshTemperature` needs to know that no difference it computes has
started again at 0.  `FreshInv` says so: while `update()` looks in every tick, the true
age is the computed one and at most `Stale` + 2.  `AgeInv` relates the age to what each
task has read so far; with it come `FreshDecisions` and `FreshStays`.  The assumption is
a clock of more than `Stale` + 2 values; the code's has 2^32 against 5 minutes.

**OutPin** (`OutPinProofs`).  `IntentInv` describes each program counter: what the call
is about to drive is what is meant.  `IntentShown` assumes `Serial = TRUE`;
`TimeoutBounded` and `TimeoutNotEarly` also that the clock does not wrap within the
horizon (`NoWrap`); both assumptions are needed, see `OutPinRace.cfg` and
`ClockWraps.cfg`.

**InputPin** (the same module).  `SettleInv`: unless its edge was lost, or is stuck since a
wrap of millis(), the level of the pin
waits in the queue, was read by a scan, or is the confirmed one, and the first two
have a deadline, which the true time since the edge is compared with.  It gives
`SettledIsRead` for all delays and periods.  `GlitchInv` follows a running delay: either
nothing came since the scan that began it and the level was held since, or edges
came, and then the time since that scan exceeds the longest hold by no more than the
rest of a scan period, or of two when the first scan found the pin unsettled.  A third
edge leaves the pin at the other level, so a delay for this one confirms nothing.
`GlitchesAreDiscarded` assumes `Settle <= ScanPeriod` (50 ms against 500 ms): with a settling
time of three scan periods several scans pass over an edge, and TLC refutes the property.

**Boot** (`BootProofs`).  `CounterInv`: from `setup()` on the counter equals the crashes
counted, and before it is made equal by the reason of the reset.  `ChosenInv`:
mode, copy and file hold only chosen modes as long as no safe-mode boot came
(`SavedModeWasChosen`, proved and not in a run).  `SavedInv` ties the age of an unsaved
mode to the save task's own timer: it is no older than the time since the task last
ran, so the next run saves it in time (`ModeIsSaved`).

**Sessions** (`SessionProofs`).  By the clock: `IdleInv` says that the difference
`cleanup()` computes is at most the true idle time, and is that time before a wrap.  From
it, `cleanup()` keeps a session no older than the timeout and, unless a stamp has wrapped, the oldest slot is evicted (`OldestIsEvicted`); that the search for the
oldest finds one follows from the order of the natural numbers being well-founded (`LeastNat`).  A login
into a full table ends a session: that all slots then held sessions no older than
the timeout (`SessionsSurvive`), and that no request is accepted for an older one
(`ExpiredSessionsAreEnded`), assume `ClockSuffices`, that no time without a cleanup reaches
from the timeout to the wrap; `QuietInv` bounds a session's age by the time since
the last cleanup.
Access by access: `LogoutInv` says that a token's beginning lies in one slot at most,
since a login writes it once into the slot it took; a logout that found it is about
to wipe that slot, and afterwards it is nowhere.  `LogoutsAreFinal` holds for any
number of slots and logins.

**Network** (`LinkProofs`).  `NetInv`: the pending event tells how the station stands
(`EventInv`), the station joins no other network during a test (`TestInv`), and the
reconnect task is off only while the client is on or an event is to come that starts
it again (`RetryInv`).  `DeviceStaysReachable`, `ReconnectStaysArmed` and `OnlyTestedNetworks`
assume `Serial`, without which TLC refutes each of them (section 8); `NetTypesHold` does not.

**CAN** (the same module).  With frames in the queue the control is not the wanted
one yet.  `CommandInv` says that obeying the frame in hand and the rest of the queue leads
there: the last frame for the field carries the wanted value, or none is left (`Leads`).  It holds for any
queue length and gives `CommandsAreObeyed`.  `EchoesAreExact` is arithmetic: the setpoint
times its power of two is a multiple of 16, so that its tenth is rounded by at
most 4/10 and never a tie, and rounding the product to a multiple of 8 or 16
takes the error back, the tie at 4 included, since it goes to the even side.

**FTP** (the same module).  `WindowInv`: as long as the web task and `loop()` do not meet, and
the clock does not wrap before the end, the end that is set is now plus what is left.

**Settings** (`StorageProofs`).  Running and saved value are as asked (`RunsAsAsked`,
`SavedAsAsked`) only together with `proj`, which the forms compare with and copy
from; `ProjInv` adds it, with the OFF that a boot in safe mode leaves in use and the next
save puts into the other two.

**ConfigStore** (the same module).  `Alone` and `DocInv`: without an overlap one call is under
way, and the document it is about to write holds what is in memory.  The assumption
`AbsentAssumption` says that the marker of a missing file is no file.

**OTA** (the same module).  `BackupStaysUsable` needs the program counters: past its backup an apply has left the running build there, a revert
writes the one it opened, and whichever partition boots next, the backup holds one of
the two builds (`BackupInv`).

**Log** (the same module).  `RotationInv`: a rotation on its own moves the files from the last to
the first, so that halfway file `i` holds generation `i` up to the gap and `i - 1` past it
(`Halfway`); the files that exist are in the order of their age whatever happened
(`Ordered`).  `RingInv` does the same for the ring: what is at the head between the
steps of `addToRingBuffer()`, and what lies `k` slots before it (`Back`).

Every safety invariant and every action property of the runs is stated by a
theorem, and the refinement of `RunCycle`.

**Only model-checked**: liveness, which these provers do not do: `EveryRunEnds`,
`HeatCallServed`, `HttpRebootHappens`; and what the violated runs and the configurations of
section 8 refute.

## 7. What is taken from outside

* TaskScheduler runs a task enabled without a delay in the next pass of `loop()`.
  `update()` runs once per tick.
* LittleFS keeps the old content of a file until the writer closes it, and a rename
  replaces its target.  It serves one operation at a time; a rename may fail, as
  it does while another task has the file open.
* The TWAI driver drops a frame when its queue is full, goes off the bus after too
  many errors, and ends a recovery in its stopped state (ESP-IDF's manual).
* `float` is IEEE 754 with rounding to nearest, as the compiler's library has it.
* `Update` serves one update at a time and verifies an image; the boot loader
  falls back to the running partition.
* The WiFi driver joins only the network `begin()` asked for, and goes on trying.
* A certificate is installed, so that HTTPS runs after the first address; MQTT is
  configured.

## 8. Where the code does not do what it says

Findings, each a run of its own:

| Property | What happens |
|---|---|
| `MaxContinuousRun` | a change between two modes other than OFF leaves the relays on with action IDLE; the run limit no longer applies to them |
| `OffStaysOff` | `setMode(OFF)` inside an `update()`: the update turns relays on afterwards, and mode OFF never looks again |
| `HttpsRebootHappens` | the HTTPS handlers' reboot task only sets a flag that nothing reads |
| `StationReturns` | `onAPReconnect()` returns in AP mode, the only time its task runs |
| `CredentialsPreserved` | `formatFS()` writes the factory secrets of `saveConfiguration()` |
| `BusRecovers` | the recovery from bus-off ends with a stopped driver, and only `begin()` calls `twai_start()` |

More deviations, each with a configuration TLC refutes (they are kept beside the
runs and not among them; where a configuration has several properties, TLC refutes
each of them alone):

| Configuration | Property | What happens |
|---|---|---|
| `ClaimCompressorRest` | `CompressorRests` | defrost and its end switch the compressor without the minimum off time |
| `ClaimCoolMinOn` | `CoolRunsMinOn` | a defrost flag left over from heating ends a cooling run early |
| `ClaimIdleLevel` | `IdleBetweenModes` | heating relays left on by a mode change become cooling relays in one step |
| `ClaimIdleLevel` | `LevelRelaysOn` | the fan cycle turns relays off and keeps the reported level |
| `ClaimIdleLevel` | `SwitchesBackToHeatPump` | "Check if out_temp_ok changed and we should switch HP <-> Furnace" (`src/Thermostat.cpp:192`): the code below it only leaves the heat pump; a run stays with the furnace when the outdoor temperature is good again |
| `ClaimOverride` | `OverrideEndsOff` | OFF during an override is dropped for that relay; its release turns it on again in mode OFF |
| `OutPinRace` | `PinShowsIntent` | a command and an override overlap, and the pin keeps a state nobody recorded |
| `ClockWraps` | `OverrideLastsItsDuration` | an override set shortly before millis() wraps ends at the next poll |
| `ClockWraps` | `SettledInputIsConfirmed` | an edge queued shortly before millis() wraps, back to the level `initPin()` read, waits for the whole next round of millis() (`src/main.cpp:219`), 49 days |
| `BootClaims` | `SafeModeKeepsMode` | the first save of a safe-mode boot persists OFF |
| `BootClaims` | `CrashLoopIsCaught` | the counter is cleared in the first pass of `loop()` and not after 30 s |
| `BootClaims` | `RapidRebootsAreLimited` | so is the counter of quick reboots |
| `BootClaims` | `ForcedSafeModeIsEntered` | no boot reads `forceSafeMode` |
| `SessionsEvictOldest` | `AlwaysEvictsOldest` | after a wrap of millis() the smallest stamp is not the oldest |
| `SessionTokens` | `TokensAreWhole` | two logins take the same slot, mix their tokens or are answered with the same one |
| `CanMode` | `CanModeIsAMode` | any byte a display sends becomes the mode, is published again, and is saved and restored like the others |
| `SettingsClaims` | `AppliedMeansApplied` | the form says "applied" of a setpoint it compared with `proj` only, and of log limits read at boot |
| `SettingsClaims` | `UntouchedFieldStays` | a form sent as the page showed it puts `proj`'s value in the place of the one in use |
| `FtpClaims` | `FtpTimesOut` | `loop()` clears the end a request has just set, and FTP stays on |
| `FtpClaims` | `FtpLasts` | a window opened shortly before millis() wraps closes at once |
| `RingCrossing` | `NothingIsOverwritten` | two tasks put their messages into the same slot of the ring |
| `LogCrossing` | `OnlyFullLogsRotate` | of two tasks that found the log full, the second rotates the new one |

The passing properties name the following weak spots in their premises:

* `disturbed` (`TemperatureAge`): an `update()` while a temperature arrives may call it
  stale, and in mode OFF nobody ages it, so after a wrap an old one is fresh.
* `overlap`, `unsaved` (`ConfigStore`): overlapping saves lose one of the two; a failed
  save, or a format that cannot mount or open a file again, leaves memory ahead of
  the file; `/api/fan_idle` saves nothing, and the next full save writes `proj`, so
  that a restart returns to the settings of before it.  A crash between erase and
  rebuild of `formatFS()` loses everything.
* `lost`, `straddled` (`InputPin`): an edge between the scan's read and its erase is not
  seen until the next edge; nor is one that waited while millis() wrapped
  (`ClockWraps`), and the next edge may then be confirmed without its delay.
* `Serial` (`Network`): with `FALSE`, TLC refutes `ReconnectArmed` (the task disables
  itself after `onDisconnect()` enabled it), `TestedNetworkIsSaved` (the first run of
  the test believes the status of the old connection) and `StaysReachable` (an address arriving while the test fails cuts the device off).
* `stopped` (`Network`): `stopAPMode()` switches the station on and asks it to join
  nothing.
* `raced` (`CanBus`): a frame that waited in the queue, or for its callback, overrules a
  later choice of the same field on the web.
* A login that finds all slots taken by live sessions ends the oldest (`Sessions`).
* `safe` (`Settings`): after a boot in safe mode the device runs with OFF, and the first
  periodic save writes it over the mode that was asked for.
* `blind`, `dirty` (`Settings`): the form's setpoint is compared with `proj`; what
  `/api` changed is lost by a restart within five minutes, and a form whose save
  failed has still changed what runs.
* `mixed`, `crossed` (`FtpTimer`): the two configurations above.
* `out` (`SessionRace`): a logout whose cookie is in no slot at that moment ends
  nothing; the cookie, which the other server's unfinished login handed out, may
  be accepted later.  `cleanup()` compares a `now` of its own with a stamp the
  other task has renewed; the difference wraps and the live session ends.
* `clear` (`LogRing`): messages of two tasks at once may overwrite each other.
* `rotations`, `fewer` (`LogFiles`): a rename that keeps failing costs one generation
  per message, two rotations at once one; a smaller configured number leaves older
  generations behind; 0 still keeps one.
* `skipped` (`Ota`): a backup cut off by a reset is not whole.

More that the models abstract away: a file system that cannot be mounted at boot
(nothing is loaded or saved then); `timeoutMinutes * 60000` overflows for large
timeouts; two tasks that assign one `String` of the ring, or read a setpoint's
`float` while it is written, are data races of C++, which the models resolve access
by access; and `atof()` makes 0.0 of a payload such as "unavailable", which the range
test of the temperature accepts (`src/MQTTHandler.cpp:162`).

## 9. Not modelled

Web pages and scripts, and the upload and removal of pages; HTTP routing,
authentication and JSON (the handlers that change the controller, the network, the
files, the settings and the sessions are actions of those models); the pressure
sensor (display only); the allocator; certificates and encryption of stored secrets;
the CAN status frames but for their mode and setpoint; the CPU load average; MQTT
publications and log sinks (serial, MQTT, WebSocket); PWM outputs, the runtime callback and analog inputs, which nothing
configures.

## 10. Running the checks

`tlc -config MCHeat.cfg ThermostatRuns.tla`; PROJECT.json names the module and the
configuration of every run.  `tlapm ThermostatProofs.tla` checks a proof module.
The longest runs are `board` and `liveness`, about a minute and a half to two
minutes each.
