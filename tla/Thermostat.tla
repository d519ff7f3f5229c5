----------------------------- MODULE Thermostat -----------------------------
(***************************************************************************)
(* The HVAC controller of src/Thermostat.cpp: update() once a second on    *)
(* the scheduler, the setters the web, MQTT and CAN handlers call, the two *)
(* debounced inputs, the operator's pin overrides and a reboot.  Each      *)
(* handler is one step here; ThermostatTasks takes update() and setMode()  *)
(* apart.                                                                  *)
(*                                                                         *)
(* Time is a count of ticks.  A timestamp of the code (_lastActionChange   *)
(* ...) is modelled by its age, millis() - timestamp, which stops counting *)
(* one past the largest threshold it is compared with.                     *)
(***************************************************************************)
EXTENDS Relays, Integers

CONSTANTS
    Modes,          \* the modes a handler may ask for
    Temps,          \* the temperatures MQTT may report
    HeatSetpoints,  \* the heat setpoints a handler may set
    CoolSetpoints,  \* the cool setpoints a handler may set
    Deadband,       \* heatDeadband and coolDeadband
    Overrun,        \* heatOverrun and coolOverrun
    MinOn,          \* minOnTimeMs, in ticks
    MinOff,         \* minOffTimeMs
    MaxRun,         \* maxRunTimeMs
    EscDelay,       \* escalationDelayMs
    FanWait,        \* fanIdleWaitMin
    FanRun,         \* fanIdleRunMin
    Stale,          \* the 5 minutes after which a temperature is stale
    FlagValues,     \* the values a handler gives forceFurnace and forceNoHP
    FanIdleValues,  \* the values a handler gives fanIdleEnabled
    InputValues,    \* the levels the two debounced inputs take
    Overridable     \* the outputs the operator overrides from the pins page

ASSUME ModesAssumption == Modes \subseteq Mode /\ "OFF" \in Modes
ASSUME TempsAssumption ==
    /\ Temps \subseteq Int /\ HeatSetpoints \subseteq Int /\ CoolSetpoints \subseteq Int
    /\ Deadband \in Int /\ Overrun \in Int
ASSUME TimesAssumption ==
    /\ MinOn \in Nat /\ MinOff \in Nat \ {0} /\ MaxRun \in Nat
    /\ EscDelay \in Nat /\ FanWait \in Nat /\ FanRun \in Nat /\ Stale \in Nat
ASSUME ValuesAssumption ==
    /\ FlagValues \subseteq BOOLEAN /\ FanIdleValues \subseteq BOOLEAN
    /\ InputValues \subseteq BOOLEAN /\ Overridable \subseteq Output

VARIABLES
    mode,         \* _mode
    ctl,          \* what update() rewrites, see Control
    temp,         \* _currentTemp (NoTemp for NAN)
    sinceTemp,    \* the age of _lastTempUpdate
    heatSP,       \* _heatSetpoint
    coolSP,       \* _coolSetpoint
    forceFurnace, \* _forceFurnace
    forceNoHP,    \* _forceNoHP
    fanIdle,      \* _config.fanIdleEnabled
    outTempOk,    \* _inputs[IN_OUT_TEMP_OK]->isActive()
    defrostIn,    \* _inputs[IN_DEFROST_MODE]->isActive()
    override,     \* the overrides in force: output -> forced state
    due           \* update() has not yet run in this tick

vars == <<mode, ctl, temp, sinceTemp, heatSP, coolSP, forceFurnace, forceNoHP,
          fanIdle, outTempOk, defrostIn, override, due>>
settings == <<heatSP, coolSP, forceFurnace, forceNoHP, fanIdle>>
inputs == <<outTempOk, defrostIn>>

Larger(a, b) == IF a >= b THEN a ELSE b
StartCap == Larger(MaxRun + 2, MinOn)
FanCap == Larger(FanWait, FanRun) + 1
NoTemp == -1000

Running == {"HEATING", "COOLING"}
Resting == {"IDLE", "FAN_RUNNING"}

\* The part of the object update() rewrites, with the ages of its timestamps
\* and the software state (_percentOn > 0) of each output.
Control ==
    [action: Action, heat: HeatLevel, cool: CoolLevel, valid: BOOLEAN,
     defrost: BOOLEAN, pre: HeatLevel, fanRunning: BOOLEAN,
     sinceAction: 0..MinOff, sinceStart: 0..StartCap, sinceEsc: 0..EscDelay,
     sinceFan: 0..FanCap, on: SUBSET Output]

-----------------------------------------------------------------------------
(* Outputs.  turnOn and turnOff return at once on an overridden output.    *)

Overridden == DOMAIN override

\* allRelaysOff() followed by turnOn of every output of `relays'.
Drive(s, relays) ==
    [s EXCEPT !.on = (s.on \cap Overridden) \cup (relays \ Overridden)]
TurnOn(s, out) == [s EXCEPT !.on = s.on \cup ({out} \ Overridden)]
TurnOff(s, out) == [s EXCEPT !.on = s.on \ ({out} \ Overridden)]

\* Mutants: a level is applied without allRelaysOff(), or beside a heat level.
ApplyHeatLevel_NoOff(s, level) ==
    [s EXCEPT !.heat = level, !.cool = "IDLE",
              !.on = s.on \cup (HeatRelays(level) \ Overridden)]
ApplyCoolLevel_NoOff(s, level) ==
    [s EXCEPT !.cool = level, !.heat = "IDLE",
              !.on = s.on \cup (CoolRelays(level) \ Overridden)]
ApplyCoolLevel_KeepHeat(s, level) ==
    Drive([s EXCEPT !.cool = level], CoolRelays(level))

ApplyHeatLevel(s, level) ==
    Drive([s EXCEPT !.heat = level, !.cool = "IDLE"], HeatRelays(level))
ApplyCoolLevel(s, level) ==
    Drive([s EXCEPT !.cool = level, !.heat = "IDLE"], CoolRelays(level))

\* The relays that are energised: an override forces its output's pin and
\* leaves the software state alone.
Energised == {p \in Output : IF p \in Overridden THEN override[p] ELSE p \in ctl.on}

-----------------------------------------------------------------------------
(* The guards of update(), evaluated on an intermediate state s.           *)

\* Mutant: off by one tick.
CanTurnOff_EarlyByOne(s) == s.sinceStart + 1 >= MinOn

CanTurnOn(s) == s.sinceAction >= MinOff
CanTurnOff(s) == s.sinceStart >= MinOn
CanEscalate(s) == s.sinceEsc >= EscDelay

CallsHeat == temp < heatSP - Deadband
HeatSatisfied == temp >= heatSP + Overrun
CallsCool == temp > coolSP + Deadband
CoolSatisfied == temp <= coolSP - Overrun

-----------------------------------------------------------------------------
(* The first half of update(): the temperature's age, then the defrost     *)
(* input.                                                                  *)

StaleCheck(s) == [s EXCEPT !.valid = s.valid /\ sinceTemp <= Stale]

\* Mutant: the level before the defrost is not saved.
EnterDefrost_NoSave(s) == ApplyHeatLevel([s EXCEPT !.defrost = TRUE], "DEFROST")

EnterDefrost(s) ==
    ApplyHeatLevel([s EXCEPT !.defrost = TRUE, !.pre = s.heat], "DEFROST")

\* Mutant: the run resumes at the first level.
ExitDefrost_ToFirst(s) ==
    IF s.action = "HEATING" /\ s.pre # "IDLE"
    THEN ApplyHeatLevel([s EXCEPT !.defrost = FALSE], "HP_LOW")
    ELSE Drive([s EXCEPT !.defrost = FALSE, !.heat = "IDLE", !.action = "IDLE",
                         !.sinceAction = 0], {})
\* Mutant: the flag is cleared only when the level is restored.
ExitDefrost_KeepFlag(s) ==
    IF s.action = "HEATING" /\ s.pre # "IDLE"
    THEN ApplyHeatLevel([s EXCEPT !.defrost = FALSE], s.pre)
    ELSE Drive([s EXCEPT !.heat = "IDLE", !.action = "IDLE", !.sinceAction = 0], {})

ExitDefrost(s) ==
    IF s.action = "HEATING" /\ s.pre # "IDLE"
    THEN ApplyHeatLevel([s EXCEPT !.defrost = FALSE], s.pre)
    ELSE Drive([s EXCEPT !.defrost = FALSE, !.heat = "IDLE", !.action = "IDLE",
                         !.sinceAction = 0], {})

DefrostCheck(s) ==
    CASE defrostIn /\ ~s.defrost /\ s.action = "HEATING" -> EnterDefrost(s)
      [] ~defrostIn /\ s.defrost -> ExitDefrost(s)
      [] OTHER -> s

-----------------------------------------------------------------------------
(* The second half: one disjunct per decision.                             *)

\* updateFanIdle()
FanIdleStart(s) ==
    /\ fanIdle /\ s.action \in Resting /\ ~s.fanRunning /\ s.sinceFan > FanWait
    /\ ctl' = TurnOn([s EXCEPT !.action = "FAN_RUNNING", !.fanRunning = TRUE,
                               !.sinceFan = 0], "FAN1")
FanIdleStop(s) ==
    /\ fanIdle /\ s.action \in Resting /\ s.fanRunning /\ s.sinceFan > FanRun
    /\ ctl' = TurnOff([s EXCEPT !.action = "IDLE", !.fanRunning = FALSE,
                                !.sinceFan = 0], "FAN1")
FanIdleWait(s) ==
    /\ fanIdle /\ s.action \in Resting
          => s.sinceFan <= (IF s.fanRunning THEN FanRun ELSE FanWait)
    /\ ctl' = s
UpdateFanIdle(s) == FanIdleStart(s) \/ FanIdleStop(s) \/ FanIdleWait(s)

\* updateHeating()
FirstHeatLevel ==
    IF outTempOk /\ ~forceFurnace /\ ~forceNoHP THEN "HP_LOW" ELSE "FURNACE_LOW"

StartHeat(s) ==
    /\ s.action \in Resting /\ CallsHeat /\ CanTurnOn(s)
    /\ ctl' = ApplyHeatLevel([s EXCEPT !.action = "HEATING", !.fanRunning = FALSE,
                                       !.sinceAction = 0, !.sinceStart = 0,
                                       !.sinceEsc = 0], FirstHeatLevel)

StopHeat(s) ==
    /\ s.action = "HEATING" /\ HeatSatisfied /\ CanTurnOff(s)
    /\ ctl' = Drive([s EXCEPT !.action = "IDLE", !.heat = "IDLE",
                              !.sinceAction = 0, !.sinceFan = 0], {})

\* Mutant: the level is incremented past the last one.
NextHeatLevel_PastEnd(level) ==
    CASE level = "HP_LOW" /\ ~forceFurnace -> "HP_HIGH"
      [] level = "HP_HIGH" \/ (level = "HP_LOW" /\ forceFurnace) -> "FURNACE_LOW"
      [] level = "FURNACE_LOW" -> "FURNACE_HIGH"
      [] level = "FURNACE_HIGH" -> "PAST_END"
      [] OTHER -> level
NextHeatLevel(level) ==
    CASE level = "HP_LOW" /\ ~forceFurnace -> "HP_HIGH"
      [] level = "HP_HIGH" \/ (level = "HP_LOW" /\ forceFurnace) -> "FURNACE_LOW"
      [] level = "FURNACE_LOW" -> "FURNACE_HIGH"
      [] OTHER -> level

Escalate(s) ==
    IF CanEscalate(s) /\ NextHeatLevel(s.heat) # s.heat
    THEN ApplyHeatLevel([s EXCEPT !.sinceEsc = 0], NextHeatLevel(s.heat))
    ELSE s

\* The outdoor temperature no longer allows the heat pump.
LeaveHeatPump(s) ==
    IF ~outTempOk /\ ~forceFurnace /\ ~forceNoHP /\ s.heat \in HeatPumpLevel
    THEN ApplyHeatLevel([s EXCEPT !.sinceEsc = 0], "FURNACE_LOW")
    ELSE s

HoldHeat(s) ==
    /\ s.action = "HEATING" /\ ~HeatSatisfied
    /\ ctl' = LeaveHeatPump(Escalate(s))

\* The early returns, and the actions updateHeating() does not look at.
KeepHeat(s) ==
    /\ \/ s.defrost
       \/ s.action \in Resting /\ CallsHeat /\ ~CanTurnOn(s)
       \/ s.action = "HEATING" /\ HeatSatisfied /\ ~CanTurnOff(s)
       \/ s.action \notin Resting \cup {"HEATING"}
    /\ ctl' = s

UpdateHeating(s) ==
    \/ /\ ~s.defrost
       /\ \/ StartHeat(s)
          \/ StopHeat(s)
          \/ HoldHeat(s)
          \/ s.action \in Resting /\ ~CallsHeat /\ UpdateFanIdle(s)
    \/ KeepHeat(s)

\* updateCooling()
StartCool(s) ==
    /\ s.action \in Resting /\ CallsCool /\ CanTurnOn(s)
    /\ ctl' = ApplyCoolLevel([s EXCEPT !.action = "COOLING", !.fanRunning = FALSE,
                                       !.sinceAction = 0, !.sinceStart = 0,
                                       !.sinceEsc = 0], "COOL")

StopCool(s) ==
    /\ s.action = "COOLING" /\ CoolSatisfied /\ CanTurnOff(s)
    /\ ctl' = Drive([s EXCEPT !.action = "IDLE", !.cool = "IDLE",
                              !.sinceAction = 0, !.sinceFan = 0], {})

Supplement(s) ==
    /\ s.action = "COOLING" /\ ~CoolSatisfied /\ s.cool = "COOL" /\ CanEscalate(s)
    /\ ctl' = ApplyCoolLevel([s EXCEPT !.sinceEsc = 0], "COOL_SUPP")

KeepCool(s) ==
    /\ \/ s.action \in Resting /\ CallsCool /\ ~CanTurnOn(s)
       \/ s.action = "COOLING" /\ CoolSatisfied /\ ~CanTurnOff(s)
       \/ s.action = "COOLING" /\ ~CoolSatisfied /\ ~(s.cool = "COOL" /\ CanEscalate(s))
       \/ s.action \notin Resting \cup {"COOLING"}
    /\ ctl' = s

UpdateCooling(s) ==
    \/ StartCool(s)
    \/ StopCool(s)
    \/ Supplement(s)
    \/ s.action \in Resting /\ ~CallsCool /\ UpdateFanIdle(s)
    \/ KeepCool(s)

\* HEAT_COOL: an idle system heats before it cools.
UpdateAuto(s) ==
    LET idle == s.action \notin Running IN
    \/ s.action = "HEATING" /\ UpdateHeating(s)
    \/ s.action = "COOLING" /\ UpdateCooling(s)
    \/ idle /\ CallsHeat /\ UpdateHeating(s)
    \/ idle /\ ~CallsHeat /\ CallsCool /\ UpdateCooling(s)
    \/ idle /\ ~CallsHeat /\ ~CallsCool /\ UpdateFanIdle(s)

\* updateFanOnly()
UpdateFanOnly(s) ==
    ctl' = IF s.action = "FAN_RUNNING" THEN s
           ELSE Drive([s EXCEPT !.action = "FAN_RUNNING", !.sinceAction = 0], {"FAN1"})

\* Mutant: the limit is not applied during a defrost.
Overran_NotInDefrost(s) ==
    s.action \in Running /\ ~s.defrost /\ s.sinceStart > MaxRun

\* The maximum run time ends the run whatever the temperature.
Overran(s) == s.action \in Running /\ s.sinceStart > MaxRun
MaxRunStop(s) ==
    ctl' = Drive([s EXCEPT !.action = "IDLE", !.heat = "IDLE", !.cool = "IDLE",
                           !.sinceAction = 0], {})

Decide(s) ==
    \/ Overran(s) /\ MaxRunStop(s)
    \/ ~Overran(s) /\ ~s.valid /\ ctl' = s
    \/ /\ ~Overran(s) /\ s.valid
       /\ \/ mode = "HEAT" /\ UpdateHeating(s)
          \/ mode = "COOL" /\ UpdateCooling(s)
          \/ mode = "HEAT_COOL" /\ UpdateAuto(s)
          \/ mode = "FAN_ONLY" /\ UpdateFanOnly(s)

\* update(), which the scheduler runs once in every tick.
Update ==
    /\ due /\ due' = FALSE
    /\ \/ mode = "OFF" /\ ctl' = ctl
       \/ mode # "OFF" /\ Decide(DefrostCheck(StaleCheck(ctl)))
    /\ UNCHANGED <<mode, temp, sinceTemp, settings, inputs, override>>

-----------------------------------------------------------------------------
(* The setters.                                                            *)

\* Mutants: the rest timer is not restarted; the action survives the change;
\* OFF keeps the defrost flag.
SetMode_NoRestart(m) ==
    /\ m # mode
    /\ mode' = m
    /\ ctl' = IF m = "OFF"
              THEN Drive([ctl EXCEPT !.action = "OFF", !.heat = "IDLE", !.cool = "IDLE",
                                     !.defrost = FALSE, !.fanRunning = FALSE], {})
              ELSE [ctl EXCEPT !.action = "IDLE", !.sinceStart = 0, !.sinceFan = 0]
    /\ UNCHANGED <<temp, sinceTemp, settings, inputs, override, due>>
SetMode_KeepDefrost(m) ==
    /\ m # mode
    /\ mode' = m
    /\ ctl' = IF m = "OFF"
              THEN Drive([ctl EXCEPT !.action = "OFF", !.heat = "IDLE", !.cool = "IDLE",
                                     !.fanRunning = FALSE], {})
              ELSE [ctl EXCEPT !.action = "IDLE", !.sinceAction = 0, !.sinceStart = 0, !.sinceFan = 0]
    /\ UNCHANGED <<temp, sinceTemp, settings, inputs, override, due>>

\* setMode(): OFF drops the relays; any other mode leaves relays, levels and
\* the defrost flag as they are.
SetMode(m) ==
    /\ m # mode
    /\ mode' = m
    /\ ctl' = IF m = "OFF"
              THEN Drive([ctl EXCEPT !.action = "OFF", !.heat = "IDLE", !.cool = "IDLE",
                                     !.defrost = FALSE, !.fanRunning = FALSE], {})
              ELSE [ctl EXCEPT !.action = "IDLE", !.sinceAction = 0,
                               !.sinceStart = 0, !.sinceFan = 0]
    /\ UNCHANGED <<temp, sinceTemp, settings, inputs, override, due>>

\* setCurrentTemperature(), from the MQTT message handler
SetCurrentTemperature(t) ==
    /\ temp' = t /\ sinceTemp' = 0
    /\ ctl' = [ctl EXCEPT !.valid = TRUE]
    /\ UNCHANGED <<mode, settings, inputs, override, due>>

SetHeatSetpoint(sp) ==
    /\ heatSP' = sp
    /\ UNCHANGED <<mode, ctl, temp, sinceTemp, coolSP, forceFurnace, forceNoHP,
                   fanIdle, inputs, override, due>>
SetCoolSetpoint(sp) ==
    /\ coolSP' = sp
    /\ UNCHANGED <<mode, ctl, temp, sinceTemp, heatSP, forceFurnace, forceNoHP,
                   fanIdle, inputs, override, due>>
SetForceFurnace(b) ==
    /\ forceFurnace' = b
    /\ UNCHANGED <<mode, ctl, temp, sinceTemp, heatSP, coolSP, forceNoHP,
                   fanIdle, inputs, override, due>>
SetForceNoHP(b) ==
    /\ forceNoHP' = b
    /\ UNCHANGED <<mode, ctl, temp, sinceTemp, heatSP, coolSP, forceFurnace,
                   fanIdle, inputs, override, due>>
SetFanIdle(b) ==
    /\ fanIdle' = b
    /\ UNCHANGED <<mode, ctl, temp, sinceTemp, heatSP, coolSP, forceFurnace,
                   forceNoHP, inputs, override, due>>

\* The debounced state of an input changes (InputPin::Callback).
OutTempChange(b) ==
    /\ outTempOk' = b
    /\ UNCHANGED <<mode, ctl, temp, sinceTemp, settings, defrostIn, override, due>>
DefrostChange(b) ==
    /\ defrostIn' = b
    /\ UNCHANGED <<mode, ctl, temp, sinceTemp, settings, outTempOk, override, due>>

\* POST /api/pin/override with override = true: force the pin.
ForceOutput(p, state) ==
    /\ override' = [q \in Overridden \cup {p} |-> IF q = p THEN state ELSE override[q]]
    /\ UNCHANGED <<mode, ctl, temp, sinceTemp, settings, inputs, due>>
\* The override is cleared or times out: turnOnPercent(_percentOn) drives the
\* pin from the software state, so only the override itself changes.
ReleaseOutput(p) ==
    /\ p \in Overridden
    /\ override' = [q \in Overridden \ {p} |-> override[q]]
    /\ UNCHANGED <<mode, ctl, temp, sinceTemp, settings, inputs, due>>

-----------------------------------------------------------------------------
(* Boot: initPin() of every output, begin(), then setMode(persisted mode). *)

NoOverride == [p \in {} |-> FALSE]
FreshControl(m) ==
    [action |-> IF m = "OFF" THEN "OFF" ELSE "IDLE", heat |-> "IDLE", cool |-> "IDLE",
     valid |-> FALSE, defrost |-> FALSE, pre |-> "IDLE", fanRunning |-> FALSE,
     sinceAction |-> 0, sinceStart |-> 0, sinceEsc |-> 0, sinceFan |-> 0, on |-> {}]

Init ==
    /\ mode \in Modes
    /\ ctl = FreshControl(mode)
    /\ temp = NoTemp /\ sinceTemp = 0
    /\ heatSP \in HeatSetpoints /\ coolSP \in CoolSetpoints
    /\ forceFurnace \in FlagValues /\ forceNoHP \in FlagValues
    /\ fanIdle \in FanIdleValues
    /\ outTempOk \in InputValues /\ defrostIn \in InputValues
    /\ override = NoOverride
    /\ due = FALSE

\* A restart: the persisted mode and settings may be older than the ones lost.
Reboot(m) ==
    /\ mode' = m
    /\ ctl' = FreshControl(m)
    /\ temp' = NoTemp /\ sinceTemp' = 0
    /\ override' = NoOverride
    /\ due' = FALSE
    /\ heatSP' \in HeatSetpoints /\ coolSP' \in CoolSetpoints
    /\ forceFurnace' \in FlagValues /\ forceNoHP' \in FlagValues
    /\ fanIdle' \in FanIdleValues
    /\ UNCHANGED inputs

-----------------------------------------------------------------------------
(* Time: every age grows by one.  The scheduler has run update() since the *)
(* last tick.                                                              *)

Older(age, cap) == IF age < cap THEN age + 1 ELSE age

Tick ==
    /\ ~due /\ due' = TRUE
    /\ sinceTemp' = Older(sinceTemp, Stale + 1)
    /\ ctl' = [ctl EXCEPT !.sinceAction = Older(ctl.sinceAction, MinOff),
                          !.sinceStart = Older(ctl.sinceStart, StartCap),
                          !.sinceEsc = Older(ctl.sinceEsc, EscDelay),
                          !.sinceFan = Older(ctl.sinceFan, FanCap)]
    /\ UNCHANGED <<mode, temp, settings, inputs, override>>

Next ==
    \/ Tick
    \/ Update
    \/ \E m \in Modes : SetMode(m) \/ Reboot(m)
    \/ \E t \in Temps : SetCurrentTemperature(t)
    \/ \E sp \in HeatSetpoints : SetHeatSetpoint(sp)
    \/ \E sp \in CoolSetpoints : SetCoolSetpoint(sp)
    \/ \E b \in FlagValues : SetForceFurnace(b) \/ SetForceNoHP(b)
    \/ \E b \in FanIdleValues : SetFanIdle(b)
    \/ \E b \in InputValues : OutTempChange(b) \/ DefrostChange(b)
    \/ \E p \in Overridable :
          \/ \E state \in BOOLEAN : ForceOutput(p, state)
          \/ ReleaseOutput(p)

Spec == Init /\ [][Next]_vars

-----------------------------------------------------------------------------
(* Properties.                                                             *)

\* Every variable has its type; an intermediate state of update() is one too.
TypeOK ==
    /\ mode \in Mode
    /\ ctl \in Control
    /\ temp \in Int /\ heatSP \in Int /\ coolSP \in Int
    /\ sinceTemp \in 0..Stale + 1
    /\ forceFurnace \in BOOLEAN /\ forceNoHP \in BOOLEAN /\ fanIdle \in BOOLEAN
    /\ outTempOk \in BOOLEAN /\ defrostIn \in BOOLEAN /\ due \in BOOLEAN
    /\ Overridden \subseteq Overridable
    /\ override \in [Overridden -> BOOLEAN]

\* A heating run drives exactly the relays of its level, through escalation,
\* the switch away from the heat pump and both edges of defrost.
HeatRunOK(s) ==
    s.action = "HEATING" =>
        /\ s.heat # "IDLE" /\ s.cool = "IDLE"
        /\ s.on \ Overridable = HeatRelays(s.heat) \ Overridable
HeatRunDrivesItsLevel == HeatRunOK(ctl)

\* A cooling run drives exactly the relays of its level, even when it began
\* with a defrost flag or a heat level left over from another mode.
CoolRunOK(s) ==
    s.action = "COOLING" =>
        /\ s.cool # "IDLE" /\ s.heat = "IDLE"
        /\ s.on \ Overridable = CoolRelays(s.cool) \ Overridable
CoolRunDrivesItsLevel == CoolRunOK(ctl)

\* A heating run is at the DEFROST level exactly while the defrost flag is
\* set, and then remembers a level exitDefrost() can restore: the run can
\* not be stuck in defrost or come out of it at no level.
DefrostRunOK(s) ==
    s.action = "HEATING" =>
        /\ s.defrost <=> s.heat = "DEFROST"
        /\ s.defrost => s.pre \in HeatPumpLevel \cup FurnaceLevel
DefrostCanBeLeft == DefrostRunOK(ctl)

\* The relays the controller commands never contradict each other, whatever
\* the order of mode changes, fan cycles and defrosts: the reversing valve is
\* not set for cooling while the furnace fires, the second stages are on only
\* with the first, and the compressor runs only with the air handler.
InterlockOK(s) ==
    LET on == s.on \ Overridable
        needs(p, q) == p \in on => q \in on \cup Overridable IN
    /\ "REV" \in on => {"W1", "W2"} \cap on = {}
    /\ needs("COMP2", "COMP1") /\ needs("W2", "W1")
    /\ needs("COMP1", "FURN_COOL_LOW") /\ needs("FURN_COOL_HIGH", "COMP2")
    /\ needs("REV", "COMP1")
Interlock == InterlockOK(ctl)

\* In mode OFF nothing is commanded on and no level, defrost or fan cycle is
\* remembered; in any other mode the action is not OFF.
OffMeansOff ==
    IF mode = "OFF"
    THEN /\ ctl.action = "OFF" /\ ctl.heat = "IDLE" /\ ctl.cool = "IDLE"
         /\ ~ctl.defrost /\ ~ctl.fanRunning /\ ctl.on \subseteq Overridable
    ELSE ctl.action # "OFF"

\* A run belongs to the mode: no heating run in COOL or FAN_ONLY, no cooling
\* run in HEAT or FAN_ONLY.
RunSuitsMode ==
    /\ ctl.action = "HEATING" => mode \in {"HEAT", "HEAT_COOL"}
    /\ ctl.action = "COOLING" => mode \in {"COOL", "HEAT_COOL"}

\* The level of a heating run, seen through a defrost.
Stage(s) == IF s.defrost THEN s.pre ELSE s.heat
Rank(level) ==
    CASE level = "HP_LOW" -> 1 [] level = "HP_HIGH" -> 2
      [] level = "FURNACE_LOW" -> 3 [] level = "FURNACE_HIGH" -> 4 [] OTHER -> 0

\* What may become of the level of a heating run: it escalates when its delay is
\* over, the last stage only after the one before, or the run switches between
\* heat pump and furnace for the outdoor temperature.  Each starts a new delay.
LevelChangeIsDue(s, r) ==
    LET old == Stage(s)
        new == Stage(r) IN
    \/ new = old
    \/ /\ r.sinceEsc = 0
       /\ \/ /\ s.sinceEsc >= EscDelay /\ Rank(old) < Rank(new)
             /\ new = "FURNACE_HIGH" => old = "FURNACE_LOW"
          \/ ~outTempOk /\ old \in HeatPumpLevel /\ new = "FURNACE_LOW"
          \/ outTempOk /\ old \in FurnaceLevel /\ new \in HeatPumpLevel

\* Within a run the heat level changes for no other reason, also across a
\* defrost, whatever comes of the inputs and the force flags: no defrost, flag
\* or mode change skips the delay, a stage, or drops back to a lower one.  The
\* last reason is the way back of "switch HP <-> Furnace" (Thermostat.cpp:192).
\* It is allowed here, and the code has no such step: SwitchesBackToHeatPump of
\* ThermostatClaims is refuted.
LevelChangesWhenDue ==
    [][ctl.action = "HEATING" /\ ctl'.action = "HEATING"
       => LevelChangeIsDue(ctl, ctl')]_vars

\* update() ends a heating run before MinOn only for the maximum run time:
\* neither the defrost input nor a change of setpoint cuts it short.
HeatRunsMinOn ==
    [][Update /\ ctl.action = "HEATING" /\ ctl'.action # "HEATING"
       => ctl.sinceStart >= MinOn \/ ctl.sinceStart > MaxRun]_vars
=============================================================================
