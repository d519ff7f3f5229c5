-------------------------- MODULE ThermostatProofs --------------------------
(***************************************************************************)
(* Proofs about Thermostat for every value of its constants.               *)
(***************************************************************************)
EXTENDS Thermostat, TLAPS

Assumptions ==
    /\ Modes \subseteq Mode
    /\ Temps \subseteq Int /\ HeatSetpoints \subseteq Int /\ CoolSetpoints \subseteq Int
    /\ MinOn \in Nat /\ MinOff \in Nat \ {0} /\ MaxRun \in Nat
    /\ EscDelay \in Nat /\ FanWait \in Nat /\ FanRun \in Nat /\ Stale \in Nat
    /\ FlagValues \subseteq BOOLEAN /\ FanIdleValues \subseteq BOOLEAN
    /\ InputValues \subseteq BOOLEAN /\ Overridable \subseteq Output

LEMMA Constants == Assumptions
BY ModesAssumption, TempsAssumption, TimesAssumption, ValuesAssumption DEF Assumptions

\* The caps are natural numbers.
LEMMA CapsType == StartCap \in Nat /\ FanCap \in Nat /\ StartCap >= MaxRun + 2
BY TimesAssumption DEF StartCap, FanCap, Larger

LEMMA ZeroAge ==
    0 \in 0..MinOff /\ 0 \in 0..StartCap /\ 0 \in 0..EscDelay /\ 0 \in 0..FanCap
BY TimesAssumption, CapsType

\* The relay pattern of a level is a set of outputs.
LEMMA RelaysType ==
    ASSUME NEW level
    PROVE  HeatRelays(level) \in SUBSET Output /\ CoolRelays(level) \in SUBSET Output
BY DEF HeatRelays, CoolRelays, Output

-----------------------------------------------------------------------------
(* Driving the relays.                                                     *)

\* The conjunction of the invariants that speak of the control state alone.
ControlOK(s) == HeatRunOK(s) /\ CoolRunOK(s) /\ DefrostRunOK(s) /\ InterlockOK(s)

\* Overrides touch only the outputs the operator may override.
OverrideOK == Overridden \subseteq Overridable

\* Fields update() does not touch when it drives relays.
SameFlags(r, s) ==
    /\ r.action = s.action /\ r.defrost = s.defrost /\ r.pre = s.pre
    /\ r.sinceAction = s.sinceAction /\ r.sinceStart = s.sinceStart

\* A pattern without contradictions satisfies the interlock wherever it is
\* commanded on the outputs nobody overrides.
Sound(relays) ==
    /\ "REV" \in relays => {"W1", "W2"} \cap relays = {} /\ "COMP1" \in relays
    /\ "COMP2" \in relays => "COMP1" \in relays
    /\ "W2" \in relays => "W1" \in relays
    /\ "COMP1" \in relays => "FURN_COOL_LOW" \in relays
    /\ "FURN_COOL_HIGH" \in relays => "COMP2" \in relays

LEMMA PatternsSound ==
    ASSUME NEW level
    PROVE  Sound(HeatRelays(level)) /\ Sound(CoolRelays(level)) /\ Sound({"FAN1"}) /\ Sound({})
BY DEF Sound, HeatRelays, CoolRelays

LEMMA SoundInterlock ==
    ASSUME NEW s, NEW relays, Sound(relays),
           s.on \ Overridable = relays \ Overridable
    PROVE  InterlockOK(s)
BY DEF Sound, InterlockOK

\* Drive commands exactly the given relays on the outputs nobody overrides
\* and changes nothing else.
LEMMA DriveFields ==
    ASSUME NEW s \in Control, NEW relays \in SUBSET Output, OverrideOK, Sound(relays)
    PROVE  LET r == Drive(s, relays) IN
           /\ r \in Control /\ SameFlags(r, s) /\ r.heat = s.heat /\ r.cool = s.cool
           /\ r.on \ Overridable = relays \ Overridable
           /\ InterlockOK(r)
<1> DEFINE r == Drive(s, relays)
<1>1. r \in Control /\ SameFlags(r, s) /\ r.heat = s.heat /\ r.cool = s.cool
  BY DEF Drive, Control, SameFlags
<1>2. r.on = (s.on \cap Overridden) \cup (relays \ Overridden)
  BY DEF Drive, Control
<1>3. r.on \ Overridable = relays \ Overridable
  BY <1>2 DEF OverrideOK
<1> HIDE DEF r
<1>4. InterlockOK(r)
  BY <1>3, SoundInterlock
<1> QED BY <1>1, <1>3, <1>4 DEF r

\* applyHeatLevel() leaves a state that drives the relays of its level.
LEMMA ApplyHeatFields ==
    ASSUME NEW s \in Control, NEW level \in HeatLevel, OverrideOK
    PROVE  LET r == ApplyHeatLevel(s, level) IN
           /\ r \in Control /\ SameFlags(r, s) /\ r.heat = level /\ r.cool = "IDLE"
           /\ r.on \ Overridable = HeatRelays(level) \ Overridable
           /\ InterlockOK(r)
<1> DEFINE u == [s EXCEPT !.heat = level, !.cool = "IDLE"]
<1>1. u \in Control /\ SameFlags(u, s) /\ u.heat = level /\ u.cool = "IDLE"
  BY DEF Control, CoolLevel, SameFlags
<1> HIDE DEF u
<1>2. QED
  BY <1>1, DriveFields, RelaysType, PatternsSound DEF ApplyHeatLevel, u, SameFlags

\* applyCoolLevel() likewise.
LEMMA ApplyCoolFields ==
    ASSUME NEW s \in Control, NEW level \in CoolLevel, OverrideOK
    PROVE  LET r == ApplyCoolLevel(s, level) IN
           /\ r \in Control /\ SameFlags(r, s) /\ r.cool = level /\ r.heat = "IDLE"
           /\ r.on \ Overridable = CoolRelays(level) \ Overridable
           /\ InterlockOK(r)
<1> DEFINE u == [s EXCEPT !.cool = level, !.heat = "IDLE"]
<1>1. u \in Control /\ SameFlags(u, s) /\ u.cool = level /\ u.heat = "IDLE"
  BY DEF Control, HeatLevel, SameFlags
<1> HIDE DEF u
<1>2. QED
  BY <1>1, DriveFields, RelaysType, PatternsSound DEF ApplyCoolLevel, u, SameFlags

-----------------------------------------------------------------------------
(* What one step of update() may do to the control state.                  *)

\* A run that continues keeps its start and its rank; a run that begins does
\* so in a fitting mode and after its rest; a heating run that ends has lasted
\* long enough; and the age canTurnOn() consults is reset when a run ends.
GoodStep(s, r) ==
    /\ r.action \in Running =>
         \/ s.action = r.action /\ r.sinceStart = s.sinceStart
         \/ s.action \notin Running /\ s.sinceAction >= MinOff /\ r.sinceStart = 0
    /\ r.action \notin Running =>
         \/ r.sinceAction = 0
         \/ s.action \notin Running /\ r.sinceAction = s.sinceAction
    /\ s.action = "HEATING" /\ r.action = "HEATING" =>
         Rank(Stage(s)) <= Rank(Stage(r))
    /\ s.action = "HEATING" /\ r.action # "HEATING" =>
         s.sinceStart >= MinOn \/ s.sinceStart > MaxRun
    /\ r.action = "HEATING" => s.action = "HEATING" \/ mode \in {"HEAT", "HEAT_COOL"}
    /\ r.action = "COOLING" => s.action = "COOLING" \/ mode \in {"COOL", "HEAT_COOL"}
    /\ s.action # "OFF" => r.action # "OFF"

LEMMA RankType == ASSUME NEW level PROVE Rank(level) \in Nat
BY DEF Rank

LEMMA GoodStepSelf ==
    ASSUME NEW s \in Control, NEW r, r.action = s.action,
           r.sinceStart = s.sinceStart, r.sinceAction = s.sinceAction,
           Rank(Stage(r)) >= Rank(Stage(s))
    PROVE  GoodStep(s, r)
BY DEF GoodStep, Control

\* Two good steps in a row, as in one update(), are one good step.
LEMMA GoodStepTrans ==
    ASSUME NEW s \in Control, NEW u \in Control, NEW r \in Control,
           GoodStep(s, u), GoodStep(u, r)
    PROVE  GoodStep(s, r)
<1>1. s.action = "HEATING" /\ r.action = "HEATING" => u.action = "HEATING"
  BY TimesAssumption DEF GoodStep, Running
<1>2. s.action = "HEATING" /\ r.action = "HEATING" => Rank(Stage(s)) <= Rank(Stage(r))
  BY <1>1, RankType DEF GoodStep
<1>3. s.sinceAction \in Int /\ u.sinceAction \in Int /\ s.sinceStart \in Int /\ u.sinceStart \in Int
  BY TimesAssumption, CapsType DEF Control
<1> QED BY <1>2, <1>3, TimesAssumption DEF GoodStep, Running

-----------------------------------------------------------------------------
(* The first half of update().                                             *)

\* Entering defrost keeps a heating run consistent.
LEMMA EnterDefrostOK ==
    ASSUME NEW s \in Control, OverrideOK, ControlOK(s),
           s.action = "HEATING", ~s.defrost
    PROVE  LET r == EnterDefrost(s) IN
           r \in Control /\ ControlOK(r) /\ GoodStep(s, r)
<1> DEFINE u == [s EXCEPT !.defrost = TRUE, !.pre = s.heat]
<1>1. /\ u \in Control /\ u.action = "HEATING" /\ u.defrost /\ u.pre = s.heat
      /\ u.sinceAction = s.sinceAction /\ u.sinceStart = s.sinceStart
  BY DEF Control
<1>2. s.heat \in HeatPumpLevel \cup FurnaceLevel
  BY DEF ControlOK, HeatRunOK, DefrostRunOK, Control, HeatLevel, HeatPumpLevel, FurnaceLevel
<1> HIDE DEF u
<1> DEFINE r == ApplyHeatLevel(u, "DEFROST")
<1>3. /\ r \in Control /\ SameFlags(r, u) /\ r.heat = "DEFROST" /\ r.cool = "IDLE"
      /\ r.on \ Overridable = HeatRelays("DEFROST") \ Overridable
      /\ InterlockOK(r)
  BY <1>1, ApplyHeatFields DEF HeatLevel
<1>4. r = EnterDefrost(s)
  BY DEF EnterDefrost, u
<1> HIDE DEF r
<1>5. ControlOK(r)
  BY <1>1, <1>2, <1>3 DEF ControlOK, HeatRunOK, CoolRunOK, DefrostRunOK, SameFlags
<1>6. Stage(r) = s.heat /\ Stage(s) = s.heat
  BY <1>1, <1>3 DEF Stage, SameFlags
<1>7. GoodStep(s, r)
  BY <1>1, <1>3, <1>6, RankType, GoodStepSelf DEF SameFlags
<1> QED BY <1>3, <1>4, <1>5, <1>7

\* Leaving defrost restores a heating run or leaves the system idle.
LEMMA ExitDefrostOK ==
    ASSUME NEW s \in Control, OverrideOK, ControlOK(s), s.defrost
    PROVE  LET r == ExitDefrost(s) IN
           r \in Control /\ ControlOK(r) /\ GoodStep(s, r)
<1> DEFINE r == ExitDefrost(s)
<1>1. CASE s.action = "HEATING" /\ s.pre # "IDLE"
  <2> DEFINE u == [s EXCEPT !.defrost = FALSE]
  <2>1. /\ u \in Control /\ u.action = "HEATING" /\ ~u.defrost
        /\ u.sinceAction = s.sinceAction /\ u.sinceStart = s.sinceStart
    BY <1>1 DEF Control
  <2>2. s.pre \in HeatPumpLevel \cup FurnaceLevel /\ s.pre \in HeatLevel
    BY <1>1 DEF ControlOK, DefrostRunOK, Control
  <2> HIDE DEF u
  <2>3. r = ApplyHeatLevel(u, s.pre)
    BY <1>1 DEF ExitDefrost, u
  <2>4. /\ r \in Control /\ SameFlags(r, u) /\ r.heat = s.pre /\ r.cool = "IDLE"
        /\ r.on \ Overridable = HeatRelays(s.pre) \ Overridable
        /\ InterlockOK(r)
    BY <2>1, <2>2, <2>3, ApplyHeatFields
  <2> HIDE DEF r
  <2>5. ControlOK(r)
    BY <2>1, <2>2, <2>4
    DEF ControlOK, HeatRunOK, CoolRunOK, DefrostRunOK, SameFlags, HeatPumpLevel, FurnaceLevel
  <2>6. Stage(r) = s.pre /\ Stage(s) = s.pre
    BY <2>1, <2>4 DEF Stage, SameFlags
  <2>7. GoodStep(s, r)
    BY <1>1, <2>1, <2>4, <2>6, RankType, GoodStepSelf DEF SameFlags
  <2> QED BY <2>4, <2>5, <2>7 DEF r
<1>2. CASE ~(s.action = "HEATING" /\ s.pre # "IDLE")
  <2> DEFINE u == [s EXCEPT !.defrost = FALSE, !.heat = "IDLE", !.action = "IDLE",
                            !.sinceAction = 0]
  <2>1. u \in Control /\ u.action = "IDLE" /\ u.sinceAction = 0
    BY ZeroAge DEF Control, HeatLevel, Action
  <2>2. s.action # "HEATING"
    BY <1>2 DEF ControlOK, DefrostRunOK, HeatPumpLevel, FurnaceLevel
  <2> HIDE DEF u
  <2>3. r = Drive(u, {})
    BY <1>2 DEF ExitDefrost, u
  <2>4. r \in Control /\ SameFlags(r, u) /\ InterlockOK(r)
    BY <2>1, <2>3, DriveFields, PatternsSound
  <2> HIDE DEF r
  <2>5. ControlOK(r)
    BY <2>1, <2>4 DEF ControlOK, HeatRunOK, CoolRunOK, DefrostRunOK, SameFlags
  <2>6. GoodStep(s, r)
    BY <2>1, <2>2, <2>4 DEF SameFlags, GoodStep, Running
  <2> QED BY <2>4, <2>5, <2>6 DEF r
<1> QED BY <1>1, <1>2

\* The temperature check and the defrost check together.
LEMMA FirstHalfOK ==
    ASSUME NEW s \in Control, OverrideOK, ControlOK(s)
    PROVE  LET r == DefrostCheck(StaleCheck(s)) IN
           r \in Control /\ ControlOK(r) /\ GoodStep(s, r)
<1> DEFINE u == StaleCheck(s)
<1>1. /\ u \in Control /\ u.action = s.action /\ u.heat = s.heat /\ u.cool = s.cool
      /\ u.defrost = s.defrost /\ u.pre = s.pre /\ u.on = s.on
      /\ u.sinceAction = s.sinceAction /\ u.sinceStart = s.sinceStart
  BY DEF StaleCheck, Control
<1> HIDE DEF u
<1>2. ControlOK(u)
  BY <1>1 DEF ControlOK, HeatRunOK, CoolRunOK, DefrostRunOK, InterlockOK
<1>3. GoodStep(s, u)
  BY <1>1, RankType, GoodStepSelf DEF Stage
<1>4. CASE defrostIn /\ ~u.defrost /\ u.action = "HEATING"
  <2>1. DefrostCheck(u) = EnterDefrost(u)
    BY <1>4 DEF DefrostCheck
  <2> QED BY <1>1, <1>2, <1>3, <1>4, <2>1, EnterDefrostOK, GoodStepTrans DEF u
<1>5. CASE ~defrostIn /\ u.defrost
  <2>1. DefrostCheck(u) = ExitDefrost(u)
    BY <1>5 DEF DefrostCheck
  <2> QED BY <1>1, <1>2, <1>3, <1>5, <2>1, ExitDefrostOK, GoodStepTrans DEF u
<1>6. CASE /\ ~(defrostIn /\ ~u.defrost /\ u.action = "HEATING")
           /\ ~(~defrostIn /\ u.defrost)
  <2>1. DefrostCheck(u) = u
    BY <1>6 DEF DefrostCheck
  <2> QED BY <1>1, <1>2, <1>3, <2>1 DEF u
<1> QED BY <1>4, <1>5, <1>6
-----------------------------------------------------------------------------
(* The second half of update(), one lemma per decision.                    *)

\* What every decision has to establish from the intermediate state s.
Decided(s) == ctl' \in Control /\ ControlOK(ctl') /\ GoodStep(s, ctl')

LEMMA StayOK ==
    ASSUME NEW s \in Control, ControlOK(s), ctl' = s
    PROVE  Decided(s)
BY RankType, GoodStepSelf DEF Decided

LEMMA FanIdleOK ==
    ASSUME NEW s \in Control, OverrideOK, ControlOK(s),
           s.action \notin Running, UpdateFanIdle(s)
    PROVE  Decided(s)
<1>1. CASE FanIdleStart(s)
  <2> DEFINE u == [s EXCEPT !.action = "FAN_RUNNING", !.fanRunning = TRUE, !.sinceFan = 0]
  <2>1. /\ u \in Control /\ u.action = "FAN_RUNNING" /\ u.sinceAction = s.sinceAction
        /\ u.on = s.on
    BY ZeroAge DEF Control, Action
  <2> HIDE DEF u
  <2>2. ctl' = [u EXCEPT !.on = u.on \cup ({"FAN1"} \ Overridden)]
    BY <1>1 DEF FanIdleStart, TurnOn, u
  <2>3. /\ ctl' \in Control /\ ctl'.action = "FAN_RUNNING"
        /\ ctl'.sinceAction = s.sinceAction
        /\ ctl'.on = s.on \cup ({"FAN1"} \ Overridden)
    BY <2>1, <2>2 DEF Control, Output
  <2>4. InterlockOK(ctl')
    BY <2>3 DEF ControlOK, InterlockOK
  <2> QED BY <2>3, <2>4
          DEF Decided, ControlOK, HeatRunOK, CoolRunOK, DefrostRunOK, GoodStep, Running
<1>2. CASE FanIdleStop(s)
  <2> DEFINE u == [s EXCEPT !.action = "IDLE", !.fanRunning = FALSE, !.sinceFan = 0]
  <2>1. /\ u \in Control /\ u.action = "IDLE" /\ u.sinceAction = s.sinceAction
        /\ u.on = s.on
    BY ZeroAge DEF Control, Action
  <2> HIDE DEF u
  <2>2. ctl' = [u EXCEPT !.on = u.on \ ({"FAN1"} \ Overridden)]
    BY <1>2 DEF FanIdleStop, TurnOff, u
  <2>3. /\ ctl' \in Control /\ ctl'.action = "IDLE"
        /\ ctl'.sinceAction = s.sinceAction
        /\ ctl'.on = s.on \ ({"FAN1"} \ Overridden)
    BY <2>1, <2>2 DEF Control, Output
  <2>4. InterlockOK(ctl')
    BY <2>3 DEF ControlOK, InterlockOK
  <2> QED BY <2>3, <2>4
          DEF Decided, ControlOK, HeatRunOK, CoolRunOK, DefrostRunOK, GoodStep, Running
<1>3. CASE FanIdleWait(s)
  BY <1>3, StayOK DEF FanIdleWait
<1> QED BY <1>1, <1>2, <1>3 DEF UpdateFanIdle

\* Any stop: all relays off, action IDLE, the rest timer restarted.
LEMMA StopOK ==
    ASSUME NEW u \in Control, NEW s \in Control, OverrideOK,
           u.action = "IDLE", u.sinceAction = 0, ctl' = Drive(u, {}),
           s.action = "HEATING" => s.sinceStart >= MinOn \/ s.sinceStart > MaxRun
    PROVE  Decided(s)
<1>1. ctl' \in Control /\ SameFlags(ctl', u) /\ InterlockOK(ctl')
  BY DriveFields, PatternsSound
<1> QED BY <1>1
        DEF Decided, ControlOK, HeatRunOK, CoolRunOK, DefrostRunOK, GoodStep, Running, SameFlags

LEMMA StartHeatOK ==
    ASSUME NEW s \in Control, OverrideOK, ~s.defrost, StartHeat(s),
           mode \in {"HEAT", "HEAT_COOL"}
    PROVE  Decided(s)
<1> DEFINE u == [s EXCEPT !.action = "HEATING", !.fanRunning = FALSE,
                          !.sinceAction = 0, !.sinceStart = 0, !.sinceEsc = 0]
<1>1. u \in Control /\ u.action = "HEATING" /\ ~u.defrost /\ u.sinceStart = 0
  BY ZeroAge DEF Control, Action
<1>2. FirstHeatLevel \in {"HP_LOW", "FURNACE_LOW"} /\ FirstHeatLevel \in HeatLevel
  BY DEF FirstHeatLevel, HeatLevel
<1> HIDE DEF u
<1>3. ctl' = ApplyHeatLevel(u, FirstHeatLevel)
  BY DEF StartHeat, u
<1>4. /\ ctl' \in Control /\ SameFlags(ctl', u) /\ ctl'.heat = FirstHeatLevel
      /\ ctl'.cool = "IDLE"
      /\ ctl'.on \ Overridable = HeatRelays(FirstHeatLevel) \ Overridable
      /\ InterlockOK(ctl')
  BY <1>1, <1>2, <1>3, ApplyHeatFields
<1>5. ControlOK(ctl')
  BY <1>1, <1>2, <1>4 DEF ControlOK, HeatRunOK, CoolRunOK, DefrostRunOK, SameFlags
<1>6. GoodStep(s, ctl')
  BY <1>1, <1>4 DEF StartHeat, CanTurnOn, GoodStep, Running, Resting, SameFlags
<1> QED BY <1>4, <1>5, <1>6 DEF Decided

\* Changing the level of a heating run upwards.
LEMMA RaiseLevelOK ==
    ASSUME NEW s \in Control, OverrideOK, s.action = "HEATING", ~s.defrost,
           NEW level \in HeatPumpLevel \cup FurnaceLevel, Rank(s.heat) <= Rank(level)
    PROVE  LET r == ApplyHeatLevel([s EXCEPT !.sinceEsc = 0], level) IN
           /\ r \in Control /\ ControlOK(r) /\ GoodStep(s, r)
           /\ r.action = "HEATING" /\ ~r.defrost /\ r.heat = level
<1> DEFINE u == [s EXCEPT !.sinceEsc = 0]
<1>1. /\ u \in Control /\ u.action = "HEATING" /\ ~u.defrost
      /\ u.sinceStart = s.sinceStart /\ u.sinceAction = s.sinceAction
  BY ZeroAge DEF Control
<1> HIDE DEF u
<1> DEFINE r == ApplyHeatLevel(u, level)
<1>2. /\ r \in Control /\ SameFlags(r, u) /\ r.heat = level /\ r.cool = "IDLE"
      /\ r.on \ Overridable = HeatRelays(level) \ Overridable
      /\ InterlockOK(r)
  BY <1>1, ApplyHeatFields DEF HeatLevel, HeatPumpLevel, FurnaceLevel
<1> HIDE DEF r
<1>3. ControlOK(r)
  BY <1>1, <1>2 DEF ControlOK, HeatRunOK, CoolRunOK, DefrostRunOK, SameFlags,
                    HeatPumpLevel, FurnaceLevel
<1>4. GoodStep(s, r)
  BY <1>1, <1>2, GoodStepSelf DEF SameFlags, Stage
<1> QED BY <1>1, <1>2, <1>3, <1>4 DEF r, u, SameFlags

LEMMA HoldHeatOK ==
    ASSUME NEW s \in Control, OverrideOK, ControlOK(s), ~s.defrost, HoldHeat(s)
    PROVE  Decided(s)
<1>1. s.action = "HEATING" /\ s.heat \in HeatPumpLevel \cup FurnaceLevel
  BY DEF HoldHeat, ControlOK, HeatRunOK, DefrostRunOK, Control, HeatLevel,
         HeatPumpLevel, FurnaceLevel
<1> DEFINE u == Escalate(s)
<1>2. /\ u \in Control /\ ControlOK(u) /\ GoodStep(s, u)
      /\ u.action = "HEATING" /\ ~u.defrost /\ u.heat \in HeatPumpLevel \cup FurnaceLevel
  <2>1. CASE CanEscalate(s) /\ NextHeatLevel(s.heat) # s.heat
    <3>1. /\ NextHeatLevel(s.heat) \in HeatPumpLevel \cup FurnaceLevel
          /\ Rank(s.heat) <= Rank(NextHeatLevel(s.heat))
      BY <1>1 DEF NextHeatLevel, Rank, HeatPumpLevel, FurnaceLevel
    <3> QED BY <1>1, <2>1, <3>1, RaiseLevelOK DEF Escalate
  <2>2. CASE ~(CanEscalate(s) /\ NextHeatLevel(s.heat) # s.heat)
    <3>1. u = s
      BY <2>2 DEF Escalate
    <3> QED BY <1>1, <3>1, RankType, GoodStepSelf
  <2> QED BY <2>1, <2>2
<1>3. ctl' = LeaveHeatPump(u)
  BY DEF HoldHeat
<1> HIDE DEF u
<1>4. CASE ~outTempOk /\ ~forceFurnace /\ ~forceNoHP /\ u.heat \in HeatPumpLevel
  <2>1. Rank(u.heat) <= Rank("FURNACE_LOW") /\ "FURNACE_LOW" \in FurnaceLevel
    BY <1>4 DEF Rank, HeatPumpLevel, FurnaceLevel
  <2>2. ctl' = ApplyHeatLevel([u EXCEPT !.sinceEsc = 0], "FURNACE_LOW")
    BY <1>3, <1>4 DEF LeaveHeatPump
  <2>3. ctl' \in Control /\ ControlOK(ctl') /\ GoodStep(u, ctl')
    BY <1>2, <2>1, <2>2, RaiseLevelOK
  <2> QED BY <1>2, <2>3, GoodStepTrans DEF Decided
<1>5. CASE ~(~outTempOk /\ ~forceFurnace /\ ~forceNoHP /\ u.heat \in HeatPumpLevel)
  <2>1. ctl' = u
    BY <1>3, <1>5 DEF LeaveHeatPump
  <2> QED BY <1>2, <2>1 DEF Decided
<1> QED BY <1>4, <1>5

LEMMA HeatingOK ==
    ASSUME NEW s \in Control, OverrideOK, ControlOK(s), UpdateHeating(s),
           mode \in {"HEAT", "HEAT_COOL"}
    PROVE  Decided(s)
<1>1. CASE ~s.defrost /\ StartHeat(s)
  BY <1>1, StartHeatOK
<1>2. CASE ~s.defrost /\ StopHeat(s)
  <2> DEFINE u == [s EXCEPT !.action = "IDLE", !.heat = "IDLE",
                            !.sinceAction = 0, !.sinceFan = 0]
  <2>1. u \in Control /\ u.action = "IDLE" /\ u.sinceAction = 0
    BY ZeroAge DEF Control, Action, HeatLevel
  <2>2. ctl' = Drive(u, {}) /\ s.sinceStart >= MinOn
    BY <1>2 DEF StopHeat, CanTurnOff
  <2> HIDE DEF u
  <2> QED BY <2>1, <2>2, StopOK
<1>3. CASE ~s.defrost /\ HoldHeat(s)
  BY <1>3, HoldHeatOK
<1>4. CASE ~s.defrost /\ s.action \in Resting /\ ~CallsHeat /\ UpdateFanIdle(s)
  BY <1>4, FanIdleOK DEF Resting, Running
<1>5. CASE KeepHeat(s)
  BY <1>5, StayOK DEF KeepHeat
<1> QED BY <1>1, <1>2, <1>3, <1>4, <1>5 DEF UpdateHeating

LEMMA StartCoolOK ==
    ASSUME NEW s \in Control, OverrideOK, StartCool(s), mode \in {"COOL", "HEAT_COOL"}
    PROVE  Decided(s)
<1> DEFINE u == [s EXCEPT !.action = "COOLING", !.fanRunning = FALSE,
                          !.sinceAction = 0, !.sinceStart = 0, !.sinceEsc = 0]
<1>1. u \in Control /\ u.action = "COOLING" /\ u.sinceStart = 0
  BY ZeroAge DEF Control, Action
<1> HIDE DEF u
<1>2. ctl' = ApplyCoolLevel(u, "COOL")
  BY DEF StartCool, u
<1>3. /\ ctl' \in Control /\ SameFlags(ctl', u) /\ ctl'.cool = "COOL" /\ ctl'.heat = "IDLE"
      /\ ctl'.on \ Overridable = CoolRelays("COOL") \ Overridable
      /\ InterlockOK(ctl')
  BY <1>1, <1>2, ApplyCoolFields DEF CoolLevel
<1>4. ControlOK(ctl')
  BY <1>1, <1>3 DEF ControlOK, HeatRunOK, CoolRunOK, DefrostRunOK, SameFlags
<1>5. GoodStep(s, ctl')
  BY <1>1, <1>3 DEF StartCool, CanTurnOn, GoodStep, Running, Resting, SameFlags
<1> QED BY <1>3, <1>4, <1>5 DEF Decided

LEMMA SupplementOK ==
    ASSUME NEW s \in Control, OverrideOK, Supplement(s)
    PROVE  Decided(s)
<1> DEFINE u == [s EXCEPT !.sinceEsc = 0]
<1>1. /\ u \in Control /\ u.action = "COOLING" /\ s.action = "COOLING"
      /\ u.sinceStart = s.sinceStart /\ u.sinceAction = s.sinceAction
  BY ZeroAge DEF Control, Supplement
<1> HIDE DEF u
<1>2. ctl' = ApplyCoolLevel(u, "COOL_SUPP")
  BY DEF Supplement, u
<1>3. /\ ctl' \in Control /\ SameFlags(ctl', u) /\ ctl'.cool = "COOL_SUPP"
      /\ ctl'.heat = "IDLE"
      /\ ctl'.on \ Overridable = CoolRelays("COOL_SUPP") \ Overridable
      /\ InterlockOK(ctl')
  BY <1>1, <1>2, ApplyCoolFields DEF CoolLevel
<1>4. ControlOK(ctl')
  BY <1>1, <1>3 DEF ControlOK, HeatRunOK, CoolRunOK, DefrostRunOK, SameFlags
<1>5. GoodStep(s, ctl')
  BY <1>1, <1>3 DEF GoodStep, Running, SameFlags
<1> QED BY <1>3, <1>4, <1>5 DEF Decided

LEMMA CoolingOK ==
    ASSUME NEW s \in Control, OverrideOK, ControlOK(s), UpdateCooling(s),
           mode \in {"COOL", "HEAT_COOL"}
    PROVE  Decided(s)
<1>1. CASE StartCool(s)
  BY <1>1, StartCoolOK
<1>2. CASE StopCool(s)
  <2> DEFINE u == [s EXCEPT !.action = "IDLE", !.cool = "IDLE",
                            !.sinceAction = 0, !.sinceFan = 0]
  <2>1. u \in Control /\ u.action = "IDLE" /\ u.sinceAction = 0
    BY ZeroAge DEF Control, Action, CoolLevel
  <2>2. ctl' = Drive(u, {}) /\ s.action # "HEATING"
    BY <1>2 DEF StopCool
  <2> HIDE DEF u
  <2> QED BY <2>1, <2>2, StopOK
<1>3. CASE Supplement(s)
  BY <1>3, SupplementOK
<1>4. CASE s.action \in Resting /\ ~CallsCool /\ UpdateFanIdle(s)
  BY <1>4, FanIdleOK DEF Resting, Running
<1>5. CASE KeepCool(s)
  BY <1>5, StayOK DEF KeepCool
<1> QED BY <1>1, <1>2, <1>3, <1>4, <1>5 DEF UpdateCooling

LEMMA FanOnlyOK ==
    ASSUME NEW s \in Control, OverrideOK, ControlOK(s), s.action # "HEATING",
           UpdateFanOnly(s)
    PROVE  Decided(s)
<1>1. CASE s.action = "FAN_RUNNING"
  BY <1>1, StayOK DEF UpdateFanOnly
<1>2. CASE s.action # "FAN_RUNNING"
  <2> DEFINE u == [s EXCEPT !.action = "FAN_RUNNING", !.sinceAction = 0]
  <2>1. u \in Control /\ u.action = "FAN_RUNNING" /\ u.sinceAction = 0
    BY ZeroAge DEF Control, Action
  <2>2. ctl' = Drive(u, {"FAN1"}) /\ {"FAN1"} \in SUBSET Output
    BY <1>2 DEF UpdateFanOnly, Output
  <2> HIDE DEF u
  <2>3. ctl' \in Control /\ SameFlags(ctl', u) /\ InterlockOK(ctl')
    BY <2>1, <2>2, DriveFields, PatternsSound
  <2> QED BY <2>1, <2>3
          DEF Decided, ControlOK, HeatRunOK, CoolRunOK, DefrostRunOK, GoodStep, Running, SameFlags
<1> QED BY <1>1, <1>2

LEMMA MaxRunStopOK ==
    ASSUME NEW s \in Control, OverrideOK, Overran(s), MaxRunStop(s)
    PROVE  Decided(s)
<1> DEFINE u == [s EXCEPT !.action = "IDLE", !.heat = "IDLE", !.cool = "IDLE",
                          !.sinceAction = 0]
<1>1. u \in Control /\ u.action = "IDLE" /\ u.sinceAction = 0
  BY ZeroAge DEF Control, Action, HeatLevel, CoolLevel
<1>2. ctl' = Drive(u, {}) /\ s.sinceStart > MaxRun
  BY DEF MaxRunStop, Overran
<1> HIDE DEF u
<1> QED BY <1>1, <1>2, StopOK
-----------------------------------------------------------------------------
(* update() as a whole.                                                    *)

LEMMA UpdateOK ==
    ASSUME TypeOK, ControlOK(ctl), RunSuitsMode, Update
    PROVE  Decided(ctl)
<1> USE DEF TypeOK
<1>1. OverrideOK
  BY DEF OverrideOK
<1>2. CASE mode = "OFF" /\ ctl' = ctl
  BY <1>2, StayOK
<1>3. CASE mode # "OFF" /\ Decide(DefrostCheck(StaleCheck(ctl)))
  <2> DEFINE s == DefrostCheck(StaleCheck(ctl))
  <2>1. s \in Control /\ ControlOK(s) /\ GoodStep(ctl, s)
    BY <1>1, FirstHalfOK
  <2>2. mode = "FAN_ONLY" => s.action # "HEATING"
    BY <2>1 DEF GoodStep, RunSuitsMode
  <2>3. Decide(s)
    BY <1>3
  <2> HIDE DEF s
  <2>4. Decided(s)
    <3>1. CASE Overran(s) /\ MaxRunStop(s)
      BY <1>1, <2>1, <3>1, MaxRunStopOK
    <3>2. CASE ctl' = s
      BY <2>1, <3>2, StayOK
    <3>3. CASE mode = "HEAT" /\ UpdateHeating(s)
      BY <1>1, <2>1, <3>3, HeatingOK
    <3>4. CASE mode = "COOL" /\ UpdateCooling(s)
      BY <1>1, <2>1, <3>4, CoolingOK
    <3>5. CASE mode = "HEAT_COOL" /\ UpdateAuto(s)
      BY <1>1, <2>1, <3>5, HeatingOK, CoolingOK, FanIdleOK DEF UpdateAuto
    <3>6. CASE mode = "FAN_ONLY" /\ UpdateFanOnly(s)
      BY <1>1, <2>1, <2>2, <3>6, FanOnlyOK
    <3> QED BY <2>3, <3>1, <3>2, <3>3, <3>4, <3>5, <3>6 DEF Decide
  <2>5. GoodStep(ctl, ctl')
    BY <2>1, <2>4, GoodStepTrans DEF Decided
  <2> QED BY <2>4, <2>5 DEF Decided
<1> QED BY <1>2, <1>3 DEF Update

-----------------------------------------------------------------------------
(* The inductive invariant.                                                *)

Inv == TypeOK /\ ControlOK(ctl) /\ OffMeansOff /\ RunSuitsMode

LEMMA FreshOK ==
    ASSUME NEW m \in Mode
    PROVE  LET c == FreshControl(m) IN
           /\ c \in Control /\ ControlOK(c) /\ c.action \notin Running
           /\ IF m = "OFF"
              THEN /\ c.action = "OFF" /\ c.heat = "IDLE" /\ c.cool = "IDLE"
                   /\ ~c.defrost /\ ~c.fanRunning /\ c.on = {}
              ELSE c.action = "IDLE"
<1> DEFINE c == FreshControl(m)
<1>1. c \in Control
  BY ZeroAge DEF FreshControl, Control, Action, HeatLevel, CoolLevel
<1>2. c.action = (IF m = "OFF" THEN "OFF" ELSE "IDLE") /\ c.on = {}
  BY DEF FreshControl
<1>3. c.heat = "IDLE" /\ c.cool = "IDLE" /\ c.defrost = FALSE /\ c.fanRunning = FALSE
  BY DEF FreshControl
<1> HIDE DEF c
<1>4. ControlOK(c)
  BY <1>2 DEF ControlOK, HeatRunOK, CoolRunOK, DefrostRunOK, InterlockOK
<1> QED BY <1>1, <1>2, <1>3, <1>4 DEF Running, c

LEMMA NoOverrideType == DOMAIN NoOverride = {} /\ NoOverride \in [{} -> BOOLEAN]
BY DEF NoOverride

LEMMA InitInv == Init => Inv
<1> SUFFICES ASSUME Init PROVE Inv
  OBVIOUS
<1>1. mode \in Mode
  BY Constants DEF Init, Assumptions
<1>2. TypeOK
  <2>1. ctl \in Control
    BY <1>1, FreshOK DEF Init
  <2>2. Overridden \subseteq Overridable /\ override \in [Overridden -> BOOLEAN]
    BY NoOverrideType DEF Init, Overridden
  <2>3. temp \in Int /\ heatSP \in Int /\ coolSP \in Int /\ sinceTemp \in 0..Stale + 1
    BY Constants DEF Init, NoTemp, Assumptions
  <2> QED BY <1>1, <2>1, <2>2, <2>3, Constants DEF Init, TypeOK, Assumptions
<1>3. ControlOK(ctl) /\ ctl.action \notin Running
  BY <1>1, FreshOK DEF Init
<1>4. OffMeansOff
  BY <1>1, FreshOK DEF Init, OffMeansOff
<1>5. RunSuitsMode
  BY <1>3 DEF RunSuitsMode, Running
<1> QED BY <1>2, <1>3, <1>4, <1>5 DEF Inv

\* A step that leaves mode and ctl alone, except for the ages and the
\* validity of the temperature, keeps the invariant.
SameControl(r, s) ==
    /\ r.action = s.action /\ r.heat = s.heat /\ r.cool = s.cool /\ r.on = s.on
    /\ r.defrost = s.defrost /\ r.pre = s.pre /\ r.fanRunning = s.fanRunning

LEMMA SameControlInv ==
    ASSUME Inv, TypeOK', mode' = mode, SameControl(ctl', ctl)
    PROVE  Inv'
BY DEF Inv, SameControl, ControlOK, HeatRunOK, CoolRunOK, DefrostRunOK, InterlockOK,
       OffMeansOff, RunSuitsMode

LEMMA SetModeInv ==
    ASSUME Inv, NEW m \in Modes, SetMode(m)
    PROVE  Inv'
<1> USE DEF Inv, TypeOK
<1>1. m \in Mode /\ OverrideOK
  BY Constants DEF Assumptions, OverrideOK
<1>2. CASE m = "OFF"
  <2> DEFINE u == [ctl EXCEPT !.action = "OFF", !.heat = "IDLE", !.cool = "IDLE",
                              !.defrost = FALSE, !.fanRunning = FALSE]
  <2>1. u \in Control /\ u.action = "OFF" /\ u.heat = "IDLE" /\ u.cool = "IDLE"
    BY DEF Control, Action, HeatLevel, CoolLevel
  <2>2. u.defrost = FALSE /\ u.fanRunning = FALSE
    BY DEF Control
  <2> HIDE DEF u
  <2>3. ctl' = Drive(u, {})
    BY <1>2 DEF SetMode, u
  <2>4. /\ ctl' \in Control /\ SameFlags(ctl', u) /\ ctl'.heat = "IDLE" /\ ctl'.cool = "IDLE"
        /\ ctl'.on \ Overridable = {} \ Overridable
        /\ InterlockOK(ctl')
    BY <1>1, <2>1, <2>3, DriveFields, PatternsSound
  <2>5. ctl'.fanRunning = FALSE
    BY <2>1, <2>2, <2>3 DEF Drive, Control
  <2>6. ControlOK(ctl')
    BY <2>1, <2>4 DEF ControlOK, HeatRunOK, CoolRunOK, DefrostRunOK, SameFlags
  <2>7. ctl'.on \subseteq Overridable
    BY <2>4
  <2>8. TypeOK'
    BY <1>1, <2>4 DEF SetMode, settings, inputs, Overridden
  <2>9. OffMeansOff' /\ RunSuitsMode'
    BY <1>2, <2>1, <2>2, <2>4, <2>5, <2>7 DEF SetMode, OffMeansOff, RunSuitsMode, SameFlags
  <2> QED BY <2>6, <2>8, <2>9 DEF ControlOK, HeatRunOK, CoolRunOK, DefrostRunOK, InterlockOK
<1>3. CASE m # "OFF"
  <2>1. ctl' = [ctl EXCEPT !.action = "IDLE", !.sinceAction = 0,
                           !.sinceStart = 0, !.sinceFan = 0]
    BY <1>3 DEF SetMode
  <2>2. ctl' \in Control /\ ctl'.action = "IDLE" /\ ctl'.on = ctl.on
    BY <2>1, ZeroAge DEF Control, Action
  <2>3. InterlockOK(ctl')
    BY <2>2 DEF InterlockOK, ControlOK
  <2>4. ControlOK(ctl')
    BY <2>2, <2>3 DEF ControlOK, HeatRunOK, CoolRunOK, DefrostRunOK
  <2>5. TypeOK'
    BY <1>1, <2>2 DEF SetMode, settings, inputs, Overridden
  <2>6. OffMeansOff' /\ RunSuitsMode'
    BY <1>3, <2>2 DEF SetMode, OffMeansOff, RunSuitsMode
  <2> QED BY <2>4, <2>5, <2>6 DEF ControlOK, HeatRunOK, CoolRunOK, DefrostRunOK, InterlockOK
<1> QED BY <1>2, <1>3

LEMMA TickInv ==
    ASSUME Inv, Tick
    PROVE  Inv'
<1>1. ASSUME NEW cap \in Nat, NEW age \in 0..cap PROVE Older(age, cap) \in 0..cap
  BY DEF Older
<1>2. ctl' \in Control /\ SameControl(ctl', ctl)
  BY <1>1, CapsType, TimesAssumption DEF Tick, Inv, TypeOK, Control, SameControl
<1>3. TypeOK'
  BY <1>1, <1>2, TimesAssumption DEF Tick, Inv, TypeOK, settings, inputs, Overridden
<1> QED BY <1>2, <1>3, SameControlInv DEF Tick

LEMMA UpdateInv ==
    ASSUME Inv, Update
    PROVE  Inv'
<1>1. Decided(ctl)
  BY UpdateOK DEF Inv
<1>2. TypeOK'
  BY <1>1 DEF Update, Decided, Inv, TypeOK, settings, inputs, Overridden
<1>3. RunSuitsMode'
  BY <1>1 DEF Update, Decided, GoodStep, Inv, RunSuitsMode
<1>4. OffMeansOff'
  BY <1>1 DEF Update, Decided, GoodStep, Inv, OffMeansOff
<1> QED BY <1>1, <1>2, <1>3, <1>4
        DEF Inv, Decided, ControlOK, HeatRunOK, CoolRunOK, DefrostRunOK, InterlockOK

LEMMA RebootInv ==
    ASSUME Inv, NEW m \in Modes, Reboot(m)
    PROVE  Inv'
<1>1. m \in Mode
  BY Constants DEF Assumptions
<1>2. TypeOK'
  <2>1. ctl' \in Control
    BY <1>1, FreshOK DEF Reboot
  <2>2. (Overridden \subseteq Overridable /\ override \in [Overridden -> BOOLEAN])'
    BY NoOverrideType DEF Reboot, Overridden
  <2>3. (temp \in Int /\ heatSP \in Int /\ coolSP \in Int /\ sinceTemp \in 0..Stale + 1)'
    BY Constants DEF Reboot, NoTemp, Assumptions
  <2> QED BY <1>1, <2>1, <2>2, <2>3, Constants
          DEF Reboot, Inv, TypeOK, inputs, Assumptions
<1>3. ControlOK(ctl') /\ ctl'.action \notin Running
  BY <1>1, FreshOK DEF Reboot
<1>4. OffMeansOff'
  BY <1>1, FreshOK DEF Reboot, OffMeansOff
<1>5. RunSuitsMode'
  BY <1>3 DEF RunSuitsMode, Running
<1> QED BY <1>2, <1>3, <1>4, <1>5
        DEF Inv, ControlOK, HeatRunOK, CoolRunOK, DefrostRunOK, InterlockOK

LEMMA NextInv == Inv /\ [Next]_vars => Inv'
<1> SUFFICES ASSUME Inv, [Next]_vars PROVE Inv'
  OBVIOUS
<1> USE Constants DEF Assumptions
<1>1. CASE Tick
  BY <1>1, TickInv
<1>2. CASE Update
  BY <1>2, UpdateInv
<1>3. ASSUME NEW m \in Modes, SetMode(m) \/ Reboot(m) PROVE Inv'
  BY <1>3, SetModeInv, RebootInv
<1>4. ASSUME NEW t \in Temps, SetCurrentTemperature(t) PROVE Inv'
  <2>1. ctl' \in Control /\ SameControl(ctl', ctl)
    BY <1>4 DEF SetCurrentTemperature, Inv, TypeOK, Control, SameControl
  <2>2. TypeOK'
    BY <1>4, <2>1 DEF SetCurrentTemperature, Inv, TypeOK, settings, inputs, Overridden
  <2> QED BY <1>4, <2>1, <2>2, SameControlInv DEF SetCurrentTemperature
<1>5. CASE \/ \E sp \in HeatSetpoints : SetHeatSetpoint(sp)
           \/ \E sp \in CoolSetpoints : SetCoolSetpoint(sp)
           \/ \E b \in FlagValues : SetForceFurnace(b) \/ SetForceNoHP(b)
           \/ \E b \in FanIdleValues : SetFanIdle(b)
           \/ \E b \in InputValues : OutTempChange(b) \/ DefrostChange(b)
  <2> USE <1>5 DEF SetHeatSetpoint, SetCoolSetpoint, SetForceFurnace, SetForceNoHP,
                   SetFanIdle, OutTempChange, DefrostChange, inputs, settings
  <2>1. TypeOK'
    BY DEF Inv, TypeOK, Overridden
  <2>2. mode' = mode /\ ctl' = ctl
    OBVIOUS
  <2> QED BY <2>1, <2>2, SameControlInv DEF SameControl
<1>6. ASSUME NEW p \in Overridable, NEW state \in BOOLEAN, ForceOutput(p, state)
      PROVE  Inv'
  <2>1. TypeOK'
    BY <1>6 DEF ForceOutput, Inv, TypeOK, settings, inputs, Overridden
  <2> QED BY <1>6, <2>1, SameControlInv DEF ForceOutput, SameControl
<1>7. ASSUME NEW p \in Overridable, ReleaseOutput(p) PROVE Inv'
  <2>1. TypeOK'
    BY <1>7 DEF ReleaseOutput, Inv, TypeOK, settings, inputs, Overridden
  <2> QED BY <1>7, <2>1, SameControlInv DEF ReleaseOutput, SameControl
<1>8. CASE UNCHANGED vars
  <2>1. TypeOK'
    BY <1>8 DEF vars, Inv, TypeOK, Overridden
  <2> QED BY <1>8, <2>1, SameControlInv DEF vars, SameControl
<1> QED BY <1>1, <1>2, <1>3, <1>4, <1>5, <1>6, <1>7, <1>8 DEF Next

THEOREM Invariance == Spec => []Inv
<1>1. Init => Inv
  BY InitInv
<1>2. Inv /\ [Next]_vars => Inv'
  BY NextInv
<1> QED BY <1>1, <1>2, PTL DEF Spec

\* What a step does to the control state: update() takes a good step, and
\* every other step ends any run or leaves level, relays and flags alone.
LEMMA StepShape ==
    ASSUME Inv, Next
    PROVE  \/ Update /\ Decided(ctl)
           \/ ctl'.action \notin Running
           \/ SameControl(ctl', ctl)
<1>1. CASE Update
  BY <1>1, UpdateOK DEF Inv
<1>2. CASE Tick
  BY <1>2 DEF Tick, SameControl, Inv, TypeOK, Control
<1>3. ASSUME NEW m \in Modes, SetMode(m) PROVE ctl'.action \notin Running
  <2>1. CASE m = "OFF"
    BY <1>3, <2>1 DEF SetMode, Drive, Inv, TypeOK, Control, Running
  <2>2. CASE m # "OFF"
    BY <1>3, <2>2 DEF SetMode, Inv, TypeOK, Control, Running
  <2> QED BY <2>1, <2>2
<1>4. ASSUME NEW m \in Modes, Reboot(m) PROVE ctl'.action \notin Running
  BY <1>4, FreshOK, Constants DEF Reboot, Assumptions
<1>5. ASSUME NEW t \in Temps, SetCurrentTemperature(t) PROVE SameControl(ctl', ctl)
  BY <1>5 DEF SetCurrentTemperature, SameControl, Inv, TypeOK, Control
<1>6. CASE ctl' = ctl
  BY <1>6 DEF SameControl
<1> QED BY <1>1, <1>2, <1>3, <1>4, <1>5, <1>6
        DEF Next, SetHeatSetpoint, SetCoolSetpoint, SetForceFurnace, SetForceNoHP,
            SetFanIdle, OutTempChange, DefrostChange, ForceOutput, ReleaseOutput

\* update() never leaves a run on that has exceeded its maximum.
LEMMA UpdateBoundsRun ==
    ASSUME Inv, Update, ctl'.action \in Running
    PROVE  ctl'.sinceStart <= MaxRun
<1> USE DEF Inv, TypeOK
<1>1. mode # "OFF"
  BY DEF Update, OffMeansOff, Running
<1> DEFINE s == DefrostCheck(StaleCheck(ctl))
<1>2. s \in Control /\ ControlOK(s) /\ GoodStep(ctl, s)
  BY FirstHalfOK DEF OverrideOK
<1>3. Decide(s)
  BY <1>1 DEF Update
<1> HIDE DEF s
<1>4. ~Overran(s)
  <2> SUFFICES ASSUME Overran(s) PROVE FALSE
    OBVIOUS
  <2>1. ctl'.action = "IDLE"
    BY <1>2, <1>3 DEF Decide, MaxRunStop, Drive, Control
  <2> QED BY <2>1 DEF Running
<1>5. mode = "FAN_ONLY" => s.action # "HEATING"
  BY <1>2 DEF GoodStep, RunSuitsMode
<1>6. Decided(s)
  BY <1>2, <1>3, <1>4, <1>5, StayOK, HeatingOK, CoolingOK, FanIdleOK, FanOnlyOK
  DEF Decide, UpdateAuto, OverrideOK
<1>7. s.sinceStart \in Int
  BY <1>2, CapsType DEF Control
<1> QED BY <1>4, <1>6, <1>7, TimesAssumption DEF Decided, GoodStep, Overran

-----------------------------------------------------------------------------
(* The theorems.                                                           *)

THEOREM TypeCorrect == Spec => []TypeOK
BY Invariance, PTL DEF Inv

\* In every heating run the relays match the level, for any timing constants,
\* inputs, mode changes and overridable outputs.
THEOREM HeatingRelays == Spec => []HeatRunDrivesItsLevel
<1>1. Inv => HeatRunDrivesItsLevel
  BY DEF Inv, ControlOK, HeatRunDrivesItsLevel
<1> QED BY <1>1, Invariance, PTL

THEOREM CoolingRelays == Spec => []CoolRunDrivesItsLevel
<1>1. Inv => CoolRunDrivesItsLevel
  BY DEF Inv, ControlOK, CoolRunDrivesItsLevel
<1> QED BY <1>1, Invariance, PTL

THEOREM DefrostSafe == Spec => []DefrostCanBeLeft
<1>1. Inv => DefrostCanBeLeft
  BY DEF Inv, ControlOK, DefrostCanBeLeft
<1> QED BY <1>1, Invariance, PTL

THEOREM Interlocked == Spec => []Interlock
<1>1. Inv => Interlock
  BY DEF Inv, ControlOK, Interlock
<1> QED BY <1>1, Invariance, PTL

THEOREM OffIsOff == Spec => [](OffMeansOff /\ RunSuitsMode)
<1>1. Inv => OffMeansOff /\ RunSuitsMode
  BY DEF Inv
<1> QED BY <1>1, Invariance, PTL

-----------------------------------------------------------------------------
(* The level of a heating run.                                             *)

\* The first half of update() leaves a heating run its stage and the age of it.
LEMMA FirstHalfKeepsStage ==
    ASSUME NEW s \in Control, ControlOK(s), s.action = "HEATING"
    PROVE  LET r == DefrostCheck(StaleCheck(s)) IN
           r.action = "HEATING" /\ Stage(r) = Stage(s) /\ r.sinceEsc = s.sinceEsc
<1> DEFINE u == StaleCheck(s)
<1>1. /\ u \in Control /\ u.action = "HEATING" /\ u.heat = s.heat /\ u.pre = s.pre
      /\ u.defrost = s.defrost /\ u.sinceEsc = s.sinceEsc
  BY DEF StaleCheck, Control
<1>2. s.defrost => s.pre # "IDLE"
  BY DEF ControlOK, DefrostRunOK, HeatPumpLevel, FurnaceLevel
<1> HIDE DEF u
<1>3. CASE defrostIn /\ ~u.defrost
  <2>1. DefrostCheck(u) = EnterDefrost(u)
    BY <1>1, <1>3 DEF DefrostCheck
  <2> QED BY <1>1, <1>3, <2>1 DEF EnterDefrost, ApplyHeatLevel, Drive, Stage, Control, u
<1>4. CASE ~defrostIn /\ u.defrost
  <2>1. DefrostCheck(u) = ApplyHeatLevel([u EXCEPT !.defrost = FALSE], u.pre)
    BY <1>1, <1>2, <1>4 DEF DefrostCheck, ExitDefrost
  <2> QED BY <1>1, <1>4, <2>1 DEF ApplyHeatLevel, Drive, Stage, Control, u
<1>5. CASE ~(defrostIn /\ ~u.defrost) /\ ~(~defrostIn /\ u.defrost)
  <2>1. DefrostCheck(u) = u
    BY <1>5 DEF DefrostCheck
  <2> QED BY <1>1, <2>1 DEF Stage, u
<1> QED BY <1>3, <1>4, <1>5

\* What ApplyHeatLevel() leaves of a run out of defrost
LEMMA AppliedStage ==
    ASSUME NEW s \in Control, ~s.defrost, NEW level
    PROVE  LET r == ApplyHeatLevel([s EXCEPT !.sinceEsc = 0], level) IN
           Stage(r) = level /\ r.sinceEsc = 0
BY DEF ApplyHeatLevel, Drive, Stage, Control

LEMMA HoldChangesWhenDue ==
    ASSUME NEW s \in Control, ControlOK(s), ~s.defrost, HoldHeat(s)
    PROVE  LevelChangeIsDue(s, ctl')
<1>1. s.action = "HEATING" /\ s.heat \in HeatPumpLevel \cup FurnaceLevel /\ Stage(s) = s.heat
  BY DEF HoldHeat, ControlOK, HeatRunOK, DefrostRunOK, Control, HeatLevel,
         HeatPumpLevel, FurnaceLevel, Stage
<1> DEFINE u == Escalate(s)
           next == NextHeatLevel(s.heat)
<1>2. CASE CanEscalate(s) /\ next # s.heat
  <2>1. u = ApplyHeatLevel([s EXCEPT !.sinceEsc = 0], next)
    BY <1>2 DEF Escalate
  <2>2. u.heat = next /\ u.defrost = FALSE /\ u.sinceEsc = 0
    BY <2>1 DEF ApplyHeatLevel, Drive, Control
  <2>3. /\ Rank(s.heat) < Rank(next) /\ next \in HeatPumpLevel \cup FurnaceLevel
        /\ next = "FURNACE_HIGH" => s.heat = "FURNACE_LOW"
        /\ next \in HeatPumpLevel => s.heat \in HeatPumpLevel
    BY <1>1, <1>2 DEF NextHeatLevel, Rank, HeatPumpLevel, FurnaceLevel
  <2>4. CASE ctl' = u
    BY <1>1, <1>2, <2>2, <2>3, <2>4 DEF LevelChangeIsDue, CanEscalate, Stage
  <2>5. CASE /\ ~outTempOk /\ next \in HeatPumpLevel
             /\ ctl' = ApplyHeatLevel([u EXCEPT !.sinceEsc = 0], "FURNACE_LOW")
    <3>1. Stage(ctl') = "FURNACE_LOW" /\ ctl'.sinceEsc = 0
      BY <2>1, <2>5 DEF ApplyHeatLevel, Drive, Stage, Control
    <3> QED BY <1>1, <2>3, <2>5, <3>1 DEF LevelChangeIsDue
  <2> QED BY <2>2, <2>4, <2>5 DEF HoldHeat, LeaveHeatPump
<1>3. CASE ~(CanEscalate(s) /\ next # s.heat)
  <2>1. u = s
    BY <1>3 DEF Escalate
  <2>2. CASE ctl' = s
    BY <2>2 DEF LevelChangeIsDue
  <2>3. CASE /\ ~outTempOk /\ s.heat \in HeatPumpLevel
             /\ ctl' = ApplyHeatLevel([s EXCEPT !.sinceEsc = 0], "FURNACE_LOW")
    BY <1>1, <2>3, AppliedStage DEF LevelChangeIsDue
  <2> QED BY <2>1, <2>2, <2>3 DEF HoldHeat, LeaveHeatPump
<1> QED BY <1>2, <1>3

\* The second half changes the level of a run that goes on in HoldHeat only.
LEMMA DecideChangesWhenDue ==
    ASSUME NEW s \in Control, ControlOK(s), s.action = "HEATING", Decide(s),
           ctl'.action = "HEATING"
    PROVE  LevelChangeIsDue(s, ctl')
<1>1. CASE ctl' = s
  BY <1>1 DEF LevelChangeIsDue
<1>2. CASE ~s.defrost /\ HoldHeat(s)
  BY <1>2, HoldChangesWhenDue
<1>3. s.action \notin Resting /\ s.action # "COOLING"
  BY DEF Resting
<1>4. ASSUME UpdateHeating(s) PROVE ctl' = s \/ (~s.defrost /\ HoldHeat(s))
  <2>1. ~StopHeat(s)
    BY DEF StopHeat, Drive, Control
  <2> QED BY <1>3, <1>4, <2>1 DEF UpdateHeating, StartHeat, KeepHeat
<1>5. ~(Overran(s) /\ MaxRunStop(s))
  BY DEF MaxRunStop, Drive, Control
<1>6. UpdateCooling(s) => ctl' = s
  BY <1>3 DEF UpdateCooling, StartCool, StopCool, Supplement, KeepCool
<1>7. ~UpdateFanOnly(s)
  BY DEF UpdateFanOnly, Drive, Control
<1>8. UpdateAuto(s) => UpdateHeating(s)
  BY DEF UpdateAuto, Running
<1> QED BY <1>1, <1>2, <1>4, <1>5, <1>6, <1>7, <1>8 DEF Decide

\* Within a heating run, defrost included, the level changes only when its delay
\* is over or for the outdoor temperature.
THEOREM LevelChangesAreDue == Spec => LevelChangesWhenDue
<1>1. Inv /\ [Next]_vars
      => [ctl.action = "HEATING" /\ ctl'.action = "HEATING"
          => LevelChangeIsDue(ctl, ctl')]_vars
  <2> SUFFICES ASSUME Inv, Next, ctl.action = "HEATING", ctl'.action = "HEATING"
               PROVE  LevelChangeIsDue(ctl, ctl')
    OBVIOUS
  <2>1. CASE Update
    <3> DEFINE s == DefrostCheck(StaleCheck(ctl))
    <3>1. s \in Control /\ ControlOK(s)
      BY FirstHalfOK DEF Inv, TypeOK, OverrideOK
    <3>2. s.action = "HEATING" /\ Stage(s) = Stage(ctl) /\ s.sinceEsc = ctl.sinceEsc
      BY FirstHalfKeepsStage DEF Inv, TypeOK
    <3>3. ctl' = ctl \/ Decide(s)
      BY <2>1 DEF Update
    <3> HIDE DEF s
    <3>4. CASE ctl' = ctl
      BY <3>4 DEF LevelChangeIsDue
    <3>5. CASE Decide(s)
      <4>1. LevelChangeIsDue(s, ctl')
        BY <3>1, <3>2, <3>5, DecideChangesWhenDue
      <4> QED BY <3>2, <4>1 DEF LevelChangeIsDue
    <3> QED BY <3>3, <3>4, <3>5
  <2>2. CASE SameControl(ctl', ctl)
    BY <2>2 DEF SameControl, Stage, LevelChangeIsDue
  <2> QED BY <2>1, <2>2, StepShape DEF Running
<1> QED BY <1>1, Invariance, PTL DEF Spec, LevelChangesWhenDue

\* update() respects the minimum on time of a heating run.
THEOREM MinOnRespected == Spec => HeatRunsMinOn
<1>1. Inv /\ [Next]_vars
      => [Update /\ ctl.action = "HEATING" /\ ctl'.action # "HEATING"
          => ctl.sinceStart >= MinOn \/ ctl.sinceStart > MaxRun]_vars
  BY UpdateOK DEF Inv, Decided, GoodStep
<1> QED BY <1>1, Invariance, PTL DEF Spec, HeatRunsMinOn
=============================================================================
