------------------------ MODULE ThermostatRunsProofs ------------------------
(***************************************************************************)
(* The controller implements RunCycle: proof for every value of the        *)
(* constants.                                                              *)
(***************************************************************************)
EXTENDS ThermostatRuns, ThermostatProofs

RunsInv == Inv /\ RunTimes

LEMMA OlderType ==
    ASSUME NEW cap \in Nat, NEW age \in 0..cap
    PROVE  /\ Older(age, cap) \in 0..cap /\ age <= Older(age, cap) /\ Older(age, cap) <= age + 1
           /\ \A old \in 0..cap : age <= old => Older(age, cap) <= Older(old, cap)
BY DEF Older

LEMMA AgesType ==
    ASSUME Inv
    PROVE  /\ ctl.sinceAction \in 0..MinOff /\ ctl.sinceStart \in 0..StartCap
           /\ ctl.action \in Action /\ due \in BOOLEAN
BY DEF Inv, TypeOK, Control

\* Only Tick and update() change an age without ending the run, and only
\* Tick starts a new tick.
LEMMA OtherSteps ==
    ASSUME Inv, Next, ~Tick, ~Update
    PROVE  /\ ~(~due /\ due')
           /\ \/ /\ ctl'.action \notin Running
                 /\ mode' = "OFF" \/ ctl'.sinceAction = 0
              \/ /\ mode' = mode /\ due' = due
                 /\ ctl'.action = ctl.action /\ ctl'.sinceStart = ctl.sinceStart
                 /\ ctl'.sinceAction = ctl.sinceAction
<1>1. ASSUME NEW m \in Modes, SetMode(m)
      PROVE  /\ ctl'.action \notin Running /\ due' = due
             /\ mode' = "OFF" \/ ctl'.sinceAction = 0
  <2>1. CASE m = "OFF"
    BY <1>1, <2>1 DEF SetMode, Drive, Inv, TypeOK, Control, Running
  <2>2. CASE m # "OFF"
    BY <1>1, <2>2 DEF SetMode, Inv, TypeOK, Control, Running
  <2> QED BY <2>1, <2>2
<1>2. ASSUME NEW m \in Modes, Reboot(m)
      PROVE  ctl'.action \notin Running /\ due' = FALSE /\ ctl'.sinceAction = 0
  BY <1>2 DEF Reboot, FreshControl, Running
<1>3. ASSUME NEW t \in Temps, SetCurrentTemperature(t)
      PROVE  /\ mode' = mode /\ due' = due /\ ctl'.action = ctl.action
             /\ ctl'.sinceStart = ctl.sinceStart /\ ctl'.sinceAction = ctl.sinceAction
  BY <1>3 DEF SetCurrentTemperature, Inv, TypeOK, Control
<1>4. CASE mode' = mode /\ due' = due /\ ctl' = ctl
  BY <1>4
<1> QED BY <1>1, <1>2, <1>3, <1>4
        DEF Next, SetHeatSetpoint, SetCoolSetpoint, SetForceFurnace, SetForceNoHP,
            SetFanIdle, OutTempChange, DefrostChange, ForceOutput, ReleaseOutput

LEMMA RunsInitInv == RunsInit => RunsInv
<1> SUFFICES ASSUME RunsInit PROVE RunsInv
  OBVIOUS
<1>1. Inv /\ mode \in Mode
  BY InitInv DEF RunsInit, Inv, TypeOK
<1>2. ctl.action \notin Running /\ ctl.sinceAction = 0
  BY <1>1, FreshOK DEF RunsInit, Init, FreshControl
<1> QED BY <1>1, <1>2, TimesAssumption DEF RunsInit, RunsInv, RunTimes

LEMMA RunsNextInv == RunsInv /\ [RunsNext]_runVars => RunsInv'
<1> SUFFICES ASSUME RunsInv, [RunsNext]_runVars PROVE RunTimes'
  BY NextInv DEF RunsInv, RunsNext, runVars
<1> USE TimesAssumption, CapsType
<1>1. /\ Inv /\ RunTimes
      /\ ctl.sinceAction \in 0..MinOff /\ ctl.sinceStart \in 0..StartCap
  BY AgesType DEF RunsInv
<1>2. CASE RunsNext /\ Tick
  <2>1. /\ ctl'.action = ctl.action /\ mode' = mode /\ due' = TRUE /\ due = FALSE
        /\ ctl'.sinceStart = Older(ctl.sinceStart, StartCap)
        /\ ctl'.sinceAction = Older(ctl.sinceAction, MinOff)
    BY <1>1, <1>2 DEF Tick, Inv, TypeOK, Control
  <2>2. restFor' = IF ctl.action \in Running THEN 0 ELSE Older(restFor, MinOff)
    BY <1>2, <2>1 DEF RunsNext, RestNext
  <2>3. restFor' \in 0..MinOff
    BY <1>1, <2>2, OlderType DEF RunTimes
  <2>4. ctl.action \in Running => ctl'.sinceStart <= MaxRun + 1 /\ restFor' = 0
    <3>1. ctl'.sinceStart <= ctl.sinceStart + 1 /\ ctl'.sinceStart \in Int
      BY <1>1, <2>1 DEF Older
    <3>2. ctl.action \in Running => ctl.sinceStart <= MaxRun
      BY <1>1, <2>1 DEF RunTimes
    <3> QED BY <1>1, <2>2, <3>1, <3>2
  <2>5. ctl.action \notin Running /\ mode # "OFF" => ctl'.sinceAction <= restFor'
    <3>1. restFor \in 0..MinOff
      BY <1>1 DEF RunTimes
    <3>2. ctl.sinceAction <= restFor
          => Older(ctl.sinceAction, MinOff) <= Older(restFor, MinOff)
      BY <1>1, <3>1, OlderType
    <3> QED BY <1>1, <2>1, <2>2, <3>2 DEF RunTimes
  <2> QED BY <2>1, <2>3, <2>4, <2>5 DEF RunTimes
<1>3. CASE RunsNext /\ Update
  <2>1. GoodStep(ctl, ctl') /\ mode' = mode /\ due' = FALSE /\ ctl' \in Control
    BY <1>1, <1>3, UpdateOK DEF Update, Decided, Inv
  <2>2. ctl'.action \in Running => ctl'.sinceStart <= MaxRun
    BY <1>1, <1>3, UpdateBoundsRun
  <2>3. restFor' = IF ctl.action \in Running \/ ctl'.action \in Running THEN 0 ELSE restFor
    BY <1>3, <2>1 DEF RunsNext, RestNext
  <2>4. restFor' \in 0..MinOff
    BY <1>1, <2>3 DEF RunTimes
  <2>5. ctl'.action \notin Running /\ mode # "OFF" => ctl'.sinceAction <= restFor'
    BY <1>1, <2>1, <2>3, <2>4 DEF RunTimes, GoodStep
  <2> QED BY <2>1, <2>2, <2>3, <2>4, <2>5 DEF RunTimes
<1>4. CASE RunsNext /\ ~Tick /\ ~Update
  <2>1. restFor' = IF ctl.action \in Running \/ ctl'.action \in Running THEN 0 ELSE restFor
    BY <1>1, <1>4, OtherSteps DEF RunsNext, RestNext
  <2>2. restFor' \in 0..MinOff
    BY <1>1, <2>1 DEF RunTimes
  <2>3. CASE /\ ctl'.action \notin Running
             /\ mode' = "OFF" \/ ctl'.sinceAction = 0
    BY <2>2, <2>3 DEF RunTimes
  <2>4. CASE /\ mode' = mode /\ due' = due
             /\ ctl'.action = ctl.action /\ ctl'.sinceStart = ctl.sinceStart
             /\ ctl'.sinceAction = ctl.sinceAction
    BY <1>1, <2>1, <2>2, <2>4 DEF RunTimes
  <2> QED BY <1>1, <1>4, <2>3, <2>4, OtherSteps DEF RunsNext
<1>5. CASE UNCHANGED runVars
  BY <1>1, <1>5 DEF runVars, vars, RunTimes
<1> QED BY <1>2, <1>3, <1>4, <1>5 DEF RunsNext

\* A run never outlasts MaxRun by more than the tick update() may be late,
\* and canTurnOn() never believes in a longer rest than there was.
THEOREM RunTimesInvariance == RunsSpec => []RunTimes
<1>1. RunsInit => RunsInv
  BY RunsInitInv
<1>2. RunsInv /\ [RunsNext]_runVars => RunsInv'
  BY RunsNextInv
<1>3. RunsInv => RunTimes
  BY DEF RunsInv
<1> QED BY <1>1, <1>2, <1>3, PTL DEF RunsSpec

-----------------------------------------------------------------------------
(* Refinement.                                                             *)

LEMMA CycleStep ==
    RunsInv /\ RunsInv' /\ [RunsNext]_runVars => [Cycle!Next]_(Cycle!vars)
<1> SUFFICES ASSUME RunsInv, RunsInv', [RunsNext]_runVars
             PROVE  Cycle!Next \/ UNCHANGED Cycle!vars
  OBVIOUS
<1> USE TimesAssumption, CapsType
<1> USE DEF Cycle!Next, Cycle!vars, Cycle!Begin, Cycle!End, Cycle!RunOn, Cycle!Rest
<1>1. /\ Inv /\ RunTimes /\ RunTimes'
      /\ ctl.sinceAction \in 0..MinOff /\ ctl.sinceStart \in 0..StartCap
      /\ ctl.action \in Action /\ ctl'.action \in Action /\ due \in BOOLEAN
  BY AgesType DEF RunsInv, Inv, TypeOK, Control
\* A step that ends a run, or leaves the system at rest within a tick.
<1>2. ASSUME RunsNext, ctl'.action \notin Running, ~(~due /\ due')
      PROVE  Cycle!Next \/ UNCHANGED Cycle!vars
  <2>1. CASE ctl.action \in Running
    <3>1. restFor' = 0 /\ RunOf(ctl') = "none" /\ RunOf(ctl) # "none"
      BY <1>2, <2>1 DEF RunsNext, RestNext, RunOf, Running
    <3> QED BY <1>2, <3>1 DEF Cycle!End
  <2>2. CASE ctl.action \notin Running
    <3>1. restFor' = restFor /\ RunOf(ctl') = "none" /\ RunOf(ctl) = "none"
      BY <1>2, <2>2 DEF RunsNext, RestNext, RunOf, Running
    <3> QED BY <1>2, <2>2, <3>1
  <2> QED BY <2>1, <2>2
\* A step within a tick that leaves a run as it is.
<1>3. ASSUME RunsNext, ctl'.action \in Running, ctl'.action = ctl.action,
             ctl'.sinceStart = ctl.sinceStart
      PROVE  UNCHANGED Cycle!vars
  <2>1. restFor' = 0 /\ restFor = 0 /\ RunOf(ctl') = RunOf(ctl)
    BY <1>1, <1>3 DEF RunsNext, RestNext, RunTimes, RunOf
  <2> QED BY <1>3, <2>1
<1>4. CASE RunsNext /\ Tick
  <2>1. /\ ctl'.action = ctl.action /\ due' = TRUE /\ due = FALSE
        /\ ctl'.sinceStart = Older(ctl.sinceStart, StartCap)
    BY <1>1, <1>4 DEF Tick, Inv, TypeOK, Control
  <2>2. RunOf(ctl') = RunOf(ctl)
    BY <2>1 DEF RunOf
  <2>3. CASE ctl.action \in Running
    <3>1. ctl.sinceStart <= MaxRun /\ ctl'.sinceStart = ctl.sinceStart + 1
      BY <1>1, <2>1, <2>3 DEF RunTimes, Older
    <3>2. restFor' = 0 /\ restFor = 0 /\ RunOf(ctl) # "none"
      BY <1>1, <1>4, <2>3 DEF RunTimes, RunsNext, RestNext, RunOf, Running
    <3> QED BY <2>1, <2>2, <2>3, <3>1, <3>2 DEF Cycle!RunOn
  <2>4. CASE ctl.action \notin Running
    <3>1. restFor' = Older(restFor, MinOff) /\ RunOf(ctl) = "none"
      BY <1>4, <2>1, <2>4 DEF RunsNext, RestNext, RunOf, Running
    <3>2. restFor \in 0..MinOff
      BY <1>1 DEF RunTimes
    <3> QED BY <2>1, <2>2, <2>4, <3>1, <3>2 DEF Older, Cycle!Rest
  <2> QED BY <2>3, <2>4
<1>5. CASE RunsNext /\ Update
  <2>1. GoodStep(ctl, ctl') /\ due' = FALSE
    BY <1>1, <1>5, UpdateOK DEF Update, Decided, Inv
  <2>2. CASE ctl'.action \notin Running
    BY <1>2, <1>5, <2>1, <2>2
  <2>3. CASE ctl'.action \in Running /\ ctl.action \in Running
    BY <1>3, <1>5, <2>1, <2>3 DEF GoodStep
  <2>4. CASE ctl'.action \in Running /\ ctl.action \notin Running
    <3>1. ctl.sinceAction >= MinOff /\ ctl'.sinceStart = 0
      BY <2>1, <2>4 DEF GoodStep
    <3>2. mode # "OFF"
      BY <1>1, <2>1, <2>4 DEF GoodStep, RunSuitsMode, Inv, Running
    <3>3. restFor >= MinOff /\ restFor' = 0
      BY <1>1, <1>5, <2>4, <3>1, <3>2 DEF RunTimes, RunsNext, RestNext
    <3>4. RunOf(ctl) = "none" /\ RunOf(ctl') \in {"heat", "cool"}
      BY <2>4 DEF RunOf, Running
    <3> QED BY <2>4, <3>1, <3>3, <3>4 DEF Cycle!Begin
  <2> QED BY <2>2, <2>3, <2>4
<1>6. CASE RunsNext /\ ~Tick /\ ~Update
  <2>1. CASE ctl'.action \notin Running
    BY <1>1, <1>2, <1>6, <2>1, OtherSteps DEF RunsNext
  <2>2. CASE ctl'.action \in Running
    BY <1>1, <1>3, <1>6, <2>2, OtherSteps DEF RunsNext
  <2> QED BY <2>1, <2>2
<1>7. CASE UNCHANGED runVars
  BY <1>7 DEF runVars, vars
<1> QED BY <1>4, <1>5, <1>6, <1>7 DEF RunsNext

\* Every behaviour of the controller is one RunCycle allows: runs are bounded
\* and rested between, across mode changes, defrosts and restarts.
THEOREM Refinement == RunsSpec => ImplementsRunCycle
<1>1. RunsInit => Cycle!Init
  <2> SUFFICES ASSUME RunsInit PROVE Cycle!Init
    OBVIOUS
  <2>1. ctl.action \notin Running
    BY DEF RunsInit, Init, FreshControl, Running
  <2> QED BY <2>1 DEF RunsInit, Cycle!Init, RunOf, Running
<1>2. RunsInit => RunsInv
  BY RunsInitInv
<1>3. RunsInv /\ [RunsNext]_runVars => RunsInv'
  BY RunsNextInv
<1>4. RunsInv /\ RunsInv' /\ [RunsNext]_runVars => [Cycle!Next]_(Cycle!vars)
  BY CycleStep
<1> QED BY <1>1, <1>2, <1>3, <1>4, PTL DEF RunsSpec, ImplementsRunCycle, Cycle!Spec
=============================================================================
