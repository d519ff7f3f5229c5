--------------------------- MODULE ThermostatRuns ---------------------------
(***************************************************************************)
(* The controller of Thermostat with one history variable, the ticks since *)
(* its last heating or cooling run ended, shown to implement RunCycle.     *)
(***************************************************************************)
EXTENDS Thermostat

VARIABLE restFor   \* history: ticks since a run, counted up to MinOff

runVars == <<vars, restFor>>

RestNext ==
    restFor' = IF ctl.action \in Running \/ ctl'.action \in Running THEN 0
               ELSE IF ~due /\ due' THEN Older(restFor, MinOff) ELSE restFor

RunsInit == Init /\ restFor = 0
RunsNext == Next /\ RestNext
RunsSpec == RunsInit /\ [][RunsNext]_runVars

RunOf(s) == CASE s.action = "HEATING" -> "heat"
              [] s.action = "COOLING" -> "cool"
              [] OTHER -> "none"

Cycle == INSTANCE RunCycle WITH
    run <- RunOf(ctl),
    ranFor <- IF ctl.action \in Running THEN ctl.sinceStart ELSE 0,
    restedFor <- restFor

\* The controller implements RunCycle: no order of mode changes, defrosts,
\* lost temperatures and restarts makes a run start without its rest or last
\* beyond the maximum run time.
ImplementsRunCycle == Cycle!Spec

\* The run time is enforced within the tick it is exceeded in, and the age
\* canTurnOn() consults never exceeds the real rest.
RunTimes ==
    /\ restFor \in 0..MinOff
    /\ ctl.action \in Running =>
         /\ restFor = 0
         /\ ctl.sinceStart <= MaxRun + (IF due THEN 1 ELSE 0)
    /\ ctl.action \notin Running /\ mode # "OFF" => ctl.sinceAction <= restFor

-----------------------------------------------------------------------------
(* The scheduler keeps running update(); nobody has to call a setter.      *)

Fairness == WF_vars(Tick) /\ WF_vars(Update)
FairSpec == RunsSpec /\ Fairness

\* Every run ends, even with no temperature reports and a defrost input that
\* never clears.
EveryRunEnds == (ctl.action \in Running) ~> (ctl.action \notin Running)

\* A persistent call for heat in mode HEAT is served again and again, as long
\* as fresh temperatures keep coming and update() sometimes finds the defrost
\* input clear: neither a defrost flag left over from another mode nor the fan
\* cycle nor an expired run keeps the house cold.
HeatCallServed ==
    /\ <>[](mode = "HEAT" /\ ctl.valid /\ sinceTemp <= Stale /\ CallsHeat)
    /\ []<><<Update /\ ~defrostIn>>_runVars
    => []<>(ctl.action = "HEATING")
=============================================================================
