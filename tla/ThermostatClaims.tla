-------------------------- MODULE ThermostatClaims --------------------------
(***************************************************************************)
(* What comments of the code say of the relays, checked against Thermostat *)
(* as it is.  History variables measure the relays themselves, where the   *)
(* code measures its action, and remember why the furnace runs.  Every     *)
(* property here is violated: the counterexamples are the findings of      *)
(* PROJECT.json, or are described in README.md.                            *)
(***************************************************************************)
EXTENDS Thermostat

VARIABLES
    heatFor,    \* history: ticks a heat or cold source has been on without a break
    compRest,   \* history: ticks since the compressor was last on
    coldSwitch  \* history: the run left the heat pump's first stage, and so for the
                \* outdoor temperature, and has stayed with the furnace

claimVars == <<vars, heatFor, compRest, coldSwitch>>

Sources == {"COMP1", "W1"}

Measure ==
    LET tick == ~due /\ due' IN
    /\ heatFor' = CASE Sources \cap Energised' = {} -> 0
                    [] Sources \cap Energised' # {} /\ tick -> Older(heatFor, MaxRun + 2)
                    [] OTHER -> heatFor
    /\ compRest' = CASE "COMP1" \in Energised \cup Energised' -> 0
                     [] "COMP1" \notin Energised \cup Energised' /\ tick
                          -> Older(compRest, MinOff)
                     [] OTHER -> compRest
    /\ coldSwitch' =
         /\ ctl'.action = "HEATING" /\ Stage(ctl') \in FurnaceLevel
         /\ coldSwitch \/ (~outTempOk /\ ctl.heat = "HP_LOW" /\ ~forceFurnace)

ClaimsSpec ==
    /\ Init /\ heatFor = 0 /\ compRest = 0 /\ coldSwitch = FALSE
    /\ [][Next /\ Measure]_claimVars

\* "30 min max continuous run" (Thermostat.h:75): no source stays on longer.
MaxContinuousRun == heatFor <= MaxRun + 1

\* "thermostat min-time handles cycling" (main.cpp:174): the compressor is
\* switched on only after it has been off for the minimum off time.
CompressorRests ==
    [][("COMP1" \notin Energised /\ "COMP1" \in Energised') => compRest >= MinOff]_claimVars

\* "3 min minimum on time" (Thermostat.h:72): update() ends a cooling run
\* earlier only for the maximum run time.
CoolRunsMinOn ==
    [][Update /\ ctl.action = "COOLING" /\ ctl'.action # "COOLING"
       => ctl.sinceStart >= MinOn \/ ctl.sinceStart > MaxRun]_claimVars

\* "1 min idle between mode changes" (Thermostat.h:74): the plant does not go
\* from heating to cooling in one step.
Heats(on) == Sources \cap on # {} /\ "REV" \notin on
Cools(on) == {"COMP1", "REV"} \subseteq on
IdleBetweenModes == [][~(Heats(Energised) /\ Cools(Energised'))]_claimVars

\* "Furnace stage 1: fan1+w1" (Thermostat.h:32): the relays of the reported
\* heat level are on.
LevelRelaysOn == HeatRelays(ctl.heat) \subseteq Energised

\* "Check if out_temp_ok changed and we should switch HP <-> Furnace"
\* (Thermostat.cpp:192): an update() that finds the outdoor temperature good
\* again switches a run back that left the heat pump for it.
SwitchesBackToHeatPump ==
    [][Update /\ coldSwitch /\ outTempOk /\ ~forceFurnace /\ ~forceNoHP
       /\ ctl'.action = "HEATING" /\ ctl'.valid /\ ~ctl'.defrost
       => ctl'.heat \in HeatPumpLevel]_claimVars

\* "Override timeout, returning to normal operation" (OutPin.cpp:289): with
\* no override in force nothing is energised in mode OFF.
OverrideEndsOff == mode = "OFF" /\ override = NoOverride => Energised = {}
=============================================================================
