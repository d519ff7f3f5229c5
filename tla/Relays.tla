------------------------------- MODULE Relays -------------------------------
(***************************************************************************)
(* The relay outputs and the relay pattern of every heat and cool level    *)
(* (include/Thermostat.h, applyHeatLevel and applyCoolLevel of             *)
(* src/Thermostat.cpp).  Constant level: no state.                         *)
(***************************************************************************)

\* OutputIdx: the eight relay outputs.
Output == {"FAN1", "REV", "FURN_COOL_LOW", "FURN_COOL_HIGH",
           "W1", "W2", "COMP1", "COMP2"}

\* ThermostatMode, ThermostatAction, HeatLevel and CoolLevel.
Mode == {"OFF", "HEAT", "COOL", "HEAT_COOL", "FAN_ONLY"}
Action == {"OFF", "IDLE", "HEATING", "COOLING", "FAN_RUNNING"}
HeatLevel == {"IDLE", "HP_LOW", "HP_HIGH", "FURNACE_LOW", "FURNACE_HIGH", "DEFROST"}
CoolLevel == {"IDLE", "COOL", "COOL_SUPP"}

\* The outputs applyHeatLevel(level) turns on after allRelaysOff().
HeatRelays(level) ==
    CASE level = "HP_LOW"       -> {"FAN1", "FURN_COOL_LOW", "COMP1"}
      [] level = "HP_HIGH"      -> {"FAN1", "FURN_COOL_LOW", "COMP1", "COMP2"}
      [] level = "FURNACE_LOW"  -> {"FAN1", "W1"}
      [] level = "FURNACE_HIGH" -> {"FAN1", "W1", "W2"}
      [] level = "DEFROST"      -> {"FAN1", "FURN_COOL_LOW", "W1", "COMP1"}
      [] OTHER                  -> {}

\* The outputs applyCoolLevel(level) turns on after allRelaysOff().
CoolRelays(level) ==
    CASE level = "COOL"      -> {"FAN1", "REV", "FURN_COOL_LOW", "COMP1"}
      [] level = "COOL_SUPP" -> {"FAN1", "REV", "FURN_COOL_LOW", "FURN_COOL_HIGH",
                                 "COMP1", "COMP2"}
      [] OTHER               -> {}

HeatPumpLevel == {"HP_LOW", "HP_HIGH"}
FurnaceLevel == {"FURNACE_LOW", "FURNACE_HIGH"}
=============================================================================
