--------------------------- MODULE TemperatureAge ---------------------------
(***************************************************************************)
(* The age of the MQTT temperature (setCurrentTemperature() and the stale  *)
(* check of update(), src/Thermostat.cpp) with millis() as the wrapping    *)
(* counter it is and the two tasks apart: the MQTT callback sets _tempValid *)
(* before _lastTempUpdate, and update() evaluates millis() before it loads *)
(* _lastTempUpdate.  The properties say what holds of a message the two    *)
(* weak spots of this code leave alone, see `disturbed'.                   *)
(***************************************************************************)
EXTENDS Integers

CONSTANTS
    Stale,    \* the 300000 ms of the check, in ticks
    ClockValues  \* the number of values of millis()

ASSUME WordAssumption == Stale \in Nat /\ ClockValues \in Nat /\ ClockValues > Stale + 2

VARIABLES
    off,     \* _mode is OFF
    valid,   \* _tempValid
    stamp,   \* _lastTempUpdate
    millis,  \* millis()
    mqtt,    \* the step of setCurrentTemperature(): "idle" or "stamp"
    check,   \* the step of update(): "idle", "load" or "decide"
    read,    \* the value of millis() update() compares with
    due,     \* update() has not yet run in this tick
    tempAge,  \* history: the true age of the last message, up to ClockValues + Stale + 1
    disturbed \* history: since the last message began to arrive, update() ran
              \* during its arrival or found the mode OFF

tempHistory == <<tempAge, disturbed>>
tempVars == <<off, valid, stamp, millis, mqtt, check, read, due, tempHistory>>

TempInit ==
    /\ off \in BOOLEAN
    /\ valid = FALSE /\ stamp = 0 /\ millis = 0
    /\ mqtt = "idle" /\ check = "idle" /\ read = 0 /\ due = FALSE
    /\ tempAge = 0 /\ disturbed = FALSE

-----------------------------------------------------------------------------
(* setCurrentTemperature()                                                 *)

MarkValid ==
    /\ mqtt = "idle" /\ mqtt' = "stamp"
    /\ valid' = TRUE /\ disturbed' = TRUE
    /\ UNCHANGED <<off, stamp, millis, check, read, due, tempAge>>

Stamp ==
    /\ mqtt = "stamp"
    /\ stamp' = millis /\ tempAge' = 0 /\ mqtt' = "idle"
    /\ disturbed' = (check # "idle")
    /\ UNCHANGED <<off, valid, millis, check, read, due>>

-----------------------------------------------------------------------------
(* update(): the mode, the clock, the stamp, then the decision.            *)

ReadClock ==
    /\ due /\ check = "idle"
    /\ due' = FALSE
    /\ check' = (CASE off -> "idle" [] ~off /\ valid -> "load" [] ~off /\ ~valid -> "decide")
    /\ read' = millis
    /\ disturbed' = (disturbed \/ off)
    /\ UNCHANGED <<off, valid, stamp, millis, mqtt, tempAge>>

\* The unsigned difference of two readings of millis().
Elapsed(from, to) == (to - from) % ClockValues

\* Mutant: the end of the five minutes as an absolute time.
LoadStamp_Absolute ==
    /\ check = "load"
    /\ valid' = (valid /\ read <= (stamp + Stale) % ClockValues)
    /\ check' = "decide"
    /\ UNCHANGED <<off, stamp, millis, mqtt, read, due, tempHistory>>

\* Mutant: the age is never looked at.
LoadStamp_NoCheck ==
    /\ check = "load"
    /\ check' = "decide"
    /\ UNCHANGED <<off, valid, stamp, millis, mqtt, read, due, tempHistory>>

LoadStamp ==
    /\ check = "load"
    /\ valid' = (valid /\ Elapsed(stamp, read) <= Stale)
    /\ check' = "decide"
    /\ UNCHANGED <<off, stamp, millis, mqtt, read, due, tempHistory>>

\* "if (!_tempValid) return", or the decision on the temperature
Judge ==
    /\ check = "decide"
    /\ check' = "idle"
    /\ UNCHANGED <<off, valid, stamp, millis, mqtt, read, due, tempHistory>>

TempSetMode(b) ==
    /\ off' = b
    /\ UNCHANGED <<valid, stamp, millis, mqtt, check, read, due, tempHistory>>

\* Calls are short against a tick, but millis() may advance by one between
\* update()'s two reads.
TempTick ==
    /\ mqtt = "idle" /\ ~due
    /\ check = "idle" \/ (check = "load" /\ millis = read)
    /\ millis' = (millis + 1) % ClockValues
    /\ due' = (check = "idle")
    /\ tempAge' = IF tempAge < ClockValues + Stale + 1 THEN tempAge + 1 ELSE tempAge
    /\ UNCHANGED <<off, valid, stamp, mqtt, check, read, disturbed>>

TempNext == MarkValid \/ Stamp \/ ReadClock \/ LoadStamp \/ Judge \/ TempTick
            \/ \E b \in BOOLEAN : TempSetMode(b)

TempSpec == TempInit /\ [][TempNext]_tempVars

-----------------------------------------------------------------------------
(* Properties.                                                             *)

\* "stale after 5 minutes" (Thermostat.cpp:63): update() drops a temperature
\* only when its last message is older than that, also when millis() wraps.
FreshTemperatureStays ==
    [][LoadStamp /\ valid /\ ~valid' /\ ~disturbed => tempAge > Stale]_tempVars

\* "marking invalid" (Thermostat.cpp:65): no decision rests on a temperature
\* older than five minutes when update() read the clock, however often
\* millis() wraps.
DecidesOnFreshTemperature ==
    check = "decide" /\ valid /\ ~disturbed => tempAge <= Stale + Elapsed(read, millis)
=============================================================================
