-------------------------------- MODULE Boot --------------------------------
(***************************************************************************)
(* Resets, the crash counter and safe mode (src/main.cpp), the persisted   *)
(* mode, and the handlers that ask for a reboot (src/WebHandler.cpp,       *)
(* src/HttpsServer.cpp).  A boot passes through the phases below in order; *)
(* it may crash or lose power in each of them.                             *)
(*                                                                         *)
(* External: TaskScheduler runs a task that is enabled without a delay in  *)
(* the next pass of loop(), and only later ones after its interval.        *)
(***************************************************************************)
EXTENDS Integers

CONSTANTS
    Modes,          \* modes the operator chooses from
    Threshold,      \* CRASH_BOOT_THRESHOLD and RAPID_REBOOT_THRESHOLD
    BootStableMs,   \* BOOT_STABLE_MS, in ticks
    RebootStableMs, \* REBOOT_STABLE_MS, in ticks
    SavePeriod,     \* the interval of tSaveState, in ticks
    MaxResets       \* bound on the counters of resets

ASSUME BootAssumption ==
    /\ Threshold \in Nat \ {0} /\ MaxResets \in Nat /\ SavePeriod \in Nat
    /\ BootStableMs \in Nat /\ RebootStableMs \in Nat /\ BootStableMs <= RebootStableMs

\* "reset": before setup(); then one phase per callback of the first pass of
\* loop(), in the order the tasks were created; then "running".
Phase == {"reset", "booted", "saved", "bootStable", "running"}

VARIABLES
    phase, reason,   \* how far the boot is, and esp_reset_reason()
    crashBootCount,  \* _crashBootCount, in RTC memory
    rapidCount,      \* _rapidRebootCount, in RTC memory
    safeMode,        \* _safeMode
    limited,         \* _rebootRateLimited
    mode,            \* the thermostat's mode
    proj,            \* proj.thermostatMode
    flash,           \* the mode and forceSafeMode in config.txt
    restart,         \* a task that calls ESP.restart() is due
    shouldReboot,    \* _shouldReboot
    uptime, sinceSave, modeAge, \* ticks since setup(), the last save, the last change of mode
    crashes,      \* history: crashes since a boot finished tBootStable
    earlyCrashes, \* history: successive boots that crashed before BootStableMs
    quickReboots, \* history: successive restarts, each before RebootStableMs
    chosen, sawSafe, \* history: modes the operator ever chose; safe mode was entered
    asked         \* history: the handlers that asked this boot for a reboot

flags == <<safeMode, limited>>
counters == <<crashBootCount, rapidCount>>
modes == <<mode, proj, flash>>
requests == <<restart, shouldReboot, asked>>
times == <<uptime, sinceSave, modeAge>>
history == <<crashes, earlyCrashes, quickReboots, chosen, sawSafe>>
vars == <<phase, reason, counters, flags, modes, requests, times, history>>

Up == phase # "reset"
LastTick == RebootStableMs + SavePeriod + 1
Older(age) == IF age < LastTick THEN age + 1 ELSE age

Init ==
    /\ phase = "reset" /\ reason = "power"
    /\ crashBootCount \in 0..MaxResets /\ rapidCount \in 0..MaxResets \* RTC_NOINIT
    /\ safeMode = FALSE /\ limited = FALSE
    /\ mode = "OFF" /\ proj = "OFF"
    /\ flash \in [mode: Modes, forceSafe: {FALSE}]
    /\ restart = FALSE /\ shouldReboot = FALSE
    /\ uptime = 0 /\ sinceSave = 0 /\ modeAge = 0
    /\ crashes = 0 /\ earlyCrashes = 0 /\ quickReboots = 0
    /\ chosen = {flash.mode} /\ sawSafe = FALSE /\ asked = {}

-----------------------------------------------------------------------------
(* setup() and the first pass of loop()                                    *)

\* Mutant: a power cycle leaves the counters alone.
CountReset_KeepGarbage ==
    /\ crashBootCount' = crashBootCount + (IF reason = "panic" THEN 1 ELSE 0)
    /\ rapidCount' = rapidCount + (IF reason = "sw" THEN 1 ELSE 0)
    /\ safeMode' = (crashBootCount' >= Threshold)
    /\ limited' = (rapidCount' >= Threshold)

CountReset ==
    CASE reason = "panic" ->
            /\ crashBootCount' = crashBootCount + 1 /\ UNCHANGED rapidCount
            /\ safeMode' = (crashBootCount' >= Threshold) /\ limited' = FALSE
      [] reason = "sw" ->
            /\ rapidCount' = rapidCount + 1 /\ UNCHANGED crashBootCount
            /\ limited' = (rapidCount' >= Threshold) /\ safeMode' = FALSE
      [] OTHER ->
            /\ crashBootCount' = 0 /\ rapidCount' = 0
            /\ safeMode' = FALSE /\ limited' = FALSE

\* Load the configuration, begin() and setMode() unless in safe mode
RestoreMode ==
    /\ proj' = flash.mode
    /\ mode' = IF safeMode' THEN "OFF" ELSE flash.mode

Setup ==
    /\ phase = "reset" /\ phase' = "booted"
    /\ CountReset /\ RestoreMode
    /\ restart' = FALSE /\ shouldReboot' = FALSE /\ asked' = {}
    /\ uptime' = 0 /\ sinceSave' = 0 /\ modeAge' = 0
    /\ sawSafe' = (sawSafe \/ safeMode')
    /\ UNCHANGED <<reason, flash, crashes, earlyCrashes, quickReboots, chosen>>

\* Mutant: the state of the thermostat is not copied to proj first.
Save_Stale ==
    /\ proj' = proj
    /\ flash' = [flash EXCEPT !.mode = proj']
    /\ sinceSave' = 0

\* onSaveThermostatState()
Save ==
    /\ proj' = mode
    /\ flash' = [flash EXCEPT !.mode = proj']
    /\ sinceSave' = 0

FirstSave ==
    /\ phase = "booted" /\ phase' = "saved"
    /\ Save
    /\ UNCHANGED <<reason, counters, flags, mode, requests, uptime, modeAge, history>>

\* tBootStable
BootStable ==
    /\ phase = "saved" /\ phase' = "bootStable"
    /\ crashBootCount' = 0
    /\ crashes' = 0
    /\ UNCHANGED <<reason, rapidCount, flags, modes, requests, times,
                   earlyCrashes, quickReboots, chosen, sawSafe>>

\* tRebootStable
RebootStable ==
    /\ phase = "bootStable" /\ phase' = "running"
    /\ rapidCount' = 0 /\ limited' = FALSE
    /\ UNCHANGED <<reason, crashBootCount, safeMode, modes, requests, times, history>>

\* tSaveState, every five minutes
SaveState ==
    /\ phase = "running" /\ sinceSave = SavePeriod
    /\ Save
    /\ UNCHANGED <<phase, reason, counters, flags, mode, requests, uptime, modeAge, history>>

\* A task that is due runs before time passes.
Tick ==
    /\ phase = "running" /\ sinceSave < SavePeriod /\ ~restart
    /\ uptime' = Older(uptime) /\ modeAge' = Older(modeAge) /\ sinceSave' = sinceSave + 1
    /\ UNCHANGED <<phase, reason, counters, flags, modes, requests, history>>

-----------------------------------------------------------------------------
(* Handlers; the web server runs from setup() on.                          *)

SetMode(m) ==
    /\ Up /\ m # mode
    /\ mode' = m /\ modeAge' = 0 /\ chosen' = chosen \cup {m}
    /\ UNCHANGED <<phase, reason, counters, flags, proj, flash, requests, uptime,
                   sinceSave, crashes, earlyCrashes, quickReboots, sawSafe>>

Asked(how) ==
    /\ asked' = asked \cup {how}
    /\ UNCHANGED <<phase, reason, counters, flags, modes, times, history>>

\* Mutant: the handler sets the flag only, as its HTTPS twin does.
HttpReboot_FlagOnly ==
    /\ Up /\ ~limited
    /\ shouldReboot' = TRUE /\ UNCHANGED restart /\ Asked("http")

\* POST /reboot over HTTP; an update or a revert does not look at the limit.
HttpReboot ==
    /\ Up /\ ~limited
    /\ shouldReboot' = TRUE /\ restart' = TRUE /\ Asked("http")

\* POST /reboot over HTTPS, after its delay; nothing reads the flag.
HttpsReboot ==
    /\ Up /\ ~limited
    /\ shouldReboot' = TRUE /\ UNCHANGED restart /\ Asked("https")

\* Safe mode forced or cleared over HTTPS: updateConfig() writes all of proj.
\* No boot reads forceSafeMode.
ForceSafeMode(force) ==
    /\ Up
    /\ flash' = [mode |-> proj, forceSafe |-> force]
    /\ shouldReboot' = TRUE /\ asked' = asked \cup {"https"}
    /\ UNCHANGED <<phase, reason, counters, flags, mode, proj, restart, times, history>>

-----------------------------------------------------------------------------
(* Resets                                                                  *)

Reset(why) ==
    /\ phase' = "reset" /\ reason' = why
    /\ UNCHANGED <<flags, modes, requests, times, chosen, sawSafe>>

\* ESP.restart(), run by a task of a pass after the first callbacks
Restart ==
    /\ phase = "running" /\ restart
    /\ Reset("sw")
    /\ quickReboots' = IF uptime >= RebootStableMs THEN 1
                       ELSE IF quickReboots < MaxResets THEN quickReboots + 1
                       ELSE quickReboots
    /\ earlyCrashes' = 0
    /\ UNCHANGED <<counters, crashes>>

\* A panic or a watchdog
Crash ==
    /\ Up /\ crashes < MaxResets /\ earlyCrashes < MaxResets
    /\ Reset("panic")
    /\ crashes' = crashes + 1
    /\ earlyCrashes' = (IF uptime < BootStableMs THEN earlyCrashes ELSE 0) + 1
    /\ quickReboots' = 0
    /\ UNCHANGED counters

\* The content of RTC memory is lost.
PowerCycle ==
    /\ Reset("power")
    /\ crashBootCount' \in 0..MaxResets /\ rapidCount' \in 0..MaxResets
    /\ crashes' = 0 /\ earlyCrashes' = 0 /\ quickReboots' = 0

Tasks == FirstSave \/ BootStable \/ RebootStable \/ SaveState \/ Tick

Next ==
    \/ Setup \/ Tasks \/ Restart
    \/ \E m \in Modes : SetMode(m)
    \/ HttpReboot \/ HttpsReboot \/ \E force \in BOOLEAN : ForceSafeMode(force)
    \/ Crash \/ PowerCycle

Spec == Init /\ [][Next]_vars

\* setup() and due tasks run; operators, crashes and power cuts need not come.
FairSpec == Spec /\ WF_vars(Setup) /\ WF_vars(Tasks) /\ WF_vars(Restart)

-----------------------------------------------------------------------------
(* Properties.                                                             *)

TypeOK ==
    /\ phase \in Phase /\ reason \in {"panic", "sw", "power"}
    /\ crashBootCount \in 0..MaxResets /\ rapidCount \in Nat
    /\ safeMode \in BOOLEAN /\ limited \in BOOLEAN
    /\ mode \in Modes \cup {"OFF"} /\ proj \in Modes \cup {"OFF"}
    /\ flash \in [mode: Modes \cup {"OFF"}, forceSafe: BOOLEAN]
    /\ restart \in BOOLEAN /\ shouldReboot \in BOOLEAN
    /\ uptime \in Nat /\ sinceSave \in 0..SavePeriod /\ modeAge \in Nat
    /\ crashes \in Nat /\ earlyCrashes \in Nat /\ quickReboots \in Nat
    /\ chosen \subseteq Modes /\ sawSafe \in BOOLEAN
    /\ asked \subseteq {"http", "https"}

\* A boot is in safe mode exactly when Threshold boots have crashed since one
\* last finished its first pass, whatever power cycles and restarts came in
\* between and whatever RTC memory held at power on (main.cpp:459-478).
SafeModeMatchesCrashes ==
    phase \in {"booted", "saved"} => (safeMode <=> crashes >= Threshold)

\* A mode that has been in force for longer than the save period is the one
\* the next boot restores (main.cpp:313, 363-371).
SavedWithinPeriod ==
    Up /\ modeAge > SavePeriod => flash.mode = mode

\* Save and restore never invent a mode: without a safe-mode boot the
\* persisted mode is one the operator chose.
SavedModeWasChosen == ~sawSafe => flash.mode \in chosen

\* POST /reboot over HTTP is followed by a reset.
HttpRebootHappens == "http" \in asked ~> phase = "reset"

\* "SAFE MODE - thermostat control disabled" (main.cpp:466): control is
\* disabled, and the operator's persisted mode outlives the safe-mode boot.
SafeModeKeepsMode == flash.mode \in chosen

\* "Boot stable (30s), crash counter reset to 0" (main.cpp:331): boots that
\* crash before they are stable lead to safe mode.
CrashLoopIsCaught ==
    phase = "booted" /\ earlyCrashes >= Threshold => safeMode

\* "Rapid reboot detected, API reboot rate-limited" (main.cpp:473)
RapidRebootsAreLimited == quickReboots <= Threshold

\* "Reboot requested from %s, rebooting in 2s..." (HttpsServer.cpp:1407)
HttpsRebootHappens == "https" \in asked ~> phase = "reset"

\* "Force safe mode on next boot (one-shot)" (HttpsServer.cpp:592)
ForcedSafeModeIsEntered ==
    [][phase = "reset" /\ phase' = "booted" /\ flash.forceSafe => safeMode']_vars
=============================================================================
