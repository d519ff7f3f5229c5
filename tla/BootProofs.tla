----------------------------- MODULE BootProofs -----------------------------
(***************************************************************************)
(* Safe mode is entered after Threshold crashes and at no other time;      *)
(* without it the persisted mode is always one the operator chose; and a   *)
(* mode in force for longer than the save period is persisted: for any     *)
(* modes, threshold and periods.                                           *)
(***************************************************************************)
EXTENDS Boot, TLAPS

\* The counter in RTC memory counts the crashes since a boot finished its first
\* pass, except where its content was lost or a panic has yet to be counted; a
\* restart comes only from a boot that finished it.
CounterInv ==
    /\ crashes \in Nat
    /\ Up => crashBootCount = crashes
    /\ phase \in {"bootStable", "running"} => crashes = 0
    /\ ~Up /\ reason = "panic" => crashBootCount + 1 = crashes /\ crashBootCount \in Nat
    /\ ~Up /\ reason # "panic" => crashes = 0 /\ (reason = "sw" => crashBootCount = 0)
    /\ SafeModeMatchesCrashes

\* Steps that leave the phase, the counter and the flag alone
counterVars == <<phase, reason, crashBootCount, safeMode, crashes>>

LEMMA CounterStays ==
    ASSUME CounterInv, UNCHANGED counterVars PROVE CounterInv'
BY DEF CounterInv, counterVars, Up, SafeModeMatchesCrashes

LEMMA CounterSetup ==
    ASSUME CounterInv, Setup PROVE CounterInv'
<1>1. ~Up /\ phase' = "booted" /\ crashes' = crashes /\ CountReset
  BY DEF Setup, Up
<1>2. CASE reason = "panic"
  <2>1. crashBootCount' = crashBootCount + 1 /\ safeMode' = (crashBootCount' >= Threshold)
    BY <1>1, <1>2 DEF CountReset
  <2>2. crashBootCount' = crashes /\ crashes \in Nat
    BY <1>1, <1>2, <2>1 DEF CounterInv
  <2> QED BY <1>1, <2>1, <2>2 DEF CounterInv, Up, SafeModeMatchesCrashes
<1>3. CASE reason # "panic"
  <2>1. crashes = 0 /\ safeMode' = FALSE
    BY <1>1, <1>3 DEF CountReset, CounterInv
  <2>2. crashBootCount' = 0
    <3>1. CASE reason = "sw"
      BY <1>1, <3>1 DEF CountReset, CounterInv
    <3>2. CASE reason # "sw"
      BY <1>1, <1>3, <3>2 DEF CountReset
    <3> QED BY <3>1, <3>2
  <2>3. ~(0 >= Threshold)
    BY BootAssumption
  <2> QED BY <1>1, <2>1, <2>2, <2>3 DEF CounterInv, Up, SafeModeMatchesCrashes
<1> QED BY <1>2, <1>3

LEMMA CounterStep == CounterInv /\ [Next]_vars => CounterInv'
<1> SUFFICES ASSUME CounterInv, [Next]_vars PROVE CounterInv'
  OBVIOUS
<1>1. CASE Setup
  BY <1>1, CounterSetup
<1>2. CASE FirstSave
  BY <1>2 DEF FirstSave, CounterInv, Up, SafeModeMatchesCrashes, counters, flags, history
<1>3. CASE BootStable
  <2>1. phase' = "bootStable" /\ crashBootCount' = 0 /\ crashes' = 0
    BY <1>3 DEF BootStable
  <2> QED BY <2>1 DEF CounterInv, Up, SafeModeMatchesCrashes
<1>4. CASE RebootStable
  <2>1. /\ phase = "bootStable" /\ phase' = "running"
        /\ UNCHANGED <<crashBootCount, crashes>>
    BY <1>4 DEF RebootStable, history
  <2> QED BY <2>1 DEF CounterInv, Up, SafeModeMatchesCrashes
<1>5. CASE SaveState \/ Tick
  <2>1. UNCHANGED counterVars
    BY <1>5 DEF SaveState, Tick, counterVars, counters, flags, history
  <2> QED BY <2>1, CounterStays
<1>6. ASSUME NEW m \in Modes, SetMode(m) PROVE CounterInv'
  <2>1. UNCHANGED counterVars
    BY <1>6 DEF SetMode, counterVars, counters, flags
  <2> QED BY <2>1, CounterStays
<1>7. CASE HttpReboot \/ HttpsReboot
  <2>1. UNCHANGED counterVars
    BY <1>7 DEF HttpReboot, HttpsReboot, Asked, counterVars, counters, flags, history
  <2> QED BY <2>1, CounterStays
<1>8. ASSUME NEW force \in BOOLEAN, ForceSafeMode(force) PROVE CounterInv'
  <2>1. UNCHANGED counterVars
    BY <1>8 DEF ForceSafeMode, counterVars, counters, flags, history
  <2> QED BY <2>1, CounterStays
<1>9. CASE Restart
  <2>1. /\ phase = "running" /\ phase' = "reset" /\ reason' = "sw"
        /\ UNCHANGED <<crashBootCount, crashes>>
    BY <1>9 DEF Restart, Reset, counters
  <2> QED BY <2>1 DEF CounterInv, Up, SafeModeMatchesCrashes
<1>10. CASE Crash
  <2>1. /\ Up /\ phase' = "reset" /\ reason' = "panic"
        /\ crashBootCount' = crashBootCount /\ crashes' = crashes + 1
    BY <1>10 DEF Crash, Reset, counters
  <2>2. crashBootCount = crashes /\ crashes \in Nat
    BY <2>1 DEF CounterInv
  <2> QED BY <2>1, <2>2 DEF CounterInv, Up, SafeModeMatchesCrashes
<1>11. CASE PowerCycle
  <2>1. phase' = "reset" /\ reason' = "power" /\ crashes' = 0
    BY <1>11 DEF PowerCycle, Reset
  <2> QED BY <2>1 DEF CounterInv, Up, SafeModeMatchesCrashes
<1>12. CASE UNCHANGED vars
  <2>1. UNCHANGED counterVars
    BY <1>12 DEF vars, counterVars, counters, flags, history
  <2> QED BY <2>1, CounterStays
<1> QED BY <1>1, <1>2, <1>3, <1>4, <1>5, <1>6, <1>7, <1>8, <1>9, <1>10, <1>11, <1>12
        DEF Next, Tasks

\* A boot is in safe mode exactly when Threshold boots have crashed since one
\* last finished its first pass, whatever resets came in between.
THEOREM SafeModeOnCrashesOnly == Spec => []SafeModeMatchesCrashes
<1>1. Init => CounterInv
  BY DEF Init, CounterInv, Up, SafeModeMatchesCrashes
<1>2. CounterInv => SafeModeMatchesCrashes
  BY DEF CounterInv
<1> QED BY <1>1, <1>2, CounterStep, PTL DEF Spec

-----------------------------------------------------------------------------
(* The persisted mode                                                      *)

\* As long as no boot entered safe mode, the mode is one the operator chose in
\* each of the three places it is kept.
ChosenInv ==
    ~sawSafe =>
        /\ flash.mode \in chosen
        /\ Up => mode \in chosen /\ proj \in chosen
        /\ flash = [mode |-> flash.mode, forceSafe |-> flash.forceSafe]

LEMMA ChosenStays ==
    ASSUME ChosenInv, UNCHANGED <<modes, chosen, sawSafe>>, Up' => Up PROVE ChosenInv'
BY DEF ChosenInv, modes

LEMMA SaveKeepsChosen ==
    ASSUME ChosenInv, Up, Save, UNCHANGED <<mode, chosen, sawSafe>> PROVE ChosenInv'
<1>1. proj' = mode /\ flash' = [flash EXCEPT !.mode = mode]
  BY DEF Save
<1>2. ~sawSafe => flash' = [mode |-> mode, forceSafe |-> flash.forceSafe]
  BY <1>1 DEF ChosenInv
<1> QED BY <1>1, <1>2 DEF ChosenInv

LEMMA ChosenStep == ChosenInv /\ [Next]_vars => ChosenInv'
<1> SUFFICES ASSUME ChosenInv, [Next]_vars PROVE ChosenInv'
  OBVIOUS
<1>1. CASE Setup
  <2>1. RestoreMode /\ sawSafe' = (sawSafe \/ safeMode') /\ UNCHANGED <<flash, chosen>>
    BY <1>1 DEF Setup
  <2>2. ASSUME ~sawSafe' PROVE ~sawSafe /\ ~safeMode'
    BY <2>1, <2>2
  <2> QED BY <2>1, <2>2 DEF ChosenInv, RestoreMode
<1>2. CASE FirstSave \/ SaveState
  <2>1. Up /\ Save /\ UNCHANGED <<mode, chosen, sawSafe>>
    BY <1>2 DEF FirstSave, SaveState, Up, history
  <2> QED BY <2>1, SaveKeepsChosen
<1>3. CASE BootStable \/ RebootStable \/ Tick
  <2>1. Up /\ UNCHANGED <<modes, chosen, sawSafe>>
    BY <1>3 DEF BootStable, RebootStable, Tick, Up, history
  <2> QED BY <2>1, ChosenStays
<1>4. ASSUME NEW m \in Modes, SetMode(m) PROVE ChosenInv'
  <2>1. /\ Up /\ mode' = m /\ chosen' = chosen \cup {m}
        /\ UNCHANGED <<proj, flash, sawSafe>>
    BY <1>4 DEF SetMode
  <2> QED BY <2>1 DEF ChosenInv
<1>5. CASE HttpReboot \/ HttpsReboot
  <2>1. Up /\ UNCHANGED <<modes, chosen, sawSafe>>
    BY <1>5 DEF HttpReboot, HttpsReboot, Asked, Up, history
  <2> QED BY <2>1, ChosenStays
<1>6. ASSUME NEW force \in BOOLEAN, ForceSafeMode(force) PROVE ChosenInv'
  <2>1. /\ Up /\ flash' = [mode |-> proj, forceSafe |-> force]
        /\ UNCHANGED <<mode, proj, chosen, sawSafe>>
    BY <1>6 DEF ForceSafeMode, history
  <2> QED BY <2>1 DEF ChosenInv
<1>7. CASE Restart \/ Crash \/ PowerCycle
  <2>1. ~Up' /\ UNCHANGED <<modes, chosen, sawSafe>>
    BY <1>7 DEF Restart, Crash, PowerCycle, Reset, Up
  <2> QED BY <2>1, ChosenStays
<1>8. CASE UNCHANGED vars
  <2>1. UNCHANGED <<modes, chosen, sawSafe, phase>>
    BY <1>8 DEF vars, history
  <2> QED BY <2>1, ChosenStays DEF Up
<1> QED BY <1>1, <1>2, <1>3, <1>4, <1>5, <1>6, <1>7, <1>8 DEF Next, Tasks

\* Save and restore never invent a mode.
THEOREM ModeIsChosen == Spec => []SavedModeWasChosen
<1>1. Init => ChosenInv
  BY DEF Init, ChosenInv, Up
<1>2. ChosenInv => SavedModeWasChosen
  BY DEF ChosenInv, SavedModeWasChosen
<1> QED BY <1>1, <1>2, ChosenStep, PTL DEF Spec

-----------------------------------------------------------------------------
(* The save period                                                         *)

\* A mode older than the last save was saved by it, to proj and to flash, and
\* the last save is at most SavePeriod ago.
SavedInv ==
    /\ flash = [mode |-> flash.mode, forceSafe |-> flash.forceSafe]
    /\ Up => /\ sinceSave \in 0..SavePeriod /\ modeAge \in Nat
             /\ modeAge > sinceSave => proj = mode /\ flash.mode = mode

LEMMA SavedStays ==
    ASSUME SavedInv, UNCHANGED <<modes, sinceSave, modeAge>>, Up' => Up PROVE SavedInv'
BY DEF SavedInv, modes

LEMMA SaveSaves ==
    ASSUME SavedInv, Up, Save, UNCHANGED <<mode, modeAge>> PROVE SavedInv'
<1>1. proj' = mode /\ flash' = [flash EXCEPT !.mode = mode] /\ sinceSave' = 0
  BY DEF Save
<1>2. flash' = [mode |-> mode, forceSafe |-> flash.forceSafe]
  BY <1>1 DEF SavedInv
<1> QED BY <1>1, <1>2, BootAssumption DEF SavedInv

LEMMA TickAges ==
    ASSUME SavedInv, Tick PROVE SavedInv'
<1>1. /\ Up /\ sinceSave < SavePeriod
      /\ modeAge' = Older(modeAge) /\ sinceSave' = sinceSave + 1
      /\ UNCHANGED <<mode, proj, flash>>
  BY DEF Tick, Up, modes
<1>2. modeAge \in Nat /\ sinceSave \in Nat /\ sinceSave' \in 0..SavePeriod
  BY <1>1, BootAssumption DEF SavedInv
<1>3. modeAge' \in Nat /\ modeAge' <= modeAge + 1
  BY <1>1, <1>2 DEF Older
<1>4. modeAge' > sinceSave' => modeAge > sinceSave
  BY <1>1, <1>2, <1>3
<1> QED BY <1>1, <1>2, <1>3, <1>4 DEF SavedInv

LEMMA SavedStep == SavedInv /\ [Next]_vars => SavedInv'
<1> SUFFICES ASSUME SavedInv, [Next]_vars PROVE SavedInv'
  OBVIOUS
<1>1. CASE Setup
  <2>1. sinceSave' = 0 /\ modeAge' = 0 /\ flash' = flash
    BY <1>1 DEF Setup
  <2> QED BY <2>1, BootAssumption DEF SavedInv
<1>2. CASE FirstSave \/ SaveState
  <2>1. Up /\ Save /\ UNCHANGED <<mode, modeAge>>
    BY <1>2 DEF FirstSave, SaveState, Up
  <2> QED BY <2>1, SaveSaves
<1>3. CASE BootStable \/ RebootStable
  <2>1. Up /\ UNCHANGED <<modes, sinceSave, modeAge>>
    BY <1>3 DEF BootStable, RebootStable, Up, times
  <2> QED BY <2>1, SavedStays
<1>4. CASE Tick
  BY <1>4, TickAges
<1>5. ASSUME NEW m \in Modes, SetMode(m) PROVE SavedInv'
  <2>1. Up /\ modeAge' = 0 /\ UNCHANGED <<flash, sinceSave>>
    BY <1>5 DEF SetMode
  <2> QED BY <2>1 DEF SavedInv
<1>6. CASE HttpReboot \/ HttpsReboot
  <2>1. Up /\ UNCHANGED <<modes, sinceSave, modeAge>>
    BY <1>6 DEF HttpReboot, HttpsReboot, Asked, times
  <2> QED BY <2>1, SavedStays
<1>7. ASSUME NEW force \in BOOLEAN, ForceSafeMode(force) PROVE SavedInv'
  <2>1. /\ Up /\ flash' = [mode |-> proj, forceSafe |-> force]
        /\ UNCHANGED <<mode, proj, sinceSave, modeAge>>
    BY <1>7 DEF ForceSafeMode, times
  <2> QED BY <2>1 DEF SavedInv, Up
<1>8. CASE Restart \/ Crash \/ PowerCycle
  <2>1. ~Up' /\ UNCHANGED <<modes, sinceSave, modeAge>>
    BY <1>8 DEF Restart, Crash, PowerCycle, Reset, Up, times
  <2> QED BY <2>1, SavedStays
<1>9. CASE UNCHANGED vars
  <2>1. UNCHANGED <<modes, sinceSave, modeAge, phase>>
    BY <1>9 DEF vars, times
  <2> QED BY <2>1, SavedStays DEF Up
<1> QED BY <1>1, <1>2, <1>3, <1>4, <1>5, <1>6, <1>7, <1>8, <1>9 DEF Next, Tasks

\* A mode in force for longer than the save period is the one the next boot
\* restores: no change of mode, save of another handler or boot in between
\* leaves an older one on flash.
THEOREM ModeIsSaved == Spec => []SavedWithinPeriod
<1>1. Init => SavedInv
  BY DEF Init, SavedInv, Up
<1>2. SavedInv => SavedWithinPeriod
  BY BootAssumption DEF SavedInv, SavedWithinPeriod
<1> QED BY <1>1, <1>2, SavedStep, PTL DEF Spec
=============================================================================
