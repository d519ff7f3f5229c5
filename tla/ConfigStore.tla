----------------------------- MODULE ConfigStore -----------------------------
(***************************************************************************)
(* The configuration file and its copies in memory (src/Config.cpp).  The  *)
(* scheduler ("loop") saves the mode every five minutes; the web server    *)
(* ("async") and the HTTPS server ("httpd") save everything; HTTPS also    *)
(* formats the file system.  No call locks the file.                       *)
(*                                                                         *)
(* Setpoints and force flags go wherever the mode goes, except that a boot *)
(* in safe mode applies them and not the mode; they are not told apart     *)
(* from it.  External: LittleFS keeps the old content of a file until the  *)
(* writer closes it.                                                       *)
(***************************************************************************)
EXTENDS Integers

CONSTANTS Modes,      \* thermostat modes, OFF among them
          OffMode,    \* the mode of a fresh ProjectInfo
          Settings,   \* timings, deadbands, names: what a form may save
          FactorySettings,
          Credentials, \* WiFi, MQTT and administrator secrets
          Absent      \* no file

ASSUME ConfigAssumption ==
    OffMode \in Modes /\ FactorySettings \in Settings

Saver == {"loop", "async", "httpd"}
Factory == "factory"   \* the secrets saveConfiguration() writes
Nothing == "nothing"   \* the secrets in memory when no file was loaded
File == [mode : Modes, settings : Settings, creds : Credentials \cup {Factory, Nothing}]

ASSUME AbsentAssumption == Absent \notin File

Field == {"mode", "settings", "creds"}

VARIABLES
    file,       \* /config.txt
    mode,       \* the thermostat's mode
    projMode,   \* proj.thermostatMode, written by the periodic save
    inUse,      \* the settings in use (thermostat.config())
    settings,   \* the settings in proj, which forms and full saves use
    creds,      \* the secrets Config holds
    at,         \* each task: "idle", "write" (it has built a document) or "format"
    doc,        \* the document each task is about to write
    overlap,    \* history: since the last reset two calls overlapped
    unsaved     \* history: the fields that were changed by a handler that does not
                \* save them, by a boot in safe mode, or by a save or a format that
                \* failed or had other secrets, and that no save has written since

memory == <<mode, projMode, inUse, settings, creds>>
cfgVars == <<file, memory, at, doc, overlap, unsaved>>

Default == [mode |-> OffMode, settings |-> FactorySettings, creds |-> Factory]

\* setup(): openConfigFile() makes the file when there is none, if it can, and
\* leaves nothing open to load, so memory keeps the values of a fresh ProjectInfo.
\* In safe mode the thermostat's mode is not set.
Load(f, safeMode) ==
    IF f = Absent
    THEN /\ \/ file' = Default /\ unsaved' = {"creds"}
            \/ file' = Absent /\ unsaved' = Field
         /\ mode' = OffMode /\ projMode' = OffMode
         /\ inUse' = FactorySettings /\ settings' = FactorySettings /\ creds' = Nothing
    ELSE /\ file' = f
         /\ mode' = (IF safeMode THEN OffMode ELSE f.mode) /\ projMode' = f.mode
         /\ inUse' = f.settings /\ settings' = f.settings /\ creds' = f.creds
         /\ unsaved' = IF safeMode THEN {"mode"} ELSE {}

CfgInit ==
    /\ \E c \in Credentials :
           file = [mode |-> OffMode, settings |-> FactorySettings, creds |-> c]
    /\ mode = file.mode /\ projMode = file.mode
    /\ inUse = file.settings /\ settings = file.settings /\ creds = file.creds
    /\ at = [t \in Saver |-> "idle"] /\ doc = [t \in Saver |-> Absent]
    /\ overlap = FALSE /\ unsaved = {}

Enter(t, s) ==
    /\ at[t] = "idle"
    /\ at' = [at EXCEPT ![t] = s]
    /\ overlap' = (overlap \/ \E u \in Saver : at[u] # "idle")

\* setMode() by any handler
ChooseMode(m) ==
    /\ mode' = m /\ unsaved' = unsaved \cup {"mode"}
    /\ UNCHANGED <<file, projMode, inUse, settings, creds, at, doc, overlap>>

\* /api/fan_idle changes the settings in use and nothing else.
FanIdle(s) ==
    /\ inUse' = s /\ unsaved' = unsaved \cup {"settings"}
    /\ UNCHANGED <<file, mode, projMode, settings, creds, at, doc, overlap>>

-----------------------------------------------------------------------------
(* The saves                                                               *)

\* updateThermostatState(): the file as it is, with the mode of the thermostat.
StateDocument(f, m) == [f EXCEPT !.mode = m]

\* Mutant: the thermostat's mode is written and not copied to proj.
SaveState_NoCopy ==
    /\ file # Absent /\ Enter("loop", "write")
    /\ doc' = [doc EXCEPT !["loop"] = StateDocument(file, mode)]
    /\ unsaved' = unsaved \ {"mode"}
    /\ UNCHANGED <<file, memory>>

\* onSaveThermostatState(); without a file it does nothing.
SaveState ==
    /\ projMode' = mode
    /\ IF file = Absent
       THEN at["loop"] = "idle" /\ UNCHANGED <<at, doc, overlap, unsaved>>
       ELSE /\ Enter("loop", "write")
            /\ doc' = [doc EXCEPT !["loop"] = StateDocument(file, mode)]
            /\ unsaved' = unsaved \ {"mode"}
    /\ UNCHANGED <<file, mode, inUse, settings, creds>>

\* updateConfig() rewrites every section from memory.
FullDocument(s, c) == [mode |-> projMode, settings |-> s, creds |-> c]

\* POST /api/config/save and the HTTPS form; c is creds when the form leaves
\* the secrets empty, and a field the form does not have stays as it is in proj
\* and in use.
SaveAll(t, s, c) ==
    /\ Enter(t, "write")
    /\ \/ settings' = s /\ inUse' = s /\ unsaved' = unsaved \ {"settings", "creds"}
       \/ s = settings /\ UNCHANGED <<settings, inUse>> /\ unsaved' = unsaved \ {"creds"}
    /\ creds' = c
    /\ doc' = [doc EXCEPT ![t] = FullDocument(s, c)]
    /\ UNCHANGED <<file, mode, projMode>>

Write(t) ==
    /\ at[t] = "write"
    /\ file' = doc[t]
    /\ at' = [at EXCEPT ![t] = "idle"] /\ doc' = [doc EXCEPT ![t] = Absent]
    /\ UNCHANGED <<memory, overlap, unsaved>>

\* LittleFS.open() or the read fails, and the call returns false.
SaveFails(t) ==
    /\ at[t] = "write"
    /\ at' = [at EXCEPT ![t] = "idle"] /\ doc' = [doc EXCEPT ![t] = Absent]
    /\ unsaved' = unsaved \cup (IF t = "loop" THEN {"mode"} ELSE Field)
    /\ UNCHANGED <<file, memory, overlap>>

-----------------------------------------------------------------------------
(* formatFS()                                                              *)

Erase ==
    /\ Enter("httpd", "format")
    /\ file' = Absent
    /\ UNCHANGED <<memory, doc, unsaved>>

\* saveConfiguration() writes the settings in memory with factory secrets.  If the
\* file system cannot be mounted again or the file not be opened there is none;
\* if another call has made one meanwhile it stays.
Rebuild ==
    /\ at["httpd"] = "format"
    /\ \/ /\ file = Absent /\ unsaved' = unsaved \cup {"creds"}
          /\ file' = [mode |-> projMode, settings |-> settings, creds |-> Factory]
       \/ UNCHANGED file /\ unsaved' = Field
    /\ at' = [at EXCEPT !["httpd"] = "idle"]
    /\ UNCHANGED <<memory, doc, overlap>>

CfgReset ==
    /\ \E safeMode \in BOOLEAN : Load(file, safeMode)
    /\ at' = [t \in Saver |-> "idle"] /\ doc' = [t \in Saver |-> Absent]
    /\ overlap' = FALSE

CfgNext ==
    \/ \E m \in Modes : ChooseMode(m)
    \/ \E s \in Settings : FanIdle(s)
    \/ SaveState
    \/ \E t \in {"async", "httpd"}, s \in Settings, c \in Credentials \cup {creds} : SaveAll(t, s, c)
    \/ \E t \in Saver : Write(t) \/ SaveFails(t)
    \/ Erase \/ Rebuild
    \/ CfgReset

CfgSpec == CfgInit /\ [][CfgNext]_cfgVars

-----------------------------------------------------------------------------
(* Properties.                                                             *)

Idle == \A t \in Saver : at[t] = "idle"

CfgTypeOK ==
    /\ file \in File \cup {Absent}
    /\ mode \in Modes /\ projMode \in Modes
    /\ inUse \in Settings /\ settings \in Settings
    /\ creds \in Credentials \cup {Factory, Nothing}
    /\ at \in [Saver -> {"idle", "write", "format"}]
    /\ doc \in [Saver -> File \cup {Absent}]
    /\ overlap \in BOOLEAN /\ unsaved \subseteq Field

\* Once no save is under way a restart would load, field by field, the mode, the
\* settings and the secrets the device runs with: full saves, periodic ones,
\* formats, crashes and changes through other handlers may follow each other in
\* any order, as long as they do not overlap.  A field is excepted from the moment
\* it is `unsaved' until a save writes it: the mode for five minutes after any
\* change or a boot in safe mode, the settings after /api/fan_idle, the secrets
\* after a format, and what a failed save or a failed format should have written.
MemoryIsOnFlash ==
    Idle /\ ~overlap =>
        /\ "mode" \in unsaved \/ file.mode = mode
        /\ "settings" \in unsaved \/ file.settings = inUse
        /\ "creds" \in unsaved \/ file.creds = creds

\* "Credentials preserved." (src/HttpsServer.cpp:1598): a format that wrote the
\* file again has written the secrets in use.  The code breaks it: formatFS()
\* writes the factory secrets of saveConfiguration().
CredentialsPreserved ==
    [][Rebuild /\ file' # file => file'.creds = creds]_cfgVars
=============================================================================
