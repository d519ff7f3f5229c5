------------------------------ MODULE Settings ------------------------------
(***************************************************************************)
(* A setting has three copies: the one the device runs with (in the        *)
(* thermostat, the log or the network client), the one in `proj', which    *)
(* forms show and updateConfig() writes, and the one in /config.txt.  Each *)
(* handler writes some of them; which ones depends on the setting.         *)
(* Handlers treat one setting without a look at the others, so the model   *)
(* follows one setting of each kind; calls do not overlap (ConfigStore     *)
(* looks at saves that do).                                                *)
(***************************************************************************)
EXTENDS Integers

CONSTANTS
    Values,   \* values of a setting
    Off,      \* the one that is OFF if the setting is the mode
    Omitted   \* the form has no such field

ASSUME SettingsAssumption == Omitted \notin Values /\ Off \in Values

\* Heat and cool setpoints; mode and force flags; fan idle cycle; timings and
\* deadbands; log file limits; names, topics and addresses, read at boot only.
Kind == {"setpoint", "mode", "fan", "timing", "log", "name"}
Live == Kind \ {"log", "name"}

VARIABLES
    kind,    \* the setting that is looked at
    live,    \* the value in use
    proj,    \* ProjectInfo's value
    flash,   \* the value in /config.txt
    answer,  \* what the last form was told: "none", "applied", "reboot", "saved" or "failed"
    asked,   \* history: the last value a request asked for
    dirty,   \* history: nothing has saved it since
    blind,   \* history: it was a form's, for the setpoint of proj while another was in use
    safe     \* history: since then a boot in safe mode has left the mode OFF

setVars == <<kind, live, proj, flash, answer, asked, dirty, blind, safe>>

SetInit ==
    /\ kind \in Kind /\ live \in Values
    /\ proj = live /\ flash = live /\ asked = live
    /\ answer = "none" /\ dirty = FALSE /\ blind = FALSE /\ safe = FALSE

\* A form asks for v, and the file has it or not.
Ask(v, saved) ==
    IF v = Omitted
    THEN UNCHANGED <<asked, dirty, blind, safe>>
    ELSE /\ asked' = v /\ dirty' = ~saved /\ safe' = FALSE
         /\ blind' = (kind = "setpoint" /\ v = proj /\ v # live)

\* /api/mode, /api/setpoint, /api/force_*, /api/fan_idle, and the display's
\* frames on the CAN bus: the value in use only
Api(v) ==
    /\ kind \in {"setpoint", "mode", "fan"}
    /\ live' = v
    /\ asked' = v /\ dirty' = TRUE /\ blind' = FALSE /\ safe' = FALSE
    /\ UNCHANGED <<kind, proj, flash, answer>>

\* updateConfig() writes all of proj, or fails.
UpdateConfig(saved) == flash' = IF saved THEN proj' ELSE flash

\* Mutant: the form's mode is compared with proj like a setpoint.
HttpsApply_Compare(v) ==
    CASE v = Omitted -> UNCHANGED <<live, proj>>
      [] v # Omitted /\ kind \in {"log", "name"} -> proj' = v /\ UNCHANGED live
      [] OTHER -> proj' = v /\ live' = IF v = proj THEN live ELSE v

\* What POST /config does with one field: a setpoint is applied when it differs
\* from proj, a log limit or a name goes to proj only.
HttpsApply(v) ==
    CASE v = Omitted -> UNCHANGED <<live, proj>>
      [] v # Omitted /\ kind \in {"log", "name"} -> proj' = v /\ UNCHANGED live
      [] v # Omitted /\ kind \in {"mode", "fan", "timing"} -> proj' = v /\ live' = v
      [] v # Omitted /\ kind = "setpoint" ->
            /\ proj' = v
            /\ live' = IF v = proj THEN live ELSE v

\* POST /config over HTTPS.  A rejected password (rest = "error") stops neither
\* the other fields nor the save, but the reboot a name asks for.
HttpsForm(v, rest, saved) ==
    /\ HttpsApply(v) /\ UpdateConfig(saved) /\ Ask(v, saved)
    /\ LET needsReboot == rest = "reboot" \/ (kind = "name" /\ proj' # proj)
       IN answer' = CASE ~saved -> "failed"
                      [] saved /\ rest = "error" -> "saved"
                      [] saved /\ rest # "error" /\ needsReboot -> "reboot"
                      [] saved /\ rest # "error" /\ ~needsReboot -> "applied"
    /\ UNCHANGED kind

\* POST /api/config/save over HTTP: it has no setpoint, mode or log fields, says
\* "ok" whether the save succeeded or not, and leaves the reboot to the page.
HttpForm(v, saved) ==
    /\ v # Omitted => kind \in {"fan", "timing", "name"}
    /\ IF v = Omitted THEN UNCHANGED <<live, proj>>
       ELSE proj' = v /\ live' = IF kind = "name" THEN live ELSE v
    /\ UpdateConfig(saved) /\ Ask(v, saved)
    /\ answer' = "saved"
    /\ UNCHANGED kind

\* Mutant: the state is written as the last form left it.
SaveThermostatState_NoCopy ==
    /\ kind \in {"setpoint", "mode"}
    /\ flash' = proj /\ dirty' = FALSE
    /\ UNCHANGED <<kind, live, proj, answer, asked, blind, safe>>

\* onSaveThermostatState(), every five minutes, if the write succeeds
SaveThermostatState ==
    /\ kind \in {"setpoint", "mode"}
    /\ proj' = live /\ flash' = live /\ dirty' = FALSE
    /\ UNCHANGED <<kind, live, answer, asked, blind, safe>>

\* ... and if it fails
SaveStateFails ==
    /\ kind \in {"setpoint", "mode"}
    /\ proj' = live
    /\ UNCHANGED <<kind, live, flash, answer, asked, dirty, blind, safe>>

\* In safe mode setup() does not set the thermostat's mode.
LeftOff(safeMode) == safeMode /\ kind = "mode"

\* setup() applies the file; what nothing had saved is gone.
Restart(safeMode) ==
    /\ proj' = flash /\ live' = IF LeftOff(safeMode) THEN Off ELSE flash
    /\ answer' = "none" /\ dirty' = FALSE
    /\ IF dirty THEN asked' = flash /\ blind' = FALSE ELSE UNCHANGED <<asked, blind>>
    /\ safe' = (LeftOff(safeMode) \/ (safe /\ ~dirty))
    /\ UNCHANGED <<kind, flash>>

SetNext ==
    \/ \E v \in Values : Api(v)
    \/ \E v \in Values \cup {Omitted}, saved \in BOOLEAN :
           \/ HttpForm(v, saved)
           \/ \E rest \in {"plain", "reboot", "error"} : HttpsForm(v, rest, saved)
    \/ SaveThermostatState \/ SaveStateFails
    \/ \E safeMode \in BOOLEAN : Restart(safeMode)

SetSpec == SetInit /\ [][SetNext]_setVars

-----------------------------------------------------------------------------
(* Properties.                                                             *)

SetTypeOK ==
    /\ kind \in Kind /\ live \in Values /\ proj \in Values /\ flash \in Values
    /\ answer \in {"none", "applied", "reboot", "saved", "failed"}
    /\ asked \in Values /\ dirty \in BOOLEAN /\ blind \in BOOLEAN /\ safe \in BOOLEAN

\* "Thermostat set points (live)" and the other "(live)" fields of the form
\* (HttpsServer.cpp:406-520): the device runs with what it was last asked for,
\* through whichever door, also after failed saves and restarts.  Two kinds are
\* read at boot only (Live), a form does not apply the setpoint proj already has
\* (blind), and a boot in safe mode leaves the mode OFF till the next request (safe).
RunsAsAsked == kind \in Live /\ ~blind => live = asked \/ (safe /\ live = Off)

\* "Thermostat state saved to flash" (main.cpp:370): the file holds what was last
\* asked for, except for a change through /api that no save has reached yet or a
\* form whose save failed (dirty), for a form's setpoint that was not applied, over
\* which the periodic save writes the one in use (blind), and for the OFF which it
\* writes after a boot in safe mode (safe).
SavedAsAsked == ~dirty /\ ~blind => flash = asked \/ (safe /\ flash = Off)

\* "Settings saved and applied." (HttpsServer.cpp:611).  The code breaks it: a
\* setpoint equal to proj's is not applied though another one is in use, and a
\* log limit never is.
AppliedMeansApplied == answer = "applied" => live = asked

\* A form sent with the value the page showed changes nothing that is in use.
\* The code breaks it: the page shows proj, which /api/fan_idle never and
\* /api/mode only within five minutes reaches.
UntouchedFieldStays ==
    [][\A saved \in BOOLEAN :
           HttpForm(proj, saved) \/ HttpsForm(proj, "plain", saved) => live' = live]_setVars
=============================================================================
