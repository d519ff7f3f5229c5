---------------------------- MODULE StorageProofs ----------------------------
(***************************************************************************)
(* What the device keeps, for any settings, builds, number of log files    *)
(* and size of the ring: the copies of a setting, the configuration file,  *)
(* the firmware and its backup, the rotated log files, the ring of the     *)
(* last messages.                                                          *)
(***************************************************************************)
EXTENDS ConfigStore, Settings, Ota, LogFiles, LogRing, TLAPS

-----------------------------------------------------------------------------
(* The copies of a setting                                                 *)

\* A saved request has reached proj as well: a later form writes that.
ProjInv == ~dirty /\ ~blind => proj = asked \/ (safe /\ proj = Off)

AskInv == kind \in Kind /\ RunsAsAsked /\ SavedAsAsked /\ ProjInv

LEMMA SetTypeStep == SetTypeOK /\ [SetNext]_setVars => SetTypeOK'
<1> SUFFICES ASSUME SetTypeOK, [SetNext]_setVars PROVE SetTypeOK'
  OBVIOUS
<1> USE DEF SetTypeOK
<1>1. ASSUME NEW v \in Values, Api(v) PROVE SetTypeOK'
  BY <1>1 DEF Api
<1>2. ASSUME NEW v \in Values \cup {Omitted}, NEW saved \in BOOLEAN, HttpForm(v, saved)
      PROVE  SetTypeOK'
  BY <1>2 DEF HttpForm, UpdateConfig, Ask
<1>3. ASSUME NEW v \in Values \cup {Omitted}, NEW saved \in BOOLEAN,
             NEW rest \in {"plain", "reboot", "error"}, HttpsForm(v, rest, saved)
      PROVE  SetTypeOK'
  <2>1. kind' = kind /\ live' \in Values /\ proj' \in Values
    BY <1>3 DEF HttpsForm, HttpsApply, Kind
  <2>2. flash' \in Values
    BY <1>3, <2>1 DEF HttpsForm, UpdateConfig
  <2>3. asked' \in Values /\ dirty' \in BOOLEAN /\ blind' \in BOOLEAN /\ safe' \in BOOLEAN
    BY <1>3 DEF HttpsForm, Ask
  <2>4. answer' \in {"none", "applied", "reboot", "saved", "failed"}
    BY <1>3 DEF HttpsForm
  <2> QED BY <2>1, <2>2, <2>3, <2>4
<1>4. CASE SaveThermostatState \/ SaveStateFails
  BY <1>4 DEF SaveThermostatState, SaveStateFails
<1>5. ASSUME NEW safeMode \in BOOLEAN, Restart(safeMode) PROVE SetTypeOK'
  BY <1>5, SettingsAssumption DEF Restart, LeftOff
<1>6. CASE UNCHANGED setVars
  BY <1>6 DEF setVars
<1> QED BY <1>1, <1>2, <1>3, <1>4, <1>5, <1>6 DEF SetNext

LEMMA AskStep == SetTypeOK /\ AskInv /\ [SetNext]_setVars => AskInv'
<1> SUFFICES ASSUME SetTypeOK, AskInv, [SetNext]_setVars PROVE AskInv'
  OBVIOUS
<1> USE SettingsAssumption DEF AskInv, RunsAsAsked, SavedAsAsked, ProjInv, Live, Kind
<1>1. ASSUME NEW v \in Values, Api(v) PROVE AskInv'
  BY <1>1 DEF Api
<1>2. ASSUME NEW v \in Values \cup {Omitted}, NEW saved \in BOOLEAN, HttpForm(v, saved)
      PROVE  AskInv'
  <2>1. CASE v = Omitted
    BY <1>2, <2>1 DEF HttpForm, UpdateConfig, Ask
  <2>2. CASE v # Omitted
    BY <1>2, <2>2 DEF HttpForm, UpdateConfig, Ask
  <2> QED BY <2>1, <2>2
<1>3. ASSUME NEW v \in Values \cup {Omitted}, NEW saved \in BOOLEAN,
             NEW rest \in {"plain", "reboot", "error"}, HttpsForm(v, rest, saved)
      PROVE  AskInv'
  <2>1. kind' = kind /\ HttpsApply(v) /\ UpdateConfig(saved) /\ Ask(v, saved)
    BY <1>3 DEF HttpsForm
  <2>2. CASE v = Omitted
    BY <2>1, <2>2 DEF HttpsApply, UpdateConfig, Ask
  <2>3. CASE v # Omitted /\ kind # "setpoint"
    BY <2>1, <2>3 DEF HttpsApply, UpdateConfig, Ask
  <2>4. CASE v # Omitted /\ kind = "setpoint"
    BY <2>1, <2>4 DEF HttpsApply, UpdateConfig, Ask
  <2> QED BY <2>2, <2>3, <2>4
<1>4. CASE SaveThermostatState
  BY <1>4 DEF SaveThermostatState
<1>5. CASE SaveStateFails
  BY <1>5 DEF SaveStateFails
<1>6. ASSUME NEW safeMode \in BOOLEAN, Restart(safeMode) PROVE AskInv'
  BY <1>6 DEF Restart, LeftOff, SetTypeOK
<1>7. CASE UNCHANGED setVars
  BY <1>7 DEF setVars
<1> QED BY <1>1, <1>2, <1>3, <1>4, <1>5, <1>6, <1>7 DEF SetNext

LEMMA AskInvHolds == SetSpec => [](SetTypeOK /\ AskInv)
<1>1. SetInit => SetTypeOK /\ AskInv
  BY DEF SetInit, SetTypeOK, AskInv, RunsAsAsked, SavedAsAsked, ProjInv
<1> QED BY <1>1, SetTypeStep, AskStep, PTL DEF SetSpec

\* The device runs with what it was last asked for, through whichever handler,
\* after failed saves and restarts as well, but for a mode that a boot in safe mode
\* has left OFF and a form's setpoint that proj already had.
THEOREM SettingsAreInForce == SetSpec => []RunsAsAsked
BY AskInvHolds, PTL DEF AskInv

\* The file holds the last request once a save has reached it, but for the OFF a
\* periodic save wrote after a boot in safe mode and a form's unapplied setpoint.
THEOREM SettingsAreSaved == SetSpec => []SavedAsAsked
BY AskInvHolds, PTL DEF AskInv

-----------------------------------------------------------------------------
(* The configuration file                                                  *)

\* The document f has what the device runs with, but for the fields excepted.
Agrees(f) ==
    /\ "mode" \in unsaved \/ f.mode = mode
    /\ "settings" \in unsaved \/ f.settings = inUse
    /\ "creds" \in unsaved \/ f.creds = creds

\* So has proj, from which full saves and formats take them.
CopyInv ==
    /\ "mode" \in unsaved \/ projMode = mode
    /\ "settings" \in unsaved \/ settings = inUse

\* As long as calls do not overlap at most one of them is under way.
Alone ==
    /\ \A t \in Saver : at[t] = "write" => doc[t] \in File
    /\ \A t \in Saver : at[t] = "format" => t = "httpd"
    /\ ~overlap => \A t, u \in Saver : at[t] # "idle" /\ at[u] # "idle" => t = u

\* A full save writes what is in memory whatever went before; a periodic save
\* passes on what the file has.
DocInv == ~overlap =>
    /\ \A t \in Saver : at[t] = "write" => Agrees(doc[t])
    /\ at["loop"] = "write" => /\ file.settings = doc["loop"].settings
                              /\ file.creds = doc["loop"].creds

CfgInv == Alone /\ CopyInv /\ DocInv /\ MemoryIsOnFlash

LEMMA FileFields ==
    /\ \A m \in Modes, s \in Settings, c \in Credentials \cup {Factory, Nothing} :
          [mode |-> m, settings |-> s, creds |-> c] \in File
    /\ \A f \in File : /\ f # Absent /\ f.mode \in Modes /\ f.settings \in Settings
                       /\ f.creds \in Credentials \cup {Factory, Nothing}
    /\ \A f \in File, m \in Modes : /\ StateDocument(f, m) \in File
                                    /\ StateDocument(f, m).mode = m
                                    /\ StateDocument(f, m).settings = f.settings
                                    /\ StateDocument(f, m).creds = f.creds
    /\ Default \in File /\ Default.mode = OffMode /\ Default.settings = FactorySettings
BY AbsentAssumption, ConfigAssumption DEF File, StateDocument, Default

LEMMA CfgTypeStep == CfgTypeOK /\ Alone /\ [CfgNext]_cfgVars => CfgTypeOK'
<1> SUFFICES ASSUME CfgTypeOK, Alone, [CfgNext]_cfgVars PROVE CfgTypeOK'
  OBVIOUS
<1> USE DEF CfgTypeOK
<1>1. ASSUME NEW m \in Modes, ChooseMode(m) PROVE CfgTypeOK'
  BY <1>1 DEF ChooseMode, Field
<1>2. ASSUME NEW s \in Settings, FanIdle(s) PROVE CfgTypeOK'
  BY <1>2 DEF FanIdle, Field
<1>3. CASE SaveState
  <2>1. CASE file = Absent
    BY <1>3, <2>1 DEF SaveState
  <2>2. CASE file # Absent
    <3>1. StateDocument(file, mode) \in File
      BY <2>2, FileFields
    <3>2. /\ Enter("loop", "write") /\ projMode' = mode
          /\ doc' = [doc EXCEPT !["loop"] = StateDocument(file, mode)]
          /\ unsaved' = unsaved \ {"mode"} /\ UNCHANGED <<file, mode, inUse, settings, creds>>
      BY <1>3, <2>2 DEF SaveState
    <3> HIDE DEF StateDocument
    <3>3. at' \in [Saver -> {"idle", "write", "format"}] /\ doc' \in [Saver -> File \cup {Absent}]
      BY <3>1, <3>2 DEF Enter, Saver
    <3>4. overlap' \in BOOLEAN
      BY <3>2 DEF Enter
    <3> QED BY <3>2, <3>3, <3>4
  <2> QED BY <2>1, <2>2
<1>4. ASSUME NEW t \in {"async", "httpd"}, NEW s \in Settings,
             NEW c \in Credentials \cup {creds}, SaveAll(t, s, c)
      PROVE  CfgTypeOK'
  <2>1. FullDocument(s, c) \in File
    BY FileFields DEF FullDocument
  <2>2. /\ Enter(t, "write") /\ settings' \in Settings /\ inUse' \in Settings
        /\ unsaved' \subseteq Field /\ creds' = c
        /\ doc' = [doc EXCEPT ![t] = FullDocument(s, c)] /\ UNCHANGED <<file, mode, projMode>>
    BY <1>4 DEF SaveAll
  <2>3. /\ at' \in [Saver -> {"idle", "write", "format"}] /\ overlap' \in BOOLEAN
        /\ doc' \in [Saver -> File \cup {Absent}]
    BY <2>1, <2>2 DEF Enter, Saver
  <2> QED BY <2>2, <2>3
<1>5. ASSUME NEW t \in Saver, Write(t) PROVE CfgTypeOK'
  BY <1>5 DEF Write, memory, Alone
<1>6. ASSUME NEW t \in Saver, SaveFails(t) PROVE CfgTypeOK'
  BY <1>6 DEF SaveFails, memory, Field
<1>7. CASE Erase
  BY <1>7 DEF Erase, Enter, memory, Saver
<1>8. CASE Rebuild
  <2>1. file' \in File \cup {Absent} /\ unsaved' \subseteq Field
    BY <1>8, FileFields DEF Rebuild, Field
  <2> QED BY <1>8, <2>1 DEF Rebuild, memory
<1>9. CASE CfgReset
  <2>1. PICK safeMode \in BOOLEAN : Load(file, safeMode)
    BY <1>9 DEF CfgReset
  <2>2. file' \in File \cup {Absent} /\ unsaved' \subseteq Field
    BY <2>1, FileFields DEF Load, Field
  <2>3. /\ mode' \in Modes /\ projMode' \in Modes /\ settings' \in Settings
        /\ inUse' \in Settings /\ creds' \in Credentials \cup {Factory, Nothing}
    BY <2>1, FileFields, ConfigAssumption DEF Load
  <2> QED BY <1>9, <2>2, <2>3 DEF CfgReset
<1>10. CASE UNCHANGED cfgVars
  BY <1>10 DEF cfgVars, memory
<1> QED BY <1>1, <1>2, <1>3, <1>4, <1>5, <1>6, <1>7, <1>8, <1>9, <1>10 DEF CfgNext

LEMMA EnterIs ==
    ASSUME CfgTypeOK, NEW t \in Saver, NEW s \in {"write", "format"}, Enter(t, s)
    PROVE  /\ at[t] = "idle" /\ at'[t] = s
           /\ \A u \in Saver : u # t => at'[u] = at[u]
           /\ ~overlap' => ~overlap /\ \A u \in Saver : at[u] = "idle"
BY DEF CfgTypeOK, Enter

LEMMA CfgStep == CfgTypeOK /\ CfgInv /\ [CfgNext]_cfgVars => CfgInv'
<1> SUFFICES ASSUME CfgTypeOK, CfgInv, [CfgNext]_cfgVars PROVE CfgInv'
  OBVIOUS
<1> USE DEF CfgInv, Alone, CopyInv, DocInv, MemoryIsOnFlash, Idle, Agrees
<1>0. "loop" \in Saver /\ "async" \in Saver /\ "httpd" \in Saver
  BY DEF Saver
<1>1. ASSUME NEW m \in Modes, ChooseMode(m) PROVE CfgInv'
  BY <1>1 DEF ChooseMode
<1>2. ASSUME NEW s \in Settings, FanIdle(s) PROVE CfgInv'
  BY <1>2 DEF FanIdle
<1>3. CASE SaveState
  <2>1. CASE file = Absent
    BY <1>3, <2>1 DEF SaveState
  <2>2. CASE file # Absent
    <3>0. /\ Enter("loop", "write") /\ projMode' = mode
          /\ doc' = [doc EXCEPT !["loop"] = StateDocument(file, mode)]
          /\ unsaved' = unsaved \ {"mode"} /\ UNCHANGED <<file, mode, inUse, settings, creds>>
      BY <1>3, <2>2 DEF SaveState
    <3>1. /\ doc'["loop"] = StateDocument(file, mode) /\ doc'["loop"] \in File
          /\ \A u \in Saver : u # "loop" => doc'[u] = doc[u]
      <4>1. StateDocument(file, mode) \in File
        BY <2>2, FileFields DEF CfgTypeOK
      <4> QED BY <3>0, <4>1 DEF CfgTypeOK, Saver
    <3>2. /\ at["loop"] = "idle" /\ at'["loop"] = "write"
          /\ \A u \in Saver : u # "loop" => at'[u] = at[u]
          /\ ~overlap' => ~overlap /\ \A u \in Saver : at[u] = "idle"
      BY <1>0, <3>0, EnterIs
    <3>3. Alone'
      BY <3>1, <3>2
    <3>4. CopyInv'
      BY <3>0
    <3>5. ASSUME ~overlap' PROVE DocInv'
      <4>1. ~overlap /\ Idle /\ at'["httpd"] = "idle" /\ at'["async"] = "idle"
        BY <1>0, <3>2, <3>5
      <4>2. /\ doc'["loop"].settings = file.settings /\ doc'["loop"].mode = mode
            /\ doc'["loop"].creds = file.creds
        BY <2>2, <3>1, FileFields DEF CfgTypeOK
      <4>3. /\ "settings" \in unsaved' \/ file.settings = inUse
            /\ "creds" \in unsaved' \/ file.creds = creds
        BY <3>0, <4>1
      <4>4. Agrees(doc["loop"])'
        BY <3>0, <4>2, <4>3
      <4> QED BY <3>0, <4>1, <4>2, <4>4 DEF Saver
    <3>6. ~Idle'
      BY <1>0, <3>2
    <3> QED BY <3>3, <3>4, <3>5, <3>6
  <2> QED BY <2>1, <2>2
<1>4. ASSUME NEW t \in {"async", "httpd"}, NEW s \in Settings,
             NEW c \in Credentials \cup {creds}, SaveAll(t, s, c)
      PROVE  CfgInv'
  <2>0. t \in Saver /\ t # "loop"
    BY DEF Saver
  <2>1. /\ Enter(t, "write") /\ creds' = c /\ UNCHANGED <<file, mode, projMode>>
        /\ doc'[t] \in File /\ doc'[t].mode = projMode /\ doc'[t].settings = s
        /\ doc'[t].creds = c /\ \A u \in Saver : u # t => doc'[u] = doc[u]
    BY <1>4, <2>0, FileFields DEF SaveAll, CfgTypeOK, FullDocument
  <2>2. /\ at[t] = "idle" /\ at'[t] = "write"
        /\ \A u \in Saver : u # t => at'[u] = at[u]
        /\ ~overlap' => ~overlap /\ \A u \in Saver : at[u] = "idle"
    BY <2>0, <2>1, EnterIs
  <2>3. /\ "mode" \in unsaved' <=> "mode" \in unsaved
        /\ "settings" \in unsaved' \/ (inUse' = s /\ settings' = s)
    BY <1>4 DEF SaveAll
  <2>4. Alone'
    BY <2>1, <2>2
  <2>5. CopyInv'
    BY <2>1, <2>3
  <2>6. Agrees(doc[t])'
    BY <2>1, <2>3
  <2>7. ~Idle'
    BY <2>0, <2>2
  <2>8. DocInv'
    BY <1>0, <2>0, <2>2, <2>6
  <2> QED BY <2>4, <2>5, <2>7, <2>8
<1>5. ASSUME NEW t \in Saver, Write(t) PROVE CfgInv'
  <2>1. /\ at[t] = "write" /\ at'[t] = "idle" /\ file' = doc[t]
        /\ \A u \in Saver : u # t => at'[u] = at[u] /\ doc'[u] = doc[u]
        /\ UNCHANGED <<mode, projMode, inUse, settings, creds, overlap, unsaved>>
    BY <1>5 DEF Write, memory, CfgTypeOK
  <2>2. ASSUME ~overlap PROVE \A u \in Saver : at'[u] = "idle"
    BY <2>1, <2>2
  <2>3. Alone' /\ CopyInv'
    BY <2>1
  <2>4. DocInv'
    BY <1>0, <2>1, <2>2
  <2>5. MemoryIsOnFlash'
    BY <2>1
  <2> QED BY <2>3, <2>4, <2>5
<1>6. ASSUME NEW t \in Saver, SaveFails(t) PROVE CfgInv'
  <2>1. /\ at[t] = "write" /\ at'[t] = "idle"
        /\ unsaved' = unsaved \cup (IF t = "loop" THEN {"mode"} ELSE Field)
        /\ \A u \in Saver : u # t => at'[u] = at[u] /\ doc'[u] = doc[u]
        /\ UNCHANGED <<file, mode, projMode, inUse, settings, creds, overlap>>
    BY <1>6 DEF SaveFails, memory, CfgTypeOK
  <2>2. ASSUME ~overlap PROVE \A u \in Saver : at'[u] = "idle"
    BY <2>1, <2>2
  <2>3. Alone' /\ CopyInv'
    BY <2>1
  <2>4. DocInv'
    BY <1>0, <2>1, <2>2
  <2>5. MemoryIsOnFlash'
    <3>1. CASE t = "loop"
      BY <2>1, <3>1
    <3>2. CASE t # "loop"
      BY <2>1, <3>2 DEF Field
    <3> QED BY <3>1, <3>2
  <2> QED BY <2>3, <2>4, <2>5
<1>7. CASE Erase
  <2>1. /\ Enter("httpd", "format")
        /\ UNCHANGED <<mode, projMode, inUse, settings, creds, doc, unsaved>>
    BY <1>7 DEF Erase, memory
  <2>2. /\ at["httpd"] = "idle" /\ at'["httpd"] = "format"
        /\ \A u \in Saver : u # "httpd" => at'[u] = at[u]
        /\ ~overlap' => ~overlap /\ \A u \in Saver : at[u] = "idle"
    BY <1>0, <2>1, EnterIs
  <2>3. Alone' /\ CopyInv'
    BY <2>1, <2>2
  <2>4. ~Idle'
    BY <1>0, <2>2
  <2>5. DocInv'
    BY <1>0, <2>2
  <2> QED BY <2>3, <2>4, <2>5
<1>8. CASE Rebuild
  <2>1. /\ at["httpd"] = "format" /\ at'["httpd"] = "idle"
        /\ \A u \in Saver : u # "httpd" => at'[u] = at[u]
        /\ UNCHANGED <<mode, projMode, inUse, settings, creds, doc, overlap>>
        /\ unsaved \cap {"mode", "settings"} \subseteq unsaved'
    BY <1>0, <1>8 DEF Rebuild, memory, CfgTypeOK, Field
  <2>2. ASSUME ~overlap PROVE \A u \in Saver : at'[u] = "idle"
    BY <1>0, <2>1, <2>2
  <2>3. \/ unsaved' = Field
        \/ file'.settings = settings /\ file'.mode = projMode /\ "creds" \in unsaved'
    BY <1>8 DEF Rebuild
  <2>4. Alone' /\ CopyInv'
    BY <2>1
  <2>5. DocInv'
    BY <1>0, <2>1, <2>2
  <2>6. MemoryIsOnFlash'
    BY <2>1, <2>3, <2>4 DEF Field
  <2> QED BY <2>4, <2>5, <2>6
<1>9. CASE CfgReset
  <2>1. \A t \in Saver : at'[t] = "idle"
    BY <1>9 DEF CfgReset
  <2>2. CopyInv' /\ Agrees(file)'
    <3>1. PICK safeMode \in BOOLEAN : Load(file, safeMode)
      BY <1>9 DEF CfgReset
    <3>2. CASE file = Absent
      BY <3>1, <3>2, FileFields DEF Load, Field
    <3>3. CASE file # Absent
      BY <3>1, <3>3 DEF Load
    <3> QED BY <3>2, <3>3
  <2> QED BY <1>0, <2>1, <2>2
<1>10. CASE UNCHANGED cfgVars
  BY <1>10 DEF cfgVars, memory
<1> QED BY <1>1, <1>2, <1>3, <1>4, <1>5, <1>6, <1>7, <1>8, <1>9, <1>10 DEF CfgNext

\* Once no save is under way a restart would load the mode, the settings and the
\* secrets the device runs with, after any sequence of saves, formats, failures and
\* crashes that did not overlap; excepted is a field that was changed by a handler
\* that does not save it, by a boot in safe mode, or left out by a format or by a
\* save or format that failed, until the next save that writes it.
THEOREM FileMatchesMemory == CfgSpec => []MemoryIsOnFlash
<1>1. CfgInit => CfgTypeOK /\ CfgInv
  <2> SUFFICES ASSUME CfgInit PROVE CfgTypeOK /\ CfgInv
    OBVIOUS
  <2>1. file \in File /\ file.creds \in Credentials
        /\ file.mode = OffMode /\ file.settings = FactorySettings
    BY ConfigAssumption DEF CfgInit, File
  <2>2. CfgTypeOK
    BY <2>1, ConfigAssumption DEF CfgInit, CfgTypeOK
  <2> QED BY <2>1, <2>2 DEF CfgInit, CfgInv, Alone, CopyInv, DocInv, MemoryIsOnFlash, Idle, Saver
<1>2. CfgTypeOK /\ CfgInv /\ [CfgNext]_cfgVars => (CfgTypeOK /\ CfgInv)'
  BY CfgTypeStep, CfgStep DEF CfgInv
<1>3. CfgInv => MemoryIsOnFlash
  BY DEF CfgInv
<1> QED BY <1>1, <1>2, <1>3, PTL DEF CfgSpec

-----------------------------------------------------------------------------
(* The firmware and its backup                                             *)

Copying == \E t \in Thread : step[t] = "copy"

\* The backup can be relied on: no call is writing it, and neither a reset nor a
\* failure to open the file came in the way.
Reliable == bakFile # None /\ ~skipped /\ ~Copying

\* Past its backup an apply leaves the running build in it; a revert finds there
\* what it opened or what a later backup put there; and the build that is to
\* boot next leaves the backup one of the builds before it.
BackupInv ==
    /\ BackupIsUsable
    /\ \A t \in Thread : step[t] \in {"new", "writeNew", "remove"} /\ Reliable
          => bakFile.build = running.build
    /\ \A t \in Thread : step[t] = "writeBak" /\ bakFile # None
          => bakFile.build \in {running.build, image[t].build}
    /\ Boots /\ Reliable => bakFile.build \in {running.build, other.build}

LEMMA Images ==
    /\ \A b : Whole(b).build = b /\ Whole(b).whole /\ Whole(b) # None
    /\ \A b : Part(b).build = b /\ ~Part(b).whole
    /\ \A b \in Builds : Whole(b) \in Image /\ Part(b) \in Image
    /\ ~None.whole /\ None.build = "none"
    /\ \A i \in Image : i.build \in Builds /\ i.whole \in BOOLEAN
BY DEF Whole, Part, None, Image

LEMMA OtaTypeStep == OtaTypeOK /\ [OtaNext]_otaVars => OtaTypeOK'
<1> SUFFICES ASSUME OtaTypeOK, [OtaNext]_otaVars PROVE OtaTypeOK'
  OBVIOUS
<1> USE DEF OtaTypeOK
<1>1. ASSUME NEW b \in Builds, HttpsUploadBegin(b) PROVE OtaTypeOK'
  BY <1>1, Images DEF HttpsUploadBegin, Goto, Opened, partitions, uploads, Thread, Steps
<1>2. ASSUME NEW b \in Builds, NEW ok \in BOOLEAN, HttpUploadBegin(b, ok) PROVE OtaTypeOK'
  BY <1>2, Images DEF HttpUploadBegin, partitions
<1>3. ASSUME NEW ok \in BOOLEAN, HttpUploadFail(ok) PROVE OtaTypeOK'
  BY <1>3, Images DEF HttpUploadFail, partitions
<1>4. ASSUME NEW ok \in BOOLEAN, HttpsUploadEnd(ok) PROVE OtaTypeOK'
  BY <1>4 DEF HttpsUploadEnd, Goto, Opened, partitions, uploads, Thread, Steps
<1>5. CASE HttpUploadEnd
  BY <1>5, Images DEF HttpUploadEnd, partitions
<1>6. CASE EraseFiles
  BY <1>6 DEF EraseFiles, partitions
<1>7. ASSUME NEW t \in Thread, StartApply(t) \/ StartRevert(t) PROVE OtaTypeOK'
  BY <1>7 DEF StartApply, StartRevert, Goto, partitions, uploads, Steps
<1>8. ASSUME NEW t \in Thread, BackupBegin(t) PROVE OtaTypeOK'
  BY <1>8, Images DEF BackupBegin, Goto, partitions, uploads, Steps
<1>9. ASSUME NEW t \in Thread, BackupEnd(t) PROVE OtaTypeOK'
  <2>1. running.build \in Builds /\ Whole(running.build) \in Image
    BY Images
  <2>2. bakFile' \in Image \cup {None} /\ step' \in [Thread -> Steps]
    BY <1>9, <2>1 DEF BackupEnd, Copied, Goto, Steps
  <2> QED BY <1>9, <2>2 DEF BackupEnd, partitions, uploads
<1>10. ASSUME NEW t \in Thread, Begin(t, "new", newFile, "writeNew") PROVE OtaTypeOK'
  BY <1>10 DEF Begin, Goto, Opened, partitions, uploads, Steps
<1>11. ASSUME NEW t \in Thread, Begin(t, "bak", bakFile, "writeBak") PROVE OtaTypeOK'
  BY <1>11 DEF Begin, Goto, Opened, partitions, uploads, Steps
<1>12. ASSUME NEW t \in Thread, GiveUp(t) \/ End(t) \/ Remove(t) PROVE OtaTypeOK'
  BY <1>12 DEF GiveUp, End, Remove, Goto, Opened, partitions, uploads, Steps
<1>13. CASE Reset
  <2>1. /\ running' \in Image /\ other' \in Image \cup {None} /\ previous' \in Builds
    BY <1>13, Images DEF Reset, Boots
  <2>2. step' \in [Thread -> Steps] /\ image' \in [Thread -> Image \cup {None}]
    BY <1>13 DEF Reset, Steps
  <2>3. skipped' \in BOOLEAN
    BY <1>13 DEF Reset
  <2> QED BY <1>13, <2>1, <2>2, <2>3 DEF Reset
<1>14. CASE UNCHANGED otaVars
  BY <1>14 DEF otaVars
<1> QED BY <1>1, <1>2, <1>3, <1>4, <1>5, <1>6, <1>7, <1>8, <1>9, <1>10, <1>11, <1>12,
           <1>13, <1>14 DEF OtaNext, Call

LEMMA BackupStep == OtaTypeOK /\ BackupInv /\ [OtaNext]_otaVars => BackupInv'
<1> SUFFICES ASSUME OtaTypeOK, BackupInv, [OtaNext]_otaVars PROVE BackupInv'
  OBVIOUS
<1> USE DEF BackupInv, BackupIsUsable, Reliable, Copying, Boots
<1> DEFINE Kept == UNCHANGED <<running, other, bootOther, bakFile, skipped, previous>>
           Moves(t, s) == /\ step'[t] = s
                          /\ \A u \in Thread : u # t => step'[u] = step[u] /\ image'[u] = image[u]
<1>0. ASSUME NEW t \in Thread, NEW s, Goto(t, s),
             UNCHANGED image \/ \E i : Opened(t, i)
      PROVE  Moves(t, s)
  BY <1>0 DEF Goto, Opened, OtaTypeOK
\* A step that leaves partitions and backup alone, and ends before it begins
\* to copy or after what it has written
<1>1. ASSUME NEW t \in Thread, NEW s \in {"idle", "receive", "backup", "bak"},
             Moves(t, s), step[t] # "copy", Kept
      PROVE  BackupInv'
  BY <1>1
<1>2. ASSUME UNCHANGED <<step, image>>, Kept PROVE BackupInv'
  BY <1>2
<1>3. ASSUME NEW b \in Builds, HttpsUploadBegin(b) PROVE BackupInv'
  BY <1>0, <1>1, <1>3 DEF HttpsUploadBegin, partitions, Thread
<1>4. ASSUME NEW ok \in BOOLEAN, HttpsUploadEnd(ok) PROVE BackupInv'
  BY <1>0, <1>1, <1>4 DEF HttpsUploadEnd, partitions, Thread
<1>5. ASSUME \/ \E b \in Builds, ok \in BOOLEAN : HttpUploadBegin(b, ok)
             \/ \E ok \in BOOLEAN : HttpUploadFail(ok)
             \/ HttpUploadEnd
      PROVE  BackupInv'
  BY <1>2, <1>5 DEF HttpUploadBegin, HttpUploadFail, HttpUploadEnd, partitions
<1>6. CASE EraseFiles
  BY <1>6 DEF EraseFiles, partitions
<1>7. ASSUME NEW t \in Thread, StartApply(t) \/ StartRevert(t) PROVE BackupInv'
  BY <1>0, <1>1, <1>7 DEF StartApply, StartRevert, partitions
<1>8. ASSUME NEW t \in Thread, BackupBegin(t) PROVE BackupInv'
  <2>1. UNCHANGED <<running, other, bootOther, previous, image>> /\ step[t] = "backup"
    BY <1>8 DEF BackupBegin, partitions
  <2>2. CASE Goto(t, "copy")
    <3>1. bakFile' = IF bakFile = None THEN Part(running.build) ELSE bakFile
      BY <1>8, <2>2 DEF BackupBegin, Goto, OtaTypeOK
    <3>2. Moves(t, "copy")
      BY <1>0, <2>1, <2>2
    <3> QED BY <2>1, <3>1, <3>2, Images
  <2>3. CASE Goto(t, "new")
    <3>1. bakFile' = bakFile /\ (skipped' \/ bakFile = None)
      BY <1>8, <2>3 DEF BackupBegin, Goto, OtaTypeOK
    <3>2. Moves(t, "new")
      BY <1>0, <2>1, <2>3
    <3> QED BY <2>1, <3>1, <3>2
  <2> QED BY <1>8, <2>2, <2>3 DEF BackupBegin
<1>9. ASSUME NEW t \in Thread, BackupEnd(t) PROVE BackupInv'
  <2>1. /\ UNCHANGED <<running, other, bootOther, previous, image>> /\ Moves(t, "new")
        /\ bakFile' = Whole(running.build) \/ bakFile' = None
    BY <1>0, <1>9 DEF BackupEnd, Copied, partitions
  <2> QED BY <2>1, Images
<1>10. ASSUME NEW t \in Thread, NEW i, NEW from, NEW to, Begin(t, from, i, to),
              \/ from = "new" /\ to = "writeNew"
              \/ from = "bak" /\ to = "writeBak" /\ i = bakFile
       PROVE  BackupInv'
  <2>1. UNCHANGED <<running, bootOther, bakFile, skipped, previous>> /\ step[t] = from
    BY <1>10 DEF Begin
  <2>2. CASE i = None \/ updating
    BY <1>0, <1>1, <1>10, <2>1, <2>2 DEF Begin
  <2>3. CASE ~(i = None \/ updating)
    <3>1. other' = None /\ Moves(t, to) /\ image'[t] = i
      BY <1>0, <1>10, <2>3 DEF Begin, Opened, OtaTypeOK
    <3> QED BY <1>10, <2>1, <3>1
  <2> QED BY <2>2, <2>3
<1>11. ASSUME NEW t \in Thread, GiveUp(t) PROVE BackupInv'
  BY <1>0, <1>1, <1>11 DEF GiveUp, partitions
<1>12. ASSUME NEW t \in Thread, End(t) PROVE BackupInv'
  <2>1. /\ UNCHANGED <<running, bakFile, skipped, previous>> /\ other' = image[t]
        /\ step[t] \in {"writeNew", "writeBak"}
    BY <1>12 DEF End
  <2>2. CASE step[t] = "writeNew"
    <3>1. Moves(t, "remove")
      BY <1>0, <1>12, <2>2 DEF End
    <3> QED BY <2>1, <2>2, <3>1
  <2>3. CASE step[t] = "writeBak"
    <3>1. Moves(t, "idle")
      BY <1>0, <1>12, <2>1, <2>3 DEF End
    <3> QED BY <2>1, <2>3, <3>1
  <2> QED BY <2>1, <2>2, <2>3
<1>13. ASSUME NEW t \in Thread, Remove(t) PROVE BackupInv'
  BY <1>0, <1>1, <1>13 DEF Remove, partitions
<1>14. CASE Reset
  <2>1. /\ \A t \in Thread : step'[t] = "idle"
        /\ bakFile' = bakFile /\ ~bootOther'
        /\ ~skipped' => ~skipped /\ ~Copying
    BY <1>14 DEF Reset
  <2>2. CASE Boots
    BY <1>14, <2>1, <2>2 DEF Reset
  <2>3. CASE ~Boots
    BY <1>14, <2>1, <2>3 DEF Reset
  <2> QED BY <2>2, <2>3
<1>15. CASE UNCHANGED otaVars
  BY <1>2, <1>15 DEF otaVars
<1> HIDE DEF BackupInv
<1>16. ASSUME NEW t \in Thread, Call(t) PROVE BackupInv'
  <2>1. ASSUME Begin(t, "new", newFile, "writeNew") PROVE BackupInv'
    BY <1>10, <2>1, Zenon
  <2>2. Begin(t, "bak", bakFile, "writeBak") => BackupInv'
    BY <1>10
  <2> QED BY <1>7, <1>8, <1>9, <1>11, <1>12, <1>13, <1>16, <2>1, <2>2 DEF Call
<1> QED BY <1>3, <1>4, <1>5, <1>6, <1>14, <1>15, <1>16 DEF OtaNext

LEMMA OtaInitIs == OtaInit => OtaTypeOK /\ BackupInv
<1> SUFFICES ASSUME OtaInit PROVE OtaTypeOK /\ BackupInv
  OBVIOUS
<1>1. PICK b \in Builds : running = Whole(b)
  BY DEF OtaInit
<1>2. OtaTypeOK
  BY <1>1, Images DEF OtaInit, OtaTypeOK, Steps
<1> QED BY <1>1, <1>2, Images
        DEF OtaInit, BackupInv, BackupIsUsable, Reliable, Copying, Boots

LEMMA OtaTypesHold == OtaSpec => []OtaTypeOK
BY OtaInitIs, OtaTypeStep, PTL DEF OtaSpec

\* Whoever else applies or reverts, the backup is a whole image of the running
\* build or of the one before, unless the last backup was cut off or not made.
THEOREM BackupStaysUsable == OtaSpec => []BackupIsUsable
<1>1. BackupInv => BackupIsUsable
  BY DEF BackupInv
<1> QED BY <1>1, OtaInitIs, BackupStep, OtaTypesHold, PTL DEF OtaSpec

-----------------------------------------------------------------------------
(* The log files                                                           *)

\* File i holds the generation of age i, as far back as this is claimed.
Aligned == \A i \in 1..rotations : i <= Limit => rotated[i] = i

\* A rotation has moved the files after s up by one.
Halfway(s) ==
    \A i \in 1..rotations : i <= keep =>
        IF i <= s THEN rotated[i] = i ELSE i + 1 <= keep => rotated[i + 1] = i

ShiftInv == \A t \in Writer : write[t] = "shift" => shift[t] <= keep - 1

\* A rotation on its own works on aligned files from the last to the first; one
\* that met another leaves no claim.
AlignInv ==
    IF crossed THEN rotations = 0
    ELSE /\ \A t, u \in Rotating : t = u
         /\ (\A t \in Writer : write[t] # "shift") => Aligned
         /\ \A t \in Writer : write[t] = "shift" => Halfway(shift[t])

Ordered == \A i, j \in Present : i < j => rotated[i] < rotated[j]

Limited == fewer \/ Present \subseteq 1..Limit

RotationInv == ShiftInv /\ AlignInv /\ Ordered /\ Limited

LEMMA MovedIs ==
    ASSUME LogTypeOK, NEW s \in Generation
    PROVE  /\ Moved(s) \in [Generation -> 0..MaxAge]
           /\ rotated[s] = 0 => Moved(s) = rotated
           /\ rotated[s] # 0 => \A i \in Generation :
                 Moved(s)[i] = IF i = s + 1 THEN rotated[s] ELSE IF i = s THEN 0 ELSE rotated[i]
<1>1. rotated \in [Generation -> 0..MaxAge] /\ 0 \in 0..MaxAge
  BY LogAssumption DEF LogTypeOK
<1>2. rotated[s] \in 0..MaxAge
  BY <1>1
<1>3. s # s + 1
  BY DEF Generation
<1> DEFINE q == s + 1
<1> HIDE DEF q
<1>4. [rotated EXCEPT ![s] = 0, ![q] = rotated[s]] \in [Generation -> 0..MaxAge]
  BY <1>1, <1>2
<1>5. s # q => \A i \in Generation : [rotated EXCEPT ![s] = 0, ![q] = rotated[s]][i]
                  = IF i = q THEN rotated[s] ELSE IF i = s THEN 0 ELSE rotated[i]
  BY <1>1
<1> QED BY <1>1, <1>3, <1>4, <1>5 DEF Moved, q

LEMMA LogTypeStep == LogTypeOK /\ [LogNext]_logVars => LogTypeOK'
<1> SUFFICES ASSUME LogTypeOK, [LogNext]_logVars PROVE LogTypeOK'
  OBVIOUS
<1> USE LogAssumption DEF LogTypeOK, Generation
<1>0. keep \in 0..Depth /\ Depth \in Nat /\ MaxAge \in Nat /\ MaxSize \in Nat
  OBVIOUS
<1>1. ASSUME NEW t \in Writer, LookAtSize(t) PROVE LogTypeOK'
  <2>1. write' \in [Writer -> {"idle", "append", "remove", "shift"}]
    BY <1>1 DEF LookAtSize, Operation
  <2>2. rotations' \in 0..Depth /\ crossed' \in BOOLEAN
    <3>1. crossed' \in BOOLEAN
      BY <1>1 DEF LookAtSize
    <3>2. rotations' = 0 \/ rotations' = rotations
      BY <1>1 DEF LookAtSize
    <3> QED BY <1>0, <3>1, <3>2
  <2> QED BY <1>1, <2>1, <2>2 DEF LookAtSize
<1>2. ASSUME NEW t \in Writer, AppendMessage(t) PROVE LogTypeOK'
  BY <1>0, <1>2 DEF AppendMessage, Operation
<1>3. ASSUME NEW t \in Writer, RemoveOldest(t) PROVE LogTypeOK'
  BY <1>0, <1>3 DEF RemoveOldest, Operation
<1>4. ASSUME NEW t \in Writer, ShiftFile(t) \/ ShiftFails(t) PROVE LogTypeOK'
  <2>1. shift[t] \in 1..Depth /\ shift' = [shift EXCEPT ![t] = @ - 1]
    BY <1>4 DEF ShiftFile, ShiftFails
  <2>2. Moved(shift[t]) \in [Generation -> 0..MaxAge]
    BY <2>1, MovedIs
  <2>3. shift' \in [Writer -> -1..Depth]
    <3>1. shift[t] - 1 \in -1..Depth
      BY <1>0, <2>1
    <3> QED BY <2>1, <3>1
  <2>4. rotated' \in [Generation -> 0..MaxAge] /\ rotations' \in 0..Depth
    BY <1>0, <1>4, <2>2 DEF ShiftFile, ShiftFails
  <2> QED BY <1>4, <2>3, <2>4 DEF ShiftFile, ShiftFails
<1>5. ASSUME NEW t \in Writer, RenameLog(t) PROVE LogTypeOK'
  <2>1. rotated' \in [Generation -> 0..MaxAge]
    <3>1. \A i \in Generation : rotated[i] \in 0..MaxAge /\ rotated[i] < MaxAge
      BY <1>5 DEF RenameLog
    <3>2. MaxAge >= 1
      <4>1. 1 \in Generation
        BY <1>0
      <4> QED BY <1>0, <3>1, <4>1
    <3> QED BY <1>0, <1>5, <3>1, <3>2 DEF RenameLog
  <2>2. rotations' \in 0..Depth /\ logSize' = 0
    BY <1>0, <1>5 DEF RenameLog
  <2>3. write' \in [Writer -> {"idle", "append", "remove", "shift"}]
    BY <1>5 DEF RenameLog, Operation
  <2> QED BY <1>0, <1>5, <2>1, <2>2, <2>3 DEF RenameLog
<1>6. ASSUME NEW t \in Writer, RenameFails(t) PROVE LogTypeOK'
  BY <1>0, <1>6 DEF RenameFails, Operation
<1>7. CASE LogReset
  <2>1. write' \in [Writer -> {"idle", "append", "remove", "shift"}]
        /\ shift' \in [Writer -> -1..Depth]
    BY <1>0, <1>7 DEF LogReset
  <2>2. fewer' \in BOOLEAN
    BY <1>7 DEF LogReset
  <2>3. rotations' \in 0..Depth
    BY <1>0, <1>7 DEF LogReset
  <2> QED BY <1>7, <2>1, <2>2, <2>3 DEF LogReset
<1>8. CASE LogErase
  <2>1. rotated' \in [Generation -> 0..MaxAge]
    BY <1>0, <1>8 DEF LogErase, NoFiles
  <2>2. 0 \in 0..Depth /\ 0 \in 0..MaxSize + 1
    BY <1>0
  <2> QED BY <1>8, <2>1, <2>2 DEF LogErase
<1>9. CASE UNCHANGED logVars
  BY <1>9 DEF logVars
<1> QED BY <1>1, <1>2, <1>3, <1>4, <1>5, <1>6, <1>7, <1>8, <1>9 DEF LogNext

LEMMA OperationIs ==
    ASSUME LogTypeOK, NEW t \in Writer, NEW this, NEW next, Operation(t, this, next)
    PROVE  write[t] = this /\ write'[t] = next /\ \A u \in Writer : u # t => write'[u] = write[u]
BY DEF LogTypeOK, Operation

LEMMA Numbers == ASSUME LogTypeOK
    PROVE  /\ keep \in Nat /\ keep <= Depth /\ Depth \in Nat /\ Depth > 0
           /\ Limit \in 1..Depth /\ keep <= Limit /\ rotations \in 0..Depth
           /\ \A i \in Generation : i \in 1..Depth /\ rotated[i] \in Nat
           /\ \A t \in Writer : shift[t] \in Int
BY LogAssumption DEF LogTypeOK, Limit, Generation

LEMMA RotationStep == LogTypeOK /\ LogTypeOK' /\ RotationInv /\ [LogNext]_logVars => RotationInv'
<1> SUFFICES ASSUME LogTypeOK, LogTypeOK', RotationInv, [LogNext]_logVars PROVE RotationInv'
  OBVIOUS
<1> USE DEF RotationInv
<1>0. UNCHANGED <<rotated, keep, fewer>> => Ordered' /\ Limited'
  BY DEF Ordered, Limited, Present, Limit
<1>1. ASSUME NEW t \in Writer, LookAtSize(t) PROVE RotationInv'
  <2>1. UNCHANGED <<keep, logSize, rotated, shift, fewer>>
    BY <1>1 DEF LookAtSize
  <2>2. CASE logSize > MaxSize
    <3>1. /\ write[t] = "idle" /\ write'[t] = "remove"
          /\ \A u \in Writer : u # t => write'[u] = write[u]
      BY <1>1, <2>2, OperationIs DEF LookAtSize
    <3>2. /\ crossed' <=> Rotating # {}
          /\ crossed' => rotations' = 0
          /\ ~crossed' => rotations' = rotations
      BY <1>1, <2>2 DEF LookAtSize
    <3>3. AlignInv'
      <4>1. CASE crossed'
        BY <3>2, <4>1 DEF AlignInv
      <4>2. CASE ~crossed'
        <5>1. \A u \in Writer : write[u] \notin {"remove", "shift"}
          BY <3>2, <4>2 DEF Rotating
        <5>2. \A u \in Rotating' : u = t
          BY <3>1, <5>1 DEF Rotating
        <5>3. Aligned'
          <6>1. CASE crossed
            BY <2>1, <3>2, <4>2, <6>1 DEF AlignInv, Aligned
          <6>2. CASE ~crossed
            BY <2>1, <3>2, <4>2, <5>1, <6>2 DEF AlignInv, Aligned, Limit
          <6> QED BY <6>1, <6>2
        <5> QED BY <3>1, <4>2, <5>1, <5>2, <5>3 DEF AlignInv
      <4> QED BY <4>1, <4>2
    <3>4. ShiftInv'
      BY <2>1, <3>1 DEF ShiftInv
    <3> QED BY <1>0, <2>1, <3>3, <3>4
  <2>3. CASE ~(logSize > MaxSize)
    <3>1. /\ write[t] = "idle" /\ write'[t] = "append"
          /\ \A u \in Writer : u # t => write'[u] = write[u]
      BY <1>1, <2>3, OperationIs DEF LookAtSize
    <3>2. UNCHANGED <<rotations, crossed>>
      BY <1>1, <2>3 DEF LookAtSize
    <3>3. AlignInv' /\ ShiftInv'
      BY <2>1, <3>1, <3>2 DEF AlignInv, Aligned, Halfway, Rotating, Limit, ShiftInv
    <3> QED BY <1>0, <2>1, <3>3
  <2> QED BY <2>2, <2>3
<1>2. ASSUME NEW t \in Writer, AppendMessage(t) PROVE RotationInv'
  <2>1. /\ write[t] = "append" /\ write'[t] = "idle"
        /\ \A u \in Writer : u # t => write'[u] = write[u]
    BY <1>2, OperationIs DEF AppendMessage
  <2>2. UNCHANGED <<keep, rotated, shift, rotations, crossed, fewer>>
    BY <1>2 DEF AppendMessage
  <2>3. AlignInv' /\ ShiftInv'
    BY <2>1, <2>2 DEF AlignInv, Aligned, Halfway, Rotating, Limit, ShiftInv
  <2> QED BY <1>0, <2>2, <2>3
<1>3. ASSUME NEW t \in Writer, RemoveOldest(t) PROVE RotationInv'
  <2>1. /\ write[t] = "remove" /\ write'[t] = "shift" /\ shift'[t] = keep - 1
        /\ \A u \in Writer : u # t => write'[u] = write[u] /\ shift'[u] = shift[u]
    BY <1>3, OperationIs DEF RemoveOldest, LogTypeOK
  <2>2. /\ \A i \in Generation : rotated'[i] = IF i = keep THEN 0 ELSE rotated[i]
        /\ UNCHANGED <<keep, rotations, crossed, fewer>>
    BY <1>3 DEF RemoveOldest
  <2>3. Ordered' /\ Limited'
    BY <2>2 DEF Ordered, Limited, Present, Limit
  <2>4. ShiftInv'
    BY <2>1, <2>2, Numbers DEF ShiftInv
  <2>5. ASSUME ~crossed PROVE AlignInv'
    <3>1. \A u \in Writer : u # t => write[u] \notin {"remove", "shift"}
      BY <2>1, <2>5 DEF AlignInv, Rotating
    <3>2. Aligned
      BY <2>1, <2>5, <3>1 DEF AlignInv
    <3>3. \A i \in 1..rotations : i <= keep /\ i <= keep - 1 => rotated'[i] = i
      BY <2>2, <3>2, Numbers DEF Aligned, Generation
    <3>4. Halfway(keep - 1)'
      BY <2>2, <3>3, Numbers DEF Halfway
    <3>5. \A u, w \in Rotating' : u = w
      BY <2>1, <3>1 DEF Rotating
    <3>6. \A u \in Writer : write'[u] = "shift" => Halfway(shift[u])'
      BY <2>1, <2>2, <3>1, <3>4 DEF Halfway
    <3> QED BY <2>1, <2>2, <2>5, <3>5, <3>6 DEF AlignInv
  <2>6. ASSUME crossed PROVE AlignInv'
    BY <2>2, <2>6 DEF AlignInv
  <2> QED BY <2>3, <2>4, <2>5, <2>6 DEF AlignInv
<1>4. ASSUME NEW t \in Writer, ShiftFile(t) PROVE RotationInv'
  <2>0. PICK s : s = shift[t]
    OBVIOUS
  <2>1. /\ write[t] = "shift" /\ s >= 1 /\ s <= keep - 1
        /\ rotated' = Moved(s) /\ shift'[t] = s - 1
        /\ \A u \in Writer : u # t => shift'[u] = shift[u]
        /\ UNCHANGED <<keep, write, rotations, crossed, fewer>>
    BY <1>4, <2>0 DEF ShiftFile, ShiftInv, LogTypeOK
  <2>2. s \in Generation /\ s + 1 \in Generation /\ s \in 1..keep /\ s + 1 \in 1..keep
    BY <2>0, <2>1, Numbers DEF Generation
  <2>3. /\ rotated[s] = 0 => \A i \in Generation : rotated'[i] = rotated[i]
        /\ rotated[s] # 0 => \A i \in Generation :
              rotated'[i] = IF i = s + 1 THEN rotated[s] ELSE IF i = s THEN 0 ELSE rotated[i]
    BY <2>1, <2>2, MovedIs
  <2>4. Ordered'
    BY <2>2, <2>3, Numbers DEF Ordered, Present, Generation
  <2>5. Limited'
    <3> SUFFICES ASSUME ~fewer, NEW i \in Generation, rotated'[i] # 0 PROVE i \in 1..Limit
      BY <2>1 DEF Limited, Present, Limit
    <3>1. i = s + 1 \/ i \in Present
      BY <2>3 DEF Present
    <3>2. Present \subseteq 1..Limit
      BY <2>1 DEF Limited
    <3> QED BY <2>2, <3>1, <3>2, Numbers
  <2>6. ShiftInv'
    BY <2>0, <2>1, Numbers DEF ShiftInv
  <2>7. ASSUME ~crossed PROVE AlignInv'
    <3>1. \A u \in Writer : u # t => write[u] \notin {"remove", "shift"}
      BY <2>1, <2>7 DEF AlignInv, Rotating
    <3>2. Halfway(s)
      BY <2>0, <2>1, <2>7 DEF AlignInv
    <3>3. Halfway(s - 1)'
      <4> SUFFICES ASSUME NEW i \in 1..rotations, i <= keep
                   PROVE  IF i <= s - 1 THEN rotated'[i] = i ELSE i + 1 <= keep => rotated'[i + 1] = i
        BY <2>1 DEF Halfway
      <4>1. i \in Generation /\ (i + 1 <= keep => i + 1 \in Generation)
        BY Numbers DEF Generation
      <4>2. IF i <= s THEN rotated[i] = i ELSE i + 1 <= keep => rotated[i + 1] = i
        BY <3>2 DEF Halfway
      <4>3. CASE i <= s - 1
        BY <2>2, <2>3, <4>1, <4>2, <4>3 DEF Generation
      <4>4. CASE i = s
        BY <2>2, <2>3, <4>1, <4>2, <4>4 DEF Generation
      <4>5. CASE i >= s + 1
        BY <2>2, <2>3, <4>1, <4>2, <4>5 DEF Generation
      <4> QED BY <2>2, <4>1, <4>3, <4>4, <4>5 DEF Generation
    <3>4. \A u \in Writer : write'[u] = "shift" => Halfway(shift[u])'
      BY <2>1, <3>1, <3>3 DEF Halfway
    <3> QED BY <2>1, <2>7, <3>1, <3>4 DEF AlignInv, Rotating
  <2>8. ASSUME crossed PROVE AlignInv'
    BY <2>1, <2>8 DEF AlignInv
  <2> QED BY <2>4, <2>5, <2>6, <2>7, <2>8 DEF AlignInv
<1>5. ASSUME NEW t \in Writer, ShiftFails(t) PROVE RotationInv'
  <2>1. /\ write[t] = "shift" /\ rotations' = 0 /\ shift'[t] = shift[t] - 1
        /\ \A u \in Writer : u # t => shift'[u] = shift[u]
        /\ UNCHANGED <<keep, rotated, write, crossed, fewer>>
    BY <1>5 DEF ShiftFails, LogTypeOK
  <2>2. ShiftInv'
    BY <2>1, Numbers DEF ShiftInv
  <2>3. AlignInv'
    BY <2>1 DEF AlignInv, Aligned, Halfway, Rotating
  <2> QED BY <1>0, <2>1, <2>2, <2>3
<1>6. ASSUME NEW t \in Writer, RenameLog(t) PROVE RotationInv'
  <2>1. /\ write[t] = "shift" /\ write'[t] = "append" /\ shift[t] < 1
        /\ \A u \in Writer : u # t => write'[u] = write[u]
        /\ UNCHANGED <<keep, shift, crossed, fewer>>
    BY <1>6, OperationIs DEF RenameLog
  <2>2. \A i \in Generation :
           rotated'[i] = IF i = 1 THEN 1 ELSE IF rotated[i] = 0 THEN 0 ELSE rotated[i] + 1
    BY <1>6 DEF RenameLog
  <2>3. /\ crossed => rotations' = 0
        /\ rotations' <= rotations + 1
    BY <1>6, Numbers DEF RenameLog
  <2>4. Ordered'
    BY <2>2, Numbers DEF Ordered, Present, Generation
  <2>5. Limited'
    BY <2>1, <2>2, Numbers DEF Limited, Present, Limit
  <2>6. ShiftInv'
    BY <2>1 DEF ShiftInv
  <2>7. ASSUME ~crossed PROVE AlignInv'
    <3>1. \A u \in Writer : u # t => write[u] \notin {"remove", "shift"}
      BY <2>1, <2>7 DEF AlignInv, Rotating
    <3>2. Halfway(shift[t])
      BY <2>1, <2>7 DEF AlignInv
    <3>3. Aligned'
      <4> SUFFICES ASSUME NEW i \in 1..rotations', i <= Limit PROVE rotated'[i] = i
        BY <2>1 DEF Aligned, Limit
      <4>1. i \in Generation /\ rotations' \in Nat
        BY Numbers DEF Generation, LogTypeOK
      <4>2. CASE i = 1
        BY <2>2, <4>1, <4>2
      <4>3. CASE i # 1
        <5>1. i - 1 \in 1..rotations /\ i <= keep /\ i - 1 > shift[t]
          BY <2>1, <2>3, <4>1, <4>3, Numbers DEF Limit, Generation
        <5>2. rotated[i] = i - 1
          BY <4>1, <5>1, <3>2, Numbers DEF Halfway, Generation
        <5> QED BY <2>2, <4>1, <4>3, <5>1, <5>2, Numbers DEF Generation
      <4> QED BY <4>2, <4>3
    <3> QED BY <2>1, <2>7, <3>1, <3>3 DEF AlignInv, Rotating
  <2>8. ASSUME crossed PROVE AlignInv'
    BY <2>1, <2>3, <2>8 DEF AlignInv
  <2> QED BY <2>4, <2>5, <2>6, <2>7, <2>8 DEF AlignInv
<1>7. ASSUME NEW t \in Writer, RenameFails(t) PROVE RotationInv'
  <2>1. /\ write[t] = "shift" /\ write'[t] = "append" /\ rotations' = 0
        /\ \A u \in Writer : u # t => write'[u] = write[u]
        /\ UNCHANGED <<keep, rotated, shift, crossed, fewer>>
    BY <1>7, OperationIs DEF RenameFails
  <2>2. AlignInv' /\ ShiftInv'
    BY <2>1 DEF AlignInv, Aligned, Halfway, Rotating, ShiftInv
  <2> QED BY <1>0, <2>1, <2>2
<1>8. CASE LogReset
  <2>1. /\ \A t \in Writer : write'[t] = "idle"
        /\ UNCHANGED rotated /\ (keep' < keep => fewer') /\ (fewer => fewer') /\ ~crossed'
        /\ rotations' # 0 => Rotating = {} /\ keep' = keep /\ rotations' = rotations
    BY <1>8 DEF LogReset
  <2>2. AlignInv'
    <3>1. CASE rotations' = 0
      BY <2>1, <3>1 DEF AlignInv, Aligned, Rotating
    <3>2. CASE rotations' # 0
      <4>1. ~crossed /\ \A u \in Writer : write[u] # "shift"
        BY <2>1, <3>2 DEF AlignInv, Rotating
      <4> QED BY <2>1, <3>2, <4>1 DEF AlignInv, Aligned, Limit, Rotating
    <3> QED BY <3>1, <3>2
  <2>3. ShiftInv' /\ Ordered'
    BY <2>1 DEF ShiftInv, Ordered, Present
  <2>4. Limited'
    <3>1. keep' \in Nat /\ keep \in Nat
      BY LogAssumption DEF LogTypeOK
    <3> QED BY <2>1, <3>1 DEF Limited, Limit, Present
  <2> QED BY <2>2, <2>3, <2>4
<1>9. CASE LogErase
  <2>1. /\ rotations' = 0 /\ UNCHANGED <<keep, write, shift, crossed>>
        /\ \A i \in Generation : rotated'[i] = 0
    BY <1>9 DEF LogErase, NoFiles
  <2> QED BY <2>1 DEF AlignInv, Aligned, Halfway, Rotating, ShiftInv, Ordered, Limited, Present
<1>10. CASE UNCHANGED logVars
  <2> USE <1>10 DEF logVars
  <2>1. AlignInv' /\ ShiftInv'
    BY DEF AlignInv, Aligned, Halfway, Rotating, ShiftInv, Limit
  <2> QED BY <1>0, <2>1
<1> QED BY <1>1, <1>2, <1>3, <1>4, <1>5, <1>6, <1>7, <1>8, <1>9, <1>10 DEF LogNext

\* A higher number is an older generation wherever a reset or a failed rename
\* left the files; between rotations file i has the generation of age i, as far
\* back as rotations went well, and no more files are kept than configured.
THEOREM GenerationsAreKept == LogSpec => []LatestGenerationsKept
<1>1. LogInit => LogTypeOK /\ RotationInv
  <2> SUFFICES ASSUME LogInit PROVE LogTypeOK /\ RotationInv
    OBVIOUS
  <2>1. LogTypeOK
    <3>1. 0 \in 0..Depth /\ 0 \in -1..Depth /\ 0 \in 0..MaxAge /\ 0 \in 0..MaxSize + 1
      BY LogAssumption
    <3> QED BY <3>1 DEF LogInit, LogTypeOK, NoFiles
  <2>2. RotationInv
    BY DEF LogInit, NoFiles, RotationInv, AlignInv, Aligned, Rotating, ShiftInv, Ordered,
           Limited, Present
  <2> QED BY <2>1, <2>2
<1>2. LogTypeOK /\ RotationInv /\ [LogNext]_logVars => (LogTypeOK /\ RotationInv)'
  BY LogTypeStep, RotationStep
<1>3. LogTypeOK /\ RotationInv => LatestGenerationsKept
  <2> SUFFICES ASSUME LogTypeOK, RotationInv PROVE LatestGenerationsKept
    OBVIOUS
  <2>1. Rotating = {} => Aligned
    BY DEF RotationInv, AlignInv, Rotating, Aligned
  <2> QED BY <2>1 DEF RotationInv, Ordered, Limited, Aligned, LatestGenerationsKept
<1> QED BY <1>1, <1>2, <1>3, PTL DEF LogSpec

-----------------------------------------------------------------------------
(* The ring of the last messages                                           *)

\* The slot of the message that is k messages older than the one before h
Back(h, k) == IF k < h THEN h - 1 - k ELSE h - 1 - k + RingMax

\* The n messages before h are the last that were put into the ring.
Latest(n, h) == \A k \in 0..n - 1 : slot[Back(h, k)] = k

\* The last message lies at h, the n before it are older by one.
Placed(n, h) ==
    slot[h] = 0 /\ \A k \in 0..n - 1 : k < RingMax - 1 => slot[Back(h, k)] = k + 1

\* A message on its own goes through its steps over what the last ones left; one
\* that met another leaves no claim.
RingInv ==
    IF met THEN clear = 0
    ELSE /\ \A t, u \in Task : field[t] # "idle" /\ field[u] # "idle" => t = u
         /\ clear <= count
         /\ (\A t \in Task : field[t] \in {"idle", "put"}) => Latest(clear, head)
         /\ \A t \in Task :
               /\ field[t] \in {"head", "advance"} => Placed(clear, head)
               /\ field[t] = "advance" => seen[t] = head
               /\ field[t] \in {"count", "grow"} => Latest(Aged(clear), head)
               /\ field[t] = "grow" => seen[t] = count

LEMMA BackIs ==
    ASSUME NEW h \in 0..RingMax - 1, NEW k \in 0..RingMax - 1
    PROVE  /\ Back(h, k) \in 0..RingMax - 1
           /\ (h + RingMax - 1 - k) % RingMax = Back(h, k)
           /\ k < RingMax - 1 => Back(h, k) # h
BY RingAssumption DEF Back

LEMMA AdvanceIs ==
    ASSUME NEW h \in 0..RingMax - 1
    PROVE  /\ (h + 1) % RingMax \in 0..RingMax - 1
           /\ Back((h + 1) % RingMax, 0) = h
           /\ \A k \in 0..RingMax - 2 : Back((h + 1) % RingMax, k + 1) = Back(h, k)
<1>1. CASE h + 1 < RingMax
  <2>1. (h + 1) % RingMax = h + 1
    BY <1>1, RingAssumption
  <2> QED BY <1>1, <2>1, RingAssumption DEF Back
<1>2. CASE h + 1 = RingMax
  <2>1. (h + 1) % RingMax = 0
    BY <1>2, RingAssumption
  <2> QED BY <1>2, <2>1, RingAssumption DEF Back
<1> QED BY <1>1, <1>2, RingAssumption

LEMMA AgedIs ==
    ASSUME NEW n \in 0..RingMax
    PROVE  /\ Aged(n) \in 0..RingMax /\ n <= Aged(n) /\ Aged(n) <= n + 1
           /\ n < RingMax => Aged(n) = n + 1
BY RingAssumption DEF Aged

LEMMA RingTypeStep == RingTypeOK /\ [RingNext]_ringVars => RingTypeOK'
<1> SUFFICES ASSUME RingTypeOK, [RingNext]_ringVars PROVE RingTypeOK'
  OBVIOUS
<1> USE DEF RingTypeOK
<1>0. 0 \in 0..RingMax - 1 /\ 0 \in 0..RingMax /\ RingMax \in 0..RingMax
      /\ 0..RingMax - 1 \subseteq 0..RingMax
  BY RingAssumption
<1>1. ASSUME NEW t \in Task, Format(t) PROVE RingTypeOK'
  <2>1. clear' = 0 \/ clear' = clear
    BY <1>1 DEF Format
  <2>2. met' \in BOOLEAN
    BY <1>1 DEF Format
  <2>3. field' \in [Task -> {"idle", "put", "head", "advance", "count", "grow"}]
    BY <1>1 DEF Format, Access
  <2> QED BY <1>0, <1>1, <2>1, <2>2, <2>3 DEF Format
<1>2. ASSUME NEW t \in Task, PutMessage(t) PROVE RingTypeOK'
  <2>1. \A i \in 0..RingMax - 1 : (IF i = head THEN 0 ELSE Aged(slot[i])) \in 0..RingMax
    BY <1>0, AgedIs
  <2>2. slot' = [i \in 0..RingMax - 1 |-> IF i = head THEN 0 ELSE Aged(slot[i])]
    BY <1>2 DEF PutMessage
  <2>3. slot' \in [0..RingMax - 1 -> 0..RingMax]
    BY <2>1, <2>2
  <2> QED BY <1>2, <2>3 DEF PutMessage, Access
<1>3. ASSUME NEW t \in Task, ReadHead(t) \/ ReadCount(t) PROVE RingTypeOK'
  BY <1>0, <1>3 DEF ReadHead, ReadCount, Access
<1>4. ASSUME NEW t \in Task, AdvanceHead(t) PROVE RingTypeOK'
  <2>1. seen[t] \in 0..RingMax
    OBVIOUS
  <2>2. (seen[t] + 1) % RingMax \in 0..RingMax - 1
    BY <2>1, RingAssumption
  <2> QED BY <1>4, <2>2 DEF AdvanceHead, Access
<1>5. ASSUME NEW t \in Task, GrowCount(t) PROVE RingTypeOK'
  <2>1. seen[t] \in 0..RingMax
    OBVIOUS
  <2>2. count' \in 0..RingMax
    BY <1>5, <2>1, RingAssumption DEF GrowCount
  <2>3. clear' \in 0..RingMax
    BY <1>0, <1>5, AgedIs DEF GrowCount
  <2> QED BY <1>5, <2>2, <2>3 DEF GrowCount, Access
<1>6. CASE RingReset
  BY <1>0, <1>6 DEF RingReset
<1>7. CASE UNCHANGED ringVars
  BY <1>7 DEF ringVars
<1> QED BY <1>1, <1>2, <1>3, <1>4, <1>5, <1>6, <1>7 DEF RingNext

LEMMA AccessIs ==
    ASSUME RingTypeOK, NEW t \in Task, NEW this, NEW next, Access(t, this, next)
    PROVE  field[t] = this /\ field'[t] = next /\ \A u \in Task : u # t => field'[u] = field[u]
BY DEF RingTypeOK, Access

LEMMA RingStep == RingTypeOK /\ RingInv /\ [RingNext]_ringVars => RingInv'
<1> SUFFICES ASSUME RingTypeOK, RingInv, [RingNext]_ringVars PROVE RingInv'
  OBVIOUS
<1> USE DEF RingInv
<1>0. /\ head \in 0..RingMax - 1 /\ clear \in 0..RingMax /\ count \in 0..RingMax
      /\ RingMax \in Nat \ {0}
  BY RingAssumption DEF RingTypeOK
<1>1. ASSUME NEW t \in Task, Format(t) PROVE RingInv'
  <2>1. /\ field[t] = "idle" /\ field'[t] = "put"
        /\ \A u \in Task : u # t => field'[u] = field[u]
        /\ UNCHANGED <<head, count, slot, seen>>
    BY <1>1, AccessIs DEF Format
  <2>2. /\ met' => clear' = 0
        /\ ~met' => clear' = clear /\ \A u \in Task : u # t => field[u] = "idle"
    BY <1>1 DEF Format
  <2>3. ASSUME ~met' PROVE Latest(clear, head) /\ clear <= count
    BY <1>0, <2>1, <2>2, <2>3 DEF Latest
  <2> QED BY <2>1, <2>2, <2>3 DEF Latest
<1>2. ASSUME NEW t \in Task, PutMessage(t) PROVE RingInv'
  <2>1. /\ field[t] = "put" /\ field'[t] = "head"
        /\ \A u \in Task : u # t => field'[u] = field[u]
        /\ UNCHANGED <<head, count, seen, met, clear>>
    BY <1>2, AccessIs DEF PutMessage
  <2>2. \A i \in 0..RingMax - 1 : slot'[i] = IF i = head THEN 0 ELSE Aged(slot[i])
    BY <1>2 DEF PutMessage, RingTypeOK
  <2>3. ASSUME ~met PROVE Placed(clear, head)'
    <3>1. Latest(clear, head)
      BY <2>1, <2>3
    <3>2. ASSUME NEW k \in 0..clear - 1, k < RingMax - 1 PROVE slot'[Back(head, k)] = k + 1
      <4>1. k \in 0..RingMax - 1 /\ k \in 0..RingMax /\ slot[Back(head, k)] = k
        BY <1>0, <3>1, <3>2 DEF Latest
      <4>2. Back(head, k) \in 0..RingMax - 1 /\ Back(head, k) # head
        BY <1>0, <3>2, <4>1, BackIs
      <4> QED BY <1>0, <2>2, <3>2, <4>1, <4>2, AgedIs
    <3>3. slot'[head] = 0
      BY <1>0, <2>2
    <3> QED BY <2>1, <3>2, <3>3 DEF Placed, Back
  <2> QED BY <2>1, <2>3
<1>3. ASSUME NEW t \in Task, ReadHead(t) PROVE RingInv'
  <2>1. /\ field[t] = "head" /\ field'[t] = "advance" /\ seen'[t] = head
        /\ \A u \in Task : u # t => field'[u] = field[u] /\ seen'[u] = seen[u]
        /\ UNCHANGED <<head, count, slot, met, clear>>
    BY <1>3, AccessIs DEF ReadHead, RingTypeOK
  <2> QED BY <2>1 DEF Latest, Placed
<1>4. ASSUME NEW t \in Task, AdvanceHead(t) PROVE RingInv'
  <2>1. /\ field[t] = "advance" /\ field'[t] = "count" /\ head' = (seen[t] + 1) % RingMax
        /\ \A u \in Task : u # t => field'[u] = field[u]
        /\ UNCHANGED <<count, slot, seen, met, clear>>
    BY <1>4, AccessIs DEF AdvanceHead
  <2>2. ASSUME ~met PROVE Latest(Aged(clear), head)'
    <3>1. Placed(clear, head) /\ head' = (head + 1) % RingMax
      BY <2>1, <2>2
    <3>2. ASSUME NEW k \in 0..Aged(clear) - 1 PROVE slot[Back((head + 1) % RingMax, k)] = k
      <4>1. k \in 0..RingMax - 1 /\ (k # 0 => k - 1 \in 0..clear - 1 /\ k - 1 < RingMax - 1
                                            /\ k - 1 \in 0..RingMax - 2)
        BY <1>0, AgedIs
      <4>2. CASE k = 0
        BY <1>0, <3>1, <4>2, AdvanceIs DEF Placed
      <4>3. CASE k # 0
        <5>1. slot[Back(head, k - 1)] = k - 1 + 1
          BY <3>1, <4>1, <4>3 DEF Placed
        <5>2. Back((head + 1) % RingMax, k - 1 + 1) = Back(head, k - 1)
          BY <1>0, <4>1, <4>3, AdvanceIs
        <5>3. k - 1 + 1 = k
          BY <4>1
        <5> QED BY <5>1, <5>2, <5>3
      <4> QED BY <4>2, <4>3
    <3> QED BY <2>1, <3>1, <3>2 DEF Latest, Aged
  <2> QED BY <2>1, <2>2
<1>5. ASSUME NEW t \in Task, ReadCount(t) PROVE RingInv'
  <2>1. /\ field[t] = "count" /\ field'[t] = "grow" /\ seen'[t] = count
        /\ \A u \in Task : u # t => field'[u] = field[u] /\ seen'[u] = seen[u]
        /\ UNCHANGED <<head, count, slot, met, clear>>
    BY <1>5, AccessIs DEF ReadCount, RingTypeOK
  <2> QED BY <2>1 DEF Latest, Placed, Aged
<1>6. ASSUME NEW t \in Task, GrowCount(t) PROVE RingInv'
  <2>1. /\ field[t] = "grow" /\ field'[t] = "idle"
        /\ \A u \in Task : u # t => field'[u] = field[u]
        /\ count' = IF seen[t] < RingMax THEN seen[t] + 1 ELSE count
        /\ UNCHANGED <<head, slot, seen, met>>
    BY <1>6, AccessIs DEF GrowCount
  <2>2. CASE met
    BY <1>6, <2>1, <2>2 DEF GrowCount
  <2>3. CASE ~met
    <3>1. clear' = Aged(clear) /\ seen[t] = count /\ Latest(Aged(clear), head) /\ clear <= count
      BY <1>6, <2>1, <2>3 DEF GrowCount
    <3>2. clear' <= count'
      BY <1>0, <2>1, <3>1, AgedIs
    <3>3. Latest(clear, head)'
      BY <2>1, <3>1 DEF Latest
    <3>4. \A u \in Task : field'[u] = "idle"
      BY <2>1, <2>3
    <3> QED BY <2>1, <2>3, <3>2, <3>3, <3>4
  <2> QED BY <2>2, <2>3
<1>7. CASE RingReset
  BY <1>7 DEF RingReset, Latest
<1>8. CASE UNCHANGED ringVars
  BY <1>8 DEF ringVars, Latest, Placed
<1> QED BY <1>1, <1>2, <1>3, <1>4, <1>5, <1>6, <1>7, <1>8 DEF RingNext

\* The log pages show the latest messages, each once and in their order, for any
\* size of the ring, as far back as the last that met another.
THEOREM RingShowsLatest == RingSpec => []RingHoldsLatest
<1>1. RingInit => RingTypeOK /\ RingInv
  <2> SUFFICES ASSUME RingInit PROVE RingTypeOK /\ RingInv
    OBVIOUS
  <2>1. RingTypeOK
    <3>1. 0 \in 0..RingMax - 1 /\ 0 \in 0..RingMax /\ RingMax \in 0..RingMax
      BY RingAssumption
    <3> QED BY <3>1 DEF RingInit, RingTypeOK
  <2>2. RingInv
    BY DEF RingInit, RingInv, Latest
  <2> QED BY <2>1, <2>2
<1>2. RingTypeOK /\ RingInv => RingHoldsLatest
  <2> SUFFICES ASSUME RingTypeOK, RingInv, Resting, NEW limit \in 0..clear
               PROVE  /\ limit <= count
                      /\ \A i \in 1..limit : Entries(limit)[i] = limit - i
    BY DEF RingHoldsLatest
  <2>1. /\ head \in 0..RingMax - 1 /\ clear \in 0..RingMax /\ count \in 0..RingMax
        /\ RingMax \in Nat \ {0} /\ limit \in 0..RingMax
    BY RingAssumption DEF RingTypeOK
  <2>2. limit <= count /\ (limit > 0 => Latest(clear, head))
    BY <2>1 DEF RingInv, Resting
  <2>3. ASSUME NEW i \in 1..limit PROVE Entries(limit)[i] = limit - i
    <3>1. limit - i \in 0..clear - 1 /\ limit - i \in 0..RingMax - 1
      BY <2>1
    <3>2. head + RingMax - count + (count - limit) + i - 1 = head + RingMax - 1 - (limit - i)
      BY <2>1
    <3>3. slot[(head + RingMax - 1 - (limit - i)) % RingMax] = limit - i
      BY <2>1, <2>2, <3>1, BackIs DEF Latest
    <3> QED BY <3>2, <3>3 DEF Entries
  <2> QED BY <2>2, <2>3
<1>3. RingTypeOK /\ RingInv /\ [RingNext]_ringVars => (RingTypeOK /\ RingInv)'
  BY RingTypeStep, RingStep
<1> QED BY <1>1, <1>2, <1>3, PTL DEF RingSpec
=============================================================================
