------------------------------- MODULE Storage -------------------------------
(***************************************************************************)
(* The configuration file, the copies of one setting, the firmware files,  *)
(* the log files, all on one file system, and the log's ring in memory.    *)
(* Each module carries its share of formatFS(); no module enables or       *)
(* changes a step of another, so every behaviour moves one of them only    *)
(* and the others stay in one of their initial states.                     *)
(***************************************************************************)
EXTENDS ConfigStore, Settings, Ota, LogFiles, LogRing, TLC

VARIABLE part   \* what moves

storageVars == <<cfgVars, setVars, otaVars, logVars, ringVars, part>>

CfgRests == file.creds = CHOOSE c \in Credentials : TRUE
SetRests == kind = "name" /\ live = CHOOSE v \in Values : TRUE

StorageInit ==
    /\ CfgInit /\ SetInit /\ OtaInit /\ LogInit /\ RingInit
    /\ part \in {"configuration", "setting", "firmware", "log", "ring"}
    /\ part # "configuration" => CfgRests
    /\ part # "setting" => SetRests
    /\ part # "log" => keep = Depth

StorageNext ==
    /\ UNCHANGED part
    /\ \/ part = "configuration" /\ CfgNext /\ UNCHANGED <<setVars, otaVars, logVars, ringVars>>
       \/ part = "setting" /\ SetNext /\ UNCHANGED <<cfgVars, otaVars, logVars, ringVars>>
       \/ part = "firmware" /\ OtaNext /\ UNCHANGED <<cfgVars, setVars, logVars, ringVars>>
       \/ part = "log" /\ LogNext /\ UNCHANGED <<cfgVars, setVars, otaVars, ringVars>>
       \/ part = "ring" /\ RingNext /\ UNCHANGED <<cfgVars, setVars, otaVars, logVars>>

StorageSpec == StorageInit /\ [][StorageNext]_storageVars

\* Builds are told apart and never compared otherwise.
BuildSymmetry == Permutations(Builds)
=============================================================================
