--------------------------------- MODULE Ota ---------------------------------
(***************************************************************************)
(* Firmware upload, apply, backup and revert (src/OtaUtils.cpp and the     *)
(* handlers of src/WebHandler.cpp and src/HttpsServer.cpp).  HTTP applies  *)
(* on the scheduler ("loop") and reverts on the web server's task          *)
(* ("async"); HTTPS does both on its own ("httpd").                        *)
(*                                                                         *)
(* External: a LittleFS file keeps its old content until the writer closes *)
(* it; the Update object serves one update at a time, writes the partition *)
(* that is not running and accepts an image only if it verifies; the boot  *)
(* loader falls back to the running partition.                             *)
(***************************************************************************)
EXTENDS Integers

CONSTANT Builds   \* the builds an operator may upload

Thread == {"loop", "async", "httpd"}
Image == [build: Builds, whole: BOOLEAN]
None == [build |-> "none", whole |-> FALSE]
Whole(b) == [build |-> b, whole |-> TRUE]
Part(b) == [build |-> b, whole |-> FALSE]

VARIABLES
    running,     \* the image in the running partition
    other,       \* the image in the other partition
    bootOther,   \* the other partition is to boot
    newFile,     \* /firmware.new
    bakFile,     \* /firmware.bak
    handle,      \* the build _otaFile is writing, or "none"
    otaUploadOk, \* _otaUploadOk
    updating,    \* the Update object is busy
    step,        \* the step of each thread's call
    image,       \* the image each thread's call has opened or receives
    previous,    \* history: the build that ran before this one
    skipped      \* history: the last backup was cut off or left an older one behind

otaVars == <<running, other, bootOther, newFile, bakFile, handle, otaUploadOk,
             updating, step, image, previous, skipped>>
partitions == <<running, other, bootOther>>
uploads == <<handle, otaUploadOk>>

Steps == {"idle", "backup", "copy", "new", "bak", "writeNew", "writeBak", "remove", "receive"}
Goto(t, s) == step' = [step EXCEPT ![t] = s]
Opened(t, i) == image' = [image EXCEPT ![t] = i]

OtaInit ==
    /\ running \in {Whole(b) : b \in Builds} /\ other = None /\ bootOther = FALSE
    /\ newFile = None /\ bakFile = None
    /\ handle = "none" /\ otaUploadOk = FALSE /\ updating = FALSE
    /\ step = [t \in Thread |-> "idle"] /\ image = [t \in Thread |-> None]
    /\ previous = running.build
    /\ skipped = FALSE

-----------------------------------------------------------------------------
(* Uploads                                                                 *)

\* The first chunk over HTTP.  Assigning _otaFile closes the file of an upload
\* that was cut off, and so keeps the part of it that had arrived.
HttpUploadBegin(b, opens) ==
    /\ handle' = IF opens THEN b ELSE "none"
    /\ otaUploadOk' = opens
    /\ newFile' = CASE handle # "none" -> Part(handle)
                    [] handle = "none" /\ opens /\ newFile = None -> Part(b)
                    [] OTHER -> newFile
    /\ UNCHANGED <<partitions, bakFile, updating, step, image, previous, skipped>>

\* A chunk cannot be written; the last chunk removes the file, if it arrives.
HttpUploadFail(arrives) ==
    /\ handle # "none"
    /\ handle' = "none" /\ otaUploadOk' = FALSE
    /\ newFile' = IF arrives THEN None ELSE Part(handle)
    /\ UNCHANGED <<partitions, bakFile, updating, step, image, previous, skipped>>

HttpUploadEnd ==
    /\ handle # "none"
    /\ handle' = "none" /\ newFile' = Whole(handle)
    /\ UNCHANGED <<partitions, bakFile, otaUploadOk, updating, step, image, previous, skipped>>

HttpsUploadBegin(b) ==
    /\ step["httpd"] = "idle"
    /\ newFile' = IF newFile = None THEN Part(b) ELSE newFile
    /\ Goto("httpd", "receive") /\ Opened("httpd", Whole(b))
    /\ UNCHANGED <<partitions, bakFile, uploads, updating, previous, skipped>>

HttpsUploadEnd(ok) ==
    /\ step["httpd"] = "receive"
    /\ newFile' = IF ok THEN image["httpd"] ELSE None
    /\ Goto("httpd", "idle") /\ Opened("httpd", None)
    /\ UNCHANGED <<partitions, bakFile, uploads, updating, previous, skipped>>

-----------------------------------------------------------------------------
(* applyFirmwareFromFS() and revertFirmwareFromFS()                        *)

\* POST /update over HTTP trusts the flag of the last upload; POST /apply over
\* HTTPS looks for the file.
StartApply(t) ==
    /\ step[t] = "idle"
    /\ \/ t = "loop" /\ otaUploadOk
       \/ t = "httpd" /\ newFile # None
    /\ Goto(t, "backup")
    /\ UNCHANGED <<partitions, newFile, bakFile, uploads, updating, image, previous, skipped>>

StartRevert(t) ==
    /\ step[t] = "idle" /\ t \in {"async", "httpd"}
    /\ bakFile # None
    /\ Goto(t, "bak")
    /\ UNCHANGED <<partitions, newFile, bakFile, uploads, updating, image, previous, skipped>>

\* backupFirmwareToFS() opens the file, which creates an empty one if there was
\* none, or fails; its caller goes on all the same.
BackupBegin(t) ==
    /\ step[t] = "backup"
    /\ \/ /\ Goto(t, "copy") /\ UNCHANGED skipped
          /\ bakFile' = IF bakFile = None THEN Part(running.build) ELSE bakFile
       \/ /\ Goto(t, "new") /\ UNCHANGED bakFile
          /\ skipped' = (bakFile # None)
    /\ UNCHANGED <<partitions, newFile, uploads, updating, image, previous>>

\* Mutant: a backup that cannot be completed is not removed.
Copied_KeepPart == {Whole(running.build), Part(running.build)}
Copied == {Whole(running.build), None}

BackupEnd(t) ==
    /\ step[t] = "copy" /\ Goto(t, "new")
    /\ bakFile' \in Copied /\ skipped' = FALSE
    /\ UNCHANGED <<partitions, newFile, uploads, updating, image, previous>>

\* Open the file and begin the update, unless one is under way.
Begin(t, from, source, to) ==
    /\ step[t] = from
    /\ IF source = None \/ updating
       THEN Goto(t, "idle") /\ UNCHANGED <<other, updating, image>>
       ELSE /\ other' = None /\ updating' = TRUE
            /\ Opened(t, source) /\ Goto(t, to)
    /\ UNCHANGED <<running, bootOther, newFile, bakFile, uploads, previous, skipped>>

\* A file too small, or a read or a write that fails, ends the update.
GiveUp(t) ==
    /\ step[t] \in {"writeNew", "writeBak"}
    /\ updating' = FALSE
    /\ Goto(t, "idle") /\ Opened(t, None)
    /\ UNCHANGED <<partitions, newFile, bakFile, uploads, previous, skipped>>

\* What the Update object accepts
Verified(i) == i.whole

\* Update.end()
End(t) ==
    /\ step[t] \in {"writeNew", "writeBak"} /\ Verified(image[t])
    /\ other' = image[t] /\ bootOther' = TRUE /\ updating' = FALSE
    /\ IF step[t] = "writeNew"
       THEN Goto(t, "remove") /\ UNCHANGED image
       ELSE Goto(t, "idle") /\ Opened(t, None)
    /\ UNCHANGED <<running, newFile, bakFile, uploads, previous, skipped>>

Remove(t) ==
    /\ step[t] = "remove"
    /\ newFile' = None
    /\ Goto(t, "idle") /\ Opened(t, None)
    /\ UNCHANGED <<partitions, bakFile, uploads, updating, previous, skipped>>

\* formatFS() takes every file and every open handle with it.
EraseFiles ==
    /\ step["httpd"] = "idle"
    /\ newFile' = None /\ bakFile' = None /\ handle' = "none"
    /\ UNCHANGED <<partitions, otaUploadOk, updating, step, image, previous, skipped>>

Call(t) ==
    \/ StartApply(t) \/ StartRevert(t) \/ BackupBegin(t) \/ BackupEnd(t)
    \/ Begin(t, "new", newFile, "writeNew") \/ Begin(t, "bak", bakFile, "writeBak")
    \/ GiveUp(t) \/ End(t) \/ Remove(t)

-----------------------------------------------------------------------------
(* A restart, a crash or a power cut                                       *)

Boots == bootOther /\ other # None

Reset ==
    /\ IF Boots
       THEN running' = other /\ other' = running /\ previous' = running.build
       ELSE UNCHANGED <<running, other, previous>>
    /\ bootOther' = FALSE
    /\ handle' = "none" /\ otaUploadOk' = FALSE /\ updating' = FALSE
    /\ step' = [t \in Thread |-> "idle"] /\ image' = [t \in Thread |-> None]
    /\ skipped' = (skipped \/ \E t \in Thread : step[t] = "copy")
    /\ UNCHANGED <<newFile, bakFile>>

OtaNext ==
    \/ \E b \in Builds : HttpsUploadBegin(b) \/ \E ok \in BOOLEAN : HttpUploadBegin(b, ok)
    \/ \E ok \in BOOLEAN : HttpUploadFail(ok) \/ HttpsUploadEnd(ok)
    \/ HttpUploadEnd
    \/ EraseFiles
    \/ \E t \in Thread : Call(t)
    \/ Reset

OtaSpec == OtaInit /\ [][OtaNext]_otaVars

-----------------------------------------------------------------------------
(* Properties.                                                             *)

OtaTypeOK ==
    /\ running \in Image /\ {other, newFile, bakFile} \subseteq Image \cup {None}
    /\ bootOther \in BOOLEAN /\ otaUploadOk \in BOOLEAN /\ updating \in BOOLEAN
    /\ handle \in Builds \cup {"none"}
    /\ step \in [Thread -> Steps] /\ image \in [Thread -> Image \cup {None}]
    /\ previous \in Builds
    /\ skipped \in BOOLEAN

\* "Revert to backup firmware" (README.md:109): once no call is writing it, the
\* backup is a whole image of the running build or of the one before, whoever
\* else was applying or reverting, unless the last backup was cut off by a reset
\* or could not open the file.
BackupIsUsable ==
    bakFile # None /\ ~skipped /\ (\A t \in Thread : step[t] # "copy") =>
        bakFile.whole /\ bakFile.build \in {running.build, previous}
=============================================================================
