------------------------------ MODULE LogFiles ------------------------------
(***************************************************************************)
(* The log file and its rotated generations (src/Logger.cpp).  Every task  *)
(* logs, one step per file operation, and a reset may come between any     *)
(* two.  A generation is known by its age: how many came after it.         *)
(* External: LittleFS serves one operation at a time, and a rename may     *)
(* fail, as it does while another task has the file open.                  *)
(***************************************************************************)
EXTENDS Integers

CONSTANTS
    MaxSize,   \* _maxFileSize, in messages
    Keeps,     \* the values of maxOldLogCount an operator may configure
    Depth,     \* the largest of them, at least 1
    MaxAge     \* bound on the age of a generation nobody removes any more

ASSUME LogAssumption ==
    /\ MaxSize \in Nat /\ MaxAge \in Nat
    /\ Depth \in Nat \ {0} /\ Keeps \subseteq 0..Depth

Writer == {"loop", "web"}

VARIABLES
    keep,        \* _maxRotatedFiles
    logSize,     \* the size of the log file, 0 if there is none
    rotated,     \* the age of the generation in each rotated file, 0 if none
    write,       \* the step of each task's writeToFile()
    shift,       \* the i of its rotateLogFiles()'s loop
    rotations,   \* history: rotations since the last that went wrong, up to Depth
    crossed,     \* history: two tasks rotate, or did until one of them was done
    fewer        \* history: the configured number was lowered

logVars == <<keep, logSize, rotated, write, shift, rotations, crossed, fewer>>

Generation == 1..Depth
NoFiles == [i \in Generation |-> 0]

LogInit ==
    /\ keep \in Keeps /\ logSize = 0 /\ rotated = NoFiles
    /\ write = [t \in Writer |-> "idle"] /\ shift = [t \in Writer |-> 0]
    /\ rotations = 0 /\ crossed = FALSE /\ fewer = FALSE

Rotating == {t \in Writer : write[t] \in {"remove", "shift"}}

Operation(t, this, next) == write[t] = this /\ write' = [write EXCEPT ![t] = next]

-----------------------------------------------------------------------------
(* writeToFile()                                                           *)

\* The size is looked at and the file closed again.
LookAtSize(t) ==
    /\ Operation(t, "idle", IF logSize > MaxSize THEN "remove" ELSE "append")
    /\ IF logSize > MaxSize
       THEN crossed' = (Rotating # {}) /\ rotations' = IF crossed' THEN 0 ELSE rotations
       ELSE UNCHANGED <<crossed, rotations>>
    /\ UNCHANGED <<keep, logSize, rotated, shift, fewer>>

AppendMessage(t) ==
    /\ Operation(t, "append", "idle")
    /\ logSize' = IF logSize <= MaxSize THEN logSize + 1 ELSE logSize
    /\ UNCHANGED <<keep, rotated, shift, rotations, crossed, fewer>>

-----------------------------------------------------------------------------
(* rotateLogFiles()                                                        *)

RemoveOldest(t) ==
    /\ Operation(t, "remove", "shift")
    /\ rotated' = [i \in Generation |-> IF i = keep THEN 0 ELSE rotated[i]]
    /\ shift' = [shift EXCEPT ![t] = keep - 1]
    /\ UNCHANGED <<keep, logSize, rotations, crossed, fewer>>

Moved(i) ==
    IF rotated[i] = 0 THEN rotated ELSE [rotated EXCEPT ![i] = 0, ![i + 1] = rotated[i]]

\* Mutant: the files are shifted from the first to the last.
ShiftFile_Upwards(t) ==
    /\ write[t] = "shift" /\ shift[t] >= 1
    /\ rotated' = Moved(keep - shift[t])
    /\ shift' = [shift EXCEPT ![t] = @ - 1]
    /\ UNCHANGED <<keep, logSize, write, rotations, crossed, fewer>>

\* One round of the loop: file i becomes file i + 1.
ShiftFile(t) ==
    /\ write[t] = "shift" /\ shift[t] >= 1
    /\ rotated' = Moved(shift[t])
    /\ shift' = [shift EXCEPT ![t] = @ - 1]
    /\ UNCHANGED <<keep, logSize, write, rotations, crossed, fewer>>

\* The result of rename() is not looked at.
ShiftFails(t) ==
    /\ write[t] = "shift" /\ shift[t] >= 1 /\ rotated[shift[t]] # 0
    /\ shift' = [shift EXCEPT ![t] = @ - 1] /\ rotations' = 0
    /\ UNCHANGED <<keep, logSize, rotated, write, crossed, fewer>>

\* The log becomes file 1, over whatever was there.
RenameLog(t) ==
    /\ Operation(t, "shift", "append") /\ shift[t] < 1 /\ logSize > 0
    /\ \A i \in Generation : rotated[i] < MaxAge
    /\ rotated' = [i \in Generation |->
                   IF i = 1 THEN 1 ELSE IF rotated[i] = 0 THEN 0 ELSE rotated[i] + 1]
    /\ logSize' = 0
    /\ rotations' = IF crossed THEN 0
                    ELSE IF rotations < Depth THEN rotations + 1 ELSE rotations
    /\ UNCHANGED <<keep, shift, crossed, fewer>>

\* "CRITICAL: Failed to rotate": the log goes on growing.
RenameFails(t) ==
    /\ Operation(t, "shift", "append") /\ shift[t] < 1
    /\ rotations' = 0
    /\ UNCHANGED <<keep, logSize, rotated, shift, crossed, fewer>>

-----------------------------------------------------------------------------
(* Resets and formatFS()                                                   *)

\* The files stay; the operator may have configured another number of them.
LogReset ==
    /\ write' = [t \in Writer |-> "idle"] /\ shift' = [t \in Writer |-> 0]
    /\ keep' \in Keeps /\ fewer' = (fewer \/ keep' < keep)
    /\ rotations' = IF Rotating # {} \/ keep' # keep THEN 0 ELSE rotations
    /\ crossed' = FALSE
    /\ UNCHANGED <<logSize, rotated>>

LogErase ==
    /\ logSize' = 0 /\ rotated' = NoFiles /\ rotations' = 0 /\ fewer' = FALSE
    /\ UNCHANGED <<keep, write, shift, crossed>>

LogNext ==
    \/ \E t \in Writer :
           \/ LookAtSize(t) \/ AppendMessage(t) \/ RemoveOldest(t)
           \/ ShiftFile(t) \/ ShiftFails(t) \/ RenameLog(t) \/ RenameFails(t)
    \/ LogReset \/ LogErase

LogSpec == LogInit /\ [][LogNext]_logVars

-----------------------------------------------------------------------------
(* Properties.                                                             *)

LogTypeOK ==
    /\ keep \in Keeps /\ logSize \in 0..MaxSize + 1
    /\ rotated \in [Generation -> 0..MaxAge] /\ shift \in [Writer -> -1..Depth]
    /\ write \in [Writer -> {"idle", "append", "remove", "shift"}]
    /\ rotations \in 0..Depth /\ crossed \in BOOLEAN /\ fewer \in BOOLEAN

Present == {i \in Generation : rotated[i] # 0}
Limit == IF keep = 0 THEN 1 ELSE keep

\* rotateLogFiles() and "maxRotatedFiles" (Logger.h:33): wherever a reset or a
\* failed rename leaves the files, however the configured number changes, and
\* though two tasks rotate at once, a higher number is an older generation.
\* Between rotations file i holds the generation of age i, as far back as the
\* last rotation that went wrong or met another, and no more files are kept
\* than configured (but one for 0), unless the number was lowered.
LatestGenerationsKept ==
    /\ \A i, j \in Present : i < j => rotated[i] < rotated[j]
    /\ Rotating = {} =>
         /\ \A i \in 1..rotations : i <= Limit => rotated[i] = i
         /\ fewer \/ Present \subseteq 1..Limit

\* "Check file size first" (Logger.cpp:222): only a log that has reached its
\* size is rotated.  The code breaks it: of two tasks that found it full, the
\* second rotates the new log and pushes a generation out for it.
OnlyFullLogsRotate ==
    [][\A t \in Writer : RenameLog(t) => logSize > MaxSize]_logVars
=============================================================================
