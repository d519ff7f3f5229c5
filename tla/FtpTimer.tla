------------------------------ MODULE FtpTimer ------------------------------
(***************************************************************************)
(* The FTP server's time window (src/main.cpp): the web task opens and     *)
(* closes it, loop() closes it when its time is over, and neither locks    *)
(* the two variables they share.  After a boot the server is always on.    *)
(* A duration is a number of ticks, the product with 60000 does not        *)
(* overflow.                                                               *)
(***************************************************************************)
EXTENDS Integers

CONSTANTS
    Longest,    \* the longest duration a request asks for, in ticks
    ClockWords  \* the number of values of millis()

ASSUME FtpAssumption == Longest \in Nat \ {0} /\ ClockWords \in Nat /\ Longest < ClockWords

Forever == Longest + 1

VARIABLES
    ftpActive, ftpStopTime, \* the shared variables; 0: no end
    millis,   \* millis()
    web,      \* the web task: "idle", or inside a callback "enable" or "disable"
    duration, \* the argument of the enable callback
    loop,     \* loop(): "test", or after a test that said so "end" or "clear"
    due,      \* loop() has not come round since the last tick
    left,     \* history: the ticks left of what was last asked for
    mixed,    \* history: the two met since the last request began
    crossed   \* history: millis() wraps before the end that was last set

ftpVars == <<ftpActive, ftpStopTime, millis, web, duration, loop, due, left, mixed, crossed>>

\* setup(): "no timeout - always on"
FtpBoot ==
    /\ ftpActive' = TRUE /\ ftpStopTime' = 0 /\ millis' = 0
    /\ web' = "idle" /\ duration' = 0 /\ loop' = "test" /\ due' = FALSE
    /\ left' = Forever /\ mixed' = FALSE /\ crossed' = FALSE

FtpInit ==
    /\ ftpActive = TRUE /\ ftpStopTime = 0 /\ millis = 0
    /\ web = "idle" /\ duration = 0 /\ loop = "test" /\ due = FALSE
    /\ left = Forever /\ mixed = FALSE /\ crossed = FALSE

-----------------------------------------------------------------------------
(* POST /ftp, on the web task                                              *)

Request(ticks) == left' = ticks /\ mixed' = (loop # "test") /\ UNCHANGED <<millis, loop, due>>

FtpEnable(ticks) ==
    /\ web = "idle" /\ web' = "enable"
    /\ duration' = ticks
    /\ ftpActive' = TRUE
    /\ Request(ticks)
    /\ UNCHANGED <<ftpStopTime, crossed>>

SetStopTime ==
    /\ web = "enable" /\ web' = "idle"
    /\ ftpStopTime' = (millis + duration) % ClockWords
    /\ crossed' = (millis + duration >= ClockWords)
    /\ UNCHANGED <<ftpActive, millis, duration, loop, due, left, mixed>>

\* A duration of zero or less; nothing happens when the server is off.
FtpDisable ==
    /\ web = "idle"
    /\ web' = IF ftpActive THEN "disable" ELSE "idle"
    /\ ftpActive' = FALSE
    /\ Request(0) /\ crossed' = FALSE
    /\ UNCHANGED <<ftpStopTime, duration>>

ClearStopTime ==
    /\ web = "disable" /\ web' = "idle"
    /\ ftpStopTime' = 0
    /\ UNCHANGED <<ftpActive, millis, duration, loop, due, left, mixed, crossed>>

-----------------------------------------------------------------------------
(* The head of loop()                                                      *)

\* Mutant: the end is passed and not reached.
TimeIsUp_Passed == ftpActive /\ ftpStopTime > 0 /\ millis > ftpStopTime

TimeIsUp == ftpActive /\ ftpStopTime > 0 /\ millis >= ftpStopTime

FtpTest ==
    /\ loop = "test"
    /\ loop' = IF TimeIsUp THEN "end" ELSE "test"
    /\ due' = FALSE /\ mixed' = (mixed \/ web # "idle")
    /\ UNCHANGED <<ftpActive, ftpStopTime, millis, web, duration, left, crossed>>

FtpEnd ==
    /\ loop = "end" /\ loop' = "clear"
    /\ ftpActive' = FALSE
    /\ UNCHANGED <<ftpStopTime, millis, web, duration, due, left, mixed, crossed>>

FtpClear ==
    /\ loop = "clear" /\ loop' = "test"
    /\ ftpStopTime' = 0
    /\ UNCHANGED <<ftpActive, millis, web, duration, due, left, mixed, crossed>>

\* loop() and the callbacks take less than a tick.
FtpTick ==
    /\ ~due /\ loop = "test" /\ web = "idle"
    /\ millis' = (millis + 1) % ClockWords /\ due' = TRUE
    /\ left' = IF left \in 1..Longest THEN left - 1 ELSE left
    /\ UNCHANGED <<ftpActive, ftpStopTime, web, duration, loop, mixed, crossed>>

FtpNext ==
    \/ \E ticks \in 1..Longest : FtpEnable(ticks)
    \/ SetStopTime \/ FtpDisable \/ ClearStopTime
    \/ FtpTest \/ FtpEnd \/ FtpClear
    \/ FtpTick \/ FtpBoot

FtpSpec == FtpInit /\ [][FtpNext]_ftpVars

-----------------------------------------------------------------------------
(* Properties.                                                             *)

FtpTypeOK ==
    /\ ftpActive \in BOOLEAN /\ ftpStopTime \in 0..ClockWords - 1 /\ millis \in 0..ClockWords - 1
    /\ web \in {"idle", "enable", "disable"} /\ duration \in 0..Longest
    /\ loop \in {"test", "end", "clear"} /\ due \in BOOLEAN
    /\ left \in 0..Forever /\ mixed \in BOOLEAN /\ crossed \in BOOLEAN

Settled == web = "idle" /\ loop = "test" /\ ~due

\* "FTP auto-timeout" (main.cpp:727): once loop() has come round the server is
\* on exactly until the end of what was last asked for, after any sequence of
\* requests and ends, unless a request met the end of an earlier one or
\* millis() wraps before the end.
FtpWindow == Settled /\ ~mixed /\ ~crossed => (ftpActive <=> left # 0)

\* The same when they meet.  The code breaks it: loop() clears the end that a
\* request has just set, and the server stays on.
FtpTimesOut == Settled /\ ~crossed /\ left = 0 => ~ftpActive

\* The same across a wrap.  The code breaks it: the end is an absolute time,
\* smaller than millis() until the wrap, and the server goes off at once.
FtpLasts == Settled /\ ~mixed /\ left # 0 => ftpActive
=============================================================================
