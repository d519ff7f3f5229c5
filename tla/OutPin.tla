------------------------------- MODULE OutPin -------------------------------
(***************************************************************************)
(* One relay output (src/OutPin.cpp): the commands of the controller, the  *)
(* operator's override and its timeout, and the delayed callback turnOn()  *)
(* arms.  The scheduler's task ("loop") and the web server's task ("web")  *)
(* call the same object without a lock; every access to shared state is a  *)
(* step of its own.  With Serial, a call begins only when no other call is *)
(* in progress, which is what the rest of the firmware relies on.          *)
(***************************************************************************)
EXTENDS Integers

CONSTANTS
    Serial,    \* calls of the two tasks do not overlap
    Duration,  \* durationMs of an override, in ticks
    Poll,      \* ticks between two calls of checkOverride()
    Word,      \* the number of values of millis()
    Horizon    \* bound on the ticks that elapse

ASSUME SerialAssumption == Serial \in BOOLEAN
ASSUME TimeAssumption ==
    Duration \in Nat /\ Poll \in Nat \ {0} /\ Word \in Nat \ {0} /\ Horizon \in Nat

Thread == {"loop", "web"}
Step == {"idle", "setEnd", "force", "clearEnd", "readPercent", "write", "drive", "arm"}

VARIABLES
    soft,      \* _percentOn > 0
    hw,        \* the relay is energised
    override,  \* _override
    forced,    \* _overrideState
    endTime,   \* _overrideEndTime
    armed,     \* _tsk is enabled
    pc,        \* the next step of each thread's call
    arg,       \* the state each thread's call is about to drive
    elapsed,   \* ticks since boot
    sincePoll, \* ticks since checkOverride() last ran
    age        \* history: ticks since the override in force was last set

vars == <<soft, hw, override, forced, endTime, armed, pc, arg, elapsed, sincePoll, age>>
clocks == <<elapsed, sincePoll>>

Millis == elapsed % Word

Idle == \A t \in Thread : pc[t] = "idle"
MayCall(t) == pc[t] = "idle" /\ (Serial => Idle)
Goto(t, step) == pc' = [pc EXCEPT ![t] = step]

Init ==
    /\ soft = FALSE /\ hw = FALSE                     \* initPin()
    /\ override = FALSE /\ forced = FALSE /\ endTime = 0
    /\ armed = FALSE
    /\ pc = [t \in Thread |-> "idle"] /\ arg = [t \in Thread |-> FALSE]
    /\ elapsed = 0 /\ sincePoll = 0 /\ age = 0

-----------------------------------------------------------------------------
(* turnOn() from the controller, turnOff() from the controller or from     *)
(* setMode(OFF) on the web task.                                           *)

TurnTo(t, state) ==
    /\ MayCall(t) /\ (state => t = "loop")
    /\ IF override THEN UNCHANGED <<soft, arg, pc>>
       ELSE /\ soft' = state
            /\ arg' = [arg EXCEPT ![t] = state]
            /\ Goto(t, "arm")
    /\ UNCHANGED <<hw, override, forced, endTime, armed, clocks, age>>

Arm(t) ==
    /\ pc[t] = "arm"
    /\ armed' = arg[t]
    /\ Goto(t, "drive")
    /\ UNCHANGED <<soft, hw, override, forced, endTime, arg, clocks, age>>

-----------------------------------------------------------------------------
(* turnOnPercent(_percentOn), from the armed callback and from the end of  *)
(* an override.                                                            *)

Callback ==
    /\ armed /\ MayCall("loop")
    /\ armed' = FALSE
    /\ Goto("loop", "readPercent")
    /\ UNCHANGED <<soft, hw, override, forced, endTime, arg, clocks, age>>

\* Mutant: the callback also drives an overridden pin.
ReadPercent_Always(t) ==
    /\ pc[t] = "readPercent"
    /\ arg' = [arg EXCEPT ![t] = soft]
    /\ Goto(t, "write")
    /\ UNCHANGED <<soft, hw, override, forced, endTime, armed, clocks, age>>

ReadPercent(t) ==
    /\ pc[t] = "readPercent"
    /\ arg' = [arg EXCEPT ![t] = soft]
    /\ Goto(t, IF override THEN "idle" ELSE "write")
    /\ UNCHANGED <<soft, hw, override, forced, endTime, armed, clocks, age>>

Write(t) ==
    /\ pc[t] = "write"
    /\ soft' = arg[t]
    /\ Goto(t, "drive")
    /\ UNCHANGED <<hw, override, forced, endTime, armed, arg, clocks, age>>

Drive(t) ==
    /\ pc[t] = "drive"
    /\ hw' = arg[t]
    /\ Goto(t, "idle")
    /\ UNCHANGED <<soft, override, forced, endTime, armed, arg, clocks, age>>

-----------------------------------------------------------------------------
(* setOverride(): the flag is published before the end time and the pin.   *)

SetOverride(t, on, state) ==
    /\ override' = on /\ forced' = state
    /\ age' = 0
    /\ Goto(t, IF on THEN "setEnd" ELSE "clearEnd")
    /\ UNCHANGED <<soft, hw, endTime, armed, arg, elapsed>>

\* Mutant: an override that is set again keeps its first end time.
SetEnd_KeepFirst(t) ==
    /\ pc[t] = "setEnd"
    /\ endTime' = IF endTime = 0 THEN (Millis + Duration) % Word ELSE endTime
    /\ Goto(t, "force")
    /\ UNCHANGED <<soft, hw, override, forced, armed, arg, clocks, age>>

SetEnd(t) ==
    /\ pc[t] = "setEnd"
    /\ endTime' = (Millis + Duration) % Word
    /\ Goto(t, "force")
    /\ UNCHANGED <<soft, hw, override, forced, armed, arg, clocks, age>>

DriveForced(t) ==
    /\ pc[t] = "force"
    /\ hw' = forced
    /\ Goto(t, "idle")
    /\ UNCHANGED <<soft, override, forced, endTime, armed, arg, clocks, age>>

ClearEnd(t) ==
    /\ pc[t] = "clearEnd"
    /\ endTime' = 0
    /\ Goto(t, "readPercent")
    /\ UNCHANGED <<soft, hw, override, forced, armed, arg, clocks, age>>

\* POST /api/pin/override
Request(on, state) ==
    /\ MayCall("web") /\ SetOverride("web", on, state)
    /\ UNCHANGED sincePoll

\* checkOverride(), every five seconds on the scheduler
\* Mutant: the timeout is noticed one poll late.
Expired_OnePollLate == Millis > endTime + Poll
Expired == Millis > endTime

CheckOverride ==
    /\ MayCall("loop") /\ sincePoll = Poll
    /\ sincePoll' = 0
    /\ IF override /\ Expired
       THEN SetOverride("loop", FALSE, FALSE)
       ELSE UNCHANGED <<soft, hw, override, forced, endTime, armed, pc, arg, elapsed, age>>

\* A tick is long against a call; the armed callback has no delay.
Tick ==
    /\ Idle /\ ~armed /\ elapsed < Horizon /\ sincePoll < Poll
    /\ elapsed' = elapsed + 1 /\ sincePoll' = sincePoll + 1
    /\ age' = IF override THEN age + 1 ELSE age
    /\ UNCHANGED <<soft, hw, override, forced, endTime, armed, pc, arg>>

Next ==
    \/ \E t \in Thread :
          \/ \E state \in BOOLEAN : TurnTo(t, state)
          \/ Arm(t) \/ ReadPercent(t) \/ Write(t) \/ Drive(t)
          \/ SetEnd(t) \/ DriveForced(t) \/ ClearEnd(t)
    \/ \E on, state \in BOOLEAN : Request(on, state)
    \/ Callback \/ CheckOverride \/ Tick

Spec == Init /\ [][Next]_vars

-----------------------------------------------------------------------------
(* Properties.                                                             *)

TypeOK ==
    /\ soft \in BOOLEAN /\ hw \in BOOLEAN /\ override \in BOOLEAN /\ forced \in BOOLEAN
    /\ armed \in BOOLEAN
    /\ pc \in [Thread -> Step] /\ arg \in [Thread -> BOOLEAN]
    /\ endTime \in 0..Word - 1 /\ elapsed \in Nat /\ sincePoll \in 0..Poll /\ age \in Nat

\* "Force the hardware state", "Revert to software state" (OutPin.cpp:271,
\* 279): between calls the relay shows the override in force, or else the
\* state last commanded, whatever callbacks and timeouts came in between.
PinShowsIntent == Idle => hw = IF override THEN forced ELSE soft

\* checkOverride() ends an override only after its whole duration, counted
\* from the last time the operator set it.
OverrideLastsItsDuration == [][CheckOverride /\ override /\ ~override' => age > Duration]_vars

\* An override is over at the latest one poll after its duration.
OverrideEnds == Idle /\ override => age <= Duration + Poll
=============================================================================
