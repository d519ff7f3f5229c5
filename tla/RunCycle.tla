------------------------------ MODULE RunCycle ------------------------------
(***************************************************************************)
(* What the controller promises of the plant, without relays, levels or    *)
(* temperatures: a heating or cooling run lasts at most MaxRun + 1 ticks,  *)
(* and no run begins before the system has rested MinOff ticks.            *)
(***************************************************************************)
EXTENDS Integers

CONSTANTS MinOff, MaxRun

VARIABLES
    run,        \* the run in progress: "heat", "cool" or "none"
    ranFor,     \* ticks since the run began
    restedFor   \* ticks since the last run ended, counted up to MinOff

vars == <<run, ranFor, restedFor>>

Init == run = "none" /\ ranFor = 0 /\ restedFor = 0

Begin(kind) ==
    /\ run = "none" /\ restedFor >= MinOff
    /\ run' = kind /\ ranFor' = 0 /\ restedFor' = 0

End ==
    /\ run # "none"
    /\ run' = "none" /\ ranFor' = 0 /\ restedFor' = 0

RunOn ==
    /\ run # "none" /\ ranFor <= MaxRun
    /\ ranFor' = ranFor + 1 /\ UNCHANGED <<run, restedFor>>

Rest ==
    /\ run = "none" /\ restedFor < MinOff
    /\ restedFor' = restedFor + 1 /\ UNCHANGED <<run, ranFor>>

Next == Begin("heat") \/ Begin("cool") \/ End \/ RunOn \/ Rest

Spec == Init /\ [][Next]_vars
=============================================================================
