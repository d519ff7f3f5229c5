--------------------------- MODULE ThermostatTasks ---------------------------
(***************************************************************************)
(* update() on the scheduler and setMode() on the web server's task, with  *)
(* every relay command a step of its own: there is no lock between them.   *)
(* What update() decides is abstracted to the outcomes Thermostat.tla      *)
(* derives; what matters here is what each outcome writes and in which     *)
(* order: starting a run writes the action before the relays, ending one   *)
(* after them.                                                             *)
(***************************************************************************)
EXTENDS Relays, Integers

CONSTANTS
    Modes    \* the modes a handler may ask for

ASSUME TasksAssumption == Modes \subseteq Mode

VARIABLES
    mode,    \* _mode
    action,  \* _action
    on,      \* the outputs commanded on
    loop,    \* the step of update(): "idle", "decide", "off", "on" or "end"
    plan,    \* the relays update() turns on, and the action it ends with
    loopOff, \* the outputs update()'s allRelaysOff() has still to turn off
    web,     \* the step of setMode(): "idle", "off" or "end"
    webOff,  \* the outputs setMode()'s allRelaysOff() has still to turn off
    overlap  \* history: a call began inside one of the other task

tasksVars == <<mode, action, on, loop, plan, loopOff, web, webOff, overlap>>
\* Outputs are commanded in the order of OutputIdx.
Index(p) ==
    CASE p = "FAN1" -> 0 [] p = "REV" -> 1 [] p = "FURN_COOL_LOW" -> 2
      [] p = "FURN_COOL_HIGH" -> 3 [] p = "W1" -> 4 [] p = "W2" -> 5
      [] p = "COMP1" -> 6 [] p = "COMP2" -> 7
IsFirst(p, outputs) == p \in outputs /\ \A q \in outputs : Index(p) <= Index(q)

loopVars == <<loop, plan, loopOff>>
webVars == <<web, webOff>>

TasksIdle == loop = "idle" /\ web = "idle"

TasksInit ==
    /\ mode \in Modes
    /\ action = IF mode = "OFF" THEN "OFF" ELSE "IDLE"
    /\ on = {}
    /\ loop = "idle" /\ plan = [relays |-> {}, then |-> "IDLE"] /\ loopOff = {}
    /\ web = "idle" /\ webOff = {}
    /\ overlap = FALSE

-----------------------------------------------------------------------------
(* update()                                                                *)

\* "if (_mode == OFF) return"
Enter ==
    /\ loop = "idle" /\ mode # "OFF" /\ loop' = "decide"
    /\ overlap' = (overlap \/ web # "idle")
    /\ UNCHANGED <<mode, action, on, plan, loopOff, webVars>>

\* Mutant: the relays are turned on without allRelaysOff().
Program_NoOff(relays, first, last) ==
    /\ action' = first
    /\ plan' = [relays |-> relays, then |-> last]
    /\ loopOff' = {} /\ loop' = "off"

\* allRelaysOff(), then `relays' one by one, then the action.
Program(relays, first, last) ==
    /\ action' = first
    /\ plan' = [relays |-> relays, then |-> last]
    /\ loopOff' = Output /\ loop' = "off"

\* A run begins; the switch reads the mode a second time.
Start ==
    \/ /\ mode \in {"HEAT", "HEAT_COOL"} /\ action \in {"IDLE", "FAN_RUNNING"}
       /\ \E level \in {"HP_LOW", "FURNACE_LOW"} :
             Program(HeatRelays(level), "HEATING", "HEATING")
    \/ /\ mode \in {"COOL", "HEAT_COOL"} /\ action \in {"IDLE", "FAN_RUNNING"}
       /\ Program(CoolRelays("COOL"), "COOLING", "COOLING")
    \/ /\ mode = "FAN_ONLY" /\ action # "FAN_RUNNING"
       /\ Program({"FAN1"}, "FAN_RUNNING", "FAN_RUNNING")

\* Escalation, the switch to the furnace, both ends of a defrost
ChangeLevel ==
    \/ /\ action = "HEATING"
       /\ \E level \in HeatLevel \ {"IDLE"} : Program(HeatRelays(level), action, action)
    \/ action = "COOLING" /\ Program(CoolRelays("COOL_SUPP"), action, action)

\* The target temperature, the maximum run time, the end of a defrost that
\* has no level to return to
Stop == Program({}, action, "IDLE")

\* updateFanIdle() leaves every relay but the fan alone.
FanCycle ==
    /\ mode \notin {"OFF", "FAN_ONLY"} /\ action \in {"IDLE", "FAN_RUNNING"}
    /\ loopOff' = {}
    /\ \/ /\ on' = on \cup {"FAN1"} /\ action' = action
          /\ plan' = [relays |-> {}, then |-> "FAN_RUNNING"]
       \/ /\ on' = on \ {"FAN1"} /\ action' = action
          /\ plan' = [relays |-> {}, then |-> "IDLE"]
    /\ loop' = "end"

Decide ==
    /\ loop = "decide"
    /\ \/ (Start \/ ChangeLevel \/ Stop) /\ UNCHANGED on
       \/ FanCycle
       \/ loop' = "idle" /\ UNCHANGED <<action, on, plan, loopOff>>
    /\ UNCHANGED <<mode, webVars, overlap>>

LoopOff ==
    /\ loop = "off"
    /\ IF loopOff = {} THEN loop' = "on" /\ UNCHANGED <<on, loopOff>>
       ELSE \E p \in Output :
               /\ IsFirst(p, loopOff)
               /\ on' = on \ {p} /\ loopOff' = loopOff \ {p}
               /\ UNCHANGED loop
    /\ UNCHANGED <<mode, action, plan, webVars, overlap>>

LoopOn ==
    /\ loop = "on"
    /\ IF plan.relays = {} THEN loop' = "end" /\ UNCHANGED <<on, plan>>
       ELSE \E p \in Output :
               /\ IsFirst(p, plan.relays)
               /\ on' = on \cup {p}
               /\ plan' = [plan EXCEPT !.relays = plan.relays \ {p}]
               /\ UNCHANGED loop
    /\ UNCHANGED <<mode, action, loopOff, webVars, overlap>>

\* The defrost, the escalation and the switch to the furnace may follow one
\* another in a single update().
LoopEnd ==
    /\ loop = "end"
    /\ action' = IF plan.then \in {"IDLE", "FAN_RUNNING"} THEN plan.then ELSE action
    /\ loop' \in {"idle", "decide"}
    /\ UNCHANGED <<mode, on, plan, loopOff, webVars, overlap>>

-----------------------------------------------------------------------------
(* setMode() from the web or MQTT task                                     *)

\* Mutant: OFF is set without allRelaysOff().
SetMode_NoOff(m) ==
    /\ web = "idle" /\ m # mode /\ mode' = m
    /\ overlap' = (overlap \/ loop # "idle")
    /\ IF m = "OFF" THEN web' = "end" /\ UNCHANGED action
       ELSE web' = "idle" /\ action' = "IDLE"
    /\ UNCHANGED <<on, loopVars, webOff>>

SetMode(m) ==
    /\ web = "idle" /\ m # mode /\ mode' = m
    /\ overlap' = (overlap \/ loop # "idle")
    /\ IF m = "OFF" THEN web' = "off" /\ webOff' = Output /\ UNCHANGED action
       ELSE web' = "idle" /\ action' = "IDLE" /\ UNCHANGED webOff
    /\ UNCHANGED <<on, loopVars>>

WebOff ==
    /\ web = "off"
    /\ IF webOff = {} THEN web' = "end" /\ UNCHANGED <<on, webOff>>
       ELSE \E p \in Output :
               /\ IsFirst(p, webOff)
               /\ on' = on \ {p} /\ webOff' = webOff \ {p}
               /\ UNCHANGED web
    /\ UNCHANGED <<mode, action, loopVars, overlap>>

WebEnd ==
    /\ web = "end"
    /\ action' = "OFF" /\ web' = "idle"
    /\ UNCHANGED <<mode, on, loopVars, webOff, overlap>>

TasksNext ==
    \/ Enter \/ Decide \/ LoopOff \/ LoopOn \/ LoopEnd
    \/ \E m \in Modes : SetMode(m)
    \/ WebOff \/ WebEnd

TasksSpec == TasksInit /\ [][TasksNext]_tasksVars

-----------------------------------------------------------------------------
(* Properties.                                                             *)

TasksTypeOK ==
    /\ mode \in Mode /\ action \in Action /\ on \subseteq Output
    /\ loop \in {"idle", "decide", "off", "on", "end"}
    /\ plan \in [relays: SUBSET Output, then: Action] /\ loopOff \subseteq Output
    /\ web \in {"idle", "off", "end"} /\ webOff \subseteq Output
    /\ overlap \in BOOLEAN

\* Whatever the interleaving of update() and setMode(), and even between two
\* relay commands, the reversing valve is never set for cooling while the
\* furnace fires.
RaceNeverMixesHeatAndCool == "REV" \in on => {"W1", "W2"} \cap on = {}

\* "Set thermostat mode (off/heat/...)" (README.md:97): once the calls are
\* over, mode OFF has its relays off and its action OFF.
OffStaysOff == TasksIdle /\ mode = "OFF" => on = {} /\ action = "OFF"

\* As long as no two calls overlapped, OFF is off.
SerialOffStaysOff == ~overlap => OffStaysOff
=============================================================================
