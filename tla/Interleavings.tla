---------------------------- MODULE Interleavings ----------------------------
(***************************************************************************)
(* What the controller's scheduler shares with another task or with an     *)
(* interrupt: an output, an input, the relays of update() and setMode(),   *)
(* and the MQTT temperature.  The models share no state and no step of one *)
(* enables a step of another, so every behaviour moves one of them only    *)
(* and the others stay in one of their initial states.                     *)
(***************************************************************************)
EXTENDS OutPin, InputPin, ThermostatTasks, TemperatureAge

VARIABLE part   \* the meeting that is looked at

meetingVars == <<vars, inputVars, tasksVars, tempVars, part>>

MeetingInit ==
    /\ Init /\ InputInit /\ TasksInit /\ TempInit
    /\ \/ part \in {"output", "input"} /\ off /\ mode = "OFF"
       \/ part = "mode" /\ off
       \/ part = "temperature" /\ mode = "OFF"

MeetingNext ==
    /\ UNCHANGED part
    /\ \/ part = "output" /\ Next /\ UNCHANGED <<inputVars, tasksVars, tempVars>>
       \/ part = "input" /\ InputNext /\ UNCHANGED <<vars, tasksVars, tempVars>>
       \/ part = "mode" /\ TasksNext /\ UNCHANGED <<vars, inputVars, tempVars>>
       \/ part = "temperature" /\ TempNext /\ UNCHANGED <<vars, inputVars, tasksVars>>

MeetingSpec == MeetingInit /\ [][MeetingNext]_meetingVars
=============================================================================
