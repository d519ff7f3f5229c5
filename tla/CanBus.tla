------------------------------- MODULE CanBus -------------------------------
(***************************************************************************)
(* The CAN bus (src/CANBus.cpp and its callbacks in src/main.cpp): the     *)
(* driver, its receive queue, the poll that drains the queue and looks     *)
(* after the driver, and the two tasks that send.  The counters of frames  *)
(* and errors, which nothing reads, are left out; a setpoint frame carries *)
(* one setpoint for its two, bytes are the subject of CanFrames.           *)
(*                                                                         *)
(* External, the TWAI driver of ESP-IDF: it drops a frame when the receive *)
(* queue is full; too many errors take it off the bus ("bus-off"); a       *)
(* recovery that was initiated ends with the driver stopped, and only      *)
(* twai_start() makes it run again.                                        *)
(***************************************************************************)
EXTENDS Integers, Sequences

CONSTANTS
    Setpoints,  \* setpoints a display or another handler may ask for
    ModeBytes,  \* the mode bytes a display may send
    RxMax       \* rx_queue_len

ASSUME CanAssumption ==
    Setpoints # {} /\ ModeBytes \subseteq 0..255 /\ 0 \in ModeBytes /\ RxMax \in Nat \ {0}

VARIABLES
    driver,  \* "absent", "running", "busoff", "recovering" or "stopped"
    rxq,     \* the receive queue
    poll,    \* poll(): "idle", or at its next "receive" or at the "status"
    hand,    \* msg, from its removal from the queue to the end of its callback
    control, \* the thermostat's setpoint and mode
    heard,   \* the last thermostat state that went out on the bus
    wanted,  \* history: the last setpoint and mode asked for by anyone
    raced    \* history: of setpoint and mode, those last chosen by another handler
             \* while an older frame for them had not been obeyed

canVars == <<driver, rxq, poll, hand, control, heard, wanted, raced>>

\* isRunning(): begin() has succeeded, whatever the driver does since.
Running == driver # "absent"

Frame == [id : {"setpoint", "short"}, value : Setpoints]
         \cup [id : {"mode"}, value : ModeBytes]
         \cup [id : {"other"}, value : {0}]
NoFrame == [id |-> "none", value |-> 0]

Control == [setpoint : Setpoints, mode : ModeBytes]

\* What the web may set
Chosen == [setpoint : Setpoints, mode : ModeBytes \cap 0..4]

\* begin(), which may fail
Begin ==
    /\ driver' \in {"absent", "running"} /\ rxq' = <<>> /\ poll' = "idle"
    /\ hand' = NoFrame

CanInit ==
    /\ driver \in {"absent", "running"} /\ rxq = <<>> /\ poll = "idle"
    /\ hand = NoFrame /\ control \in Chosen /\ heard = control /\ wanted = control
    /\ raced = {}

-----------------------------------------------------------------------------
(* Receiving                                                               *)

\* The callback of onReceive().  A setpoint needs four bytes.  The mode byte is
\* cast to the enumeration.  Heartbeats and the heat pump are only logged.
Obey(c, f) ==
    CASE f.id = "setpoint" -> [c EXCEPT !.setpoint = f.value]
      [] f.id = "mode" -> [c EXCEPT !.mode = f.value]
      [] OTHER -> c

\* A node sends a frame: the driver queues it or drops it.
Arrive(f) ==
    /\ driver = "running"
    /\ IF Len(rxq) < RxMax
       THEN /\ rxq' = Append(rxq, f) /\ raced' = raced \ {f.id}
            /\ wanted' = IF f.id \in {"setpoint", "mode"}
                         THEN [wanted EXCEPT ![f.id] = f.value] ELSE wanted
       ELSE UNCHANGED <<rxq, wanted, raced>>
    /\ UNCHANGED <<driver, poll, hand, control, heard>>

\* poll(), every 10 ms on the loop's task
Poll ==
    /\ Running /\ poll = "idle" /\ poll' = "receive"
    /\ UNCHANGED <<driver, rxq, hand, control, heard, wanted, raced>>

\* Mutant: the newest frame first.
Receive_Newest ==
    /\ poll = "receive" /\ hand = NoFrame
    /\ IF rxq = <<>>
       THEN poll' = "status" /\ UNCHANGED <<rxq, hand>>
       ELSE /\ hand' = rxq[Len(rxq)]
            /\ rxq' = SubSeq(rxq, 1, Len(rxq) - 1) /\ UNCHANGED poll
    /\ UNCHANGED <<driver, control, heard, wanted, raced>>

\* A round of its loop takes the oldest frame off the queue ...
Receive ==
    /\ poll = "receive" /\ hand = NoFrame
    /\ IF rxq = <<>>
       THEN poll' = "status" /\ UNCHANGED <<rxq, hand>>
       ELSE hand' = Head(rxq) /\ rxq' = Tail(rxq) /\ UNCHANGED poll
    /\ UNCHANGED <<driver, control, heard, wanted, raced>>

\* ... and the callback obeys it.  Other tasks go on between the two.
Deliver ==
    /\ hand # NoFrame /\ hand' = NoFrame
    /\ control' = Obey(control, hand)
    /\ UNCHANGED <<driver, rxq, poll, heard, wanted, raced>>

\* recoverBus(): twai_initiate_recovery() may refuse, the next poll tries again.
RecoverBus == driver' \in {"recovering", "busoff"}

\* The rest of poll() looks after the driver.
Status ==
    /\ poll = "status" /\ poll' = "idle"
    /\ IF driver = "busoff" THEN RecoverBus ELSE UNCHANGED driver
    /\ UNCHANGED <<rxq, hand, control, heard, wanted, raced>>

-----------------------------------------------------------------------------
(* Sending                                                                 *)

\* send(): only a running driver takes a frame, and it may have no room for it.
Send(state) ==
    \/ driver = "running" /\ heard' = state
    \/ heard' = heard

\* tCanPublish, every 2 s, and the sensors after it; sendHeartbeat() every 5 s
\* uses send() in the same way and is told apart by nobody here.
Publish ==
    /\ Running /\ poll = "idle" /\ Send(control)
    /\ UNCHANGED <<driver, rxq, poll, hand, control, wanted, raced>>

-----------------------------------------------------------------------------
(* Other handlers, the bus, resets                                         *)

\* A frame for the field waits in the queue or for its callback.
Pending(field) == hand.id = field \/ \E i \in 1..Len(rxq) : rxq[i].id = field

\* The setters called by the web, on its own task: each request sets one field.
Choose(field, v) ==
    /\ control' = [control EXCEPT ![field] = v]
    /\ wanted' = [wanted EXCEPT ![field] = v]
    /\ raced' = IF Pending(field) THEN raced \cup {field} ELSE raced \ {field}
    /\ UNCHANGED <<driver, rxq, poll, hand, heard>>

BusOff ==
    /\ driver = "running" /\ driver' = "busoff"
    /\ UNCHANGED <<rxq, poll, hand, control, heard, wanted, raced>>

RecoveryDone ==
    /\ driver = "recovering" /\ driver' = "stopped"
    /\ UNCHANGED <<rxq, poll, hand, control, heard, wanted, raced>>

\* Setpoint and mode are read from the file, which may have an unchecked mode if
\* it was in use; what was in the queue is lost.
CanReset ==
    /\ Begin
    /\ control' \in Chosen \cup {[control EXCEPT !.setpoint = v] : v \in Setpoints}
    /\ wanted' = control'
    /\ heard' = heard /\ raced' = {}

CanNext ==
    \/ \E f \in Frame : Arrive(f)
    \/ \E v \in Setpoints : Choose("setpoint", v)
    \/ \E v \in ModeBytes \cap 0..4 : Choose("mode", v)
    \/ Poll \/ Receive \/ Deliver \/ Status \/ Publish \/ BusOff \/ RecoveryDone \/ CanReset

CanSpec == CanInit /\ [][CanNext]_canVars

\* The tasks run, the driver does not refuse a recovery for ever, and it
\* finishes what it was asked for.
CanFairSpec ==
    /\ CanSpec /\ WF_canVars(Poll) /\ WF_canVars(Receive) /\ WF_canVars(Deliver)
    /\ WF_canVars(Status) /\ SF_canVars(Status /\ driver' = "recovering") /\ WF_canVars(RecoveryDone)

-----------------------------------------------------------------------------
(* Properties.                                                             *)

CanTypeOK ==
    /\ driver \in {"absent", "running", "busoff", "recovering", "stopped"}
    /\ rxq \in Seq(Frame) /\ Len(rxq) <= RxMax /\ poll \in {"idle", "receive", "status"}
    /\ hand \in Frame \cup {NoFrame}
    /\ control \in Control /\ heard \in Control /\ wanted \in Control
    /\ raced \subseteq {"setpoint", "mode"}

\* "Handle incoming CAN messages" (main.cpp:664): once no frame waits for poll()
\* or for its callback, the setpoint and the mode are each the last anybody asked
\* for, in a well-formed frame the driver took or through another handler.  The
\* exception is the one of the two that a handler last set while an older frame
\* for it waited: that frame overrules the handler.
LastCommandRules ==
    rxq = <<>> /\ hand = NoFrame
    => \A field \in {"setpoint", "mode"} \ raced : control[field] = wanted[field]

\* "Auto bus-off recovery" (docs/AI-Analysis/CAN-and-Modbus-Integration.md:219):
\* after bus-off the board is on the bus again, unless a reset finds no driver.
\* The code breaks it: nothing calls twai_start() after the recovery.
BusRecovers == driver = "busoff" ~> driver \in {"running", "absent"}

\* "mode (0=off,1=heat,2=cool,3=auto,4=fan)" (CANBus.cpp:84): the published mode
\* is one of the five.  The code breaks it: any byte of a display is a mode.
CanModeIsAMode == heard.mode \in 0..4
=============================================================================
