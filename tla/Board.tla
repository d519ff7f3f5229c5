-------------------------------- MODULE Board --------------------------------
(***************************************************************************)
(* What runs around the controller: boots and reboots, the network, the    *)
(* login sessions (by the clock, and call against call), the CAN bus with  *)
(* its frames, and the FTP server's window.  The models share no state     *)
(* (each restarts on its own), so every behaviour moves one of them only,  *)
(* and the others stay in one of their initial states.                     *)
(***************************************************************************)
EXTENDS Boot, Network, Sessions, SessionRace, CanBus, CanFrames, FtpTimer

VARIABLE part   \* the component that moves

boardVars == <<vars, netVars, sessVars, raceVars, canVars, tenths, ftpVars, part>>

BootRests == flash.mode = "OFF" /\ reason = "power" /\ counters = <<0, 0>>
NetRests == stored = NoNetwork
SessRests == timeout = 0
CanRests == driver = "absent" /\ control.mode = 0 /\ \A v \in Setpoints : control.setpoint <= v

BoardInit ==
    /\ Init /\ NetInit /\ SessInit /\ RaceInit /\ CanInit /\ FramesInit /\ FtpInit
    /\ part \in {"boot", "network", "sessions", "servers", "bus", "frames", "ftp"}
    /\ part # "boot" => BootRests
    /\ part # "network" => NetRests
    /\ part # "sessions" => SessRests
    /\ part # "bus" => CanRests

BootStep(step) ==
    /\ part = "boot" /\ step
    /\ UNCHANGED <<netVars, sessVars, raceVars, canVars, tenths, ftpVars, part>>

BoardNext ==
    \/ BootStep(Next)
    \/ /\ part = "network" /\ NetNext
       /\ UNCHANGED <<vars, sessVars, raceVars, canVars, tenths, ftpVars, part>>
    \/ /\ part = "sessions" /\ SessNext
       /\ UNCHANGED <<vars, netVars, raceVars, canVars, tenths, ftpVars, part>>
    \/ /\ part = "servers" /\ RaceNext
       /\ UNCHANGED <<vars, netVars, sessVars, canVars, tenths, ftpVars, part>>
    \/ /\ part = "bus" /\ CanNext
       /\ UNCHANGED <<vars, netVars, sessVars, raceVars, tenths, ftpVars, part>>
    \/ /\ part = "frames" /\ FramesNext
       /\ UNCHANGED <<vars, netVars, sessVars, raceVars, canVars, ftpVars, part>>
    \/ /\ part = "ftp" /\ FtpNext
       /\ UNCHANGED <<vars, netVars, sessVars, raceVars, canVars, tenths, part>>

\* The fairness of Boot.
BoardSpec ==
    /\ BoardInit /\ [][BoardNext]_boardVars
    /\ WF_boardVars(BootStep(Setup)) /\ WF_boardVars(BootStep(Tasks))
    /\ WF_boardVars(BootStep(Restart))
=============================================================================
