------------------------------- MODULE Network -------------------------------
(***************************************************************************)
(* The WiFi station, the access point the device falls back to, the test   *)
(* of a new network and the MQTT reconnect task (src/main.cpp,             *)
(* src/MQTTHandler.cpp, src/HttpsServer.cpp).  Four tasks share this       *)
(* state: the scheduler, the HTTPS server, the WiFi event task and the     *)
(* TCP task that runs the MQTT callbacks.                                  *)
(***************************************************************************)
EXTENDS Integers

CONSTANTS
    Networks,  \* the networks an operator may name
    NoNetwork, \* no network: an empty SSID, a station that is not connected
    Fallback,  \* lost connections that start the access point
    Serial     \* no callback runs inside a call of another task, and the WiFi
               \* driver reports a lost connection before the next call

ASSUME NetworkAssumption ==
    /\ NoNetwork \notin Networks
    /\ Fallback \in Nat /\ Serial \in BOOLEAN

VARIABLES
    stored,  \* the SSID in Config and its file
    ssid,    \* _WIFI_SSID, read once at boot
    ap,      \* _apModeActive
    apTask,  \* tAPReconnect is enabled
    sta,     \* the WiFi mode includes the station
    target,  \* the network the last begin() asked the station to join
    link,    \* the network the station is connected to
    event,   \* a WiFi event whose handler has not run: "none", "gotIp", "lost"
    drops,   \* _wifiDisconnectCount, up to Fallback
    wait,    \* tWaitOnWiFi is enabled
    https,   \* the HTTPS server runs
    test,    \* the WiFi test: "idle", "begin" or "wait"
    testNet, \* wifiTestNewSSID
    begun,   \* MQTTHandler::begin() has run
    client,  \* the MQTT client: "off", "connecting" or "on"
    answer,  \* an MQTT callback that has not run: "none", "connected", "closed"
    retry,   \* the MQTT reconnect task is enabled
    body,    \* the step of the reconnect task: "idle" or "disable"
    stopped  \* history: an operator has stopped the access point

wifiVars == <<ap, apTask, sta, target, link, event, drops>>
testVars == <<test, testNet>>
mqttVars == <<begun, client, answer, retry, body>>
netVars == <<stored, ssid, wifiVars, wait, https, testVars, mqttVars, stopped>>

Linked == link # NoNetwork
SomeNetwork == Networks \cup {NoNetwork}

\* setup(): the station joins the stored network, or the access point starts.
NetInit ==
    /\ stored \in SomeNetwork /\ ssid = stored
    /\ ap = (stored = NoNetwork) /\ apTask = ap
    /\ sta = ~ap /\ target = stored /\ wait = ~ap
    /\ link = NoNetwork /\ event = "none" /\ drops = 0 /\ https = FALSE
    /\ test = "idle" /\ testNet = NoNetwork
    /\ begun = FALSE /\ client = "off" /\ answer = "none"
    /\ retry = FALSE /\ body = "idle" /\ stopped = FALSE

\* A reboot at any moment keeps what is stored.
NetRestart ==
    /\ UNCHANGED stored /\ ssid' = stored
    /\ ap' = (stored = NoNetwork) /\ apTask' = ap'
    /\ sta' = ~ap' /\ target' = stored /\ wait' = ~ap'
    /\ link' = NoNetwork /\ event' = "none" /\ drops' = 0 /\ https' = FALSE
    /\ test' = "idle" /\ testNet' = NoNetwork
    /\ begun' = FALSE /\ client' = "off" /\ answer' = "none"
    /\ retry' = FALSE /\ body' = "idle" /\ stopped' = FALSE

-----------------------------------------------------------------------------
(* The WiFi driver, and onWiFiEvent()                                      *)

\* The station keeps trying the network begin() named.
Join ==
    /\ event = "none" /\ sta /\ target # NoNetwork /\ ~Linked
    /\ link' = target /\ event' = "gotIp"
    /\ UNCHANGED <<stored, ssid, ap, apTask, sta, target, drops, wait, https,
                   testVars, mqttVars, stopped>>

\* Out of reach, refused, or no longer connected
Lose ==
    /\ event = "none" /\ (Linked \/ (sta /\ target # NoNetwork))
    /\ link' = NoNetwork /\ event' = "lost"
    /\ UNCHANGED <<stored, ssid, ap, apTask, sta, target, drops, wait, https,
                   testVars, mqttVars, stopped>>

\* GOT_IP: startReconnect(), stopAPMode() in AP mode, HTTPS from the loop
GotIp ==
    /\ event = "gotIp" /\ event' = "none"
    /\ drops' = 0 /\ retry' = begun /\ https' = TRUE
    /\ ap' = FALSE /\ apTask' = (apTask /\ ~ap) /\ sta' = (sta \/ ap)
    /\ UNCHANGED <<stored, ssid, target, link, wait,
                   testVars, begun, client, answer, body, stopped>>

\* startAPMode(): the radio leaves station mode.
StartAPMode == ap' = TRUE /\ apTask' = TRUE /\ sta' = FALSE /\ target' = NoNetwork

\* STA_DISCONNECTED: stopReconnect(), and startAPMode() after Fallback of them
Lost ==
    /\ event = "lost" /\ event' = "none"
    /\ retry' = FALSE
    /\ drops' = IF drops < Fallback THEN drops + 1 ELSE drops
    /\ IF ~ap /\ drops + 1 >= Fallback
         THEN StartAPMode
         ELSE UNCHANGED <<ap, apTask, sta, target>>
    /\ UNCHANGED <<stored, ssid, link, wait, https, testVars, begun, client,
                   answer, body, stopped>>

\* disconnect(), mode() and begin() of the WiFi library: the connection goes
\* down with them, but its loss may be noticed later.
Station(on, network) ==
    /\ sta' = on /\ target' = network
    /\ IF Linked /\ Serial THEN link' = NoNetwork /\ event' = "lost"
                       ELSE UNCHANGED <<link, event>>

-----------------------------------------------------------------------------
(* The scheduler's WiFi tasks                                              *)

\* Mutant: the task only prints its dots.
WaitEnds_NoStart ==
    /\ wait /\ begun /\ wait' = FALSE
    /\ UNCHANGED <<stored, ssid, wifiVars, https, testVars, mqttVars, stopped>>

\* tWaitOnWiFi after its 60 seconds
WaitEnds ==
    /\ wait /\ begun /\ wait' = FALSE
    /\ retry' = (retry \/ Linked)
    /\ UNCHANGED <<stored, ssid, wifiVars, https, testVars, begun, client, answer,
                   body, stopped>>

\* onAPReconnect(): in AP mode it does nothing, and it runs in AP mode only.
APReconnect ==
    /\ apTask /\ begun
    /\ drops' = IF Linked THEN 0 ELSE drops
    /\ target' = IF Linked \/ ap \/ ssid = NoNetwork THEN target ELSE ssid
    /\ UNCHANGED <<stored, ssid, ap, apTask, sta, link, event, wait, https,
                   testVars, mqttVars, stopped>>

-----------------------------------------------------------------------------
(* The HTTPS server: access point buttons and the WiFi test                *)

\* startAPModeTest()
APTest ==
    /\ https /\ (Serial => event = "none")
    /\ ap' = TRUE /\ Station(FALSE, NoNetwork)
    /\ UNCHANGED <<stored, ssid, apTask, drops, wait, https, testVars, mqttVars,
                   stopped>>

\* stopAPMode(): the station is switched on, and asked to join nothing.
APStop ==
    /\ https /\ ap
    /\ ap' = FALSE /\ apTask' = FALSE /\ sta' = TRUE /\ stopped' = TRUE
    /\ UNCHANGED <<stored, ssid, target, link, event, drops, wait, https,
                   testVars, mqttVars>>

WifiTest(n) ==
    /\ https /\ test = "idle"
    /\ test' = "begin" /\ testNet' = n
    /\ UNCHANGED <<stored, ssid, wifiVars, wait, https, mqttVars, stopped>>

\* Mutant: the old connection is kept until the new one stands.
TestBegins_KeepLink ==
    /\ test = "begin" /\ (Serial => event = "none")
    /\ sta' = TRUE /\ target' = testNet /\ UNCHANGED <<link, event>>
    /\ IF Linked THEN test' = "idle" /\ stored' = testNet
             ELSE test' = "wait" /\ UNCHANGED stored
    /\ UNCHANGED <<ssid, ap, apTask, drops, wait, https, testNet, mqttVars, stopped>>

\* The first run of the test task: it drops the old connection, asks for the
\* new one and looks at the status.
TestBegins ==
    /\ test = "begin" /\ (Serial => event = "none")
    /\ Station(TRUE, testNet)
    /\ IF Linked /\ ~Serial THEN test' = "idle" /\ stored' = testNet
                        ELSE test' = "wait" /\ UNCHANGED stored
    /\ UNCHANGED <<ssid, ap, apTask, drops, wait, https, testNet, mqttVars, stopped>>

\* A later run finds the station connected.
TestSucceeds ==
    /\ test = "wait" /\ Linked
    /\ test' = "idle" /\ stored' = testNet
    /\ UNCHANGED <<ssid, wifiVars, wait, https, testNet, mqttVars, stopped>>

\* Mutant: the station is only disconnected.
TestFails_NoBegin ==
    /\ test = "wait" /\ ~Linked /\ (Serial => event = "none")
    /\ test' = "idle" /\ Station(~ap, NoNetwork)
    /\ UNCHANGED <<stored, ssid, ap, apTask, drops, wait, https, testNet, mqttVars,
                   stopped>>

\* The last run: back to the access point, or to the old network.
TestFails ==
    /\ test = "wait" /\ ~Linked /\ (Serial => event = "none")
    /\ test' = "idle" /\ Station(~ap, IF ap THEN NoNetwork ELSE stored)
    /\ UNCHANGED <<stored, ssid, ap, apTask, drops, wait, https, testNet, mqttVars,
                   stopped>>

-----------------------------------------------------------------------------
(* MQTT: the client, its callbacks and the reconnect task                  *)

MqttBegin ==
    /\ ~begun /\ begun' = TRUE
    /\ UNCHANGED <<stored, ssid, wifiVars, wait, https, testVars, client, answer,
                   retry, body, stopped>>

\* The reconnect task looks at the client and connects ...
Retry ==
    /\ retry /\ begun /\ body = "idle"
    /\ body' = IF client = "on" THEN "disable" ELSE "idle"
    /\ client' = IF client = "off" /\ Linked THEN "connecting" ELSE client
    /\ UNCHANGED <<stored, ssid, wifiVars, wait, https, testVars, begun, answer,
                   retry, stopped>>

\* ... or disables itself.
RetryDisable ==
    /\ body = "disable" /\ body' = "idle" /\ retry' = FALSE
    /\ UNCHANGED <<stored, ssid, wifiVars, wait, https, testVars, begun, client,
                   answer, stopped>>

BrokerAccepts ==
    /\ client = "connecting" /\ answer = "none" /\ Linked
    /\ client' = "on" /\ answer' = "connected"
    /\ UNCHANGED <<stored, ssid, wifiVars, wait, https, testVars, begun, retry,
                   body, stopped>>

ConnectionEnds ==
    /\ client \in {"connecting", "on"} /\ answer = "none"
    /\ client' = "off" /\ answer' = "closed"
    /\ UNCHANGED <<stored, ssid, wifiVars, wait, https, testVars, begun, retry,
                   body, stopped>>

OnConnect ==
    /\ answer = "connected" /\ answer' = "none" /\ retry' = FALSE
    /\ UNCHANGED <<stored, ssid, wifiVars, wait, https, testVars, begun, client,
                   body, stopped>>

OnDisconnect ==
    /\ answer = "closed" /\ answer' = "none" /\ retry' = (retry \/ Linked)
    /\ UNCHANGED <<stored, ssid, wifiVars, wait, https, testVars, begun, client,
                   body, stopped>>

NetNext ==
    \/ RetryDisable
    \/ /\ Serial => body = "idle"
       /\ \/ Join \/ Lose \/ GotIp \/ Lost \/ WaitEnds \/ APReconnect
          \/ APTest \/ APStop \/ (\E n \in Networks : WifiTest(n))
          \/ TestBegins \/ TestSucceeds \/ TestFails
          \/ MqttBegin \/ Retry \/ BrokerAccepts \/ ConnectionEnds
          \/ OnConnect \/ OnDisconnect \/ NetRestart

NetSpec == NetInit /\ [][NetNext]_netVars

\* The driver, the callbacks and the scheduler go on; operators need not.
NetFairSpec ==
    /\ NetSpec
    /\ WF_netVars(GotIp) /\ WF_netVars(Lost) /\ SF_netVars(Join)
    /\ WF_netVars(MqttBegin) /\ WF_netVars(WaitEnds) /\ WF_netVars(APReconnect)
    /\ WF_netVars(Retry) /\ WF_netVars(RetryDisable)

-----------------------------------------------------------------------------
(* Properties.                                                             *)

\* The access point's task runs in AP mode only; begin() is asked for with the
\* station on.
NetTypeOK ==
    /\ stored \in SomeNetwork /\ ssid \in SomeNetwork /\ target \in SomeNetwork
    /\ link \in SomeNetwork /\ testNet \in SomeNetwork
    /\ ap \in BOOLEAN /\ apTask \in BOOLEAN /\ sta \in BOOLEAN
    /\ (apTask => ap) /\ (target # NoNetwork => sta)
    /\ event \in {"none", "gotIp", "lost"} /\ drops \in 0..Fallback
    /\ wait \in BOOLEAN /\ https \in BOOLEAN /\ stopped \in BOOLEAN
    /\ test \in {"idle", "begin", "wait"}
    /\ begun \in BOOLEAN /\ retry \in BOOLEAN /\ body \in {"idle", "disable"}
    /\ client \in {"off", "connecting", "on"}
    /\ answer \in {"none", "connected", "closed"}

\* startReconnect(), onConnect(), onDisconnect() and the events that start and
\* stop the task (MQTTHandler.cpp:40-65, main.cpp:418-437): a connected device
\* without its broker has a task that will try again.
ReconnectArmed ==
    Linked /\ event = "none" /\ client = "off" /\ answer = "none" /\ body = "idle"
        => retry \/ wait \/ ~begun

\* A test of a network replaces the stored one only by a network the device
\* is connected to (HttpsServer.cpp:1129-1134).
TestedNetworkIsSaved == [][stored' # stored => stored' = link]_netVars

\* No test, fallback or loss leaves the device without an access point and
\* without a network to join; only an operator who stops the access point does.
StaysReachable == ap \/ target # NoNetwork \/ stopped

\* "AP mode STA reconnect attempt" (main.cpp:302): a device that fell back to
\* the access point leaves it by itself.  It never does: the attempt is made
\* outside AP mode only, and the task runs in AP mode only.
StationReturns == apTask /\ ssid # NoNetwork ~> ~ap
=============================================================================
