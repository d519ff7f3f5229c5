------------------------------ MODULE LinkProofs ------------------------------
(***************************************************************************)
(* What holds between the device and those that reach it, for any clock,   *)
(* queue and networks: the FTP server's window, the commands of the CAN    *)
(* bus, the WiFi and MQTT connections, and the arithmetic of a setpoint.   *)
(***************************************************************************)
EXTENDS Network, CanBus, CanFrames, FtpTimer, TLAPS

-----------------------------------------------------------------------------
(* The FTP server's window                                                 *)

\* The end is set, and what is left of the window ends there: millis() does not
\* wrap before, and once it is reached loop() is still to notice.
Counting ==
    /\ left \in 0..Longest /\ ftpStopTime = millis + left
    /\ left = 0 => due

\* What a request, loop() and the clock leave of the window, as long as the
\* first two do not meet and the third does not wrap before its end
WindowInv ==
    /\ FtpTypeOK
    /\ ~mixed =>
         /\ web # "idle" => loop = "test"
         /\ web = "enable" => ftpActive /\ left = duration /\ duration \in 1..Longest
         /\ web = "disable" => ~ftpActive /\ left = 0
         /\ web = "idle" /\ ~crossed =>
              /\ loop # "test" => left = 0
              /\ loop = "clear" => ~ftpActive
              /\ loop = "test" /\ ftpActive =>
                     IF ftpStopTime = 0 THEN left = Forever ELSE Counting
              /\ loop = "test" /\ ~ftpActive => left = 0

LEMMA FtpWord ==
    /\ 0 \in 0..ClockWords - 1
    /\ \A n \in 0..ClockWords - 1 :
           /\ (n + 1) % ClockWords \in 0..ClockWords - 1
           /\ n + 1 < ClockWords => (n + 1) % ClockWords = n + 1
    /\ \A n \in 0..ClockWords - 1, d \in 0..Longest :
           /\ (n + d) % ClockWords \in 0..ClockWords - 1
           /\ n + d < ClockWords => (n + d) % ClockWords = n + d
BY FtpAssumption

LEMMA FtpTypeStep == FtpTypeOK /\ [FtpNext]_ftpVars => FtpTypeOK'
<1> SUFFICES ASSUME FtpTypeOK, [FtpNext]_ftpVars PROVE FtpTypeOK'
  OBVIOUS
<1> USE DEF FtpTypeOK
<1>1. 0 \in 0..Forever /\ 0 \in 0..Longest /\ Forever \in 0..Forever
      /\ \A n \in 1..Longest : n \in 0..Forever /\ n \in 0..Longest /\ n - 1 \in 0..Forever
  BY FtpAssumption DEF Forever
<1>2. ASSUME NEW ticks \in 1..Longest, FtpEnable(ticks) PROVE FtpTypeOK'
  BY <1>1, <1>2 DEF FtpEnable, Request
<1>3. CASE SetStopTime
  <2>1. (millis + duration) % ClockWords \in 0..ClockWords - 1
    BY FtpWord
  <2> QED BY <1>3, <2>1 DEF SetStopTime
<1>4. CASE FtpDisable
  BY <1>1, <1>4 DEF FtpDisable, Request
<1>5. CASE ClearStopTime \/ FtpClear
  BY <1>5, FtpWord DEF ClearStopTime, FtpClear
<1>6. CASE FtpTest
  BY <1>6 DEF FtpTest
<1>7. CASE FtpEnd
  BY <1>7 DEF FtpEnd
<1>8. CASE FtpTick
  BY <1>1, <1>8, FtpWord DEF FtpTick
<1>9. CASE FtpBoot
  BY <1>1, <1>9, FtpWord DEF FtpBoot
<1>10. CASE UNCHANGED ftpVars
  BY <1>10 DEF ftpVars
<1> QED BY <1>2, <1>3, <1>4, <1>5, <1>6, <1>7, <1>8, <1>9, <1>10 DEF FtpNext

LEMMA WindowStep == WindowInv /\ [FtpNext]_ftpVars => WindowInv'
<1> SUFFICES ASSUME WindowInv, [FtpNext]_ftpVars PROVE WindowInv'
  OBVIOUS
<1>0. FtpTypeOK /\ FtpTypeOK'
  BY FtpTypeStep DEF WindowInv
<1>1. ASSUME NEW ticks \in 1..Longest, FtpEnable(ticks) PROVE WindowInv'
  BY <1>0, <1>1, FtpAssumption DEF FtpEnable, Request, WindowInv
<1>2. CASE SetStopTime
  <2>1. CASE ~mixed /\ ~crossed'
    <3>1. duration \in 1..Longest /\ left = duration /\ ftpActive /\ loop = "test"
      BY <1>2, <2>1 DEF SetStopTime, WindowInv
    <3>2. millis \in 0..ClockWords - 1 /\ millis + duration < ClockWords
      <4>1. millis \in 0..ClockWords - 1
        BY <1>0 DEF FtpTypeOK
      <4>2. ~(millis + duration >= ClockWords)
        BY <1>2, <2>1 DEF SetStopTime
      <4>3. millis + duration \in Int /\ ClockWords \in Int
        BY <3>1, <4>1, FtpAssumption
      <4> QED BY <4>1, <4>2, <4>3
    <3>3. ftpStopTime' = millis + duration
      BY <1>2, <3>1, <3>2, FtpWord DEF SetStopTime
    <3>4. ftpStopTime' # 0 /\ Counting'
      BY <1>2, <3>1, <3>2, <3>3, FtpAssumption DEF SetStopTime, Counting
    <3> QED BY <1>0, <1>2, <3>1, <3>4 DEF SetStopTime, WindowInv
  <2>2. CASE mixed \/ crossed'
    BY <1>0, <1>2, <2>2 DEF SetStopTime, WindowInv
  <2> QED BY <2>1, <2>2
<1>3. CASE FtpDisable
  BY <1>0, <1>3 DEF FtpDisable, Request, WindowInv
<1>4. CASE ClearStopTime
  BY <1>0, <1>4 DEF ClearStopTime, WindowInv
<1>5. CASE FtpTest
  <2>1. CASE ~mixed' /\ ~crossed'
    <3>1. ~mixed /\ ~crossed /\ web = "idle" /\ loop = "test"
      BY <1>5, <2>1 DEF FtpTest
    <3>2. ftpActive => IF ftpStopTime = 0 THEN left = Forever ELSE Counting
      BY <3>1 DEF WindowInv
    <3>3. TimeIsUp => left = 0
      BY <1>0, <3>2, FtpAssumption DEF TimeIsUp, Counting, FtpTypeOK
    <3>4. ~TimeIsUp /\ ftpActive /\ ftpStopTime # 0 => Counting /\ left # 0
      BY <1>0, <3>2, FtpAssumption DEF TimeIsUp, Counting, FtpTypeOK
    <3>5. ~ftpActive => left = 0
      BY <3>1 DEF WindowInv
    <3> QED BY <1>0, <1>5, <3>1, <3>2, <3>3, <3>4, <3>5 DEF FtpTest, WindowInv, Counting
  <2>2. CASE mixed' \/ crossed'
    BY <1>0, <1>5, <2>2 DEF FtpTest, WindowInv
  <2> QED BY <2>1, <2>2
<1>6. CASE FtpEnd
  BY <1>0, <1>6 DEF FtpEnd, WindowInv
<1>7. CASE FtpClear
  BY <1>0, <1>7 DEF FtpClear, WindowInv
<1>8. CASE FtpTick
  <2>1. /\ ~due /\ loop = "test" /\ web = "idle" /\ due' = TRUE
        /\ millis' = (millis + 1) % ClockWords
        /\ left' = IF left \in 1..Longest THEN left - 1 ELSE left
        /\ UNCHANGED <<ftpActive, ftpStopTime, web, duration, loop, mixed, crossed>>
    BY <1>8 DEF FtpTick
  <2>2. CASE ~mixed /\ ~crossed
    <3>1. ftpActive => IF ftpStopTime = 0 THEN left = Forever ELSE Counting
      BY <2>1, <2>2 DEF WindowInv
    <3>2. ASSUME ftpActive, ftpStopTime # 0 PROVE Counting'
      <4>1. left \in 1..Longest /\ ftpStopTime = millis + left
        BY <2>1, <3>1, <3>2, FtpAssumption DEF Counting
      <4>2. millis \in 0..ClockWords - 1 /\ ftpStopTime \in 0..ClockWords - 1
        BY <1>0 DEF FtpTypeOK
      <4>3. millis + 1 < ClockWords
        BY <4>1, <4>2, FtpAssumption
      <4>4. millis' = millis + 1 /\ left' = left - 1
        BY <2>1, <4>1, <4>2, <4>3, FtpWord
      <4> QED BY <2>1, <4>1, <4>2, <4>4, FtpAssumption DEF Counting
    <3>3. left = Forever => left' = Forever
      BY <2>1, FtpAssumption DEF Forever
    <3>4. ~ftpActive => left' = 0
      BY <2>1, <2>2 DEF WindowInv
    <3> QED BY <1>0, <2>1, <3>1, <3>2, <3>3, <3>4 DEF WindowInv
  <2>3. CASE mixed \/ crossed
    BY <1>0, <2>1, <2>3 DEF WindowInv
  <2> QED BY <2>2, <2>3
<1>9. CASE FtpBoot
  BY <1>0, <1>9 DEF FtpBoot, WindowInv
<1>10. CASE UNCHANGED ftpVars
  BY <1>0, <1>10 DEF ftpVars, WindowInv, Counting
<1> QED BY <1>1, <1>2, <1>3, <1>4, <1>5, <1>6, <1>7, <1>8, <1>9, <1>10 DEF FtpNext

\* Once loop() has come round the server is on exactly until the end of what
\* was last asked for, unless a request met the end of an earlier one or
\* millis() wraps before the end.
THEOREM FtpWindowHolds == FtpSpec => []FtpWindow
<1>1. FtpInit => WindowInv
  <2>1. 0 \in 0..Longest /\ Forever \in 0..Forever
    BY FtpAssumption DEF Forever
  <2> QED BY <2>1, FtpWord DEF FtpInit, WindowInv, FtpTypeOK
<1>2. WindowInv => FtpWindow
  <2>1. Forever # 0
    BY FtpAssumption DEF Forever
  <2> QED BY <2>1 DEF WindowInv, FtpWindow, Settled, Counting, FtpTypeOK
<1> QED BY <1>1, <1>2, WindowStep, PTL DEF FtpSpec

-----------------------------------------------------------------------------
(* The commands of the CAN bus                                             *)

\* With `now' in force and the frames of q still to come, the field id ends up
\* as `last': the last frame for it says so, or none is left to change it.
Leads(q, id, now, last) ==
    \/ \E i \in 1..Len(q) :
           /\ q[i].id = id /\ q[i].value = last
           /\ \A j \in 1..Len(q) : j > i => q[j].id # id
    \/ now = last /\ \A j \in 1..Len(q) : q[j].id # id

\* Field by field: once the frame in hand is obeyed, the queue leads to what was
\* last asked for, unless the field is `raced'.
CommandInv ==
    /\ "setpoint" \notin raced
       => Leads(rxq, "setpoint", Obey(control, hand).setpoint, wanted.setpoint)
    /\ "mode" \notin raced
       => Leads(rxq, "mode", Obey(control, hand).mode, wanted.mode)

LEMMA LeadsEmpty ==
    ASSUME NEW id, NEW now, NEW last
    PROVE  Leads(<<>>, id, now, last) <=> now = last
BY DEF Leads

LEMMA LeadsAppend ==
    ASSUME NEW q \in Seq(Frame), NEW f \in Frame, NEW id, NEW now, NEW last
    PROVE  /\ f.id = id => Leads(Append(q, f), id, now, f.value)
           /\ f.id # id /\ Leads(q, id, now, last) => Leads(Append(q, f), id, now, last)
<1> DEFINE r == Append(q, f)
<1>1. /\ Len(r) = Len(q) + 1 /\ Len(q) \in Nat /\ r[Len(q) + 1] = f
      /\ \A i \in 1..Len(q) : r[i] = q[i]
  OBVIOUS
<1> HIDE DEF r
<1>2. f.id = id => Leads(r, id, now, f.value)
  BY <1>1 DEF Leads
<1>3. f.id # id /\ Leads(q, id, now, last) => Leads(r, id, now, last)
  BY <1>1 DEF Leads
<1> QED BY <1>2, <1>3 DEF r

LEMMA LeadsTail ==
    ASSUME NEW q \in Seq(Frame), q # <<>>, NEW id, NEW now, NEW last, Leads(q, id, now, last)
    PROVE  Leads(Tail(q), id, IF Head(q).id = id THEN Head(q).value ELSE now, last)
<1> DEFINE r == Tail(q)
           h == Head(q)
<1>1. /\ Len(q) \in Nat /\ Len(q) > 0 /\ Len(r) = Len(q) - 1 /\ h = q[1]
      /\ \A i \in 1..Len(r) : r[i] = q[i + 1]
  OBVIOUS
<1> HIDE DEF r, h
<1>2. \A i \in 2..Len(q) : i - 1 \in 1..Len(r) /\ r[i - 1] = q[i]
  BY <1>1
<1>3. CASE \E i \in 1..Len(q) : /\ q[i].id = id /\ q[i].value = last
                               /\ \A j \in 1..Len(q) : j > i => q[j].id # id
  <2>1. PICK i \in 1..Len(q) : /\ q[i].id = id /\ q[i].value = last
                              /\ \A j \in 1..Len(q) : j > i => q[j].id # id
    BY <1>3
  <2>2. CASE i = 1
    <3>1. h.id = id /\ h.value = last
      BY <1>1, <2>1, <2>2
    <3>2. \A j \in 1..Len(r) : r[j].id # id
      BY <1>1, <2>1, <2>2
    <3> QED BY <3>1, <3>2 DEF Leads, h, r
  <2>3. CASE i # 1
    <3>1. i - 1 \in 1..Len(r) /\ r[i - 1].id = id /\ r[i - 1].value = last
      BY <1>1, <1>2, <2>1, <2>3
    <3>2. \A j \in 1..Len(r) : j > i - 1 => r[j].id # id
      BY <1>1, <2>1
    <3> QED BY <3>1, <3>2 DEF Leads, h, r
  <2> QED BY <2>2, <2>3
<1>4. CASE now = last /\ \A j \in 1..Len(q) : q[j].id # id
  BY <1>1, <1>4 DEF Leads, h, r
<1> QED BY <1>3, <1>4 DEF Leads

\* What a frame asks for, as the callback and as the sender see it
LEMMA ObeyIs ==
    ASSUME NEW c \in Control, NEW f \in Frame \cup {NoFrame}
    PROVE  /\ Obey(c, f) \in Control
           /\ Obey(c, f).setpoint = IF f.id = "setpoint" THEN f.value ELSE c.setpoint
           /\ Obey(c, f).mode = IF f.id = "mode" THEN f.value ELSE c.mode
<1>1. CASE f.id = "setpoint"
  BY <1>1 DEF Obey, Control, Frame, NoFrame
<1>2. CASE f.id = "mode"
  BY <1>2 DEF Obey, Control, Frame, NoFrame
<1>3. CASE f.id \notin {"setpoint", "mode"}
  BY <1>3 DEF Obey, Control, Frame, NoFrame
<1> QED BY <1>1, <1>2, <1>3

LEMMA AskedIs ==
    ASSUME NEW w \in Control, NEW f \in Frame, f.id \in {"setpoint", "mode"}
    PROVE  /\ [w EXCEPT ![f.id] = f.value] \in Control
           /\ [w EXCEPT ![f.id] = f.value].setpoint = IF f.id = "setpoint" THEN f.value ELSE w.setpoint
           /\ [w EXCEPT ![f.id] = f.value].mode = IF f.id = "mode" THEN f.value ELSE w.mode
<1>1. CASE f.id = "setpoint"
  BY <1>1 DEF Control, Frame
<1>2. CASE f.id = "mode"
  BY <1>2 DEF Control, Frame
<1> QED BY <1>1, <1>2

LEMMA CanTypeStep == CanTypeOK /\ [CanNext]_canVars => CanTypeOK'
<1> SUFFICES ASSUME CanTypeOK, [CanNext]_canVars PROVE CanTypeOK'
  OBVIOUS
<1> USE DEF CanTypeOK
<1>0. <<>> \in Seq(Frame) /\ Len(<<>>) = 0 /\ RxMax \in Nat /\ Chosen \subseteq Control
  BY CanAssumption DEF Chosen, Control
<1>1. ASSUME NEW f \in Frame, Arrive(f) PROVE CanTypeOK'
  <2>1. Len(rxq) < RxMax => Append(rxq, f) \in Seq(Frame) /\ Len(Append(rxq, f)) <= RxMax
    BY <1>0
  <2> QED BY <1>1, <2>1, AskedIs DEF Arrive
<1>2. ASSUME NEW v \in Setpoints, Choose("setpoint", v) PROVE CanTypeOK'
  BY <1>2 DEF Choose, Control
<1>3. ASSUME NEW v \in ModeBytes \cap 0..4, Choose("mode", v) PROVE CanTypeOK'
  BY <1>3 DEF Choose, Control
<1>4. CASE Receive
  <2>1. rxq # <<>> => /\ Head(rxq) \in Frame /\ Tail(rxq) \in Seq(Frame)
                     /\ Len(Tail(rxq)) <= RxMax
    BY <1>0
  <2> QED BY <1>4, <2>1 DEF Receive
<1>5. CASE Deliver
  BY <1>5, ObeyIs DEF Deliver
<1>6. CASE Poll \/ Publish \/ BusOff \/ RecoveryDone
  BY <1>6 DEF Poll, Publish, Send, BusOff, RecoveryDone
<1>7. CASE Status
  BY <1>7 DEF Status, RecoverBus
<1>8. CASE CanReset
  <2>1. control' \in Control
    <3>1. \A v \in Setpoints : [control EXCEPT !.setpoint = v] \in Control
      BY DEF Control
    <3> QED BY <1>0, <1>8, <3>1 DEF CanReset
  <2>2. /\ driver' \in {"absent", "running"} /\ rxq' = <<>> /\ poll' = "idle"
        /\ hand' = NoFrame /\ wanted' = control' /\ heard' = heard /\ raced' = {}
    BY <1>8 DEF CanReset, Begin
  <2>3. rxq' \in Seq(Frame) /\ Len(rxq') <= RxMax
    BY <1>0, <2>2
  <2> QED BY <2>1, <2>2, <2>3
<1>9. CASE UNCHANGED canVars
  BY <1>9 DEF canVars
<1> QED BY <1>1, <1>2, <1>3, <1>4, <1>5, <1>6, <1>7, <1>8, <1>9 DEF CanNext

LEMMA CommandStep == CanTypeOK /\ CommandInv /\ [CanNext]_canVars => CommandInv'
<1> SUFFICES ASSUME CanTypeOK, CommandInv, [CanNext]_canVars PROVE CommandInv'
  OBVIOUS
<1> USE DEF CommandInv
<1>0. /\ Obey(control, hand).setpoint
         = IF hand.id = "setpoint" THEN hand.value ELSE control.setpoint
      /\ Obey(control, hand).mode = IF hand.id = "mode" THEN hand.value ELSE control.mode
  BY ObeyIs DEF CanTypeOK
<1>1. ASSUME NEW f \in Frame, Arrive(f) PROVE CommandInv'
  <2>1. CASE Len(rxq) < RxMax
    <3>1. /\ rxq' = Append(rxq, f) /\ control' = control /\ hand' = hand
          /\ raced' = raced \ {f.id}
          /\ wanted' = IF f.id \in {"setpoint", "mode"}
                       THEN [wanted EXCEPT ![f.id] = f.value] ELSE wanted
      BY <1>1, <2>1 DEF Arrive
    <3>2. /\ wanted'.setpoint = IF f.id = "setpoint" THEN f.value ELSE wanted.setpoint
          /\ wanted'.mode = IF f.id = "mode" THEN f.value ELSE wanted.mode
      BY <3>1, AskedIs DEF CanTypeOK
    <3>3. \A id, now, last :
             /\ f.id = id => Leads(Append(rxq, f), id, now, f.value)
             /\ f.id # id /\ Leads(rxq, id, now, last) => Leads(Append(rxq, f), id, now, last)
      BY LeadsAppend DEF CanTypeOK
    <3>4. "setpoint" \notin raced'
          => Leads(rxq', "setpoint", Obey(control', hand').setpoint, wanted'.setpoint)
      BY <3>1, <3>2, <3>3
    <3>5. "mode" \notin raced'
          => Leads(rxq', "mode", Obey(control', hand').mode, wanted'.mode)
      BY <3>1, <3>2, <3>3
    <3> QED BY <3>4, <3>5
  <2>2. CASE ~(Len(rxq) < RxMax)
    BY <1>1, <2>2 DEF Arrive
  <2> QED BY <2>1, <2>2
<1>2. ASSUME NEW v \in Setpoints, Choose("setpoint", v) PROVE CommandInv'
  <2>1. /\ rxq' = rxq /\ hand' = hand
        /\ control' \in Control /\ control'.setpoint = v /\ control'.mode = control.mode
        /\ wanted'.setpoint = v /\ wanted'.mode = wanted.mode
    BY <1>2 DEF Choose, Control, CanTypeOK
  <2>2. /\ "setpoint" \notin raced' => ~Pending("setpoint")
        /\ "mode" \in raced' <=> "mode" \in raced
    BY <1>2 DEF Choose
  <2>3. /\ Obey(control', hand').setpoint
           = IF hand.id = "setpoint" THEN hand.value ELSE control'.setpoint
        /\ Obey(control', hand').mode = IF hand.id = "mode" THEN hand.value ELSE control'.mode
    BY <2>1, ObeyIs DEF CanTypeOK
  <2>4. "setpoint" \notin raced'
        => Leads(rxq', "setpoint", Obey(control', hand').setpoint, wanted'.setpoint)
    BY <2>1, <2>2, <2>3 DEF Pending, Leads
  <2>5. Obey(control', hand').mode = Obey(control, hand).mode
    BY <1>0, <2>1, <2>3
  <2>6. "mode" \notin raced'
        => Leads(rxq', "mode", Obey(control', hand').mode, wanted'.mode)
    BY <2>1, <2>2, <2>5
  <2> QED BY <2>4, <2>6
<1>3. ASSUME NEW v \in ModeBytes \cap 0..4, Choose("mode", v) PROVE CommandInv'
  <2>1. /\ rxq' = rxq /\ hand' = hand
        /\ control' \in Control /\ control'.mode = v /\ control'.setpoint = control.setpoint
        /\ wanted'.mode = v /\ wanted'.setpoint = wanted.setpoint
    BY <1>3 DEF Choose, Control, CanTypeOK
  <2>2. /\ "mode" \notin raced' => ~Pending("mode")
        /\ "setpoint" \in raced' <=> "setpoint" \in raced
    BY <1>3 DEF Choose
  <2>3. /\ Obey(control', hand').setpoint
           = IF hand.id = "setpoint" THEN hand.value ELSE control'.setpoint
        /\ Obey(control', hand').mode = IF hand.id = "mode" THEN hand.value ELSE control'.mode
    BY <2>1, ObeyIs DEF CanTypeOK
  <2>4. "mode" \notin raced'
        => Leads(rxq', "mode", Obey(control', hand').mode, wanted'.mode)
    BY <2>1, <2>2, <2>3 DEF Pending, Leads
  <2>5. Obey(control', hand').setpoint = Obey(control, hand).setpoint
    BY <1>0, <2>1, <2>3
  <2>6. "setpoint" \notin raced'
        => Leads(rxq', "setpoint", Obey(control', hand').setpoint, wanted'.setpoint)
    BY <2>1, <2>2, <2>5
  <2> QED BY <2>4, <2>6
<1>4. CASE Receive
  <2>1. CASE rxq = <<>>
    BY <1>4, <2>1 DEF Receive
  <2>2. CASE rxq # <<>>
    <3>1. /\ rxq' = Tail(rxq) /\ hand' = Head(rxq) /\ hand = NoFrame
          /\ control' = control /\ wanted' = wanted /\ raced' = raced
      BY <1>4, <2>2 DEF Receive
    <3>2. rxq \in Seq(Frame) /\ Head(rxq) \in Frame /\ control \in Control
      BY <2>2 DEF CanTypeOK
    <3> DEFINE h == Head(rxq)
    <3>3. /\ Obey(control', h).setpoint
             = IF h.id = "setpoint" THEN h.value ELSE control.setpoint
          /\ Obey(control', h).mode = IF h.id = "mode" THEN h.value ELSE control.mode
      BY <3>1, <3>2, ObeyIs
    <3>4. /\ Obey(control, hand).setpoint = control.setpoint
          /\ Obey(control, hand).mode = control.mode
      BY <1>0, <3>1 DEF NoFrame
    <3>5. \A id, now, last : Leads(rxq, id, now, last)
             => Leads(Tail(rxq), id, IF h.id = id THEN h.value ELSE now, last)
      BY <2>2, <3>2, LeadsTail
    <3>6. hand' = h
      BY <3>1
    <3> HIDE DEF h
    <3>7. "setpoint" \notin raced'
          => Leads(rxq', "setpoint", Obey(control', hand').setpoint, wanted'.setpoint)
      BY <3>1, <3>3, <3>4, <3>5, <3>6
    <3>8. "mode" \notin raced'
          => Leads(rxq', "mode", Obey(control', hand').mode, wanted'.mode)
      BY <3>1, <3>3, <3>4, <3>5, <3>6
    <3> QED BY <3>7, <3>8
  <2> QED BY <2>1, <2>2
<1>5. CASE Deliver
  <2>1. /\ rxq' = rxq /\ hand' = NoFrame /\ control' = Obey(control, hand)
        /\ wanted' = wanted /\ raced' = raced
    BY <1>5 DEF Deliver
  <2>2. Obey(control', hand') = Obey(control, hand)
    BY <2>1 DEF Obey, NoFrame
  <2> QED BY <2>1, <2>2
<1>6. CASE Poll \/ Publish \/ BusOff \/ RecoveryDone \/ Status
  BY <1>6 DEF Poll, Publish, BusOff, RecoveryDone, Status
<1>7. CASE CanReset
  <2>1. /\ rxq' = <<>> /\ hand' = NoFrame /\ wanted' = control'
    BY <1>7 DEF CanReset, Begin
  <2>2. Obey(control', hand') = control'
    BY <2>1 DEF Obey, NoFrame
  <2> QED BY <2>1, <2>2, LeadsEmpty
<1>8. CASE UNCHANGED canVars
  BY <1>8 DEF canVars
<1> QED BY <1>1, <1>2, <1>3, <1>4, <1>5, <1>6, <1>7, <1>8 DEF CanNext

\* Frames and thermostat keep their shape and the queue its length,
\* whatever the nodes send and whenever the driver fails.
THEOREM CanTypesHold == CanSpec => []CanTypeOK
<1>1. CanInit => CanTypeOK
  <2> SUFFICES ASSUME CanInit PROVE CanTypeOK
    OBVIOUS
  <2>1. <<>> \in Seq(Frame) /\ Len(<<>>) <= RxMax
    BY CanAssumption
  <2>2. Chosen \subseteq Control
    BY CanAssumption DEF Chosen, Control
  <2> QED BY <2>1, <2>2 DEF CanInit, CanTypeOK
<1> QED BY <1>1, CanTypeStep, PTL DEF CanSpec

\* Once no frame waits in the queue or for its callback, setpoint and mode are
\* each the last anybody asked for, but for the one a handler last set while an
\* older frame for it waited.
THEOREM CommandsAreObeyed == CanSpec => []LastCommandRules
<1>1. CanInit => CommandInv
  <2> SUFFICES ASSUME CanInit PROVE CommandInv
    OBVIOUS
  <2>1. rxq = <<>> /\ Obey(control, hand) = control /\ wanted = control
    BY DEF CanInit, Obey, NoFrame
  <2> QED BY <2>1, LeadsEmpty DEF CommandInv
<1>2. CanTypeOK /\ CommandInv => LastCommandRules
  <2> SUFFICES ASSUME CanTypeOK, CommandInv, rxq = <<>>, hand = NoFrame
      PROVE  \A field \in {"setpoint", "mode"} \ raced : control[field] = wanted[field]
    BY DEF LastCommandRules
  <2>1. Obey(control, hand) = control
    BY DEF Obey, NoFrame
  <2>2. /\ "setpoint" \notin raced => control.setpoint = wanted.setpoint
        /\ "mode" \notin raced => control.mode = wanted.mode
    BY <2>1, LeadsEmpty DEF CommandInv
  <2> QED BY <2>2
<1> QED BY <1>1, <1>2, CommandStep, CanTypesHold, PTL DEF CanSpec

-----------------------------------------------------------------------------
(* WiFi and MQTT                                                           *)

\* A board without a network has neither a connection nor the HTTPS server, so
\* nobody can ask it for one.
Silent == ~https /\ test = "idle" /\ target = NoNetwork /\ ~Linked /\ event = "none"

\* The event that waits to be handled tells how the station stands.
EventInv ==
    /\ event = "lost" => ~Linked
    /\ event = "gotIp" => target # NoNetwork
    /\ stored = NoNetwork => Silent

\* While a network is tested the station joins no other.
TestInv ==
    /\ test # "idle" => testNet \in Networks
    /\ test = "wait" => target \in {testNet, NoNetwork} /\ link \in {testNet, NoNetwork}

\* The reconnect task is off only while the client is on, or an event that
\* starts it again is still to be handled.
RetryInv ==
    /\ ~begun /\ ~wait => stored = NoNetwork
    /\ answer = "connected" => client = "on"
    /\ body = "disable" => client = "on"
    /\ Linked /\ event = "none" /\ client = "off" /\ answer # "closed"
           => retry \/ wait \/ ~begun

NetInv == EventInv /\ TestInv /\ RetryInv /\ StaysReachable

\* NetTypeOK in parts
NamesOK ==
    /\ stored \in SomeNetwork /\ ssid \in SomeNetwork /\ target \in SomeNetwork
    /\ link \in SomeNetwork /\ testNet \in SomeNetwork

PhasesOK ==
    /\ event \in {"none", "gotIp", "lost"} /\ drops \in 0..Fallback
    /\ test \in {"idle", "begin", "wait"} /\ body \in {"idle", "disable"}
    /\ client \in {"off", "connecting", "on"}
    /\ answer \in {"none", "connected", "closed"}

FlagsOK ==
    /\ ap \in BOOLEAN /\ apTask \in BOOLEAN /\ sta \in BOOLEAN
    /\ wait \in BOOLEAN /\ https \in BOOLEAN /\ stopped \in BOOLEAN
    /\ begun \in BOOLEAN /\ retry \in BOOLEAN

RadioOK == (apTask => ap) /\ (target # NoNetwork => sta)

LEMMA NetTypeParts ==
    /\ NetTypeOK <=> NamesOK /\ PhasesOK /\ FlagsOK /\ RadioOK
    /\ NetTypeOK' <=> NamesOK' /\ PhasesOK' /\ FlagsOK' /\ RadioOK'
BY DEF NetTypeOK, NamesOK, PhasesOK, FlagsOK, RadioOK

LEMMA NamesStep == NamesOK /\ [NetNext]_netVars => NamesOK'
<1> SUFFICES ASSUME NamesOK, [NetNext]_netVars PROVE NamesOK'
  OBVIOUS
<1> USE NetworkAssumption DEF NamesOK, SomeNetwork, wifiVars, testVars, mqttVars, Station, StartAPMode
<1>1. CASE Join \/ Lose \/ GotIp \/ Lost
  BY <1>1 DEF Join, Lose, GotIp, Lost
<1>2. CASE WaitEnds \/ APReconnect \/ APTest \/ APStop
  BY <1>2 DEF WaitEnds, APReconnect, APTest, APStop
<1>3. CASE TestBegins \/ TestSucceeds \/ TestFails
  BY <1>3 DEF TestBegins, TestSucceeds, TestFails
<1>4. CASE MqttBegin \/ Retry \/ RetryDisable \/ BrokerAccepts
  BY <1>4 DEF MqttBegin, Retry, RetryDisable, BrokerAccepts
<1>5. CASE ConnectionEnds \/ OnConnect \/ OnDisconnect \/ NetRestart
  BY <1>5 DEF ConnectionEnds, OnConnect, OnDisconnect, NetRestart
<1>6. ASSUME NEW n \in Networks, WifiTest(n) PROVE NamesOK'
  BY <1>6 DEF WifiTest
<1>7. CASE UNCHANGED netVars
  BY <1>7 DEF netVars
<1> QED BY <1>1, <1>2, <1>3, <1>4, <1>5, <1>6, <1>7 DEF NetNext

LEMMA PhasesStep == PhasesOK /\ [NetNext]_netVars => PhasesOK'
<1> SUFFICES ASSUME PhasesOK, [NetNext]_netVars PROVE PhasesOK'
  OBVIOUS
<1> USE NetworkAssumption DEF PhasesOK, SomeNetwork, wifiVars, testVars, mqttVars, Station, StartAPMode
<1>1. CASE Join \/ Lose \/ GotIp \/ Lost
  BY <1>1 DEF Join, Lose, GotIp, Lost
<1>2. CASE WaitEnds \/ APReconnect \/ APTest \/ APStop
  BY <1>2 DEF WaitEnds, APReconnect, APTest, APStop
<1>3. CASE TestBegins \/ TestSucceeds \/ TestFails
  BY <1>3 DEF TestBegins, TestSucceeds, TestFails
<1>4. CASE MqttBegin \/ Retry \/ RetryDisable \/ BrokerAccepts
  BY <1>4 DEF MqttBegin, Retry, RetryDisable, BrokerAccepts
<1>5. CASE ConnectionEnds \/ OnConnect \/ OnDisconnect \/ NetRestart
  BY <1>5 DEF ConnectionEnds, OnConnect, OnDisconnect, NetRestart
<1>6. ASSUME NEW n \in Networks, WifiTest(n) PROVE PhasesOK'
  BY <1>6 DEF WifiTest
<1>7. CASE UNCHANGED netVars
  BY <1>7 DEF netVars
<1> QED BY <1>1, <1>2, <1>3, <1>4, <1>5, <1>6, <1>7 DEF NetNext

LEMMA FlagsStep == FlagsOK /\ [NetNext]_netVars => FlagsOK'
<1> SUFFICES ASSUME FlagsOK, [NetNext]_netVars PROVE FlagsOK'
  OBVIOUS
<1> USE NetworkAssumption DEF FlagsOK, SomeNetwork, wifiVars, testVars, mqttVars, Station, StartAPMode
<1>1. CASE Join \/ Lose \/ GotIp \/ Lost
  BY <1>1 DEF Join, Lose, GotIp, Lost
<1>2. CASE WaitEnds \/ APReconnect \/ APTest \/ APStop
  BY <1>2 DEF WaitEnds, APReconnect, APTest, APStop
<1>3. CASE TestBegins \/ TestSucceeds \/ TestFails
  BY <1>3 DEF TestBegins, TestSucceeds, TestFails
<1>4. CASE MqttBegin \/ Retry \/ RetryDisable \/ BrokerAccepts
  BY <1>4 DEF MqttBegin, Retry, RetryDisable, BrokerAccepts
<1>5. CASE ConnectionEnds \/ OnConnect \/ OnDisconnect \/ NetRestart
  BY <1>5 DEF ConnectionEnds, OnConnect, OnDisconnect, NetRestart
<1>6. ASSUME NEW n \in Networks, WifiTest(n) PROVE FlagsOK'
  BY <1>6 DEF WifiTest
<1>7. CASE UNCHANGED netVars
  BY <1>7 DEF netVars
<1> QED BY <1>1, <1>2, <1>3, <1>4, <1>5, <1>6, <1>7 DEF NetNext

LEMMA RadioStep == RadioOK /\ [NetNext]_netVars => RadioOK'
<1> SUFFICES ASSUME RadioOK, [NetNext]_netVars PROVE RadioOK'
  OBVIOUS
<1> USE NetworkAssumption DEF RadioOK, SomeNetwork, wifiVars, testVars, mqttVars, Station, StartAPMode
<1>1. CASE Join \/ Lose \/ GotIp \/ Lost
  BY <1>1 DEF Join, Lose, GotIp, Lost
<1>2. CASE WaitEnds \/ APReconnect \/ APTest \/ APStop
  BY <1>2 DEF WaitEnds, APReconnect, APTest, APStop
<1>3. CASE TestBegins \/ TestSucceeds \/ TestFails
  <2>1. CASE TestBegins \/ TestSucceeds
    BY <2>1 DEF TestBegins, TestSucceeds
  <2>2. CASE TestFails
    BY <2>2 DEF TestFails
  <2> QED BY <1>3, <2>1, <2>2
<1>4. CASE MqttBegin \/ Retry \/ RetryDisable \/ BrokerAccepts
  BY <1>4 DEF MqttBegin, Retry, RetryDisable, BrokerAccepts
<1>5. CASE ConnectionEnds \/ OnConnect \/ OnDisconnect \/ NetRestart
  <2>1. CASE ConnectionEnds \/ OnConnect \/ OnDisconnect
    BY <2>1 DEF ConnectionEnds, OnConnect, OnDisconnect
  <2>2. CASE NetRestart
    BY <2>2 DEF NetRestart
  <2> QED BY <1>5, <2>1, <2>2
<1>6. ASSUME NEW n \in Networks, WifiTest(n) PROVE RadioOK'
  BY <1>6 DEF WifiTest
<1>7. CASE UNCHANGED netVars
  BY <1>7 DEF netVars
<1> QED BY <1>1, <1>2, <1>3, <1>4, <1>5, <1>6, <1>7 DEF NetNext

LEMMA NetTypeStep == NetTypeOK /\ [NetNext]_netVars => NetTypeOK'
BY NamesStep, PhasesStep, FlagsStep, RadioStep, NetTypeParts

LEMMA NetStep == Serial /\ NetTypeOK /\ NetInv /\ [NetNext]_netVars => NetInv'
<1> SUFFICES ASSUME Serial, NetTypeOK, NetInv, [NetNext]_netVars PROVE NetInv'
  OBVIOUS
<1> USE NetworkAssumption
    DEF NetTypeOK, NetInv, EventInv, TestInv, RetryInv, StaysReachable, Silent, Linked
<1>1. CASE Join
  BY <1>1 DEF Join, testVars, mqttVars
<1>2. CASE Lose
  BY <1>2 DEF Lose, testVars, mqttVars
<1>3. CASE GotIp
  BY <1>3 DEF GotIp, testVars
<1>4. CASE Lost
  BY <1>4 DEF Lost, StartAPMode, testVars
<1>5. CASE WaitEnds
  BY <1>5 DEF WaitEnds, wifiVars, testVars
<1>6. CASE APReconnect
  BY <1>6 DEF APReconnect, testVars, mqttVars
<1>7. CASE APTest
  BY <1>7 DEF APTest, Station, testVars, mqttVars
<1>8. CASE APStop
  BY <1>8 DEF APStop, testVars, mqttVars
<1>9. ASSUME NEW n \in Networks, WifiTest(n) PROVE NetInv'
  BY <1>9 DEF WifiTest, wifiVars, mqttVars
<1>10. CASE TestBegins
  BY <1>10 DEF TestBegins, Station, mqttVars
<1>11. CASE TestSucceeds
  BY <1>11 DEF TestSucceeds, wifiVars, mqttVars
<1>12. CASE TestFails
  BY <1>12 DEF TestFails, Station, mqttVars
<1>13. CASE MqttBegin
  BY <1>13 DEF MqttBegin, wifiVars, testVars
<1>14. CASE Retry
  BY <1>14 DEF Retry, wifiVars, testVars
<1>15. CASE RetryDisable
  BY <1>15 DEF RetryDisable, wifiVars, testVars
<1>16. CASE BrokerAccepts
  BY <1>16 DEF BrokerAccepts, wifiVars, testVars
<1>17. CASE ConnectionEnds /\ body = "idle"
  BY <1>17 DEF ConnectionEnds, wifiVars, testVars
<1>18. CASE OnConnect
  BY <1>18 DEF OnConnect, wifiVars, testVars
<1>19. CASE OnDisconnect
  BY <1>19 DEF OnDisconnect, wifiVars, testVars
<1>20. CASE NetRestart
  BY <1>20 DEF NetRestart
<1>21. CASE UNCHANGED netVars
  BY <1>21 DEF netVars, wifiVars, testVars, mqttVars
<1> QED BY <1>1, <1>2, <1>3, <1>4, <1>5, <1>6, <1>7, <1>8, <1>9, <1>10, <1>11, <1>12, <1>13,
           <1>14, <1>15, <1>16, <1>17, <1>18, <1>19, <1>20, <1>21 DEF NetNext

\* The access point's task runs in AP mode only and the station joins a network
\* only while it is on, even when callbacks run inside calls of other tasks.
THEOREM NetTypesHold == NetSpec => []NetTypeOK
<1>1. NetInit => NetTypeOK
  <2> SUFFICES ASSUME NetInit PROVE NetTypeOK
    OBVIOUS
  <2> USE NetworkAssumption DEF NetInit, SomeNetwork
  <2>1. NamesOK /\ PhasesOK
    BY DEF NamesOK, PhasesOK
  <2>2. FlagsOK
    BY DEF FlagsOK
  <2>3. RadioOK
    BY DEF RadioOK
  <2> QED BY <2>1, <2>2, <2>3, NetTypeParts
<1> QED BY <1>1, NetTypeStep, PTL DEF NetSpec

LEMMA NetInvHolds == ASSUME Serial PROVE NetSpec => []NetInv
<1>1. NetInit => NetInv
  BY NetworkAssumption
  DEF NetInit, NetInv, EventInv, TestInv, RetryInv, StaysReachable, Silent, Linked, SomeNetwork
<1> QED BY <1>1, NetStep, NetTypesHold, Serial, PTL DEF NetSpec

\* A connected device without its broker has a task that will try again, as
\* long as no callback runs inside a call of another task.
THEOREM ReconnectStaysArmed == ASSUME Serial PROVE NetSpec => []ReconnectArmed
<1>1. NetInv => ReconnectArmed
  BY DEF NetInv, RetryInv, ReconnectArmed
<1> QED BY <1>1, NetInvHolds, Serial, PTL

\* Until an operator stops the access point the device has it or a network to
\* join, whatever is lost, tested or falls back.
THEOREM DeviceStaysReachable == ASSUME Serial PROVE NetSpec => []StaysReachable
<1>1. NetInv => StaysReachable
  BY DEF NetInv
<1> QED BY <1>1, NetInvHolds, Serial, PTL

\* Only a network the device is connected to replaces the stored one.
THEOREM OnlyTestedNetworks == ASSUME Serial PROVE NetSpec => TestedNetworkIsSaved
<1>1. NetTypeOK /\ NetInv /\ [NetNext]_netVars => [stored' # stored => stored' = link]_netVars
  <2> SUFFICES ASSUME NetTypeOK, NetInv, NetNext, stored' # stored PROVE stored' = link
    OBVIOUS
  <2>1. CASE TestSucceeds
    BY <2>1 DEF TestSucceeds, NetInv, TestInv, Linked
  <2>2. CASE TestBegins
    BY <2>2, Serial DEF TestBegins
  <2>3. CASE Join \/ Lose \/ GotIp \/ Lost \/ WaitEnds \/ APReconnect \/ APTest \/ APStop
    BY <2>3 DEF Join, Lose, GotIp, Lost, WaitEnds, APReconnect, APTest, APStop
  <2>4. CASE \/ \E n \in Networks : WifiTest(n)
             \/ TestFails \/ MqttBegin \/ Retry \/ RetryDisable \/ BrokerAccepts
             \/ ConnectionEnds \/ OnConnect \/ OnDisconnect \/ NetRestart
    BY <2>4 DEF WifiTest, TestFails, MqttBegin, Retry, RetryDisable, BrokerAccepts,
                ConnectionEnds, OnConnect, OnDisconnect, NetRestart
  <2> QED BY <2>1, <2>2, <2>3, <2>4 DEF NetNext
<1> QED BY <1>1, NetInvHolds, NetTypesHold, Serial, PTL DEF NetSpec, TestedNetworkIsSaved

-----------------------------------------------------------------------------
(* The setpoints of the frames                                              *)

\* A quotient and its remainder
LEMMA Divided ==
    ASSUME NEW n \in Nat
    PROVE  /\ n \div 8 \in Nat /\ n % 8 \in 0..7 /\ n = 8 * (n \div 8) + (n % 8)
           /\ n \div 10 \in Nat /\ n % 10 \in 0..9 /\ n = 10 * (n \div 10) + (n % 10)
           /\ n \div 16 \in Nat /\ n % 16 \in 0..15 /\ n = 16 * (n \div 16) + (n % 16)
<1>1. n \div 8 \in Nat /\ n % 8 \in 0..7 /\ n = 8 * (n \div 8) + (n % 8)
  OBVIOUS
<1>2. n \div 10 \in Nat /\ n % 10 \in 0..9 /\ n = 10 * (n \div 10) + (n % 10)
  OBVIOUS
<1>3. n \div 16 \in Nat /\ n % 16 \in 0..15 /\ n = 16 * (n \div 16) + (n % 16)
  OBVIOUS
<1> QED BY <1>1, <1>2, <1>3

\* The two bytes of a frame carry every int16_t.
LEMMA BytesCarry ==
    ASSUME NEW v \in Int, -32768 <= v, v <= 32767
    PROVE  Signed(Bytes(v)) = v
<1> DEFINE q == v \div 256
           r == v % 256
<1>1. q \in -128..127
  OBVIOUS
<1>2. r \in 0..255 /\ v = 256 * q + r
  OBVIOUS
<1>3. Bytes(v) = <<q % 256, r>>
  BY DEF Bytes
<1> HIDE DEF q, r
<1> DEFINE u == 256 * (q % 256) + r
<1>4. Signed(Bytes(v)) = IF u < 32768 THEN u ELSE u - 65536
  <2>1. 2^15 = 32768 /\ 2^16 = 65536
    OBVIOUS
  <2>2. Bytes(v)[1] = q % 256 /\ Bytes(v)[2] = r
    BY <1>3
  <2>3. Signed(Bytes(v)) = IF u < 2^15 THEN u ELSE u - 2^16
    BY <2>2 DEF Signed
  <2> HIDE DEF u
  <2> QED BY <2>1, <2>3
<1>5. CASE q >= 0
  <2>1. q % 256 = q
    BY <1>1, <1>5
  <2>2. u = v
    BY <1>2, <2>1
  <2> HIDE DEF u
  <2> QED BY <1>4, <2>2
<1>6. CASE q < 0
  <2>1. q % 256 = q + 256
    BY <1>1, <1>6
  <2>2. u = v + 65536
    BY <1>1, <1>2, <2>1
  <2> HIDE DEF u
  <2> QED BY <1>4, <2>2
<1> QED BY <1>1, <1>5, <1>6

\* A setpoint fills the 24 bits of a mantissa with a scale of 12 to 27.
LEMMA ScaleIs ==
    ASSUME NEW m \in Nat, 0 < m, m <= 32768
    PROVE  /\ Scale(m) \in 12..27
           /\ 10 * 2^23 <= m * 2^Scale(m) /\ m * 2^Scale(m) < 10 * 2^24
<1> DEFINE Fits(s) == 10 * 2^23 <= m * 2^s /\ m * 2^s < 10 * 2^24
<1>1. \E s \in 12..27 : Fits(s)
  <2>1. m >= 20480 => Fits(12)
    OBVIOUS
  <2>2. m \in 10240..20479 => Fits(13)
    OBVIOUS
  <2>3. m \in 5120..10239 => Fits(14)
    OBVIOUS
  <2>4. m \in 2560..5119 => Fits(15)
    OBVIOUS
  <2>5. m \in 1280..2559 => Fits(16)
    OBVIOUS
  <2>6. m \in 640..1279 => Fits(17)
    OBVIOUS
  <2>7. m \in 320..639 => Fits(18)
    OBVIOUS
  <2>8. m \in 160..319 => Fits(19)
    OBVIOUS
  <2>9. m \in 80..159 => Fits(20)
    OBVIOUS
  <2>10. m \in 40..79 => Fits(21)
    OBVIOUS
  <2>11. m \in 20..39 => Fits(22)
    OBVIOUS
  <2>12. m \in 10..19 => Fits(23)
    OBVIOUS
  <2>13. m \in 5..9 => Fits(24)
    OBVIOUS
  <2>14. m \in 3..4 => Fits(25)
    OBVIOUS
  <2>15. m = 2 => Fits(26)
    OBVIOUS
  <2>16. m = 1 => Fits(27)
    OBVIOUS
  <2> HIDE DEF Fits
  <2> QED BY <2>1, <2>2, <2>3, <2>4, <2>5, <2>6, <2>7, <2>8, <2>9, <2>10, <2>11,
             <2>12, <2>13, <2>14, <2>15, <2>16
<1>2. /\ ~Fits(0) /\ ~Fits(1) /\ ~Fits(2) /\ ~Fits(3) /\ ~Fits(4) /\ ~Fits(5)
      /\ ~Fits(6) /\ ~Fits(7) /\ ~Fits(8) /\ ~Fits(9) /\ ~Fits(10) /\ ~Fits(11)
  OBVIOUS
<1> HIDE DEF Fits
<1>3. Scale(m) \in 0..27 /\ Fits(Scale(m))
  <2>1. \E s \in 0..27 : Fits(s)
    BY <1>1
  <2>2. Scale(m) = CHOOSE s \in 0..27 : Fits(s)
    BY DEF Scale, Fits
  <2> QED BY <2>1, <2>2
<1>4. Scale(m) \in 12..27
  BY <1>2, <1>3
<1> QED BY <1>3, <1>4 DEF Fits

\* A setpoint times its power of two is even, so its tenth is no tie.
LEMMA NearestTenth ==
    ASSUME NEW n \in Nat, n % 16 = 0
    PROVE  Nearest(n, 10) \in Nat /\ \E d \in -4..4 : 10 * Nearest(n, 10) = n + d
<1> DEFINE q == n \div 10
           r == n % 10
<1>1. q \in Nat /\ r \in 0..9 /\ n = 10 * q + r
  BY Divided
<1>2. n = 16 * (n \div 16) /\ n \div 16 \in Nat
  BY Divided
<1>3. Nearest(n, 10) = IF 2 * r > 10 \/ (2 * r = 10 /\ q % 2 = 1) THEN q + 1 ELSE q
  BY DEF Nearest
<1> HIDE DEF q, r
<1>4. r # 5
  BY <1>1, <1>2
<1>5. CASE r > 5
  <2>1. Nearest(n, 10) = q + 1
    BY <1>1, <1>3, <1>5
  <2>2. r - 10 \in -4..4
    BY <1>1, <1>5
  <2>3. 10 * Nearest(n, 10) = n + (10 - r)
    BY <1>1, <2>1
  <2> QED BY <1>1, <1>5, <2>1, <2>3
<1>6. CASE r < 5
  <2>1. Nearest(n, 10) = q
    BY <1>1, <1>3, <1>6
  <2> QED BY <1>1, <1>6, <2>1
<1> QED BY <1>1, <1>4, <1>5, <1>6

\* Rounding to 24 bits takes back the error of the quotient, the tie included.
LEMMA RoundedBack ==
    ASSUME NEW n \in Nat, n % 16 = 0, NEW d \in -4..4, n + d \in Nat
    PROVE  Nearest(n + d, 2^3) * 2^3 = n /\ Nearest(n + d, 2^4) * 2^4 = n
<1>1. PICK j \in Nat : n = 16 * j
  BY Divided
<1>2. Nearest(n + d, 2^3) = 2 * j
  <2> DEFINE q == (n + d) \div 8
             r == (n + d) % 8
  <2>1. q \in Nat /\ r \in 0..7 /\ n + d = 8 * q + r
    BY Divided
  <2>2. Nearest(n + d, 2^3) = IF 2 * r > 8 \/ (2 * r = 8 /\ q % 2 = 1) THEN q + 1 ELSE q
    BY DEF Nearest
  <2> HIDE DEF q, r
  <2>3. CASE d >= 0
    <3>1. q = 2 * j /\ r = d
      BY <1>1, <2>1, <2>3
    <3>2. q % 2 = 0
      BY <3>1
    <3> QED BY <2>2, <2>3, <3>1, <3>2
  <2>4. CASE d < 0
    <3>1. q = 2 * j - 1 /\ r = d + 8
      BY <1>1, <2>1, <2>4
    <3>2. q % 2 = 1
      BY <3>1
    <3> QED BY <2>2, <2>4, <3>1, <3>2
  <2> QED BY <2>3, <2>4
<1>3. Nearest(n + d, 2^4) = j
  <2> DEFINE q == (n + d) \div 16
             r == (n + d) % 16
  <2>1. q \in Nat /\ r \in 0..15 /\ n + d = 16 * q + r
    BY Divided
  <2>2. Nearest(n + d, 2^4) = IF 2 * r > 16 \/ (2 * r = 16 /\ q % 2 = 1) THEN q + 1 ELSE q
    BY DEF Nearest
  <2> HIDE DEF q, r
  <2>3. CASE d >= 0
    <3>1. q = j /\ r = d
      BY <1>1, <2>1, <2>3
    <3> QED BY <2>2, <2>3, <3>1
  <2>4. CASE d < 0
    <3>1. q = j - 1 /\ r = d + 16
      BY <1>1, <2>1, <2>4
    <3> QED BY <1>1, <2>2, <2>4, <3>1
  <2> QED BY <2>3, <2>4
<1> QED BY <1>1, <1>2, <1>3

\* A product with a power of two has the factor 16 and gives back the other one.
Returns(m, s) ==
    m * 2^s \in Nat /\ (m * 2^s) % 16 = 0 /\ (m * 2^s) \div 2^s = m

LEMMA ShiftReturns == \A m \in Nat, s \in 12..27 : Returns(m, s)
<1> SUFFICES ASSUME NEW m \in Nat PROVE \A s \in 12..27 : Returns(m, s)
  OBVIOUS
<1>1. Returns(m, 12) /\ Returns(m, 13) /\ Returns(m, 14) /\ Returns(m, 15)
  BY DEF Returns
<1>2. Returns(m, 16) /\ Returns(m, 17) /\ Returns(m, 18) /\ Returns(m, 19)
  BY DEF Returns
<1>3. Returns(m, 20) /\ Returns(m, 21) /\ Returns(m, 22) /\ Returns(m, 23)
  BY DEF Returns
<1>4. Returns(m, 24) /\ Returns(m, 25) /\ Returns(m, 26) /\ Returns(m, 27)
  BY DEF Returns
<1> QED BY <1>1, <1>2, <1>3, <1>4

LEMMA TenthsReturn ==
    ASSUME NEW m \in Nat, 0 < m, m <= 32768
    PROVE  Truncated(TenTimes(Tenth(m))) = m
<1> DEFINE s == Scale(m)
           n == m * 2^s
<1>1. s \in 12..27 /\ m \in Nat
  BY ScaleIs
<1> HIDE DEF s
<1>2. n \in Nat /\ n % 16 = 0 /\ n \div 2^s = m
  <2>1. Returns(m, s)
    BY <1>1, ShiftReturns
  <2> QED BY <2>1 DEF Returns
<1>3. Tenth(m) = [mantissa |-> Nearest(n, 10), scale |-> s]
  BY DEF Tenth, s
<1> HIDE DEF n
<1>4. PICK d \in -4..4 : Nearest(n, 10) \in Nat /\ 10 * Nearest(n, 10) = n + d
  BY <1>2, NearestTenth
<1>5. n + d \in Nat
  BY <1>4
<1>6. Nearest(n + d, 2^3) * 2^3 = n /\ Nearest(n + d, 2^4) * 2^4 = n
  BY <1>2, <1>4, <1>5, RoundedBack
<1>7. TenTimes(Tenth(m)) = [mantissa |-> n, scale |-> s]
  <2>1. 10 * Tenth(m).mantissa = n + d /\ Tenth(m).scale = s
    BY <1>3, <1>4
  <2> QED BY <1>6, <2>1 DEF TenTimes
<1> QED BY <1>2, <1>7 DEF Truncated

\* What a display can send
FramesTypeOK == tenths \in -Half..Half - 1

\* The board publishes the very setpoint a display has sent, for every int16_t:
\* the quotient is off by less than half a unit, and the rounding of the product
\* takes that back before it is truncated.
THEOREM EchoesAreExact == FramesSpec => []EchoIsExact
<1>1. FramesInit => FramesTypeOK
  BY FramesAssumption DEF FramesInit, FramesTypeOK
<1>2. FramesTypeOK /\ [FramesNext]_tenths => FramesTypeOK'
  BY FramesAssumption DEF FramesNext, FramesTypeOK
<1>3. FramesTypeOK => EchoIsExact
  <2> SUFFICES ASSUME FramesTypeOK PROVE EchoIsExact
    OBVIOUS
  <2>0. 2^15 = 32768
    OBVIOUS
  <2>1. tenths \in Int /\ -32768 <= tenths /\ tenths <= 32767
    <3>1. Half \in Nat /\ Half <= 32768
      BY <2>0, FramesAssumption
    <3> QED BY <3>1 DEF FramesTypeOK
  <2>2. Signed(Bytes(tenths)) = tenths
    BY <2>1, BytesCarry
  <2>3. Published(tenths) = tenths
    <3>1. CASE tenths = 0
      BY <3>1 DEF Published
    <3>2. CASE tenths > 0
      <4>1. tenths \in Nat /\ 0 < tenths /\ tenths <= 32768
        BY <2>1, <3>2
      <4>2. Published(tenths) = Truncated(TenTimes(Tenth(tenths)))
        BY <2>1, <3>2 DEF Published
      <4> QED BY <4>1, <4>2, TenthsReturn
    <3>3. CASE tenths < 0
      <4>1. -tenths \in Nat /\ 0 < -tenths /\ -tenths <= 32768
        BY <2>1, <3>3
      <4>2. Published(tenths) = -Truncated(TenTimes(Tenth(-tenths)))
        BY <2>1, <3>3 DEF Published
      <4>3. Truncated(TenTimes(Tenth(-tenths))) = -tenths
        BY <4>1, TenthsReturn
      <4> QED BY <2>1, <4>2, <4>3
    <3> QED BY <2>1, <3>1, <3>2, <3>3
  <2> QED BY <2>2, <2>3 DEF EchoIsExact
<1> QED BY <1>1, <1>2, <1>3, PTL DEF FramesSpec
==============================================================================
