---------------------------- MODULE OutPinProofs ----------------------------
(***************************************************************************)
(* Proofs about one output and one input.  OutPin, for every duration,     *)
(* poll interval and horizon: while calls do not overlap the relay shows   *)
(* what was asked for, and until millis() wraps an override lasts as long  *)
(* as it should.  InputPin, for every delay and scan period: a level that  *)
(* is held is confirmed, and a glitch is not.                              *)
(***************************************************************************)
EXTENDS OutPin, InputPin, TLAPS

\* Moving one thread on keeps the types of pc and arg.
LEMMA GotoType ==
    ASSUME NEW t \in Thread, NEW step \in Step, TypeOK, Goto(t, step)
    PROVE  pc' \in [Thread -> Step]
BY DEF TypeOK, Goto

LEMMA ArgType ==
    ASSUME NEW t \in Thread, NEW b \in BOOLEAN, TypeOK, arg' = [arg EXCEPT ![t] = b]
    PROVE  arg' \in [Thread -> BOOLEAN]
BY DEF TypeOK

LEMMA TypeStep == TypeOK /\ [Next]_vars => TypeOK'
<1> SUFFICES ASSUME TypeOK, [Next]_vars PROVE TypeOK'
  OBVIOUS
<1>1. ASSUME NEW t \in Thread, NEW state \in BOOLEAN, TurnTo(t, state) PROVE TypeOK'
  <2>1. CASE override
    BY <1>1, <2>1 DEF TurnTo, TypeOK, clocks
  <2>2. CASE ~override
    <3>1. pc' \in [Thread -> Step] /\ arg' \in [Thread -> BOOLEAN]
      BY <1>1, <2>2, GotoType, ArgType DEF TurnTo, Step
    <3> QED BY <1>1, <2>2, <3>1 DEF TurnTo, TypeOK, clocks
  <2> QED BY <2>1, <2>2
<1>2. ASSUME NEW t \in Thread, Arm(t) PROVE TypeOK'
  <2>1. pc' \in [Thread -> Step] /\ arg[t] \in BOOLEAN
    BY <1>2, GotoType DEF Arm, Step, TypeOK
  <2> QED BY <1>2, <2>1 DEF Arm, TypeOK, clocks
<1>3. ASSUME NEW t \in Thread, ReadPercent(t) PROVE TypeOK'
  <2>1. pc' \in [Thread -> Step] /\ arg' \in [Thread -> BOOLEAN]
    BY <1>3, GotoType, ArgType DEF ReadPercent, Step, TypeOK
  <2> QED BY <1>3, <2>1 DEF ReadPercent, TypeOK, clocks
<1>4. ASSUME NEW t \in Thread, Write(t) PROVE TypeOK'
  <2>1. pc' \in [Thread -> Step] /\ arg[t] \in BOOLEAN
    BY <1>4, GotoType DEF Write, Step, TypeOK
  <2> QED BY <1>4, <2>1 DEF Write, TypeOK, clocks
<1>5. ASSUME NEW t \in Thread, Drive(t) PROVE TypeOK'
  <2>1. pc' \in [Thread -> Step] /\ arg[t] \in BOOLEAN
    BY <1>5, GotoType DEF Drive, Step, TypeOK
  <2> QED BY <1>5, <2>1 DEF Drive, TypeOK, clocks
<1>6. ASSUME NEW t \in Thread, DriveForced(t) \/ ClearEnd(t) PROVE TypeOK'
  <2>1. pc' \in [Thread -> Step] /\ 0 \in 0..Word - 1
    BY <1>6, TimeAssumption, GotoType DEF DriveForced, ClearEnd, Step
  <2> QED BY <1>6, <2>1 DEF DriveForced, ClearEnd, TypeOK, clocks
<1>7. ASSUME NEW t \in Thread, SetEnd(t) PROVE TypeOK'
  <2>1. pc' \in [Thread -> Step]
    BY <1>7, GotoType DEF SetEnd, Step
  <2>2. (Millis + Duration) % Word \in 0..Word - 1
    BY TimeAssumption DEF Millis, TypeOK
  <2> QED BY <1>7, <2>1, <2>2 DEF SetEnd, TypeOK, clocks
<1>8. ASSUME NEW t \in Thread, NEW on \in BOOLEAN, NEW state \in BOOLEAN,
             SetOverride(t, on, state), sincePoll' \in 0..Poll
      PROVE  TypeOK'
  <2>1. pc' \in [Thread -> Step]
    BY <1>8, GotoType DEF SetOverride, Step
  <2> QED BY <1>8, <2>1 DEF SetOverride, TypeOK
<1>9. CASE \E on, state \in BOOLEAN : Request(on, state)
  BY <1>8, <1>9 DEF Request, TypeOK, Thread
<1>10. CASE Callback
  <2>1. pc' \in [Thread -> Step]
    BY <1>10, GotoType DEF Callback, Step, Thread
  <2> QED BY <1>10, <2>1 DEF Callback, TypeOK, clocks
<1>11. CASE CheckOverride
  <2>1. sincePoll' \in 0..Poll
    BY <1>11, TimeAssumption DEF CheckOverride
  <2>2. CASE override /\ Expired
    BY <1>8, <1>11, <2>1, <2>2 DEF CheckOverride, Thread
  <2>3. CASE ~(override /\ Expired)
    BY <1>11, <2>1, <2>3 DEF CheckOverride, TypeOK
  <2> QED BY <2>2, <2>3
<1>12. CASE Tick
  BY <1>12, TimeAssumption DEF Tick, TypeOK
<1>13. CASE UNCHANGED vars
  BY <1>13 DEF vars, TypeOK
<1> QED BY <1>1, <1>2, <1>3, <1>4, <1>5, <1>6, <1>7, <1>9, <1>10, <1>11, <1>12, <1>13 DEF Next

LEMMA TypeInit == Init => TypeOK
<1> SUFFICES ASSUME Init PROVE TypeOK
  OBVIOUS
<1>1. sincePoll \in 0..Poll /\ endTime \in 0..Word - 1 /\ elapsed \in Nat /\ age \in Nat
  BY TimeAssumption DEF Init
<1>2. pc \in [Thread -> Step]
  BY DEF Init, Step
<1>3. arg \in [Thread -> BOOLEAN]
  BY DEF Init
<1> QED BY <1>1, <1>2, <1>3 DEF Init, TypeOK

\* The variables have their types; needs no assumption on the interleaving.
THEOREM PinTypeCorrect == Spec => []TypeOK
<1>1. Init => TypeOK
  BY TypeInit
<1>2. TypeOK /\ [Next]_vars => TypeOK'
  BY TypeStep
<1> QED BY <1>1, <1>2, PTL DEF Spec

-----------------------------------------------------------------------------
(* Calls that do not overlap.                                              *)

\* At most one thread is inside a call.
OneCall == \A t, u \in Thread : pc[t] # "idle" /\ pc[u] # "idle" => t = u

\* What the step a call is about to take relies on.
Ready(t) ==
    /\ pc[t] \in {"setEnd", "force"} => override
    /\ pc[t] = "clearEnd" => ~override
    /\ pc[t] \in {"arm", "write", "drive"} => ~override /\ arg[t] = soft
    /\ pc[t] = "readPercent" /\ override => hw = forced

IntentInv ==
    /\ TypeOK /\ OneCall
    /\ \A t \in Thread : Ready(t)
    /\ PinShowsIntent

\* A call that runs alone preserves the invariant, step by step.
LEMMA IntentStep ==
    ASSUME Serial = TRUE, IntentInv, TypeOK', [Next]_vars
    PROVE  IntentInv'
<1> USE DEF IntentInv, TypeOK, OneCall, Ready, PinShowsIntent, Idle, Thread, Step, Goto, clocks
<1>1. ASSUME NEW t \in Thread, NEW state \in BOOLEAN, TurnTo(t, state) PROVE IntentInv'
  BY <1>1 DEF TurnTo, MayCall
<1>2. ASSUME NEW t \in Thread, Arm(t) \/ ReadPercent(t) PROVE IntentInv'
  BY <1>2 DEF Arm, ReadPercent
<1>3. ASSUME NEW t \in Thread, Write(t) \/ Drive(t) PROVE IntentInv'
  BY <1>3 DEF Write, Drive
<1>4. ASSUME NEW t \in Thread, SetEnd(t) \/ DriveForced(t) \/ ClearEnd(t) PROVE IntentInv'
  BY <1>4 DEF SetEnd, DriveForced, ClearEnd
<1>5. ASSUME NEW on \in BOOLEAN, NEW state \in BOOLEAN, Request(on, state) PROVE IntentInv'
  BY <1>5 DEF Request, SetOverride, MayCall
<1>6. CASE Callback
  BY <1>6 DEF Callback, MayCall
<1>7. CASE CheckOverride
  BY <1>7 DEF CheckOverride, SetOverride, MayCall
<1>8. CASE Tick
  BY <1>8 DEF Tick
<1>9. CASE UNCHANGED vars
  BY <1>9 DEF vars
<1> HIDE DEF IntentInv, TypeOK, OneCall, Ready, PinShowsIntent, Idle, Thread, Step, Goto, clocks
<1> QED BY <1>1, <1>2, <1>3, <1>4, <1>5, <1>6, <1>7, <1>8, <1>9 DEF Next

LEMMA IntentInit == Init => IntentInv
BY TypeInit DEF Init, IntentInv, OneCall, Ready, PinShowsIntent, Idle, Thread

LEMMA IntentInvariance == ASSUME Serial = TRUE PROVE Spec => []IntentInv
<1>1. IntentInv /\ TypeOK' /\ [Next]_vars => IntentInv'
  BY IntentStep
<1> QED BY <1>1, IntentInit, PinTypeCorrect, PTL DEF Spec

\* While calls do not overlap, the relay shows the override in force or else
\* the state last commanded.
THEOREM IntentShown == ASSUME Serial = TRUE PROVE Spec => []PinShowsIntent
<1>1. IntentInv => PinShowsIntent
  BY DEF IntentInv
<1> QED BY <1>1, IntentInvariance, PTL

-----------------------------------------------------------------------------
(* The timeout, before millis() wraps.                                     *)

NoWrap == Horizon + Duration < Word

\* Once its end time is written, an override ends Duration after it was set;
\* checkOverride() has had a chance to end it at every poll.
TimeoutInv ==
    /\ TypeOK /\ IntentInv
    /\ elapsed <= Horizon
    /\ override => age <= elapsed /\ age <= Duration + sincePoll
    /\ override /\ (\A t \in Thread : pc[t] # "setEnd") => endTime = elapsed - age + Duration
    /\ \A t \in Thread : pc[t] = "setEnd" => age = 0

\* Below the word size, millis() is the time since boot.
LEMMA Unwrapped ==
    ASSUME NoWrap, TypeOK, elapsed <= Horizon
    PROVE  Millis = elapsed /\ (Millis + Duration) % Word = elapsed + Duration
<1>1. elapsed \in Nat /\ elapsed < Word /\ elapsed + Duration < Word
  BY TimeAssumption DEF NoWrap, TypeOK
<1>2. \A n \in Nat : n < Word => n % Word = n
  BY TimeAssumption
<1>3. elapsed + Duration \in Nat
  BY <1>1, TimeAssumption
<1> QED BY <1>1, <1>2, <1>3 DEF Millis

LEMMA TimeoutStep ==
    ASSUME Serial = TRUE, NoWrap, TimeoutInv, TypeOK', IntentInv', [Next]_vars
    PROVE  TimeoutInv'
<1>0. /\ Millis = elapsed /\ (Millis + Duration) % Word = elapsed + Duration
      /\ elapsed \in Nat /\ age \in Nat /\ endTime \in Nat /\ sincePoll \in 0..Poll
      /\ pc \in [Thread -> Step]
  BY Unwrapped DEF TimeoutInv, TypeOK
<1> USE TimeAssumption DEF TimeoutInv, OneCall, IntentInv, Idle, Ready, Goto, clocks
<1>1. ASSUME NEW t \in Thread, NEW state \in BOOLEAN, TurnTo(t, state) PROVE TimeoutInv'
  BY <1>0, <1>1 DEF TurnTo
<1>2. ASSUME NEW t \in Thread, Arm(t) \/ ReadPercent(t) \/ Write(t) \/ Drive(t)
      PROVE  TimeoutInv'
  BY <1>0, <1>2 DEF Arm, ReadPercent, Write, Drive
<1>3. ASSUME NEW t \in Thread, SetEnd(t) PROVE TimeoutInv'
  BY <1>0, <1>3 DEF SetEnd
<1>4. ASSUME NEW t \in Thread, DriveForced(t) \/ ClearEnd(t) PROVE TimeoutInv'
  BY <1>0, <1>4 DEF DriveForced, ClearEnd
<1>5. ASSUME NEW on \in BOOLEAN, NEW state \in BOOLEAN, Request(on, state) PROVE TimeoutInv'
  BY <1>0, <1>5 DEF Request, SetOverride, MayCall, Thread
<1>6. CASE Callback
  BY <1>0, <1>6 DEF Callback, MayCall, Thread
<1>7. CASE CheckOverride
  <2>1. CASE override /\ Expired
    BY <1>0, <1>7, <2>1 DEF CheckOverride, SetOverride, MayCall, Thread
  <2>2. CASE ~(override /\ Expired)
    <3>1. override => age <= Duration
      BY <1>0, <1>7, <2>2 DEF CheckOverride, MayCall, Expired
    <3>2. UNCHANGED <<override, endTime, pc, elapsed, age>> /\ sincePoll' = 0
      BY <1>7, <2>2 DEF CheckOverride
    <3> QED BY <1>0, <3>1, <3>2
  <2> QED BY <2>1, <2>2
<1>8. CASE Tick
  BY <1>0, <1>8 DEF Tick
<1>9. CASE UNCHANGED vars
  BY <1>0, <1>9 DEF vars
<1> HIDE DEF TimeoutInv, OneCall, IntentInv, Idle, Ready, Goto, clocks
<1> QED BY <1>1, <1>2, <1>3, <1>4, <1>5, <1>6, <1>7, <1>8, <1>9 DEF Next

LEMMA TimeoutInvariance == ASSUME Serial = TRUE, NoWrap PROVE Spec => []TimeoutInv
<1>1. Init => TimeoutInv
  BY TimeAssumption, IntentInit DEF Init, TimeoutInv, IntentInv, Thread
<1>2. TimeoutInv /\ TypeOK' /\ IntentInv' /\ [Next]_vars => TimeoutInv'
  BY TimeoutStep
<1> QED BY <1>1, <1>2, PinTypeCorrect, IntentInvariance, PTL DEF Spec

\* While calls do not overlap and before millis() wraps, an override is over
\* at the latest one poll after its duration.
THEOREM TimeoutBounded == ASSUME Serial = TRUE, NoWrap PROVE Spec => []OverrideEnds
<1>1. TimeoutInv => OverrideEnds
  BY TimeAssumption DEF TimeoutInv, TypeOK, OverrideEnds
<1> QED BY <1>1, TimeoutInvariance, PTL

\* Under the same assumptions checkOverride() never ends an override early.
THEOREM TimeoutNotEarly ==
    ASSUME Serial = TRUE, NoWrap PROVE Spec => OverrideLastsItsDuration
<1>1. TimeoutInv /\ [Next]_vars
        => [CheckOverride /\ override /\ ~override' => age > Duration]_vars
  <2> SUFFICES ASSUME TimeoutInv, CheckOverride, override, ~override' PROVE age > Duration
    OBVIOUS
  <2>1. Expired /\ \A t \in Thread : pc[t] # "setEnd"
    BY DEF CheckOverride, MayCall, Idle, TimeoutInv, IntentInv, OneCall
  <2> QED BY <2>1, Unwrapped, TimeAssumption DEF TimeoutInv, TypeOK, Expired
<1> QED BY <1>1, TimeoutInvariance, PTL DEF Spec, OverrideLastsItsDuration

-----------------------------------------------------------------------------
(* The debounced input                                                     *)

\* The entry waits for a scan, and no scan has passed it since the pin settled.
Waiting == queued /\ scan = "idle"

\* A scan has read the present level, at most ScanPeriod after the pin settled.
Reading ==
    /\ pending = State(level) /\ timer \in 0..Debounce
    /\ steady + timer <= Settle + ScanPeriod + Debounce

\* What the wrap of millis() excuses: only an edge back to the initial level
\* depends on the comparison with millis().
Excused == lost \/ (straddled /\ level = value)

\* Unless it is excused, the level waits for a scan, was read by one, or is the
\* confirmed one.  While it waits millis() counts on from its edge, or has wrapped.
SettleInv ==
    /\ level \in BOOLEAN /\ preValue = level /\ value \in BOOLEAN /\ confirmed \in BOOLEAN
    /\ now \in 0..InputWord - 1 /\ changedAt \in 0..InputWord - 1
    /\ straddled \in BOOLEAN
    /\ steady \in Nat /\ sinceScan \in 0..ScanPeriod
    /\ pending \in {None, 0, 1} /\ timer \in None..Debounce /\ scan \in {"idle", "erase"}
    /\ Waiting /\ level # value => steady <= sinceScan
    /\ Waiting /\ ~straddled => now = changedAt + steady /\ steady <= Settle + sinceScan
    /\ lost \/ Waiting \/ pending \in {None, State(level)}
    /\ Excused \/ Waiting \/ Reading \/ confirmed = level

\* A tick takes from the delay what it adds to the age.
LEMMA Countdown ==
    ASSUME NEW a \in Nat, NEW b \in Int, NEW c \in Nat, c <= a + 1, NEW limit \in Int,
           a + b <= limit
    PROVE  c + (b - 1) <= limit
OBVIOUS

\* Before millis() wraps, a scan passes over a pin only if it has not settled.
LEMMA PassedOver ==
    ASSUME SettleInv, Waiting, ~straddled, ~CheckTickTime
    PROVE  level = value /\ steady < Settle
<1>1. /\ now \in 0..InputWord - 1 /\ changedAt \in 0..InputWord - 1 /\ steady \in Nat
      /\ now = changedAt + steady /\ ~(now >= (changedAt + Settle) % InputWord)
      /\ level = value
  BY DEF SettleInv, CheckTickTime
<1>2. CASE changedAt + Settle < InputWord
  <2>1. (changedAt + Settle) % InputWord = changedAt + Settle
    BY <1>1, <1>2, InputAssumption
  <2> QED BY <1>1, <2>1, InputAssumption
<1>3. CASE changedAt + Settle >= InputWord
  <2>1. (changedAt + Settle) % InputWord = changedAt + Settle - InputWord
    BY <1>1, <1>3, InputAssumption
  <2> QED BY <1>1, <2>1, InputAssumption
<1> QED BY <1>1, <1>2, <1>3, InputAssumption

LEMMA SettleTick ==
    ASSUME SettleInv, InputTick
    PROVE  SettleInv'
<1>1. /\ timer # 0 /\ sinceScan < ScanPeriod /\ sinceScan' = sinceScan + 1
      /\ timer' = IF timer = None THEN None ELSE timer - 1
      /\ steady' = UpTo(steady, Latest + 1) /\ now' = (now + 1) % InputWord
      /\ straddled' = (straddled \/ (queued /\ now' = 0))
      /\ UNCHANGED <<level, preValue, value, changedAt, queued, pending, confirmed, scan, lost>>
  BY DEF InputTick, inputClocks
<1>2. steady' \in Nat /\ steady' <= steady + 1
  BY <1>1, InputAssumption DEF UpTo, SettleInv, Latest
<1>3. now' \in 0..InputWord - 1 /\ (now' # 0 => now' = now + 1)
  <2>1. now \in 0..InputWord - 1 /\ InputWord \in Nat
    BY InputAssumption DEF SettleInv
  <2>2. CASE now = InputWord - 1
    <3>1. (now + 1) % InputWord = 0
      BY <2>1, <2>2
    <3> QED BY <1>1, <2>1, <3>1
  <2>3. CASE now # InputWord - 1
    <3>1. (now + 1) % InputWord = now + 1
      BY <2>1, <2>3
    <3> QED BY <1>1, <2>1, <2>3, <3>1
  <2> QED BY <2>2, <2>3
<1>4. straddled' \in BOOLEAN /\ (~straddled' => ~straddled) /\ (straddled => straddled')
      /\ (~straddled' /\ queued => now' # 0)
  BY <1>1 DEF SettleInv
<1>5. State(level)' = State(level)
  BY <1>1 DEF State
<1>6. timer' \in None..Debounce
  BY <1>1, InputAssumption DEF SettleInv, None
<1>7. ASSUME Reading PROVE Reading'
  <2>1. /\ timer \in 1..Debounce /\ timer' = timer - 1
        /\ steady + timer <= Settle + ScanPeriod + Debounce
    BY <1>1, <1>7, InputAssumption DEF Reading, None
  <2>2. pending' = State(level)'
    BY <1>1, <1>5, <1>7 DEF Reading
  <2>3. steady \in Nat
    BY DEF SettleInv
  <2>4. timer \in Int /\ timer' \in Int /\ timer' \in 0..Debounce
    BY <2>1, InputAssumption
  <2>5. Settle + ScanPeriod + Debounce \in Int
    BY InputAssumption
  <2>6. steady' + timer' <= Settle + ScanPeriod + Debounce
    BY <1>2, <2>1, <2>3, <2>4, <2>5, Countdown
  <2> QED BY <2>2, <2>4, <2>6 DEF Reading
<1>8. (Waiting <=> Waiting') /\ (Excused => Excused')
  BY <1>1, <1>4 DEF Waiting, Excused
<1>9. Waiting' /\ level' # value' => steady' <= sinceScan'
  <2>1. Waiting /\ level # value => steady <= sinceScan
    BY DEF SettleInv
  <2>2. steady \in Nat /\ sinceScan \in Nat
    BY InputAssumption DEF SettleInv
  <2> QED BY <1>1, <1>2, <1>8, <2>1, <2>2
<1>10. ASSUME Waiting', ~straddled'
       PROVE  now' = changedAt' + steady' /\ steady' <= Settle + sinceScan'
  <2>1. now = changedAt + steady /\ steady <= Settle + sinceScan
    BY <1>4, <1>8, <1>10 DEF SettleInv
  <2>2. now' = now + 1
    BY <1>3, <1>4, <1>8, <1>10 DEF Waiting
  <2>3. steady \in Nat /\ sinceScan \in Nat /\ changedAt \in Nat
    BY InputAssumption DEF SettleInv
  <2>4. steady' = steady + 1
    BY <1>1, <2>1, <2>3, InputAssumption DEF UpTo, Latest
  <2> QED BY <1>1, <2>1, <2>2, <2>3, <2>4, InputAssumption
<1>11. lost' \/ Waiting' \/ pending' \in {None, State(level)'}
  BY <1>1, <1>5, <1>8 DEF SettleInv
<1>12. Excused' \/ Waiting' \/ Reading' \/ confirmed' = level'
  BY <1>1, <1>7, <1>8 DEF SettleInv
<1>13. sinceScan' \in 0..ScanPeriod
  BY <1>1, InputAssumption DEF SettleInv
<1> QED BY <1>1, <1>2, <1>3, <1>4, <1>6, <1>9, <1>10, <1>11, <1>12, <1>13 DEF SettleInv

LEMMA SettleStep == SettleInv /\ [InputNext]_inputVars => SettleInv'
<1> SUFFICES ASSUME SettleInv, [InputNext]_inputVars PROVE SettleInv'
  OBVIOUS
<1>1. CASE Edge
  <2>1. /\ level' = ~level /\ preValue' = ~level /\ changedAt' = now /\ steady' = 0
        /\ queued' = TRUE /\ lost' = (lost \/ scan = "erase")
        /\ UNCHANGED <<value, now, pending, timer, confirmed, scan, sinceScan, straddled>>
    BY <1>1 DEF Edge
  <2>2. lost' \/ Waiting'
    BY <2>1 DEF SettleInv, Waiting
  <2>3. level' \in BOOLEAN /\ preValue' = level'
    BY <2>1 DEF SettleInv
  <2>4. steady' \in Nat /\ steady' <= sinceScan' /\ steady' <= Settle + sinceScan'
        /\ changedAt' \in 0..InputWord - 1 /\ now' = changedAt' + steady'
    BY <2>1, InputAssumption DEF SettleInv
  <2> QED BY <2>1, <2>2, <2>3, <2>4 DEF SettleInv, Excused
<1>2. CASE ScanQueue
  <2>1. /\ scan = "idle" /\ sinceScan = ScanPeriod /\ sinceScan' = 0
        /\ UNCHANGED <<level, preValue, value, now, changedAt, queued, confirmed, steady,
                       straddled>>
    BY <1>2 DEF ScanQueue, inputClocks
  <2>2. State(level)' = State(level) /\ sinceScan' \in 0..ScanPeriod
    BY <2>1, InputAssumption DEF State
  <2>3. CASE queued /\ CheckTickTime
    <3>1. pending' = State(level) /\ timer' = Debounce /\ scan' = "erase" /\ lost' = FALSE
      BY <1>2, <2>3 DEF ScanQueue
    <3>2. ~Waiting' /\ Waiting
      BY <2>1, <2>3, <3>1 DEF Waiting
    <3>3. timer' \in None..Debounce /\ timer' \in 0..Debounce
      BY <3>1, InputAssumption DEF None
    <3>4. pending' \in {None, 0, 1}
      BY <3>1 DEF State
    <3>5. Excused' \/ Reading'
      <4>1. CASE straddled /\ level = value
        BY <2>1, <4>1 DEF Excused
      <4>2. CASE ~(straddled /\ level = value)
        <5>1. steady <= Settle + ScanPeriod
          BY <2>1, <3>2, <4>2, InputAssumption DEF SettleInv
        <5> QED BY <2>1, <2>2, <3>1, <3>3, <5>1, InputAssumption DEF Reading, SettleInv
      <4> QED BY <4>1, <4>2
    <3> QED BY <2>1, <2>2, <3>1, <3>2, <3>3, <3>4, <3>5 DEF SettleInv
  <2>4. CASE ~(queued /\ CheckTickTime)
    <3>1. UNCHANGED <<pending, timer, scan, lost>>
      BY <1>2, <2>4 DEF ScanQueue
    <3>2. Waiting' => Waiting /\ ~CheckTickTime
      BY <2>1, <2>4, <3>1 DEF Waiting
    <3>3. Waiting => Waiting'
      BY <2>1, <3>1 DEF Waiting
    <3>4. Waiting' => level' = value'
      BY <2>1, <3>2 DEF CheckTickTime, SettleInv
    <3>5. Waiting' /\ ~straddled' => now' = changedAt' + steady' /\ steady' <= Settle + sinceScan'
      BY <2>1, <3>2, PassedOver, InputAssumption DEF SettleInv
    <3>6. (Reading => Reading') /\ (Excused => Excused')
      BY <2>1, <2>2, <3>1 DEF Reading, Excused
    <3> QED BY <2>1, <2>2, <3>1, <3>3, <3>4, <3>5, <3>6 DEF SettleInv
  <2> QED BY <2>3, <2>4
<1>3. CASE Erase
  <2>1. /\ scan = "erase" /\ scan' = "idle" /\ queued' = FALSE
        /\ UNCHANGED <<level, preValue, value, now, changedAt, pending, timer, confirmed,
                       sinceScan, steady, lost, straddled>>
    BY <1>3 DEF Erase, inputClocks
  <2>2. ~Waiting /\ ~Waiting' /\ State(level)' = State(level)
    BY <2>1 DEF Waiting, State
  <2>3. (Reading => Reading') /\ (Excused => Excused')
    BY <2>1, <2>2 DEF Reading, Excused
  <2> QED BY <2>1, <2>2, <2>3 DEF SettleInv
<1>4. CASE Confirm
  <2>1. /\ scan = "idle" /\ timer' = None /\ pending' = None
        /\ confirmed' = IF pending \in {None, State(level)} THEN level ELSE confirmed
        /\ straddled' = (straddled /\ queued)
        /\ UNCHANGED <<level, preValue, value, now, changedAt, queued, scan, sinceScan,
                       steady, lost>>
    BY <1>4 DEF Confirm, inputClocks
  <2>2. timer' \in None..Debounce
    BY <2>1, InputAssumption DEF None
  <2>3. (Waiting <=> Waiting') /\ (queued => Waiting)
    BY <2>1 DEF Waiting
  <2>4. straddled' \in BOOLEAN /\ (Waiting => straddled' = straddled)
    BY <2>1 DEF Waiting, SettleInv
  <2>5. confirmed' \in BOOLEAN
    BY <2>1 DEF SettleInv
  <2>6. Excused' \/ Waiting' \/ confirmed' = level'
    BY <2>1, <2>3 DEF SettleInv, Excused
  <2> QED BY <2>1, <2>2, <2>3, <2>4, <2>5, <2>6 DEF SettleInv
<1>5. CASE InputTick
  BY <1>5, SettleTick
<1>6. CASE UNCHANGED inputVars
  BY <1>6 DEF inputVars, inputClocks, SettleInv, Waiting, Reading, State, Excused, CheckTickTime
<1> QED BY <1>1, <1>2, <1>3, <1>4, <1>5, <1>6 DEF InputNext

LEMMA SettleInit == InputInit => SettleInv
<1> SUFFICES ASSUME InputInit PROVE SettleInv
  OBVIOUS
<1>1. /\ level \in BOOLEAN /\ preValue = level /\ value = level /\ confirmed = level
      /\ now \in 0..InputWord - 1 /\ changedAt = now /\ queued = FALSE /\ pending = None
      /\ timer = None /\ scan = "idle" /\ sinceScan = 0 /\ steady = 0 /\ straddled = FALSE
  BY DEF InputInit
<1>2. ~Waiting
  BY <1>1 DEF Waiting
<1>3. sinceScan \in 0..ScanPeriod /\ steady \in Nat /\ timer \in None..Debounce
  BY <1>1, InputAssumption DEF None
<1> QED BY <1>1, <1>2, <1>3 DEF SettleInv

\* A level the pin has held long enough is the confirmed one, whatever glitches
\* preceded it and wherever millis() stands, unless its edge fell between the
\* scan's read and its erase or was one back to the initial level over whose
\* wait millis() wrapped.
THEOREM SettledIsRead == InputSpec => []SettledInputIsRead
<1>1. SettleInv => SettledInputIsRead
  <2> SUFFICES ASSUME SettleInv, steady > Latest, ~Excused PROVE confirmed = level
    BY DEF SettledInputIsRead, Excused
  <2>1. ~Waiting
    BY InputAssumption DEF SettleInv, Excused, Latest
  <2>2. ~Reading
    BY InputAssumption DEF SettleInv, Reading, Latest
  <2> QED BY <2>1, <2>2 DEF SettleInv
<1> QED BY <1>1, SettleInit, SettleStep, PTL DEF InputSpec
-----------------------------------------------------------------------------
(* Glitches                                                                *)

\* The time since the scan that began the delay
Elapsed == Debounce - timer

\* The delay runs for the level it began with, and that level was held since.
Undisturbed ==
    /\ pending = State(level) /\ (queued => scan = "erase")
    /\ Elapsed <= longest /\ Elapsed <= steady

\* Edges came since, after the level had been held for all but the time to the
\* next scan, or, when that scan found the pin unsettled, to the one after it.
\* A third edge leaves the pin at the other level.
Interrupted ==
    /\ queued /\ scan = "idle" /\ edges >= 2
    /\ pending = State(level) => edges >= 3
    /\ \/ Elapsed <= longest + sinceScan
       \/ /\ Elapsed <= longest + ScanPeriod + sinceScan
          /\ pending # State(level) => level = value
          /\ level = value => steady >= sinceScan
       \/ pending # State(level) /\ edges >= 4

\* What may confirm another level, unless an edge was lost, too many came or an
\* entry may be stuck since a wrap of millis()
GlitchInv ==
    /\ value \in BOOLEAN /\ longest \in Nat /\ edges \in 0..5
    /\ timer = None <=> pending = None
    /\ timer # None /\ ~straddled => steady + timer <= Settle + ScanPeriod + Debounce
    /\ (queued \/ timer # None) /\ ~straddled => edges >= 1
    /\ ~lost /\ ~straddled /\ edges <= 4 /\ timer # None /\ pending # State(confirmed)
       => Undisturbed \/ Interrupted

\* A delay runs whose callback may confirm another level.
Risky == ~lost /\ ~straddled /\ edges <= 4 /\ timer # None /\ pending # State(confirmed)

LEMMA ScansWhenSettled ==
    ASSUME Settle <= ScanPeriod, SettleInv, GlitchInv, ScanQueue,
           ~(queued /\ CheckTickTime), Risky
    PROVE  Undisturbed' \/ Interrupted'
<1>1. /\ sinceScan = ScanPeriod /\ sinceScan' = 0 /\ scan = "idle"
      /\ UNCHANGED <<level, value, queued, pending, timer, scan, edges, steady, longest>>
  BY DEF ScanQueue
<1>2. CASE Undisturbed
  BY <1>1, <1>2 DEF Undisturbed, Elapsed, State
<1>3. CASE Interrupted
  <2>1. queued /\ level = value /\ steady < Settle /\ steady \in Nat
    <3>1. queued /\ Waiting /\ ~straddled /\ ~CheckTickTime
      BY <1>3 DEF Interrupted, Waiting, Risky
    <3> QED BY <3>1, PassedOver DEF SettleInv
  <2>2. timer \in Int /\ longest \in Nat /\ edges \in Nat
    BY InputAssumption DEF SettleInv, GlitchInv, None
  <2>3. ~(steady >= sinceScan)
    BY <1>1, <2>1, InputAssumption
  <2>4. Elapsed <= longest + sinceScan \/ (pending # State(level) /\ edges >= 4)
    BY <1>3, <2>1, <2>3 DEF Interrupted
  <2>5. Elapsed' = Elapsed /\ State(level)' = State(level)
    BY <1>1 DEF Elapsed, State
  <2>6. CASE Elapsed <= longest + sinceScan
    <3>1. Elapsed' <= longest' + ScanPeriod + sinceScan'
      BY <1>1, <2>2, <2>5, <2>6, InputAssumption DEF Elapsed
    <3>2. steady' >= sinceScan'
      BY <1>1, <2>1
    <3> QED BY <1>1, <1>3, <2>1, <2>5, <3>1, <3>2 DEF Interrupted
  <2>7. CASE pending # State(level) /\ edges >= 4
    BY <1>1, <1>3, <2>5, <2>7 DEF Interrupted
  <2> QED BY <2>4, <2>6, <2>7
<1> QED BY <1>2, <1>3 DEF GlitchInv, Risky

LEMMA EdgeInterrupts ==
    ASSUME SettleInv, GlitchInv, Edge, Risky'
    PROVE  Interrupted'
<1>1. /\ level' = ~level /\ queued' = TRUE /\ edges' = UpTo(edges, 5)
      /\ ~lost /\ scan = "idle"
      /\ UNCHANGED <<value, pending, timer, confirmed, scan, sinceScan, longest, straddled>>
  BY DEF Edge, Risky, SettleInv
<1>2. edges \in 1..4 /\ edges' = edges + 1 /\ timer # None
  BY <1>1 DEF GlitchInv, Risky, UpTo
<1>3. Risky
  BY <1>1, <1>2 DEF Risky, State
<1>4. Undisturbed \/ Interrupted
  BY <1>3 DEF GlitchInv, Risky
<1>5. /\ level \in BOOLEAN /\ value \in BOOLEAN /\ pending \in {0, 1} /\ Elapsed' = Elapsed
      /\ Elapsed \in Int /\ longest \in Nat /\ sinceScan \in Nat
  BY <1>1, <1>2, InputAssumption DEF SettleInv, GlitchInv, Elapsed, None
<1>6. (pending' = State(level)') <=> (pending # State(level))
  <2>1. level = TRUE \/ level = FALSE
    BY <1>5
  <2>2. CASE level = TRUE
    <3>1. State(level) = 1 /\ State(level)' = 0
      BY <1>1, <2>2 DEF State
    <3> QED BY <1>1, <1>5, <3>1
  <2>3. CASE level = FALSE
    <3>1. State(level) = 0 /\ State(level)' = 1
      BY <1>1, <2>3 DEF State
    <3> QED BY <1>1, <1>5, <3>1
  <2> QED BY <2>1, <2>2, <2>3
<1>7. CASE Undisturbed
  <2>1. Elapsed' <= longest' + sinceScan'
    BY <1>1, <1>5, <1>7 DEF Undisturbed
  <2> QED BY <1>1, <1>2, <1>6, <1>7, <2>1 DEF Interrupted, Undisturbed
<1>8. CASE Interrupted
  <2>1. edges' >= 3 /\ (pending = State(level) => edges' >= 4)
    BY <1>2, <1>8 DEF Interrupted
  <2>2. CASE pending = State(level)
    BY <1>1, <1>2, <1>6, <2>1, <2>2 DEF Interrupted
  <2>3. CASE pending # State(level)
    <3>1. edges < 4
      BY <1>2, <1>1 DEF Risky
    <3>2. \/ Elapsed <= longest + sinceScan
          \/ Elapsed <= longest + ScanPeriod + sinceScan /\ level = value
      BY <1>2, <1>8, <2>3, <3>1 DEF Interrupted
    <3>3. level = value => level' # value'
      BY <1>1, <1>5
    <3> QED BY <1>1, <1>2, <1>5, <1>6, <2>1, <2>3, <3>2, <3>3 DEF Interrupted
  <2> QED BY <2>2, <2>3
<1> QED BY <1>4, <1>7, <1>8

\* While an entry waits or a delay runs, the pin has not settled.
LEMMA NotSettledYet ==
    ASSUME SettleInv, GlitchInv, InputTick, queued \/ timer # None, ~straddled
    PROVE  steady' <= Latest /\ edges' = edges
<1>1. /\ scan = "idle" /\ timer # 0 /\ sinceScan < ScanPeriod /\ steady' = UpTo(steady, Latest + 1)
      /\ edges' = IF steady' > Latest THEN 0 ELSE edges
  BY DEF InputTick
<1>2. steady \in Nat /\ sinceScan \in Nat /\ timer \in None..Debounce
  BY InputAssumption DEF SettleInv
<1>3. steady < Latest
  <2>1. CASE queued
    <3>1. steady <= Settle + sinceScan
      BY <1>1, <2>1 DEF SettleInv, Waiting
    <3> QED BY <1>1, <1>2, <3>1, InputAssumption DEF Latest
  <2>2. CASE timer # None
    <3>1. steady + timer <= Settle + ScanPeriod + Debounce /\ timer \in 1..Debounce
      BY <1>1, <1>2, <2>2, InputAssumption DEF GlitchInv, None
    <3> QED BY <1>2, <3>1, InputAssumption DEF Latest
  <2> QED BY <2>1, <2>2
<1>4. steady' = steady + 1 /\ steady' <= Latest
  BY <1>1, <1>2, <1>3, InputAssumption DEF UpTo, Latest
<1> QED BY <1>1, <1>2, <1>4, InputAssumption DEF Latest

LEMMA TickRisks ==
    ASSUME SettleInv, GlitchInv, InputTick, Risky'
    PROVE  Undisturbed' \/ Interrupted'
<1>1. /\ scan = "idle" /\ timer # 0 /\ sinceScan < ScanPeriod /\ sinceScan' = sinceScan + 1
      /\ timer' = IF timer = None THEN None ELSE timer - 1
      /\ steady' = UpTo(steady, Latest + 1) /\ (~straddled' => ~straddled)
      /\ longest' = IF level # confirmed /\ steady' > longest THEN steady' ELSE longest
      /\ UNCHANGED <<level, value, queued, pending, confirmed, scan, lost>>
  BY DEF InputTick
<1>2. timer # None /\ ~straddled
  BY <1>1 DEF Risky
<1>3. edges' = edges /\ Risky /\ State(level)' = State(level) /\ State(confirmed)' = State(confirmed)
  BY <1>1, <1>2, NotSettledYet DEF Risky, State
<1>4. /\ timer \in 1..Debounce /\ steady \in Nat /\ longest \in Nat
      /\ sinceScan \in Nat /\ edges \in Nat
  BY <1>1, <1>2, InputAssumption DEF SettleInv, GlitchInv, None
<1>5. Elapsed' = Elapsed + 1 /\ Elapsed \in 0..Debounce - 1
  BY <1>1, <1>2, <1>4, InputAssumption DEF Elapsed
<1>6. steady' \in Nat /\ longest' \in Nat /\ longest <= longest'
  BY <1>1, <1>4, InputAssumption DEF UpTo, Latest
<1>7. CASE Undisturbed
  <2>1. Elapsed + 1 <= steady'
    <3>1. Debounce <= Latest
      BY InputAssumption DEF Latest
    <3>2. Elapsed <= steady
      BY <1>7 DEF Undisturbed
    <3>3. CASE steady < Latest + 1
      BY <1>1, <1>4, <1>5, <3>2, <3>3 DEF UpTo
    <3>4. CASE ~(steady < Latest + 1)
      <4>1. steady' = steady
        BY <1>1, <3>4 DEF UpTo
      <4> QED BY <1>4, <1>5, <3>1, <3>4, <4>1, InputAssumption DEF Latest
    <3> QED BY <3>3, <3>4
  <2>2. level # confirmed
    BY <1>3, <1>7 DEF Undisturbed, Risky
  <2>3. steady' <= longest'
    BY <1>1, <1>4, <1>6, <2>2
  <2>4. Elapsed' <= steady' /\ Elapsed' <= longest'
    BY <1>5, <1>6, <2>1, <2>3
  <2> QED BY <1>1, <1>3, <1>7, <2>4 DEF Undisturbed
<1>8. CASE Interrupted
  <2>1. /\ queued' /\ scan' = "idle" /\ edges' >= 2
        /\ pending' = State(level)' => edges' >= 3
    BY <1>1, <1>3, <1>8 DEF Interrupted
  <2>2. CASE Elapsed <= longest + sinceScan
    <3>1. Elapsed' <= longest' + sinceScan'
      BY <1>1, <1>4, <1>5, <1>6, <2>2
    <3> QED BY <2>1, <3>1 DEF Interrupted
  <2>3. CASE /\ Elapsed <= longest + ScanPeriod + sinceScan
             /\ pending # State(level) => level = value
             /\ level = value => steady >= sinceScan
    <3>1. Elapsed' <= longest' + ScanPeriod + sinceScan'
      BY <1>1, <1>4, <1>5, <1>6, <2>3, InputAssumption
    <3>2. level' = value' => steady' >= sinceScan'
      <4>1. sinceScan' <= Latest + 1
        BY <1>1, <1>4, InputAssumption DEF Latest
      <4> QED BY <1>1, <1>4, <2>3, <4>1, InputAssumption DEF UpTo, Latest
    <3>3. pending' # State(level)' => level' = value'
      BY <1>1, <1>3, <2>3
    <3> QED BY <2>1, <3>1, <3>2, <3>3 DEF Interrupted
  <2>4. CASE pending # State(level) /\ edges >= 4
    BY <1>1, <1>3, <2>1, <2>4 DEF Interrupted
  <2> QED BY <1>8, <2>2, <2>3, <2>4 DEF Interrupted
<1> QED BY <1>3, <1>7, <1>8 DEF GlitchInv, Risky

LEMMA GlitchStep ==
    ASSUME Settle <= ScanPeriod, SettleInv, GlitchInv, [InputNext]_inputVars
    PROVE  GlitchInv'
<1>1. CASE Edge
  <2>1. /\ edges' = UpTo(edges, 5) /\ steady' = 0
        /\ UNCHANGED <<value, longest, timer, pending, straddled>>
    BY <1>1 DEF Edge
  <2>2. edges' \in 1..5
    BY <2>1 DEF GlitchInv, UpTo
  <2>3. timer' # None => steady' + timer' <= Settle + ScanPeriod + Debounce
    BY <2>1, InputAssumption DEF SettleInv, None
  <2>4. Risky' => Interrupted'
    BY <1>1, EdgeInterrupts
  <2> QED BY <2>1, <2>2, <2>3, <2>4 DEF GlitchInv, Risky
<1>2. CASE ScanQueue
  <2>1. /\ scan = "idle" /\ sinceScan = ScanPeriod
        /\ UNCHANGED <<level, value, queued, confirmed, steady, longest, edges, straddled>>
    BY <1>2 DEF ScanQueue
  <2>2. CASE queued /\ CheckTickTime
    <3>1. pending' = State(level) /\ timer' = Debounce /\ scan' = "erase"
      BY <1>2, <2>2 DEF ScanQueue
    <3>2. pending' # None /\ timer' # None
      BY <3>1, InputAssumption DEF State, None
    <3>3. ~straddled' => steady' + timer' <= Settle + ScanPeriod + Debounce
      BY <2>1, <2>2, <3>1, InputAssumption DEF SettleInv, Waiting
    <3>4. State(level)' = State(level)
      BY <2>1 DEF State
    <3>5. Elapsed' = 0
      BY <3>1, InputAssumption DEF Elapsed
    <3>6. Undisturbed'
      BY <2>1, <3>1, <3>4, <3>5 DEF Undisturbed, SettleInv, GlitchInv
    <3> QED BY <2>1, <2>2, <3>2, <3>3, <3>6 DEF GlitchInv
  <2>3. CASE ~(queued /\ CheckTickTime)
    <3>1. UNCHANGED <<pending, timer, scan, lost>>
      BY <1>2, <2>3 DEF ScanQueue
    <3>2. Risky' => Risky
      BY <2>1, <3>1 DEF Risky, State
    <3>3. Risky' => Undisturbed' \/ Interrupted'
      BY <1>2, <2>3, <3>2, ScansWhenSettled
    <3> QED BY <2>1, <3>1, <3>3 DEF GlitchInv, Risky
  <2> QED BY <2>2, <2>3
<1>3. CASE Erase
  <2>1. /\ scan = "erase" /\ queued' = FALSE
        /\ UNCHANGED <<level, value, pending, timer, confirmed, steady, longest, edges, lost,
                       straddled>>
    BY <1>3 DEF Erase
  <2>2. Risky' => Risky /\ Undisturbed
    BY <2>1 DEF Risky, State, GlitchInv, Interrupted
  <2>3. Undisturbed => Undisturbed'
    BY <2>1 DEF Undisturbed, Elapsed, State
  <2> QED BY <2>1, <2>2, <2>3 DEF GlitchInv, Risky
<1>4. CASE Confirm
  <2>1. /\ timer' = None /\ pending' = None
        /\ longest' = IF confirmed' # confirmed THEN 0 ELSE longest
        /\ straddled' = (straddled /\ queued)
        /\ UNCHANGED <<value, queued, edges>>
    BY <1>4 DEF Confirm
  <2> QED BY <2>1 DEF GlitchInv
<1>5. CASE InputTick
  <2>1. /\ timer # 0 /\ timer' = IF timer = None THEN None ELSE timer - 1
        /\ steady' = UpTo(steady, Latest + 1)
        /\ edges' = IF steady' > Latest THEN 0 ELSE edges
        /\ longest' = IF level # confirmed /\ steady' > longest THEN steady' ELSE longest
        /\ (~straddled' => ~straddled)
        /\ UNCHANGED <<value, queued, pending>>
    BY <1>5 DEF InputTick
  <2>2. steady \in Nat /\ timer \in None..Debounce
    BY DEF SettleInv
  <2>3. edges' \in 0..5 /\ longest' \in Nat /\ value' \in BOOLEAN
    BY <2>1, <2>2, InputAssumption DEF GlitchInv, UpTo, Latest
  <2>4. timer' = None <=> timer = None
    BY <2>1, <2>2, InputAssumption DEF None
  <2>5. timer' # None /\ ~straddled' => steady' + timer' <= Settle + ScanPeriod + Debounce
    <3> SUFFICES ASSUME timer # None, ~straddled PROVE steady' + (timer - 1) <= Settle + ScanPeriod + Debounce
      BY <2>1, <2>4
    <3>1. steady + timer <= Settle + ScanPeriod + Debounce
      BY DEF GlitchInv
    <3>2. steady' \in Nat /\ steady' <= steady + 1
      BY <2>1, <2>2, InputAssumption DEF UpTo, Latest
    <3>3. timer \in Int /\ Settle + ScanPeriod + Debounce \in Int
      BY <2>2, InputAssumption DEF None
    <3> QED BY <2>2, <3>1, <3>2, <3>3, Countdown
  <2>6. (queued' \/ timer' # None) /\ ~straddled' => edges' >= 1
    BY <1>5, <2>1, <2>4, NotSettledYet DEF GlitchInv
  <2>7. Risky' => Undisturbed' \/ Interrupted'
    BY <1>5, TickRisks
  <2>8. timer' = None <=> pending' = None
    BY <2>1, <2>4 DEF GlitchInv
  <2> QED BY <2>3, <2>5, <2>6, <2>7, <2>8 DEF GlitchInv, Risky
<1>6. CASE UNCHANGED inputVars
  BY <1>6 DEF inputVars, GlitchInv, Undisturbed, Interrupted, Elapsed, State
<1> QED BY <1>1, <1>2, <1>3, <1>4, <1>5, <1>6 DEF InputNext

\* The callback confirms another level only at the end of a delay.
LEMMA OnlyHeldLevels ==
    ASSUME SettleInv, GlitchInv, Confirm, confirmed' # confirmed, ~lost, ~straddled, edges <= 4
    PROVE  longest >= Debounce - 2 * ScanPeriod
<1>1. timer = 0 /\ confirmed' = IF pending \in {None, State(level)} THEN level ELSE confirmed
  BY DEF Confirm
<1>2. pending = State(level) /\ pending # State(confirmed)
  BY <1>1 DEF SettleInv, GlitchInv, State, None
<1>3. Undisturbed \/ Interrupted
  BY <1>1, <1>2 DEF GlitchInv, None
<1>4. Elapsed = Debounce /\ sinceScan \in 0..ScanPeriod /\ longest \in Nat
  BY <1>1, InputAssumption DEF Elapsed, SettleInv, GlitchInv
<1>5. Debounce <= longest + ScanPeriod + sinceScan
  BY <1>2, <1>3, <1>4, InputAssumption DEF Undisturbed, Interrupted
<1> QED BY <1>4, <1>5, InputAssumption

\* A pulse, and a second one right after it, are confirmed only if the pin held
\* the level for the delay, short of two scans, as long as a pin settles within
\* one of them (50 ms against 500 ms).  The premise ~straddled excludes an entry that a
\* wrap of millis() may have left in the queue.
THEOREM GlitchesAreDiscarded ==
    ASSUME Settle <= ScanPeriod PROVE InputSpec => GlitchIsDiscarded
<1>1. InputInit => SettleInv /\ GlitchInv
  BY SettleInit, InputAssumption DEF InputInit, GlitchInv, None
<1>2. SettleInv /\ GlitchInv /\ [InputNext]_inputVars => GlitchInv'
  BY GlitchStep
<1>3. SettleInv /\ GlitchInv /\ [InputNext]_inputVars
      => [confirmed' # confirmed /\ ~lost /\ ~straddled /\ edges <= 4
          => longest >= Debounce - 2 * ScanPeriod]_inputVars
  <2> SUFFICES ASSUME SettleInv, GlitchInv, InputNext, confirmed' # confirmed, ~lost,
                      ~straddled, edges <= 4
               PROVE  longest >= Debounce - 2 * ScanPeriod
    OBVIOUS
  <2>1. Confirm
    BY DEF InputNext, Edge, ScanQueue, Erase, InputTick
  <2> QED BY <2>1, OnlyHeldLevels
<1> QED BY <1>1, <1>2, <1>3, SettleStep, PTL DEF InputSpec, GlitchIsDiscarded
=============================================================================
