------------------------ MODULE ThermostatTasksProofs ------------------------
(***************************************************************************)
(* However update() and setMode() interleave, relay by relay, the plant is *)
(* never told to heat with the furnace and to cool at once; and however    *)
(* update() and a temperature's arrival interleave and millis() wraps, a   *)
(* fresh temperature is kept and an old one is not decided on.             *)
(***************************************************************************)
EXTENDS ThermostatTasks, TemperatureAge, TLAPS

Unmixed(relays) == "REV" \in relays => {"W1", "W2"} \cap relays = {}

\* Only update() turns relays on.  While it turns them off, what is still on
\* is still to be turned off; while it turns its plan on, everything on is
\* part of one pattern.
TaskInv ==
    /\ TasksTypeOK
    /\ Unmixed(on)
    /\ loop = "off" => on \subseteq loopOff /\ Unmixed(plan.relays)
    /\ loop = "on" => Unmixed(on \cup plan.relays)

LEMMA TaskPatterns ==
    ASSUME NEW level
    PROVE  /\ HeatRelays(level) \in SUBSET Output /\ Unmixed(HeatRelays(level))
           /\ CoolRelays(level) \in SUBSET Output /\ Unmixed(CoolRelays(level))
           /\ {"FAN1"} \in SUBSET Output /\ Unmixed({"FAN1"}) /\ Unmixed({})
BY DEF HeatRelays, CoolRelays, Output, Unmixed

\* Turning outputs off keeps a set of relays unmixed.
LEMMA UnmixedLess ==
    ASSUME NEW S, NEW T, T \subseteq S, Unmixed(S) PROVE Unmixed(T)
BY DEF Unmixed

\* Every program update() starts keeps the invariant.
LEMMA ProgramKeeps ==
    ASSUME TaskInv, NEW relays \in SUBSET Output, Unmixed(relays),
           NEW first \in Action, NEW last \in Action,
           Program(relays, first, last), UNCHANGED <<on, mode, webVars, overlap>>
    PROVE  TaskInv'
<1>1. plan' \in [relays: SUBSET Output, then: Action] /\ plan'.relays = relays
  BY DEF Program
<1>2. TasksTypeOK'
  BY <1>1 DEF TaskInv, TasksTypeOK, Program, webVars
<1> QED BY <1>1, <1>2 DEF TaskInv, TasksTypeOK, Program

LEMMA TaskStep == TaskInv /\ [TasksNext]_tasksVars => TaskInv'
<1> SUFFICES ASSUME TaskInv, [TasksNext]_tasksVars PROVE TaskInv'
  OBVIOUS
<1>0. TasksTypeOK /\ action \in Action
  BY DEF TaskInv, TasksTypeOK
<1>1. CASE Enter
  BY <1>1 DEF Enter, TaskInv, TasksTypeOK, webVars
<1>2. ASSUME loop = "decide", Start \/ ChangeLevel \/ Stop, UNCHANGED <<on, mode, webVars, overlap>>
      PROVE  TaskInv'
  <2>1. PICK relays \in SUBSET Output, first \in Action, last \in Action :
             Unmixed(relays) /\ Program(relays, first, last)
    <3>1. {"HEATING", "COOLING", "FAN_RUNNING", "IDLE"} \subseteq Action /\ {} \in SUBSET Output
      BY DEF Action
    <3>2. CASE Start
      BY <3>1, <3>2, TaskPatterns DEF Start
    <3>3. CASE ChangeLevel
      BY <1>0, <3>3, TaskPatterns DEF ChangeLevel
    <3>4. CASE Stop
      BY <1>0, <3>1, <3>4, TaskPatterns DEF Stop
    <3> QED BY <1>2, <3>2, <3>3, <3>4
  <2> QED BY <1>2, <2>1, ProgramKeeps
<1>3. ASSUME FanCycle, UNCHANGED <<mode, webVars, overlap>> PROVE TaskInv'
  <2>1. Unmixed(on') /\ on' \in SUBSET Output
    BY <1>3 DEF FanCycle, TaskInv, TasksTypeOK, Unmixed, Output
  <2>2. plan' \in [relays: SUBSET Output, then: Action]
    BY <1>3 DEF FanCycle, Action
  <2> QED BY <1>3, <2>1, <2>2 DEF FanCycle, TaskInv, TasksTypeOK, webVars
<1>4. CASE Decide
  <2>1. CASE loop' = "idle" /\ UNCHANGED <<action, on, plan, loopOff>>
    BY <1>4, <2>1 DEF Decide, TaskInv, TasksTypeOK, webVars
  <2> QED BY <1>2, <1>3, <1>4, <2>1 DEF Decide, webVars
<1>5. CASE LoopOff
  <2>1. CASE loopOff = {}
    <3>1. on = {} /\ on' = {} /\ plan' = plan /\ loop' = "on"
      BY <1>5, <2>1 DEF LoopOff, TaskInv
    <3>2. Unmixed(on' \cup plan'.relays) /\ Unmixed(on')
      BY <1>5, <3>1 DEF LoopOff, TaskInv, Unmixed
    <3> QED BY <1>5, <2>1, <3>1, <3>2 DEF LoopOff, TaskInv, TasksTypeOK, webVars
  <2>2. CASE loopOff # {}
    <3>1. PICK p \in Output : on' = on \ {p} /\ loopOff' = loopOff \ {p}
      BY <1>5, <2>2 DEF LoopOff
    <3>2. Unmixed(on')
      BY <3>1, UnmixedLess DEF TaskInv
    <3> QED BY <1>5, <2>2, <3>1, <3>2 DEF LoopOff, TaskInv, TasksTypeOK, webVars
  <2> QED BY <2>1, <2>2
<1>6. CASE LoopOn
  <2>1. CASE plan.relays = {}
    BY <1>6, <2>1 DEF LoopOn, TaskInv, TasksTypeOK, webVars
  <2>2. CASE plan.relays # {}
    <3>1. PICK p \in Output :
              /\ p \in plan.relays /\ on' = on \cup {p}
              /\ plan' = [plan EXCEPT !.relays = plan.relays \ {p}]
      BY <1>6, <2>2 DEF LoopOn, IsFirst
    <3>2. /\ plan' \in [relays: SUBSET Output, then: Action]
          /\ plan'.relays = plan.relays \ {p}
      BY <3>1 DEF TaskInv, TasksTypeOK
    <3>3. on' \cup plan'.relays = on \cup plan.relays /\ Unmixed(on \cup plan.relays)
      BY <1>6, <3>1, <3>2 DEF LoopOn, TaskInv
    <3>4. Unmixed(on')
      BY <3>3, UnmixedLess
    <3> QED BY <1>6, <2>2, <3>1, <3>2, <3>3, <3>4 DEF LoopOn, TaskInv, TasksTypeOK, webVars
  <2> QED BY <2>1, <2>2
<1>7. CASE LoopEnd
  BY <1>7 DEF LoopEnd, TaskInv, TasksTypeOK, webVars
<1>8. ASSUME NEW m \in Modes, SetMode(m) PROVE TaskInv'
  <2>1. UNCHANGED <<on, loopVars>> /\ mode' \in Mode /\ action' \in Action
           /\ web' \in {"idle", "off", "end"} /\ webOff' \in SUBSET Output
    BY <1>0, <1>8, TasksAssumption DEF SetMode, Action, TasksTypeOK
  <2>2. overlap' \in BOOLEAN
    BY <1>8 DEF SetMode
  <2> QED BY <2>1, <2>2 DEF TaskInv, TasksTypeOK, loopVars
<1>9. CASE WebOff
  <2>1. on' \subseteq on /\ webOff' \subseteq webOff /\ UNCHANGED <<mode, action, loopVars>>
           /\ web' \in {"off", "end"} /\ overlap' = overlap
    BY <1>9 DEF WebOff
  <2>2. Unmixed(on') /\ (loop = "on" => Unmixed(on' \cup plan.relays))
    <3>1. on' \cup plan.relays \subseteq on \cup plan.relays
      BY <2>1
    <3> QED BY <2>1, <3>1, UnmixedLess DEF TaskInv
  <2> QED BY <2>1, <2>2 DEF TaskInv, TasksTypeOK, loopVars
<1>10. CASE WebEnd
  BY <1>10 DEF WebEnd, TaskInv, TasksTypeOK, loopVars, Action
<1>11. CASE UNCHANGED tasksVars
  BY <1>11 DEF tasksVars, TaskInv, TasksTypeOK
<1> QED BY <1>1, <1>4, <1>5, <1>6, <1>7, <1>8, <1>9, <1>10, <1>11 DEF TasksNext

LEMMA TaskInit == TasksInit => TaskInv
<1> SUFFICES ASSUME TasksInit PROVE TaskInv
  OBVIOUS
<1>1. plan \in [relays: SUBSET Output, then: Action]
  BY DEF TasksInit, Action
<1> QED BY <1>1, TasksAssumption DEF TasksInit, TaskInv, TasksTypeOK, Unmixed, Action

LEMMA TaskInvariance == TasksSpec => []TaskInv
BY TaskInit, TaskStep, PTL DEF TasksSpec

\* Type correctness of the two tasks, for every set of modes.
THEOREM TasksTypeCorrect == TasksSpec => []TasksTypeOK
<1>1. TaskInv => TasksTypeOK
  BY DEF TaskInv
<1> QED BY <1>1, TaskInvariance, PTL

\* Heat and cool are never mixed, whatever the interleaving.
THEOREM NeverMixed == TasksSpec => []RaceNeverMixesHeatAndCool
<1>1. TaskInv => RaceNeverMixesHeatAndCool
  BY DEF TaskInv, Unmixed, RaceNeverMixesHeatAndCool
<1> QED BY <1>1, TaskInvariance, PTL

-----------------------------------------------------------------------------
(* Mode OFF while the calls do not overlap                                 *)

\* Of two calls that do not overlap one is not running; setMode(OFF) turns off
\* everything that is on, and no update() runs in mode OFF after it.
SerialInv ==
    ~overlap =>
        /\ loop = "idle" \/ web = "idle"
        /\ web # "idle" => mode = "OFF"
        /\ mode = "OFF" /\ web = "idle" => loop = "idle" /\ on = {} /\ action = "OFF"
        /\ web = "off" => on \subseteq webOff
        /\ web = "end" => on = {}

\* A step of update() in a serial run finds a mode other than OFF and leaves
\* the mode and setMode() alone.
LEMMA LoopKeepsSerial ==
    ASSUME SerialInv, loop # "idle", UNCHANGED <<mode, web, webOff, overlap>>
    PROVE  SerialInv'
BY DEF SerialInv

LEMMA SerialStep == TaskInv /\ SerialInv /\ [TasksNext]_tasksVars => SerialInv'
<1> SUFFICES ASSUME TaskInv, SerialInv, [TasksNext]_tasksVars PROVE SerialInv'
  OBVIOUS
<1>0. web \in {"idle", "off", "end"} /\ on \subseteq Output
  BY DEF TaskInv, TasksTypeOK
<1>1. CASE Enter
  BY <1>1 DEF Enter, SerialInv, webVars
<1>2. CASE Decide \/ LoopOff \/ LoopOn \/ LoopEnd
  <2>1. loop # "idle" /\ UNCHANGED <<mode, web, webOff, overlap>>
    BY <1>2 DEF Decide, LoopOff, LoopOn, LoopEnd, webVars
  <2> QED BY <2>1, LoopKeepsSerial
<1>3. ASSUME NEW m \in Modes, SetMode(m) PROVE SerialInv'
  <2>1. web = "idle" /\ mode' = m /\ UNCHANGED <<on, loop>>
           /\ overlap' = (overlap \/ loop # "idle")
    BY <1>3 DEF SetMode, loopVars
  <2>2. CASE m = "OFF"
    <3>1. web' = "off" /\ webOff' = Output
      BY <1>3, <2>2 DEF SetMode
    <3> QED BY <1>0, <2>1, <2>2, <3>1 DEF SerialInv
  <2>3. CASE m # "OFF"
    <3>1. web' = "idle"
      BY <1>3, <2>3 DEF SetMode
    <3> QED BY <2>1, <2>3, <3>1 DEF SerialInv
  <2> QED BY <2>2, <2>3
<1>4. CASE WebOff
  <2>1. web = "off" /\ UNCHANGED <<mode, action, loop, overlap>>
    BY <1>4 DEF WebOff, loopVars
  <2>2. CASE webOff = {}
    <3>1. web' = "end" /\ on' = on
      BY <1>4, <2>2 DEF WebOff
    <3> QED BY <2>1, <2>2, <3>1 DEF SerialInv
  <2>3. CASE webOff # {}
    <3>1. web' = web /\ \E p \in Output : on' = on \ {p} /\ webOff' = webOff \ {p}
      BY <1>4, <2>3 DEF WebOff
    <3> QED BY <2>1, <3>1 DEF SerialInv
  <2> QED BY <2>2, <2>3
<1>5. CASE WebEnd
  BY <1>5 DEF WebEnd, SerialInv, loopVars
<1>6. CASE UNCHANGED tasksVars
  BY <1>6 DEF tasksVars, SerialInv
<1> QED BY <1>1, <1>2, <1>3, <1>4, <1>5, <1>6 DEF TasksNext

\* While calls do not overlap, mode OFF leaves no relay on.
THEOREM SerialOff == TasksSpec => []SerialOffStaysOff
<1>1. TasksInit => SerialInv
  BY DEF TasksInit, SerialInv
<1>2. SerialInv => SerialOffStaysOff
  BY DEF SerialInv, SerialOffStaysOff, OffStaysOff, TasksIdle
<1> QED BY <1>1, <1>2, TaskInvariance, SerialStep, PTL DEF TasksSpec

-----------------------------------------------------------------------------
(* The age of the temperature                                              *)

LEMMA ElapsedIs ==
    ASSUME NEW from \in 0..ClockValues - 1, NEW to \in 0..ClockValues - 1
    PROVE  /\ Elapsed(from, to) = IF to >= from THEN to - from ELSE to + ClockValues - from
           /\ Elapsed(from, to) \in 0..ClockValues - 1
BY WordAssumption DEF Elapsed

\* One tick later the difference is one more, or starts again at 0.
LEMMA ElapsedTick ==
    ASSUME NEW from \in 0..ClockValues - 1, NEW to \in 0..ClockValues - 1
    PROVE  /\ (to + 1) % ClockValues \in 0..ClockValues - 1
           /\ Elapsed(from, (to + 1) % ClockValues) =
                IF Elapsed(from, to) = ClockValues - 1 THEN 0 ELSE Elapsed(from, to) + 1
<1>1. (to + 1) % ClockValues = IF to = ClockValues - 1 THEN 0 ELSE to + 1
  BY WordAssumption
<1>2. (to + 1) % ClockValues \in 0..ClockValues - 1
  BY <1>1, WordAssumption
<1> DEFINE next == (to + 1) % ClockValues
<1>3. Elapsed(from, next) = IF next >= from THEN next - from ELSE next + ClockValues - from
  <2> HIDE DEF next
  <2> QED BY <1>2, ElapsedIs DEF next
<1>4. Elapsed(from, to) = IF to >= from THEN to - from ELSE to + ClockValues - from
  BY ElapsedIs
<1> HIDE DEF next
<1>5. next = IF to = ClockValues - 1 THEN 0 ELSE to + 1
  BY <1>1 DEF next
<1>6. Elapsed(from, next) =
        IF Elapsed(from, to) = ClockValues - 1 THEN 0 ELSE Elapsed(from, to) + 1
  BY <1>3, <1>4, <1>5, WordAssumption
<1> QED BY <1>2, <1>6 DEF next

TempTypes ==
    /\ off \in BOOLEAN /\ valid \in BOOLEAN /\ due \in BOOLEAN /\ disturbed \in BOOLEAN
    /\ stamp \in 0..ClockValues - 1 /\ millis \in 0..ClockValues - 1
    /\ read \in 0..ClockValues - 1 /\ tempAge \in Nat
    /\ mqtt \in {"idle", "stamp"} /\ check \in {"idle", "load", "decide"}

\* update() looks at an undisturbed temperature in every tick but those that
\* begin while it runs, so its age is still below a wrap of millis() when
\* update() compares it: no difference it computes has started again at 0.
FreshInv ==
    valid /\ ~disturbed =>
        /\ check = "idle" => tempAge <= Stale + (IF due THEN 2 ELSE 1)
        /\ check = "load" =>
               /\ tempAge = Elapsed(stamp, read) + Elapsed(read, millis)
               /\ Elapsed(stamp, read) <= Stale + 2

AgeInv ==
    /\ TempTypes
    /\ Elapsed(stamp, millis) <= tempAge
    /\ tempAge < ClockValues => tempAge = Elapsed(stamp, millis)
    /\ mqtt = "stamp" => disturbed
    /\ check # "idle" => ~due /\ Elapsed(read, millis) <= 1
    /\ FreshInv /\ DecidesOnFreshTemperature

LEMMA AgeTick ==
    ASSUME AgeInv, TempTick PROVE AgeInv'
<1> DEFINE cap == ClockValues + Stale + 1
<1>1. /\ mqtt = "idle" /\ ~due /\ (check = "idle" \/ (check = "load" /\ millis = read))
      /\ millis' = (millis + 1) % ClockValues /\ due' = (check = "idle")
      /\ tempAge' = IF tempAge < cap THEN tempAge + 1 ELSE tempAge
      /\ UNCHANGED <<off, valid, stamp, mqtt, check, read, disturbed>>
  BY DEF TempTick
<1>2. /\ stamp \in 0..ClockValues - 1 /\ millis \in 0..ClockValues - 1
      /\ read \in 0..ClockValues - 1 /\ tempAge \in Nat
      /\ Elapsed(stamp, millis) <= tempAge
      /\ tempAge < ClockValues => tempAge = Elapsed(stamp, millis)
  BY DEF AgeInv, TempTypes
<1>3. /\ Elapsed(stamp, millis') =
             IF Elapsed(stamp, millis) = ClockValues - 1 THEN 0 ELSE Elapsed(stamp, millis) + 1
      /\ millis' \in 0..ClockValues - 1
  BY <1>1, <1>2, ElapsedTick
<1>4. Elapsed(stamp, millis) \in 0..ClockValues - 1 /\ Elapsed(stamp, millis') \in 0..ClockValues - 1
  BY <1>2, <1>3, ElapsedIs
<1>5. tempAge' \in Nat /\ Elapsed(stamp, millis') <= tempAge'
      /\ (tempAge' < ClockValues => tempAge' = Elapsed(stamp, millis'))
  BY <1>1, <1>2, <1>3, <1>4, WordAssumption
<1>6. TempTypes'
  BY <1>1, <1>3, <1>5 DEF AgeInv, TempTypes
<1>7. CASE check = "idle"
  <2>1. ASSUME valid, ~disturbed PROVE tempAge' <= Stale + 2
    <3>1. tempAge <= Stale + 1
      BY <1>1, <1>7, <2>1 DEF AgeInv, FreshInv
    <3> QED BY <1>1, <1>2, <3>1, WordAssumption
  <2>2. FreshInv' /\ DecidesOnFreshTemperature'
    BY <1>1, <1>7, <2>1 DEF FreshInv, DecidesOnFreshTemperature
  <2>3. (check # "idle" => ~due /\ Elapsed(read, millis) <= 1)'
    BY <1>1, <1>7
  <2>4. Elapsed(stamp, millis)' = Elapsed(stamp, millis')
    BY <1>1 DEF Elapsed
  <2>5. (mqtt = "stamp" => disturbed)'
    BY <1>1
  <2> QED BY <1>5, <1>6, <2>2, <2>3, <2>4, <2>5 DEF AgeInv
<1>8. CASE check = "load" /\ millis = read
  <2>1. Elapsed(read, millis) = 0 /\ Elapsed(read, millis') = 1
    <3>1. Elapsed(millis, millis) = 0
      BY <1>2, ElapsedIs
    <3>2. Elapsed(millis, millis') = IF Elapsed(millis, millis) = ClockValues - 1 THEN 0
                                      ELSE Elapsed(millis, millis) + 1
      BY <1>1, <1>2, ElapsedTick
    <3> QED BY <1>8, <3>1, <3>2, WordAssumption
  <2>2. ASSUME valid, ~disturbed
        PROVE  /\ tempAge' = Elapsed(stamp, read) + Elapsed(read, millis')
               /\ Elapsed(stamp, read) <= Stale + 2
    <3>1. Elapsed(stamp, read) \in Nat
      BY <1>2, ElapsedIs
    <3>2. tempAge = Elapsed(stamp, read) /\ Elapsed(stamp, read) <= Stale + 2
      BY <1>8, <2>1, <2>2, <3>1 DEF AgeInv, FreshInv
    <3> QED BY <1>1, <1>2, <2>1, <3>1, <3>2, WordAssumption
  <2>3. /\ Elapsed(stamp, millis)' = Elapsed(stamp, millis')
        /\ Elapsed(stamp, read)' = Elapsed(stamp, read)
        /\ Elapsed(read, millis)' = Elapsed(read, millis')
    BY <1>1 DEF Elapsed
  <2>4. FreshInv' /\ DecidesOnFreshTemperature'
    <3>1. check' = "load" /\ valid' = valid /\ disturbed' = disturbed
      BY <1>1, <1>8
    <3>2. ASSUME valid', ~disturbed'
          PROVE  (/\ tempAge = Elapsed(stamp, read) + Elapsed(read, millis)
                  /\ Elapsed(stamp, read) <= Stale + 2)'
      <4>1. valid /\ ~disturbed
        BY <3>1, <3>2
      <4> QED BY <2>2, <2>3, <4>1
    <3>3. check' # "idle" /\ check' # "decide"
      BY <3>1
    <3> QED BY <3>2, <3>3, Zenon DEF FreshInv, DecidesOnFreshTemperature
  <2>5. (check # "idle" => ~due /\ Elapsed(read, millis) <= 1)'
    <3>1. ~due'
      BY <1>1, <1>8
    <3>2. Elapsed(read, millis)' <= 1
      BY <2>1, <2>3
    <3> QED BY <3>1, <3>2
  <2>6. (mqtt = "stamp" => disturbed)'
    BY <1>1
  <2> QED BY <1>5, <1>6, <2>3, <2>4, <2>5, <2>6 DEF AgeInv
<1> QED BY <1>1, <1>7, <1>8

LEMMA AgeStep == AgeInv /\ [TempNext]_tempVars => AgeInv'
<1> SUFFICES ASSUME AgeInv, [TempNext]_tempVars PROVE AgeInv'
  OBVIOUS
<1>0. /\ stamp \in 0..ClockValues - 1 /\ millis \in 0..ClockValues - 1
      /\ read \in 0..ClockValues - 1 /\ tempAge \in Nat
      /\ Elapsed(stamp, millis) \in Nat /\ Elapsed(read, millis) \in Nat
      /\ Elapsed(stamp, read) \in Nat /\ Elapsed(millis, millis) = 0
  BY ElapsedIs DEF AgeInv, TempTypes
<1>1. CASE MarkValid
  <2>1. /\ mqtt' = "stamp" /\ valid' = TRUE /\ disturbed' = TRUE
        /\ UNCHANGED <<off, stamp, millis, check, read, due, tempAge>>
    BY <1>1 DEF MarkValid
  <2>2. TempTypes'
    BY <2>1 DEF AgeInv, TempTypes
  <2>3. FreshInv' /\ DecidesOnFreshTemperature'
    BY <2>1 DEF FreshInv, DecidesOnFreshTemperature
  <2> QED BY <2>1, <2>2, <2>3 DEF AgeInv, Elapsed
<1>2. CASE Stamp
  <2>1. /\ stamp' = millis /\ tempAge' = 0 /\ mqtt' = "idle" /\ disturbed' = (check # "idle")
        /\ UNCHANGED <<off, valid, millis, check, read, due>>
    BY <1>2 DEF Stamp
  <2>2. Elapsed(stamp, millis)' = 0
    BY <1>0, <2>1 DEF Elapsed
  <2>3. TempTypes'
    BY <1>0, <2>1 DEF AgeInv, TempTypes
  <2>4. check # "idle" => ~due /\ Elapsed(read, millis) <= 1
    BY DEF AgeInv
  <2>5. Elapsed(read, millis)' = Elapsed(read, millis)
    BY <2>1 DEF Elapsed
  <2>6. FreshInv' /\ DecidesOnFreshTemperature'
    <3>1. tempAge' <= Stale + (IF due' THEN 2 ELSE 1)
      BY <2>1, WordAssumption
    <3>2. ASSUME ~disturbed' PROVE check' = "idle"
      BY <2>1, <3>2
    <3>3. ASSUME ~disturbed' PROVE check' # "load" /\ check' # "decide"
      BY <3>2, <3>3
    <3> QED BY <3>1, <3>3, Zenon DEF FreshInv, DecidesOnFreshTemperature
  <2>7. (mqtt = "stamp" => disturbed)'
    BY <2>1
  <2> QED BY <2>1, <2>2, <2>3, <2>4, <2>5, <2>6, <2>7 DEF AgeInv
<1>3. CASE ReadClock
  <2>1. /\ due /\ check = "idle" /\ due' = FALSE /\ read' = millis
        /\ disturbed' = (disturbed \/ off)
        /\ check' = (CASE off -> "idle" [] ~off /\ valid -> "load" [] ~off /\ ~valid -> "decide")
        /\ UNCHANGED <<off, valid, stamp, millis, mqtt, tempAge>>
    BY <1>3 DEF ReadClock
  <2>2. /\ check' \in {"idle", "load", "decide"} /\ (check' = "idle" => off)
        /\ check' = "decide" => ~valid
    BY <2>1 DEF AgeInv, TempTypes
  <2>3. /\ Elapsed(stamp, millis)' = Elapsed(stamp, millis)
        /\ Elapsed(stamp, read)' = Elapsed(stamp, millis)
        /\ Elapsed(read, millis)' = 0
    BY <1>0, <2>1 DEF Elapsed
  <2>4. TempTypes'
    BY <1>0, <2>1, <2>2 DEF AgeInv, TempTypes
  <2>5. ASSUME valid', ~disturbed'
        PROVE  tempAge <= Stale + 2 /\ tempAge = Elapsed(stamp, millis)
    <3>1. valid /\ ~disturbed
      BY <2>1, <2>5
    <3> QED BY <1>0, <2>1, <3>1, WordAssumption DEF AgeInv, FreshInv
  <2>6. (check # "idle" => ~due /\ Elapsed(read, millis) <= 1)'
    BY <2>1, <2>3
  <2>7. (valid /\ ~disturbed /\ check = "load" =>
             /\ tempAge = Elapsed(stamp, read) + Elapsed(read, millis)
             /\ Elapsed(stamp, read) <= Stale + 2)'
    <3>1. tempAge = Elapsed(stamp, millis) /\ tempAge <= Stale + 2
            => tempAge = Elapsed(stamp, read)' + Elapsed(read, millis)'
               /\ Elapsed(stamp, read)' <= Stale + 2
      BY <1>0, <2>3
    <3> QED BY <2>1, <2>5, <3>1
  <2>8. ~(valid /\ ~disturbed /\ check = "idle")' /\ DecidesOnFreshTemperature'
    BY <2>1, <2>2 DEF DecidesOnFreshTemperature
  <2>a. FreshInv'
    BY <2>7, <2>8 DEF FreshInv
  <2>9. (/\ Elapsed(stamp, millis) <= tempAge
         /\ tempAge < ClockValues => tempAge = Elapsed(stamp, millis)
         /\ mqtt = "stamp" => disturbed)'
    BY <2>1, <2>3 DEF AgeInv
  <2> QED BY <2>4, <2>6, <2>8, <2>9, <2>a DEF AgeInv
<1>4. CASE LoadStamp
  <2>1. /\ check = "load" /\ check' = "decide" /\ valid' = (valid /\ Elapsed(stamp, read) <= Stale)
        /\ UNCHANGED <<off, stamp, millis, mqtt, read, due, tempAge, disturbed>>
    BY <1>4 DEF LoadStamp, tempHistory
  <2>2. ASSUME valid', ~disturbed PROVE tempAge <= Stale + Elapsed(read, millis)
    <3>1. valid /\ Elapsed(stamp, read) <= Stale
      BY <2>1, <2>2
    <3> QED BY <1>0, <2>1, <2>2, <3>1, WordAssumption DEF AgeInv, FreshInv
  <2>3. DecidesOnFreshTemperature'
    BY <2>1, <2>2 DEF DecidesOnFreshTemperature, Elapsed
  <2>4. TempTypes'
    BY <2>1 DEF AgeInv, TempTypes
  <2>5. FreshInv'
    BY <2>1 DEF FreshInv
  <2> QED BY <2>1, <2>3, <2>4, <2>5 DEF AgeInv, Elapsed
<1>5. CASE Judge
  <2>1. /\ check = "decide" /\ check' = "idle"
        /\ UNCHANGED <<off, valid, stamp, millis, mqtt, read, due, tempAge, disturbed>>
    BY <1>5 DEF Judge, tempHistory
  <2>2. ASSUME valid, ~disturbed PROVE tempAge <= Stale + 1
    BY <1>0, <2>1, <2>2, WordAssumption DEF AgeInv, DecidesOnFreshTemperature
  <2>3. ~due
    BY <2>1 DEF AgeInv
  <2>4. TempTypes'
    BY <2>1 DEF AgeInv, TempTypes
  <2>5. FreshInv' /\ DecidesOnFreshTemperature'
    BY <2>1, <2>2, <2>3 DEF FreshInv, DecidesOnFreshTemperature
  <2> QED BY <2>1, <2>3, <2>4, <2>5 DEF AgeInv, Elapsed
<1>6. CASE TempTick
  BY <1>6, AgeTick
<1>7. ASSUME NEW b \in BOOLEAN, TempSetMode(b) PROVE AgeInv'
  BY <1>7 DEF TempSetMode, tempHistory, AgeInv, FreshInv, TempTypes, DecidesOnFreshTemperature, Elapsed
<1>8. CASE UNCHANGED tempVars
  BY <1>8 DEF tempVars, tempHistory, AgeInv, FreshInv, TempTypes, DecidesOnFreshTemperature, Elapsed
<1> QED BY <1>1, <1>2, <1>3, <1>4, <1>5, <1>6, <1>7, <1>8 DEF TempNext

LEMMA AgeInit == TempInit => AgeInv
<1> SUFFICES ASSUME TempInit PROVE AgeInv
  OBVIOUS
<1>1. 0 \in 0..ClockValues - 1
  BY WordAssumption
<1>2. Elapsed(0, 0) = 0
  BY <1>1, ElapsedIs
<1>3. stamp = 0 /\ millis = 0 /\ Elapsed(stamp, millis) = 0
  BY <1>2 DEF TempInit, Elapsed
<1>4. TempTypes /\ ~valid
  BY <1>1 DEF TempInit, TempTypes
<1> QED BY <1>3, <1>4 DEF TempInit, AgeInv, FreshInv, DecidesOnFreshTemperature

\* No decision rests on a temperature older than five minutes when update()
\* read the clock, however often millis() wraps.
THEOREM FreshDecisions == TempSpec => []DecidesOnFreshTemperature
<1>1. AgeInv => DecidesOnFreshTemperature
  BY DEF AgeInv
<1> QED BY <1>1, AgeInit, AgeStep, PTL DEF TempSpec

\* update() drops a temperature only when its last message is older than five
\* minutes, also when millis() wraps.
THEOREM FreshStays == TempSpec => FreshTemperatureStays
<1>1. AgeInv => [LoadStamp /\ valid /\ ~valid' /\ ~disturbed => tempAge > Stale]_tempVars
  <2> SUFFICES ASSUME AgeInv, LoadStamp, valid, ~valid', ~disturbed PROVE tempAge > Stale
    OBVIOUS
  <2>1. check = "load" /\ ~(Elapsed(stamp, read) <= Stale)
    BY DEF LoadStamp, AgeInv, TempTypes
  <2>2. Elapsed(stamp, read) \in Nat /\ Elapsed(read, millis) \in Nat
    BY ElapsedIs DEF AgeInv, TempTypes
  <2> QED BY <2>1, <2>2, WordAssumption DEF AgeInv, FreshInv
<1> QED BY <1>1, AgeInit, AgeStep, PTL DEF TempSpec, FreshTemperatureStays
=============================================================================
