------------------------------ MODULE InputPin ------------------------------
(***************************************************************************)
(* A debounced digital input: the interrupt handler, the queue the         *)
(* scheduler scans (src/main.cpp) and the delayed callback that confirms   *)
(* the level (src/InputPin.cpp).  The interrupt may come between the       *)
(* scan's read of the pin and its removal of the queue entry.              *)
(***************************************************************************)
EXTENDS Integers

CONSTANTS
    Debounce,   \* the delay of the pin's task, in ticks
    ScanPeriod, \* ticks between two scans of the queue
    Settle,     \* the 50 ms of CheckTickTime(), in ticks
    InputWord   \* the values of millis(), 2^32 in the code

ASSUME InputAssumption ==
    /\ Debounce \in Nat \ {0} /\ ScanPeriod \in Nat \ {0} /\ Settle \in Nat
    /\ InputWord \in Nat /\ InputWord > Settle

VARIABLES
    level,      \* the level of the pin
    preValue,   \* _preValue
    value,      \* _value, set once in initPin()
    now,        \* millis()
    changedAt,  \* _changedAtTick
    queued,     \* _isrEvent has an entry for the pin
    pending,    \* _pendingState: -1 none, 0 inactive, 1 active
    timer,      \* ticks until the debounce task runs, -1 when disabled
    confirmed,  \* _confirmedActive
    scan,       \* onCheckInputQueue(): "idle", or about to "erase" the entry
    sinceScan,  \* ticks since the last scan
    steady,     \* history: ticks since the last edge
    longest,    \* history: the longest the pin held a level other than the
                \* confirmed one, since that was confirmed
    edges,      \* history: edges since the pin was last settled, up to 5
    lost,       \* history: an edge came between the read and the erase, and no
                \* scan has read the pin since
    straddled   \* history: millis() wrapped while the entry was queued, and no
                \* delay has ended with the queue empty since

inputClocks == <<now, changedAt>>
inputVars == <<level, preValue, value, inputClocks, queued, pending, timer,
               confirmed, scan, sinceScan, steady, longest, edges, lost, straddled>>

None == -1
State(b) == IF b THEN 1 ELSE 0

\* The latest tick a level has to be confirmed in.
Latest == 2 * ScanPeriod + Settle + Debounce
UpTo(n, bound) == IF n < bound THEN n + 1 ELSE n

InputInit ==
    /\ level \in BOOLEAN
    /\ preValue = level /\ value = level /\ confirmed = level
    /\ now \in 0..InputWord - 1 /\ changedAt = now
    /\ queued = FALSE /\ pending = None /\ timer = None
    /\ scan = "idle" /\ sinceScan = 0
    /\ steady = 0 /\ longest = 0 /\ edges = 0 /\ lost = FALSE /\ straddled = FALSE

\* An edge and inputISRChange(): an entry that is there is not added again.
Edge ==
    /\ level' = ~level /\ preValue' = ~level
    /\ changedAt' = now
    /\ queued' = TRUE
    /\ steady' = 0 /\ edges' = UpTo(edges, 5)
    /\ lost' = (lost \/ scan = "erase")
    /\ UNCHANGED <<value, now, pending, timer, confirmed, scan, sinceScan, longest,
                   straddled>>

\* The sum is unsigned and wraps like millis() itself; before the sum wraps, a
\* millis() that already has is below it.
CheckTickTime == now >= (changedAt + Settle) % InputWord \/ preValue # value

\* Mutant: the entry is dropped whether or not the pin has settled.
ScanQueue_DropEarly ==
    /\ scan = "idle" /\ timer # 0 /\ sinceScan = ScanPeriod
    /\ sinceScan' = 0
    /\ IF queued THEN scan' = "erase" ELSE UNCHANGED scan
    /\ IF queued /\ CheckTickTime
       THEN pending' = State(level) /\ timer' = Debounce /\ lost' = FALSE
       ELSE UNCHANGED <<pending, timer, lost>>
    /\ UNCHANGED <<level, preValue, value, inputClocks, queued, confirmed,
                   steady, longest, edges, straddled>>

\* onCheckInputQueue(): read the pin and restart its task ...
ScanQueue ==
    /\ scan = "idle" /\ timer # 0 /\ sinceScan = ScanPeriod
    /\ sinceScan' = 0
    /\ IF queued /\ CheckTickTime
       THEN pending' = State(level) /\ timer' = Debounce /\ scan' = "erase" /\ lost' = FALSE
       ELSE UNCHANGED <<pending, timer, scan, lost>>
    /\ UNCHANGED <<level, preValue, value, inputClocks, queued, confirmed,
                   steady, longest, edges, straddled>>

\* ... then erase the entry.
Erase ==
    /\ scan = "erase" /\ scan' = "idle"
    /\ queued' = FALSE
    /\ UNCHANGED <<level, preValue, value, inputClocks, pending, timer, confirmed,
                   sinceScan, steady, longest, edges, lost, straddled>>

\* Mutant: the pin is not compared with the level that started the delay.
Confirm_Unchecked ==
    /\ scan = "idle" /\ timer = 0
    /\ timer' = None /\ pending' = None
    /\ confirmed' = level
    /\ longest' = IF confirmed' # confirmed THEN 0 ELSE longest
    /\ straddled' = (straddled /\ queued)
    /\ UNCHANGED <<level, preValue, value, inputClocks, queued, scan, sinceScan,
                   steady, edges, lost>>

\* Callback()
Confirm ==
    /\ scan = "idle" /\ timer = 0
    /\ timer' = None /\ pending' = None
    /\ confirmed' = IF pending \in {None, State(level)} THEN level ELSE confirmed
    /\ longest' = IF confirmed' # confirmed THEN 0 ELSE longest
    /\ straddled' = (straddled /\ queued)
    /\ UNCHANGED <<level, preValue, value, inputClocks, queued, scan, sinceScan,
                   steady, edges, lost>>

\* Tasks that are due run before time passes.
InputTick ==
    /\ scan = "idle" /\ timer # 0 /\ sinceScan < ScanPeriod
    /\ timer' = IF timer = None THEN None ELSE timer - 1
    /\ sinceScan' = sinceScan + 1
    /\ now' = (now + 1) % InputWord
    /\ straddled' = (straddled \/ (queued /\ now' = 0))
    /\ steady' = UpTo(steady, Latest + 1)
    /\ longest' = IF level # confirmed /\ steady' > longest THEN steady' ELSE longest
    /\ edges' = IF steady' > Latest THEN 0 ELSE edges
    /\ UNCHANGED <<level, preValue, value, changedAt, queued, pending, confirmed, scan,
                   lost>>

InputNext == Edge \/ ScanQueue \/ Erase \/ Confirm \/ InputTick

InputSpec == InputInit /\ [][InputNext]_inputVars

-----------------------------------------------------------------------------
(* Properties.                                                             *)

InputTypeOK ==
    /\ level \in BOOLEAN /\ preValue \in BOOLEAN /\ value \in BOOLEAN
    /\ confirmed \in BOOLEAN /\ queued \in BOOLEAN /\ lost \in BOOLEAN
    /\ straddled \in BOOLEAN
    /\ now \in 0..InputWord - 1 /\ changedAt \in 0..InputWord - 1 /\ sinceScan \in 0..ScanPeriod
    /\ pending \in {None, 0, 1} /\ timer \in None..Debounce
    /\ scan \in {"idle", "erase"}
    /\ steady \in 0..Latest + 1 /\ longest \in 0..Latest + 1
    /\ edges \in 0..5

\* A level the pin has held long enough is the confirmed one, whatever
\* glitches preceded it and wherever millis() stands, with two exceptions.  An
\* edge between the scan's read and its erase is not looked at until the next
\* one.  An entry in whose time millis() wraps may wait for the whole next round
\* of millis(), when the level is the one initPin() found: `now' is then below
\* the tick CheckTickTime() compares it with.
SettledInputIsRead ==
    steady > Latest => confirmed = level \/ lost \/ (straddled /\ level = value)

\* "false trigger, discard" (InputPin.cpp:18): a pulse, and a second one
\* right after it (four edges since the pin was settled), are confirmed only if
\* the pin held the level for the delay, short of two scans.  More edges, each
\* just before a scan, postpone every scan and void the debounce; so does an
\* entry stuck since a wrap of millis(), until the next edge.
GlitchIsDiscarded ==
    [][confirmed' # confirmed /\ ~lost /\ ~straddled /\ edges <= 4
       => longest >= Debounce - 2 * ScanPeriod]_inputVars

\* "Pin validated" (InputPin.cpp:25): a level held long enough whose edge was not
\* lost is confirmed.  The code breaks it: see SettledInputIsRead's second
\* exception.
SettledInputIsConfirmed == steady > Latest => confirmed = level \/ lost
=============================================================================
