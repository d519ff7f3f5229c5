------------------------------- MODULE LogRing -------------------------------
(***************************************************************************)
(* The ring buffer of the last messages (src/Logger.cpp), to which every   *)
(* task logs without a lock.  Each access to a shared field is a step.  A  *)
(* message is known by its age: how many were put into the ring after it.  *)
(* The text goes through the shared _buffer: a message that meets another  *)
(* between vsnprintf() and the last field may hold the other's text, so    *)
(* the properties speak of what came after.  The log pages read the ring   *)
(* when no message is on its way.                                          *)
(***************************************************************************)
EXTENDS Integers

CONSTANT RingMax  \* _ringBufferMax

ASSUME RingAssumption == RingMax \in Nat \ {0}

Task == {"loop", "web"}

VARIABLES
    head,    \* _ringBufferHead
    count,   \* _ringBufferCount
    slot,    \* the age of the message in each slot of _ringBuffer
    field,   \* the next access of each task, or "idle"
    seen,    \* the value it has read
    met,     \* history: messages on their way have met, and one is still on it
    clear    \* history: messages since the last that met another, up to RingMax

ringVars == <<head, count, slot, field, seen, met, clear>>

RingReset ==
    /\ head' = 0 /\ count' = 0 /\ slot' = [i \in 0..RingMax - 1 |-> RingMax]
    /\ field' = [t \in Task |-> "idle"] /\ seen' = [t \in Task |-> 0]
    /\ met' = FALSE /\ clear' = 0

RingInit ==
    /\ head = 0 /\ count = 0 /\ slot = [i \in 0..RingMax - 1 |-> RingMax]
    /\ field = [t \in Task |-> "idle"] /\ seen = [t \in Task |-> 0]
    /\ met = FALSE /\ clear = 0

Aged(age) == IF age < RingMax THEN age + 1 ELSE age

Access(t, this, next) == field[t] = this /\ field' = [field EXCEPT ![t] = next]

-----------------------------------------------------------------------------
(* log() and addToRingBuffer()                                             *)

\* The text is put together in _buffer.
Format(t) ==
    /\ Access(t, "idle", "put")
    /\ LET others == \E u \in Task \ {t} : field[u] # "idle" IN
           met' = others /\ clear' = IF others THEN 0 ELSE clear
    /\ UNCHANGED <<head, count, slot, seen>>

PutMessage(t) ==
    /\ Access(t, "put", "head")
    /\ slot' = [i \in DOMAIN slot |-> IF i = head THEN 0 ELSE Aged(slot[i])]
    /\ UNCHANGED <<head, count, seen, met, clear>>

ReadHead(t) ==
    /\ Access(t, "head", "advance") /\ seen' = [seen EXCEPT ![t] = head]
    /\ UNCHANGED <<head, count, slot, met, clear>>

AdvanceHead(t) ==
    /\ Access(t, "advance", "count") /\ head' = (seen[t] + 1) % RingMax
    /\ UNCHANGED <<count, slot, seen, met, clear>>

ReadCount(t) ==
    /\ Access(t, "count", "grow") /\ seen' = [seen EXCEPT ![t] = count]
    /\ UNCHANGED <<head, count, slot, met, clear>>

GrowCount(t) ==
    /\ Access(t, "grow", "idle")
    /\ count' = IF seen[t] < RingMax THEN seen[t] + 1 ELSE count
    /\ clear' = IF met THEN 0 ELSE Aged(clear)
    /\ UNCHANGED <<head, slot, seen, met>>

RingNext ==
    \/ \E t \in Task :
           \/ Format(t) \/ PutMessage(t) \/ ReadHead(t) \/ AdvanceHead(t)
           \/ ReadCount(t) \/ GrowCount(t)
    \/ RingReset

RingSpec == RingInit /\ [][RingNext]_ringVars

-----------------------------------------------------------------------------
(* The log pages                                                           *)

\* Mutant: the entries are counted from the first slot.
Entries_FromZero(limit) ==
    [i \in 1..limit |-> slot[(count - limit + i - 1) % RingMax]]

\* The entries the log pages send, oldest first.
Entries(limit) ==
    [i \in 1..limit |-> slot[(head + RingMax - count + (count - limit) + i - 1) % RingMax]]

-----------------------------------------------------------------------------
(* Properties.                                                             *)

RingTypeOK ==
    /\ head \in 0..RingMax - 1 /\ count \in 0..RingMax
    /\ slot \in [0..RingMax - 1 -> 0..RingMax]
    /\ field \in [Task -> {"idle", "put", "head", "advance", "count", "grow"}]
    /\ seen \in [Task -> 0..RingMax] /\ met \in BOOLEAN /\ clear \in 0..RingMax

Resting == \A t \in Task : field[t] = "idle"

\* The log pages (WebHandler.cpp:470, HttpsServer.cpp:1226) show the latest
\* messages, each once and in their order, also when the ring has wrapped; and
\* when two tasks met in the ring and lost a step of head or count between them,
\* it is right again for every message that came after.
RingHoldsLatest ==
    Resting => \A limit \in 0..clear :
        /\ limit <= count
        /\ \A i \in 1..limit : Entries(limit)[i] = limit - i

\* addToRingBuffer(): the ring holds all that was logged, up to its size.  The
\* code breaks it: two tasks write the same slot and advance over it once.
NothingIsOverwritten ==
    Resting => \A i \in 1..count : Entries(count)[i] = count - i
=============================================================================
