------------------------------ MODULE Sessions ------------------------------
(***************************************************************************)
(* The table of login sessions (src/SessionManager.cpp): a fixed number of *)
(* slots, each with the millis() of its last request.  The HTTP and HTTPS  *)
(* servers share it; their calls are atomic here, SessionRace splits them. *)
(***************************************************************************)
EXTENDS Integers

CONSTANTS
    Slots,     \* MAX_SESSIONS slots, 0..Slots - 1
    Timeouts,  \* the timeouts an operator may configure, in ticks; 0 disables
    Wrap,      \* the number of values of millis()
    Horizon    \* the longest time without a cleanup that the clock runs on

ASSUME SessionsAssumption ==
    /\ Slots \in Nat \ {0} /\ Wrap \in Nat \ {0} /\ Horizon \in Nat
    /\ Timeouts \subseteq Nat

VARIABLES
    active,   \* the slots in use
    holder,   \* of each slot, which of two: a login writes another than there was
    stamp,    \* lastActivity of each slot
    timeout,  \* _timeoutMinutes
    now,      \* millis()
    idle,     \* history: the true time since each slot's last request
    quiet     \* history: the time since the last cleanup

sessVars == <<active, holder, stamp, timeout, now, idle, quiet>>

Slot == 0..Slots - 1
Zero == [s \in Slot |-> 0]

SessInit ==
    /\ active = {} /\ holder = Zero /\ stamp = Zero /\ timeout \in Timeouts
    /\ now = 0 /\ idle = Zero /\ quiet = 0

-----------------------------------------------------------------------------
\* Mutant: the end of the session as an absolute time.
Expired_Absolute(s) == timeout # 0 /\ now >= stamp[s] + timeout

\* The test of cleanup(), on an unsigned difference.
Expired(s) == timeout # 0 /\ (now - stamp[s]) % Wrap >= timeout

Kept == {s \in active : ~Expired(s)}

\* Mutant: a full table gives up its first slot.
Victim_First(kept) ==
    IF kept = Slot THEN 0
                   ELSE CHOOSE s \in Slot \ kept : \A t \in Slot \ kept : s <= t

\* Mutant: the loop does not stop at a free slot.
Victim_NoBreak(kept) ==
    CHOOSE s \in Slot : \A t \in Slot :
        stamp[s] < stamp[t] \/ (stamp[s] = stamp[t] /\ s <= t)

\* createSession(): the first free slot, else the one with the smallest stamp
\* (the first of them), whatever millis() did in between.
Victim(kept) ==
    IF kept # Slot
      THEN CHOOSE s \in Slot \ kept : \A t \in Slot \ kept : s <= t
      ELSE CHOOSE s \in Slot : \A t \in Slot :
               stamp[s] < stamp[t] \/ (stamp[s] = stamp[t] /\ s <= t)

Touch(s) == stamp' = [stamp EXCEPT ![s] = now] /\ idle' = [idle EXCEPT ![s] = 0]

\* Both login handlers call it, sessions enabled or not.
CreateSession ==
    /\ LET s == Victim(Kept) IN
           active' = Kept \cup {s} /\ holder' = [holder EXCEPT ![s] = 1 - @] /\ Touch(s)
    /\ quiet' = IF timeout = 0 THEN quiet ELSE 0
    /\ UNCHANGED <<timeout, now>>

\* validateSession() with the token of slot s; any call cleans up.
ValidateSession(s) ==
    /\ timeout # 0
    /\ active' = Kept
    /\ IF s \in Kept THEN Touch(s) ELSE UNCHANGED <<stamp, idle>>
    /\ quiet' = 0
    /\ UNCHANGED <<holder, timeout, now>>

\* invalidateSession(): no cleanup
InvalidateSession(s) ==
    /\ s \in active /\ active' = active \ {s}
    /\ UNCHANGED <<holder, stamp, timeout, now, idle, quiet>>

SetTimeoutMinutes(t) ==
    /\ timeout' = t
    /\ UNCHANGED <<active, holder, stamp, now, idle, quiet>>

SessTick ==
    /\ quiet < Horizon /\ quiet' = quiet + 1
    /\ now' = (now + 1) % Wrap
    /\ idle' = [s \in Slot |-> IF idle[s] < Wrap + Horizon THEN idle[s] + 1 ELSE idle[s]]
    /\ UNCHANGED <<active, holder, stamp, timeout>>

SessNext ==
    \/ CreateSession \/ SessTick
    \/ \E s \in Slot : ValidateSession(s) \/ InvalidateSession(s)
    \/ \E t \in Timeouts : SetTimeoutMinutes(t)

SessSpec == SessInit /\ [][SessNext]_sessVars

-----------------------------------------------------------------------------
(* Properties.                                                             *)

SessTypeOK ==
    /\ active \subseteq Slot /\ timeout \in Timeouts /\ now \in 0..Wrap - 1
    /\ holder \in [Slot -> {0, 1}]
    /\ stamp \in [Slot -> 0..Wrap - 1] /\ idle \in [Slot -> 0..Wrap + Horizon]
    /\ quiet \in 0..Horizon

Live(s) == s \in active /\ idle[s] < timeout

\* The session in slot s ends: nobody has the slot, or another login has it.
Ends(s) == s \notin active' \/ holder'[s] # holder[s]

\* "Remove expired sessions" (SessionManager.h:36) and no others: a session used
\* within the timeout ends by its logout, or because a login finds every slot
\* taken by such a session ("Evict oldest", SessionManager.cpp:26), while some
\* request cleans up at least every Horizon ticks.
SessionSurvives ==
    [][\A s \in Slot : Live(s) /\ Ends(s)
            => InvalidateSession(s) \/ \A t \in Slot : Live(t)]_sessVars

\* A request is accepted only for a session used within the timeout, while some
\* request cleans up at least every Horizon ticks.
ExpiredSessionsEnd ==
    [][\A s \in Slot : ValidateSession(s) /\ s \in active' => idle[s] < timeout]_sessVars

\* A login takes the slot of a session that the cleanup before it has kept.
Evicted(s) == s \in Kept /\ holder'[s] # holder[s]

\* "Evict oldest" (SessionManager.cpp:26): with all slots taken by live
\* sessions the least recently used one makes room, unless millis() has
\* wrapped since one of them was used.
EvictsOldest ==
    [][\A s \in Slot : Evicted(s) /\ (\A t \in Slot : idle[t] <= now)
            => \A t \in Slot : idle[t] <= idle[s]]_sessVars

\* The same without the exception, which the code does not meet.
AlwaysEvictsOldest ==
    [][\A s \in Slot : Evicted(s) => \A t \in Slot : idle[t] <= idle[s]]_sessVars
=============================================================================
