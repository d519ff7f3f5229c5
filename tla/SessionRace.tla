----------------------------- MODULE SessionRace -----------------------------
(***************************************************************************)
(* The session table (src/SessionManager.cpp) under calls of both servers  *)
(* at once: the HTTP server's on the "async" task, the HTTPS server's on   *)
(* "httpd".  Each access to a slot is a step.  Sessions follows the clock; *)
(* here the age test may go either way, since a call compares a millis()   *)
(* of its own with a stamp the other task may renew, and the oldest slot   *)
(* is any slot.  A token is known by the login that wrote its beginning    *)
(* and the one that wrote its end: snprintf() writes two characters at a   *)
(* time with a NUL after them.                                             *)
(***************************************************************************)
EXTENDS Integers

CONSTANTS
    LastSlot,  \* MAX_SESSIONS - 1
    LastLogin  \* bound on the number of logins

ASSUME RaceAssumption == LastSlot \in Nat /\ LastLogin \in Nat \ {0}

Server == {"async", "httpd"}
Login == 1..LastLogin
Cut == 0  \* a NUL instead of the rest

VARIABLES
    taken,   \* the slots whose session is active
    token,   \* each slot's token
    call,    \* the step of each server's call
    at,      \* the slot it looks at
    login,   \* the login it serves, 0 for another request
    logins,  \* the number of logins so far
    cookie,  \* the cookie of httpd's logout
    given,   \* history: the cookies handed out
    out      \* history: the cookies whose logout found a session

raceVars == <<taken, token, call, at, login, logins, cookie, given, out>>

Empty == [head |-> Cut, tail |-> Cut]
Whole(t) == t.head # Cut /\ t.tail # Cut

RaceInit ==
    /\ taken = {} /\ token = [s \in 0..LastSlot |-> Empty]
    /\ call = [v \in Server |-> "idle"] /\ at = [v \in Server |-> 0]
    /\ login = [v \in Server |-> 0] /\ logins = 0
    /\ cookie = Empty /\ given = {} /\ out = {}

Step(v, from, to) == call[v] = from /\ call' = [call EXCEPT ![v] = to]
Look(v, s) == at' = [at EXCEPT ![v] = s]
request == <<login, logins, cookie>>

-----------------------------------------------------------------------------
(* The request                                                            *)

\* createSession()
BeginLogin(v) ==
    /\ logins < LastLogin /\ Step(v, "idle", "age") /\ Look(v, 0)
    /\ logins' = logins + 1 /\ login' = [login EXCEPT ![v] = logins']
    /\ UNCHANGED <<taken, token, cookie, given, out>>

\* validateSession(): all it changes here is what its cleanup() changes.
BeginRequest(v) ==
    /\ Step(v, "idle", "age") /\ Look(v, 0)
    /\ login' = [login EXCEPT ![v] = 0]
    /\ UNCHANGED <<taken, token, logins, cookie, given, out>>

\* invalidateSession(), which only HTTPS calls
BeginLogout(c) ==
    /\ Step("httpd", "idle", "find") /\ Look("httpd", 0)
    /\ cookie' = c
    /\ UNCHANGED <<taken, token, login, logins, given, out>>

-----------------------------------------------------------------------------
(* cleanup()                                                               *)

NextSlot(v, stay, past) ==
    IF at[v] < LastSlot THEN Step(v, call[v], stay) /\ Look(v, at[v] + 1)
                        ELSE Step(v, call[v], past) /\ Look(v, 0)

CleanedUp(v) == IF login[v] = 0 THEN "idle" ELSE "scan"

Keep(v) ==
    /\ call[v] = "age" /\ NextSlot(v, "age", CleanedUp(v))
    /\ UNCHANGED <<taken, token, request, given, out>>

Expire(v) ==
    /\ at[v] \in taken /\ taken' = taken \ {at[v]}
    /\ Step(v, "age", "wipe")
    /\ UNCHANGED <<token, at, request, given, out>>

Wipe(v) ==
    /\ call[v] = "wipe" /\ NextSlot(v, "age", CleanedUp(v))
    /\ token' = [token EXCEPT ![at[v]].head = Cut]
    /\ UNCHANGED <<taken, request, given, out>>

-----------------------------------------------------------------------------
(* The rest of createSession()                                             *)

\* A free slot, or after the last slot any
Scan(v) ==
    /\ IF at[v] \in taken
         THEN IF at[v] < LastSlot
                THEN Step(v, "scan", "scan") /\ Look(v, at[v] + 1)
                ELSE Step(v, "scan", "begin") /\ \E s \in 0..LastSlot : Look(v, s)
         ELSE Step(v, "scan", "begin") /\ UNCHANGED at
    /\ UNCHANGED <<taken, token, request, given, out>>

BeginToken(v) ==
    /\ Step(v, "begin", "finish")
    /\ token' = [token EXCEPT ![at[v]] = [head |-> login[v], tail |-> Cut]]
    /\ UNCHANGED <<taken, at, request, given, out>>

FinishToken(v) ==
    /\ Step(v, "finish", "activate")
    /\ token' = [token EXCEPT ![at[v]].tail = login[v]]
    /\ UNCHANGED <<taken, at, request, given, out>>

Activate(v) ==
    /\ Step(v, "activate", "answer")
    /\ taken' = taken \cup {at[v]}
    /\ UNCHANGED <<token, at, request, given, out>>

\* The cookie is a copy of what the slot holds by now; a short one is refused
\* by validateSession().
Answer(v) ==
    /\ Step(v, "answer", "idle")
    /\ given' = IF Whole(token[at[v]]) THEN given \cup {token[at[v]]} ELSE given
    /\ UNCHANGED <<taken, token, at, request, out>>

-----------------------------------------------------------------------------
(* invalidateSession()                                                     *)

Found == at["httpd"] \in taken /\ token[at["httpd"]] = cookie

Find ==
    /\ call["httpd"] = "find"
    /\ IF Found THEN /\ taken' = taken \ {at["httpd"]}
                     /\ Step("httpd", "find", "drop") /\ UNCHANGED at
                ELSE NextSlot("httpd", "find", "idle") /\ UNCHANGED taken
    /\ UNCHANGED <<token, request, given, out>>

\* Mutant: a session that is not active needs no empty token.
Drop_Inactive ==
    /\ Step("httpd", "drop", "idle")
    /\ out' = out \cup {cookie}
    /\ UNCHANGED <<taken, token, at, request, given>>

Drop ==
    /\ Step("httpd", "drop", "idle")
    /\ token' = [token EXCEPT ![at["httpd"]].head = Cut]
    /\ out' = out \cup {cookie}
    /\ UNCHANGED <<taken, at, request, given>>

RaceNext ==
    \/ \E v \in Server :
           \/ BeginLogin(v) \/ BeginRequest(v)
           \/ Keep(v) \/ Expire(v) \/ Wipe(v)
           \/ Scan(v) \/ BeginToken(v) \/ FinishToken(v) \/ Activate(v) \/ Answer(v)
    \/ \E c \in given : BeginLogout(c)
    \/ Find \/ Drop

RaceSpec == RaceInit /\ [][RaceNext]_raceVars

-----------------------------------------------------------------------------
(* Properties.                                                             *)

Token == [head : Login \cup {Cut}, tail : Login \cup {Cut}]

RaceTypeOK ==
    /\ taken \subseteq 0..LastSlot /\ token \in [0..LastSlot -> Token]
    /\ call \in [Server -> {"idle", "age", "wipe", "scan", "begin", "finish",
                            "activate", "answer", "find", "drop"}]
    /\ at \in [Server -> 0..LastSlot] /\ login \in [Server -> 0..LastLogin]
    /\ logins \in 0..LastLogin /\ cookie \in Token
    /\ given \subseteq Token /\ out \subseteq given

\* invalidateSession() and its two assignments (SessionManager.cpp:55-56):
\* however the calls of the two servers interleave, no session accepts a cookie
\* once a logout has found and ended its session, though another login may be
\* writing to the same slot and activate it again.
LogoutIsFinal == \A s \in taken : token[s] \notin out

\* "Generate 128-bit random token" (SessionManager.cpp:27): a login is answered
\* with a token of its own.  The code breaks it: two logins may take the same
\* slot and mix their tokens, or hand out the same one twice.
TokensAreWhole == \A c \in given : c.head = c.tail
=============================================================================
