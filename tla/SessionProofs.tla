---------------------------- MODULE SessionProofs ----------------------------
(***************************************************************************)
(* A logout is final however the calls of the two servers interleave; a    *)
(* session lives as long as its timeout says and a full table gives up the *)
(* oldest, however often millis() wraps: for any number of slots, logins,  *)
(* timeouts and ticks.                                                     *)
(***************************************************************************)
EXTENDS Sessions, SessionRace, TLAPS, WellFoundedInduction

\* v serves a login that has not written its token yet.
Unwritten(v) == call[v] \in {"age", "wipe", "scan", "begin"}

\* Login h wrote its token's beginning, which it does once.
Began(h) ==
    /\ h \in 1..logins
    /\ \A v \in Server : login[v] = h => ~Unwritten(v)

\* A beginning is in one slot, the one its login took; once a logout has found
\* it, it is in no other slot than the one about to be wiped, and after that in
\* none.
LogoutInv ==
    /\ \A v \in Server : login[v] <= logins
    /\ \A v, w \in Server : login[v] # 0 /\ login[v] = login[w] => v = w
    /\ \A s \in 0..LastSlot : token[s].head # Cut => Began(token[s].head)
    /\ \A s, r \in 0..LastSlot :
           token[s].head # Cut /\ token[s].head = token[r].head => s = r
    /\ \A c \in given : c.head # Cut
    /\ call["httpd"] = "drop" =>
           /\ Began(cookie.head)
           /\ \A s \in 0..LastSlot : token[s].head = cookie.head => s = at["httpd"]
    /\ \A c \in out : Began(c.head) /\ \A s \in 0..LastSlot : token[s].head # c.head

-----------------------------------------------------------------------------
(* A step of a call                                                        *)

Steps == {"idle", "age", "wipe", "scan", "begin", "finish", "activate", "answer",
          "find", "drop"}

LEMMA StepCalls ==
    ASSUME RaceTypeOK, NEW v \in Server, NEW from, NEW to \in Steps, Step(v, from, to)
    PROVE  /\ call[v] = from /\ call'[v] = to
           /\ \A w \in Server : w # v => call'[w] = call[w]
           /\ call' \in [Server -> Steps]
BY DEF RaceTypeOK, Step, Steps

LEMMA NextSlotCalls ==
    ASSUME RaceTypeOK, NEW v \in Server, NEW stay, NEW past, NextSlot(v, stay, past)
    PROVE  /\ at' \in [Server -> 0..LastSlot]
           /\ Step(v, call[v], stay) \/ Step(v, call[v], past)
           /\ \A w \in Server : w # v => at'[w] = at[w]
<1>1. 0 \in 0..LastSlot /\ at[v] \in 0..LastSlot
  BY RaceAssumption DEF RaceTypeOK
<1>2. at[v] < LastSlot => at[v] + 1 \in 0..LastSlot
  BY <1>1, RaceAssumption
<1> QED BY <1>1, <1>2 DEF NextSlot, Look, RaceTypeOK

\* cleanup() goes on, or ends in the step that follows it.
LEMMA CleanupCalls ==
    ASSUME RaceTypeOK, NEW v \in Server, NextSlot(v, "age", CleanedUp(v))
    PROVE  /\ call' \in [Server -> Steps] /\ at' \in [Server -> 0..LastSlot]
           /\ call'[v] = "age" \/ call'[v] = "idle" \/ (call'[v] = "scan" /\ login[v] # 0)
           /\ \A w \in Server : w # v => call'[w] = call[w] /\ at'[w] = at[w]
<1>1. CleanedUp(v) \in Steps /\ "age" \in Steps
      /\ (CleanedUp(v) = "idle" \/ (CleanedUp(v) = "scan" /\ login[v] # 0))
  BY DEF CleanedUp, Steps
<1> QED BY <1>1, StepCalls, NextSlotCalls

-----------------------------------------------------------------------------
(* Types                                                                   *)

\* The state after a write to slot s
LEMMA TokenWrites ==
    ASSUME RaceTypeOK, NEW s \in 0..LastSlot, NEW h \in Login \cup {Cut}
    PROVE  /\ [token EXCEPT ![s].head = h] \in [0..LastSlot -> Token]
           /\ [token EXCEPT ![s].tail = h] \in [0..LastSlot -> Token]
           /\ [token EXCEPT ![s] = [head |-> h, tail |-> Cut]] \in [0..LastSlot -> Token]
           /\ [token EXCEPT ![s].head = h][s].head = h
           /\ [token EXCEPT ![s].tail = h][s].head = token[s].head
           /\ \A r \in 0..LastSlot : r # s => /\ [token EXCEPT ![s].head = h][r] = token[r]
                                             /\ [token EXCEPT ![s].tail = h][r] = token[r]
BY DEF RaceTypeOK, Token

\* A logout's cookie was handed out.
CookieGiven == call["httpd"] \in {"find", "drop"} => cookie \in given

LEMMA RaceTypesStep == RaceTypeOK /\ CookieGiven /\ [RaceNext]_raceVars => RaceTypeOK'
<1> SUFFICES ASSUME RaceTypeOK, CookieGiven, [RaceNext]_raceVars PROVE RaceTypeOK'
  OBVIOUS
<1>a. RaceTypeOK <=>
        /\ taken \subseteq 0..LastSlot /\ token \in [0..LastSlot -> Token]
        /\ call \in [Server -> Steps]
        /\ at \in [Server -> 0..LastSlot] /\ login \in [Server -> 0..LastLogin]
        /\ logins \in 0..LastLogin /\ cookie \in Token
        /\ given \subseteq Token /\ out \subseteq given
  BY DEF RaceTypeOK, Steps
<1>b. Cut \in Login \cup {Cut} /\ \A v \in Server : login[v] \in Login \cup {Cut} /\ at[v] \in 0..LastSlot
  BY RaceAssumption DEF RaceTypeOK, Login, Cut
<1>c. "httpd" \in Server /\ 0 \in 0..LastSlot
  BY RaceAssumption DEF Server
<1>1. ASSUME NEW v \in Server, BeginLogin(v) PROVE RaceTypeOK'
  <2>1. call' \in [Server -> Steps] /\ at' \in [Server -> 0..LastSlot]
    BY <1>1, <1>c, StepCalls DEF BeginLogin, Look, RaceTypeOK, Steps
  <2>2. logins' \in 0..LastLogin /\ login' \in [Server -> 0..LastLogin]
    BY <1>1, RaceAssumption DEF BeginLogin, RaceTypeOK
  <2> QED BY <1>1, <2>1, <2>2 DEF BeginLogin, RaceTypeOK, Steps
<1>2. ASSUME NEW v \in Server, BeginRequest(v) PROVE RaceTypeOK'
  <2>1. call' \in [Server -> Steps] /\ at' \in [Server -> 0..LastSlot]
    BY <1>2, <1>c, StepCalls DEF BeginRequest, Look, RaceTypeOK, Steps
  <2>2. login' \in [Server -> 0..LastLogin]
    BY <1>2, RaceAssumption DEF BeginRequest, RaceTypeOK
  <2> QED BY <1>2, <2>1, <2>2 DEF BeginRequest, RaceTypeOK, Steps
<1>3. ASSUME NEW v \in Server, Keep(v) PROVE RaceTypeOK'
  BY <1>3, CleanupCalls DEF Keep, request, RaceTypeOK, Steps
<1>4. ASSUME NEW v \in Server, Expire(v) PROVE RaceTypeOK'
  <2>1. call' \in [Server -> Steps]
    BY <1>4, StepCalls DEF Expire, Steps
  <2> QED BY <1>4, <2>1 DEF Expire, request, RaceTypeOK, Steps
<1>5. ASSUME NEW v \in Server, Wipe(v) PROVE RaceTypeOK'
  <2>1. call' \in [Server -> Steps] /\ at' \in [Server -> 0..LastSlot]
    BY <1>5, CleanupCalls DEF Wipe
  <2>2. token' \in [0..LastSlot -> Token]
    BY <1>5, <1>b, TokenWrites DEF Wipe
  <2> QED BY <1>5, <2>1, <2>2 DEF Wipe, request, RaceTypeOK, Steps
<1>6. ASSUME NEW v \in Server, Scan(v) PROVE RaceTypeOK'
  <2>1. call' \in [Server -> Steps]
    BY <1>6, StepCalls DEF Scan, Steps
  <2>2. at' \in [Server -> 0..LastSlot]
    BY <1>6, <1>b, RaceAssumption DEF Scan, Look, RaceTypeOK
  <2> QED BY <1>6, <2>1, <2>2 DEF Scan, request, RaceTypeOK, Steps
<1>7. ASSUME NEW v \in Server, BeginToken(v) PROVE RaceTypeOK'
  <2>1. call' \in [Server -> Steps]
    BY <1>7, StepCalls DEF BeginToken, Steps
  <2>2. token' \in [0..LastSlot -> Token]
    BY <1>7, <1>b, TokenWrites DEF BeginToken
  <2> QED BY <1>7, <2>1, <2>2 DEF BeginToken, request, RaceTypeOK, Steps
<1>8. ASSUME NEW v \in Server, FinishToken(v) PROVE RaceTypeOK'
  <2>1. call' \in [Server -> Steps]
    BY <1>8, StepCalls DEF FinishToken, Steps
  <2>2. token' \in [0..LastSlot -> Token]
    BY <1>8, <1>b, TokenWrites DEF FinishToken
  <2> QED BY <1>8, <2>1, <2>2 DEF FinishToken, request, RaceTypeOK, Steps
<1>9. ASSUME NEW v \in Server, Activate(v) PROVE RaceTypeOK'
  <2>1. call' \in [Server -> Steps]
    BY <1>9, StepCalls DEF Activate, Steps
  <2> QED BY <1>9, <1>b, <2>1 DEF Activate, request, RaceTypeOK, Steps
<1>10. ASSUME NEW v \in Server, Answer(v) PROVE RaceTypeOK'
  <2>1. call' \in [Server -> Steps]
    BY <1>10, StepCalls DEF Answer, Steps
  <2>2. given' \subseteq Token /\ given \subseteq given'
    BY <1>10, <1>b DEF Answer, RaceTypeOK
  <2> QED BY <1>10, <2>1, <2>2 DEF Answer, request, RaceTypeOK, Steps
<1>11. ASSUME NEW c \in given, BeginLogout(c) PROVE RaceTypeOK'
  <2>1. call' \in [Server -> Steps] /\ at' \in [Server -> 0..LastSlot]
    BY <1>11, <1>c, StepCalls DEF BeginLogout, Look, RaceTypeOK, Steps
  <2> QED BY <1>11, <2>1 DEF BeginLogout, RaceTypeOK, Steps
<1>12. CASE Find
  <2>1. CASE Found
    <3>1. call' \in [Server -> Steps]
      BY <1>12, <2>1, <1>c, StepCalls DEF Find, Steps
    <3> QED BY <1>12, <2>1, <3>1 DEF Find, request, RaceTypeOK, Steps
  <2>2. CASE ~Found
    <3>1. NextSlot("httpd", "find", "idle")
      BY <1>12, <2>2 DEF Find
    <3>2. call' \in [Server -> Steps] /\ at' \in [Server -> 0..LastSlot]
      BY <3>1, <1>c, NextSlotCalls, StepCalls DEF Steps
    <3> QED BY <1>12, <2>2, <3>2 DEF Find, request, RaceTypeOK, Steps
  <2> QED BY <2>1, <2>2
<1>13. CASE Drop
  <2>1. call' \in [Server -> Steps]
    BY <1>13, <1>c, StepCalls DEF Drop, Steps
  <2>2. token' \in [0..LastSlot -> Token]
    BY <1>13, <1>b, <1>c, TokenWrites DEF Drop
  <2>3. cookie \in given
    BY <1>13 DEF Drop, Step, CookieGiven
  <2> QED BY <1>13, <2>1, <2>2, <2>3 DEF Drop, request, RaceTypeOK, Steps
<1>14. CASE UNCHANGED raceVars
  BY <1>14 DEF raceVars, RaceTypeOK
<1> QED BY <1>1, <1>2, <1>3, <1>4, <1>5, <1>6, <1>7, <1>8, <1>9, <1>10, <1>11, <1>12,
           <1>13, <1>14 DEF RaceNext

\* The three ways a server's own step leaves the logout alone
LEMMA CookieStays ==
    ASSUME RaceTypeOK, CookieGiven, NEW v \in Server,
           UNCHANGED cookie, given \subseteq given',
           call'[v] \notin {"find", "drop"},
           \A w \in Server : w # v => call'[w] = call[w]
    PROVE  CookieGiven'
BY DEF CookieGiven, Server

LEMMA CookieStep ==
    RaceTypeOK /\ CookieGiven /\ [RaceNext]_raceVars => CookieGiven'
<1> SUFFICES ASSUME RaceTypeOK, CookieGiven, [RaceNext]_raceVars PROVE CookieGiven'
  OBVIOUS
<1> USE DEF Steps
<1>1. ASSUME NEW v \in Server, BeginLogin(v) \/ BeginRequest(v) PROVE CookieGiven'
  BY <1>1, StepCalls, CookieStays DEF BeginLogin, BeginRequest
<1>2. ASSUME NEW v \in Server, Keep(v) \/ Wipe(v) PROVE CookieGiven'
  BY <1>2, CleanupCalls, CookieStays DEF Keep, Wipe, request
<1>3. ASSUME NEW v \in Server, Expire(v) \/ BeginToken(v) \/ FinishToken(v) \/ Activate(v)
      PROVE  CookieGiven'
  BY <1>3, StepCalls, CookieStays DEF Expire, BeginToken, FinishToken, Activate, request
<1>4. ASSUME NEW v \in Server, Scan(v) PROVE CookieGiven'
  BY <1>4, StepCalls, CookieStays DEF Scan, request
<1>5. ASSUME NEW v \in Server, Answer(v) PROVE CookieGiven'
  <2>1. given \subseteq given'
    BY <1>5 DEF Answer
  <2> QED BY <1>5, <2>1, StepCalls, CookieStays DEF Answer, request
<1>6. ASSUME NEW c \in given, BeginLogout(c) PROVE CookieGiven'
  BY <1>6 DEF BeginLogout, CookieGiven
<1>7. CASE Find
  <2>1. call["httpd"] = "find" /\ UNCHANGED <<cookie, given>>
    BY <1>7 DEF Find, request
  <2> QED BY <2>1 DEF CookieGiven
<1>8. CASE Drop
  <2>1. call'["httpd"] = "idle"
    BY <1>8, StepCalls DEF Drop, Server
  <2> QED BY <2>1 DEF CookieGiven
<1>9. CASE UNCHANGED raceVars
  BY <1>9 DEF raceVars, CookieGiven
<1> QED BY <1>1, <1>2, <1>3, <1>4, <1>5, <1>6, <1>7, <1>8, <1>9 DEF RaceNext

-----------------------------------------------------------------------------
(* The logout                                                              *)

\* A login's token is begun by then and stays so: no step but BeginLogin, which
\* serves a new one, leads from another step to one of Unwritten.
LEMMA BeganStays ==
    ASSUME UNCHANGED <<login, logins>>,
           \A v \in Server : login[v] # 0 /\ Unwritten(v)' => Unwritten(v)
    PROVE  \A h : Began(h) => Began(h)'
BY DEF Began

\* Steps that write no beginning but a NUL, serve the same logins, and neither
\* begin nor end a logout's second half
LEMMA LogoutStays ==
    ASSUME LogoutInv, UNCHANGED <<login, logins, cookie, out>>,
           \A s \in 0..LastSlot : token'[s].head \in {token[s].head, Cut},
           \A v \in Server : login[v] # 0 /\ Unwritten(v)' => Unwritten(v),
           call'["httpd"] = "drop" => call["httpd"] = "drop" /\ UNCHANGED at["httpd"],
           \A c \in given' : c.head # Cut
    PROVE  LogoutInv'
<1>1. \A h : Began(h) => Began(h)'
  BY BeganStays
<1>2. \A h : Began(h) => h # Cut
  BY DEF Began, Cut
<1>3. \A c \in out' : Began(c.head)' /\ \A s \in 0..LastSlot : token'[s].head # c.head
  BY <1>1, <1>2 DEF LogoutInv
<1>4. \A s \in 0..LastSlot : (token[s].head # Cut => Began(token[s].head))'
  BY <1>1 DEF LogoutInv
<1>5. call'["httpd"] = "drop" =>
          /\ Began(cookie.head)'
          /\ \A s \in 0..LastSlot : token'[s].head = cookie'.head => s = at'["httpd"]
  BY <1>1, <1>2 DEF LogoutInv
<1>6. \A s, r \in 0..LastSlot :
          token'[s].head # Cut /\ token'[s].head = token'[r].head => s = r
  BY DEF LogoutInv
<1> QED BY <1>3, <1>4, <1>5, <1>6 DEF LogoutInv

LEMMA LogoutStep ==
    RaceTypeOK /\ CookieGiven /\ LogoutInv /\ [RaceNext]_raceVars => LogoutInv'
<1> SUFFICES ASSUME RaceTypeOK, CookieGiven, LogoutInv, [RaceNext]_raceVars
             PROVE  LogoutInv'
  OBVIOUS
<1> USE DEF Steps
<1>a. "httpd" \in Server /\ \A v \in Server : at[v] \in 0..LastSlot /\ login[v] \in Nat
  BY RaceAssumption DEF RaceTypeOK, Server
<1>b. \A c \in given : c.head # Cut
  BY DEF LogoutInv
<1>1. ASSUME NEW v \in Server, BeginLogin(v) PROVE LogoutInv'
  <2>1. /\ call[v] = "idle" /\ call'[v] = "age"
        /\ \A w \in Server : w # v => call'[w] = call[w] /\ at'[w] = at[w] /\ login'[w] = login[w]
        /\ login'[v] = logins + 1 /\ logins' = logins + 1 /\ logins \in Nat
        /\ UNCHANGED <<token, cookie, given, out>>
    BY <1>1, StepCalls DEF BeginLogin, Look, RaceTypeOK
  <2>2. \A w \in Server : login[w] <= logins
    BY DEF LogoutInv
  <2>3. \A h : Began(h) => Began(h)'
    BY <2>1, <2>2 DEF Began, Unwritten
  <2>4. call'["httpd"] = "drop" => call["httpd"] = "drop" /\ UNCHANGED at["httpd"]
    BY <2>1, <1>a
  <2>5. \A w \in Server : login'[w] <= logins'
    BY <2>1, <2>2, <1>a
  <2>6. \A w, x \in Server : login'[w] # 0 /\ login'[w] = login'[x] => w = x
    BY <2>1, <2>2, <1>a DEF LogoutInv
  <2> QED BY <2>1, <2>3, <2>4, <2>5, <2>6 DEF LogoutInv
<1>2. ASSUME NEW v \in Server, BeginRequest(v) PROVE LogoutInv'
  <2>1. /\ call[v] = "idle" /\ call'[v] = "age"
        /\ \A w \in Server : w # v => call'[w] = call[w] /\ at'[w] = at[w] /\ login'[w] = login[w]
        /\ login'[v] = 0 /\ UNCHANGED <<token, cookie, given, out, logins>>
    BY <1>2, StepCalls DEF BeginRequest, Look, RaceTypeOK
  <2>2. \A h : Began(h) => Began(h)'
    BY <2>1 DEF Began, Unwritten
  <2>3. call'["httpd"] = "drop" => call["httpd"] = "drop" /\ UNCHANGED at["httpd"]
    BY <2>1, <1>a
  <2>4. \A w \in Server : login'[w] <= logins'
    BY <2>1, <1>a DEF LogoutInv, RaceTypeOK
  <2>5. \A w, x \in Server : login'[w] # 0 /\ login'[w] = login'[x] => w = x
    BY <2>1 DEF LogoutInv
  <2> QED BY <2>1, <2>2, <2>3, <2>4, <2>5 DEF LogoutInv
<1>3. ASSUME NEW v \in Server, Keep(v) \/ Wipe(v) PROVE LogoutInv'
  <2>1. /\ call[v] \in {"age", "wipe"}
        /\ call'[v] = "age" \/ call'[v] = "idle" \/ (call'[v] = "scan" /\ login[v] # 0)
        /\ \A w \in Server : w # v => call'[w] = call[w] /\ at'[w] = at[w]
        /\ UNCHANGED <<request, given, out>>
    BY <1>3, CleanupCalls DEF Keep, Wipe
  <2>2. \A s \in 0..LastSlot : token'[s].head \in {token[s].head, Cut}
    <3>1. CASE Keep(v)
      BY <3>1 DEF Keep
    <3>2. CASE Wipe(v)
      BY <3>2, <1>a, TokenWrites DEF Wipe
    <3> QED BY <3>1, <3>2, <1>3
  <2>3. \A w \in Server : login[w] # 0 /\ Unwritten(w)' => Unwritten(w)
    BY <2>1 DEF Unwritten
  <2>4. call'["httpd"] = "drop" => call["httpd"] = "drop" /\ UNCHANGED at["httpd"]
    BY <2>1, <1>a
  <2> QED BY <2>1, <2>2, <2>3, <2>4, <1>b, LogoutStays DEF request
<1>4. ASSUME NEW v \in Server, Expire(v) \/ Scan(v) \/ Activate(v) \/ Answer(v)
      PROVE  LogoutInv'
  <2>1. /\ call[v] \in {"age", "scan", "activate", "answer"}
        /\ call'[v] \in {"wipe", "scan", "begin", "answer", "idle"}
        /\ Unwritten(v)' => Unwritten(v)
        /\ \A w \in Server : w # v => call'[w] = call[w]
    BY <1>4, StepCalls DEF Expire, Scan, Activate, Answer, Unwritten
  <2>2. /\ \A w \in Server : w # v => at'[w] = at[w]
        /\ UNCHANGED <<request, token, out>>
    BY <1>4 DEF Expire, Scan, Activate, Answer, Look, RaceTypeOK
  <2>3. \A c \in given' : c.head # Cut
    BY <1>4, <1>b DEF Expire, Scan, Activate, Answer, Whole
  <2>4. \A w \in Server : login[w] # 0 /\ Unwritten(w)' => Unwritten(w)
    BY <2>1 DEF Unwritten
  <2>5. call'["httpd"] = "drop" => call["httpd"] = "drop" /\ UNCHANGED at["httpd"]
    BY <2>1, <2>2, <1>a
  <2> QED BY <2>2, <2>3, <2>4, <2>5, LogoutStays DEF request
<1>5. ASSUME NEW v \in Server, BeginToken(v) PROVE LogoutInv'
  <2> DEFINE h == login[v]
  <2>1. /\ call[v] = "begin" /\ call'[v] = "finish"
        /\ \A w \in Server : w # v => call'[w] = call[w]
        /\ UNCHANGED <<at, login, logins, cookie, given, out>>
    BY <1>5, StepCalls DEF BeginToken, request
  <2>2. /\ token'[at[v]].head = h
        /\ \A s \in 0..LastSlot : s # at[v] => token'[s] = token[s]
    BY <1>5, <1>a DEF BeginToken, RaceTypeOK
  <2>3. \A w \in Server : login[w] # 0 /\ Unwritten(w)' => Unwritten(w)
    BY <2>1 DEF Unwritten
  <2>4. \A g : Began(g) => Began(g)'
    BY <2>1, <2>3, BeganStays
  <2>5. ~Began(h)
    BY <2>1 DEF Began, Unwritten
  <2>6. h # Cut => Began(h)'
    <3>1. h # Cut => h \in 1..logins'
      BY <2>1, <1>a DEF LogoutInv, RaceTypeOK, Cut
    <3>2. h # Cut => \A w \in Server : login'[w] = h => w = v
      BY <2>1 DEF LogoutInv, Cut
    <3> QED BY <2>1, <3>1, <3>2 DEF Began, Unwritten
  <2>7. \A s \in 0..LastSlot : (token[s].head # Cut => Began(token[s].head))'
    <3>1. ASSUME NEW s \in 0..LastSlot, s # at[v] PROVE (token[s].head # Cut => Began(token[s].head))'
      BY <2>2, <2>4, <3>1 DEF LogoutInv
    <3>2. (token[at[v]].head # Cut => Began(token[at[v]].head))'
      BY <2>1, <2>2, <2>6
    <3> QED BY <2>1, <3>1, <3>2
  <2>8. \A s, r \in 0..LastSlot :
            token'[s].head # Cut /\ token'[s].head = token'[r].head => s = r
    BY <2>2, <2>5, <1>a DEF LogoutInv
  <2>9. call'["httpd"] = "drop" =>
            /\ call["httpd"] = "drop" /\ Began(cookie.head)'
            /\ \A s \in 0..LastSlot : token'[s].head = cookie'.head => s = at'["httpd"]
    BY <2>1, <2>2, <2>4, <2>5, <1>a DEF LogoutInv
  <2>10. \A c \in out' : Began(c.head)' /\ \A s \in 0..LastSlot : token'[s].head # c.head
    BY <2>1, <2>2, <2>4, <2>5, <1>a DEF LogoutInv
  <2>11. \A w, x \in Server : login'[w] # 0 /\ login'[w] = login'[x] => w = x
    BY <2>1 DEF LogoutInv
  <2>12. (\A w \in Server : login'[w] <= logins') /\ \A c \in given' : c.head # Cut
    BY <2>1 DEF LogoutInv
  <2> HIDE DEF h
  <2> QED BY <2>7, <2>8, <2>9, <2>10, <2>11, <2>12 DEF LogoutInv
<1>6. ASSUME NEW v \in Server, FinishToken(v) PROVE LogoutInv'
  <2>1. /\ call[v] = "finish" /\ call'[v] = "activate"
        /\ \A w \in Server : w # v => call'[w] = call[w]
        /\ UNCHANGED <<at, login, logins, cookie, given, out>>
    BY <1>6, StepCalls DEF FinishToken, request
  <2>2. \A s \in 0..LastSlot : token'[s].head \in {token[s].head, Cut}
    <3>1. login[v] \in Login \cup {Cut}
      BY DEF RaceTypeOK, Login, Cut
    <3> QED BY <1>6, <3>1, <1>a, TokenWrites DEF FinishToken
  <2>3. \A w \in Server : login[w] # 0 /\ Unwritten(w)' => Unwritten(w)
    BY <2>1 DEF Unwritten
  <2>4. call'["httpd"] = "drop" => call["httpd"] = "drop" /\ UNCHANGED at["httpd"]
    BY <2>1, <1>a
  <2> QED BY <2>1, <2>2, <2>3, <2>4, <1>b, LogoutStays
<1>7. ASSUME NEW c \in given, BeginLogout(c) PROVE LogoutInv'
  <2>1. /\ call["httpd"] = "idle" /\ call'["httpd"] = "find"
        /\ \A w \in Server : w # "httpd" => call'[w] = call[w]
        /\ UNCHANGED <<token, login, logins, given, out>>
    BY <1>7, <1>a, StepCalls DEF BeginLogout
  <2>2. \A w \in Server : login[w] # 0 /\ Unwritten(w)' => Unwritten(w)
    BY <2>1 DEF Unwritten
  <2>3. \A h : Began(h) => Began(h)'
    BY <2>1, <2>2, BeganStays
  <2> QED BY <2>1, <2>3 DEF LogoutInv
<1>8. CASE Find
  <2>1. /\ call["httpd"] = "find" /\ call'["httpd"] \in {"find", "idle", "drop"}
        /\ \A w \in Server : w # "httpd" => call'[w] = call[w]
        /\ call'["httpd"] = "drop" => Found /\ UNCHANGED at
        /\ UNCHANGED <<token, request, given, out>>
    <3>1. CASE Found
      BY <3>1, <1>8, <1>a, StepCalls DEF Find
    <3>2. CASE ~Found
      BY <3>2, <1>8, <1>a, StepCalls, NextSlotCalls DEF Find
    <3> QED BY <3>1, <3>2
  <2>2. \A w \in Server : login[w] # 0 /\ Unwritten(w)' => Unwritten(w)
    BY <2>1 DEF Unwritten
  <2>3. \A h : Began(h) => Began(h)'
    BY <2>1, <2>2, BeganStays DEF request
  <2>4. call'["httpd"] = "drop" =>
            /\ Began(cookie.head)'
            /\ \A s \in 0..LastSlot : token'[s].head = cookie'.head => s = at'["httpd"]
    <3>1. cookie.head # Cut
      BY <2>1 DEF CookieGiven, LogoutInv
    <3>2. call'["httpd"] = "drop" => token[at["httpd"]].head = cookie.head
      BY <2>1 DEF Found
    <3> QED BY <2>1, <2>3, <3>1, <3>2, <1>a DEF request, LogoutInv
  <2> QED BY <2>1, <2>3, <2>4 DEF LogoutInv, request
<1>9. CASE Drop
  <2>1. /\ call["httpd"] = "drop" /\ call'["httpd"] = "idle"
        /\ \A w \in Server : w # "httpd" => call'[w] = call[w]
        /\ UNCHANGED <<at, login, logins, cookie, given>> /\ out' = out \cup {cookie}
    BY <1>9, <1>a, StepCalls DEF Drop, request
  <2>2. /\ token'[at["httpd"]].head = Cut
        /\ \A s \in 0..LastSlot : s # at["httpd"] => token'[s] = token[s]
    BY <1>9, <1>a, TokenWrites DEF Drop
  <2>3. \A w \in Server : login[w] # 0 /\ Unwritten(w)' => Unwritten(w)
    BY <2>1 DEF Unwritten
  <2>4. \A h : Began(h) => Began(h)'
    BY <2>1, <2>3, BeganStays
  <2>5. \A c \in out' : Began(c.head) /\ \A s \in 0..LastSlot : token'[s].head # c.head
    BY <2>1, <2>2 DEF LogoutInv, Began, Cut
  <2>6. \A s \in 0..LastSlot : token'[s].head # Cut => token'[s] = token[s]
    BY <2>2
  <2> QED BY <2>1, <2>4, <2>5, <2>6 DEF LogoutInv
<1>10. CASE UNCHANGED raceVars
  BY <1>10 DEF raceVars, LogoutInv, Began, Unwritten
<1> QED BY <1>1, <1>2, <1>3, <1>4, <1>5, <1>6, <1>7, <1>8, <1>9, <1>10 DEF RaceNext

\* Every slot, token, cookie and step of a call stays within its type.
THEOREM RaceTypesHold == RaceSpec => [](RaceTypeOK /\ CookieGiven)
<1>1. RaceInit => RaceTypeOK /\ CookieGiven
  BY RaceAssumption DEF RaceInit, RaceTypeOK, CookieGiven, Token, Empty, Login, Cut, Server
<1> QED BY <1>1, RaceTypesStep, CookieStep, PTL DEF RaceSpec

\* No session accepts a cookie once a logout has found and ended its session,
\* however the calls of the two servers interleave.
THEOREM LogoutsAreFinal == RaceSpec => []LogoutIsFinal
<1>1. RaceInit => LogoutInv
  BY DEF RaceInit, LogoutInv, Empty, Cut, Server
<1>2. RaceTypeOK /\ LogoutInv => LogoutIsFinal
  BY DEF RaceTypeOK, LogoutInv, LogoutIsFinal
<1> QED BY <1>1, <1>2, LogoutStep, RaceTypesHold, PTL DEF RaceSpec

-----------------------------------------------------------------------------
(* The clock of a session                                                  *)

\* What cleanup() computes
Since(s) == (now - stamp[s]) % Wrap

LEMMA SinceIs ==
    ASSUME NEW n \in 0..Wrap - 1, NEW m \in 0..Wrap - 1
    PROVE  (n - m) % Wrap = IF n >= m THEN n - m ELSE n + Wrap - m
BY SessionsAssumption

LEMMA NextNow ==
    ASSUME NEW n \in 0..Wrap - 1
    PROVE  (n + 1) % Wrap = IF n = Wrap - 1 THEN 0 ELSE n + 1
BY SessionsAssumption

\* The difference of two readings is the true time, except that it starts again
\* at 0 every Wrap ticks.
IdleInv ==
    /\ active \subseteq Slot /\ timeout \in Nat /\ quiet \in 0..Horizon
    /\ holder \in [Slot -> {0, 1}]
    /\ now \in 0..Wrap - 1 /\ stamp \in [Slot -> 0..Wrap - 1] /\ idle \in [Slot -> Nat]
    /\ \A s \in Slot : Since(s) <= idle[s] /\ (idle[s] < Wrap => idle[s] = Since(s))

LEMMA SinceBounds ==
    ASSUME IdleInv, NEW s \in Slot PROVE Since(s) \in 0..Wrap - 1
BY SinceIs, SessionsAssumption DEF IdleInv, Since

LEMMA IdleTouch ==
    ASSUME IdleInv, NEW s \in Slot, Touch(s), UNCHANGED now
    PROVE  /\ stamp' \in [Slot -> 0..Wrap - 1] /\ idle' \in [Slot -> Nat]
           /\ \A r \in Slot : Since(r)' <= idle'[r] /\ (idle'[r] < Wrap => idle'[r] = Since(r)')
<1>1. /\ stamp' \in [Slot -> 0..Wrap - 1] /\ idle' \in [Slot -> Nat]
      /\ stamp'[s] = now /\ idle'[s] = 0
      /\ \A r \in Slot : r # s => stamp'[r] = stamp[r] /\ idle'[r] = idle[r]
  BY DEF Touch, IdleInv
<1>2. (now - now) % Wrap = 0
  BY SinceIs DEF IdleInv
<1> QED BY <1>1, <1>2 DEF Since, IdleInv

LEMMA IdleTick ==
    ASSUME IdleInv, SessTick PROVE IdleInv'
<1>1. now' = IF now = Wrap - 1 THEN 0 ELSE now + 1
  BY NextNow DEF SessTick, IdleInv
<1>2. now' \in 0..Wrap - 1 /\ quiet' \in 0..Horizon
  BY <1>1, SessionsAssumption DEF SessTick, IdleInv
<1>3. /\ idle' \in [Slot -> Nat]
      /\ \A s \in Slot : idle'[s] = IF idle[s] < Wrap + Horizon THEN idle[s] + 1 ELSE idle[s]
  BY DEF SessTick, IdleInv
<1>4. ASSUME NEW s \in Slot
      PROVE  Since(s)' <= idle'[s] /\ (idle'[s] < Wrap => idle'[s] = Since(s)')
  <2>1. stamp'[s] = stamp[s] /\ stamp[s] \in 0..Wrap - 1 /\ idle[s] \in Nat
    BY DEF SessTick, IdleInv
  <2>2. Since(s) = IF now >= stamp[s] THEN now - stamp[s] ELSE now + Wrap - stamp[s]
    BY <2>1, SinceIs DEF Since, IdleInv
  <2>3. Since(s)' = IF now' >= stamp[s] THEN now' - stamp[s] ELSE now' + Wrap - stamp[s]
    BY <2>1, <1>2, SinceIs DEF Since
  <2>4. Since(s)' = IF Since(s) = Wrap - 1 THEN 0 ELSE Since(s) + 1
    BY <1>1, <2>1, <2>2, <2>3, SessionsAssumption DEF IdleInv
  <2>5. Since(s) <= idle[s] /\ (idle[s] < Wrap => idle[s] = Since(s))
    BY DEF IdleInv
  <2> QED BY <1>3, <2>1, <2>4, <2>5, SinceBounds, SessionsAssumption
<1> QED BY <1>2, <1>3, <1>4 DEF SessTick, IdleInv

LEMMA LeastNat ==
    ASSUME NEW T, T \subseteq Nat, T # {}
    PROVE  \E x \in T : \A y \in T : x <= y
<1> DEFINE R == {ss \in Nat \X Nat : ss[1] < ss[2]}
<1>1. IsWellFoundedOn(R, Nat)
  BY NatLessThanWellFounded DEF OpToRel
<1>2. PICK x \in T : \A y \in T : ~ (<<y, x>> \in R)
  <2> HIDE DEF R
  <2> QED BY <1>1, WFMin, Zenon
<1>3. ASSUME NEW y \in T PROVE x <= y
  <2>1. ~(<<y, x>>[1] < <<y, x>>[2])
    BY <1>2
  <2> QED BY <2>1
<1> QED BY <1>3

\* createSession() always finds a slot: a free one, or the first of those with
\* the smallest stamp.
LEMMA VictimIs ==
    ASSUME IdleInv
    PROVE  /\ Victim(Kept) \in Slot
           /\ Kept # Slot => Victim(Kept) \notin Kept
           /\ Kept = Slot => \A t \in Slot : stamp[Victim(Kept)] <= stamp[t]
<1>0. 0 \in Slot
  BY SessionsAssumption DEF Slot
<1>a. Kept \subseteq Slot
  BY DEF Kept, IdleInv
<1>b. Slot \subseteq Nat
  BY SessionsAssumption DEF Slot
<1>1. Slot \subseteq Nat /\ Slot # {} /\ Kept \subseteq Slot
  BY <1>0, <1>a, <1>b
<1>2. CASE Kept # Slot
  <2>1. \E s \in Slot \ Kept : \A t \in Slot \ Kept : s <= t
    BY <1>1, <1>2, LeastNat
  <2> QED BY <1>2, <2>1 DEF Victim
<1>3. CASE Kept = Slot
  <2> DEFINE Stamps == {stamp[s] : s \in Slot}
             Oldest(m) == {s \in Slot : stamp[s] = m}
             First(s) == \A t \in Slot : stamp[s] < stamp[t] \/ (stamp[s] = stamp[t] /\ s <= t)
  <2>0. \A s \in Slot : stamp[s] \in Nat
    BY SessionsAssumption DEF IdleInv
  <2>1. Stamps \subseteq Nat /\ Stamps # {}
    BY <1>1, <2>0
  <2>2. PICK m \in Stamps : \A n \in Stamps : m <= n
    <3> HIDE DEF Stamps
    <3> QED BY <2>1, LeastNat
  <2>3. Oldest(m) \subseteq Nat /\ Oldest(m) # {}
    BY <1>1, <2>2
  <2>4. PICK s \in Oldest(m) : \A t \in Oldest(m) : s <= t
    <3> HIDE DEF Oldest
    <3> QED BY <2>3, LeastNat
  <2>5. s \in Slot /\ First(s)
    <3>1. s \in Slot /\ stamp[s] = m
      BY <2>4
    <3>2. ASSUME NEW t \in Slot PROVE stamp[s] < stamp[t] \/ (stamp[s] = stamp[t] /\ s <= t)
      <4>1. stamp[t] \in Stamps /\ m <= stamp[t] /\ stamp[t] \in Nat /\ m \in Nat
        BY <2>1, <2>2
      <4>2. stamp[t] = m => s <= t
        BY <2>4
      <4> QED BY <3>1, <4>1, <4>2
    <3> QED BY <3>1, <3>2
  <2>6. Victim(Kept) = CHOOSE x \in Slot : First(x)
    BY <1>3 DEF Victim
  <2>7. Victim(Kept) \in Slot /\ First(Victim(Kept))
    <3> HIDE DEF First
    <3> QED BY <2>5, <2>6
  <2>8. \A t \in Slot : stamp[Victim(Kept)] <= stamp[t]
    BY <2>0, <2>7
  <2> QED BY <1>3, <2>7, <2>8
<1> QED BY <1>2, <1>3

LEMMA IdleStep == IdleInv /\ [SessNext]_sessVars => IdleInv'
<1> SUFFICES ASSUME IdleInv, [SessNext]_sessVars PROVE IdleInv'
  OBVIOUS
<1>1. Kept \subseteq Slot /\ 0 \in 0..Horizon /\ quiet \in 0..Horizon
  BY SessionsAssumption DEF Kept, IdleInv
<1>2. CASE CreateSession
  <2>1. PICK s \in Slot : /\ active' = Kept \cup {s} /\ Touch(s)
                          /\ holder' = [holder EXCEPT ![s] = 1 - @]
    BY <1>2, VictimIs DEF CreateSession
  <2>a. holder' \in [Slot -> {0, 1}]
    BY <2>1 DEF IdleInv
  <2>2. UNCHANGED <<timeout, now>> /\ quiet' \in 0..Horizon
    BY <1>1, <1>2 DEF CreateSession
  <2> QED BY <1>1, <2>1, <2>a, <2>2, IdleTouch DEF IdleInv
<1>3. CASE SessTick
  BY <1>3, IdleTick
<1>4. ASSUME NEW s \in Slot, ValidateSession(s) PROVE IdleInv'
  <2>1. active' = Kept /\ quiet' = 0 /\ UNCHANGED <<holder, timeout, now>>
    BY <1>4 DEF ValidateSession
  <2>2. CASE s \in Kept
    <3>1. Touch(s)
      BY <1>4, <2>2 DEF ValidateSession
    <3> QED BY <1>1, <2>1, <3>1, IdleTouch DEF IdleInv
  <2>3. CASE s \notin Kept
    <3>1. UNCHANGED <<stamp, idle>>
      BY <1>4, <2>3 DEF ValidateSession
    <3> QED BY <1>1, <2>1, <3>1 DEF IdleInv, Since
  <2> QED BY <2>2, <2>3
<1>5. ASSUME NEW s \in Slot, InvalidateSession(s) PROVE IdleInv'
  BY <1>5 DEF InvalidateSession, IdleInv, Since
<1>6. ASSUME NEW t \in Timeouts, SetTimeoutMinutes(t) PROVE IdleInv'
  BY <1>6, SessionsAssumption DEF SetTimeoutMinutes, IdleInv, Since
<1>7. CASE UNCHANGED sessVars
  BY <1>7 DEF sessVars, IdleInv, Since
<1> QED BY <1>2, <1>3, <1>4, <1>5, <1>6, <1>7 DEF SessNext

LEMMA IdleInit == SessInit => IdleInv
<1> SUFFICES ASSUME SessInit PROVE IdleInv
  OBVIOUS
<1>1. (0 - 0) % Wrap = 0 /\ 0 \in 0..Wrap - 1 /\ 0 \in 0..Horizon
  BY SinceIs, SessionsAssumption
<1> QED BY <1>1, SessionsAssumption DEF SessInit, IdleInv, Zero, Since

-----------------------------------------------------------------------------
(* What cleanup() keeps and what it ends                                   *)

LEMMA KeptIfFresh ==
    ASSUME IdleInv, NEW s \in active, idle[s] < timeout PROVE s \in Kept
<1>1. s \in Slot /\ Since(s) <= idle[s] /\ idle[s] \in Nat
  BY DEF IdleInv
<1>2. ~Expired(s)
  BY <1>1, SinceBounds DEF Expired, Since, IdleInv
<1> QED BY <1>2 DEF Kept

LEMMA EvictsStep ==
    ASSUME IdleInv, NEW s \in Slot, [SessNext]_sessVars, Evicted(s), \A t \in Slot : idle[t] <= now
    PROVE  \A t \in Slot : idle[t] <= idle[s]
<1>1. ASSUME NEW t \in Slot PROVE idle[t] = now - stamp[t]
  <2>1. idle[t] = Since(t) /\ idle[t] <= now
    BY SessionsAssumption DEF IdleInv
  <2>2. Since(t) = IF now >= stamp[t] THEN now - stamp[t] ELSE now + Wrap - stamp[t]
    BY SinceIs DEF Since, IdleInv
  <2> QED BY <2>1, <2>2, SessionsAssumption DEF IdleInv
<1>2. \A t \in Slot : stamp[s] <= stamp[t]
  <2>1. CreateSession
    BY DEF Evicted, IdleInv, SessNext, sessVars, SessTick, ValidateSession, InvalidateSession, SetTimeoutMinutes
  <2>2. s = Victim(Kept)
    BY <2>1 DEF CreateSession, Evicted, IdleInv
  <2> QED BY <2>2, VictimIs DEF Evicted
<1> QED BY <1>1, <1>2 DEF IdleInv

\* A full table gives up the least recently used session.
THEOREM OldestIsEvicted == SessSpec => EvictsOldest
<1>1. IdleInv /\ [SessNext]_sessVars
      => [\A s \in Slot : Evicted(s) /\ (\A t \in Slot : idle[t] <= now)
                     => \A t \in Slot : idle[t] <= idle[s]]_sessVars
  BY EvictsStep
<1> QED BY <1>1, IdleInit, IdleStep, PTL DEF SessSpec, EvictsOldest

-----------------------------------------------------------------------------
(* What cleanup() ends, as long as one comes before a session is so old    *)
(* that the difference starts again                                        *)

ClockSuffices == \A t \in Timeouts : t + Horizon <= Wrap

\* At the last cleanup the session was younger than the timeout of then, or it
\* is younger than that cleanup.
QuietInv == \A s \in active :
    idle[s] <= quiet \/ \E t \in Timeouts : idle[s] < t + quiet

LEMMA IdleIsSince ==
    ASSUME ClockSuffices, IdleInv, QuietInv, timeout \in Timeouts, timeout # 0, NEW s \in active
    PROVE  idle[s] = Since(s)
<1>1. \A t \in Timeouts : t \in Nat /\ t + Horizon <= Wrap
  BY SessionsAssumption DEF ClockSuffices
<1>2. idle[s] \in Nat /\ quiet <= Horizon /\ quiet \in Nat /\ Horizon \in Nat /\ Horizon < Wrap
  BY <1>1, SessionsAssumption DEF IdleInv
<1>3. idle[s] < Wrap
  BY <1>1, <1>2, SessionsAssumption DEF QuietInv
<1> QED BY <1>3 DEF IdleInv

LEMMA QuietStep ==
    ASSUME ClockSuffices, IdleInv, QuietInv, timeout \in Timeouts, [SessNext]_sessVars
    PROVE  QuietInv' /\ timeout' \in Timeouts
<1>0. /\ Kept \subseteq active /\ active \subseteq Slot
      /\ \A t \in Timeouts : t \in Nat
      /\ quiet \in Nat /\ \A s \in Slot : idle[s] \in Nat
  BY SessionsAssumption DEF Kept, IdleInv
<1>1. timeout # 0 => \A s \in Kept : idle[s] < timeout
  BY IdleIsSince, SinceBounds, <1>0 DEF Kept, Expired, Since
<1>2. CASE CreateSession
  <2>1. PICK s \in Slot : active' = Kept \cup {s} /\ Touch(s)
    BY <1>2, VictimIs DEF CreateSession
  <2>2. /\ timeout' = timeout /\ quiet' = IF timeout = 0 THEN quiet ELSE 0
        /\ idle'[s] = 0 /\ \A r \in Slot : r # s => idle'[r] = idle[r]
    BY <1>2, <2>1 DEF CreateSession, Touch, IdleInv
  <2> QED BY <1>0, <1>1, <2>1, <2>2 DEF QuietInv
<1>3. CASE SessTick
  <2>1. /\ active' = active /\ timeout' = timeout /\ quiet' = quiet + 1
        /\ \A s \in Slot : idle'[s] <= idle[s] + 1 /\ idle'[s] \in Nat
    BY <1>3, <1>0 DEF SessTick
  <2> QED BY <1>0, <2>1 DEF QuietInv
<1>4. ASSUME NEW s \in Slot, ValidateSession(s) PROVE QuietInv' /\ timeout' \in Timeouts
  <2>1. /\ timeout # 0 /\ active' = Kept /\ quiet' = 0 /\ timeout' = timeout
        /\ \A r \in Slot : idle'[r] = idle[r] \/ idle'[r] = 0
    BY <1>4 DEF ValidateSession, Touch, IdleInv
  <2> QED BY <1>0, <1>1, <2>1 DEF QuietInv
<1>5. ASSUME NEW s \in Slot, InvalidateSession(s) PROVE QuietInv' /\ timeout' \in Timeouts
  BY <1>5 DEF InvalidateSession, QuietInv
<1>6. ASSUME NEW t \in Timeouts, SetTimeoutMinutes(t) PROVE QuietInv' /\ timeout' \in Timeouts
  BY <1>6 DEF SetTimeoutMinutes, QuietInv
<1>7. CASE UNCHANGED sessVars
  BY <1>7 DEF sessVars, QuietInv
<1> QED BY <1>2, <1>3, <1>4, <1>5, <1>6, <1>7 DEF SessNext

LEMMA SurvivesStep ==
    ASSUME ClockSuffices, IdleInv, QuietInv, timeout \in Timeouts, [SessNext]_sessVars,
           NEW s \in Slot, Live(s), Ends(s)
    PROVE  InvalidateSession(s) \/ \A t \in Slot : Live(t)
<1>1. s \in Kept
  BY KeptIfFresh DEF Live
<1>2. CASE CreateSession
  <2>1. /\ active' = Kept \cup {Victim(Kept)}
        /\ holder' = [holder EXCEPT ![Victim(Kept)] = 1 - @]
    BY <1>2 DEF CreateSession
  <2>2. s = Victim(Kept)
    BY <1>1, <2>1 DEF Ends, IdleInv
  <2>3. Kept = Slot
    BY <1>1, <2>2, VictimIs
  <2>4. timeout # 0
    BY DEF Live, IdleInv
  <2>5. ASSUME NEW t \in Slot PROVE Live(t)
    <3>1. t \in active /\ ~Expired(t)
      BY <2>3 DEF Kept
    <3>2. idle[t] = Since(t)
      BY <2>4, <3>1, IdleIsSince
    <3> QED BY <2>4, <3>1, <3>2, SinceBounds DEF Expired, Since, IdleInv, Live
  <2> QED BY <2>5
<1>3. CASE SessTick
  BY <1>3 DEF SessTick, Ends, Live
<1>4. ASSUME NEW t \in Slot, ValidateSession(t) PROVE FALSE
  BY <1>1, <1>4 DEF ValidateSession, Ends, Live
<1>5. ASSUME NEW t \in Slot, InvalidateSession(t), t # s PROVE FALSE
  BY <1>5 DEF InvalidateSession, Ends, Live
<1>6. ASSUME NEW t \in Timeouts, SetTimeoutMinutes(t) PROVE FALSE
  BY <1>6 DEF SetTimeoutMinutes, Ends, Live
<1>7. CASE UNCHANGED sessVars
  BY <1>7 DEF sessVars, Ends, Live
<1> QED BY <1>2, <1>3, <1>4, <1>5, <1>6, <1>7 DEF SessNext

\* A session used within the timeout ends by its logout, or by a login that finds
\* every slot taken by such a session, also when millis() wraps, if requests come
\* often enough for the clock.
THEOREM SessionsSurvive ==
    ASSUME ClockSuffices PROVE SessSpec => SessionSurvives
<1> DEFINE Inv == IdleInv /\ QuietInv /\ timeout \in Timeouts
<1>1. SessInit => Inv
  BY IdleInit DEF SessInit, QuietInv
<1>2. Inv /\ [SessNext]_sessVars => Inv'
  BY QuietStep, IdleStep
<1>3. Inv /\ [SessNext]_sessVars
        => [\A s \in Slot : Live(s) /\ Ends(s)
                => InvalidateSession(s) \/ \A t \in Slot : Live(t)]_sessVars
  BY SurvivesStep
<1> QED BY <1>1, <1>2, <1>3, PTL DEF SessSpec, SessionSurvives

LEMMA EndsStep ==
    ASSUME ClockSuffices, IdleInv, QuietInv, timeout \in Timeouts,
           NEW s \in Slot, ValidateSession(s), s \in active'
    PROVE  idle[s] < timeout
<1>1. timeout # 0 /\ s \in active /\ ~Expired(s)
  BY DEF ValidateSession, Kept
<1>2. idle[s] = Since(s)
  BY <1>1, IdleIsSince
<1> QED BY <1>1, <1>2, SinceBounds DEF Expired, Since, IdleInv

\* A request is accepted only for a session used within the timeout, if
\* requests come often enough for the clock.
THEOREM ExpiredSessionsAreEnded ==
    ASSUME ClockSuffices PROVE SessSpec => ExpiredSessionsEnd
<1> DEFINE Inv == IdleInv /\ QuietInv /\ timeout \in Timeouts
<1>1. SessInit => Inv
  BY IdleInit DEF SessInit, QuietInv
<1>2. Inv /\ [SessNext]_sessVars => Inv'
  BY QuietStep, IdleStep
<1>3. Inv => [\A s \in Slot : ValidateSession(s) /\ s \in active' => idle[s] < timeout]_sessVars
  BY EndsStep
<1> QED BY <1>1, <1>2, <1>3, PTL DEF SessSpec, ExpiredSessionsEnd
=============================================================================
