----------------------------- MODULE LoginProofs -----------------------------
(***************************************************************************)
(* The ways an account comes in, for any number of logins, tabs, requests  *)
(* and credentials and any capacities.  One pasted Microsoft login adds    *)
(* one account at most: the right to add it passes from the session to the *)
(* request that exchanged the code, from there to the account or to the    *)
(* pending choice of a profile, and is never copied.  A login its user was *)
(* told is canceled adds nothing later and keeps no credential.  All tabs  *)
(* of a hosted login carry the PKCE pair its session exchanges with, and   *)
(* no abandoned one keeps a port.  An imported credential makes one        *)
(* account, and what an exchange replaced it by is always with somebody.   *)
(***************************************************************************)
EXTENDS ConsoleLogins, FilterProofs, TLAPS

(***************************************************************************)
(* The pasted Microsoft login                                              *)
(***************************************************************************)
Sessions   == [started : BOOLEAN, listed : BOOLEAN, canceled : BOOLEAN, expired : BOOLEAN,
               keeps : {"nothing", "portal", "leg"}, mu : Callers \cup {Nobody}]
Selections == [listed : BOOLEAN, canceled : BOOLEAN, expired : BOOLEAN, has : BOOLEAN,
               mu : Callers \cup {Nobody}]
\* (What a session keeps names the step that follows, so nothing kept would be one too.)
Places     == Microsoft!Steps \cup {"nothing"}
Rows       == [at : Places, login : Logins \cup {Nobody}, got : {"nothing", "url", "credential"},
               profiles : 0..2, stopped : BOOLEAN]

\* The steps between the exchange and the commit, and those of a choice.
Carrying == {"begin", "profiles", "end", "commit"}
Choosing == {"choose", "chosen"}

\* No choice was ever offered for the login.
NeverOffered(x) == ~x.listed /\ ~x.canceled

\* Where a request stands tells what it brings.
Brings(x) == /\ x.at \in Carrying => x.got = "credential"
             /\ x.at = "answered" => x.got # "nothing"
             /\ x.at = "idle" => x.got = "nothing"

\* A request with a credential is the only one of its login, whose session is over
\* and which has neither an account nor a choice.
Sole(r) == request[r].got = "credential" =>
    /\ request[r].login \in Logins
    /\ session[request[r].login].canceled
    /\ added[request[r].login] = 0
    /\ NeverOffered(selection[request[r].login])
    /\ \A q \in Callers :
          request[q].got = "credential" /\ request[q].login = request[r].login => q = r

\* A request at a choice found one.
Offered(r) == request[r].at \in Choosing /\ request[r].login \in Logins =>
    ~NeverOffered(selection[request[r].login])

\* A session that is not over has nothing yet; a login with its account is done with its choice.
Single(s) ==
    /\ added[s] \in {0, 1}
    /\ ~session[s].canceled => added[s] = 0 /\ NeverOffered(selection[s])
    /\ added[s] = 1 => NeverOffered(selection[s]) \/ selection[s].canceled

Passing ==
    /\ session \in [Logins -> Sessions] /\ selection \in [Logins -> Selections]
    /\ request \in [Callers -> Rows] /\ added \in [Logins -> Nat]
    /\ \A r \in Callers : Brings(request[r]) /\ Sole(r) /\ Offered(r)
    /\ \A s \in Logins : Single(s)

----------------------------------------------------------------------------
\* A request's next row that brings nothing new.
Follows(r, x) ==
    /\ x \in Rows /\ Brings(x)
    /\ x.got = "credential" => request[r].got = "credential" /\ x.login = request[r].login
    /\ x.at \in Choosing /\ x.login \in Logins => ~NeverOffered(selection[x.login])

\* A session that stays over once it is; a choice that is not offered anew nor revived.
Fades(x, y)  == x.canceled => y.canceled
Settles(x, y) == /\ x.canceled => y.canceled
                 /\ NeverOffered(x) <=> NeverOffered(y)

\* A step that passes no right on.
Quiet ==
    /\ UNCHANGED added
    /\ session' \in [Logins -> Sessions] /\ selection' \in [Logins -> Selections]
    /\ \A s \in Logins : Fades(session[s], session'[s]) /\ Settles(selection[s], selection'[s])
    /\ \/ UNCHANGED request
       \/ \E r \in Callers, x \in Rows : request' = [request EXCEPT ![r] = x] /\ Follows(r, x)

LEMMA QuietKeeps ==
    ASSUME Passing, Quiet
    PROVE  Passing'
<1>1. PICK f \in [Callers -> Rows] :
         /\ request' = f
         /\ \A q \in Callers : f[q] = request[q] \/ Follows(q, f[q])
  <2>1. request \in [Callers -> Rows]  BY DEF Passing
  <2>2. CASE UNCHANGED request  BY <2>1, <2>2
  <2>3. CASE \E r \in Callers, x \in Rows : request' = [request EXCEPT ![r] = x] /\ Follows(r, x)
      BY <2>1, <2>3
  <2>4. QED  BY <2>2, <2>3 DEF Quiet
<1>2. ASSUME NEW q \in Callers
      PROVE  /\ Brings(f[q])
             /\ f[q].got = "credential" =>
                   request[q].got = "credential" /\ f[q].login = request[q].login
             /\ f[q].at \in Choosing /\ f[q].login \in Logins => ~NeverOffered(selection[f[q].login])
    BY <1>1 DEF Passing, Follows, Offered
<1>3. \A s \in Logins : /\ session[s].canceled => session'[s].canceled
                        /\ selection[s].canceled => selection'[s].canceled
                        /\ NeverOffered(selection[s]) <=> NeverOffered(selection'[s])
    BY DEF Quiet, Fades, Settles
<1>4. ASSUME NEW r \in Callers PROVE Sole(r)'
  <2> SUFFICES ASSUME f[r].got = "credential"
               PROVE  /\ f[r].login \in Logins
                      /\ session'[f[r].login].canceled
                      /\ added'[f[r].login] = 0
                      /\ NeverOffered(selection'[f[r].login])
                      /\ \A q \in Callers :
                            f[q].got = "credential" /\ f[q].login = f[r].login => q = r
      BY <1>1 DEF Sole, NeverOffered
  <2>1. request[r].got = "credential" /\ f[r].login = request[r].login  BY <1>2
  <2>2. Sole(r)  BY DEF Passing
  <2>3. /\ f[r].login \in Logins /\ session[f[r].login].canceled /\ added[f[r].login] = 0
        /\ NeverOffered(selection[f[r].login])
      BY <2>1, <2>2 DEF Sole
  <2>4. session'[f[r].login].canceled /\ NeverOffered(selection'[f[r].login])  BY <1>3, <2>3
  <2>5. ASSUME NEW q \in Callers, f[q].got = "credential", f[q].login = f[r].login
        PROVE  q = r
    <3>1. request[q].got = "credential" /\ f[q].login = request[q].login  BY <1>2, <2>5
    <3>2. QED  BY <2>1, <2>2, <2>5, <3>1 DEF Sole
  <2>6. QED  BY <2>3, <2>4, <2>5 DEF Quiet
<1>5. ASSUME NEW r \in Callers PROVE Offered(r)'
  <2> SUFFICES ASSUME f[r].at \in Choosing, f[r].login \in Logins
               PROVE  ~NeverOffered(selection'[f[r].login])
      BY <1>1 DEF Offered, NeverOffered
  <2>1. QED  BY <1>2, <1>3
<1>6. ASSUME NEW s \in Logins PROVE Single(s)'
  <2>1. Single(s) /\ added' = added  BY DEF Passing, Quiet
  <2>2. /\ session[s].canceled => session'[s].canceled
        /\ selection[s].canceled => selection'[s].canceled
        /\ NeverOffered(selection[s]) <=> NeverOffered(selection'[s])
      BY <1>3
  <2>3. QED  BY <2>1, <2>2 DEF Single, NeverOffered
<1>7. \A r \in Callers : Brings(request'[r])  BY <1>1, <1>2
<1>8. QED
  <2>1. /\ session' \in [Logins -> Sessions] /\ selection' \in [Logins -> Selections]
        /\ request' \in [Callers -> Rows] /\ added' \in [Logins -> Nat]
      BY <1>1 DEF Quiet, Passing
  <2>2. \A r \in Callers : Brings(request[r])'  BY <1>7 DEF Brings
  <2>3. QED  BY <2>1, <2>2, <1>4, <1>5, <1>6 DEF Passing

----------------------------------------------------------------------------
\* What the helpers make of a session and of a choice.
LEMMA SessionHelpers ==
    ASSUME NEW x \in Sessions
    PROVE  /\ Microsoft!Retired(x) \in Sessions /\ Fades(x, Microsoft!Retired(x))
           /\ Microsoft!Discarded(x) \in Sessions /\ Fades(x, Microsoft!Discarded(x))
           /\ Fades(x, x)
  BY DEF Microsoft!Retired, Microsoft!Discarded, Sessions, Fades

LEMMA ChoiceHelpers ==
    ASSUME NEW x \in Selections
    PROVE  /\ Microsoft!Detached(x) \in Selections /\ (~NeverOffered(x) => Settles(x, Microsoft!Detached(x)))
           /\ Microsoft!UsedSelection(x) \in Selections
           /\ (~NeverOffered(x) => Settles(x, Microsoft!UsedSelection(x)))
           /\ Settles(x, x)
<1>1. Microsoft!Detached(x) \in Selections /\ ~Microsoft!Detached(x).listed /\ Microsoft!Detached(x).canceled
    BY DEF Microsoft!Detached, Selections
<1>2. Microsoft!UsedSelection(x) \in Selections /\ ~Microsoft!UsedSelection(x).listed /\ Microsoft!UsedSelection(x).canceled
    BY <1>1 DEF Microsoft!UsedSelection, Selections
<1>3. QED  BY <1>1, <1>2 DEF Settles, NeverOffered

LEMMA OneSession ==
    ASSUME Passing, NEW s \in Logins, NEW y \in Sessions, Fades(session[s], y),
           session' = [session EXCEPT ![s] = y]
    PROVE  session' \in [Logins -> Sessions] /\ \A t \in Logins : Fades(session[t], session'[t])
<1>1. session \in [Logins -> Sessions]  BY DEF Passing
<1>2. QED  BY <1>1, SessionHelpers

LEMMA OneChoice ==
    ASSUME Passing, NEW s \in Logins, NEW y \in Selections, Settles(selection[s], y),
           selection' = [selection EXCEPT ![s] = y]
    PROVE  selection' \in [Logins -> Selections] /\ \A t \in Logins : Settles(selection[t], selection'[t])
<1>1. selection \in [Logins -> Selections]  BY DEF Passing
<1>2. QED  BY <1>1, ChoiceHelpers

LEMMA SessionsStay ==
    ASSUME Passing, UNCHANGED session
    PROVE  session' \in [Logins -> Sessions] /\ \A t \in Logins : Fades(session[t], session'[t])
  BY DEF Passing, Fades

LEMMA ChoicesStay ==
    ASSUME Passing, UNCHANGED selection
    PROVE  selection' \in [Logins -> Selections] /\ \A t \in Logins : Settles(selection[t], selection'[t])
  BY DEF Passing, Settles, NeverOffered

----------------------------------------------------------------------------
\* The rows a request passes through.
LEMMA EndFollows ==
    ASSUME Passing, NEW r \in Callers
    PROVE  Microsoft!Idle \in Rows /\ Follows(r, Microsoft!Idle)
<1>1. Microsoft!Idle \in Rows /\ Microsoft!Idle.at = "idle" /\ Microsoft!Idle.got = "nothing"
    BY DEF Microsoft!Idle, Rows, Places, Microsoft!Steps
<1>2. QED  BY <1>1 DEF Follows, Brings, Carrying, Choosing

LEMMA StartFollows ==
    ASSUME Passing, NEW r \in Callers, NEW s \in Logins, NEW at \in {"lock", "choose", "mark"},
           at = "choose" => ~NeverOffered(selection[s])
    PROVE  LET x == [Microsoft!Idle EXCEPT !.login = s, !.at = at] IN x \in Rows /\ Follows(r, x)
<1> DEFINE x == [Microsoft!Idle EXCEPT !.login = s, !.at = at]
<1>1. Microsoft!Idle \in Rows /\ Microsoft!Idle.got = "nothing"  BY EndFollows DEF Microsoft!Idle
<1>2. x \in Rows /\ x.at = at /\ x.got = "nothing" /\ x.login = s  BY <1>1 DEF Rows, Places, Microsoft!Steps
<1>3. Follows(r, x)
  <2> HIDE DEF x
  <2> QED  BY <1>2 DEF Follows, Brings, Carrying, Choosing
<1>4. QED  BY <1>2, <1>3

LEMMA GoFollows ==
    ASSUME Passing, NEW r \in Callers, NEW at \in Places \ {"idle"},
           at \in Carrying => request[r].got = "credential",
           at = "answered" => request[r].got # "nothing",
           at \in Choosing => request[r].at \in Choosing
    PROVE  LET x == [request[r] EXCEPT !.at = at] IN x \in Rows /\ Follows(r, x)
<1> DEFINE x == [request[r] EXCEPT !.at = at]
<1>1. request[r] \in Rows /\ Offered(r)  BY DEF Passing
<1>2. /\ x \in Rows /\ x.at = at /\ x.got = request[r].got
      /\ x.login = request[r].login
    BY <1>1 DEF Rows
<1>3. Follows(r, x)
  <2> HIDE DEF x
  <2> QED  BY <1>1, <1>2 DEF Follows, Brings, Offered, Carrying, Choosing
<1>4. QED  BY <1>2, <1>3

\* Each request's row is one of these.
Moves(r) ==
    \/ UNCHANGED request
    \/ \E x \in Rows : request' = [request EXCEPT ![r] = x] /\ Follows(r, x)

LEMMA GoMoves ==
    ASSUME Passing, NEW r \in Callers, NEW at \in Places \ {"idle"}, Microsoft!Go(r, at),
           at \in Carrying => request[r].got = "credential",
           at = "answered" => request[r].got # "nothing",
           at \in Choosing => request[r].at \in Choosing
    PROVE  Moves(r)
  BY GoFollows DEF Microsoft!Go, Moves

LEMMA EndMoves ==
    ASSUME Passing, NEW r \in Callers, Microsoft!End(r)
    PROVE  Moves(r)
  BY EndFollows DEF Microsoft!End, Moves

LEMMA QuietStep ==
    ASSUME Passing, UNCHANGED added,
           UNCHANGED request \/ \E r \in Callers : Moves(r),
           session' \in [Logins -> Sessions], \A t \in Logins : Fades(session[t], session'[t]),
           selection' \in [Logins -> Selections], \A t \in Logins : Settles(selection[t], selection'[t])
    PROVE  Passing'
<1>1. Quiet  BY DEF Quiet, Moves
<1>2. QED  BY <1>1, QuietKeeps

----------------------------------------------------------------------------
\* The session's own steps, and those of a callback.
LEMMA SessionSteps ==
    ASSUME Passing, NEW s \in Logins,
           \/ Microsoft!StartMicrosoftSSOLogin(s) \/ Microsoft!SessionExpires(s)
           \/ Microsoft!SessionTimer(s)
    PROVE  Passing'
<1>1. session \in [Logins -> Sessions] /\ \A t \in Logins : session[t] \in Sessions  BY DEF Passing
<1>2. UNCHANGED <<added, selection, request>>
    BY DEF Microsoft!StartMicrosoftSSOLogin, Microsoft!SessionExpires, Microsoft!SessionTimer
<1>3. session' \in [Logins -> Sessions] /\ \A t \in Logins : Fades(session[t], session'[t])
  <2>1. CASE Microsoft!StartMicrosoftSSOLogin(s)
    <3> DEFINE purged == [t \in Logins |-> IF session[t].listed /\ session[t].expired
                                           THEN Microsoft!Discarded(session[t]) ELSE session[t]]
               open   == [purged[s] EXCEPT !.started = TRUE, !.listed = TRUE, !.keeps = "portal"]
    <3>1. purged \in [Logins -> Sessions] /\ \A t \in Logins : Fades(session[t], purged[t])
      <4>1. \A t \in Logins : purged[t] = Microsoft!Discarded(session[t]) \/ purged[t] = session[t]  OBVIOUS
      <4>2. purged = [t \in Logins |-> purged[t]]  OBVIOUS
      <4> HIDE DEF purged
      <4>3. QED  BY <1>1, <4>1, <4>2, SessionHelpers
    <3>2. session' = purged \/ session' = [purged EXCEPT ![s] = open]
        BY <2>1 DEF Microsoft!StartMicrosoftSSOLogin
    <3>3. open \in Sessions /\ Fades(purged[s], open)
      <4>1. purged[s] \in Sessions  BY <3>1
      <4> HIDE DEF purged
      <4>2. QED  BY <4>1 DEF Sessions, Fades
    <3> HIDE DEF purged, open
    <3>4. QED  BY <3>1, <3>2, <3>3 DEF Fades
  <2>2. CASE Microsoft!SessionExpires(s)
    <3> DEFINE y == [session[s] EXCEPT !.expired = TRUE]
    <3>1. y \in Sessions /\ Fades(session[s], y)  BY <1>1 DEF Sessions, Fades
    <3>2. session' = [session EXCEPT ![s] = y]  BY <2>2 DEF Microsoft!SessionExpires
    <3> HIDE DEF y
    <3>3. QED  BY <3>1, <3>2, OneSession
  <2>3. CASE Microsoft!SessionTimer(s)
    <3>1. session' = [session EXCEPT ![s] = Microsoft!Discarded(session[s])]
        BY <2>3 DEF Microsoft!SessionTimer
    <3>2. QED  BY <1>1, <3>1, SessionHelpers, OneSession
  <2>4. QED  BY <2>1, <2>2, <2>3
<1>4. selection' \in [Logins -> Selections] /\ \A t \in Logins : Settles(selection[t], selection'[t])
    BY <1>2, ChoicesStay
<1>5. QED  BY <1>2, <1>3, <1>4, QuietStep

LEMMA CallbackSteps ==
    ASSUME Passing, NEW s \in Logins, NEW r \in Callers,
           \/ Microsoft!Continue(r, s) \/ Microsoft!LockSession(r, s) \/ Microsoft!ReadPortalCallback(r, s)
           \/ Microsoft!ReadProviderCallback(r, s)
           \/ Microsoft!ContinuePortalLeg(r, s) \/ Microsoft!LeaveSession(r, s)
           \/ Microsoft!UnlockSession(r, s) \/ Microsoft!AfterContinue(r, s)
           \/ Microsoft!DetachSession(r, s) \/ Microsoft!FlagSession(r, s)
    PROVE  Passing'
<1>1. session[s] \in Sessions /\ session[s].keeps \in {"nothing", "portal", "leg"} /\ request[r] \in Rows
      /\ Brings(request[r])
    BY DEF Passing, Sessions
<1>2. UNCHANGED <<added, selection>>
    BY DEF Microsoft!Continue, Microsoft!LockSession, Microsoft!ReadPortalCallback,
       Microsoft!ReadProviderCallback, Microsoft!ReadCallback, Microsoft!ContinuePortalLeg,
       Microsoft!LeaveSession, Microsoft!UnlockSession, Microsoft!AfterContinue, Microsoft!DetachSession,
       Microsoft!FlagSession
<1>3. UNCHANGED session \/ \E y \in Sessions : /\ Fades(session[s], y)
                                               /\ session' = [session EXCEPT ![s] = y]
  <2>1. /\ Microsoft!Retired(session[s]) \in Sessions /\ Fades(session[s], Microsoft!Retired(session[s]))
        /\ Microsoft!Discarded(session[s]) \in Sessions
        /\ Fades(session[s], Microsoft!Discarded(session[s]))
        /\ Fades(session[s], session[s])
      BY <1>1, SessionHelpers
  <2>2. CASE Microsoft!Continue(r, s)  BY <1>1, <2>1, <2>2 DEF Microsoft!Continue
  <2>3. CASE Microsoft!LockSession(r, s)
    <3> DEFINE x == IF ~session[s].canceled /\ session[s].expired THEN Microsoft!Retired(session[s]) ELSE session[s]
               y == [x EXCEPT !.mu = r]
    <3>1. x \in Sessions /\ Fades(session[s], x)  BY <1>1, <2>1
    <3>2. session' = [session EXCEPT ![s] = y]  BY <2>3 DEF Microsoft!LockSession
    <3> HIDE DEF x
    <3>3. y \in Sessions /\ Fades(session[s], y)  BY <3>1 DEF Sessions, Fades
    <3> HIDE DEF y
    <3>4. QED  BY <3>2, <3>3
  <2>4. CASE Microsoft!ReadPortalCallback(r, s) \/ Microsoft!ReadProviderCallback(r, s)
      BY <2>1, <2>4 DEF Microsoft!ReadPortalCallback, Microsoft!ReadProviderCallback, Microsoft!ReadCallback
  <2>5. CASE Microsoft!ContinuePortalLeg(r, s)
    <3> DEFINE y == [session[s] EXCEPT !.keeps = "leg"]
    <3>1. y \in Sessions /\ Fades(session[s], y)  BY <1>1 DEF Sessions, Fades
    <3>2. \/ UNCHANGED session \/ session' = [session EXCEPT ![s] = Microsoft!Retired(session[s])]
          \/ session' = [session EXCEPT ![s] = y]
        BY <2>5 DEF Microsoft!ContinuePortalLeg
    <3> HIDE DEF y
    <3>3. QED  BY <2>1, <3>1, <3>2
  <2>6. CASE Microsoft!LeaveSession(r, s)
    <3> DEFINE k == IF session[s].canceled THEN "nothing" ELSE session[s].keeps
               y == [session[s] EXCEPT !.keeps = k]
    <3>1. k \in {"nothing", "portal", "leg"}  BY <1>1
    <3>2. session' = [session EXCEPT ![s] = y]  BY <2>6 DEF Microsoft!LeaveSession
    <3> HIDE DEF k
    <3>3. y \in Sessions /\ Fades(session[s], y)  BY <1>1, <3>1 DEF Sessions, Fades
    <3> HIDE DEF y
    <3>4. QED  BY <3>2, <3>3
  <2>7. CASE Microsoft!UnlockSession(r, s)
    <3> DEFINE y == [session[s] EXCEPT !.mu = Nobody]
    <3>1. y \in Sessions /\ Fades(session[s], y)  BY <1>1 DEF Sessions, Fades
    <3>2. session' = [session EXCEPT ![s] = y]  BY <2>7 DEF Microsoft!UnlockSession
    <3> HIDE DEF y
    <3>3. QED  BY <3>1, <3>2
  <2>8. CASE Microsoft!AfterContinue(r, s)  BY <1>1, <2>1, <2>8 DEF Microsoft!AfterContinue
  <2>9. CASE Microsoft!DetachSession(r, s)
    <3> DEFINE y == [session[s] EXCEPT !.listed = FALSE]
    <3>1. y \in Sessions /\ Fades(session[s], y)  BY <1>1 DEF Sessions, Fades
    <3>2. session' = [session EXCEPT ![s] = y]  BY <2>9 DEF Microsoft!DetachSession
    <3> HIDE DEF y
    <3>3. QED  BY <3>1, <3>2
  <2>10. CASE Microsoft!FlagSession(r, s)  BY <2>1, <2>10 DEF Microsoft!FlagSession
  <2>11. QED  BY <2>2, <2>3, <2>4, <2>5, <2>6, <2>7, <2>8, <2>9, <2>10
<1>4. session' \in [Logins -> Sessions] /\ \A t \in Logins : Fades(session[t], session'[t])
    BY <1>3, OneSession, SessionsStay
<1>5. Moves(r)
  <2>1. CASE Microsoft!Continue(r, s)
    <3>1. request' = [request EXCEPT ![r] = Microsoft!Idle]
          \/ request' = [request EXCEPT ![r] = [Microsoft!Idle EXCEPT !.login = s, !.at = "lock"]]
        BY <2>1 DEF Microsoft!Continue
    <3>2. QED  BY <3>1, EndFollows, StartFollows DEF Moves
  <2>2. CASE \E at \in {"leave", "portal", "leg", "nothing"} : Microsoft!Go(r, at)
      BY <2>2, GoMoves DEF Places, Microsoft!Steps, Carrying, Choosing
  <2>3. CASE Microsoft!ReadPortalCallback(r, s) \/ Microsoft!ReadProviderCallback(r, s)
    <3>1. \E at \in {"leave", "oidc", "exchange"} : Microsoft!Go(r, at)
        BY <2>3 DEF Microsoft!ReadPortalCallback, Microsoft!ReadProviderCallback, Microsoft!ReadCallback
    <3>2. QED  BY <3>1, GoMoves DEF Places, Microsoft!Steps, Carrying, Choosing
  <2>4. CASE Microsoft!ContinuePortalLeg(r, s)
    <3> DEFINE x == [request[r] EXCEPT !.at = "leave", !.got = "url"]
    <3>1. x \in Rows /\ x.at = "leave" /\ x.got = "url"  BY <1>1 DEF Rows, Places, Microsoft!Steps
    <3>2. Follows(r, x)
      <4> HIDE DEF x
      <4> QED  BY <3>1 DEF Follows, Brings, Carrying, Choosing
    <3>3. Microsoft!Go(r, "leave") \/ request' = [request EXCEPT ![r] = x]
        BY <2>4, <1>1 DEF Microsoft!ContinuePortalLeg, Microsoft!Bring, Passing
    <3> HIDE DEF x
    <3>4. QED  BY <3>1, <3>2, <3>3, GoMoves DEF Places, Microsoft!Steps, Carrying, Choosing, Moves
  <2>5. CASE Microsoft!LeaveSession(r, s) \/ Microsoft!DetachSession(r, s) \/ Microsoft!FlagSession(r, s)
    <3>1. \E at \in {"unlock", "flag", "selections"} : Microsoft!Go(r, at)
        BY <2>5 DEF Microsoft!LeaveSession, Microsoft!DetachSession, Microsoft!FlagSession
    <3>2. QED  BY <3>1, GoMoves DEF Places, Microsoft!Steps, Carrying, Choosing
  <2>6. CASE Microsoft!UnlockSession(r, s)
      BY <2>6, GoMoves, EndMoves DEF Microsoft!UnlockSession, Places, Microsoft!Steps, Carrying, Choosing
  <2>7. CASE Microsoft!AfterContinue(r, s)
    <3>1. request[r].at = "answered"  BY <2>7 DEF Microsoft!AfterContinue, Microsoft!At
    <3>2. request[r].got # "nothing" /\ request[r].got \in {"nothing", "url", "credential"}
        BY <1>1, <3>1 DEF Brings, Rows
    <3>3. Microsoft!End(r) \/ (request[r].got # "url" /\ Microsoft!Go(r, "begin"))
        BY <2>7 DEF Microsoft!AfterContinue
    <3>4. QED  BY <3>2, <3>3, GoMoves, EndMoves DEF Places, Microsoft!Steps, Carrying, Choosing
  <2>8. Microsoft!LockSession(r, s) => \E at \in {"leave", "portal", "leg", "nothing"} : Microsoft!Go(r, at)
      BY <1>1 DEF Microsoft!LockSession
  <2>9. QED  BY <2>1, <2>2, <2>3, <2>4, <2>5, <2>6, <2>7, <2>8
<1>6. selection' \in [Logins -> Selections] /\ \A t \in Logins : Settles(selection[t], selection'[t])
    BY <1>2, ChoicesStay
<1>7. QED  BY <1>2, <1>4, <1>5, <1>6, QuietStep

----------------------------------------------------------------------------
\* The choice of a profile, the discovery and the cancel.
LEMMA ChoiceTimers ==
    ASSUME Passing, NEW s \in Logins,
           Microsoft!SelectionExpires(s) \/ Microsoft!SelectionTimer(s) \/ Microsoft!ClearDetachedSelection(s) \/ Microsoft!TombstoneExpires(s)
    PROVE  Passing'
<1>1. selection[s] \in Selections  BY DEF Passing
<1>2. UNCHANGED <<added, session, request>>
    BY DEF Microsoft!SelectionExpires, Microsoft!SelectionTimer, Microsoft!ClearDetachedSelection,
       Microsoft!TombstoneExpires
<1>3. UNCHANGED selection \/ \E y \in Selections : /\ Settles(selection[s], y)
                                                   /\ selection' = [selection EXCEPT ![s] = y]
  <2>1. CASE Microsoft!SelectionExpires(s)
    <3> DEFINE y == [selection[s] EXCEPT !.expired = TRUE]
    <3>1. y \in Selections /\ Settles(selection[s], y)  BY <1>1 DEF Selections, Settles, NeverOffered
    <3>2. selection' = [selection EXCEPT ![s] = y]  BY <2>1 DEF Microsoft!SelectionExpires
    <3> HIDE DEF y
    <3>3. QED  BY <3>1, <3>2
  <2>2. CASE Microsoft!SelectionTimer(s)
    <3>1. ~NeverOffered(selection[s]) /\ selection' = [selection EXCEPT ![s] = Microsoft!Detached(selection[s])]
        BY <2>2 DEF Microsoft!SelectionTimer, NeverOffered
    <3>2. QED  BY <1>1, <3>1, ChoiceHelpers
  <2>3. CASE Microsoft!ClearDetachedSelection(s)
    <3> DEFINE y == [selection[s] EXCEPT !.has = FALSE]
    <3>1. y \in Selections /\ Settles(selection[s], y)  BY <1>1 DEF Selections, Settles, NeverOffered
    <3>2. selection' = [selection EXCEPT ![s] = y]  BY <2>3 DEF Microsoft!ClearDetachedSelection
    <3> HIDE DEF y
    <3>3. QED  BY <3>1, <3>2
  <2>4. CASE Microsoft!TombstoneExpires(s)  BY <2>4 DEF Microsoft!TombstoneExpires
  <2>5. QED  BY <2>1, <2>2, <2>3, <2>4
<1>4. selection' \in [Logins -> Selections] /\ \A t \in Logins : Settles(selection[t], selection'[t])
    BY <1>3, OneChoice, ChoicesStay
<1>5. session' \in [Logins -> Sessions] /\ \A t \in Logins : Fades(session[t], session'[t])
    BY <1>2, SessionsStay
<1>6. QED  BY <1>2, <1>4, <1>5, QuietStep

LEMMA ChoiceSteps ==
    ASSUME Passing, NEW s \in Logins, NEW r \in Callers,
           \/ Microsoft!SelectProfile(r, s) \/ Microsoft!LockSelection(r, s)
           \/ Microsoft!ClearSelection(r, s)
           \/ Microsoft!removeMicrosoftProfileSelectionsForSession(r, s)
    PROVE  Passing'
<1>1. selection[s] \in Selections /\ request[r] \in Rows /\ Offered(r)  BY DEF Passing
<1>2. UNCHANGED <<added, session>>
    BY DEF Microsoft!SelectProfile, Microsoft!LockSelection, Microsoft!ClearSelection,
       Microsoft!removeMicrosoftProfileSelectionsForSession
<1>3. UNCHANGED selection \/ \E y \in Selections : /\ Settles(selection[s], y)
                                                   /\ selection' = [selection EXCEPT ![s] = y]
  <2>1. CASE Microsoft!SelectProfile(r, s)  BY <2>1 DEF Microsoft!SelectProfile
  <2>2. CASE Microsoft!LockSelection(r, s)
    <3>1. ~NeverOffered(selection[s])
        BY <1>1, <2>2 DEF Microsoft!LockSelection, Microsoft!At, Offered, Choosing
    <3> DEFINE cleared == [Microsoft!Detached(selection[s]) EXCEPT !.has = FALSE]
               taken   == [selection[s] EXCEPT !.mu = r]
    <3>2. Microsoft!Detached(selection[s]) \in Selections /\ ~Microsoft!Detached(selection[s]).listed
          /\ Microsoft!Detached(selection[s]).canceled
        BY <1>1 DEF Microsoft!Detached, Selections
    <3>3. cleared \in Selections /\ Settles(selection[s], cleared)
        BY <3>1, <3>2 DEF Selections, Settles, NeverOffered
    <3>4. taken \in Selections /\ Settles(selection[s], taken)
        BY <1>1 DEF Selections, Settles, NeverOffered
    <3>5. Settles(selection[s], selection[s])  BY <1>1, ChoiceHelpers
    <3>6. \/ UNCHANGED selection
          \/ \E y \in {cleared, taken, selection[s]} : selection' = [selection EXCEPT ![s] = y]
        BY <2>2 DEF Microsoft!LockSelection
    <3> HIDE DEF cleared, taken
    <3>7. QED  BY <1>1, <3>3, <3>4, <3>5, <3>6
  <2>3. CASE Microsoft!ClearSelection(r, s)
    <3> DEFINE y == [selection[s] EXCEPT !.has = FALSE]
    <3>1. y \in Selections /\ Settles(selection[s], y)  BY <1>1 DEF Selections, Settles, NeverOffered
    <3>2. selection' = [selection EXCEPT ![s] = y]  BY <2>3 DEF Microsoft!ClearSelection
    <3> HIDE DEF y
    <3>3. QED  BY <3>1, <3>2
  <2>4. CASE Microsoft!removeMicrosoftProfileSelectionsForSession(r, s)
    <3>1. UNCHANGED selection \/ (/\ selection' = [selection EXCEPT ![s] = Microsoft!Detached(selection[s])]
                                  /\ ~NeverOffered(selection[s]))
        BY <2>4 DEF Microsoft!removeMicrosoftProfileSelectionsForSession, Microsoft!PendingFor, NeverOffered
    <3>2. QED  BY <1>1, <3>1, ChoiceHelpers
  <2>5. QED  BY <2>1, <2>2, <2>3, <2>4
<1>4. Moves(r)
  <2>1. CASE Microsoft!SelectProfile(r, s)
    <3>1. ~NeverOffered(selection[s]) /\ request' = [request EXCEPT ![r] = [Microsoft!Idle EXCEPT !.login = s, !.at = "choose"]]
        BY <2>1 DEF Microsoft!SelectProfile, NeverOffered
    <3>2. QED  BY <3>1, StartFollows DEF Moves
  <2>2. CASE Microsoft!LockSelection(r, s)
    <3>1. request[r].at \in Choosing /\ (Microsoft!End(r) \/ Microsoft!Go(r, "chosen"))
        BY <2>2 DEF Microsoft!LockSelection, Microsoft!At, Choosing
    <3>2. QED  BY <3>1, GoMoves, EndMoves DEF Places, Microsoft!Steps, Carrying
  <2>3. CASE Microsoft!ClearSelection(r, s)  BY <2>3, EndMoves DEF Microsoft!ClearSelection
  <2>4. CASE Microsoft!removeMicrosoftProfileSelectionsForSession(r, s)
    <3>1. Microsoft!End(r) \/ Microsoft!Go(r, "clear")
        BY <2>4 DEF Microsoft!removeMicrosoftProfileSelectionsForSession
    <3>2. QED  BY <3>1, GoMoves, EndMoves DEF Places, Microsoft!Steps, Carrying, Choosing
  <2>5. QED  BY <2>1, <2>2, <2>3, <2>4
<1>5. selection' \in [Logins -> Selections] /\ \A t \in Logins : Settles(selection[t], selection'[t])
    BY <1>3, OneChoice, ChoicesStay
<1>6. session' \in [Logins -> Sessions] /\ \A t \in Logins : Fades(session[t], session'[t])
    BY <1>2, SessionsStay
<1>7. QED  BY <1>2, <1>4, <1>5, <1>6, QuietStep

LEMMA DiscoverySteps ==
    ASSUME Passing, NEW s \in Logins, NEW r \in Callers,
           \/ Microsoft!beginMicrosoftProfileDiscovery(r, s) \/ Microsoft!DiscoverKiroProfiles(r, s)
           \/ Microsoft!endMicrosoftProfileDiscovery(r, s) \/ Microsoft!Cancel(r, s)
           \/ Microsoft!MarkCanceled(r, s)
    PROVE  Passing'
<1>1. request[r] \in Rows /\ Brings(request[r])  BY DEF Passing
<1>2. UNCHANGED <<added, session, selection>>
    BY DEF Microsoft!beginMicrosoftProfileDiscovery, Microsoft!DiscoverKiroProfiles,
       Microsoft!endMicrosoftProfileDiscovery, Microsoft!Cancel,
       Microsoft!MarkCanceled
<1>3. Moves(r)
  <2>1. CASE Microsoft!beginMicrosoftProfileDiscovery(r, s)
    <3>1. request[r].got = "credential" /\ (Microsoft!End(r) \/ Microsoft!Go(r, "profiles"))
        BY <1>1, <2>1 DEF Microsoft!beginMicrosoftProfileDiscovery, Microsoft!At, Brings, Carrying
    <3>2. QED  BY <3>1, GoMoves, EndMoves DEF Places, Microsoft!Steps, Choosing
  <2>2. CASE Microsoft!DiscoverKiroProfiles(r, s)
    <3>1. request[r].got = "credential"
        BY <1>1, <2>2 DEF Microsoft!DiscoverKiroProfiles, Microsoft!At, Brings, Carrying
    <3>2. PICK n \in 0..2, timeout \in BOOLEAN :
             request' = [request EXCEPT ![r].at = "end", ![r].profiles = n,
                                        ![r].stopped = timeout \/ discovery[s].canceled]
        BY <2>2 DEF Microsoft!DiscoverKiroProfiles
    <3> DEFINE stop == timeout \/ discovery[s].canceled
               x    == [request[r] EXCEPT !.at = "end", !.profiles = n, !.stopped = stop]
    <3>3. stop \in BOOLEAN  OBVIOUS
    <3>4. request' = [request EXCEPT ![r] = x]  BY <3>2 DEF Passing
    <3> HIDE DEF stop
    <3>5. /\ x \in Rows /\ x.at = "end" /\ x.got = request[r].got
          /\ x.login = request[r].login
        BY <1>1, <3>3 DEF Rows, Places, Microsoft!Steps
    <3> HIDE DEF x
    <3>6. Follows(r, x)  BY <3>1, <3>5 DEF Follows, Brings, Carrying, Choosing
    <3>7. QED  BY <3>4, <3>5, <3>6 DEF Moves
  <2>3. CASE Microsoft!endMicrosoftProfileDiscovery(r, s)
    <3>1. request[r].got = "credential" /\ Microsoft!Go(r, "commit")
        BY <1>1, <2>3 DEF Microsoft!endMicrosoftProfileDiscovery, Microsoft!At, Brings, Carrying
    <3>2. QED  BY <3>1, GoMoves DEF Places, Microsoft!Steps, Choosing
  <2>4. CASE Microsoft!Cancel(r, s)  BY <2>4, StartFollows DEF Microsoft!Cancel, Moves
  <2>5. CASE Microsoft!MarkCanceled(r, s)
      BY <2>5, GoMoves DEF Microsoft!MarkCanceled, Places, Microsoft!Steps, Carrying, Choosing
  <2>6. QED  BY <2>1, <2>2, <2>3, <2>4, <2>5
<1>4. selection' \in [Logins -> Selections] /\ \A t \in Logins : Settles(selection[t], selection'[t])
    BY <1>2, ChoicesStay
<1>5. session' \in [Logins -> Sessions] /\ \A t \in Logins : Fades(session[t], session'[t])
    BY <1>2, SessionsStay
<1>6. QED  BY <1>2, <1>3, <1>4, <1>5, QuietStep

----------------------------------------------------------------------------
\* The exchange: the session's right goes to the request, if no cancel came first.
LEMMA ExchangePasses ==
    ASSUME Passing, NEW s \in Logins, NEW r \in Callers, Microsoft!ContinueProviderLeg(r, s)
    PROVE  Passing'
<1>1. session[s] \in Sessions /\ session \in [Logins -> Sessions] /\ request[r] \in Rows
      /\ request \in [Callers -> Rows] /\ request[r].login = s
    BY DEF Passing, Microsoft!ContinueProviderLeg, Microsoft!At
<1>2. session' = [session EXCEPT ![s] = Microsoft!Retired(session[s])] /\ UNCHANGED <<added, selection>>
    BY DEF Microsoft!ContinueProviderLeg
<1>3. session' \in [Logins -> Sessions] /\ \A t \in Logins : Fades(session[t], session'[t])
    BY <1>1, <1>2, SessionHelpers, OneSession
<1>4. selection' \in [Logins -> Selections] /\ \A t \in Logins : Settles(selection[t], selection'[t])
    BY <1>2, ChoicesStay
<1>5. CASE Microsoft!Go(r, "leave")
  <2>1. Moves(r)  BY <1>5, GoMoves DEF Places, Microsoft!Steps, Carrying, Choosing
  <2>2. QED  BY <1>2, <1>3, <1>4, <2>1, QuietStep
<1>6. CASE ~session[s].canceled /\ Microsoft!Bring(r, "leave", "credential")
  <2> DEFINE x == [request[r] EXCEPT !.at = "leave", !.got = "credential"]
  <2>1. x \in Rows /\ x.at = "leave" /\ x.got = "credential" /\ x.login = s
      BY <1>1 DEF Rows, Places, Microsoft!Steps
  <2>2. request' = [request EXCEPT ![r] = x]  BY <1>1, <1>6 DEF Microsoft!Bring
  <2> HIDE DEF x
  <2>3. request' \in [Callers -> Rows] /\ request'[r] = x
        /\ \A q \in Callers \ {r} : request'[q] = request[q]
      BY <1>1, <2>1, <2>2
  <2>4. added[s] = 0 /\ NeverOffered(selection[s])  BY <1>6 DEF Passing, Single
  <2>5. session'[s].canceled
    <3>1. Microsoft!Retired(session[s]).canceled  BY <1>1 DEF Microsoft!Retired, Sessions
    <3>2. session'[s] = Microsoft!Retired(session[s])  BY <1>1, <1>2
    <3>3. QED  BY <3>1, <3>2
  <2>6. \A q \in Callers : ~(request[q].got = "credential" /\ request[q].login = s)
      BY <1>6 DEF Passing, Sole
  <2>7. ASSUME NEW q \in Callers
        PROVE  Brings(request[q])' /\ Sole(q)' /\ Offered(q)'
    <3>1. CASE q = r
      <4>1. Brings(request[q])'  BY <2>1, <2>3, <3>1 DEF Brings, Carrying
      <4>2. Offered(q)'  BY <2>1, <2>3, <3>1 DEF Offered, Choosing
      <4>3. \A p \in Callers : request'[p].got = "credential" /\ request'[p].login = s => p = r
          BY <2>3, <2>6
      <4>4. Sole(q)'  BY <1>2, <2>1, <2>3, <2>4, <2>5, <3>1, <4>3 DEF Sole, NeverOffered
      <4>5. QED  BY <4>1, <4>2, <4>4
    <3>2. CASE q # r
      <4>1. request'[q] = request[q] /\ Brings(request[q]) /\ Sole(q) /\ Offered(q)
          BY <2>3, <3>2 DEF Passing
      <4>2. Brings(request[q])'  BY <4>1 DEF Brings
      <4>3. Offered(q)'  BY <1>2, <4>1 DEF Offered, NeverOffered
      <4>4. ASSUME request[q].got = "credential"
            PROVE  /\ request[q].login \in Logins /\ session'[request[q].login].canceled
                   /\ \A p \in Callers :
                         request'[p].got = "credential" /\ request'[p].login = request[q].login => p = q
        <5>1. request[q].login \in Logins /\ session[request[q].login].canceled  BY <4>1, <4>4 DEF Sole
        <5>2. session'[request[q].login].canceled  BY <1>3, <5>1 DEF Fades
        <5>3. request[q].login # s  BY <2>6, <4>4
        <5>4. QED  BY <2>1, <2>3, <4>1, <4>4, <5>1, <5>2, <5>3 DEF Sole
      <4>5. Sole(q)'  BY <1>2, <4>1, <4>4 DEF Sole, NeverOffered
      <4>6. QED  BY <4>2, <4>3, <4>5
    <3>3. QED  BY <3>1, <3>2
  <2>8. ASSUME NEW t \in Logins PROVE Single(t)'
      BY <1>2, <1>3 DEF Passing, Single, Fades, NeverOffered
  <2>9. added' \in [Logins -> Nat]  BY <1>2 DEF Passing
  <2>10. QED  BY <1>3, <1>4, <2>3, <2>7, <2>8, <2>9 DEF Passing
<1>7. QED  BY <1>5, <1>6 DEF Microsoft!ContinueProviderLeg

\* A step that ends a request, keeps every session, and touches what one login has.
LEMMA LoginSettled ==
    ASSUME Passing, NEW s \in Logins, NEW r \in Callers, Microsoft!End(r), UNCHANGED session,
           selection' \in [Logins -> Selections], added' \in [Logins -> Nat],
           \A t \in Logins \ {s} : added'[t] = added[t] /\ Settles(selection[t], selection'[t]),
           \A q \in Callers \ {r} : request[q].got = "credential" => request[q].login # s,
           ~NeverOffered(selection[s]) => ~NeverOffered(selection'[s]),
           session[s].canceled, Single(s)'
    PROVE  Passing'
<1>1. Microsoft!Idle \in Rows /\ Microsoft!Idle.at = "idle" /\ Microsoft!Idle.got = "nothing" /\ request \in [Callers -> Rows]
    BY EndFollows DEF Microsoft!Idle, Passing
<1>2. request' \in [Callers -> Rows] /\ request'[r] = Microsoft!Idle
      /\ \A q \in Callers \ {r} : request'[q] = request[q]
    BY <1>1 DEF Microsoft!End
<1>3. ASSUME NEW q \in Callers
      PROVE  Brings(request[q])' /\ Sole(q)' /\ Offered(q)'
  <2>1. CASE q = r
    <3>1. request'[q].at = "idle" /\ request'[q].got = "nothing"  BY <1>1, <1>2, <2>1
    <3>2. QED  BY <3>1 DEF Brings, Sole, Offered, Carrying, Choosing
  <2>2. CASE q # r
    <3>1. request'[q] = request[q] /\ Brings(request[q]) /\ Sole(q) /\ Offered(q)
        BY <1>2, <2>2 DEF Passing
    <3>2. Brings(request[q])'  BY <3>1 DEF Brings
    <3>3. Offered(q)'
      <4> SUFFICES ASSUME request[q].at \in Choosing, request[q].login \in Logins
                   PROVE  ~NeverOffered(selection'[request[q].login])
          BY <3>1 DEF Offered, NeverOffered
      <4>1. ~NeverOffered(selection[request[q].login])  BY <3>1 DEF Offered
      <4>2. QED  BY <4>1 DEF Settles
    <3>4. Sole(q)'
      <4> SUFFICES ASSUME request[q].got = "credential"
                   PROVE  /\ request[q].login \in Logins /\ session[request[q].login].canceled
                          /\ added'[request[q].login] = 0
                          /\ NeverOffered(selection'[request[q].login])
                          /\ \A p \in Callers : request'[p].got = "credential"
                                /\ request'[p].login = request[q].login => p = q
          BY <3>1 DEF Sole, NeverOffered
      <4>1. request[q].login # s  BY <2>2
      <4>2. \A p \in Callers : request'[p].got = "credential" /\ request'[p].login = request[q].login
                                  => p = q
          BY <1>1, <1>2, <3>1 DEF Sole
      <4>3. QED  BY <3>1, <4>1, <4>2 DEF Sole, Settles
    <3>5. QED  BY <3>2, <3>3, <3>4
  <2>3. QED  BY <2>1, <2>2
<1>4. ASSUME NEW t \in Logins PROVE Single(t)'
  <2>1. CASE t = s  BY <2>1
  <2>2. CASE t # s
    <3>1. /\ Single(t) /\ added'[t] = added[t] /\ session'[t] = session[t]
          /\ selection[t].canceled => selection'[t].canceled
          /\ NeverOffered(selection[t]) <=> NeverOffered(selection'[t])
        BY <2>2 DEF Passing, Settles
    <3>2. QED  BY <3>1 DEF Single, NeverOffered
  <2>3. QED  BY <2>1, <2>2
<1>5. QED  BY <1>2, <1>3, <1>4 DEF Passing

\* The commit: the request's right goes to the account, or to a choice, or is lost.
LEMMA CommitPasses ==
    ASSUME Passing, NEW s \in Logins, NEW r \in Callers, Microsoft!CommitLogin(r, s)
    PROVE  Passing'
<1>1. request[r].got = "credential" /\ request[r].login = s /\ Sole(r) /\ Microsoft!End(r)
      /\ UNCHANGED session
    BY DEF Passing, Microsoft!CommitLogin, Microsoft!At, Brings, Carrying
<1>2. /\ session[s].canceled /\ added[s] = 0 /\ NeverOffered(selection[s])
      /\ \A q \in Callers \ {r} : request[q].got = "credential" => request[q].login # s
    BY <1>1 DEF Sole
<1>3. selection \in [Logins -> Selections] /\ added \in [Logins -> Nat]  BY DEF Passing
<1>4. CASE UNCHANGED <<selection, added>>
  <2>1. selection' \in [Logins -> Selections] /\ \A t \in Logins : Settles(selection[t], selection'[t])
      BY <1>4, ChoicesStay
  <2>2. session' \in [Logins -> Sessions] /\ \A t \in Logins : Fades(session[t], session'[t])
      BY <1>1, SessionsStay
  <2>3. QED  BY <1>1, <1>4, <2>1, <2>2, EndMoves, QuietStep
<1>5. CASE Microsoft!storeMicrosoftProfileSelection(s) /\ UNCHANGED added
  <2> DEFINE gone(x)  == [x EXCEPT !.listed = FALSE, !.canceled = TRUE, !.has = FALSE]
             purged   == [t \in Logins |-> IF selection[t].listed /\ selection[t].expired
                                           THEN gone(selection[t]) ELSE selection[t]]
             choice   == [Microsoft!NoSelection EXCEPT !.listed = TRUE, !.has = TRUE]
  <2>1. ASSUME NEW x \in Selections
        PROVE  gone(x) \in Selections /\ (~NeverOffered(x) => Settles(x, gone(x)))
    <3>1. gone(x) \in Selections /\ ~gone(x).listed /\ gone(x).canceled  BY DEF Selections
    <3> HIDE DEF gone
    <3>2. QED  BY <3>1 DEF Settles, NeverOffered
  <2>2. \A t \in Logins : /\ purged[t] \in Selections /\ Settles(selection[t], purged[t])
    <3> SUFFICES ASSUME NEW t \in Logins
                 PROVE  purged[t] \in Selections /\ Settles(selection[t], purged[t])
        OBVIOUS
    <3>1. selection[t] \in Selections  BY <1>3
    <3>2. purged[t] = IF selection[t].listed /\ selection[t].expired
                      THEN gone(selection[t]) ELSE selection[t]
        OBVIOUS
    <3> HIDE DEF gone, purged
    <3>3. CASE selection[t].listed /\ selection[t].expired  BY <2>1, <3>1, <3>2, <3>3 DEF NeverOffered
    <3>4. CASE ~(selection[t].listed /\ selection[t].expired)  BY <3>1, <3>2, <3>4, ChoiceHelpers
    <3>5. QED  BY <3>3, <3>4
  <2>3. purged[s] = selection[s]
      BY <1>2 DEF NeverOffered
  <2>4. choice \in Selections /\ choice.listed
    <3>1. Microsoft!NoSelection \in Selections  BY DEF Microsoft!NoSelection, Selections
    <3>2. QED  BY <3>1 DEF Selections
  <2>5. purged \in [Logins -> Selections]
    <3>1. purged = [t \in Logins |-> purged[t]]  OBVIOUS
    <3> HIDE DEF purged
    <3>2. QED  BY <2>2, <3>1
  <2>6. selection' = purged \/ selection' = [purged EXCEPT ![s] = choice]
      BY <1>5 DEF Microsoft!storeMicrosoftProfileSelection
  <2> HIDE DEF purged, choice
  <2>7. selection' \in [Logins -> Selections]
        /\ \A t \in Logins \ {s} : Settles(selection[t], selection'[t])
      BY <2>2, <2>4, <2>5, <2>6
  <2>8. Single(s)'  BY <1>1, <1>2, <1>5 DEF Single
  <2>9. QED  BY <1>1, <1>2, <1>3, <1>5, <2>7, <2>8, LoginSettled
<1>6. CASE Microsoft!AddAccount(s) /\ UNCHANGED selection
  <2>1. added' \in [Logins -> Nat] /\ added'[s] = 1
        /\ \A t \in Logins \ {s} : added'[t] = added[t]
      BY <1>2, <1>3, <1>6 DEF Microsoft!AddAccount
  <2>2. selection' \in [Logins -> Selections] /\ \A t \in Logins : Settles(selection[t], selection'[t])
      BY <1>6, ChoicesStay
  <2>3. Single(s)'  BY <1>1, <1>2, <1>6, <2>1 DEF Single, NeverOffered
  <2>4. QED  BY <1>1, <1>2, <1>6, <2>1, <2>2, <2>3, LoginSettled
<1>7. QED  BY <1>4, <1>5, <1>6 DEF Microsoft!CommitLogin

\* The choice: its right goes to the account, once.
LEMMA ChoicePasses ==
    ASSUME Passing, NEW s \in Logins, NEW r \in Callers, Microsoft!AddSelected(r, s)
    PROVE  Passing'
<1>1. request[r].login = s /\ Microsoft!End(r) /\ UNCHANGED session /\ ~NeverOffered(selection[s])
    BY DEF Passing, Microsoft!AddSelected, Microsoft!At, Offered, Choosing
<1>2. selection \in [Logins -> Selections] /\ selection[s] \in Selections /\ added \in [Logins -> Nat]
      /\ Single(s)
    BY DEF Passing
<1>3. session[s].canceled  BY <1>1, <1>2 DEF Single
<1>4. \A q \in Callers : request[q].got = "credential" => request[q].login # s
    BY <1>1 DEF Passing, Sole
<1>5. CASE UNCHANGED added
  <2> DEFINE free == [selection[s] EXCEPT !.mu = Nobody]
  <2>1. free \in Selections /\ Settles(selection[s], free)  BY <1>2 DEF Selections, Settles, NeverOffered
  <2>2. \E y \in {free, Microsoft!UsedSelection(selection[s])} : selection' = [selection EXCEPT ![s] = y]
      BY DEF Microsoft!AddSelected
  <2> HIDE DEF free
  <2>3. selection' \in [Logins -> Selections] /\ \A t \in Logins : Settles(selection[t], selection'[t])
      BY <1>1, <1>2, <2>1, <2>2, ChoiceHelpers, OneChoice
  <2>4. session' \in [Logins -> Sessions] /\ \A t \in Logins : Fades(session[t], session'[t])
      BY <1>1, SessionsStay
  <2>5. QED  BY <1>1, <1>5, <2>3, <2>4, EndMoves, QuietStep
<1>6. CASE /\ ~selection[s].canceled /\ Microsoft!AddAccount(s)
           /\ selection' = [selection EXCEPT ![s] = Microsoft!UsedSelection(selection[s])]
  <2>1. added[s] = 0  BY <1>1, <1>2, <1>6 DEF Single
  <2>2. added' \in [Logins -> Nat] /\ added'[s] = 1
        /\ \A t \in Logins \ {s} : added'[t] = added[t]
      BY <1>2, <1>6, <2>1 DEF Microsoft!AddAccount
  <2>3. selection' \in [Logins -> Selections] /\ \A t \in Logins : Settles(selection[t], selection'[t])
      BY <1>1, <1>2, <1>6, ChoiceHelpers, OneChoice
  <2>4. selection'[s].canceled
    <3>1. Microsoft!UsedSelection(selection[s]).canceled
      <4>1. Microsoft!Detached(selection[s]) \in Selections /\ Microsoft!Detached(selection[s]).canceled
          BY <1>2 DEF Microsoft!Detached, Selections
      <4>2. QED  BY <4>1 DEF Microsoft!UsedSelection, Selections
    <3>2. QED  BY <1>2, <1>6, <3>1
  <2>5. Single(s)'  BY <1>1, <1>3, <2>2, <2>4 DEF Single
  <2>6. ~NeverOffered(selection'[s])  BY <2>4 DEF NeverOffered
  <2>7. QED  BY <1>1, <1>3, <1>4, <2>2, <2>3, <2>5, <2>6, LoginSettled
<1>7. QED  BY <1>5, <1>6 DEF Microsoft!AddSelected

----------------------------------------------------------------------------
LEMMA PassingHolds == Microsoft!Spec => []Passing
<1>1. Microsoft!Init => Passing
  <2> SUFFICES ASSUME Microsoft!Init PROVE Passing  OBVIOUS
  <2>1. Microsoft!Unstarted \in Sessions  BY DEF Microsoft!Unstarted, Sessions
  <2>2. Microsoft!NoSelection \in Selections /\ NeverOffered(Microsoft!NoSelection)
      BY DEF Microsoft!NoSelection, Selections, NeverOffered
  <2>3. Microsoft!Idle \in Rows /\ Microsoft!Idle.at = "idle" /\ Microsoft!Idle.got = "nothing"
      BY DEF Microsoft!Idle, Rows, Places, Microsoft!Steps
  <2>4. /\ session \in [Logins -> Sessions] /\ selection \in [Logins -> Selections]
        /\ request \in [Callers -> Rows] /\ added \in [Logins -> Nat]
      BY <2>1, <2>2, <2>3 DEF Microsoft!Init
  <2>5. \A r \in Callers : Brings(request[r]) /\ Sole(r) /\ Offered(r)
      BY <2>3 DEF Microsoft!Init, Brings, Sole, Offered, Carrying, Choosing
  <2>6. \A s \in Logins : Single(s)  BY <2>2 DEF Microsoft!Init, Single
  <2>7. QED  BY <2>4, <2>5, <2>6 DEF Passing
<1>2. Passing /\ [Microsoft!Next]_(Microsoft!vars) => Passing'
  <2> SUFFICES ASSUME Passing, [Microsoft!Next]_(Microsoft!vars) PROVE Passing'  OBVIOUS
  <2>1. CASE UNCHANGED Microsoft!vars
    <3>1. UNCHANGED <<added, session, selection, request>>  BY <2>1 DEF Microsoft!vars
    <3>2. QED  BY <3>1, SessionsStay, ChoicesStay, QuietStep
  <2>2. CASE Microsoft!Next
    <3>1. PICK s \in Logins :
             \/ Microsoft!StartMicrosoftSSOLogin(s) \/ Microsoft!SessionExpires(s)
             \/ Microsoft!SessionTimer(s)
             \/ Microsoft!SelectionExpires(s) \/ Microsoft!SelectionTimer(s)
             \/ Microsoft!ClearDetachedSelection(s) \/ Microsoft!TombstoneExpires(s)
             \/ \E r \in Callers :
                   \/ Microsoft!Continue(r, s) \/ Microsoft!LockSession(r, s)
                   \/ Microsoft!ReadPortalCallback(r, s)
                   \/ Microsoft!ReadProviderCallback(r, s)
                   \/ Microsoft!ContinuePortalLeg(r, s) \/ Microsoft!ContinueProviderLeg(r, s)
                   \/ Microsoft!LeaveSession(r, s) \/ Microsoft!UnlockSession(r, s)
                   \/ Microsoft!AfterContinue(r, s)
                   \/ Microsoft!beginMicrosoftProfileDiscovery(r, s) \/ Microsoft!DiscoverKiroProfiles(r, s)
                   \/ Microsoft!endMicrosoftProfileDiscovery(r, s) \/ Microsoft!CommitLogin(r, s)
                   \/ Microsoft!SelectProfile(r, s) \/ Microsoft!LockSelection(r, s)
                   \/ Microsoft!AddSelected(r, s)
                   \/ Microsoft!Cancel(r, s) \/ Microsoft!MarkCanceled(r, s)
                   \/ Microsoft!DetachSession(r, s) \/ Microsoft!FlagSession(r, s)
                   \/ Microsoft!removeMicrosoftProfileSelectionsForSession(r, s)
                   \/ Microsoft!ClearSelection(r, s)
        BY <2>2 DEF Microsoft!Next
    <3>2. QED
        BY <3>1, SessionSteps, ChoiceTimers, CallbackSteps, ExchangePasses, DiscoverySteps, CommitPasses,
           ChoiceSteps, ChoicePasses
  <2>3. QED  BY <2>1, <2>2
<1>3. QED  BY <1>1, <1>2, PTL DEF Microsoft!Spec

\* One login adds one account at most, however its requests, its cancels, its
\* retries after a failed AddAccount and its choice of a profile interleave
\* (ContinueMicrosoftSSOLogin, apiMicrosoftSSOCallback, apiMicrosoftSSOSelectProfile).
THEOREM AddedOnce == Microsoft!Spec => []Microsoft!OneAccountPerLogin
<1>1. Passing => Microsoft!OneAccountPerLogin  BY DEF Passing, Single, Microsoft!OneAccountPerLogin
<1>2. QED  BY <1>1, PassingHolds, PTL

(***************************************************************************)
(* A canceled login                                                        *)
(*                                                                         *)
(* The list of canceled logins is what a request still running for one of  *)
(* them looks at.  It outlives those requests as long as no other cancel   *)
(* pushes an entry out: the theorems speak of the behaviours in which the  *)
(* list never fills up.                                                    *)
(***************************************************************************)
Room == ~(Len(tombstones) >= MaxTombstones)

Cancelling  == {"mark", "detach", "flag", "selections", "clear"}
Marked(s)   == s \in ToSet(tombstones)
Works(r, s) == request[r].login = s /\ request[r].at \notin {"idle", "mark"}

\* What a cancel has done by the step it is at.
Cancels(r) ==
    /\ request[r].at \in Cancelling => request[r].login \in Logins /\ session[request[r].login].started
    /\ request[r].at \in Cancelling \ {"mark"} => Marked(request[r].login)
    /\ request[r].at \in {"flag", "selections", "clear"} => ~session[request[r].login].listed
    /\ request[r].at = "clear" => ~selection[request[r].login].listed

\* Nothing can be begun anew for a login whose cancel was answered, and who still works for it
\* will find it canceled.
Over(s) == s \in told =>
    /\ session[s].started /\ ~session[s].listed /\ ~selection[s].listed
    /\ \A r \in Callers : Works(r, s) => Marked(s)

\* A choice that is no longer offered keeps its credential only until its timer or its cancel clears it.
Loose(s) == ~selection[s].listed /\ selection[s].has =>
    selection[s].expired \/ \E r \in Callers : request[r].login = s /\ request[r].at = "clear"

Remembered ==
    /\ tombstones \in Seq(Logins) /\ told \subseteq Logins
    /\ \A r \in Callers : Cancels(r)
    /\ \A s \in Logins : Over(s) /\ Loose(s)

----------------------------------------------------------------------------
\* A session that is not listed anew; a choice that is not, nor left behind with its credential.
Closes(x, y) == x.started => y.started /\ (y.listed => x.listed)
Calms(x, y)  == /\ y.listed => x.listed
                /\ ~y.listed /\ y.has => y.expired \/ (~x.listed /\ x.has /\ (x.expired => y.expired))

\* A choice is offered by a request that still works for a login not marked as canceled.
Opened(s) == ~Marked(s) /\ selection'[s].listed /\ \E r \in Callers : Works(r, s)

\* A mark stays while a request has its login.
Keeps(s) == Marked(s) => s \in ToSet(tombstones') \/ \A r \in Callers : request[r].login # s

\* A request's next row, but for the steps of a cancel: it ends, goes on, cancels, or turns to a
\* login whose cancel was not answered.
Proceeds(r) ==
    /\ request[r].at # "clear"
    /\ \/ request'[r].at = "idle"
       \/ /\ request'[r].at \notin Cancelling
          /\ request'[r].login \in told => Works(r, request'[r].login)
       \/ /\ request'[r].at = "mark" /\ request'[r].login \in Logins
          /\ session[request'[r].login].started

LEMMA RememberedKept ==
    ASSUME Remembered, tombstones' \in Seq(Logins), UNCHANGED told,
           \A s \in Logins : Closes(session[s], session'[s]) /\ Keeps(s)
                             /\ (Calms(selection[s], selection'[s]) \/ Opened(s)),
           \A r \in Callers : UNCHANGED request[r] \/ Proceeds(r)
    PROVE  Remembered'
<1>1. ASSUME NEW r \in Callers PROVE Cancels(r)'
  <2>1. Cancels(r)  BY DEF Remembered
  <2>2. CASE UNCHANGED request[r]
    <3> DEFINE s == request[r].login
    <3>1. CASE request[r].at \in Cancelling
      <4>1. s \in Logins /\ session[s].started  BY <2>1, <3>1 DEF Cancels
      <4>2. Closes(session[s], session'[s]) /\ Keeps(s)
            /\ (Calms(selection[s], selection'[s]) \/ Opened(s))
          BY <4>1
      <4>3. session'[s].started /\ (~session[s].listed => ~session'[s].listed)
          BY <4>1, <4>2 DEF Closes
      <4>4. request[r].at # "mark" => Marked(s) /\ s \in ToSet(tombstones')
          BY <2>1, <3>1, <4>2 DEF Cancels, Keeps
      <4>5. request[r].at = "clear" => ~selection'[s].listed
          BY <2>1, <3>1, <4>2, <4>4 DEF Cancels, Calms, Opened
      <4>6. request'[r].at = request[r].at /\ request'[r].login = s  BY <2>2
      <4> HIDE DEF s
      <4>7. QED
          BY <2>1, <3>1, <4>1, <4>3, <4>4, <4>5, <4>6 DEF Cancels, Cancelling, Marked, s
    <3>2. CASE request[r].at \notin Cancelling  BY <2>2, <3>2 DEF Cancels, Cancelling
    <3>3. QED  BY <3>1, <3>2
  <2>3. CASE Proceeds(r)
    <3>1. request'[r].at \notin Cancelling
          \/ (/\ request'[r].at = "mark" /\ request'[r].login \in Logins
              /\ session[request'[r].login].started)
        BY <2>3 DEF Proceeds, Cancelling
    <3>2. \A s \in Logins : session[s].started => session'[s].started  BY DEF Closes
    <3>3. QED  BY <3>1, <3>2 DEF Cancels, Cancelling
  <2>4. QED  BY <2>2, <2>3
<1>2. ASSUME NEW s \in Logins PROVE Over(s)'
  <2> SUFFICES ASSUME s \in told
               PROVE  /\ session'[s].started /\ ~session'[s].listed /\ ~selection'[s].listed
                      /\ \A r \in Callers :
                            request'[r].login = s /\ request'[r].at \notin {"idle", "mark"}
                            => s \in ToSet(tombstones')
      BY DEF Over, Works, Marked
  <2>1. /\ session[s].started /\ ~session[s].listed /\ ~selection[s].listed
        /\ \A r \in Callers : Works(r, s) => Marked(s)
      BY DEF Remembered, Over
  <2>2. session'[s].started /\ ~session'[s].listed  BY <2>1 DEF Closes
  <2>3. ~selection'[s].listed  BY <2>1 DEF Calms, Opened
  <2>4. ASSUME NEW r \in Callers, request'[r].login = s, request'[r].at \notin {"idle", "mark"}
        PROVE  s \in ToSet(tombstones')
    <3>1. Works(r, s)  BY <2>4 DEF Proceeds, Works
    <3>2. QED  BY <2>1, <3>1 DEF Keeps, Works
  <2>5. QED  BY <2>2, <2>3, <2>4
<1>3. ASSUME NEW s \in Logins PROVE Loose(s)'
  <2> SUFFICES ASSUME ~selection'[s].listed, selection'[s].has, ~selection'[s].expired
               PROVE  \E r \in Callers : request'[r].login = s /\ request'[r].at = "clear"
      BY DEF Loose
  <2>1. ~selection[s].listed /\ selection[s].has /\ ~selection[s].expired  BY DEF Calms, Opened
  <2>2. PICK r \in Callers : request[r].login = s /\ request[r].at = "clear"
      BY <2>1 DEF Remembered, Loose
  <2>3. UNCHANGED request[r]  BY <2>2 DEF Proceeds
  <2>4. QED  BY <2>2, <2>3
<1>4. QED  BY <1>1, <1>2, <1>3 DEF Remembered

LEMMA SessionsClose ==
    ASSUME Passing,
           UNCHANGED session \/ \E s \in Logins, y \in Sessions : /\ session' = [session EXCEPT ![s] = y]
                                                                  /\ Closes(session[s], y)
    PROVE  \A t \in Logins : Closes(session[t], session'[t])
<1>1. session \in [Logins -> Sessions]  BY DEF Passing
<1>2. \A x : Closes(x, x)  BY DEF Closes
<1>3. QED  BY <1>1, <1>2

LEMMA ChoicesCalm ==
    ASSUME Passing,
           UNCHANGED selection \/ \E s \in Logins, y \in Selections :
                                     selection' = [selection EXCEPT ![s] = y] /\ Calms(selection[s], y)
    PROVE  \A t \in Logins : Calms(selection[t], selection'[t])
<1>1. selection \in [Logins -> Selections]  BY DEF Passing
<1>2. \A x : Calms(x, x)  BY DEF Calms
<1>3. QED  BY <1>1, <1>2

LEMMA MarksStay ==
    ASSUME Remembered, UNCHANGED tombstones
    PROVE  tombstones' \in Seq(Logins) /\ \A s \in Logins : Keeps(s)
  BY DEF Remembered, Keeps, Marked

\* What Go and End make of the rows.
LEMMA GoRow ==
    ASSUME Passing, NEW r \in Callers, NEW at, Microsoft!Go(r, at)
    PROVE  /\ request'[r].at = at /\ request'[r].login = request[r].login
           /\ \A q \in Callers : q # r => UNCHANGED request[q]
<1>1. request \in [Callers -> Rows] /\ request[r] \in Rows  BY DEF Passing
<1>2. QED  BY <1>1 DEF Microsoft!Go, Rows

LEMMA EndRow ==
    ASSUME Passing, NEW r \in Callers, Microsoft!End(r)
    PROVE  /\ request'[r].at = "idle"
           /\ \A q \in Callers : q # r => UNCHANGED request[q]
<1>1. request \in [Callers -> Rows]  BY DEF Passing
<1>2. QED  BY <1>1 DEF Microsoft!End, Microsoft!Idle

LEMMA StartRow ==
    ASSUME Passing, NEW r \in Callers, NEW s \in Logins, NEW at,
           request' = [request EXCEPT ![r] = [Microsoft!Idle EXCEPT !.login = s, !.at = at]]
    PROVE  /\ request'[r].at = at /\ request'[r].login = s
           /\ \A q \in Callers : q # r => UNCHANGED request[q]
<1> DEFINE x == [Microsoft!Idle EXCEPT !.login = s, !.at = at]
<1>1. x.at = at /\ x.login = s  BY DEF Microsoft!Idle
<1>2. request' = [request EXCEPT ![r] = x] /\ request \in [Callers -> Rows]  BY DEF Passing
<1> HIDE DEF x
<1>3. QED  BY <1>1, <1>2

\* A request that works for a login goes on or ends.
LEMMA WorkProceeds ==
    ASSUME Passing, NEW r \in Callers, request[r].at \notin Cancelling \cup {"idle"},
           Microsoft!End(r) \/ \E at \in Places \ Cancelling : Microsoft!Go(r, at)
    PROVE  \A q \in Callers : UNCHANGED request[q] \/ Proceeds(q)
<1>1. CASE Microsoft!End(r)  BY <1>1, EndRow DEF Proceeds, Cancelling
<1>2. CASE \E at \in Places \ Cancelling : Microsoft!Go(r, at)
  <2>1. PICK at \in Places \ Cancelling : Microsoft!Go(r, at)  BY <1>2
  <2>2. /\ request'[r].at = at /\ request'[r].login = request[r].login
        /\ \A q \in Callers : q # r => UNCHANGED request[q]
      BY <2>1, GoRow
  <2>3. Proceeds(r)  BY <2>1, <2>2 DEF Proceeds, Works, Cancelling
  <2>4. QED  BY <2>2, <2>3
<1>3. QED  BY <1>1, <1>2

----------------------------------------------------------------------------
LEMMA RetiredCloses ==
    ASSUME NEW x \in Sessions
    PROVE  /\ Microsoft!Retired(x) \in Sessions /\ Closes(x, Microsoft!Retired(x))
           /\ Microsoft!Discarded(x) \in Sessions /\ Closes(x, Microsoft!Discarded(x))
           /\ ~Microsoft!Discarded(x).listed
           /\ Closes(x, x)
  BY DEF Microsoft!Retired, Microsoft!Discarded, Sessions, Closes

LEMMA SessionsRemember ==
    ASSUME Passing, Remembered, NEW s \in Logins,
           Microsoft!StartMicrosoftSSOLogin(s) \/ Microsoft!SessionExpires(s) \/ Microsoft!SessionTimer(s)
    PROVE  Remembered'
<1>1. session \in [Logins -> Sessions] /\ \A t \in Logins : session[t] \in Sessions  BY DEF Passing
<1>2. UNCHANGED <<selection, tombstones, told, request>>
    BY DEF Microsoft!StartMicrosoftSSOLogin, Microsoft!SessionExpires, Microsoft!SessionTimer
<1>3. \A t \in Logins : Closes(session[t], session'[t])
  <2>1. CASE Microsoft!StartMicrosoftSSOLogin(s)
    <3> DEFINE purged == [t \in Logins |-> IF session[t].listed /\ session[t].expired
                                           THEN Microsoft!Discarded(session[t]) ELSE session[t]]
               open   == [purged[s] EXCEPT !.started = TRUE, !.listed = TRUE, !.keeps = "portal"]
    <3>1. \A t \in Logins : Closes(session[t], purged[t])  BY <1>1, RetiredCloses
    <3>2. session' = purged \/ session' = [purged EXCEPT ![s] = open]
        BY <2>1 DEF Microsoft!StartMicrosoftSSOLogin
    <3>3. ~session[s].started  BY <2>1 DEF Microsoft!StartMicrosoftSSOLogin
    <3>4. \A t \in Logins : t # s => session'[t] = purged[t]  BY <3>2
    <3> HIDE DEF purged, open
    <3>5. QED  BY <3>1, <3>3, <3>4 DEF Closes
  <2>2. CASE Microsoft!SessionExpires(s)
    <3> DEFINE y == [session[s] EXCEPT !.expired = TRUE]
    <3>1. y \in Sessions /\ Closes(session[s], y)  BY <1>1 DEF Sessions, Closes
    <3>2. session' = [session EXCEPT ![s] = y]  BY <2>2 DEF Microsoft!SessionExpires
    <3> HIDE DEF y
    <3>3. QED  BY <3>1, <3>2, SessionsClose
  <2>3. CASE Microsoft!SessionTimer(s)
    <3>1. session' = [session EXCEPT ![s] = Microsoft!Discarded(session[s])]
        BY <2>3 DEF Microsoft!SessionTimer
    <3>2. QED  BY <1>1, <3>1, RetiredCloses, SessionsClose
  <2>4. QED  BY <2>1, <2>2, <2>3
<1>4. \A t \in Logins : Calms(selection[t], selection'[t])  BY <1>2, ChoicesCalm
<1>5. QED  BY <1>2, <1>3, <1>4, MarksStay, RememberedKept

LEMMA CallbacksRemember ==
    ASSUME Passing, Remembered, NEW s \in Logins, NEW r \in Callers,
           \/ Microsoft!Continue(r, s) \/ Microsoft!LockSession(r, s) \/ Microsoft!ReadPortalCallback(r, s)
           \/ Microsoft!ReadProviderCallback(r, s)
           \/ Microsoft!ContinuePortalLeg(r, s) \/ Microsoft!ContinueProviderLeg(r, s)
           \/ Microsoft!LeaveSession(r, s) \/ Microsoft!UnlockSession(r, s) \/ Microsoft!AfterContinue(r, s)
    PROVE  Remembered'
<1>1. session[s] \in Sessions /\ request[r] \in Rows  BY DEF Passing
<1>2. UNCHANGED <<selection, tombstones, told>>
    BY DEF Microsoft!Continue, Microsoft!LockSession, Microsoft!ReadPortalCallback,
       Microsoft!ReadProviderCallback, Microsoft!ReadCallback, Microsoft!ContinuePortalLeg,
       Microsoft!ContinueProviderLeg, Microsoft!LeaveSession, Microsoft!UnlockSession,
       Microsoft!AfterContinue
<1>3. UNCHANGED session \/ \E y \in Sessions : /\ session' = [session EXCEPT ![s] = y]
                                               /\ Closes(session[s], y)
  <2>1. /\ Microsoft!Retired(session[s]) \in Sessions /\ Closes(session[s], Microsoft!Retired(session[s]))
        /\ Microsoft!Discarded(session[s]) \in Sessions
        /\ Closes(session[s], Microsoft!Discarded(session[s]))
        /\ Closes(session[s], session[s])
      BY <1>1, RetiredCloses
  <2>2. CASE Microsoft!Continue(r, s)  BY <1>1, <2>1, <2>2 DEF Microsoft!Continue
  <2>3. CASE Microsoft!LockSession(r, s)
    <3> DEFINE x == IF ~session[s].canceled /\ session[s].expired THEN Microsoft!Retired(session[s]) ELSE session[s]
               y == [x EXCEPT !.mu = r]
    <3>1. x \in Sessions /\ Closes(session[s], x)  BY <1>1, <2>1
    <3>2. session' = [session EXCEPT ![s] = y]  BY <2>3 DEF Microsoft!LockSession
    <3> HIDE DEF x
    <3>3. y \in Sessions /\ Closes(session[s], y)  BY <3>1 DEF Sessions, Closes
    <3> HIDE DEF y
    <3>4. QED  BY <3>2, <3>3
  <2>4. CASE Microsoft!ReadPortalCallback(r, s) \/ Microsoft!ReadProviderCallback(r, s)
      BY <2>1, <2>4 DEF Microsoft!ReadPortalCallback, Microsoft!ReadProviderCallback, Microsoft!ReadCallback
  <2>5. CASE Microsoft!ContinuePortalLeg(r, s) \/ Microsoft!LeaveSession(r, s)
    <3>1. \A k \in {"nothing", "portal", "leg"} :
             /\ [session[s] EXCEPT !.keeps = k] \in Sessions
             /\ Closes(session[s], [session[s] EXCEPT !.keeps = k])
        BY <1>1 DEF Sessions, Closes
    <3>2. \/ UNCHANGED session \/ session' = [session EXCEPT ![s] = Microsoft!Retired(session[s])]
          \/ \E k \in {"nothing", "portal", "leg"} :
                session' = [session EXCEPT ![s] = [session[s] EXCEPT !.keeps = k]]
      <4>1. session[s].keeps \in {"nothing", "portal", "leg"}  BY <1>1 DEF Sessions
      <4>2. QED  BY <2>5, <4>1 DEF Microsoft!ContinuePortalLeg, Microsoft!LeaveSession
    <3>3. QED  BY <2>1, <3>1, <3>2
  <2>6. CASE Microsoft!ContinueProviderLeg(r, s)  BY <2>1, <2>6 DEF Microsoft!ContinueProviderLeg
  <2>7. CASE Microsoft!UnlockSession(r, s)
    <3> DEFINE y == [session[s] EXCEPT !.mu = Nobody]
    <3>1. y \in Sessions /\ Closes(session[s], y)  BY <1>1 DEF Sessions, Closes
    <3>2. session' = [session EXCEPT ![s] = y]  BY <2>7 DEF Microsoft!UnlockSession
    <3> HIDE DEF y
    <3>3. QED  BY <3>1, <3>2
  <2>8. CASE Microsoft!AfterContinue(r, s)  BY <1>1, <2>1, <2>8 DEF Microsoft!AfterContinue
  <2>9. QED  BY <2>2, <2>3, <2>4, <2>5, <2>6, <2>7, <2>8
<1>4. \A q \in Callers : UNCHANGED request[q] \/ Proceeds(q)
  <2>1. CASE Microsoft!Continue(r, s)
    <3>1. request[r].at = "idle" /\ s \notin told
        BY <2>1 DEF Microsoft!Continue, Remembered, Over
    <3>2. Microsoft!End(r) \/ request' = [request EXCEPT ![r] = [Microsoft!Idle EXCEPT !.login = s, !.at = "lock"]]
        BY <2>1 DEF Microsoft!Continue, Microsoft!End
    <3>3. /\ request'[r].at = "idle" \/ (request'[r].at = "lock" /\ request'[r].login = s)
          /\ \A q \in Callers : q # r => UNCHANGED request[q]
      <4>1. CASE Microsoft!End(r)  BY <4>1, EndRow
      <4>2. CASE request' = [request EXCEPT ![r] = [Microsoft!Idle EXCEPT !.login = s, !.at = "lock"]]
        <5>1. /\ request'[r].at = "lock" /\ request'[r].login = s
              /\ \A q \in Callers : q # r => UNCHANGED request[q]
            BY <4>2, StartRow, Zenon
        <5>2. QED  BY <5>1
      <4>3. QED  BY <3>2, <4>1, <4>2
    <3>4. QED  BY <3>1, <3>3 DEF Proceeds, Cancelling
  <2>2. CASE Microsoft!ContinuePortalLeg(r, s) \/ Microsoft!ContinueProviderLeg(r, s)
    <3>1. request[r].at \notin Cancelling \cup {"idle"}
        BY <2>2 DEF Microsoft!ContinuePortalLeg, Microsoft!ContinueProviderLeg, Microsoft!At, Cancelling
    <3>2. Microsoft!Go(r, "leave") \/ \E g \in {"url", "credential"} : Microsoft!Bring(r, "leave", g)
        BY <2>2 DEF Microsoft!ContinuePortalLeg, Microsoft!ContinueProviderLeg
    <3>3. CASE Microsoft!Go(r, "leave")  BY <3>1, <3>3, WorkProceeds DEF Places, Microsoft!Steps, Cancelling
    <3>4. CASE \E g \in {"url", "credential"} : Microsoft!Bring(r, "leave", g)
      <4>1. /\ request'[r].at = "leave" /\ request'[r].login = request[r].login
            /\ \A q \in Callers : q # r => UNCHANGED request[q]
          BY <1>1, <3>4 DEF Microsoft!Bring, Passing, Rows
      <4>2. QED  BY <3>1, <4>1 DEF Proceeds, Works, Cancelling
    <3>5. QED  BY <3>2, <3>3, <3>4
  <2>3. CASE ~Microsoft!Continue(r, s) /\ ~Microsoft!ContinuePortalLeg(r, s) /\ ~Microsoft!ContinueProviderLeg(r, s)
    <3>1. request[r].at \notin Cancelling \cup {"idle"}
        BY <2>3 DEF Microsoft!LockSession, Microsoft!ReadPortalCallback, Microsoft!ReadProviderCallback,
           Microsoft!ReadCallback, Microsoft!LeaveSession,
           Microsoft!UnlockSession, Microsoft!AfterContinue, Microsoft!At, Cancelling
    <3>2. session[s].keeps \in {"nothing", "portal", "leg"}  BY <1>1 DEF Sessions
    <3>3. Microsoft!End(r) \/ \E at \in {"leave", "nothing", "portal", "leg", "oidc", "exchange", "unlock", "answered",
                                         "begin"} : Microsoft!Go(r, at)
        BY <2>3, <3>2 DEF Microsoft!LockSession, Microsoft!ReadPortalCallback,
           Microsoft!ReadProviderCallback, Microsoft!ReadCallback, Microsoft!LeaveSession,
           Microsoft!UnlockSession, Microsoft!AfterContinue
    <3>4. QED  BY <3>1, <3>3, WorkProceeds DEF Places, Microsoft!Steps, Cancelling
  <2>4. QED  BY <2>1, <2>2, <2>3
<1>5. \A t \in Logins : Calms(selection[t], selection'[t])  BY <1>2, ChoicesCalm
<1>6. \A t \in Logins : Closes(session[t], session'[t])  BY <1>3, SessionsClose
<1>7. QED  BY <1>2, <1>4, <1>5, <1>6, MarksStay, RememberedKept

----------------------------------------------------------------------------
\* The filter MicrosoftLogin is written with is that of Filter.
LEMMA SameKept == \A s, S : Microsoft!Kept(s, S) = Kept(s, S)
BY DEF Microsoft!Kept, Kept, Microsoft!FlattenSeq, FlattenSeq

\* What becomes of the list of canceled logins.
LEMMA Forgotten ==
    ASSUME Remembered, NEW s \in Logins, Microsoft!Forget(s)
    PROVE  /\ tombstones' \in Seq(Logins)
           /\ \A t \in Logins : t # s /\ Marked(t) => t \in ToSet(tombstones')
<1>1. tombstones \in Seq(Logins) /\ tombstones' = Kept(tombstones, Logins \ {s})
    BY SameKept DEF Remembered, Microsoft!Forget
<1>2. /\ Kept(tombstones, Logins \ {s}) \in Seq(Logins)
      /\ \A x : Occurs(Kept(tombstones, Logins \ {s}), x) <=> x \in Logins \ {s} /\ Occurs(tombstones, x)
    BY <1>1, KeptHolds
<1>3. QED  BY <1>1, <1>2 DEF Occurs, ToSet, Marked

LEMMA Mentioned ==
    ASSUME Remembered, Room, NEW s \in Logins, NEW r \in Callers, Microsoft!MarkCanceled(r, s)
    PROVE  /\ tombstones' \in Seq(Logins) /\ s \in ToSet(tombstones')
           /\ \A t \in Logins : Marked(t) => t \in ToSet(tombstones')
<1> DEFINE rest == Kept(tombstones, Logins \ {s})
<1>1. tombstones \in Seq(Logins)  BY DEF Remembered
<1>2. tombstones' = Append(rest, s)  BY SameKept DEF Microsoft!MarkCanceled, Room
<1>3. rest \in Seq(Logins) /\ \A x : Occurs(rest, x) <=> x \in Logins \ {s} /\ Occurs(tombstones, x)
    BY <1>1, KeptHolds
<1> HIDE DEF rest
<1>4. /\ Append(rest, s) \in Seq(Logins) /\ Append(rest, s)[Len(rest) + 1] = s
      /\ Len(Append(rest, s)) = Len(rest) + 1
      /\ \A i \in DOMAIN rest : i \in DOMAIN Append(rest, s) /\ Append(rest, s)[i] = rest[i]
    BY <1>3
<1>5. s \in ToSet(tombstones')
  <2>1. Len(rest) + 1 \in DOMAIN Append(rest, s)  BY <1>3, <1>4
  <2>2. QED  BY <1>2, <1>4, <2>1 DEF ToSet
<1>6. ASSUME NEW t \in Logins, Marked(t), t # s PROVE t \in ToSet(tombstones')
  <2>1. Occurs(rest, t)  BY <1>3, <1>6 DEF Marked, ToSet, Occurs
  <2>2. QED  BY <1>2, <1>4, <2>1 DEF ToSet, Occurs
<1>7. QED  BY <1>2, <1>4, <1>5, <1>6

----------------------------------------------------------------------------
LEMMA DiscoveryRemembers ==
    ASSUME Passing, Remembered, NEW s \in Logins, NEW r \in Callers,
           \/ Microsoft!beginMicrosoftProfileDiscovery(r, s) \/ Microsoft!DiscoverKiroProfiles(r, s)
           \/ Microsoft!endMicrosoftProfileDiscovery(r, s) \/ Microsoft!Cancel(r, s)
    PROVE  Remembered'
<1>1. request[r] \in Rows  BY DEF Passing
<1>2. UNCHANGED <<session, selection, tombstones, told>>
    BY DEF Microsoft!beginMicrosoftProfileDiscovery, Microsoft!DiscoverKiroProfiles,
       Microsoft!endMicrosoftProfileDiscovery, Microsoft!Cancel
<1>3. \A q \in Callers : UNCHANGED request[q] \/ Proceeds(q)
  <2>1. CASE Microsoft!beginMicrosoftProfileDiscovery(r, s) \/ Microsoft!endMicrosoftProfileDiscovery(r, s)
    <3>1. request[r].at \notin Cancelling \cup {"idle"}
        BY <2>1 DEF Microsoft!beginMicrosoftProfileDiscovery, Microsoft!endMicrosoftProfileDiscovery,
           Microsoft!At, Cancelling
    <3>2. Microsoft!End(r) \/ \E at \in {"profiles", "commit"} : Microsoft!Go(r, at)
        BY <2>1 DEF Microsoft!beginMicrosoftProfileDiscovery, Microsoft!endMicrosoftProfileDiscovery
    <3>3. QED  BY <3>1, <3>2, WorkProceeds DEF Places, Microsoft!Steps, Cancelling
  <2>2. CASE Microsoft!DiscoverKiroProfiles(r, s)
    <3>1. request[r].at \notin Cancelling \cup {"idle"}
        BY <2>2 DEF Microsoft!DiscoverKiroProfiles, Microsoft!At, Cancelling
    <3>2. PICK n \in 0..2, timeout \in BOOLEAN :
             request' = [request EXCEPT ![r].at = "end", ![r].profiles = n,
                                        ![r].stopped = timeout \/ discovery[s].canceled]
        BY <2>2 DEF Microsoft!DiscoverKiroProfiles
    <3> DEFINE x == [request[r] EXCEPT !.at = "end", !.profiles = n,
                                       !.stopped = timeout \/ discovery[s].canceled]
    <3>3. x.at = "end" /\ x.login = request[r].login  BY <1>1 DEF Rows
    <3>4. request' = [request EXCEPT ![r] = x] /\ request \in [Callers -> Rows]  BY <3>2 DEF Passing
    <3> HIDE DEF x
    <3>5. /\ request'[r].at = "end" /\ request'[r].login = request[r].login
          /\ \A q \in Callers : q # r => UNCHANGED request[q]
        BY <3>3, <3>4
    <3>6. QED  BY <3>1, <3>5 DEF Proceeds, Works, Cancelling
  <2>3. CASE Microsoft!Cancel(r, s)
    <3>1. request[r].at = "idle" /\ session[s].started  BY <2>3 DEF Microsoft!Cancel
    <3>2. /\ request'[r].at = "mark" /\ request'[r].login = s
          /\ \A q \in Callers : q # r => UNCHANGED request[q]
        BY <2>3, StartRow, Zenon DEF Microsoft!Cancel
    <3>3. QED  BY <3>1, <3>2 DEF Proceeds
  <2>4. QED  BY <2>1, <2>2, <2>3
<1>4. \A t \in Logins : Calms(selection[t], selection'[t])  BY <1>2, ChoicesCalm
<1>5. \A t \in Logins : Closes(session[t], session'[t])  BY <1>2, SessionsClose
<1>6. QED  BY <1>2, <1>3, <1>4, <1>5, MarksStay, RememberedKept

LEMMA ChoiceTimersRemember ==
    ASSUME Passing, Remembered, NEW s \in Logins,
           Microsoft!SelectionExpires(s) \/ Microsoft!SelectionTimer(s) \/ Microsoft!ClearDetachedSelection(s) \/ Microsoft!TombstoneExpires(s)
    PROVE  Remembered'
<1>1. selection[s] \in Selections  BY DEF Passing
<1>2. UNCHANGED <<session, request, told>>
    BY DEF Microsoft!SelectionExpires, Microsoft!SelectionTimer, Microsoft!ClearDetachedSelection,
       Microsoft!TombstoneExpires
<1>3. UNCHANGED selection \/ \E y \in Selections : /\ selection' = [selection EXCEPT ![s] = y]
                                                   /\ Calms(selection[s], y)
  <2>1. CASE Microsoft!SelectionExpires(s)
    <3> DEFINE y == [selection[s] EXCEPT !.expired = TRUE]
    <3>1. y \in Selections /\ Calms(selection[s], y)  BY <1>1 DEF Selections, Calms
    <3>2. selection' = [selection EXCEPT ![s] = y]  BY <2>1 DEF Microsoft!SelectionExpires
    <3> HIDE DEF y
    <3>3. QED  BY <3>1, <3>2
  <2>2. CASE Microsoft!SelectionTimer(s)
    <3>1. Microsoft!Detached(selection[s]) \in Selections /\ Calms(selection[s], Microsoft!Detached(selection[s]))
        BY <1>1, <2>2 DEF Microsoft!SelectionTimer, Microsoft!Detached, Selections, Calms
    <3>2. QED  BY <2>2, <3>1 DEF Microsoft!SelectionTimer
  <2>3. CASE Microsoft!ClearDetachedSelection(s)
    <3> DEFINE y == [selection[s] EXCEPT !.has = FALSE]
    <3>1. y \in Selections /\ Calms(selection[s], y)  BY <1>1 DEF Selections, Calms
    <3>2. selection' = [selection EXCEPT ![s] = y]  BY <2>3 DEF Microsoft!ClearDetachedSelection
    <3> HIDE DEF y
    <3>3. QED  BY <3>1, <3>2
  <2>4. CASE Microsoft!TombstoneExpires(s)  BY <2>4 DEF Microsoft!TombstoneExpires
  <2>5. QED  BY <2>1, <2>2, <2>3, <2>4
<1>4. tombstones' \in Seq(Logins) /\ \A t \in Logins : Keeps(t)
  <2>1. CASE Microsoft!TombstoneExpires(s)  BY <2>1, Forgotten DEF Microsoft!TombstoneExpires, Keeps
  <2>2. CASE ~Microsoft!TombstoneExpires(s)
    <3>1. UNCHANGED tombstones
        BY <2>2 DEF Microsoft!SelectionExpires, Microsoft!SelectionTimer, Microsoft!ClearDetachedSelection
    <3>2. QED  BY <3>1, MarksStay
  <2>3. QED  BY <2>1, <2>2
<1>5. \A t \in Logins : Calms(selection[t], selection'[t])  BY <1>3, ChoicesCalm
<1>6. \A t \in Logins : Closes(session[t], session'[t])  BY <1>2, SessionsClose
<1>7. QED  BY <1>2, <1>4, <1>5, <1>6, RememberedKept

LEMMA ChoicesRemember ==
    ASSUME Passing, Remembered, NEW s \in Logins, NEW r \in Callers,
           Microsoft!SelectProfile(r, s) \/ Microsoft!LockSelection(r, s) \/ Microsoft!AddSelected(r, s)
    PROVE  Remembered'
<1>1. selection[s] \in Selections  BY DEF Passing
<1>2. UNCHANGED <<session, told>>
    BY DEF Microsoft!SelectProfile, Microsoft!LockSelection, Microsoft!AddSelected
<1>3. UNCHANGED selection \/ \E y \in Selections : /\ selection' = [selection EXCEPT ![s] = y]
                                                   /\ Calms(selection[s], y)
  <2> DEFINE cleared == [Microsoft!Detached(selection[s]) EXCEPT !.has = FALSE]
             over    == Microsoft!UsedSelection(selection[s])
  <2>1. Microsoft!Detached(selection[s]) \in Selections /\ ~Microsoft!Detached(selection[s]).listed
      BY <1>1 DEF Microsoft!Detached, Selections
  <2>2. cleared \in Selections /\ Calms(selection[s], cleared)
      BY <2>1 DEF Selections, Calms
  <2>3. over \in Selections /\ Calms(selection[s], over)
      BY <2>1 DEF Microsoft!UsedSelection, Selections, Calms
  <2>4. \A m \in Callers \cup {Nobody} :
           [selection[s] EXCEPT !.mu = m] \in Selections /\ Calms(selection[s], [selection[s] EXCEPT !.mu = m])
      BY <1>1 DEF Selections, Calms
  <2>5. selection[s] \in Selections /\ Calms(selection[s], selection[s])  BY <1>1 DEF Calms
  <2>6. \/ UNCHANGED selection
        \/ \E y \in {cleared, over, selection[s]} : selection' = [selection EXCEPT ![s] = y]
        \/ \E m \in Callers \cup {Nobody} : selection' = [selection EXCEPT ![s] = [selection[s] EXCEPT !.mu = m]]
    <3>1. CASE Microsoft!SelectProfile(r, s)  BY <3>1 DEF Microsoft!SelectProfile
    <3>2. CASE Microsoft!LockSelection(r, s)  BY <3>2 DEF Microsoft!LockSelection
    <3>3. CASE Microsoft!AddSelected(r, s)  BY <3>3 DEF Microsoft!AddSelected
    <3>4. QED  BY <3>1, <3>2, <3>3
  <2> HIDE DEF cleared, over
  <2>7. QED  BY <2>2, <2>3, <2>4, <2>5, <2>6
<1>4. tombstones' \in Seq(Logins) /\ \A t \in Logins : Keeps(t)
  <2>1. CASE Microsoft!AddSelected(r, s) /\ Microsoft!Forget(s)
    <3>1. CASE UNCHANGED tombstones  BY <3>1, MarksStay
    <3>2. CASE ~UNCHANGED tombstones
      <4>1. ~Marked(s)
          BY <2>1, <3>2 DEF Microsoft!AddSelected, Microsoft!microsoftSessionCanceled, Microsoft!ToSet,
             ToSet, Marked
      <4>2. QED  BY <2>1, <4>1, Forgotten DEF Keeps
    <3>3. QED  BY <3>1, <3>2
  <2>2. CASE ~(Microsoft!AddSelected(r, s) /\ Microsoft!Forget(s))
    <3>1. UNCHANGED tombstones
        BY <2>2 DEF Microsoft!SelectProfile, Microsoft!LockSelection, Microsoft!AddSelected
    <3>2. QED  BY <3>1, MarksStay
  <2>3. QED  BY <2>1, <2>2
<1>5. \A q \in Callers : UNCHANGED request[q] \/ Proceeds(q)
  <2>1. CASE Microsoft!SelectProfile(r, s)
    <3>1. request[r].at = "idle" /\ s \notin told  BY <2>1 DEF Microsoft!SelectProfile, Remembered, Over
    <3>2. /\ request'[r].at = "choose" /\ request'[r].login = s
          /\ \A q \in Callers : q # r => UNCHANGED request[q]
        BY <2>1, StartRow, Zenon DEF Microsoft!SelectProfile
    <3>3. QED  BY <3>1, <3>2 DEF Proceeds, Cancelling
  <2>2. CASE Microsoft!LockSelection(r, s) \/ Microsoft!AddSelected(r, s)
    <3>1. request[r].at \notin Cancelling \cup {"idle"}
        BY <2>2 DEF Microsoft!LockSelection, Microsoft!AddSelected, Microsoft!At, Cancelling
    <3>2. Microsoft!End(r) \/ Microsoft!Go(r, "chosen")
        BY <2>2 DEF Microsoft!LockSelection, Microsoft!AddSelected
    <3>3. QED  BY <3>1, <3>2, WorkProceeds DEF Places, Microsoft!Steps, Cancelling
  <2>3. QED  BY <2>1, <2>2
<1>6. \A t \in Logins : Calms(selection[t], selection'[t])  BY <1>3, ChoicesCalm
<1>7. \A t \in Logins : Closes(session[t], session'[t])  BY <1>2, SessionsClose
<1>8. QED  BY <1>2, <1>4, <1>5, <1>6, <1>7, RememberedKept

\* The choice is stored, or the account added, only for a login that is not marked.
LEMMA CommitRemembers ==
    ASSUME Passing, Remembered, NEW s \in Logins, NEW r \in Callers, Microsoft!CommitLogin(r, s)
    PROVE  Remembered'
<1>1. /\ selection \in [Logins -> Selections] /\ UNCHANGED <<session, told>> /\ Microsoft!End(r)
      /\ request[r].at = "commit" /\ request[r].login = s
    BY DEF Passing, Microsoft!CommitLogin, Microsoft!At
<1>2. Microsoft!MayCommit(r, s) => ~Marked(s)
    BY DEF Microsoft!MayCommit, Microsoft!microsoftSessionCanceled, Microsoft!ToSet, ToSet, Marked
<1>3. \A t \in Logins : Calms(selection[t], selection'[t]) \/ Opened(t)
  <2>1. CASE UNCHANGED selection  BY <2>1, ChoicesCalm
  <2>2. CASE Microsoft!MayCommit(r, s) /\ Microsoft!storeMicrosoftProfileSelection(s)
    <3> DEFINE purged == [t \in Logins |-> IF selection[t].listed /\ selection[t].expired
                                           THEN [selection[t] EXCEPT !.listed = FALSE, !.canceled = TRUE,
                                                                     !.has = FALSE] ELSE selection[t]]
               open   == [Microsoft!NoSelection EXCEPT !.listed = TRUE, !.has = TRUE]
    <3>1. \A t \in Logins : Calms(selection[t], purged[t])  BY <1>1 DEF Selections, Calms
    <3>2. open.listed  BY DEF Microsoft!NoSelection
    <3>3. selection' = purged \/ selection' = [purged EXCEPT ![s] = open]
        BY <2>2 DEF Microsoft!storeMicrosoftProfileSelection
    <3>4. Works(r, s)  BY <1>1 DEF Works
    <3>5. purged = [t \in Logins |-> purged[t]]  OBVIOUS
    <3> HIDE DEF purged, open
    <3>6. ASSUME NEW t \in Logins, t # s \/ selection' = purged PROVE Calms(selection[t], selection'[t])
      <4>1. selection'[t] = purged[t]  BY <3>3, <3>5, <3>6
      <4>2. QED  BY <3>1, <4>1
    <3>7. ASSUME selection' # purged PROVE Opened(s)
      <4>1. selection'[s] = open  BY <3>3, <3>5, <3>7
      <4>2. QED  BY <1>2, <2>2, <3>2, <3>4, <4>1 DEF Opened
    <3>8. QED  BY <3>6, <3>7
  <2>3. QED  BY <2>1, <2>2 DEF Microsoft!CommitLogin
<1>4. tombstones' \in Seq(Logins) /\ \A t \in Logins : Keeps(t)
  <2>1. CASE UNCHANGED tombstones  BY <2>1, MarksStay
  <2>2. CASE Microsoft!MayCommit(r, s) /\ Microsoft!Forget(s)  BY <1>2, <2>2, Forgotten DEF Keeps
  <2>3. QED  BY <2>1, <2>2 DEF Microsoft!CommitLogin
<1>5. \A q \in Callers : UNCHANGED request[q] \/ Proceeds(q)
    BY <1>1, WorkProceeds DEF Cancelling
<1>6. \A t \in Logins : Closes(session[t], session'[t])  BY <1>1, SessionsClose
<1>7. QED  BY <1>1, <1>3, <1>4, <1>5, <1>6, RememberedKept

----------------------------------------------------------------------------
\* The steps of a cancel.
LEMMA MarkRemembers ==
    ASSUME Passing, Remembered, Room, NEW s \in Logins, NEW r \in Callers, Microsoft!MarkCanceled(r, s)
    PROVE  Remembered'
<1>1. /\ request[r].at = "mark" /\ request[r].login = s
      /\ UNCHANGED <<session, selection, told>>
    BY DEF Microsoft!MarkCanceled, Microsoft!At
<1>2. /\ request'[r].at = "detach" /\ request'[r].login = s
      /\ \A q \in Callers : q # r => UNCHANGED request[q]
    BY <1>1, GoRow DEF Microsoft!MarkCanceled
<1>3. /\ tombstones' \in Seq(Logins) /\ s \in ToSet(tombstones')
      /\ \A t \in Logins : Marked(t) => t \in ToSet(tombstones')
    BY Mentioned
<1>4. ASSUME NEW q \in Callers PROVE Cancels(q)'
  <2>1. Cancels(q)  BY DEF Remembered
  <2>2. CASE q = r  BY <1>1, <1>2, <1>3, <2>1, <2>2 DEF Cancels, Cancelling, Marked
  <2>3. CASE q # r
    <3>1. request'[q] = request[q]  BY <1>2, <2>3
    <3>2. QED  BY <1>1, <1>3, <2>1, <3>1 DEF Cancels, Cancelling, Marked
  <2>4. QED  BY <2>2, <2>3
<1>5. ASSUME NEW t \in Logins PROVE Over(t)'
  <2> SUFFICES ASSUME t \in told, NEW q \in Callers,
                      request'[q].login = t, request'[q].at \notin {"idle", "mark"}
               PROVE  t \in ToSet(tombstones')
      BY <1>1 DEF Remembered, Over, Works, Marked
  <2>1. CASE q = r  BY <1>2, <1>3, <2>1
  <2>2. CASE q # r
    <3>1. Works(q, t)  BY <1>2, <2>2 DEF Works
    <3>2. QED  BY <1>3, <3>1 DEF Remembered, Over
  <2>3. QED  BY <2>1, <2>2
<1>6. ASSUME NEW t \in Logins PROVE Loose(t)'
  <2> SUFFICES ASSUME ~selection[t].listed, selection[t].has, ~selection[t].expired
               PROVE  \E q \in Callers : request'[q].login = t /\ request'[q].at = "clear"
      BY <1>1 DEF Loose
  <2>1. PICK q \in Callers : request[q].login = t /\ request[q].at = "clear"  BY DEF Remembered, Loose
  <2>2. QED  BY <1>1, <1>2, <2>1
<1>7. QED  BY <1>1, <1>3, <1>4, <1>5, <1>6 DEF Remembered

\* The session goes first, ...
LEMMA DetachRemembers ==
    ASSUME Passing, Remembered, NEW s \in Logins, NEW r \in Callers, Microsoft!DetachSession(r, s) \/ Microsoft!FlagSession(r, s)
    PROVE  Remembered'
<1>1. /\ session[s] \in Sessions /\ request[r].at \in {"detach", "flag"} /\ request[r].login = s
      /\ UNCHANGED <<selection, tombstones, told>>
    BY DEF Microsoft!DetachSession, Microsoft!FlagSession, Microsoft!At, Passing
<1>2. /\ request'[r].at \in {"flag", "selections"} /\ request'[r].login = s
      /\ \A q \in Callers : q # r => UNCHANGED request[q]
    BY <1>1, GoRow DEF Microsoft!DetachSession, Microsoft!FlagSession
<1>3. /\ ~session'[s].listed
      /\ \A t \in Logins : Closes(session[t], session'[t])
  <2> DEFINE y == [session[s] EXCEPT !.listed = FALSE]
  <2>1. /\ y \in Sessions /\ Closes(session[s], y) /\ ~y.listed
        /\ Microsoft!Discarded(session[s]) \in Sessions
        /\ Closes(session[s], Microsoft!Discarded(session[s]))
        /\ ~Microsoft!Discarded(session[s]).listed
      BY <1>1, RetiredCloses DEF Sessions, Closes
  <2>2. session' = [session EXCEPT ![s] = y] \/ session' = [session EXCEPT ![s] = Microsoft!Discarded(session[s])]
      BY DEF Microsoft!DetachSession, Microsoft!FlagSession
  <2> HIDE DEF y
  <2>3. \A t \in Logins : Closes(session[t], session'[t])  BY <2>1, <2>2, SessionsClose
  <2>4. QED  BY <2>1, <2>2, <2>3 DEF Passing
<1>4. ASSUME NEW q \in Callers PROVE Cancels(q)'
  <2>1. Cancels(q)  BY DEF Remembered
  <2>2. CASE q = r
    <3>1. /\ s \in Logins /\ session[s].started /\ Marked(s)
        BY <1>1, <2>1, <2>2 DEF Cancels, Cancelling
    <3>2. session'[s].started  BY <1>3, <3>1 DEF Closes
    <3>3. QED  BY <1>1, <1>2, <1>3, <2>2, <3>1, <3>2 DEF Cancels, Cancelling, Marked
  <2>3. CASE q # r
    <3>1. request'[q] = request[q]  BY <1>2, <2>3
    <3>2. request[q].at \in Cancelling => Closes(session[request[q].login], session'[request[q].login])
        BY <1>3, <2>1 DEF Cancels
    <3>3. QED  BY <1>1, <2>1, <3>1, <3>2 DEF Cancels, Cancelling, Marked, Closes
  <2>4. QED  BY <2>2, <2>3
<1>5. ASSUME NEW t \in Logins PROVE Over(t)'
  <2> SUFFICES ASSUME t \in told
               PROVE  /\ session'[t].started /\ ~session'[t].listed /\ ~selection[t].listed
                      /\ \A q \in Callers : request'[q].login = t /\ request'[q].at \notin {"idle", "mark"}
                                             => Marked(t)
      BY <1>1 DEF Over, Works, Marked
  <2>1. Over(t)  BY DEF Remembered
  <2>2. session'[t].started /\ ~session'[t].listed  BY <1>3, <2>1 DEF Over, Closes
  <2>3. \A q \in Callers : request'[q].login = t /\ request'[q].at \notin {"idle", "mark"} => Works(q, t)
      BY <1>1, <1>2 DEF Works
  <2>4. QED  BY <2>1, <2>2, <2>3 DEF Over
<1>6. ASSUME NEW t \in Logins PROVE Loose(t)'
  <2> SUFFICES ASSUME ~selection[t].listed, selection[t].has, ~selection[t].expired
               PROVE  \E q \in Callers : request'[q].login = t /\ request'[q].at = "clear"
      BY <1>1 DEF Loose
  <2>1. PICK q \in Callers : request[q].login = t /\ request[q].at = "clear"  BY DEF Remembered, Loose
  <2>2. QED  BY <1>1, <1>2, <2>1
<1>7. QED  BY <1>1, <1>4, <1>5, <1>6 DEF Remembered

\* ... then the choice, and then the cancel is answered.
LEMMA AnswerRemembers ==
    ASSUME Passing, Remembered, NEW s \in Logins, NEW r \in Callers,
           Microsoft!removeMicrosoftProfileSelectionsForSession(r, s) \/ Microsoft!ClearSelection(r, s)
    PROVE  Remembered'
<1>1. /\ selection[s] \in Selections /\ selection \in [Logins -> Selections] /\ request[r].login = s
      /\ request[r].at \in {"selections", "clear"}
      /\ UNCHANGED <<session, tombstones>>
    BY DEF Microsoft!removeMicrosoftProfileSelectionsForSession, Microsoft!ClearSelection, Microsoft!At,
       Passing
<1>2. /\ session[s].started /\ ~session[s].listed /\ Marked(s)
      /\ request[r].at = "clear" => ~selection[s].listed
    BY <1>1 DEF Remembered, Cancels, Cancelling
<1>3. /\ request'[r].at = "idle" \/ (request'[r].at = "clear" /\ request'[r].login = s)
      /\ \A q \in Callers : q # r => UNCHANGED request[q]
    BY <1>1, GoRow, EndRow DEF Microsoft!removeMicrosoftProfileSelectionsForSession,
       Microsoft!ClearSelection
<1>4. /\ ~selection'[s].listed
      /\ request'[r].at = "clear" \/ selection'[s] = selection[s] \/ ~selection'[s].has
      /\ request'[r].at # "clear" /\ selection'[s] = selection[s] => request[r].at # "clear" \/ ~selection[s].has
      /\ \A t \in Logins : t # s => selection'[t] = selection[t]
  <2> DEFINE y == [selection[s] EXCEPT !.has = FALSE]
  <2>1. /\ ~y.has /\ y.listed = selection[s].listed
        /\ ~Microsoft!Detached(selection[s]).listed
      BY <1>1 DEF Selections, Microsoft!Detached
  <2>2. CASE Microsoft!ClearSelection(r, s)
    <3>1. selection' = [selection EXCEPT ![s] = y]  BY <2>2 DEF Microsoft!ClearSelection
    <3> HIDE DEF y
    <3>2. request[r].at = "clear"  BY <2>2 DEF Microsoft!ClearSelection, Microsoft!At
    <3>3. QED  BY <1>1, <1>2, <2>1, <3>1, <3>2
  <2>3. CASE Microsoft!removeMicrosoftProfileSelectionsForSession(r, s)
    <3> HIDE DEF y
    <3>1. request[r].at = "selections"
        BY <2>3 DEF Microsoft!removeMicrosoftProfileSelectionsForSession, Microsoft!At
    <3>2. CASE selection' = [selection EXCEPT ![s] = Microsoft!Detached(selection[s])] /\ Microsoft!Go(r, "clear")
        BY <1>1, <2>1, <3>1, <3>2, GoRow
    <3>3. CASE UNCHANGED selection /\ ~Microsoft!PendingFor(s)  BY <1>1, <3>1, <3>3 DEF Microsoft!PendingFor
    <3>4. QED  BY <2>3, <3>2, <3>3 DEF Microsoft!removeMicrosoftProfileSelectionsForSession
  <2>4. QED  BY <2>2, <2>3
<1>5. \A t \in Logins : ~selection[t].listed => ~selection'[t].listed  BY <1>4
<1>6. told' = told \/ told' = told \cup {s}
    BY DEF Microsoft!removeMicrosoftProfileSelectionsForSession, Microsoft!ClearSelection
<1>7. ASSUME NEW q \in Callers PROVE Cancels(q)'
  <2>1. Cancels(q)  BY DEF Remembered
  <2>2. CASE q = r  BY <1>1, <1>2, <1>3, <1>4, <2>2 DEF Cancels, Cancelling, Marked
  <2>3. CASE q # r
    <3>1. request'[q] = request[q]  BY <1>3, <2>3
    <3>2. request[q].at = "clear" => ~selection'[request[q].login].listed
        BY <1>5, <2>1 DEF Cancels, Cancelling
    <3>3. QED  BY <1>1, <2>1, <3>1, <3>2 DEF Cancels, Cancelling, Marked
  <2>4. QED  BY <2>2, <2>3
<1>8. ASSUME NEW t \in Logins PROVE Over(t)'
  <2> SUFFICES ASSUME t \in told'
               PROVE  /\ session[t].started /\ ~session[t].listed /\ ~selection'[t].listed
                      /\ \A q \in Callers : request'[q].login = t /\ request'[q].at \notin {"idle", "mark"}
                                             => Marked(t)
      BY <1>1 DEF Over, Works, Marked
  <2>1. CASE t = s  BY <1>2, <1>4, <2>1
  <2>2. CASE t # s
    <3>1. Over(t) /\ t \in told  BY <1>6, <2>2 DEF Remembered
    <3>2. \A q \in Callers : request'[q].login = t /\ request'[q].at \notin {"idle", "mark"} => Works(q, t)
        BY <1>3, <2>2 DEF Works
    <3>3. QED  BY <1>5, <3>1, <3>2 DEF Over
  <2>3. QED  BY <2>1, <2>2
<1>9. ASSUME NEW t \in Logins PROVE Loose(t)'
  <2> SUFFICES ASSUME ~selection'[t].listed, selection'[t].has, ~selection'[t].expired
               PROVE  \E q \in Callers : request'[q].login = t /\ request'[q].at = "clear"
      BY DEF Loose
  <2>1. CASE request'[r].at = "clear" /\ t = s  BY <1>3, <2>1
  <2>2. CASE t # s
    <3>1. selection'[t] = selection[t]  BY <1>4, <2>2
    <3>2. PICK q \in Callers : request[q].login = t /\ request[q].at = "clear"
        BY <3>1 DEF Remembered, Loose
    <3>3. QED  BY <1>1, <1>3, <2>2, <3>2
  <2>3. CASE request'[r].at # "clear" /\ t = s
    <3>1. selection'[s] = selection[s] /\ request[r].at # "clear"  BY <1>4, <2>3
    <3>2. PICK q \in Callers : request[q].login = t /\ request[q].at = "clear"
        BY <2>3, <3>1 DEF Remembered, Loose
    <3>3. QED  BY <1>3, <3>1, <3>2
  <2>4. QED  BY <2>1, <2>2, <2>3
<1>10. QED  BY <1>1, <1>6, <1>7, <1>8, <1>9 DEF Remembered

LEMMA RememberedHolds == Microsoft!Spec /\ []Room => []Remembered
<1>1. Microsoft!Init => Remembered
    BY DEF Microsoft!Init, Remembered, Cancels, Over, Loose, Microsoft!Idle, Microsoft!NoSelection,
       Cancelling, Works, Microsoft!Unstarted
<1>2. Passing /\ Room /\ Remembered /\ [Microsoft!Next]_(Microsoft!vars) => Remembered'
  <2> SUFFICES ASSUME Passing, Room, Remembered, [Microsoft!Next]_(Microsoft!vars) PROVE Remembered'  OBVIOUS
  <2>1. CASE UNCHANGED Microsoft!vars
    <3>1. UNCHANGED <<session, selection, tombstones, told, request>>  BY <2>1 DEF Microsoft!vars
    <3>2. QED  BY <3>1, MarksStay, SessionsClose, ChoicesCalm, RememberedKept
  <2>2. CASE Microsoft!Next
      BY <2>2, SessionsRemember, CallbacksRemember, DiscoveryRemembers, ChoiceTimersRemember,
         ChoicesRemember, CommitRemembers, MarkRemembers, DetachRemembers,
         AnswerRemembers DEF Microsoft!Next
  <2>3. QED  BY <2>1, <2>2
<1>3. QED  BY <1>1, <1>2, PassingHolds, PTL DEF Microsoft!Spec

\* Only two steps add an account.
LEMMA OnlyTheseAdd ==
    [Microsoft!Next]_(Microsoft!vars) => UNCHANGED added \/ \E t \in Logins, r \in Callers : Microsoft!CommitLogin(r, t) \/ Microsoft!AddSelected(r, t)
<1>1. \A s \in Logins :
         Microsoft!StartMicrosoftSSOLogin(s) \/ Microsoft!SessionExpires(s) \/ Microsoft!SessionTimer(s) \/ Microsoft!SelectionExpires(s)
         \/ Microsoft!SelectionTimer(s) \/ Microsoft!ClearDetachedSelection(s) \/ Microsoft!TombstoneExpires(s) => UNCHANGED added
    BY DEF Microsoft!StartMicrosoftSSOLogin, Microsoft!SessionExpires, Microsoft!SessionTimer,
       Microsoft!SelectionExpires, Microsoft!SelectionTimer,
       Microsoft!ClearDetachedSelection, Microsoft!TombstoneExpires
<1>2. \A s \in Logins, r \in Callers :
         \/ Microsoft!Continue(r, s) \/ Microsoft!LockSession(r, s) \/ Microsoft!ReadPortalCallback(r, s)
         \/ Microsoft!ReadProviderCallback(r, s)
         \/ Microsoft!ContinuePortalLeg(r, s) \/ Microsoft!ContinueProviderLeg(r, s)
         \/ Microsoft!LeaveSession(r, s)
         \/ Microsoft!UnlockSession(r, s) \/ Microsoft!AfterContinue(r, s)
         => UNCHANGED added
    BY DEF Microsoft!Continue, Microsoft!LockSession, Microsoft!ReadPortalCallback,
       Microsoft!ReadProviderCallback, Microsoft!ReadCallback, Microsoft!ContinuePortalLeg,
       Microsoft!ContinueProviderLeg, Microsoft!LeaveSession, Microsoft!UnlockSession,
       Microsoft!AfterContinue
<1>3. \A s \in Logins, r \in Callers :
         \/ Microsoft!beginMicrosoftProfileDiscovery(r, s) \/ Microsoft!DiscoverKiroProfiles(r, s)
         \/ Microsoft!endMicrosoftProfileDiscovery(r, s) \/ Microsoft!SelectProfile(r, s)
         \/ Microsoft!LockSelection(r, s)
         => UNCHANGED added
    BY DEF Microsoft!beginMicrosoftProfileDiscovery, Microsoft!DiscoverKiroProfiles,
       Microsoft!endMicrosoftProfileDiscovery,
       Microsoft!SelectProfile, Microsoft!LockSelection
<1>4. \A s \in Logins, r \in Callers :
         \/ Microsoft!Cancel(r, s) \/ Microsoft!MarkCanceled(r, s) \/ Microsoft!DetachSession(r, s)
         \/ Microsoft!FlagSession(r, s)
         \/ Microsoft!removeMicrosoftProfileSelectionsForSession(r, s) \/ Microsoft!ClearSelection(r, s)
         => UNCHANGED added
    BY DEF Microsoft!Cancel, Microsoft!MarkCanceled, Microsoft!DetachSession, Microsoft!FlagSession,
       Microsoft!removeMicrosoftProfileSelectionsForSession,
       Microsoft!ClearSelection
<1>5. QED  BY <1>1, <1>2, <1>3, <1>4 DEF Microsoft!Next, Microsoft!vars

\* Once a cancel has been answered, no request still running for the login adds its account,
\* however late: each looks at the list of canceled logins under the lock it adds under
\* (apiMicrosoftSSOCancel, microsoftSessionCanceledLocked).
THEOREM CanceledStaysCanceled == Microsoft!Spec /\ []Room => Microsoft!CanceledStaysOut
<1>1. ASSUME Passing, Remembered, [Microsoft!Next]_(Microsoft!vars) PROVE [Microsoft!CanceledAddsNothing]_added
  <2> SUFFICES ASSUME Microsoft!Next, NEW s \in Logins, s \in told, added' # added
               PROVE  added'[s] = added[s]
      BY <1>1 DEF Microsoft!CanceledAddsNothing, Microsoft!vars, Remembered
  <2>1. PICK t \in Logins, r \in Callers : Microsoft!CommitLogin(r, t) \/ Microsoft!AddSelected(r, t)
      BY <1>1, OnlyTheseAdd
  <2>2. Works(r, t)  BY <2>1 DEF Microsoft!CommitLogin, Microsoft!AddSelected, Microsoft!At, Works
  <2>3. added' = [added EXCEPT ![t] = added[t] + 1] /\ ~Marked(t)
      BY <2>1 DEF Microsoft!CommitLogin, Microsoft!AddSelected, Microsoft!AddAccount, Microsoft!MayCommit,
         Microsoft!microsoftSessionCanceled, Microsoft!ToSet, ToSet, Marked
  <2>4. t # s  BY <1>1, <2>2, <2>3 DEF Remembered, Over
  <2>5. QED  BY <1>1, <2>3, <2>4 DEF Passing
<1>2. QED  BY <1>1, PassingHolds, RememberedHolds, PTL DEF Microsoft!Spec, Microsoft!CanceledStaysOut

\* When nothing runs for a canceled login any more, no credential of it waits for the choice of a
\* profile (removeMicrosoftProfileSelectionsForSession, discardDetachedMicrosoftProfileSelection).
THEOREM CanceledCredentialsGo == Microsoft!Spec /\ []Room => []Microsoft!CanceledHoldsNoCredential
<1>1. Remembered => Microsoft!CanceledHoldsNoCredential
  <2> SUFFICES ASSUME Remembered, NEW s \in Logins, s \in told, ~Microsoft!Busy(s), selection[s].has
               PROVE  FALSE
      BY DEF Microsoft!CanceledHoldsNoCredential, Remembered
  <2>1. ~selection[s].listed  BY DEF Remembered, Over
  <2>2. \E r \in Callers : request[r].login = s /\ request[r].at = "clear"
      BY <2>1 DEF Remembered, Loose, Microsoft!Busy
  <2>3. QED  BY <2>2 DEF Microsoft!Busy
<1>2. QED  BY <1>1, RememberedHolds, PTL

(***************************************************************************)
(* The hosted login                                                        *)
(***************************************************************************)
KiroSessions == [started : BOOLEAN, listed : BOOLEAN, server : {"none", "up", "closed"},
                 port : BOOLEAN, expired : BOOLEAN, url : Nat, channel : {"empty", "error", "tokens"}]
Tabs == [at : {"idle", "resolve", "discover", "cache", "redirected", "exchange", "done"},
         login : Logins \cup {Nobody}, pair : Nat]
KiroRequests == [at : {"idle", "shutall", "bind", "list", "serve", "receive"},
                 login : Logins \cup {Nobody}, shut : SUBSET Logins]

\* A tab that reached a server is at one of its login, ...
Placed(t) == t.at # "idle" => t.login \in Logins
\* ... one about to store a pair has made it, ...
Made(t)   == t.at = "cache" => t.pair # Hosted!NoPair
\* ... and one that was redirected found the pair stored or stored it.
KeepsPair(t) == t.at \in {"redirected", "exchange"} =>
    t.pair # Hosted!NoPair /\ t.pair = hosted[t.login].url

Sharing ==
    /\ hosted \in [Logins -> KiroSessions] /\ browser \in [Browsers -> Tabs]
    /\ console \in [Consoles -> KiroRequests] /\ pairs \in Nat
    /\ \A c \in Consoles : console[c].at # "idle" => console[c].login \in Logins
    /\ \A b \in Browsers : Placed(browser[b]) /\ Made(browser[b]) /\ KeepsPair(browser[b])

----------------------------------------------------------------------------
\* What the helpers do to a session: none of them touches the cached URL.
LEMMA ShutTypes ==
    ASSUME NEW x \in KiroSessions
    PROVE  Hosted!Shut(x) \in KiroSessions /\ Hosted!Shut(x).url = x.url
  BY DEF Hosted!Shut, KiroSessions

LEMMA DroppedTypes ==
    ASSUME NEW x \in KiroSessions
    PROVE  Hosted!Dropped(x) \in KiroSessions /\ Hosted!Dropped(x).url = x.url
<1>1. Hosted!Shut(x) \in KiroSessions /\ Hosted!Shut(x).url = x.url  BY ShutTypes
<1>2. QED  BY <1>1 DEF Hosted!Dropped, KiroSessions

LEMMA PushedTypes ==
    ASSUME NEW x \in KiroSessions, NEW what \in {"error", "tokens"}
    PROVE  Hosted!Pushed(x, what) \in KiroSessions /\ Hosted!Pushed(x, what).url = x.url
  BY DEF Hosted!Pushed, KiroSessions

LEMMA ReceivedTypes ==
    ASSUME NEW x \in KiroSessions
    PROVE  Hosted!Received(x) \in KiroSessions /\ Hosted!Received(x).url = x.url
<1>1. Hosted!Dropped(x) \in KiroSessions /\ Hosted!Dropped(x).url = x.url  BY DroppedTypes
<1>2. QED  BY <1>1 DEF Hosted!Received, KiroSessions

----------------------------------------------------------------------------
\* A step that leaves every tab and every cached URL alone keeps the tabs' part.
LEMMA UrlsKept ==
    ASSUME Sharing, UNCHANGED browser,
           \A s \in Logins : hosted'[s].url = hosted[s].url
    PROVE  \A b \in Browsers : Placed(browser'[b]) /\ Made(browser'[b]) /\ KeepsPair(browser[b])'
<1> SUFFICES ASSUME NEW b \in Browsers
             PROVE  Placed(browser'[b]) /\ Made(browser'[b]) /\ KeepsPair(browser[b])'
    OBVIOUS
<1>1. Placed(browser[b]) /\ Made(browser[b]) /\ KeepsPair(browser[b])  BY DEF Sharing
<1>2. browser[b] \in Tabs  BY DEF Sharing
<1>3. QED  BY <1>1, <1>2 DEF Placed, Made, KeepsPair, Tabs

\* A step of one tab, which leaves the cached URLs alone.
LEMMA OneTabMoves ==
    ASSUME Sharing, NEW b \in Browsers, NEW t \in Tabs,
           browser' = [browser EXCEPT ![b] = t],
           \A s \in Logins : hosted'[s].url = hosted[s].url,
           Placed(t), Made(t), KeepsPair(t)
    PROVE  /\ browser' \in [Browsers -> Tabs]
           /\ \A d \in Browsers : Placed(browser'[d]) /\ Made(browser'[d]) /\ KeepsPair(browser[d])'
<1>1. browser \in [Browsers -> Tabs]  BY DEF Sharing
<1>2. ASSUME NEW d \in Browsers
      PROVE  Placed(browser'[d]) /\ Made(browser'[d]) /\ KeepsPair(browser[d])'
  <2>1. CASE d = b
    <3>1. browser'[d] = t  BY <1>1, <2>1
    <3>2. QED  BY <3>1 DEF Placed, Made, KeepsPair, Tabs
  <2>2. CASE d # b
    <3>1. browser'[d] = browser[d]  BY <1>1, <2>2
    <3>2. Placed(browser[d]) /\ Made(browser[d]) /\ KeepsPair(browser[d])  BY DEF Sharing
    <3>3. browser[d] \in Tabs  BY <1>1
    <3>4. QED  BY <3>1, <3>2, <3>3 DEF Placed, Made, KeepsPair, Tabs
  <2>3. QED  BY <2>1, <2>2
<1>3. QED  BY <1>1, <1>2

\* The second look under the lock: what is stored first is what every tab gets.
LEMMA FirstPairStays ==
    ASSUME Sharing, NEW b \in Browsers, Hosted!CacheAuthorizeURL(b)
    PROVE  Sharing'
<1> DEFINE s   == browser[b].login
           url == Hosted!StoreOnce(hosted[s].url, browser[b].pair)
<1>1. browser[b] \in Tabs /\ s \in Logins /\ browser[b].pair # Hosted!NoPair
    BY DEF Sharing, Hosted!CacheAuthorizeURL, Placed, Made
<1>2. hosted[s] \in KiroSessions  BY <1>1 DEF Sharing
<1>3. url \in Nat /\ url # Hosted!NoPair  BY <1>1, <1>2 DEF Hosted!StoreOnce, KiroSessions, Tabs
<1>4. hosted' = [hosted EXCEPT ![s] = [hosted[s] EXCEPT !.url = url]]
    BY DEF Hosted!CacheAuthorizeURL
<1>5. [hosted[s] EXCEPT !.url = url] \in KiroSessions /\ [hosted[s] EXCEPT !.url = url].url = url
    BY <1>2, <1>3 DEF KiroSessions
<1>6. hosted' \in [Logins -> KiroSessions] /\ hosted'[s].url = url
      /\ \A r \in Logins \ {s} : hosted'[r] = hosted[r]
  <2> HIDE DEF url, s
  <2> QED  BY <1>1, <1>4, <1>5 DEF Sharing
<1>7. browser' = [browser EXCEPT ![b] = [browser[b] EXCEPT !.at = "redirected", !.pair = url]]
    BY <1>1 DEF Hosted!CacheAuthorizeURL, Hosted!StoreOnce, Sharing, Tabs
<1> DEFINE t == [browser[b] EXCEPT !.at = "redirected", !.pair = url]
<1>8. t \in Tabs /\ t.at = "redirected" /\ t.pair = url /\ t.login = s
  <2> HIDE DEF url
  <2> QED  BY <1>1, <1>3 DEF Tabs
<1>9. browser' \in [Browsers -> Tabs] /\ browser'[b] = t
      /\ \A d \in Browsers \ {b} : browser'[d] = browser[d]
  <2> HIDE DEF t
  <2> QED  BY <1>7, <1>8 DEF Sharing, t
<1>10. ASSUME NEW d \in Browsers
       PROVE  Placed(browser'[d]) /\ Made(browser'[d]) /\ KeepsPair(browser[d])'
  <2>1. CASE d = b
    <3> HIDE DEF url, s, t
    <3> QED  BY <2>1, <1>1, <1>3, <1>6, <1>8, <1>9 DEF Placed, Made, KeepsPair
  <2>2. CASE d # b
    <3>1. browser'[d] = browser[d]  BY <1>9, <2>2
    <3>2. Placed(browser[d]) /\ Made(browser[d]) /\ KeepsPair(browser[d])  BY DEF Sharing
    <3>3. browser[d] \in Tabs  BY DEF Sharing
    <3>4. CASE browser[d].at \in {"redirected", "exchange"}
      <4>1. browser[d].login \in Logins /\ hosted[browser[d].login].url # Hosted!NoPair
          BY <3>2, <3>4 DEF Placed, KeepsPair
      <4>2. hosted'[browser[d].login].url = hosted[browser[d].login].url
          BY <4>1, <1>6 DEF Hosted!StoreOnce
      <4>3. QED  BY <3>1, <3>2, <4>2 DEF Placed, Made, KeepsPair
    <3>5. CASE browser[d].at \notin {"redirected", "exchange"}
        BY <3>1, <3>2, <3>5 DEF Placed, Made, KeepsPair
    <3>6. QED  BY <3>4, <3>5
  <2>3. QED  BY <2>1, <2>2
<1>11. UNCHANGED <<console, pairs>>  BY DEF Hosted!CacheAuthorizeURL
<1>12. QED
  <2> HIDE DEF t, s, url
  <2> QED  BY <1>6, <1>9, <1>10, <1>11 DEF Sharing

----------------------------------------------------------------------------
\* The other steps of a tab.
LEMMA TabSteps ==
    ASSUME Sharing, NEW b \in Browsers,
           \/ Hosted!ResolveCached(b) \/ Hosted!DiscoverEndpoints(b) \/ Hosted!OAuthCallback(b)
           \/ Hosted!ExchangeCode(b) \/ Hosted!StopServer(b)
           \/ \E s \in Logins : Hosted!DescriptorArrives(b, s)
    PROVE  Sharing'
<1>1. browser[b] \in Tabs /\ browser \in [Browsers -> Tabs]  BY DEF Sharing
<1>2. Placed(browser[b]) /\ Made(browser[b]) /\ KeepsPair(browser[b])  BY DEF Sharing
<1>3. UNCHANGED console /\ pairs' \in Nat
  <2>1. pairs \in Nat  BY DEF Sharing
  <2>2. CASE Hosted!ResolveCached(b)  BY <2>1, <2>2 DEF Hosted!ResolveCached
  <2>3. CASE Hosted!DiscoverEndpoints(b)  BY <2>1, <2>3 DEF Hosted!DiscoverEndpoints
  <2>4. CASE Hosted!OAuthCallback(b) \/ Hosted!ExchangeCode(b) \/ Hosted!StopServer(b)
      BY <2>1, <2>4 DEF Hosted!OAuthCallback, Hosted!ExchangeCode, Hosted!StopServer
  <2>5. CASE \E s \in Logins : Hosted!DescriptorArrives(b, s)  BY <2>1, <2>5 DEF Hosted!DescriptorArrives
  <2>6. QED  BY <2>2, <2>3, <2>4, <2>5
<1>4. hosted' \in [Logins -> KiroSessions] /\ \A s \in Logins : hosted'[s].url = hosted[s].url
  <2>1. CASE UNCHANGED hosted  BY <2>1 DEF Sharing
  <2>2. ASSUME NEW s \in Logins, NEW what \in {"error", "tokens"},
               hosted' = [hosted EXCEPT ![s] = Hosted!Pushed(hosted[s], what)]
        PROVE  hosted' \in [Logins -> KiroSessions] /\ \A r \in Logins : hosted'[r].url = hosted[r].url
    <3>1. hosted \in [Logins -> KiroSessions]  BY DEF Sharing
    <3>2. Hosted!Pushed(hosted[s], what) \in KiroSessions /\ Hosted!Pushed(hosted[s], what).url = hosted[s].url
        BY <3>1, PushedTypes
    <3>3. QED  BY <2>2, <3>1, <3>2
  <2>3. ASSUME NEW s \in Logins, hosted' = [hosted EXCEPT ![s] = Hosted!Shut(hosted[s])]
        PROVE  hosted' \in [Logins -> KiroSessions] /\ \A r \in Logins : hosted'[r].url = hosted[r].url
    <3>1. hosted \in [Logins -> KiroSessions]  BY DEF Sharing
    <3>2. Hosted!Shut(hosted[s]) \in KiroSessions /\ Hosted!Shut(hosted[s]).url = hosted[s].url
        BY <3>1, ShutTypes
    <3>3. QED  BY <2>3, <3>1, <3>2
  <2>4. browser[b].at # "idle" => browser[b].login \in Logins  BY <1>2 DEF Placed
  <2>5. \/ UNCHANGED hosted
        \/ \E s \in Logins, what \in {"error", "tokens"} :
              hosted' = [hosted EXCEPT ![s] = Hosted!Pushed(hosted[s], what)]
        \/ \E s \in Logins : hosted' = [hosted EXCEPT ![s] = Hosted!Shut(hosted[s])]
    <3>1. CASE Hosted!ResolveCached(b)  BY <3>1 DEF Hosted!ResolveCached
    <3>2. CASE Hosted!DiscoverEndpoints(b)  BY <3>2, <2>4 DEF Hosted!DiscoverEndpoints
    <3>3. CASE Hosted!OAuthCallback(b)  BY <3>3, <2>4 DEF Hosted!OAuthCallback
    <3>4. CASE Hosted!ExchangeCode(b)  BY <3>4, <2>4 DEF Hosted!ExchangeCode
    <3>5. CASE Hosted!StopServer(b)  BY <3>5, <2>4 DEF Hosted!StopServer
    <3>6. CASE \E s \in Logins : Hosted!DescriptorArrives(b, s)  BY <3>6 DEF Hosted!DescriptorArrives
    <3>7. QED  BY <3>1, <3>2, <3>3, <3>4, <3>5, <3>6
  <2>6. QED  BY <2>1, <2>2, <2>3, <2>5
<1>5. UNCHANGED browser \/ \E t \in Tabs : browser' = [browser EXCEPT ![b] = t]
                                           /\ Placed(t) /\ Made(t) /\ KeepsPair(t)
  <2>1. Hosted!Blank \in Tabs /\ Placed(Hosted!Blank) /\ Made(Hosted!Blank) /\ KeepsPair(Hosted!Blank)
      BY DEF Hosted!Blank, Tabs, Placed, Made, KeepsPair, Hosted!NoPair
  <2>2. CASE Hosted!ResolveCached(b)
    <3>1. hosted[browser[b].login] \in KiroSessions
        BY <1>2, <2>2 DEF Hosted!ResolveCached, Placed, Sharing
    <3> DEFINE url == hosted[browser[b].login].url
               t   == [browser[b] EXCEPT !.at = IF url # Hosted!NoPair THEN "redirected" ELSE "discover",
                                         !.pair = url]
    <3>2. url \in Nat  BY <3>1 DEF KiroSessions
    <3>3. t \in Tabs /\ t.login = browser[b].login /\ t.pair = url
          /\ t.at = IF url # Hosted!NoPair THEN "redirected" ELSE "discover"
      <4> HIDE DEF url
      <4> QED  BY <1>1, <3>2 DEF Tabs
    <3>4. browser' = [browser EXCEPT ![b] = t]  BY <2>2 DEF Hosted!ResolveCached
    <3>5. browser[b].login \in Logins  BY <1>2, <2>2 DEF Hosted!ResolveCached, Placed
    <3>6. Placed(t) /\ Made(t) /\ KeepsPair(t)
      <4> HIDE DEF t
      <4> QED  BY <3>3, <3>5 DEF Placed, Made, KeepsPair
    <3>7. QED  BY <3>3, <3>4, <3>6
  <2>3. CASE Hosted!DiscoverEndpoints(b)
    <3> DEFINE made == pairs + 1
               t    == [browser[b] EXCEPT !.at = "cache", !.pair = made]
    <3>1. made \in Nat /\ made # Hosted!NoPair  BY DEF Sharing, Hosted!NoPair
    <3>2. t \in Tabs /\ t.login = browser[b].login /\ t.at = "cache" /\ t.pair = made
      <4> HIDE DEF made
      <4> QED  BY <1>1, <3>1 DEF Tabs
    <3>3. Placed(t) /\ Made(t) /\ KeepsPair(t)
      <4> HIDE DEF t, made
      <4> QED  BY <1>2, <2>3, <3>1, <3>2 DEF Placed, Made, KeepsPair, Hosted!DiscoverEndpoints
    <3>4. browser' = [browser EXCEPT ![b] = t] \/ browser' = [browser EXCEPT ![b] = Hosted!Blank]
        BY <2>3, <1>1 DEF Hosted!DiscoverEndpoints
    <3>5. QED  BY <2>1, <3>2, <3>3, <3>4
  <2>4. CASE Hosted!OAuthCallback(b) \/ Hosted!ExchangeCode(b)
    <3>1. ASSUME NEW at \in {"exchange", "done"},
                 at = "exchange" => browser[b].at = "redirected", browser[b].at # "idle"
          PROVE  LET t == [browser[b] EXCEPT !.at = at]
                 IN t \in Tabs /\ Placed(t) /\ Made(t) /\ KeepsPair(t)
      <4> DEFINE t == [browser[b] EXCEPT !.at = at]
      <4>1. t \in Tabs /\ t.login = browser[b].login /\ t.at = at /\ t.pair = browser[b].pair
          BY <1>1 DEF Tabs
      <4>2. Placed(t) /\ Made(t) /\ KeepsPair(t)
        <5> HIDE DEF t
        <5> QED  BY <1>2, <3>1, <4>1 DEF Placed, Made, KeepsPair
      <4>3. QED  BY <4>1, <4>2
    <3>2. \/ browser' = [browser EXCEPT ![b] = Hosted!Blank]
          \/ browser' = [browser EXCEPT ![b] = [browser[b] EXCEPT !.at = "exchange"]]
             /\ browser[b].at = "redirected"
          \/ browser' = [browser EXCEPT ![b] = [browser[b] EXCEPT !.at = "done"]]
             /\ browser[b].at = "exchange"
        BY <2>4, <1>1 DEF Hosted!OAuthCallback, Hosted!ExchangeCode
    <3>3. QED  BY <2>1, <3>1, <3>2
  <2>5. CASE Hosted!StopServer(b)  BY <2>1, <2>5 DEF Hosted!StopServer
  <2>6. CASE \E s \in Logins : Hosted!DescriptorArrives(b, s)
    <3>1. PICK s \in Logins : Hosted!DescriptorArrives(b, s)  BY <2>6
    <3> DEFINE t == [Hosted!Blank EXCEPT !.login = s, !.at = "resolve"]
    <3>2. t \in Tabs /\ t.at = "resolve" /\ t.login = s  BY DEF Hosted!Blank, Tabs, Hosted!NoPair
    <3>3. Placed(t) /\ Made(t) /\ KeepsPair(t)
      <4> HIDE DEF t
      <4> QED  BY <3>2 DEF Placed, Made, KeepsPair
    <3>4. UNCHANGED browser \/ browser' = [browser EXCEPT ![b] = t]  BY <3>1 DEF Hosted!DescriptorArrives
    <3>5. QED  BY <3>2, <3>3, <3>4
  <2>7. QED  BY <2>2, <2>3, <2>4, <2>5, <2>6
<1>6. /\ browser' \in [Browsers -> Tabs]
      /\ \A d \in Browsers : Placed(browser'[d]) /\ Made(browser'[d]) /\ KeepsPair(browser[d])'
    BY <1>1, <1>4, <1>5, UrlsKept, OneTabMoves
<1>7. QED  BY <1>3, <1>4, <1>6 DEF Sharing

----------------------------------------------------------------------------
\* The steps of the console and the passing of time.
LEMMA ConsoleSteps ==
    ASSUME Sharing,
           \/ \E c \in Consoles :
                 \/ Hosted!ShutAll(c) \/ Hosted!bindKiroLoopback(c) \/ Hosted!ListSession(c)
                 \/ Hosted!serveLoopback(c)
                 \/ Hosted!PollKiroSsoLogin(c)
                 \/ \E s \in Logins : \/ Hosted!CancelAllPending(c, s) \/ Hosted!PollLookup(c, s)
                                     \/ Hosted!CancelKiroSsoLogin(c, s)
           \/ \E s \in Logins : Hosted!SessionExpires(s)
    PROVE  Sharing'
<1>1. hosted \in [Logins -> KiroSessions] /\ console \in [Consoles -> KiroRequests]
      /\ \A c \in Consoles : console[c].at # "idle" => console[c].login \in Logins
    BY DEF Sharing
<1>2. UNCHANGED <<browser, pairs>>
    BY DEF Hosted!ShutAll, Hosted!bindKiroLoopback, Hosted!ListSession, Hosted!serveLoopback,
           Hosted!PollKiroSsoLogin, Hosted!CancelAllPending, Hosted!PollLookup, Hosted!CancelKiroSsoLogin,
           Hosted!SessionExpires
<1>3. console' \in [Consoles -> KiroRequests]
      /\ \A c \in Consoles : console'[c].at # "idle" => console'[c].login \in Logins
  <2>1. ASSUME NEW c \in Consoles, NEW r \in KiroRequests, r.at # "idle" => r.login \in Logins,
               console' = [console EXCEPT ![c] = r]
        PROVE  console' \in [Consoles -> KiroRequests]
               /\ \A d \in Consoles : console'[d].at # "idle" => console'[d].login \in Logins
      BY <1>1, <2>1
  <2>2. Hosted!Idle \in KiroRequests /\ Hosted!Idle.at = "idle"  BY DEF Hosted!Idle, KiroRequests
  <2>3. CASE UNCHANGED console  BY <1>1, <2>3
  <2>4. CASE \E c \in Consoles : console' = [console EXCEPT ![c] = Hosted!Idle]  BY <2>1, <2>2, <2>4
  <2>5. ASSUME NEW c \in Consoles, NEW s \in Logins, Hosted!CancelAllPending(c, s)
        PROVE  \E r \in KiroRequests : r.login \in Logins /\ console' = [console EXCEPT ![c] = r]
      BY <2>5 DEF Hosted!CancelAllPending, KiroRequests, Hosted!Listed
  <2>6. ASSUME NEW c \in Consoles, NEW s \in Logins, Hosted!PollLookup(c, s), ~UNCHANGED console
        PROVE  \E r \in KiroRequests : r.login \in Logins /\ console' = [console EXCEPT ![c] = r]
    <3> DEFINE r == [Hosted!Idle EXCEPT !.login = s, !.at = "receive"]
    <3>1. r \in KiroRequests /\ r.login = s  BY DEF KiroRequests, Hosted!Idle
    <3>2. QED  BY <2>6, <3>1 DEF Hosted!PollLookup
  <2>7. ASSUME NEW c \in Consoles, Hosted!ShutAll(c) \/ Hosted!bindKiroLoopback(c) \/ Hosted!ListSession(c),
               console' # [console EXCEPT ![c] = Hosted!Idle]
        PROVE  \E r \in KiroRequests : r.login \in Logins /\ console' = [console EXCEPT ![c] = r]
    <3>1. console[c] \in KiroRequests /\ console[c].login \in Logins
        BY <1>1, <2>7 DEF Hosted!ShutAll, Hosted!bindKiroLoopback, Hosted!ListSession
    <3>2. \/ console' = [console EXCEPT ![c] = [console[c] EXCEPT !.at = "bind", !.shut = {}]]
          \/ \E at \in {"list", "serve"} : console' = [console EXCEPT ![c] = [console[c] EXCEPT !.at = at]]
        BY <2>7, <1>1 DEF Hosted!ShutAll, Hosted!bindKiroLoopback, Hosted!ListSession, KiroRequests
    <3>3. QED  BY <3>1, <3>2 DEF KiroRequests
  <2>8. QED
      BY <2>1, <2>3, <2>4, <2>5, <2>6, <2>7
      DEF Hosted!serveLoopback, Hosted!PollKiroSsoLogin, Hosted!CancelKiroSsoLogin, Hosted!SessionExpires
<1>4. hosted' \in [Logins -> KiroSessions] /\ \A s \in Logins : hosted'[s].url = hosted[s].url
  <2>1. ASSUME \A s \in Logins : \E x \in KiroSessions : hosted'[s] = x /\ x.url = hosted[s].url,
               hosted' = [s \in Logins |-> hosted'[s]]
        PROVE  hosted' \in [Logins -> KiroSessions] /\ \A s \in Logins : hosted'[s].url = hosted[s].url
      BY <2>1
  <2>2. ASSUME NEW s \in Logins, NEW x \in KiroSessions, x.url = hosted[s].url,
               hosted' = [hosted EXCEPT ![s] = x]
        PROVE  hosted' \in [Logins -> KiroSessions] /\ \A r \in Logins : hosted'[r].url = hosted[r].url
      BY <1>1, <2>2
  <2>3. CASE UNCHANGED hosted  BY <1>1, <2>3
  <2>4. ASSUME NEW c \in Consoles, NEW s \in Logins, Hosted!CancelAllPending(c, s)
        PROVE  hosted' \in [Logins -> KiroSessions] /\ \A r \in Logins : hosted'[r].url = hosted[r].url
    <3>1. hosted' = [t \in Logins |-> [hosted[t] EXCEPT !.listed = FALSE, !.started = @ \/ t = s]]
        BY <2>4 DEF Hosted!CancelAllPending
    <3>2. ASSUME NEW t \in Logins
          PROVE  [hosted[t] EXCEPT !.listed = FALSE, !.started = @ \/ t = s] \in KiroSessions
                 /\ [hosted[t] EXCEPT !.listed = FALSE, !.started = @ \/ t = s].url = hosted[t].url
        BY <1>1 DEF KiroSessions
    <3>3. QED  BY <3>1, <3>2
  <2>5. ASSUME NEW c \in Consoles, Hosted!ShutAll(c)
        PROVE  hosted' \in [Logins -> KiroSessions] /\ \A r \in Logins : hosted'[r].url = hosted[r].url
      BY <1>1, <2>5, ShutTypes DEF Hosted!ShutAll
  <2>6. ASSUME NEW c \in Consoles, Hosted!serveLoopback(c)
        PROVE  hosted' \in [Logins -> KiroSessions] /\ \A r \in Logins : hosted'[r].url = hosted[r].url
    <3>1. ASSUME NEW t \in Logins
          PROVE  [hosted[t] EXCEPT !.server = "up"] \in KiroSessions
                 /\ [hosted[t] EXCEPT !.server = "up"].url = hosted[t].url
        BY <1>1 DEF KiroSessions
    <3>2. ASSUME NEW t \in Logins
          PROVE  hosted'[t] = [hosted[t] EXCEPT !.server = "up"]
                 \/ hosted'[t] = Hosted!Dropped(hosted[t]) \/ hosted'[t] = hosted[t]
        BY <2>6 DEF Hosted!serveLoopback
    <3>3. hosted' = [t \in Logins |-> hosted'[t]]  BY <2>6 DEF Hosted!serveLoopback
    <3>4. QED  BY <1>1, <2>1, <3>1, <3>2, <3>3, DroppedTypes
  <2>7. ASSUME NEW s \in Logins,
               \/ hosted' = [hosted EXCEPT ![s].port = TRUE]
               \/ hosted' = [hosted EXCEPT ![s].listed = TRUE]
               \/ hosted' = [hosted EXCEPT ![s].expired = TRUE]
               \/ hosted' = [hosted EXCEPT ![s] = Hosted!Dropped(hosted[s])]
               \/ hosted' = [hosted EXCEPT ![s] = Hosted!Received(hosted[s])]
        PROVE  hosted' \in [Logins -> KiroSessions] /\ \A r \in Logins : hosted'[r].url = hosted[r].url
    <3>1. hosted[s] \in KiroSessions  BY <1>1
    <3>2. CASE hosted' = [hosted EXCEPT ![s] = Hosted!Dropped(hosted[s])]
        BY <3>1, <3>2, <2>2, DroppedTypes
    <3>3. CASE hosted' = [hosted EXCEPT ![s] = Hosted!Received(hosted[s])]
        BY <3>1, <3>3, <2>2, ReceivedTypes
    <3>4. ASSUME NEW x \in {[hosted[s] EXCEPT !.port = TRUE], [hosted[s] EXCEPT !.listed = TRUE],
                            [hosted[s] EXCEPT !.expired = TRUE]}
          PROVE  x \in KiroSessions /\ x.url = hosted[s].url
        BY <3>1, <3>4 DEF KiroSessions
    <3>5. QED  BY <2>2, <2>7, <3>2, <3>3, <3>4
  <2>8. \A c \in Consoles, s \in Logins : Hosted!PollLookup(c, s) \/ Hosted!CancelKiroSsoLogin(c, s) =>
           UNCHANGED hosted \/ hosted' = [hosted EXCEPT ![s] = Hosted!Dropped(hosted[s])]
      BY DEF Hosted!PollLookup, Hosted!CancelKiroSsoLogin
  <2>9. \A c \in Consoles : Hosted!bindKiroLoopback(c) \/ Hosted!ListSession(c) \/ Hosted!PollKiroSsoLogin(c) =>
           /\ console[c].login \in Logins
           /\ \/ UNCHANGED hosted
              \/ hosted' = [hosted EXCEPT ![console[c].login].port = TRUE]
              \/ hosted' = [hosted EXCEPT ![console[c].login].listed = TRUE]
              \/ hosted' = [hosted EXCEPT ![console[c].login] = Hosted!Received(hosted[console[c].login])]
    <3>1. \A s \in Logins : [hosted EXCEPT ![s] = hosted[s]] = hosted  BY <1>1
    <3>2. QED  BY <1>1, <3>1 DEF Hosted!bindKiroLoopback, Hosted!ListSession, Hosted!PollKiroSsoLogin
  <2>10. QED  BY <2>3, <2>4, <2>5, <2>6, <2>7, <2>8, <2>9 DEF Hosted!SessionExpires
<1>5. \A b \in Browsers : Placed(browser'[b]) /\ Made(browser'[b]) /\ KeepsPair(browser[b])'
    BY <1>2, <1>4, UrlsKept
<1>6. QED  BY <1>2, <1>3, <1>4, <1>5 DEF Sharing

----------------------------------------------------------------------------
LEMMA SharingHolds == Hosted!Spec => []Sharing
<1>1. Hosted!Init => Sharing
  <2> SUFFICES ASSUME Hosted!Init PROVE Sharing  OBVIOUS
  <2>1. /\ Hosted!Unstarted \in KiroSessions
        /\ Hosted!Idle \in KiroRequests /\ Hosted!Idle.at = "idle"
        /\ Hosted!Blank \in Tabs /\ Hosted!Blank.at = "idle"
      BY DEF Hosted!Unstarted, KiroSessions, Hosted!Idle, KiroRequests, Hosted!Blank, Tabs, Hosted!NoPair
  <2>2. QED  BY <2>1 DEF Hosted!Init, Sharing, Placed, Made, KeepsPair
<1>2. Sharing /\ [Hosted!Next]_(Hosted!vars) => Sharing'
  <2> SUFFICES ASSUME Sharing, [Hosted!Next]_(Hosted!vars) PROVE Sharing'  OBVIOUS
  <2>1. CASE UNCHANGED Hosted!vars  BY <2>1 DEF Hosted!vars, Sharing, Placed, Made, KeepsPair
  <2>2. CASE Hosted!Next  BY <2>2, ConsoleSteps, TabSteps, FirstPairStays DEF Hosted!Next
  <2>3. QED  BY <2>1, <2>2
<1>3. QED  BY <1>1, <1>2, PTL DEF Hosted!Spec

\* Every tab that was sent to the provider carries the pair its session exchanges
\* with, for any number of overlapping hits of any number of logins
\* (buildAuthorizeURL looks again under the lock before it stores).
THEOREM OnePairPerLogin == Hosted!Spec => []Hosted!TabsShareThePair
<1>1. Sharing => Hosted!TabsShareThePair  BY DEF Sharing, Hosted!TabsShareThePair, KeepsPair
<1>2. QED  BY <1>1, SharingHolds, PTL
----------------------------------------------------------------------------
\* The ports.  No start loses its session from the map before its server is up: between
\* the two a second start, or the cleanup of a third, would take the session out.
Undisturbed == \A c \in Consoles : console[c].at = "serve" => hosted[console[c].login].listed

Starting == {"shutall", "bind", "list", "serve"}

\* A start has its session to itself, which has no server yet; a poll found one, and
\* only sessions with one are left to shut down.
Begins(c) ==
    /\ console[c].at \in Starting =>
          hosted[console[c].login].started /\ hosted[console[c].login].server = "none"
    /\ console[c].at = "receive" => hosted[console[c].login].server # "none"
    /\ console[c].at # "shutall" => console[c].shut = {}
    /\ \A s \in console[c].shut : hosted[s].server # "none"

Alone(c, d) ==
    console[c].at \in Starting /\ console[d].at \in Starting /\ console[d].login = console[c].login => c = d

\* A session in the map without a server is one about to get it; a closed server holds no port.
Serves(s) ==
    /\ ~hosted[s].started => hosted[s].server = "none" /\ ~hosted[s].listed /\ ~hosted[s].port
    /\ hosted[s].server = "none" /\ hosted[s].listed =>
          \E c \in Consoles : console[c].at = "serve" /\ console[c].login = s
    /\ hosted[s].server = "closed" => ~hosted[s].port

Accounted ==
    /\ \A c \in Consoles : Begins(c)
    /\ \A c, d \in Consoles : Alone(c, d)
    /\ \A s \in Logins : Serves(s)
    /\ Hosted!PortsAccounted

\* What a step outside of a start does to a session: nothing that matters here, or its
\* server closes, with or without the session's place in the map.
Calm(x, y) ==
    /\ y.started = x.started
    /\ \/ y.listed = x.listed /\ y.server = x.server /\ y.port = x.port
       \/ x.server # "none" /\ y.server = "closed" /\ ~y.port /\ (y.listed => x.listed)

\* What it does to a console request: a poll begins or ends.
Polls(c) ==
    /\ console[c].at \notin Starting /\ console'[c].at \in {"idle", "receive"} /\ console'[c].shut = {}
    /\ console'[c].at = "receive" => hosted[console'[c].login].server # "none"

LEMMA CalmKeeps ==
    ASSUME Sharing, Sharing', Accounted,
           \A s \in Logins : Calm(hosted[s], hosted'[s]),
           \A c \in Consoles : console'[c] = console[c] \/ Polls(c)
    PROVE  Accounted'
<1>1. ASSUME NEW c \in Consoles PROVE Begins(c)'
  <2>1. Begins(c)  BY DEF Accounted
  <2>2. /\ console[c] \in KiroRequests /\ console'[c] \in KiroRequests
        /\ console[c].at # "idle" => console[c].login \in Logins
        /\ console'[c].at # "idle" => console'[c].login \in Logins
      BY DEF Sharing
  <2>3. \A s \in Logins : (hosted'[s].server = "none" <=> hosted[s].server = "none")
                          /\ hosted'[s].started = hosted[s].started
      BY DEF Calm
  <2>4. CASE console'[c] = console[c]
      BY <2>1, <2>2, <2>3, <2>4 DEF Begins, KiroRequests, Starting
  <2>5. CASE Polls(c)
      BY <2>2, <2>3, <2>5 DEF Begins, KiroRequests, Starting, Polls
  <2>6. QED  BY <2>4, <2>5
<1>2. \A c \in Consoles : console[c].at \in Starting => console'[c] = console[c]
    BY DEF Polls
<1>3. \A c \in Consoles : console'[c].at \in Starting => console'[c] = console[c]
    BY DEF Polls, Starting
<1>4. ASSUME NEW c \in Consoles, NEW d \in Consoles PROVE Alone(c, d)'
    BY <1>3 DEF Alone, Accounted
<1>5. ASSUME NEW s \in Logins PROVE Serves(s)'
  <2>1. Serves(s) /\ Calm(hosted[s], hosted'[s])  BY DEF Accounted
  <2>2. hosted[s] \in KiroSessions /\ hosted'[s] \in KiroSessions  BY DEF Sharing
  <2>3. ASSUME hosted'[s].server = "none", hosted'[s].listed
        PROVE  \E c \in Consoles : console'[c].at = "serve" /\ console'[c].login = s
    <3>1. PICK c \in Consoles : console[c].at = "serve" /\ console[c].login = s
        BY <2>1, <2>3 DEF Serves, Calm
    <3>2. QED  BY <3>1, <1>2 DEF Starting
  <2>4. QED  BY <2>1, <2>2, <2>3 DEF Serves, Calm, KiroSessions
<1>6. ASSUME NEW s \in Logins, hosted'[s].port
      PROVE  \/ hosted'[s].listed
             \/ \E c \in Consoles : (console'[c].login = s /\ console'[c].at = "list") \/ s \in console'[c].shut
  <2>1. hosted[s].port /\ hosted'[s].listed = hosted[s].listed  BY <1>6 DEF Calm
  <2>2. CASE ~hosted[s].listed
    <3>1. PICK c \in Consoles : (console[c].login = s /\ console[c].at = "list") \/ s \in console[c].shut
        BY <2>1, <2>2 DEF Accounted, Hosted!PortsAccounted
    <3>2. console[c].at \in Starting  BY <3>1 DEF Accounted, Begins, Starting
    <3>3. QED  BY <3>1, <3>2, <1>2
  <2>3. QED  BY <2>1, <2>2
<1>7. QED  BY <1>1, <1>4, <1>5, <1>6 DEF Accounted, Hosted!PortsAccounted

----------------------------------------------------------------------------
\* Tabs, timers, polls and cancels.
LEMMA TabsCalm ==
    ASSUME Sharing, NEW b \in Browsers,
           \/ Hosted!ResolveCached(b) \/ Hosted!DiscoverEndpoints(b) \/ Hosted!CacheAuthorizeURL(b)
           \/ Hosted!OAuthCallback(b) \/ Hosted!ExchangeCode(b) \/ Hosted!StopServer(b)
           \/ \E s \in Logins : Hosted!DescriptorArrives(b, s)
    PROVE  /\ UNCHANGED console
           /\ \A s \in Logins : Calm(hosted[s], hosted'[s]) /\ hosted'[s].listed = hosted[s].listed
<1>1. UNCHANGED console
    BY DEF Hosted!ResolveCached, Hosted!DiscoverEndpoints, Hosted!CacheAuthorizeURL, Hosted!OAuthCallback,
           Hosted!ExchangeCode, Hosted!StopServer, Hosted!DescriptorArrives
<1>2. hosted \in [Logins -> KiroSessions]  BY DEF Sharing
<1>3. \/ UNCHANGED hosted
      \/ \E r \in Logins : \E what \in {"error", "tokens"} :
            hosted' = [hosted EXCEPT ![r] = Hosted!Pushed(hosted[r], what)]
      \/ \E r \in Logins : hosted' = [hosted EXCEPT ![r] = Hosted!Shut(hosted[r])]
      \/ \E r \in Logins : \E u : hosted' = [hosted EXCEPT ![r] = [hosted[r] EXCEPT !.url = u]]
  <2>1. browser[b].at # "idle" => browser[b].login \in Logins  BY DEF Sharing, Placed
  <2>2. CASE Hosted!ResolveCached(b)  BY <2>2 DEF Hosted!ResolveCached
  <2>3. CASE Hosted!DiscoverEndpoints(b)  BY <2>1, <2>3, <1>2 DEF Hosted!DiscoverEndpoints
  <2>4. CASE Hosted!CacheAuthorizeURL(b)
    <3>1. browser[b].login \in Logins  BY <2>1, <2>4 DEF Hosted!CacheAuthorizeURL
    <3>2. \E u : hosted' = [hosted EXCEPT ![browser[b].login] = [hosted[browser[b].login] EXCEPT !.url = u]]
        BY <2>4, <3>1, <1>2 DEF Hosted!CacheAuthorizeURL
    <3>3. QED  BY <3>1, <3>2
  <2>5. CASE Hosted!OAuthCallback(b)  BY <2>1, <2>5, <1>2 DEF Hosted!OAuthCallback
  <2>6. CASE Hosted!ExchangeCode(b)  BY <2>1, <2>6, <1>2 DEF Hosted!ExchangeCode
  <2>7. CASE Hosted!StopServer(b)  BY <2>1, <2>7, <1>2 DEF Hosted!StopServer
  <2>8. CASE \E s \in Logins : Hosted!DescriptorArrives(b, s)  BY <2>8, <1>2 DEF Hosted!DescriptorArrives
  <2>9. QED  BY <2>2, <2>3, <2>4, <2>5, <2>6, <2>7, <2>8
<1>4. ASSUME NEW s \in Logins PROVE Calm(hosted[s], hosted'[s]) /\ hosted'[s].listed = hosted[s].listed
  <2> DEFINE Leaves(x, y) == Calm(x, y) /\ y.listed = x.listed
  <2>1. hosted[s] \in KiroSessions  BY <1>2
  <2>2. ASSUME NEW what PROVE Leaves(hosted[s], Hosted!Pushed(hosted[s], what))
      BY <2>1 DEF Calm, Hosted!Pushed, KiroSessions
  <2>3. Leaves(hosted[s], Hosted!Shut(hosted[s]))  BY <2>1 DEF Calm, Hosted!Shut, KiroSessions
  <2>4. ASSUME NEW u PROVE Leaves(hosted[s], [hosted[s] EXCEPT !.url = u])
      BY <2>1 DEF Calm, KiroSessions
  <2>5. Leaves(hosted[s], hosted[s])  BY DEF Calm
  <2>6. CASE UNCHANGED hosted  BY <2>5, <2>6
  <2>7. CASE \E r \in Logins : \E what \in {"error", "tokens"} :
                hosted' = [hosted EXCEPT ![r] = Hosted!Pushed(hosted[r], what)]
      BY <1>2, <2>2, <2>5, <2>7
  <2>8. CASE \E r \in Logins : hosted' = [hosted EXCEPT ![r] = Hosted!Shut(hosted[r])]
      BY <1>2, <2>3, <2>5, <2>8
  <2>9. CASE \E r \in Logins : \E u : hosted' = [hosted EXCEPT ![r] = [hosted[r] EXCEPT !.url = u]]
      BY <1>2, <2>4, <2>5, <2>9
  <2>10. QED  BY <1>3, <2>6, <2>7, <2>8, <2>9
<1>5. QED  BY <1>1, <1>4

\* A session leaves the map with its server closed, once it has one.
LEMMA DropIsCalm ==
    ASSUME NEW x \in KiroSessions, x.server # "none", x.server = "closed" => ~x.port
    PROVE  Calm(x, Hosted!Dropped(x)) /\ Calm(x, Hosted!Received(x))
<1>1. Hosted!Shut(x) \in KiroSessions /\ Hosted!Shut(x).started = x.started
      /\ Hosted!Shut(x).server = "closed" /\ ~Hosted!Shut(x).port
    BY DEF Hosted!Shut, KiroSessions
<1>2. Hosted!Dropped(x) \in KiroSessions /\ Hosted!Dropped(x).started = x.started
      /\ Hosted!Dropped(x).server = "closed" /\ ~Hosted!Dropped(x).port /\ ~Hosted!Dropped(x).listed
    BY <1>1 DEF Hosted!Dropped, KiroSessions
<1>3. Hosted!Received(x).started = x.started /\ Hosted!Received(x).server = "closed"
      /\ ~Hosted!Received(x).port /\ ~Hosted!Received(x).listed
    BY <1>2 DEF Hosted!Received, KiroSessions
<1>4. QED  BY <1>2, <1>3 DEF Calm

LEMMA PollsCalm ==
    ASSUME Sharing, Accounted,
           \/ \E c \in Consoles :
                 \/ Hosted!PollKiroSsoLogin(c)
                 \/ \E s \in Logins : Hosted!PollLookup(c, s) \/ Hosted!CancelKiroSsoLogin(c, s)
           \/ \E s \in Logins : Hosted!SessionExpires(s)
    PROVE  /\ \A s \in Logins : Calm(hosted[s], hosted'[s])
           /\ \A c \in Consoles : console'[c] = console[c] \/ Polls(c)
<1>1. /\ hosted \in [Logins -> KiroSessions] /\ console \in [Consoles -> KiroRequests]
      /\ \A c \in Consoles : console[c].at # "idle" => console[c].login \in Logins
    BY DEF Sharing
<1>2. \A s \in Logins : Calm(hosted[s], hosted[s])  BY DEF Calm
<1>3. ASSUME NEW s \in Logins, hosted[s].server # "none"
      PROVE  Calm(hosted[s], Hosted!Dropped(hosted[s])) /\ Calm(hosted[s], Hosted!Received(hosted[s]))
  <2>1. hosted[s] \in KiroSessions /\ (hosted[s].server = "closed" => ~hosted[s].port)
      BY <1>1 DEF Accounted, Serves
  <2>2. QED  BY <2>1, <1>3, DropIsCalm
<1>4. ASSUME NEW s \in Logins, hosted[s].listed,
             \A d \in Consoles : ~(console[d].login = s /\ console[d].at = "serve")
      PROVE  hosted[s].server # "none"
    BY <1>4 DEF Accounted, Serves
<1>5. ASSUME NEW c \in Consoles, Hosted!PollKiroSsoLogin(c)
      PROVE  /\ \A s \in Logins : Calm(hosted[s], hosted'[s])
             /\ \A d \in Consoles : console'[d] = console[d] \/ Polls(d)
  <2>1. console[c].login \in Logins /\ hosted[console[c].login].server # "none"
      BY <1>1, <1>5 DEF Accounted, Begins, Hosted!PollKiroSsoLogin
  <2>2. UNCHANGED hosted
        \/ hosted' = [hosted EXCEPT ![console[c].login] = Hosted!Received(hosted[console[c].login])]
      BY <1>1, <1>5, <2>1 DEF Hosted!PollKiroSsoLogin
  <2>3. \A s \in Logins : Calm(hosted[s], hosted'[s])  BY <1>1, <1>2, <1>3, <2>1, <2>2
  <2>4. console[c].at = "receive" /\ console' = [console EXCEPT ![c] = Hosted!Idle]
      BY <1>5 DEF Hosted!PollKiroSsoLogin
  <2>5. \A d \in Consoles : console'[d] = console[d] \/ Polls(d)
      BY <1>1, <2>4 DEF Polls, Hosted!Idle, Starting
  <2>6. QED  BY <2>3, <2>5
<1>6. ASSUME NEW c \in Consoles, NEW s \in Logins, Hosted!PollLookup(c, s) \/ Hosted!CancelKiroSsoLogin(c, s)
      PROVE  /\ \A r \in Logins : Calm(hosted[r], hosted'[r])
             /\ \A d \in Consoles : console'[d] = console[d] \/ Polls(d)
  <2>1. console[c].at = "idle" /\ hosted[s].server # "none"
      BY <1>4, <1>6 DEF Hosted!PollLookup, Hosted!CancelKiroSsoLogin
  <2>2. UNCHANGED hosted \/ hosted' = [hosted EXCEPT ![s] = Hosted!Dropped(hosted[s])]
      BY <1>6 DEF Hosted!PollLookup, Hosted!CancelKiroSsoLogin
  <2>3. \A r \in Logins : Calm(hosted[r], hosted'[r])  BY <1>1, <1>2, <1>3, <2>1, <2>2
  <2>4. UNCHANGED console
        \/ console' = [console EXCEPT ![c] = [Hosted!Idle EXCEPT !.login = s, !.at = "receive"]]
      BY <1>6 DEF Hosted!PollLookup, Hosted!CancelKiroSsoLogin
  <2>5. \A d \in Consoles : console'[d] = console[d] \/ Polls(d)
      BY <1>1, <2>1, <2>4 DEF Polls, Hosted!Idle, Starting
  <2>6. QED  BY <2>3, <2>5
<1>7. ASSUME NEW s \in Logins, Hosted!SessionExpires(s)
      PROVE  /\ \A r \in Logins : Calm(hosted[r], hosted'[r])
             /\ \A d \in Consoles : console'[d] = console[d] \/ Polls(d)
  <2>1. hosted' = [hosted EXCEPT ![s] = [hosted[s] EXCEPT !.expired = TRUE]] /\ UNCHANGED console
      BY <1>7, <1>1 DEF Hosted!SessionExpires
  <2>2. Calm(hosted[s], [hosted[s] EXCEPT !.expired = TRUE])  BY <1>1 DEF Calm, KiroSessions
  <2>3. QED  BY <1>1, <1>2, <2>1, <2>2
<1>8. QED  BY <1>5, <1>6, <1>7

----------------------------------------------------------------------------
\* The steps of a start, each with the console requests besides it as they were.
LEMMA CancelAllAccounts ==
    ASSUME Sharing, Accounted, Undisturbed', NEW c \in Consoles, NEW s \in Logins,
           Hosted!CancelAllPending(c, s)
    PROVE  Accounted'
<1>1. /\ hosted \in [Logins -> KiroSessions] /\ console \in [Consoles -> KiroRequests]
      /\ \A d \in Consoles : console[d].at # "idle" => console[d].login \in Logins
    BY DEF Sharing
<1>2. console[c].at = "idle" /\ ~hosted[s].started  BY DEF Hosted!CancelAllPending
<1>3. /\ console'[c] = [at |-> "shutall", login |-> s, shut |-> Hosted!Listed]
      /\ \A d \in Consoles \ {c} : console'[d] = console[d]
    BY <1>1 DEF Hosted!CancelAllPending
<1>4. ASSUME NEW t \in Logins
      PROVE  /\ hosted'[t].server = hosted[t].server /\ hosted'[t].port = hosted[t].port
             /\ ~hosted'[t].listed /\ (hosted'[t].started <=> hosted[t].started \/ t = s)
  <2>1. hosted'[t] = [hosted[t] EXCEPT !.listed = FALSE, !.started = @ \/ t = s]
      BY DEF Hosted!CancelAllPending
  <2>2. hosted[t] \in KiroSessions  BY <1>1
  <2>3. hosted'[t].started = (hosted[t].started \/ t = s)  BY <2>1, <2>2 DEF KiroSessions
  <2>4. QED  BY <2>1, <2>2, <2>3 DEF KiroSessions
<1>5. \A t \in Logins : hosted[t].listed => hosted[t].server # "none"
  <2> SUFFICES ASSUME NEW t \in Logins, hosted[t].listed, hosted[t].server = "none" PROVE FALSE
      OBVIOUS
  <2>1. PICK d \in Consoles : console[d].at = "serve" /\ console[d].login = t
      BY DEF Accounted, Serves
  <2>2. console'[d] = console[d]  BY <1>2, <1>3, <2>1
  <2>3. QED  BY <1>4, <2>1, <2>2 DEF Undisturbed
<1>6. ASSUME NEW d \in Consoles PROVE Begins(d)'
  <2>1. CASE d = c
    <3>1. hosted[s].server = "none"  BY <1>2 DEF Accounted, Serves
    <3>2. \A t \in Hosted!Listed : hosted'[t].server # "none"  BY <1>4, <1>5 DEF Hosted!Listed
    <3>3. QED  BY <1>3, <1>4, <2>1, <3>1, <3>2 DEF Begins, Starting
  <2>2. CASE d # c
    <3>1. Begins(d) /\ console'[d] = console[d] /\ console[d] \in KiroRequests
        BY <1>1, <1>3, <2>2 DEF Accounted
    <3>2. QED  BY <1>1, <1>4, <3>1 DEF Begins, Starting, KiroRequests
  <2>3. QED  BY <2>1, <2>2
<1>7. ASSUME NEW d \in Consoles, NEW e \in Consoles PROVE Alone(d, e)'
  <2>1. \A f \in Consoles : console[f].at \in Starting => console[f].login # s
      BY <1>2 DEF Accounted, Begins
  <2>2. QED  BY <1>3, <2>1 DEF Accounted, Alone
<1>8. ASSUME NEW t \in Logins PROVE Serves(t)'
    BY <1>4 DEF Accounted, Serves
<1>9. Hosted!PortsAccounted'
  <2> SUFFICES ASSUME NEW t \in Logins, hosted'[t].port
               PROVE  \E d \in Consoles : (console'[d].login = t /\ console'[d].at = "list") \/ t \in console'[d].shut
      BY DEF Hosted!PortsAccounted
  <2>1. CASE hosted[t].listed  BY <1>3, <2>1 DEF Hosted!Listed
  <2>2. CASE ~hosted[t].listed
    <3>1. PICK d \in Consoles : (console[d].login = t /\ console[d].at = "list") \/ t \in console[d].shut
        BY <1>4, <2>2 DEF Accounted, Hosted!PortsAccounted
    <3>2. d # c  BY <1>2, <3>1 DEF Accounted, Begins
    <3>3. QED  BY <1>3, <3>1, <3>2
  <2>3. QED  BY <2>1, <2>2
<1>10. QED  BY <1>6, <1>7, <1>8, <1>9 DEF Accounted

\* A start that goes on or ends, with whatever it does to its own session and to sessions
\* that close: the other requests keep what they had.
LEMMA OthersKeep ==
    ASSUME Sharing, Accounted, NEW c \in Consoles, console[c].at \in Starting,
           \A d \in Consoles \ {c} : console'[d] = console[d],
           \A t \in Logins : t # console[c].login =>
               /\ hosted[t].server = "none" <=> hosted'[t].server = "none"
               /\ hosted'[t].started = hosted[t].started,
           \A t \in Logins : hosted[t].server # "none" => hosted'[t].server # "none"
    PROVE  \A d \in Consoles \ {c} : Begins(d)' /\ (console'[d].at \in Starting => console'[d].login # console[c].login)
<1> SUFFICES ASSUME NEW d \in Consoles \ {c}
             PROVE  Begins(d)' /\ (console'[d].at \in Starting => console'[d].login # console[c].login)
    OBVIOUS
<1>1. Begins(d) /\ console[d] \in KiroRequests /\ console'[d] = console[d]
      /\ (console[d].at # "idle" => console[d].login \in Logins)
    BY DEF Accounted, Sharing
<1>2. console[d].at \in Starting => console[d].login # console[c].login
    BY DEF Accounted, Alone
<1>3. QED  BY <1>1, <1>2 DEF Begins, Starting, KiroRequests

LEMMA ShutAllAccounts ==
    ASSUME Sharing, Accounted, NEW c \in Consoles, Hosted!ShutAll(c)
    PROVE  Accounted'
<1>1. /\ hosted \in [Logins -> KiroSessions] /\ console \in [Consoles -> KiroRequests]
      /\ console[c].login \in Logins /\ console[c].at = "shutall" /\ console[c].shut \subseteq Logins
    BY DEF Sharing, Hosted!ShutAll, KiroRequests
<1>2. /\ console'[c].at = "bind" /\ console'[c].shut = {} /\ console'[c].login = console[c].login
      /\ \A d \in Consoles \ {c} : console'[d] = console[d]
  <2>1. console[c] \in KiroRequests  BY <1>1
  <2>2. console' = [console EXCEPT ![c] = [console[c] EXCEPT !.at = "bind", !.shut = {}]]
      BY <1>1 DEF Hosted!ShutAll
  <2>3. QED  BY <1>1, <2>1, <2>2 DEF KiroRequests
<1>3. ASSUME NEW t \in Logins
      PROVE  /\ hosted'[t].listed = hosted[t].listed /\ hosted'[t].started = hosted[t].started
             /\ \/ hosted'[t].server = hosted[t].server /\ hosted'[t].port = hosted[t].port
                \/ hosted[t].server = "up" /\ hosted'[t].server = "closed" /\ ~hosted'[t].port
             /\ t \in console[c].shut => hosted'[t].server = "closed" /\ ~hosted'[t].port
  <2>1. hosted[t] \in KiroSessions /\ Serves(t)  BY <1>1 DEF Accounted
  <2>2. t \in console[c].shut => hosted[t].server # "none"  BY DEF Accounted, Begins
  <2>3. hosted'[t] = IF t \in console[c].shut THEN Hosted!Shut(hosted[t]) ELSE hosted[t]
      BY DEF Hosted!ShutAll
  <2>4. QED  BY <2>1, <2>2, <2>3 DEF Hosted!Shut, KiroSessions, Serves
<1>4. \A d \in Consoles \ {c} : Begins(d)' /\ (console'[d].at \in Starting => console'[d].login # console[c].login)
    BY <1>1, <1>2, <1>3, OthersKeep DEF Starting
<1>5. Begins(c)'
  <2>1. hosted[console[c].login].started /\ hosted[console[c].login].server = "none"
      BY <1>1 DEF Accounted, Begins, Starting
  <2>2. hosted'[console[c].login].started /\ hosted'[console[c].login].server = "none"
      BY <1>1, <1>3, <2>1
  <2>3. QED  BY <1>2, <2>2 DEF Begins
<1>6. ASSUME NEW d \in Consoles, NEW e \in Consoles PROVE Alone(d, e)'
    BY <1>1, <1>2, <1>4 DEF Accounted, Alone, Starting
<1>7. ASSUME NEW t \in Logins PROVE Serves(t)'
  <2>1. Serves(t) /\ hosted[t] \in KiroSessions  BY <1>1 DEF Accounted
  <2>2. \A d \in Consoles : console[d].at = "serve" => console'[d] = console[d]  BY <1>1, <1>2
  <2>3. QED  BY <1>3, <2>1, <2>2 DEF Serves, KiroSessions
<1>8. Hosted!PortsAccounted'
  <2> SUFFICES ASSUME NEW t \in Logins, hosted'[t].port, ~hosted'[t].listed
               PROVE  \E d \in Consoles : (console'[d].login = t /\ console'[d].at = "list") \/ t \in console'[d].shut
      BY DEF Hosted!PortsAccounted
  <2>1. hosted[t].port /\ ~hosted[t].listed /\ t \notin console[c].shut  BY <1>3
  <2>2. PICK d \in Consoles : (console[d].login = t /\ console[d].at = "list") \/ t \in console[d].shut
      BY <2>1 DEF Accounted, Hosted!PortsAccounted
  <2>3. QED  BY <1>1, <1>2, <2>1, <2>2
<1>9. QED  BY <1>4, <1>5, <1>6, <1>7, <1>8 DEF Accounted

LEMMA BindAccounts ==
    ASSUME Sharing, Accounted, NEW c \in Consoles, Hosted!bindKiroLoopback(c)
    PROVE  Accounted'
<1>1. /\ hosted \in [Logins -> KiroSessions] /\ console \in [Consoles -> KiroRequests]
      /\ console[c].login \in Logins /\ console[c].at = "bind" /\ console[c].shut = {}
    BY DEF Sharing, Hosted!bindKiroLoopback, Accounted, Begins
<1>2. ASSUME NEW t \in Logins
      PROVE  /\ hosted'[t].listed = hosted[t].listed /\ hosted'[t].started = hosted[t].started
             /\ hosted'[t].server = hosted[t].server
             /\ t # console[c].login => hosted'[t].port = hosted[t].port
  <2>1. hosted[t] \in KiroSessions  BY <1>1
  <2>2. hosted' = [hosted EXCEPT ![console[c].login] = [hosted[console[c].login] EXCEPT !.port = TRUE]]
        \/ UNCHANGED hosted
      BY <1>1 DEF Hosted!bindKiroLoopback
  <2>3. QED  BY <1>1, <2>1, <2>2 DEF KiroSessions
<1>3. /\ \A d \in Consoles \ {c} : console'[d] = console[d]
      /\ console'[c].shut = {} /\ console'[c].at \in {"list", "idle"}
      /\ console'[c].at = "list" => console'[c].login = console[c].login
      /\ console'[c].at = "idle" => UNCHANGED hosted
  <2>1. CASE console' = [console EXCEPT ![c] = Hosted!Idle] /\ UNCHANGED hosted
      BY <1>1, <2>1 DEF Hosted!Idle
  <2>2. CASE console' = [console EXCEPT ![c] = [console[c] EXCEPT !.at = "list"]]
      BY <1>1, <2>2 DEF KiroRequests
  <2>3. QED  BY <1>1, <2>1, <2>2 DEF Hosted!bindKiroLoopback
<1>4. \A d \in Consoles \ {c} : Begins(d)' /\ (console'[d].at \in Starting => console'[d].login # console[c].login)
    BY <1>1, <1>2, <1>3, OthersKeep DEF Starting
<1>5. Begins(c)'
  <2>1. hosted[console[c].login].started /\ hosted[console[c].login].server = "none"
      BY <1>1 DEF Accounted, Begins, Starting
  <2>2. QED  BY <1>1, <1>2, <1>3, <2>1 DEF Begins, Starting
<1>6. ASSUME NEW d \in Consoles, NEW e \in Consoles PROVE Alone(d, e)'
    BY <1>1, <1>3, <1>4 DEF Accounted, Alone, Starting
<1>7. ASSUME NEW t \in Logins PROVE Serves(t)'
  <2>1. Serves(t) /\ hosted[t] \in KiroSessions  BY <1>1 DEF Accounted
  <2>2. \A d \in Consoles : console[d].at = "serve" => console'[d] = console[d]  BY <1>1, <1>3
  <2>3. hosted[console[c].login].started /\ hosted[console[c].login].server = "none"
      BY <1>1 DEF Accounted, Begins, Starting
  <2>4. QED  BY <1>2, <2>1, <2>2, <2>3 DEF Serves, KiroSessions
<1>8. Hosted!PortsAccounted'
  <2> SUFFICES ASSUME NEW t \in Logins, hosted'[t].port, ~hosted'[t].listed
               PROVE  \E d \in Consoles : (console'[d].login = t /\ console'[d].at = "list") \/ t \in console'[d].shut
      BY DEF Hosted!PortsAccounted
  <2>1. CASE t = console[c].login /\ console'[c].at = "list"  BY <1>3, <2>1
  <2>2. CASE ~(t = console[c].login /\ console'[c].at = "list")
    <3>1. hosted[t].port /\ ~hosted[t].listed  BY <1>2, <1>3, <2>2
    <3>2. PICK d \in Consoles : (console[d].login = t /\ console[d].at = "list") \/ t \in console[d].shut
        BY <3>1 DEF Accounted, Hosted!PortsAccounted
    <3>3. QED  BY <1>1, <1>3, <3>2
  <2>3. QED  BY <2>1, <2>2
<1>9. QED  BY <1>4, <1>5, <1>6, <1>7, <1>8 DEF Accounted

LEMMA ListAccounts ==
    ASSUME Sharing, Accounted, NEW c \in Consoles, Hosted!ListSession(c)
    PROVE  Accounted'
<1>1. /\ hosted \in [Logins -> KiroSessions] /\ console \in [Consoles -> KiroRequests]
      /\ console[c].login \in Logins /\ console[c].at = "list" /\ console[c].shut = {}
    BY DEF Sharing, Hosted!ListSession, Accounted, Begins
<1>2. ASSUME NEW t \in Logins
      PROVE  /\ hosted'[t].port = hosted[t].port /\ hosted'[t].started = hosted[t].started
             /\ hosted'[t].server = hosted[t].server
             /\ t # console[c].login => hosted'[t].listed = hosted[t].listed
             /\ t = console[c].login => hosted'[t].listed
  <2>1. hosted[t] \in KiroSessions  BY <1>1
  <2>2. hosted' = [hosted EXCEPT ![console[c].login] = [hosted[console[c].login] EXCEPT !.listed = TRUE]]
      BY <1>1 DEF Hosted!ListSession
  <2>3. QED  BY <1>1, <2>1, <2>2 DEF KiroSessions
<1>3. /\ \A d \in Consoles \ {c} : console'[d] = console[d]
      /\ console'[c].shut = {} /\ console'[c].at = "serve" /\ console'[c].login = console[c].login
  <2>1. console' = [console EXCEPT ![c] = [console[c] EXCEPT !.at = "serve"]]
      BY <1>1 DEF Hosted!ListSession
  <2>2. QED  BY <1>1, <2>1 DEF KiroRequests
<1>4. \A d \in Consoles \ {c} : Begins(d)' /\ (console'[d].at \in Starting => console'[d].login # console[c].login)
    BY <1>1, <1>2, <1>3, OthersKeep DEF Starting
<1>5. hosted[console[c].login].started /\ hosted[console[c].login].server = "none"
    BY <1>1 DEF Accounted, Begins, Starting
<1>6. Begins(c)'  BY <1>1, <1>2, <1>3, <1>5 DEF Begins, Starting
<1>7. ASSUME NEW d \in Consoles, NEW e \in Consoles PROVE Alone(d, e)'
    BY <1>1, <1>3, <1>4 DEF Accounted, Alone, Starting
<1>8. ASSUME NEW t \in Logins PROVE Serves(t)'
  <2>1. Serves(t) /\ hosted[t] \in KiroSessions  BY <1>1 DEF Accounted
  <2>2. \A d \in Consoles : console[d].at = "serve" => console'[d] = console[d]  BY <1>1, <1>3
  <2>3. QED  BY <1>2, <1>3, <1>5, <2>1, <2>2 DEF Serves, KiroSessions
<1>9. Hosted!PortsAccounted'
  <2> SUFFICES ASSUME NEW t \in Logins, hosted'[t].port, ~hosted'[t].listed
               PROVE  \E d \in Consoles : (console'[d].login = t /\ console'[d].at = "list") \/ t \in console'[d].shut
      BY DEF Hosted!PortsAccounted
  <2>1. t # console[c].login /\ hosted[t].port /\ ~hosted[t].listed  BY <1>2
  <2>2. PICK d \in Consoles : (console[d].login = t /\ console[d].at = "list") \/ t \in console[d].shut
      BY <2>1 DEF Accounted, Hosted!PortsAccounted
  <2>3. QED  BY <1>1, <1>3, <2>1, <2>2
<1>10. QED  BY <1>4, <1>6, <1>7, <1>8, <1>9 DEF Accounted

LEMMA ServeAccounts ==
    ASSUME Sharing, Accounted, Undisturbed, Undisturbed', NEW c \in Consoles, Hosted!serveLoopback(c)
    PROVE  Accounted'
<1>1. /\ hosted \in [Logins -> KiroSessions] /\ console \in [Consoles -> KiroRequests]
      /\ console[c].login \in Logins /\ console[c].at = "serve" /\ console[c].shut = {}
    BY DEF Sharing, Hosted!serveLoopback, Accounted, Begins
<1>2. /\ console'[c] = Hosted!Idle /\ Hosted!Idle.at = "idle" /\ Hosted!Idle.shut = {}
      /\ \A d \in Consoles \ {c} : console'[d] = console[d]
    BY <1>1 DEF Hosted!serveLoopback, Hosted!Idle
<1>3. /\ hosted[console[c].login].started /\ hosted[console[c].login].server = "none"
      /\ hosted[console[c].login].listed
      /\ \A d \in Consoles \ {c} : console[d].at \in Starting => console[d].login # console[c].login
    BY <1>1 DEF Accounted, Begins, Alone, Starting, Undisturbed
<1>4. /\ hosted'[console[c].login].started /\ hosted'[console[c].login].server = "up"
      /\ hosted'[console[c].login].listed
  <2>1. hosted'[console[c].login] = [hosted[console[c].login] EXCEPT !.server = "up"]
      BY <1>1 DEF Hosted!serveLoopback
  <2>2. hosted[console[c].login] \in KiroSessions  BY <1>1
  <2>3. QED  BY <1>3, <2>1, <2>2 DEF KiroSessions
<1>5. ASSUME NEW t \in Logins, t # console[c].login PROVE Calm(hosted[t], hosted'[t])
  <2>1. hosted'[t] = hosted[t]
        \/ (hosted[t].listed /\ hosted'[t] = Hosted!Dropped(hosted[t]))
      BY <1>5 DEF Hosted!serveLoopback
  <2>2. hosted[t] \in KiroSessions /\ Serves(t)  BY <1>1 DEF Accounted
  <2>3. CASE hosted'[t] = hosted[t]  BY <2>3 DEF Calm
  <2>4. CASE hosted[t].listed /\ hosted'[t] = Hosted!Dropped(hosted[t])
    <3>1. ~hosted'[t].listed
      <4>1. Hosted!Shut(hosted[t]) \in KiroSessions  BY <2>2, ShutTypes
      <4>2. QED  BY <4>1, <2>4 DEF Hosted!Dropped, KiroSessions
    <3>2. ASSUME hosted[t].server = "none" PROVE FALSE
      <4>1. PICK d \in Consoles : console[d].at = "serve" /\ console[d].login = t
          BY <2>2, <2>4, <3>2 DEF Serves
      <4>2. console'[d] = console[d]  BY <1>2, <1>5, <4>1
      <4>3. QED  BY <3>1, <4>1, <4>2 DEF Undisturbed
    <3>3. QED  BY <2>2, <2>4, <3>2, DropIsCalm DEF Serves
  <2>5. QED  BY <2>1, <2>3, <2>4
<1>6. \A d \in Consoles \ {c} : Begins(d)' /\ (console'[d].at \in Starting => console'[d].login # console[c].login)
  <2>1. ASSUME NEW t \in Logins, t # console[c].login
        PROVE  /\ hosted[t].server = "none" <=> hosted'[t].server = "none"
               /\ hosted'[t].started = hosted[t].started
      BY <1>5, <2>1 DEF Calm
  <2>2. \A t \in Logins : hosted[t].server # "none" => hosted'[t].server # "none"
      BY <1>4, <2>1
  <2>3. QED  BY <1>1, <1>2, <2>1, <2>2, OthersKeep DEF Starting
<1>7. Begins(c)'  BY <1>2 DEF Begins, Starting
<1>8. ASSUME NEW d \in Consoles, NEW e \in Consoles PROVE Alone(d, e)'
    BY <1>2 DEF Accounted, Alone, Starting
<1>9. ASSUME NEW t \in Logins PROVE Serves(t)'
  <2>1. Serves(t) /\ hosted[t] \in KiroSessions  BY <1>1 DEF Accounted
  <2>2. CASE t = console[c].login  BY <1>4, <2>2 DEF Serves
  <2>3. CASE t # console[c].login
    <3>1. Calm(hosted[t], hosted'[t])  BY <1>5, <2>3
    <3>2. \A d \in Consoles : console[d].at = "serve" /\ console[d].login = t => console'[d] = console[d]
        BY <1>2, <2>3
    <3>3. ASSUME hosted'[t].server = "none", hosted'[t].listed
          PROVE  \E d \in Consoles : console'[d].at = "serve" /\ console'[d].login = t
      <4>1. PICK d \in Consoles : console[d].at = "serve" /\ console[d].login = t
          BY <2>1, <3>1, <3>3 DEF Serves, Calm
      <4>2. QED  BY <3>2, <4>1
    <3>4. QED  BY <2>1, <3>1, <3>3 DEF Serves, Calm, KiroSessions
  <2>4. QED  BY <2>2, <2>3
<1>10. Hosted!PortsAccounted'
  <2> SUFFICES ASSUME NEW t \in Logins, hosted'[t].port, ~hosted'[t].listed
               PROVE  \E d \in Consoles : (console'[d].login = t /\ console'[d].at = "list") \/ t \in console'[d].shut
      BY DEF Hosted!PortsAccounted
  <2>1. t # console[c].login  BY <1>4
  <2>2. hosted[t].port /\ ~hosted[t].listed  BY <1>5, <2>1 DEF Calm
  <2>3. PICK d \in Consoles : (console[d].login = t /\ console[d].at = "list") \/ t \in console[d].shut
      BY <2>2 DEF Accounted, Hosted!PortsAccounted
  <2>4. QED  BY <1>1, <1>2, <2>3
<1>11. QED  BY <1>6, <1>7, <1>8, <1>9, <1>10 DEF Accounted

----------------------------------------------------------------------------
\* As long as no second start disturbs the first, a port is held for a login the console
\* can still reach, or by a start that is under way, whatever the number of logins,
\* requests, tabs and ports (cancelAllPendingKiroSsoSessions gives the ports back).
THEOREM PortsComeBack == Hosted!Spec /\ []Undisturbed => []Hosted!PortsAccounted
<1>1. Hosted!Init => Accounted
    BY DEF Hosted!Init, Accounted, Begins, Alone, Serves, Hosted!PortsAccounted, Hosted!Unstarted,
       Hosted!Idle, Starting
<1>2. Sharing /\ Sharing' /\ Undisturbed /\ Undisturbed' /\ Accounted /\ [Hosted!Next]_(Hosted!vars) => Accounted'
  <2> SUFFICES ASSUME Sharing, Sharing', Undisturbed, Undisturbed', Accounted, [Hosted!Next]_(Hosted!vars)
               PROVE  Accounted'
      OBVIOUS
  <2>1. \A s \in Logins : Calm(hosted[s], hosted[s])  BY DEF Calm
  <2>2. CASE UNCHANGED Hosted!vars  BY <2>1, <2>2, CalmKeeps DEF Hosted!vars
  <2>3. CASE \E c \in Consoles :
                \/ Hosted!ShutAll(c) \/ Hosted!bindKiroLoopback(c) \/ Hosted!ListSession(c)
                \/ Hosted!serveLoopback(c) \/ \E s \in Logins : Hosted!CancelAllPending(c, s)
      BY <2>3, CancelAllAccounts, ShutAllAccounts, BindAccounts, ListAccounts, ServeAccounts
  <2>4. CASE \/ \E c \in Consoles :
                   \/ Hosted!PollKiroSsoLogin(c)
                   \/ \E s \in Logins : Hosted!PollLookup(c, s) \/ Hosted!CancelKiroSsoLogin(c, s)
             \/ \E s \in Logins : Hosted!SessionExpires(s)
    <3>1. /\ \A s \in Logins : Calm(hosted[s], hosted'[s])
          /\ \A c \in Consoles : console'[c] = console[c] \/ Polls(c)
        BY <2>4, PollsCalm
    <3>2. QED  BY <3>1, CalmKeeps
  <2>5. CASE \E b \in Browsers :
                \/ Hosted!ResolveCached(b) \/ Hosted!DiscoverEndpoints(b) \/ Hosted!CacheAuthorizeURL(b)
                \/ Hosted!OAuthCallback(b) \/ Hosted!ExchangeCode(b) \/ Hosted!StopServer(b)
                \/ \E s \in Logins : Hosted!DescriptorArrives(b, s)
    <3>1. UNCHANGED console /\ \A s \in Logins : Calm(hosted[s], hosted'[s])
        BY <2>5, TabsCalm
    <3>2. QED  BY <3>1, CalmKeeps
  <2>6. QED  BY <2>2, <2>3, <2>4, <2>5 DEF Hosted!Next
<1>3. Accounted => Hosted!PortsAccounted  BY DEF Accounted
<1>4. QED  BY <1>1, <1>2, <1>3, SharingHolds, PTL DEF Hosted!Spec

\* One console request at a time disturbs nobody.
LEMMA OneConsoleIsAlone ==
    ASSUME \A c, d \in Consoles : c = d
    PROVE  Hosted!Spec => []Undisturbed
<1>1. Hosted!Init => Undisturbed  BY DEF Hosted!Init, Undisturbed, Hosted!Idle
<1>2. Sharing /\ Undisturbed /\ [Hosted!Next]_(Hosted!vars) => Undisturbed'
  <2> SUFFICES ASSUME Sharing, Undisturbed, [Hosted!Next]_(Hosted!vars),
                      NEW c \in Consoles, console'[c].at = "serve"
               PROVE  hosted'[console'[c].login].listed
      BY DEF Undisturbed
  <2>1. /\ hosted \in [Logins -> KiroSessions] /\ console \in [Consoles -> KiroRequests]
        /\ console[c].at # "idle" => console[c].login \in Logins
      BY DEF Sharing
  <2>2. ASSUME UNCHANGED console, \A s \in Logins : hosted'[s].listed = hosted[s].listed
        PROVE  hosted'[console'[c].login].listed
      BY <2>1, <2>2 DEF Undisturbed
  <2>3. CASE UNCHANGED Hosted!vars  BY <2>2, <2>3 DEF Hosted!vars
  <2>4. CASE Hosted!ListSession(c)
      BY <2>1, <2>4 DEF Hosted!ListSession, KiroSessions, KiroRequests
  <2>5. CASE \E s \in Logins : Hosted!SessionExpires(s)
      BY <2>1, <2>2, <2>5 DEF Hosted!SessionExpires, KiroSessions
  <2>6. CASE \E b \in Browsers :
                \/ Hosted!ResolveCached(b) \/ Hosted!DiscoverEndpoints(b) \/ Hosted!CacheAuthorizeURL(b)
                \/ Hosted!OAuthCallback(b) \/ Hosted!ExchangeCode(b) \/ Hosted!StopServer(b)
                \/ \E s \in Logins : Hosted!DescriptorArrives(b, s)
    <3>1. UNCHANGED console /\ \A s \in Logins : hosted'[s].listed = hosted[s].listed
        BY <2>6, TabsCalm
    <3>2. QED  BY <2>2, <3>1
  <2>7. CASE \/ Hosted!ShutAll(c) \/ Hosted!bindKiroLoopback(c)
             \/ Hosted!serveLoopback(c) \/ Hosted!PollKiroSsoLogin(c)
             \/ \E s \in Logins : \/ Hosted!CancelAllPending(c, s) \/ Hosted!PollLookup(c, s)
                                 \/ Hosted!CancelKiroSsoLogin(c, s)
    <3> SUFFICES console'[c].at # "serve"  OBVIOUS
    <3>1. console[c] \in KiroRequests  BY <2>1
    <3>2. CASE console' = [console EXCEPT ![c] = Hosted!Idle]  BY <2>1, <3>2 DEF Hosted!Idle
    <3>3. CASE Hosted!ShutAll(c)
      <4>1. console' = [console EXCEPT ![c] = [console[c] EXCEPT !.at = "bind", !.shut = {}]]
          BY <2>1, <3>3 DEF Hosted!ShutAll
      <4>2. QED  BY <2>1, <3>1, <4>1 DEF KiroRequests
    <3>4. CASE Hosted!bindKiroLoopback(c) /\ console' # [console EXCEPT ![c] = Hosted!Idle]
      <4>1. console' = [console EXCEPT ![c] = [console[c] EXCEPT !.at = "list"]]
          BY <2>1, <3>4 DEF Hosted!bindKiroLoopback
      <4>2. QED  BY <2>1, <3>1, <4>1 DEF KiroRequests
    <3>5. CASE \E s \in Logins : Hosted!CancelAllPending(c, s)
      <4>1. PICK s \in Logins : console' = [console EXCEPT ![c] = [at |-> "shutall", login |-> s, shut |-> Hosted!Listed]]
          BY <3>5, Zenon DEF Hosted!CancelAllPending
      <4>2. QED  BY <2>1, <4>1
    <3>6. CASE \E s \in Logins : Hosted!PollLookup(c, s)
      <4>1. console[c].at = "idle"  BY <3>6 DEF Hosted!PollLookup
      <4>2. PICK s \in Logins : UNCHANGED console
                \/ console' = [console EXCEPT ![c] = [Hosted!Idle EXCEPT !.login = s, !.at = "receive"]]
          BY <3>6 DEF Hosted!PollLookup
      <4>3. [Hosted!Idle EXCEPT !.login = s, !.at = "receive"].at = "receive"  BY DEF Hosted!Idle
      <4>4. QED  BY <2>1, <4>1, <4>2, <4>3
    <3>7. CASE \E s \in Logins : Hosted!CancelKiroSsoLogin(c, s)  BY <3>7 DEF Hosted!CancelKiroSsoLogin
    <3>8. QED  BY <2>7, <3>2, <3>3, <3>4, <3>5, <3>6, <3>7 DEF Hosted!serveLoopback, Hosted!PollKiroSsoLogin
  <2>8. QED  BY <2>3, <2>4, <2>5, <2>6, <2>7 DEF Hosted!Next
<1>3. QED  BY <1>1, <1>2, SharingHolds, PTL DEF Hosted!Spec

\* With one console request at a time every port is accounted for: the console's own use.
THEOREM PortsOfOneConsole ==
    ASSUME \A c, d \in Consoles : c = d
    PROVE  Hosted!Spec => []Hosted!PortsAccounted
<1>1. Hosted!Spec => []Undisturbed  BY OneConsoleIsAlone
<1>2. QED  BY <1>1, PortsComeBack, PTL

(***************************************************************************)
(* The imports                                                             *)
(*                                                                         *)
(* Where the token a provider would accept next is: with an account, with  *)
(* the request that exchanges, or with the operator. Each kind of grant    *)
(* belongs to one way in, and a path that checks for an account first      *)
(* holds the import lock until it has added its own.                       *)
(***************************************************************************)
\* The kinds of grants are apart, and nothing has the name of a grant or a request.
Separate == /\ Pasted \cap Devices = {} /\ Pasted \cap Keys = {} /\ Devices \cap Keys = {}
            /\ Nobody \notin Import!Grants \cup Callers

Toks    == [grant : Import!Grants, version : Nat]
MayTok  == Toks \cup {Import!NoToken}
Accs    == [token : MayTok, print : MayTok, unverified : BOOLEAN, edits : Nat]
Paths   == {"none", "import", "local", "keys", "builder", "iam", "sso", "edit"}
ImportPlaces  == {"idle", "lock", "exchange", "verify", "add", "write"}
ImportRows    == [path : Paths, at : ImportPlaces, sent : MayTok, got : MayTok, unverified : BOOLEAN,
            id : AccountIds \cup {Nobody}, copy : Accs]

ImportTyped ==
    /\ live \in [Import!Grants -> Nat] /\ accounts \in [AccountIds -> Accs] /\ held \subseteq Toks
    /\ import \in [Callers -> ImportRows]

\* A token a provider has given out: a key has no version, a device login's first is one.
Given(t) == /\ t \in Toks /\ t.version <= live[t.grant]
            /\ t.grant \in Keys => t.version = 0
            /\ t.grant \in Devices => t.version >= 1
IsKey(t) == t.grant \in Keys /\ t = Import!Token(t.grant, 0)

\* A request's row: what it sends and has obtained at each place of its path.
LoginPaths == {"builder", "iam", "sso"}
RowOK(r) == LET x == import[r] IN
    /\ x.at \in {"idle", "lock", "exchange", "write"} => x.got = Import!NoToken
    /\ x.at \in {"verify", "add"} => Given(x.got)
    /\ x.at = "lock" => x.path = "import" /\ (x.sent \in held \/ IsKey(x.sent))
    /\ x.at = "exchange" => \/ x.path \in {"import", "local"} /\ x.sent \in held
                            \/ x.path \in {"builder", "iam"} /\ x.sent.grant \in Devices
                               /\ x.sent = Import!Token(x.sent.grant, 0)
    /\ x.at \in {"lock", "exchange"} => ~x.unverified
    /\ x.at = "verify" => x.path \in {"import", "local"} /\ x.sent \in held
                          /\ (x.unverified \/ x.got # x.sent) /\ (x.unverified => x.got = x.sent)
    /\ x.at = "add" =>
          \/ x.path \in {"import", "local"} /\ x.sent \in held
             /\ (x.unverified \/ x.got # x.sent) /\ (x.unverified => x.got = x.sent)
          \/ x.path \in {"import", "keys"} /\ x.sent = x.got /\ IsKey(x.got)
          \/ x.path \in LoginPaths /\ x.got.grant \in Devices /\ x.sent = Import!Token(x.got.grant, 0)
    /\ x.path = "import" /\ x.at \in {"exchange", "verify", "add"} => mutex = r

\* A request that carries a new token is the only place it is at, and the provider accepts it.
ImportCarries(r) == import[r].got \notin {Import!NoToken, import[r].sent}
Carried(r) == ImportCarries(r) =>
    LET t == import[r].got IN
    /\ Import!Live(t) /\ t \notin held /\ t.grant \notin Keys
    /\ \A i \in Import!Existing : accounts[i].token # t
    /\ \A q \in Callers : q # r => import[q].got # t

Tracked ==
    /\ ImportTyped
    /\ \A k \in Keys : live[k] = 0
    /\ \A i \in Import!Existing : Given(accounts[i].token)
    /\ \A t \in held : Given(t) /\ t.grant \notin Keys
    /\ \A r \in Callers : RowOK(r) /\ Carried(r)
    /\ Import!OneAccountPerToken

\* What an import is about to exchange belongs to no confirmed account.
Spared(r) == import[r].path = "import" /\ import[r].at = "exchange" =>
    \A i \in Import!Existing : accounts[i].token = import[r].sent => accounts[i].unverified
Alive == Import!AccountsStayAlive /\ \A r \in Callers : Spared(r)

\* A row that brings no new token.
ImportBrings(r, x) ==
    \/ x.got = Import!NoToken
    \/ x.got = x.sent /\ (x.got \in held \/ IsKey(x.got))
    \/ x.got = import[r].got /\ x.sent = import[r].sent

MutexKept(r) == \A q \in Callers : q # r /\ mutex = q => mutex' = q

LEMMA TokenFacts == ASSUME Separate PROVE
    /\ Import!NoToken.grant = Nobody /\ Import!NoToken \notin Toks /\ Import!NoToken \in MayTok
    /\ Import!NoAccount \in Accs /\ Import!NoAccount.token = Import!NoToken
    /\ Import!Nothing \in ImportRows /\ ~Import!Nothing.unverified /\ Import!Nothing.at = "idle"
    /\ Import!Nothing.got = Import!NoToken /\ Import!Nothing.path = "none"
<1>1. Import!NoToken.grant = Nobody /\ Import!NoToken \notin Toks /\ Import!NoToken \in MayTok
    BY DEF Import!NoToken, Import!Token, Toks, MayTok, Separate
<1>2. Import!NoAccount \in Accs /\ Import!NoAccount.token = Import!NoToken
    BY <1>1 DEF Import!NoAccount, Accs
<1>3. QED  BY <1>1, <1>2 DEF Import!Nothing, ImportRows, Paths, ImportPlaces

\* The rows, while tokens are given out and handed over: what is said of one stays true.
LEMMA RowStays ==
    ASSUME Separate, Tracked, NEW q \in Callers, import'[q] = import[q], held \subseteq held',
           \A t \in Toks : Given(t) => Given(t)', mutex = q => mutex' = q
    PROVE  RowOK(q)'
<1>1. RowOK(q) /\ import[q] \in ImportRows  BY DEF Tracked, ImportTyped
<1>2. Given(import[q].got) => Given(import[q].got)'  BY DEF Given
<1>3. QED  BY <1>1, <1>2 DEF RowOK

LEMMA MoveTracked ==
    ASSUME Separate, Tracked, NEW r \in Callers, NEW x \in ImportRows, import' = [import EXCEPT ![r] = x],
           UNCHANGED <<live, accounts>>, held \subseteq held', RowOK(r)', ImportBrings(r, x), MutexKept(r),
           \A t \in held' \ held : /\ t = import[r].got /\ t \notin {Import!NoToken, import[r].sent}
                                   /\ x.got = Import!NoToken /\ Given(t)
    PROVE  Tracked'
<1>0. /\ ImportTyped /\ \A q \in Callers : RowOK(q) /\ Carried(q)
      /\ \A t \in held : Given(t) /\ t.grant \notin Keys
    BY DEF Tracked
<1>1. /\ import'[r] = x /\ \A q \in Callers \ {r} : import'[q] = import[q]
      /\ import \in [Callers -> ImportRows] /\ held \subseteq Toks
    BY <1>0 DEF ImportTyped
<1>2. \A t : Given(t)' <=> Given(t)  BY DEF Given
<1>3. held' \subseteq Toks /\ \A t \in held' : Given(t)' /\ t.grant \notin Keys
    BY <1>0, <1>1, <1>2 DEF Given, Carried, ImportCarries
<1>4. ImportTyped'  BY <1>0, <1>1, <1>3 DEF ImportTyped
<1>5. ASSUME NEW q \in Callers PROVE RowOK(q)'
  <2>1. CASE q = r  BY <2>1
  <2>2. CASE q # r  BY <1>1, <1>2, <2>2, RowStays DEF MutexKept
  <2>3. QED  BY <2>1, <2>2
<1>6. ASSUME NEW q \in Callers PROVE Carried(q)'
  <2>1. CASE q = r
    <3>1. CASE x.got \in {Import!NoToken, x.sent}  BY <1>1, <2>1, <3>1 DEF Carried, ImportCarries
    <3>2. CASE /\ x.got = import[r].got /\ x.sent = import[r].sent /\ x.got \notin {Import!NoToken, x.sent}
      <4>1. held' = held  BY <3>2
      <4>2. Carried(r)  BY <1>0
      <4>3. QED  BY <1>1, <2>1, <3>2, <4>1, <4>2 DEF Carried, ImportCarries, Import!Live, Import!Existing
    <3>3. QED  BY <3>1, <3>2 DEF ImportBrings
  <2>2. CASE q # r
    <3>0. import'[q] = import[q] /\ Carried(q) /\ Carried(r)  BY <1>0, <1>1, <2>2
    <3>1. ASSUME import[q].got \notin {Import!NoToken, import[q].sent}
          PROVE  /\ Import!Live(import[q].got)' /\ import[q].got \notin held' /\ import[q].got.grant \notin Keys
                 /\ \A i \in Import!Existing' : accounts'[i].token # import[q].got
                 /\ \A u \in Callers : u # q => import'[u].got # import[q].got
      <4> DEFINE t == import[q].got
      <4>1. /\ Import!Live(t)' /\ t \notin held /\ t.grant \notin Keys
            /\ \A i \in Import!Existing' : accounts'[i].token # t
          BY <3>0, <3>1 DEF Carried, ImportCarries, Import!Live, Import!Existing
      <4>2. import[r].got # t  BY <2>2, <3>0, <3>1 DEF Carried, ImportCarries
      <4>3. t \notin held'  BY <4>1, <4>2
      <4>4. x.got # t  BY <3>1, <4>1, <4>2 DEF ImportBrings, IsKey
      <4>5. QED  BY <1>1, <3>0, <3>1, <4>1, <4>3, <4>4 DEF Carried, ImportCarries
    <3>2. QED  BY <3>0, <3>1 DEF Carried, ImportCarries
  <2>3. QED  BY <2>1, <2>2
<1>7. QED  BY <1>2, <1>3, <1>4, <1>5, <1>6 DEF Tracked, Import!Existing, Import!OneAccountPerToken

\* A request exchanges the token it sends for the next one.
LEMMA ExchangeTracked ==
    ASSUME Separate, Tracked, NEW r \in Callers, NEW x \in ImportRows, import' = [import EXCEPT ![r] = x],
           UNCHANGED <<accounts, held>>, MutexKept(r), NEW t \in Toks, t.grant \notin Keys,
           Import!Live(t), live' = [live EXCEPT ![t.grant] = @ + 1],
           \A q \in Callers : ImportCarries(q) => import[q].got # t,
           x.got = Import!Rotated(t), RowOK(r)'
    PROVE  Tracked'
<1>0. /\ ImportTyped /\ \A q \in Callers : RowOK(q) /\ Carried(q)
      /\ \A u \in held : Given(u) /\ u.grant \notin Keys
      /\ \A i \in Import!Existing : Given(accounts[i].token)
    BY DEF Tracked
<1>1. /\ import'[r] = x /\ \A q \in Callers \ {r} : import'[q] = import[q]
      /\ import \in [Callers -> ImportRows] /\ held \subseteq Toks /\ live \in [Import!Grants -> Nat]
      /\ accounts \in [AccountIds -> Accs]
    BY <1>0 DEF ImportTyped
<1>2. /\ t.grant \in Import!Grants /\ live[t.grant] = t.version /\ t.version \in Nat
      /\ live'[t.grant] = t.version + 1 /\ \A g \in Import!Grants \ {t.grant} : live'[g] = live[g]
      /\ live' \in [Import!Grants -> Nat]
    BY <1>1 DEF Import!Live, Toks
<1>3. Import!Rotated(t).grant = t.grant /\ Import!Rotated(t).version = t.version + 1 /\ Import!Rotated(t) \in Toks
    BY <1>2 DEF Import!Rotated, Import!Token, Toks
<1>4. \A u \in Toks : Given(u) => Given(u)'
    BY <1>1, <1>2 DEF Given, Toks
<1>5. \A u \in Toks : Given(u) => u # Import!Rotated(t)
    BY <1>2, <1>3 DEF Given
<1>6. ImportTyped'  BY <1>0, <1>1, <1>2 DEF ImportTyped
<1>7. ASSUME NEW q \in Callers PROVE RowOK(q)'
  <2>1. CASE q = r  BY <2>1
  <2>2. CASE q # r  BY <1>1, <1>4, <2>2, RowStays DEF MutexKept
  <2>3. QED  BY <2>1, <2>2
<1>8. \A q \in Callers : import[q].got # Import!NoToken => Given(import[q].got)
  <2>1. ASSUME NEW q \in Callers, import[q].got # Import!NoToken PROVE Given(import[q].got)
    <3>1. import[q].at \in ImportPlaces  BY <1>1 DEF ImportRows
    <3>2. QED  BY <1>0, <2>1, <3>1 DEF RowOK, ImportPlaces
  <2>2. QED  BY <2>1
<1>9. ASSUME NEW q \in Callers PROVE Carried(q)'
  <2>1. CASE q = r
    <3>1. Import!Rotated(t) \notin held  BY <1>0, <1>1, <1>5
    <3>2. \A i \in Import!Existing : accounts[i].token # Import!Rotated(t)
        BY <1>0, <1>5 DEF Given
    <3>3. ASSUME NEW u \in Callers, u # r PROVE import'[u].got # Import!Rotated(t)
      <4>1. import'[u] = import[u]  BY <1>1, <3>3
      <4>2. Import!Rotated(t) # Import!NoToken  BY <1>3, TokenFacts
      <4>3. QED  BY <1>5, <1>8, <4>1, <4>2 DEF Given
    <3>4. Import!Live(Import!Rotated(t))'  BY <1>2, <1>3 DEF Import!Live, Separate
    <3>5. QED  BY <1>1, <1>3, <2>1, <3>1, <3>2, <3>3, <3>4 DEF Carried, ImportCarries, Import!Existing
  <2>2. CASE q # r
    <3>0. import'[q] = import[q] /\ Carried(q)  BY <1>0, <1>1, <2>2
    <3>1. ASSUME import[q].got \notin {Import!NoToken, import[q].sent}
          PROVE  /\ Import!Live(import[q].got)' /\ import[q].got \notin held' /\ import[q].got.grant \notin Keys
                 /\ \A i \in Import!Existing' : accounts'[i].token # import[q].got
                 /\ \A u \in Callers : u # q => import'[u].got # import[q].got
      <4> DEFINE w == import[q].got
      <4>1. /\ Import!Live(w) /\ w \notin held /\ w.grant \notin Keys /\ w \in Toks /\ Given(w)
            /\ \A i \in Import!Existing : accounts[i].token # w
            /\ \A u \in Callers : u # q => import[u].got # w
          BY <1>8, <3>0, <3>1 DEF Carried, ImportCarries, Given
      <4>2. w # t  BY <3>1 DEF ImportCarries
      <4>3. w.grant # t.grant
        <5>1. w.grant = t.grant => w.version = t.version  BY <1>2, <4>1 DEF Import!Live
        <5>2. w = Import!Token(w.grant, w.version) /\ t = Import!Token(t.grant, t.version)
            BY <4>1 DEF Toks, Import!Token
        <5>3. QED  BY <4>2, <5>1, <5>2
      <4>4. Import!Live(w)'  BY <1>1, <1>2, <3>0, <4>1, <4>3 DEF Import!Live, Toks
      <4>5. w # Import!Rotated(t)  BY <1>5, <4>1
      <4>6. \A u \in Callers : u # q => import'[u].got # w  BY <1>1, <4>1, <4>5
      <4>7. QED  BY <4>1, <4>4, <4>6 DEF Import!Existing
    <3>2. QED  BY <3>0, <3>1 DEF Carried, ImportCarries
  <2>3. QED  BY <2>1, <2>2
<1>10. QED
    BY <1>0, <1>1, <1>2, <1>4, <1>6, <1>7, <1>9 DEF Tracked, Import!Existing, Import!OneAccountPerToken,
       Given

\* An account is made of a token that is nobody else's.
LEMMA AddTracked ==
    ASSUME Separate, Tracked, NEW t, Given(t), NEW print \in MayTok, NEW unverified \in BOOLEAN, NEW i \in AccountIds \ Import!Existing,
           accounts' = [accounts EXCEPT ![i] =
               [token |-> t, print |-> print, unverified |-> unverified, edits |-> 0]],
           \A j \in Import!Existing : accounts[j].token # t,
           UNCHANGED <<live, held>>, t \in held \/ IsKey(t) \/ \E r \in Callers : import[r].got = t /\ Import!End(r),
           NEW r, import' = import \/ Import!End(r), MutexKept(r), mutex = r /\ import' = import => mutex' = r
    PROVE  Tracked'
<1>0. /\ ImportTyped /\ \A q \in Callers : RowOK(q) /\ Carried(q)
      /\ \A u \in held : Given(u) /\ u.grant \notin Keys
      /\ \A j \in Import!Existing : Given(accounts[j].token)
      /\ Import!OneAccountPerToken
    BY DEF Tracked
<1>1. /\ import \in [Callers -> ImportRows] /\ held \subseteq Toks /\ accounts \in [AccountIds -> Accs]
    BY <1>0 DEF ImportTyped
<1>2. \A u : Given(u)' <=> Given(u)  BY DEF Given
<1> DEFINE new == [token |-> t, print |-> print, unverified |-> unverified, edits |-> 0]
<1>3. t \in Toks /\ t # Import!NoToken  BY TokenFacts DEF Given
<1>4. /\ new \in Accs /\ new # Import!NoAccount /\ new.token = t
    BY <1>3, TokenFacts DEF Accs, MayTok
<1>5. /\ accounts' = [accounts EXCEPT ![i] = new] /\ accounts'[i] = new
      /\ accounts' \in [AccountIds -> Accs] /\ \A j \in AccountIds \ {i} : accounts'[j] = accounts[j]
    BY <1>1, <1>4
<1> HIDE DEF new
<1>6. Import!Existing' = Import!Existing \cup {i}
    BY <1>4, <1>5 DEF Import!Existing
<1>7. \A q \in Callers : import'[q] = import[q] \/ (q = r /\ import'[q] = Import!Nothing)
    BY <1>1 DEF Import!End
<1>8. ImportTyped'
  <2>1. import' \in [Callers -> ImportRows]  BY <1>1, TokenFacts DEF Import!End
  <2>2. QED  BY <1>0, <1>5, <2>1 DEF ImportTyped
<1>9. ASSUME NEW q \in Callers PROVE RowOK(q)'
  <2>1. CASE import'[q] = Import!Nothing  BY <2>1, TokenFacts DEF RowOK
  <2>2. CASE import'[q] = import[q] /\ (mutex = q => mutex' = q)  BY <1>2, <2>2, RowStays
  <2>3. CASE import'[q] = import[q] /\ ~(mutex = q => mutex' = q)
    <3>1. q = r /\ import' # import  BY <2>3 DEF MutexKept
    <3>2. import'[q] = Import!Nothing  BY <1>1, <3>1 DEF Import!End
    <3>3. QED  BY <2>1, <3>2
  <2>4. QED  BY <1>7, <2>1, <2>2, <2>3
<1>10. ASSUME NEW q \in Callers PROVE Carried(q)'
  <2>1. CASE import'[q] = Import!Nothing  BY <2>1, TokenFacts DEF Carried, ImportCarries
  <2>2. CASE import'[q] = import[q] /\ import'[q] # Import!Nothing
    <3>1. ASSUME ImportCarries(q) PROVE
             /\ Import!Live(import[q].got)' /\ import[q].got \notin held' /\ import[q].got.grant \notin Keys
             /\ \A j \in Import!Existing' : accounts'[j].token # import[q].got
             /\ \A u \in Callers : u # q => import'[u].got # import[q].got
      <4> DEFINE w == import[q].got
      <4>1. /\ Import!Live(w) /\ w \notin held /\ w.grant \notin Keys /\ w # Import!NoToken
            /\ \A j \in Import!Existing : accounts[j].token # w
            /\ \A u \in Callers : u # q => import[u].got # w
          BY <1>0, <3>1 DEF Carried, ImportCarries
      <4>2. t # w
        <5>1. CASE t \in held \/ IsKey(t)  BY <4>1, <5>1 DEF IsKey
        <5>2. CASE \E u \in Callers : import[u].got = t /\ Import!End(u)
          <6>1. PICK u \in Callers : import[u].got = t /\ Import!End(u)  BY <5>2
          <6>2. import'[u] = Import!Nothing  BY <1>1, <6>1 DEF Import!End
          <6>3. u # q  BY <2>2, <6>2
          <6>4. QED  BY <4>1, <6>1, <6>3
        <5>3. QED  BY <5>1, <5>2
      <4>3. \A j \in Import!Existing' : accounts'[j].token # w
          BY <1>4, <1>5, <1>6, <4>1, <4>2 DEF Import!Existing
      <4>4. \A u \in Callers : u # q => import'[u].got # w  BY <1>7, <4>1, TokenFacts
      <4>5. QED  BY <2>2, <4>1, <4>3, <4>4 DEF Import!Live
    <3>2. QED  BY <2>2, <3>1 DEF Carried, ImportCarries
  <2>3. QED  BY <1>7, <2>1, <2>2
<1>11. Import!OneAccountPerToken'
    BY <1>0, <1>4, <1>5, <1>6 DEF Import!OneAccountPerToken, Import!Existing
<1>12. (\A j \in Import!Existing : Given(accounts[j].token))'
  <2>1. ASSUME NEW j \in Import!Existing' PROVE Given(accounts[j].token)'
    <3>1. j = i \/ (j \in Import!Existing /\ j # i /\ j \in AccountIds)  BY <1>6 DEF Import!Existing
    <3>2. CASE j = i  BY <1>4, <1>5, <3>2 DEF Given
    <3>3. CASE j \in Import!Existing /\ j # i /\ j \in AccountIds  BY <1>0, <1>5, <3>3 DEF Given
    <3>4. QED  BY <3>1, <3>2, <3>3
  <2>2. QED  BY <2>1
<1>13. \A u \in held' : Given(u)' /\ u.grant \notin Keys  BY <1>0 DEF Given
<1>14. \A k \in Keys : live'[k] = 0  BY DEF Tracked
<1>15. QED  BY <1>8, <1>9, <1>10, <1>11, <1>12, <1>13, <1>14 DEF Tracked

\* What the accounts were already, they are still: the same ones with the same tokens.
LEMMA SameTokens ==
    ASSUME Separate, Tracked, accounts' \in [AccountIds -> Accs], Import!Existing' = Import!Existing,
           \A j \in Import!Existing : accounts'[j].token = accounts[j].token,
           UNCHANGED <<live, held>>, NEW r, import' = import \/ Import!End(r), MutexKept(r),
           mutex = r /\ import' = import => mutex' = r
    PROVE  Tracked'
<1>0. /\ ImportTyped /\ \A q \in Callers : RowOK(q) /\ Carried(q)
      /\ \A u \in held : Given(u) /\ u.grant \notin Keys
      /\ \A j \in Import!Existing : Given(accounts[j].token)
      /\ Import!OneAccountPerToken /\ \A k \in Keys : live[k] = 0
      /\ import \in [Callers -> ImportRows]
    BY DEF Tracked, ImportTyped
<1>2. \A u : Given(u)' <=> Given(u)  BY DEF Given
<1>3. \A q \in Callers : import'[q] = import[q] \/ (q = r /\ import'[q] = Import!Nothing)
    BY <1>0 DEF Import!End
<1>4. ImportTyped'
  <2>1. import' \in [Callers -> ImportRows]  BY <1>0, TokenFacts DEF Import!End
  <2>2. QED  BY <1>0, <2>1 DEF ImportTyped
<1>5. ASSUME NEW q \in Callers PROVE RowOK(q)'
  <2>1. CASE import'[q] = Import!Nothing  BY <2>1, TokenFacts DEF RowOK
  <2>2. CASE import'[q] = import[q] /\ (mutex = q => mutex' = q)  BY <1>2, <2>2, RowStays
  <2>3. CASE import'[q] = import[q] /\ ~(mutex = q => mutex' = q)
    <3>1. q = r /\ import' # import  BY <2>3 DEF MutexKept
    <3>2. import'[q] = Import!Nothing  BY <1>0, <3>1 DEF Import!End
    <3>3. QED  BY <2>1, <3>2
  <2>4. QED  BY <1>3, <2>1, <2>2, <2>3
<1>6. ASSUME NEW q \in Callers PROVE Carried(q)'
  <2>1. CASE import'[q] = Import!Nothing  BY <2>1, TokenFacts DEF Carried, ImportCarries
  <2>2. CASE import'[q] = import[q]
    <3>1. \A j \in Import!Existing' : accounts'[j].token = accounts[j].token  OBVIOUS
    <3>2. \A u \in Callers : import'[u].got \in {import[u].got, Import!NoToken}  BY <1>3, TokenFacts
    <3>3. QED  BY <1>0, <2>2, <3>1, <3>2 DEF Carried, ImportCarries, Import!Live
  <2>3. QED  BY <1>3, <2>1, <2>2
<1>7. Import!OneAccountPerToken'  BY <1>0 DEF Import!OneAccountPerToken
<1>8. (\A j \in Import!Existing : Given(accounts[j].token))'
  <2>1. ASSUME NEW j \in Import!Existing' PROVE Given(accounts[j].token)'
    <3>1. j \in Import!Existing /\ accounts'[j].token = accounts[j].token  OBVIOUS
    <3>2. QED  BY <1>0, <3>1 DEF Given
  <2>2. QED  BY <2>1
<1>9. \A u \in held' : Given(u)' /\ u.grant \notin Keys  BY <1>0 DEF Given
<1>10. QED  BY <1>0, <1>4, <1>5, <1>6, <1>7, <1>8, <1>9 DEF Tracked

LEMMA RefreshTracked == ASSUME Separate, Tracked, NEW i \in AccountIds, Import!RefreshAccount(i) PROVE Tracked'
<1> DEFINE t == accounts[i].token new == [accounts[i] EXCEPT !.token = Import!Rotated(t)]
<1>0. /\ ImportTyped /\ \A q \in Callers : RowOK(q) /\ Carried(q)
      /\ \A u \in held : Given(u) /\ u.grant \notin Keys
      /\ \A j \in Import!Existing : Given(accounts[j].token)
      /\ Import!OneAccountPerToken /\ \A k \in Keys : live[k] = 0
      /\ import \in [Callers -> ImportRows] /\ held \subseteq Toks /\ live \in [Import!Grants -> Nat]
      /\ accounts \in [AccountIds -> Accs]
    BY DEF Tracked, ImportTyped
<1>1. /\ i \in Import!Existing /\ t.grant \notin Keys /\ Import!Live(t) /\ Given(t) /\ t \in Toks
      /\ live' = [live EXCEPT ![t.grant] = @ + 1]
      /\ UNCHANGED <<held, login, mutex, import>>
    BY <1>0 DEF Import!RefreshAccount, Import!Exchange, Given
<1>2. /\ t.grant \in Import!Grants /\ live[t.grant] = t.version /\ t.version \in Nat
      /\ live'[t.grant] = t.version + 1 /\ live' \in [Import!Grants -> Nat]
      /\ \A g \in Import!Grants \ {t.grant} : live'[g] = live[g]
    BY <1>0, <1>1 DEF Import!Live, Toks
<1>3. Import!Rotated(t).grant = t.grant /\ Import!Rotated(t).version = t.version + 1 /\ Import!Rotated(t) \in Toks
    BY <1>2 DEF Import!Rotated, Import!Token, Toks
<1>4. /\ new \in Accs /\ new.token = Import!Rotated(t) /\ new # Import!NoAccount
      /\ new.unverified = accounts[i].unverified
  <2>1. accounts[i] \in Accs  BY <1>0
  <2>2. Import!Rotated(t) \in MayTok /\ Import!Rotated(t) # Import!NoToken  BY <1>3, TokenFacts DEF MayTok
  <2>3. new \in Accs /\ new.token = Import!Rotated(t) /\ new.unverified = accounts[i].unverified
    <3> HIDE DEF t
    <3>1. QED  BY <2>1, <2>2 DEF Accs
  <2>4. QED  BY <2>2, <2>3, TokenFacts
<1>5. accounts' = [accounts EXCEPT ![i] = new]  BY <1>0 DEF Import!RefreshAccount
<1> HIDE DEF new
<1>6. /\ accounts'[i] = new /\ accounts' \in [AccountIds -> Accs]
      /\ \A j \in AccountIds \ {i} : accounts'[j] = accounts[j]
    BY <1>0, <1>4, <1>5
<1>7. Import!Existing' = Import!Existing  BY <1>1, <1>4, <1>6 DEF Import!Existing
<1> HIDE DEF t
<1>8. \A u \in Toks : Given(u) => Given(u)'  BY <1>0, <1>2 DEF Given, Toks
<1>9. \A u \in Toks : Given(u) => u # Import!Rotated(t)  BY <1>2, <1>3 DEF Given
<1>10. ImportTyped'  BY <1>0, <1>1, <1>2, <1>6 DEF ImportTyped
<1>11. \A q \in Callers : RowOK(q)'  BY <1>1, <1>8, RowStays
<1>12. ASSUME NEW q \in Callers PROVE Carried(q)'
  <2>1. ASSUME ImportCarries(q) PROVE
             /\ Import!Live(import[q].got)' /\ import[q].got \notin held' /\ import[q].got.grant \notin Keys
             /\ \A j \in Import!Existing' : accounts'[j].token # import[q].got
             /\ \A u \in Callers : u # q => import'[u].got # import[q].got
    <3> DEFINE w == import[q].got
    <3>0. import[q].at \in ImportPlaces /\ w # Import!NoToken  BY <1>0, <2>1 DEF ImportRows, ImportCarries
    <3>1. /\ Import!Live(w) /\ w \notin held /\ w.grant \notin Keys /\ Given(w) /\ w \in Toks
          /\ \A j \in Import!Existing : accounts[j].token # w
          /\ \A u \in Callers : u # q => import[u].got # w
      <4>1. Given(w)  BY <1>0, <3>0 DEF RowOK, ImportPlaces
      <4>2. QED  BY <1>0, <2>1, <4>1 DEF Carried, Given
    <3>2. w # t  BY <1>1, <3>1 DEF t
    <3>3. w.grant # t.grant
      <4>1. w.grant = t.grant => w.version = t.version  BY <1>2, <3>1 DEF Import!Live
      <4>2. w = Import!Token(w.grant, w.version) /\ t = Import!Token(t.grant, t.version)
          BY <1>1, <3>1 DEF Toks, Import!Token
      <4>3. QED  BY <3>2, <4>1, <4>2
    <3>4. Import!Live(w)'  BY <1>1, <1>2, <3>1, <3>3 DEF Import!Live, Toks
    <3>5. \A j \in Import!Existing' : accounts'[j].token # w
        BY <1>3, <1>4, <1>6, <1>7, <1>9, <3>1 DEF Import!Existing
    <3>6. QED  BY <1>1, <3>1, <3>4, <3>5
  <2>2. QED  BY <1>1, <2>1 DEF Carried, ImportCarries
<1>13. Import!OneAccountPerToken'
  <2>1. \A j \in Import!Existing \ {i} : accounts'[j].token # Import!Rotated(t)
    <3>1. \A j \in Import!Existing \ {i} : accounts'[j] = accounts[j]  BY <1>6 DEF Import!Existing
    <3>2. \A j \in Import!Existing : accounts[j].token \in Toks  BY <1>0 DEF Given
    <3>3. QED  BY <1>0, <1>9, <3>1, <3>2
  <2>2. \A j \in Import!Existing \ {i} : accounts'[j] = accounts[j]  BY <1>6 DEF Import!Existing
  <2>3. QED  BY <1>0, <1>4, <1>6, <1>7, <2>1, <2>2 DEF Import!OneAccountPerToken
<1>14. (\A j \in Import!Existing : Given(accounts[j].token))'
  <2>1. ASSUME NEW j \in Import!Existing' PROVE Given(accounts[j].token)'
    <3>1. CASE j = i
      <4>1. accounts'[j].token = Import!Rotated(t)  BY <1>4, <1>6, <3>1
      <4>2. QED  BY <1>1, <1>2, <1>3, <4>1 DEF Given
    <3>2. CASE j # i
      <4>1. j \in Import!Existing /\ accounts'[j] = accounts[j]  BY <1>6, <1>7, <3>2 DEF Import!Existing
      <4>2. Given(accounts[j].token) /\ accounts[j].token \in Toks  BY <1>0, <4>1 DEF Given
      <4>3. QED  BY <1>2, <4>1, <4>2 DEF Given, Toks
    <3>3. QED  BY <3>1, <3>2
  <2>2. QED  BY <2>1
<1>15. \A u \in held' : Given(u)' /\ u.grant \notin Keys  BY <1>0, <1>1, <1>8
<1>16. \A k \in Keys : live'[k] = 0  BY <1>0, <1>1, <1>2 DEF Import!Grants
<1>17. QED  BY <1>10, <1>11, <1>12, <1>13, <1>14, <1>15, <1>16 DEF Tracked

\* The operator exports a token, or deletes an account.
LEMMA ExportTracked == ASSUME Separate, Tracked, NEW i \in AccountIds, Import!ExportAccounts(i) PROVE Tracked'
<1>0. /\ ImportTyped /\ \A q \in Callers : RowOK(q) /\ Carried(q)
      /\ \A u \in held : Given(u) /\ u.grant \notin Keys
      /\ \A j \in Import!Existing : Given(accounts[j].token)
      /\ Import!OneAccountPerToken /\ \A k \in Keys : live[k] = 0
    BY DEF Tracked
<1> DEFINE t == accounts[i].token
<1>1. /\ i \in Import!Existing /\ held' = held \cup {t} /\ t.grant \notin Keys /\ Given(t) /\ t \in Toks
      /\ UNCHANGED <<live, accounts, login, mutex, import>>
    BY <1>0 DEF Import!ExportAccounts, Given
<1>2. ImportTyped'  BY <1>0, <1>1 DEF ImportTyped
<1>3. \A u : Given(u)' <=> Given(u)  BY <1>1 DEF Given
<1>4. \A q \in Callers : RowOK(q)'  BY <1>1, <1>3, RowStays
<1>5. \A q \in Callers : Carried(q)'
    BY <1>0, <1>1 DEF Carried, ImportCarries, Import!Live, Import!Existing
<1>6. Import!OneAccountPerToken' /\ (\A j \in Import!Existing : Given(accounts[j].token))'
    BY <1>0, <1>1 DEF Import!OneAccountPerToken, Import!Existing, Given
<1>7. \A u \in held' : Given(u)' /\ u.grant \notin Keys  BY <1>0, <1>1, <1>3
<1>8. QED  BY <1>0, <1>1, <1>2, <1>4, <1>5, <1>6, <1>7 DEF Tracked

LEMMA DeleteTracked == ASSUME Separate, Tracked, NEW i \in AccountIds, Import!DeleteAccount(i) PROVE Tracked'
<1>0. /\ ImportTyped /\ \A q \in Callers : RowOK(q) /\ Carried(q)
      /\ \A u \in held : Given(u) /\ u.grant \notin Keys
      /\ \A j \in Import!Existing : Given(accounts[j].token)
      /\ Import!OneAccountPerToken /\ \A k \in Keys : live[k] = 0
      /\ accounts \in [AccountIds -> Accs]
    BY DEF Tracked, ImportTyped
<1>1. /\ accounts' = [accounts EXCEPT ![i] = Import!NoAccount]
      /\ UNCHANGED <<live, held, login, mutex, import>>
    BY DEF Import!DeleteAccount
<1>2. /\ accounts' \in [AccountIds -> Accs] /\ accounts'[i] = Import!NoAccount
      /\ \A j \in AccountIds \ {i} : accounts'[j] = accounts[j]
    BY <1>0, <1>1, TokenFacts
<1>3. \A j \in Import!Existing' : j \in Import!Existing /\ accounts'[j] = accounts[j]
    BY <1>2 DEF Import!Existing
<1>4. ImportTyped'  BY <1>0, <1>1, <1>2 DEF ImportTyped
<1>5. \A u : Given(u)' <=> Given(u)  BY <1>1 DEF Given
<1>6. \A q \in Callers : RowOK(q)'  BY <1>1, <1>5, RowStays
<1>7. \A q \in Callers : Carried(q)'
    BY <1>0, <1>1, <1>3 DEF Carried, ImportCarries, Import!Live
<1>8. Import!OneAccountPerToken'  BY <1>0, <1>3 DEF Import!OneAccountPerToken
<1>9. (\A j \in Import!Existing : Given(accounts[j].token))'
    BY <1>0, <1>1, <1>3 DEF Given
<1>10. \A u \in held' : Given(u)' /\ u.grant \notin Keys  BY <1>0, <1>1, <1>5
<1>11. QED  BY <1>0, <1>1, <1>4, <1>6, <1>7, <1>8, <1>9, <1>10 DEF Tracked

----------------------------------------------------------------------------
\* What a step can be, as far as tokens are concerned.

\* A request's new token is kept, unless a pinned profile or the local cache is in play.
Handed(r) == \/ import[r].got = Import!NoToken \/ import[r].got \in held' \/ import[r].got.grant \notin Pasted
             \/ import'[r].got = import[r].got \/ "pin" \in importMix \/ import[r].path = "local"

ImportMoves(r, x) ==
    /\ x \in ImportRows /\ import' = [import EXCEPT ![r] = x]
    /\ UNCHANGED <<live, accounts>> /\ held \subseteq held' /\ RowOK(r)' /\ ImportBrings(r, x)
    /\ MutexKept(r)
    /\ \A t \in held' \ held : /\ t = import[r].got /\ t \notin {Import!NoToken, import[r].sent}
                               /\ x.got = Import!NoToken /\ Given(t)
    /\ Handed(r) /\ (x.path = "local" => import[r].path = "local" \/ "local" \in importMix)
    /\ x.path = "import" /\ x.at = "exchange" => \A i \in Import!Existing : accounts[i].token # x.sent

Exchanges(r, x, t) ==
    /\ x \in ImportRows /\ import' = [import EXCEPT ![r] = x] /\ RowOK(r)' /\ MutexKept(r)
    /\ UNCHANGED <<accounts, held>>
    /\ t \in Toks /\ t.grant \notin Keys /\ Import!Live(t) /\ live' = [live EXCEPT ![t.grant] = @ + 1]
    /\ x.got = Import!Rotated(t) /\ import[r].got = Import!NoToken /\ x.at # "exchange"
    /\ x.path = "local" => import[r].path = "local"
    /\ \/ import[r].at = "exchange" /\ t = import[r].sent /\ t \in held
          /\ import[r].path \in {"import", "local"}
       \/ t.grant \in Devices /\ t.version = 0

Adds(r, t, print, unverified, i) ==
    /\ Given(t) /\ print \in MayTok /\ unverified \in BOOLEAN /\ i \in AccountIds \ Import!Existing
    /\ accounts' = [accounts EXCEPT ![i] =
               [token |-> t, print |-> print, unverified |-> unverified, edits |-> 0]]
    /\ \A j \in Import!Existing : accounts[j].token # t
    /\ UNCHANGED <<live, held>>
    /\ \/ (t \in held \/ IsKey(t)) /\ UNCHANGED <<import, mutex>> /\ r = Nobody
       \/ r \in Callers /\ import[r].got = t /\ Import!End(r) /\ MutexKept(r)
    /\ unverified \/ (t \notin held /\ Import!Live(t))

Writes(r) ==
    /\ accounts' \in [AccountIds -> Accs] /\ Import!Existing' = Import!Existing
    /\ \A j \in Import!Existing : /\ accounts'[j].token = accounts[j].token
                                  /\ accounts'[j].unverified = accounts[j].unverified
    /\ UNCHANGED <<live, held, mutex>> /\ Import!End(r) /\ import[r].got = Import!NoToken

Effects ==
    \/ \E r \in Callers, x \in ImportRows : ImportMoves(r, x) \/ \E t \in Toks : Exchanges(r, x, t)
    \/ \E r \in Callers \cup {Nobody}, t \in Toks, print \in MayTok, u \in BOOLEAN, i \in AccountIds : Adds(r, t, print, u, i)
    \/ \E r \in Callers : Writes(r)
    \/ \E i \in AccountIds : Import!RefreshAccount(i) \/ Import!ExportAccounts(i) \/ Import!DeleteAccount(i)
    \/ UNCHANGED <<live, accounts, held, mutex, import>>

LEMMA EffectsTracked == ASSUME Separate, Tracked, Effects PROVE Tracked'
<1>0. import \in [Callers -> ImportRows]  BY DEF Tracked, ImportTyped
<1>1. ASSUME NEW r \in Callers, NEW x \in ImportRows, ImportMoves(r, x) PROVE Tracked'
    BY <1>1, MoveTracked DEF ImportMoves
<1>2. ASSUME NEW r \in Callers, NEW x \in ImportRows, NEW t \in Toks, Exchanges(r, x, t) PROVE Tracked'
  <2>1. \A q \in Callers : ImportCarries(q) => import[q].got # t
    <3>1. CASE t \in held  BY <3>1 DEF Tracked, Carried
    <3>2. CASE t.grant \in Devices /\ t.version = 0
      <4>1. \A q \in Callers : ImportCarries(q) => Given(import[q].got)
          BY <1>0 DEF Tracked, RowOK, ImportCarries, ImportRows, ImportPlaces
      <4>2. QED  BY <3>2, <4>1 DEF Given
    <3>3. QED  BY <1>2, <3>1, <3>2 DEF Exchanges
  <2>2. QED  BY <1>2, <2>1, ExchangeTracked DEF Exchanges
<1>3. ASSUME NEW r \in Callers \cup {Nobody}, NEW t \in Toks, NEW print \in MayTok, NEW u \in BOOLEAN, NEW i \in AccountIds,
             Adds(r, t, print, u, i) PROVE Tracked'
  <2>1. /\ Given(t) /\ i \in AccountIds \ Import!Existing /\ UNCHANGED <<live, held>> /\ \A j \in Import!Existing : accounts[j].token # t
        /\ accounts' = [accounts EXCEPT ![i] = [token |-> t, print |-> print, unverified |-> u, edits |-> 0]]
      BY <1>3 DEF Adds
  <2>2. CASE (t \in held \/ IsKey(t)) /\ UNCHANGED <<import, mutex>> /\ r = Nobody
    <3>1. MutexKept(r)  BY <2>2 DEF MutexKept
    <3>2. QED  BY <2>1, <2>2, <3>1, AddTracked
  <2>3. CASE r \in Callers /\ import[r].got = t /\ Import!End(r) /\ MutexKept(r)
    <3>1. Given(import[r].got)  BY <2>1, <2>3
    <3>2. import' # import
      <4>1. import'[r] = Import!Nothing  BY <1>0, <2>3 DEF Import!End
      <4>2. import[r].got # Import!NoToken  BY <3>1, TokenFacts DEF Given
      <4>3. QED  BY <4>1, <4>2, TokenFacts
    <3>3. QED  BY <2>1, <2>3, <3>2, AddTracked
  <2>4. QED  BY <1>3, <2>2, <2>3 DEF Adds
<1>4. ASSUME NEW r \in Callers, Writes(r) PROVE Tracked'
  <2>1. MutexKept(r) /\ (mutex = r => mutex' = r)  BY <1>4 DEF Writes, MutexKept
  <2>2. QED  BY <1>4, <2>1, SameTokens DEF Writes
<1>5. ASSUME NEW i \in AccountIds, Import!RefreshAccount(i) \/ Import!ExportAccounts(i) \/ Import!DeleteAccount(i) PROVE Tracked'
    BY <1>5, RefreshTracked, ExportTracked, DeleteTracked
<1>6. CASE UNCHANGED <<live, accounts, held, mutex, import>>
  <2>1. UNCHANGED live /\ UNCHANGED accounts /\ UNCHANGED held /\ UNCHANGED mutex /\ UNCHANGED import
      BY <1>6
  <2>2. \A q \in Callers : RowOK(q)' /\ Carried(q)'
      BY <2>1 DEF Tracked, RowOK, Carried, ImportCarries, Given, Import!Live, Import!Existing
  <2>3. QED  BY <2>1, <2>2 DEF Tracked, ImportTyped, Given, Import!Existing, Import!OneAccountPerToken
<1>7. QED  BY <1>1, <1>2, <1>3, <1>4, <1>5, <1>6 DEF Effects

LEMMA ImportEndMoves ==
    ASSUME Separate, Tracked, NEW r \in Callers, Import!End(r), UNCHANGED <<live, accounts>>, MutexKept(r), Handed(r),
           held \subseteq held',
           \A t \in held' \ held : t = import[r].got /\ t \notin {Import!NoToken, import[r].sent} /\ Given(t)
    PROVE  Effects
<1>1. import' = [import EXCEPT ![r] = Import!Nothing] /\ import'[r] = Import!Nothing
    BY DEF Import!End, Tracked, ImportTyped
<1>2. RowOK(r)' /\ ImportBrings(r, Import!Nothing)  BY <1>1, TokenFacts DEF RowOK, ImportBrings
<1>3. ImportMoves(r, Import!Nothing)  BY <1>1, <1>2, TokenFacts DEF ImportMoves
<1>4. QED  BY <1>3, TokenFacts DEF Effects

LEMMA ReleaseKeeps == ASSUME Separate, NEW r, Import!Release(r) \/ mutex' = mutex \/ mutex = Nobody PROVE MutexKept(r)
BY DEF Import!Release, MutexKept, Separate

LEMMA KeyTokens == ASSUME Separate, Tracked, NEW k \in Keys PROVE
    /\ Import!Token(k, 0) \in Toks /\ IsKey(Import!Token(k, 0)) /\ Given(Import!Token(k, 0))
    /\ Import!Token(k, 0).grant = k
    /\ Import!Live(Import!Token(k, 0)) /\ Import!Token(k, 0) \notin held
    /\ Import!Token(k, 0) # Import!NoToken
<1>1. Import!Token(k, 0) \in Toks /\ Import!Token(k, 0).grant = k /\ Import!Token(k, 0).version = 0
    BY DEF Import!Token, Toks, Import!Grants
<1>2. live[k] = 0 /\ k # Nobody /\ \A t \in held : t.grant \notin Keys
    BY DEF Tracked, Separate, Import!Grants
<1>3. k \notin Devices  BY DEF Separate
<1>4. QED  BY <1>1, <1>2, <1>3, TokenFacts DEF IsKey, Given, Import!Live

LEMMA HeldTokens == ASSUME Separate, Tracked, NEW t \in held PROVE
    t \in Toks /\ Given(t) /\ t # Import!NoToken /\ t.grant \notin Keys
BY TokenFacts DEF Tracked, ImportTyped

LEMMA RequestEffects ==
    ASSUME Separate, Tracked, NEW r \in Callers,
           \/ Import!ImportCredentials(r) \/ Import!LockAndCheck(r) \/ Import!ImportLocalCache(r)
           \/ Import!VerifyProfile(r)
           \/ Import!ImportApiKeys(r)
    PROVE  Effects
<1>0. /\ import[r] \in ImportRows /\ RowOK(r) /\ import \in [Callers -> ImportRows] /\ Import!Nothing \in ImportRows
      /\ Import!Nothing.got = Import!NoToken /\ Import!Nothing.at = "idle" /\ ~Import!Nothing.unverified
      /\ held \subseteq Toks
    BY TokenFacts DEF Tracked, ImportTyped
<1>1. CASE Import!ImportCredentials(r)
  <2>1. PICK t \in held \cup {Import!Token(k, 0) : k \in Keys} :
          import' = [import EXCEPT ![r] = [Import!Nothing EXCEPT !.path = "import", !.at = "lock", !.sent = t]]
      BY <1>1 DEF Import!ImportCredentials
  <2> DEFINE x == [Import!Nothing EXCEPT !.path = "import", !.at = "lock", !.sent = t]
  <2>2. t \in MayTok /\ (t \in held \/ IsKey(t))
      BY <1>0, KeyTokens DEF MayTok
  <2>3. x \in ImportRows /\ ~x.unverified /\ x.path = "import" /\ x.at = "lock" /\ x.sent = t /\ x.got = Import!NoToken
      BY <1>0, <2>2 DEF ImportRows, Paths, ImportPlaces
  <2>4. UNCHANGED <<live, accounts, held, login, mutex>>  BY <1>1 DEF Import!ImportCredentials
  <2> HIDE DEF x
  <2>5. import'[r] = x  BY <1>0, <2>1 DEF x
  <2>6. RowOK(r)'  BY <2>2, <2>3, <2>4, <2>5 DEF RowOK
  <2>7. import[r].got = Import!NoToken  BY <1>0, <1>1 DEF Import!ImportCredentials, RowOK
  <2>8. ImportMoves(r, x)
      BY <2>1, <2>3, <2>4, <2>6, <2>7 DEF ImportMoves, ImportBrings, MutexKept, Handed, x
  <2>9. QED  BY <2>3, <2>8 DEF Effects
<1>2. CASE Import!ImportLocalCache(r)
  <2>1. PICK t \in held : import' =
          [import EXCEPT ![r] = [Import!Nothing EXCEPT !.path = "local", !.at = "exchange", !.sent = t]]
      BY <1>2 DEF Import!ImportLocalCache
  <2> DEFINE x == [Import!Nothing EXCEPT !.path = "local", !.at = "exchange", !.sent = t]
  <2>2. t \in MayTok /\ t \in held  BY <1>0 DEF MayTok
  <2>3. x \in ImportRows /\ ~x.unverified /\ x.path = "local" /\ x.at = "exchange" /\ x.sent = t /\ x.got = Import!NoToken
      BY <1>0, <2>2 DEF ImportRows, Paths, ImportPlaces
  <2>4. UNCHANGED <<live, accounts, held, login, mutex>>  BY <1>2 DEF Import!ImportLocalCache
  <2> HIDE DEF x
  <2>5. import'[r] = x  BY <1>0, <2>1 DEF x
  <2>6. RowOK(r)'  BY <2>2, <2>3, <2>4, <2>5 DEF RowOK
  <2>7. import[r].got = Import!NoToken  BY <1>0, <1>2 DEF Import!ImportLocalCache, RowOK
  <2>8. ImportMoves(r, x)
      BY <1>2, <2>1, <2>3, <2>4, <2>6, <2>7 DEF ImportMoves, ImportBrings, MutexKept, Handed, x,
         Import!ImportLocalCache
  <2>9. QED  BY <2>3, <2>8 DEF Effects
<1>3. CASE Import!ImportApiKeys(r)
  <2>1. PICK k \in Keys : import' = [import EXCEPT ![r] =
            [Import!Nothing EXCEPT !.path = "keys", !.at = "add", !.sent = Import!Token(k, 0), !.got = Import!Token(k, 0)]]
      BY <1>3 DEF Import!ImportApiKeys
  <2> DEFINE t == Import!Token(k, 0) x == [Import!Nothing EXCEPT !.path = "keys", !.at = "add", !.sent = t, !.got = t]
  <2>2. t \in MayTok /\ IsKey(t) /\ Given(t)  BY KeyTokens DEF MayTok
  <2> HIDE DEF t
  <2>3. x \in ImportRows /\ x.path = "keys" /\ x.at = "add" /\ x.sent = t /\ x.got = t
      BY <1>0, <2>2 DEF ImportRows, Paths, ImportPlaces
  <2>4. UNCHANGED <<live, accounts, held, login, mutex>>  BY <1>3 DEF Import!ImportApiKeys
  <2>5. import' = [import EXCEPT ![r] = x]  BY <2>1 DEF t
  <2> HIDE DEF x
  <2>6. import'[r] = x  BY <1>0, <2>5
  <2>7. RowOK(r)'  BY <2>2, <2>3, <2>4, <2>6 DEF RowOK, Given
  <2>8. import[r].got = Import!NoToken  BY <1>0, <1>3 DEF Import!ImportApiKeys, RowOK
  <2>9. ImportMoves(r, x)
      BY <2>2, <2>3, <2>4, <2>5, <2>7, <2>8 DEF ImportMoves, ImportBrings, MutexKept, Handed
  <2>10. QED  BY <2>3, <2>9 DEF Effects
<1>4. CASE Import!LockAndCheck(r)
  <2> DEFINE t == import[r].sent
  <2>1. /\ mutex = Nobody /\ import[r].path = "import" /\ import[r].at = "lock" /\ import[r].got = Import!NoToken
        /\ t \in held \/ IsKey(t)
        /\ UNCHANGED <<live, accounts, held>>
      BY <1>0, <1>4 DEF Import!LockAndCheck, RowOK, Import!On
  <2>2. MutexKept(r) /\ Handed(r)  BY <2>1, ReleaseKeeps DEF Handed
  <2>3. CASE Import!End(r)  BY <2>1, <2>2, <2>3, ImportEndMoves
  <2>4. CASE t.grant \notin Keys /\ ~Import!AccountCredentialExists(t) /\ Import!Go(r, "exchange") /\ mutex' = r
    <3> DEFINE x == [import[r] EXCEPT !.at = "exchange"]
    <3>1. x \in ImportRows /\ ~x.unverified /\ x.path = "import" /\ x.at = "exchange" /\ x.sent = t /\ x.got = Import!NoToken
        BY <1>0, <2>1 DEF ImportRows, ImportPlaces, RowOK
    <3>2. import' = [import EXCEPT ![r] = x]  BY <1>0, <2>4 DEF Import!Go
    <3> HIDE DEF x
    <3>3. import'[r] = x  BY <1>0, <3>2
    <3>4. t \in held  BY <2>1, <2>4 DEF IsKey
    <3>5. RowOK(r)'  BY <2>1, <2>4, <3>1, <3>3, <3>4 DEF RowOK
    <3>6. \A i \in Import!Existing : accounts[i].token # x.sent
        BY <2>4, <3>1 DEF Import!AccountCredentialExists
    <3>7. ImportMoves(r, x)  BY <2>1, <2>2, <3>1, <3>2, <3>5, <3>6 DEF ImportMoves, ImportBrings
    <3>8. QED  BY <3>1, <3>7 DEF Effects
  <2>5. CASE t.grant \in Keys /\ mutex' = r /\ import' = [import EXCEPT ![r].at = "add", ![r].got = t]
    <3> DEFINE x == [import[r] EXCEPT !.at = "add", !.got = t]
    <3>0. IsKey(t) /\ Given(t)
        BY <2>1, <2>5, HeldTokens, KeyTokens DEF IsKey
    <3>1. x \in ImportRows /\ x.path = "import" /\ x.at = "add" /\ x.sent = t /\ x.got = t
        BY <1>0, <2>1 DEF ImportRows, ImportPlaces
    <3>2. import' = [import EXCEPT ![r] = x]  BY <1>0, <2>5
    <3> HIDE DEF x
    <3>3. import'[r] = x  BY <1>0, <3>2
    <3>5. RowOK(r)'  BY <2>1, <2>5, <3>0, <3>1, <3>3 DEF RowOK, Given
    <3>7. ImportMoves(r, x)  BY <2>1, <2>2, <3>0, <3>1, <3>2, <3>5 DEF ImportMoves, ImportBrings
    <3>8. QED  BY <3>1, <3>7 DEF Effects
  <2>6. QED  BY <1>4, <2>3, <2>4, <2>5 DEF Import!LockAndCheck
<1>5. CASE Import!VerifyProfile(r)
  <2>1. UNCHANGED <<live, accounts, held>> /\ import[r].at = "verify" /\ import[r].path \in {"import", "local"}
      BY <1>5 DEF Import!VerifyProfile, Import!On
  <2>2. CASE Import!Go(r, "add") /\ UNCHANGED mutex
    <3> DEFINE x == [import[r] EXCEPT !.at = "add"]
    <3>1. /\ x \in ImportRows /\ x.path = import[r].path /\ x.at = "add" /\ x.sent = import[r].sent
          /\ x.got = import[r].got /\ x.unverified = import[r].unverified
        BY <1>0 DEF ImportRows, ImportPlaces
    <3>2. import' = [import EXCEPT ![r] = x]  BY <1>0, <2>2 DEF Import!Go
    <3> HIDE DEF x
    <3>3. import'[r] = x  BY <1>0, <3>2
    <3>4. RowOK(r)'  BY <1>0, <2>1, <2>2, <3>1, <3>3 DEF RowOK, Given
    <3>5. ImportMoves(r, x)
        BY <2>1, <2>2, <3>1, <3>2, <3>3, <3>4 DEF ImportMoves, ImportBrings, MutexKept, Handed
    <3>6. QED  BY <3>1, <3>5 DEF Effects
  <2>3. CASE "pin" \in importMix /\ Import!End(r) /\ Import!Release(r)
    BY <2>1, <2>3, ReleaseKeeps, ImportEndMoves DEF Handed
  <2>4. QED  BY <1>5, <2>2, <2>3 DEF Import!VerifyProfile
<1>6. QED  BY <1>1, <1>2, <1>3, <1>4, <1>5

LEMMA ExchangeEffects ==
    ASSUME Separate, Tracked, NEW r \in Callers, Import!ExchangeImported(r) PROVE Effects
<1>0. /\ import[r] \in ImportRows /\ RowOK(r) /\ import \in [Callers -> ImportRows] /\ held \subseteq Toks
      /\ import[r].path \in {"import", "local"} /\ import[r].at = "exchange" /\ import[r].sent \in held
      /\ import[r].got = Import!NoToken /\ ~import[r].unverified
      /\ UNCHANGED <<accounts, held>>
  <2>1. /\ import[r] \in ImportRows /\ RowOK(r) /\ import \in [Callers -> ImportRows] /\ held \subseteq Toks
        /\ import[r].path \in {"import", "local"} /\ import[r].at = "exchange"
        /\ UNCHANGED <<accounts, held>>
      BY DEF Tracked, ImportTyped, Import!ExchangeImported, Import!On
  <2>2. import[r].got = Import!NoToken /\ import[r].sent \in held /\ ~import[r].unverified
      BY <2>1 DEF RowOK
  <2>3. QED  BY <2>1, <2>2
<1>t. PICK t \in held : t = import[r].sent  BY <1>0
<1>h. Given(t) /\ t \in Toks /\ t # Import!NoToken /\ t.grant \notin Keys  BY HeldTokens
<1>1. MutexKept(r) \/ ~(Import!Release(r) \/ mutex' = mutex)  BY ReleaseKeeps
<1>2. CASE Import!Exchange(t) /\ UNCHANGED mutex
           /\ import' = [import EXCEPT ![r].at = "verify", ![r].got = Import!Rotated(t)]
  <2>1. /\ Import!Live(t) /\ live' = [live EXCEPT ![t.grant] = @ + 1] /\ t.grant \in Import!Grants /\ t.version \in Nat
        /\ live[t.grant] = t.version /\ live \in [Import!Grants -> Nat]
      BY <1>h, <1>2 DEF Import!Exchange, Import!Live, Toks, Tracked, ImportTyped
  <2>2a. Import!Rotated(t) \in Toks /\ Import!Rotated(t).grant = t.grant /\ Import!Rotated(t).version = t.version + 1
      BY <2>1 DEF Import!Rotated, Import!Token, Toks
  <2>2. PICK w \in Toks : w = Import!Rotated(t) /\ w.grant = t.grant /\ w.version = t.version + 1
      BY <2>2a
  <2> DEFINE x == [import[r] EXCEPT !.at = "verify", !.got = w]
  <2>3. import' = [import EXCEPT ![r] = x]  BY <1>0, <1>2, <2>2
  <2>4. Given(w)' /\ w # t /\ w # Import!NoToken
    <3>1. live'[t.grant] = t.version + 1  BY <2>1
    <3>2. QED  BY <1>h, <2>1, <2>2, <3>1, TokenFacts DEF Given
  <2>5. /\ x \in ImportRows /\ x.path = import[r].path /\ x.at = "verify" /\ x.sent = t /\ x.got = w
        /\ x.unverified = import[r].unverified
      BY <1>0, <1>t, <2>2 DEF ImportRows, ImportPlaces, MayTok
  <2> HIDE DEF x
  <2>6. import'[r] = x  BY <1>0, <2>3
  <2>7. Given(import[r].got)'  BY <2>4, <2>5, <2>6 DEF Given
  <2>8. RowOK(r)'
    <3>1. import[r].path = "import" => mutex = r  BY <1>0 DEF RowOK
    <3>2. /\ import'[r].path = import[r].path /\ import'[r].at = "verify" /\ import'[r].sent = t
          /\ import'[r].got = w /\ ~import'[r].unverified /\ held' = held /\ mutex' = mutex
        BY <1>0, <1>2, <2>5, <2>6
    <3>3. QED  BY <1>0, <1>t, <2>4, <2>7, <3>1, <3>2 DEF RowOK
  <2>9. Exchanges(r, x, t)
      BY <1>0, <1>h, <1>t, <1>1, <1>2, <2>1, <2>2, <2>3, <2>5, <2>8 DEF Exchanges
  <2>10. QED  BY <1>h, <2>5, <2>9 DEF Effects
<1>3. CASE /\ import' = [import EXCEPT ![r].at = "verify", ![r].got = t, ![r].unverified = TRUE]
           /\ UNCHANGED <<live, mutex>>
  <2> DEFINE x == [import[r] EXCEPT !.at = "verify", !.got = t, !.unverified = TRUE]
  <2>1. import' = [import EXCEPT ![r] = x]  BY <1>0, <1>3
  <2>2. /\ x \in ImportRows /\ x.path = import[r].path /\ x.at = "verify" /\ x.sent = t /\ x.got = t
        /\ x.unverified
      BY <1>0, <1>t DEF ImportRows, ImportPlaces, MayTok
  <2> HIDE DEF x
  <2>3. import'[r] = x  BY <1>0, <2>1
  <2>4. Given(t)'  BY <1>h, <1>3 DEF Given
  <2>5. RowOK(r)'  BY <1>0, <1>t, <1>3, <2>2, <2>3, <2>4 DEF RowOK, Given
  <2>6. ImportMoves(r, x)  BY <1>0, <1>t, <1>1, <1>3, <2>1, <2>2, <2>5 DEF ImportMoves, ImportBrings, Handed
  <2>7. QED  BY <2>2, <2>6 DEF Effects
<1>4. CASE Import!End(r) /\ Import!Release(r) /\ UNCHANGED live
  <2>1. MutexKept(r) /\ Handed(r)  BY <1>0, <1>1, <1>4 DEF Handed
  <2>2. QED  BY <1>0, <1>4, <2>1, ImportEndMoves
<1>5. QED  BY <1>t, <1>2, <1>3, <1>4 DEF Import!ExchangeImported

LEMMA AddEffects ==
    ASSUME Separate, Tracked, NEW r \in Callers, NEW print \in MayTok, NEW u \in BOOLEAN, Import!AddAccount(import[r].got, print, u),
           import[r].at = "add", u \/ import[r].got # import[r].sent \/ IsKey(import[r].got),
           UNCHANGED <<live, held>>, Import!End(r), MutexKept(r)
    PROVE  Effects
<1> DEFINE t == import[r].got
<1>1. Given(t) /\ t \in Toks /\ t # Import!NoToken
    BY TokenFacts DEF Tracked, RowOK, Given
<1>2. PICK i \in AccountIds \ Import!Existing :
          accounts' = [accounts EXCEPT ![i] = [token |-> t, print |-> print, unverified |-> u, edits |-> 0]]
    BY DEF Import!AddAccount
<1>3. \A j \in Import!Existing : accounts[j].token # t  BY DEF Import!AddAccount, Import!Duplicate
<1>4. u \/ (t \notin held /\ Import!Live(t))
  <2>1. CASE import[r].got # import[r].sent  BY <1>1, <2>1 DEF Tracked, Carried, ImportCarries
  <2>2. CASE IsKey(t)  BY <2>2, KeyTokens DEF IsKey
  <2>3. QED  BY <2>1, <2>2
<1>5. Adds(r, t, print, u, i)  BY <1>1, <1>2, <1>3, <1>4 DEF Adds
<1>6. QED  BY <1>1, <1>2, <1>5 DEF Effects

LEMMA AddRowEffects ==
    ASSUME Separate, Tracked, NEW r \in Callers, Import!AddImported(r) \/ Import!AddKey(r) \/ Import!AddLogin(r) PROVE Effects
<1>0. /\ import[r] \in ImportRows /\ RowOK(r) /\ Carried(r) /\ import[r].sent \in MayTok /\ import[r].got \in MayTok
      /\ import[r].unverified \in BOOLEAN
    BY DEF Tracked, ImportTyped, ImportRows
<1>1. import[r].at = "add" /\ Import!End(r) /\ UNCHANGED live
    BY DEF Import!AddImported, Import!AddKey, Import!AddLogin, Import!On
<1>2. Given(import[r].got) /\ import[r].got # Import!NoToken  BY <1>0, <1>1, TokenFacts DEF RowOK, Given
<1>3. CASE Import!AddImported(r)
  <2>0. MutexKept(r) /\ import[r].path \in {"import", "local"}
      BY <1>3, ReleaseKeeps DEF Import!AddImported, Import!On
  <2>1. import[r].unverified \/ import[r].got # import[r].sent \/ IsKey(import[r].got)
      BY <1>0, <1>1, <2>0 DEF RowOK, LoginPaths
  <2>2. CASE Import!AddAccount(import[r].got, import[r].sent, import[r].unverified) /\ UNCHANGED held
      BY <1>0, <1>1, <2>0, <2>1, <2>2, AddEffects
  <2>3. CASE Import!AddRefused(import[r].got, import[r].sent) /\ held' = held \cup Import!Returned(r)
    <3>1. UNCHANGED accounts /\ held \subseteq held'  BY <2>3 DEF Import!AddRefused
    <3>2. \A t \in held' \ held : t = import[r].got /\ t \notin {Import!NoToken, import[r].sent} /\ Given(t)
        BY <1>2, <2>3 DEF Import!Returned
    <3>3. Handed(r)
      <4>1. CASE import[r].path = "local"  BY <4>1 DEF Handed
      <4>2. CASE import[r].path = "import" /\ import[r].got # import[r].sent
          BY <2>3, <4>2 DEF Handed, Import!Returned
      <4>3. CASE import[r].path = "import" /\ import[r].got = import[r].sent
        <5>1. import[r].sent \in held \/ IsKey(import[r].got)  BY <1>0, <1>1, <4>3 DEF RowOK, LoginPaths
        <5>2. QED  BY <3>1, <4>3, <5>1 DEF Handed, IsKey, Separate
      <4>4. QED  BY <2>0, <4>1, <4>2, <4>3
    <3>4. QED  BY <1>1, <2>0, <3>1, <3>2, <3>3, ImportEndMoves
  <2>4. QED  BY <1>3, <2>2, <2>3 DEF Import!AddImported
<1>4. CASE Import!AddKey(r)
  <2>0. UNCHANGED <<held, mutex>> /\ import[r].path = "keys"  BY <1>4 DEF Import!AddKey, Import!On
  <2>1. IsKey(import[r].got) /\ MutexKept(r)  BY <1>0, <1>1, <2>0 DEF RowOK, LoginPaths, MutexKept
  <2>2. CASE Import!AddAccount(import[r].got, import[r].sent, FALSE)
      BY <1>0, <1>1, <2>0, <2>1, <2>2, AddEffects
  <2>3. CASE Import!AddRefused(import[r].got, import[r].sent)
    <3>1. UNCHANGED accounts /\ Handed(r)  BY <2>1, <2>3 DEF Import!AddRefused, Handed, IsKey, Separate
    <3>2. QED  BY <1>1, <2>0, <2>1, <3>1, ImportEndMoves
  <2>4. QED  BY <1>4, <2>2, <2>3 DEF Import!AddKey
<1>5. CASE Import!AddLogin(r)
  <2>0. UNCHANGED <<held, mutex>> /\ import[r].path \in LoginPaths
      BY <1>5 DEF Import!AddLogin, Import!On, LoginPaths
  <2>1. import[r].got.grant \in Devices /\ import[r].sent = Import!Token(import[r].got.grant, 0) /\ MutexKept(r)
      BY <1>0, <1>1, <2>0 DEF RowOK, LoginPaths, MutexKept
  <2>2. import[r].got # import[r].sent
    <3>1. import[r].got.version >= 1 /\ import[r].sent.version = 0  BY <1>2, <2>1 DEF Given, Import!Token
    <3>2. QED  BY <3>1
  <2>3. CASE Import!AddAccount(import[r].got, import[r].got, FALSE)
      BY <1>0, <1>1, <2>0, <2>1, <2>2, <2>3, AddEffects
  <2>4. CASE Import!AddRefused(import[r].got, import[r].got)
    <3>1. UNCHANGED accounts /\ Handed(r)  BY <2>1, <2>4 DEF Import!AddRefused, Handed, Separate
    <3>2. QED  BY <1>1, <2>0, <2>1, <3>1, ImportEndMoves
  <2>5. QED  BY <1>5, <2>3, <2>4 DEF Import!AddLogin
<1>6. QED  BY <1>3, <1>4, <1>5

LEMMA PastedEffects == ASSUME Separate, Tracked, Import!AddPasted PROVE Effects
<1>1. PICK t \in held \cup {Import!Token(k, 0) : k \in Keys} : Import!AddAccount(t, t, TRUE) \/ Import!AddRefused(t, t)
    BY DEF Import!AddPasted
<1>2. UNCHANGED <<live, held, login, mutex, import>>  BY DEF Import!AddPasted
<1>3. CASE Import!AddRefused(t, t)  BY <1>2, <1>3 DEF Import!AddRefused, Effects
<1>4. CASE Import!AddAccount(t, t, TRUE)
  <2>1. Given(t) /\ t \in Toks /\ t \in MayTok /\ (t \in held \/ IsKey(t))
      BY KeyTokens, HeldTokens DEF MayTok
  <2>2. PICK i \in AccountIds \ Import!Existing :
          accounts' = [accounts EXCEPT ![i] = [token |-> t, print |-> t, unverified |-> TRUE, edits |-> 0]]
      BY <1>4 DEF Import!AddAccount
  <2>3. \A j \in Import!Existing : accounts[j].token # t  BY <1>4 DEF Import!AddAccount, Import!Duplicate
  <2>4. Adds(Nobody, t, t, TRUE, i)  BY <1>2, <2>1, <2>2, <2>3 DEF Adds
  <2>5. QED  BY <2>1, <2>2, <2>4 DEF Effects
<1>5. QED  BY <1>1, <1>3, <1>4

\* A device or code login: its code is exchanged for the grant's first token.
LEMMA ObtainEffects ==
    ASSUME Separate, Tracked, NEW r \in Callers, NEW x \in ImportRows, NEW g \in Devices, NEW w,
           w = Import!Rotated(Import!Token(g, 0)), Import!Exchange(Import!Token(g, 0)),
           import' = [import EXCEPT ![r] = x], UNCHANGED <<accounts, held, mutex>>,
           x.path \in LoginPaths, x.at = "add", x.sent = Import!Token(g, 0), x.got = w, import[r].got = Import!NoToken
    PROVE  Effects
<1>0. /\ import[r] \in ImportRows /\ import \in [Callers -> ImportRows] /\ live \in [Import!Grants -> Nat]
    BY DEF Tracked, ImportTyped
<1>1. PICK t \in Toks : t = Import!Token(g, 0) /\ t.grant = g /\ t.version = 0
    BY DEF Import!Token, Toks, Import!Grants
<1>2. g \in Import!Grants /\ g \notin Keys /\ Import!Live(t) /\ live' = [live EXCEPT ![t.grant] = @ + 1]
    BY <1>1 DEF Import!Exchange, Separate, Import!Grants
<1>3. w \in Toks /\ w.grant = g /\ w.version = 1  BY <1>1, <1>2 DEF Import!Rotated, Import!Token, Toks
<1>4. live'[g] = 1  BY <1>0, <1>1, <1>2 DEF Import!Live
<1>5. Given(w)' /\ w # Import!NoToken  BY <1>2, <1>3, <1>4, TokenFacts DEF Given
<1>6. import'[r] = x  BY <1>0
<1>7. x.got.grant = g  BY <1>3
<1>8. RowOK(r)'
  <2>1. x.path # "import"  BY DEF LoginPaths
  <2>2. QED  BY <1>2, <1>5, <1>6, <1>7, <2>1 DEF RowOK, Given
<1>9. MutexKept(r)  BY DEF MutexKept
<1>10. Exchanges(r, x, t)  BY <1>1, <1>2, <1>8, <1>9 DEF Exchanges, LoginPaths
<1>11. QED  BY <1>10 DEF Effects

LEMMA LoginEffects ==
    ASSUME Separate, Tracked, NEW r \in Callers,
           \/ Import!PollBuilderIdAuth(r) \/ Import!CompleteIamSsoLogin(r) \/ Import!ImportSsoToken(r)
           \/ \E g \in Devices : Import!FindSession(r, g)
    PROVE  Effects
<1>0. /\ import[r] \in ImportRows /\ RowOK(r) /\ import \in [Callers -> ImportRows] /\ Import!Nothing \in ImportRows
      /\ Import!Nothing.got = Import!NoToken /\ Import!Nothing.at = "idle" /\ ~Import!Nothing.unverified
      /\ import[r].got = Import!NoToken
    BY TokenFacts DEF Tracked, ImportTyped, RowOK, Import!PollBuilderIdAuth, Import!CompleteIamSsoLogin,
       Import!ImportSsoToken, Import!FindSession, Import!On
<1>1. CASE Import!PollBuilderIdAuth(r) \/ Import!CompleteIamSsoLogin(r)
  <2>0. /\ import[r].at = "exchange" /\ import[r].path \in {"builder", "iam"} /\ UNCHANGED <<accounts, held, mutex>>
      BY <1>1 DEF Import!PollBuilderIdAuth, Import!CompleteIamSsoLogin, Import!On
  <2>1. CASE Import!Obtain(r)
    <3>1. import[r].sent.grant \in Devices /\ import[r].sent = Import!Token(import[r].sent.grant, 0)
        BY <1>0, <2>0 DEF RowOK
    <3>2. PICK g \in Devices : import[r].sent = Import!Token(g, 0)  BY <3>1
    <3>3. Import!Exchange(Import!Token(g, 0)) /\ import' = [import EXCEPT ![r].at = "add", ![r].got = Import!Rotated(Import!Token(g, 0))]
        BY <2>1, <3>2 DEF Import!Obtain
    <3>4. PICK w \in Toks : w = Import!Rotated(Import!Token(g, 0))
      <4>1. Import!Rotated(Import!Token(g, 0)) \in Toks
          BY DEF Import!Rotated, Import!Token, Toks, Import!Grants
      <4>2. QED  BY <4>1
    <3> DEFINE x == [import[r] EXCEPT !.at = "add", !.got = w]
    <3>5. /\ x \in ImportRows /\ x.path = import[r].path /\ x.at = "add" /\ x.sent = Import!Token(g, 0) /\ x.got = w
        BY <1>0, <3>2 DEF ImportRows, ImportPlaces, MayTok
    <3>6. import' = [import EXCEPT ![r] = x]  BY <1>0, <3>3, <3>4
    <3> HIDE DEF x
    <3>7. Import!Exchange(Import!Token(g, 0)) /\ x.path \in LoginPaths  BY <2>0, <3>3, <3>5 DEF LoginPaths
    <3>8. QED  BY <1>0, <2>0, <3>4, <3>5, <3>6, <3>7, ObtainEffects
  <2>2. CASE Import!End(r) /\ UNCHANGED live
    <3>1. MutexKept(r) /\ Handed(r)  BY <1>0, <2>0 DEF MutexKept, Handed
    <3>2. QED  BY <2>0, <2>2, <3>1, ImportEndMoves
  <2>3. QED  BY <1>1, <2>1, <2>2 DEF Import!PollBuilderIdAuth, Import!CompleteIamSsoLogin
<1>2. CASE Import!ImportSsoToken(r)
  <2>1. PICK g \in Devices :
          /\ Import!Exchange(Import!Token(g, 0))
          /\ import' = [import EXCEPT ![r] = [Import!Nothing EXCEPT !.path = "sso", !.at = "add",
                                                !.sent = Import!Token(g, 0), !.got = Import!PolledToken(g)]]
      BY <1>2 DEF Import!ImportSsoToken
  <2>2. PICK w \in Toks : w = Import!Rotated(Import!Token(g, 0)) /\ w = Import!PolledToken(g)
    <3>1. Import!Rotated(Import!Token(g, 0)) \in Toks /\ Import!Rotated(Import!Token(g, 0)) = Import!PolledToken(g)
        BY DEF Import!Rotated, Import!Token, Toks, Import!Grants, Import!PolledToken
    <3>2. QED  BY <3>1
  <2>3. Import!Token(g, 0) \in MayTok  BY DEF Import!Token, Toks, Import!Grants, MayTok
  <2> DEFINE x == [Import!Nothing EXCEPT !.path = "sso", !.at = "add", !.sent = Import!Token(g, 0), !.got = w]
  <2>4. /\ x \in ImportRows /\ x.path = "sso" /\ x.at = "add" /\ x.sent = Import!Token(g, 0) /\ x.got = w
      BY <1>0, <2>2, <2>3 DEF ImportRows, ImportPlaces, Paths, MayTok
  <2>5. import' = [import EXCEPT ![r] = x]  BY <2>1, <2>2
  <2> HIDE DEF x
  <2>6. UNCHANGED <<accounts, held, mutex>>  BY <1>2 DEF Import!ImportSsoToken
  <2>7. QED  BY <1>0, <2>1, <2>2, <2>4, <2>5, <2>6, ObtainEffects DEF LoginPaths
<1>3. CASE \E g \in Devices : Import!FindSession(r, g)
  <2>1. PICK g \in Devices : Import!FindSession(r, g)  BY <1>3
  <2> DEFINE x == [Import!Nothing EXCEPT !.path = login[g], !.at = "exchange", !.sent = Import!Token(g, 0)]
  <2>2. import' = [import EXCEPT ![r] = x] /\ UNCHANGED <<live, accounts, held, mutex>> /\ login[g] \in {"builder", "iam"}
      BY <2>1 DEF Import!FindSession
  <2>3. Import!Token(g, 0) \in MayTok /\ Import!Token(g, 0).grant = g
      BY DEF Import!Token, Toks, Import!Grants, MayTok
  <2>4. /\ x \in ImportRows /\ x.path \in {"builder", "iam"} /\ x.at = "exchange" /\ x.sent = Import!Token(g, 0)
        /\ x.got = Import!NoToken /\ ~x.unverified
      BY <1>0, <2>2, <2>3 DEF ImportRows, ImportPlaces, Paths
  <2> HIDE DEF x
  <2>5. import'[r] = x  BY <1>0, <2>2
  <2>6. RowOK(r)'  BY <2>3, <2>4, <2>5 DEF RowOK
  <2>7. ImportMoves(r, x)  BY <1>0, <2>2, <2>4, <2>6 DEF ImportMoves, ImportBrings, MutexKept, Handed
  <2>8. QED  BY <2>4, <2>7 DEF Effects
<1>4. QED  BY <1>1, <1>2, <1>3

LEMMA EditKeepsCredential == ASSUME NEW a \in Accs, NEW copy \in Accs PROVE
    /\ Import!EditedAccount(a, copy) \in Accs /\ Import!EditedAccount(a, copy).token = a.token
    /\ Import!EditedAccount(a, copy).unverified = a.unverified
    /\ Import!EditedAccount(a, copy).edits = copy.edits + 1
<1> DEFINE e == copy.edits + 1 t == a.token p == a.print u == a.unverified
<1>1. e \in Nat /\ t \in MayTok /\ p \in MayTok /\ u \in BOOLEAN  BY DEF Accs
<1>2. Import!EditedAccount(a, copy) = [copy EXCEPT !.edits = e, !.token = t, !.print = p, !.unverified = u]
    BY DEF Import!EditedAccount
<1> HIDE DEF e, t, p, u
<1>3. [copy EXCEPT !.edits = e, !.token = t, !.print = p, !.unverified = u] \in Accs  BY <1>1 DEF Accs
<1>4. QED  BY <1>2, <1>3 DEF Accs, e, t, u

\* An edit starts from a copy and leaves the credential as it is.
LEMMA EditEffects ==
    ASSUME Separate, Tracked, NEW r \in Callers, Import!WriteAccount(r) \/ \E i \in AccountIds : Import!ReadAccount(r, i)
    PROVE  Effects
<1>0. /\ import[r] \in ImportRows /\ RowOK(r) /\ import \in [Callers -> ImportRows] /\ Import!Nothing \in ImportRows
      /\ Import!Nothing.got = Import!NoToken /\ Import!Nothing.sent = Import!NoToken
      /\ ~Import!Nothing.unverified
      /\ accounts \in [AccountIds -> Accs] /\ import[r].copy \in Accs
      /\ import[r].got = Import!NoToken
    BY TokenFacts DEF Tracked, ImportTyped, ImportRows, RowOK, Import!WriteAccount, Import!ReadAccount,
       Import!On, Import!Nothing
<1>1. CASE \E i \in AccountIds : Import!ReadAccount(r, i)
  <2>1. PICK i \in AccountIds : Import!ReadAccount(r, i)  BY <1>1
  <2> DEFINE x == [Import!Nothing EXCEPT !.path = "edit", !.at = "write", !.id = i, !.copy = accounts[i]]
  <2>2. import' = [import EXCEPT ![r] = x] /\ UNCHANGED <<live, accounts, held, mutex>>
      BY <2>1 DEF Import!ReadAccount
  <2>3. x \in ImportRows /\ x.path = "edit" /\ x.at = "write" /\ x.got = Import!NoToken
      BY <1>0 DEF ImportRows, ImportPlaces, Paths
  <2> HIDE DEF x
  <2>4. import'[r] = x  BY <1>0, <2>2
  <2>5. RowOK(r)'  BY <2>3, <2>4 DEF RowOK
  <2>6. ImportMoves(r, x)  BY <1>0, <2>2, <2>3, <2>5 DEF ImportMoves, ImportBrings, MutexKept, Handed
  <2>7. QED  BY <2>3, <2>6 DEF Effects
<1>2. CASE Import!WriteAccount(r)
  <2>1. Import!End(r) /\ UNCHANGED <<live, held, login, mutex>>  BY <1>2 DEF Import!WriteAccount
  <2>2. CASE UNCHANGED accounts
    <3>1. Writes(r)  BY <1>0, <2>1, <2>2 DEF Writes, Import!Existing
    <3>2. QED  BY <3>1 DEF Effects
  <2>3. CASE import[r].id \in Import!Existing
             /\ accounts' = [accounts EXCEPT ![import[r].id] = Import!EditedAccount(@, import[r].copy)]
    <3>1. PICK i \in Import!Existing : i = import[r].id  BY <2>3
    <3> DEFINE a == Import!EditedAccount(accounts[i], import[r].copy)
    <3>2. accounts' = [accounts EXCEPT ![i] = a] /\ i \in AccountIds /\ accounts[i] \in Accs
        BY <1>0, <2>3, <3>1 DEF Import!Existing
    <3>3. /\ a \in Accs /\ a.token = accounts[i].token /\ a.unverified = accounts[i].unverified
          /\ a.edits = import[r].copy.edits + 1
      BY <1>0, <3>2, EditKeepsCredential
    <3>4. a # Import!NoAccount
      <4>1. import[r].copy.edits \in Nat  BY <1>0 DEF Accs
      <4>2. Import!NoAccount.edits = 0  BY DEF Import!NoAccount
      <4>3. a.edits # 0  BY <3>3, <4>1
      <4>4. QED  BY <4>2, <4>3
    <3> HIDE DEF a
    <3>5. accounts' \in [AccountIds -> Accs] /\ accounts'[i] = a /\ \A j \in AccountIds \ {i} : accounts'[j] = accounts[j]
        BY <1>0, <3>2, <3>3
    <3>6. Import!Existing' = Import!Existing  BY <3>1, <3>4, <3>5 DEF Import!Existing
    <3>7. Writes(r)  BY <1>0, <2>1, <3>3, <3>5, <3>6 DEF Writes, Import!Existing
    <3>8. QED  BY <3>7 DEF Effects
  <2>4. QED  BY <1>2, <2>2, <2>3 DEF Import!WriteAccount
<1>3. QED  BY <1>1, <1>2

LEMMA StepEffects == ASSUME Separate, Tracked, Import!Step PROVE Effects
<1>1. CASE Import!AddPasted  BY <1>1, PastedEffects
<1>2. CASE \E g \in Devices : Import!StartBuilderIdLogin(g) \/ Import!StartIamSsoLogin(g) \/ Import!LoginExpires(g)
    BY <1>2 DEF Import!StartBuilderIdLogin, Import!StartIamSsoLogin, Import!LoginExpires, Effects
<1>3. CASE \E i \in AccountIds : Import!RefreshAccount(i) \/ Import!ExportAccounts(i) \/ Import!DeleteAccount(i)
    BY <1>3 DEF Effects
<1>4. ASSUME NEW r \in Callers,
             \/ Import!ImportCredentials(r) \/ Import!LockAndCheck(r) \/ Import!ImportLocalCache(r)
             \/ Import!ExchangeImported(r)
             \/ Import!VerifyProfile(r) \/ Import!AddImported(r) \/ Import!ImportApiKeys(r)
             \/ Import!AddKey(r)
             \/ Import!PollBuilderIdAuth(r) \/ Import!CompleteIamSsoLogin(r) \/ Import!AddLogin(r)
             \/ Import!ImportSsoToken(r) \/ Import!WriteAccount(r)
             \/ \E g \in Devices : Import!FindSession(r, g)
             \/ \E i \in AccountIds : Import!ReadAccount(r, i)
      PROVE  Effects
    BY <1>4, RequestEffects, ExchangeEffects, AddRowEffects, LoginEffects, EditEffects
<1>5. QED  BY <1>1, <1>2, <1>3, <1>4 DEF Import!Step

LEMMA InitTracked == ASSUME Separate, Import!Init PROVE Tracked
<1>1. live = [g \in Import!Grants |-> 0] /\ accounts = [i \in AccountIds |-> Import!NoAccount] /\ held = {Import!Token(g, 0) : g \in Pasted}
      /\ import = [r \in Callers |-> Import!Nothing]
    BY DEF Import!Init
<1>2. \A t \in held : t \in Toks /\ Given(t) /\ t.grant \notin Keys
    BY <1>1 DEF Import!Token, Toks, Given, Import!Grants, Separate
<1>3. ImportTyped  BY <1>1, <1>2, TokenFacts DEF ImportTyped
<1>4. Import!Existing = {}  BY <1>1 DEF Import!Existing
<1>5. \A r \in Callers : RowOK(r) /\ Carried(r)  BY <1>1, TokenFacts DEF RowOK, Carried, ImportCarries
<1>6. \A k \in Keys : live[k] = 0  BY <1>1 DEF Import!Grants
<1>7. QED  BY <1>2, <1>3, <1>4, <1>5, <1>6 DEF Tracked, Import!OneAccountPerToken

LEMMA AlwaysTracked == ASSUME Separate PROVE Import!Spec => []Tracked
<1>1. Import!Init => Tracked  BY InitTracked
<1>2. Tracked /\ [Import!Next]_(Import!vars) => Tracked'
  <2>1. ASSUME Tracked, Import!Next PROVE Tracked'  BY <2>1, StepEffects, EffectsTracked DEF Import!Next
  <2>2. ASSUME Tracked, UNCHANGED Import!vars PROVE Tracked'
    <3>1. Effects  BY <2>2 DEF Import!vars, Effects
    <3>2. QED  BY <2>2, <3>1, EffectsTracked
  <2>3. QED  BY <2>1, <2>2
<1>3. QED  BY <1>1, <1>2, PTL DEF Import!Spec

\* Two imports of one credential, an import beside a login, a key pasted twice: whatever runs at the
\* same time (apiImportCredentials, apiAddAccount, ImportApiKeys, the logins), AddAccount compares
\* under the store's lock and no credential ends up in two accounts.
THEOREM OneAccountPerCredential == ASSUME Separate PROVE Import!Spec => []Import!OneAccountPerToken
<1>1. Tracked => Import!OneAccountPerToken  BY DEF Tracked
<1>2. QED  BY <1>1, AlwaysTracked, PTL

----------------------------------------------------------------------------
\* Without an import of the local cache, no request follows its path.
NoLocal == "local" \in importMix \/ \A r \in Callers : import[r].path # "local"

\* A token a provider accepts stops being accepted by its own exchange alone.
LEMMA OthersStayLive ==
    ASSUME live \in [Import!Grants -> Nat], NEW t \in Toks, NEW w \in Toks, Import!Live(t), Import!Live(w), w # t,
           live' = [live EXCEPT ![t.grant] = @ + 1]
    PROVE  w.grant # t.grant /\ live'[w.grant] = live[w.grant] /\ Import!Live(w)'
<1>1. w.grant = t.grant => w.version = t.version  BY DEF Import!Live
<1>2. w = Import!Token(w.grant, w.version) /\ t = Import!Token(t.grant, t.version)
    BY DEF Toks, Import!Token
<1>3. w.grant # t.grant  BY <1>1, <1>2
<1>4. QED  BY <1>3 DEF Import!Live, Toks

LEMMA ImportEndRow == ASSUME Separate, Tracked, NEW r, Import!End(r), NEW q \in Callers PROVE
    import'[q] = import[q] \/ (q = r /\ import'[q] = Import!Nothing)
BY DEF Import!End, Tracked, ImportTyped

LEMMA EffectsLocal == ASSUME Separate, Tracked, NoLocal, Effects, importMix' = importMix PROVE NoLocal'
<1>0. import \in [Callers -> ImportRows]  BY DEF Tracked, ImportTyped
<1>1. ASSUME NEW r \in Callers, NEW x \in ImportRows, ImportMoves(r, x) \/ \E t \in Toks : Exchanges(r, x, t) PROVE NoLocal'
  <2>1. import' = [import EXCEPT ![r] = x]  BY <1>1 DEF ImportMoves, Exchanges
  <2>2. \A q \in Callers \ {r} : import'[q] = import[q]  BY <1>0, <2>1
  <2>3. import'[r] = x  BY <1>0, <2>1
  <2>4. x.path = "local" => import[r].path = "local" \/ "local" \in importMix
      BY <1>1 DEF ImportMoves, Exchanges
  <2>5. QED  BY <2>2, <2>3, <2>4 DEF NoLocal
<1>2. ASSUME NEW r \in Callers \cup {Nobody}, UNCHANGED import \/ Import!End(r) PROVE NoLocal'
    BY <1>2, ImportEndRow, TokenFacts DEF NoLocal
<1>3. CASE UNCHANGED import  BY <1>3 DEF NoLocal
<1>4. QED
    BY <1>1, <1>2, <1>3 DEF Effects, Adds, Writes, Import!RefreshAccount, Import!ExportAccounts,
       Import!DeleteAccount

LEMMA EffectsAlive ==
    ASSUME Separate, Tracked, NoLocal, "local" \notin importMix, Alive, Effects PROVE Alive'
<1>0. /\ import \in [Callers -> ImportRows] /\ live \in [Import!Grants -> Nat] /\ accounts \in [AccountIds -> Accs] /\ held \subseteq Toks
      /\ \A r \in Callers : RowOK(r) /\ Spared(r) /\ import[r].path # "local"
      /\ \A i \in Import!Existing : Given(accounts[i].token) /\ accounts[i].token \in Toks
      /\ \A i \in Import!Existing : accounts[i].unverified \/ Import!Live(accounts[i].token)
      /\ \A t \in held : Given(t)
      /\ Import!OneAccountPerToken
    BY DEF Tracked, ImportTyped, Alive, Import!AccountsStayAlive, NoLocal, Given
<1>1. ASSUME NEW r \in Callers, NEW x \in ImportRows, ImportMoves(r, x) PROVE Alive'
  <2>1. /\ import'[r] = x /\ \A q \in Callers \ {r} : import'[q] = import[q]
        /\ accounts' = accounts /\ live' = live
      BY <1>0, <1>1 DEF ImportMoves
  <2>2. x.path = "import" /\ x.at = "exchange" => \A i \in Import!Existing : accounts[i].token # x.sent
      BY <1>1 DEF ImportMoves
  <2>3. \A q \in Callers : Spared(q)'  BY <1>0, <2>1, <2>2 DEF Spared, Import!Existing
  <2>4. Import!AccountsStayAlive'  BY <1>0, <2>1 DEF Import!AccountsStayAlive, Import!Live, Import!Existing
  <2>5. QED  BY <2>3, <2>4 DEF Alive
<1>2. ASSUME NEW r \in Callers, NEW x \in ImportRows, NEW t \in Toks, Exchanges(r, x, t) PROVE Alive'
  <2>1. /\ import'[r] = x /\ \A q \in Callers \ {r} : import'[q] = import[q]
        /\ accounts' = accounts /\ x.at # "exchange" /\ Import!Live(t)
        /\ live' = [live EXCEPT ![t.grant] = @ + 1]
      BY <1>0, <1>2 DEF Exchanges
  <2>2. \A q \in Callers : Spared(q)'  BY <1>0, <2>1 DEF Spared, Import!Existing
  <2>3. ASSUME NEW i \in Import!Existing, ~accounts[i].unverified PROVE Import!Live(accounts[i].token)'
    <3>1. PICK w \in Toks : w = accounts[i].token  BY <1>0
    <3>2. Import!Live(w) /\ Given(w)  BY <1>0, <2>3, <3>1
    <3>3. w # t
      <4>1. CASE import[r].at = "exchange" /\ t = import[r].sent /\ import[r].path \in {"import", "local"}
          BY <1>0, <2>3, <3>1, <4>1 DEF Spared
      <4>2. CASE t.grant \in Devices /\ t.version = 0  BY <3>2, <4>2 DEF Given
      <4>3. QED  BY <1>2, <4>1, <4>2 DEF Exchanges
    <3>4. Import!Live(w)'  BY <1>0, <2>1, <3>2, <3>3, OthersStayLive
    <3>5. QED  BY <2>1, <3>1, <3>4 DEF Import!Live
  <2>4. Import!AccountsStayAlive'  BY <2>1, <2>3 DEF Import!AccountsStayAlive, Import!Existing, Import!Live
  <2>5. QED  BY <2>2, <2>4 DEF Alive
<1>3. ASSUME NEW r \in Callers \cup {Nobody}, NEW t \in Toks, NEW print \in MayTok, NEW u \in BOOLEAN, NEW i \in AccountIds,
             Adds(r, t, print, u, i) PROVE Alive'
  <2> DEFINE new == [token |-> t, print |-> print, unverified |-> u, edits |-> 0]
  <2>1. /\ accounts' = [accounts EXCEPT ![i] = new] /\ UNCHANGED <<live, held>> /\ i \notin Import!Existing
        /\ u \/ (t \notin held /\ Import!Live(t))
      BY <1>3 DEF Adds
  <2>2. new.token = t /\ new.unverified = u  OBVIOUS
  <2> HIDE DEF new
  <2>3. /\ accounts'[i] = new /\ \A j \in AccountIds \ {i} : accounts'[j] = accounts[j]  BY <1>0, <2>1
  <2>4. Import!Existing' \subseteq Import!Existing \cup {i}  BY <2>3 DEF Import!Existing
  <2>5. \A q \in Callers : import'[q] = import[q] \/ import'[q] = Import!Nothing
      BY <1>3, ImportEndRow DEF Adds
  <2>6. Import!AccountsStayAlive'
    <3>1. ASSUME NEW j \in Import!Existing' PROVE accounts'[j].unverified \/ Import!Live(accounts[j].token)'
      <4>1. CASE j = i  BY <2>1, <2>2, <2>3, <4>1 DEF Import!Live
      <4>2. CASE j # i  BY <1>0, <2>1, <2>3, <2>4, <4>2 DEF Import!Live, Import!Existing
      <4>3. QED  BY <4>1, <4>2
    <3>2. QED  BY <3>1 DEF Import!AccountsStayAlive
  <2>7. ASSUME NEW q \in Callers PROVE Spared(q)'
    <3>1. CASE import'[q] = Import!Nothing  BY <3>1, TokenFacts DEF Spared
    <3>2. CASE import'[q] = import[q]
      <4>1. Spared(q) /\ RowOK(q)  BY <1>0
      <4>2. import[q].at = "exchange" /\ import[q].path = "import" => import[q].sent \in held
          BY <4>1 DEF RowOK
      <4>3. ASSUME NEW j \in Import!Existing', import[q].at = "exchange", import[q].path = "import",
                   accounts'[j].token = import[q].sent
            PROVE  accounts'[j].unverified
        <5>1. CASE j = i  BY <2>1, <2>2, <2>3, <4>2, <4>3, <5>1
        <5>2. CASE j # i  BY <2>3, <2>4, <4>1, <4>3, <5>2 DEF Spared, Import!Existing
        <5>3. QED  BY <5>1, <5>2
      <4>4. QED  BY <3>2, <4>3 DEF Spared
    <3>3. QED  BY <2>5, <3>1, <3>2
  <2>8. QED  BY <2>6, <2>7 DEF Alive
<1>4. ASSUME NEW r \in Callers, Writes(r) PROVE Alive'
  <2>1. /\ Import!Existing' = Import!Existing /\ live' = live /\ held' = held
        /\ \A j \in Import!Existing : /\ accounts'[j].token = accounts[j].token
                                      /\ accounts'[j].unverified = accounts[j].unverified
      BY <1>4 DEF Writes
  <2>2. \A q \in Callers : import'[q] = import[q] \/ import'[q] = Import!Nothing
      BY <1>4, ImportEndRow DEF Writes
  <2>3. Import!AccountsStayAlive'  BY <1>0, <2>1 DEF Import!AccountsStayAlive, Import!Live
  <2>4. ASSUME NEW q \in Callers PROVE Spared(q)'
    <3>1. CASE import'[q] = Import!Nothing  BY <3>1, TokenFacts DEF Spared
    <3>2. CASE import'[q] = import[q]  BY <1>0, <2>1, <3>2 DEF Spared
    <3>3. QED  BY <2>2, <3>1, <3>2
  <2>5. QED  BY <2>3, <2>4 DEF Alive
<1>5. ASSUME NEW i \in AccountIds, Import!RefreshAccount(i) PROVE Alive'
  <2>1. PICK t \in Toks : t = accounts[i].token  BY <1>0, <1>5 DEF Import!RefreshAccount
  <2>2. /\ i \in Import!Existing /\ Import!Live(t) /\ live' = [live EXCEPT ![t.grant] = @ + 1] /\ UNCHANGED import
        /\ accounts' = [accounts EXCEPT ![i] = [accounts[i] EXCEPT !.token = Import!Rotated(t)]]
      BY <1>5, <2>1 DEF Import!RefreshAccount, Import!Exchange
  <2>3. PICK w \in Toks : w = Import!Rotated(t) /\ w.grant = t.grant /\ w.version = t.version + 1
    <3>1. Import!Rotated(t) \in Toks /\ Import!Rotated(t).grant = t.grant /\ Import!Rotated(t).version = t.version + 1
        BY DEF Import!Rotated, Import!Token, Toks
    <3>2. QED  BY <3>1
  <2> DEFINE new == [accounts[i] EXCEPT !.token = w]
  <2>4. new.token = w /\ new.unverified = accounts[i].unverified  BY <1>0 DEF Accs
  <2>5. accounts' = [accounts EXCEPT ![i] = new]  BY <2>2, <2>3
  <2> HIDE DEF new
  <2>6. /\ accounts'[i] = new /\ \A j \in AccountIds \ {i} : accounts'[j] = accounts[j]  BY <1>0, <2>5
  <2>7. Import!Existing' \subseteq Import!Existing  BY <2>2, <2>6 DEF Import!Existing
  <2>8. Import!Live(w)' /\ ~Given(w)  BY <1>0, <2>2, <2>3 DEF Import!Live, Toks, Given, Separate
  <2>9. Import!AccountsStayAlive'
    <3>1. ASSUME NEW j \in Import!Existing' PROVE accounts'[j].unverified \/ Import!Live(accounts[j].token)'
      <4>1. CASE j = i  BY <2>4, <2>6, <2>8, <4>1 DEF Import!Live
      <4>2. CASE j # i
        <5>1. accounts'[j] = accounts[j] /\ j \in Import!Existing  BY <2>6, <2>7, <4>2 DEF Import!Existing
        <5>2. PICK v \in Toks : v = accounts[j].token  BY <1>0, <5>1
        <5>3. v # t  BY <1>0, <2>1, <2>2, <4>2, <5>1, <5>2 DEF Import!OneAccountPerToken
        <5>4. Import!Live(v) => Import!Live(v)'  BY <1>0, <2>2, <5>3, OthersStayLive
        <5>5. QED  BY <1>0, <5>1, <5>2, <5>4 DEF Import!Live
      <4>3. QED  BY <4>1, <4>2
    <3>2. QED  BY <3>1 DEF Import!AccountsStayAlive
  <2>10. ASSUME NEW q \in Callers PROVE Spared(q)'
    <3>1. Spared(q) /\ RowOK(q) /\ import'[q] = import[q]  BY <1>0, <2>2
    <3>2. import[q].at = "exchange" /\ import[q].path = "import" => import[q].sent # w
        BY <1>0, <2>8, <3>1 DEF RowOK
    <3>3. \A j \in Import!Existing' \ {i} : accounts'[j] = accounts[j] /\ j \in Import!Existing
        BY <2>6, <2>7 DEF Import!Existing
    <3>4. accounts'[i].token = w  BY <2>4, <2>6
    <3>5. QED  BY <3>1, <3>2, <3>3, <3>4 DEF Spared
  <2>11. QED  BY <2>9, <2>10 DEF Alive
<1>6. ASSUME NEW i \in AccountIds, Import!ExportAccounts(i) PROVE Alive'
    BY <1>0, <1>6 DEF Import!ExportAccounts, Alive, Import!AccountsStayAlive, Spared, Import!Live,
       Import!Existing
<1>7. ASSUME NEW i \in AccountIds, Import!DeleteAccount(i) PROVE Alive'
  <2>1. accounts' = [accounts EXCEPT ![i] = Import!NoAccount] /\ UNCHANGED <<live, import>>
      BY <1>7 DEF Import!DeleteAccount
  <2>2. \A j \in Import!Existing' : j \in Import!Existing /\ accounts'[j] = accounts[j]
      BY <1>0, <2>1 DEF Import!Existing
  <2>3. QED  BY <1>0, <2>1, <2>2 DEF Alive, Import!AccountsStayAlive, Spared, Import!Live
<1>8. CASE UNCHANGED <<live, accounts, held, mutex, import>>
    BY <1>0, <1>8 DEF Alive, Import!AccountsStayAlive, Spared, Import!Live, Import!Existing
<1>9. QED  BY <1>1, <1>2, <1>3, <1>4, <1>5, <1>6, <1>7, <1>8 DEF Effects

LEMMA AlwaysAlive == ASSUME Separate PROVE Import!Spec => [](Tracked /\ NoLocal /\ ("local" \in importMix \/ Alive))
<1> DEFINE I == Tracked /\ NoLocal /\ ("local" \in importMix \/ Alive)
<1>1. ASSUME Import!Init PROVE I
  <2>1. Import!Existing = {} /\ import = [r \in Callers |-> Import!Nothing]
      BY <1>1 DEF Import!Init, Import!Existing
  <2>2. NoLocal /\ Alive  BY <2>1, TokenFacts DEF NoLocal, Alive, Import!AccountsStayAlive, Spared
  <2>3. QED  BY <1>1, <2>2, InitTracked
<1>2. ASSUME I, [Import!Next]_(Import!vars) PROVE I'
  <2>1. Effects /\ importMix' = importMix
    <3>1. CASE Import!Next  BY <1>2, <3>1, StepEffects DEF Import!Next
    <3>2. CASE UNCHANGED Import!vars  BY <3>2 DEF Import!vars, Effects
    <3>3. QED  BY <1>2, <3>1, <3>2
  <2>2. QED  BY <1>2, <2>1, EffectsTracked, EffectsLocal, EffectsAlive
<1>3. QED  BY <1>1, <1>2, PTL DEF Import!Spec

\* An account whose token an exchange has confirmed keeps one the provider accepts, whatever imports,
\* logins, refreshes and edits from an old copy (apiUpdateAccount, UpdateAccount) run beside it, as
\* long as nobody imports the local cache, whose scan checks for no account (apiImportLocalCache).
THEOREM ConfirmedStayAlive == ASSUME Separate PROVE Import!Spec => []("local" \in importMix \/ Import!AccountsStayAlive)
<1>1. (Tracked /\ NoLocal /\ ("local" \in importMix \/ Alive)) => ("local" \in importMix \/ Import!AccountsStayAlive)
    BY DEF Alive
<1>2. QED  BY <1>1, AlwaysAlive, PTL

LEMMA EffectsKeep ==
    ASSUME Separate, Tracked, NoLocal, {"local", "pin"} \cap importMix = {}, Import!CredentialNotStranded, Effects
    PROVE  Import!CredentialNotStranded'
<1>0. /\ import \in [Callers -> ImportRows] /\ live \in [Import!Grants -> Nat] /\ accounts \in [AccountIds -> Accs] /\ held \subseteq Toks
      /\ \A r \in Callers : RowOK(r) /\ import[r].path # "local"
      /\ \A i \in Import!Existing : Given(accounts[i].token) /\ accounts[i].token \in Toks
      /\ "local" \notin importMix /\ "pin" \notin importMix
    BY DEF Tracked, ImportTyped, NoLocal, Given
<1> SUFFICES ASSUME NEW g \in Pasted
             PROVE  (\/ Import!Token(g, live[g]) \in held
                     \/ \E i \in Import!Existing : accounts[i].token = Import!Token(g, live[g])
                     \/ \E r \in Callers : import[r].got = Import!Token(g, live[g]))'
    BY DEF Import!CredentialNotStranded
<1> DEFINE Stays(w) == \/ w \in held \/ \E i \in Import!Existing : accounts[i].token = w
                       \/ \E r \in Callers : import[r].got = w
           KeptAfter(w) == \/ w \in held' \/ \E i \in Import!Existing' : accounts'[i].token = w
                           \/ \E r \in Callers : import'[r].got = w
<1>w. PICK w \in Toks : w = Import!Token(g, live[g]) /\ w.grant = g /\ w.version = live[g]
  <2>1. /\ Import!Token(g, live[g]) \in Toks /\ Import!Token(g, live[g]).grant = g /\ Import!Token(g, live[g]).version = live[g]
      BY <1>0 DEF Import!Token, Toks, Import!Grants
  <2>2. QED  BY <2>1
<1>k. Stays(w) /\ g \in Import!Grants /\ g \notin Keys /\ g \notin Devices /\ w # Import!NoToken
    BY <1>w, TokenFacts DEF Import!CredentialNotStranded, Import!Grants, Separate
<1>s. live'[g] = live[g] /\ KeptAfter(w) =>
        (\/ Import!Token(g, live[g]) \in held
         \/ \E i \in Import!Existing : accounts[i].token = Import!Token(g, live[g])
         \/ \E r \in Callers : import[r].got = Import!Token(g, live[g]))'
    BY <1>w DEF Import!Token
<1>1. ASSUME NEW r \in Callers, NEW x \in ImportRows, ImportMoves(r, x)
      PROVE  live'[g] = live[g] /\ KeptAfter(w)
  <2>1. /\ import'[r] = x /\ \A q \in Callers \ {r} : import'[q] = import[q]
        /\ accounts' = accounts /\ live' = live /\ held \subseteq held'
      BY <1>0, <1>1 DEF ImportMoves
  <2>2. import[r].got = w => w \in held' \/ import'[r].got = w
      BY <1>0, <1>1, <1>w, <1>k DEF ImportMoves, Handed
  <2>3. QED  BY <1>k, <2>1, <2>2 DEF Import!Existing
<1>2. ASSUME NEW r \in Callers, NEW x \in ImportRows, NEW t \in Toks, Exchanges(r, x, t)
      PROVE  (\/ Import!Token(g, live[g]) \in held
              \/ \E i \in Import!Existing : accounts[i].token = Import!Token(g, live[g])
              \/ \E q \in Callers : import[q].got = Import!Token(g, live[g]))'
  <2>1. /\ import'[r] = x /\ \A q \in Callers \ {r} : import'[q] = import[q]
        /\ accounts' = accounts /\ held' = held /\ Import!Live(t) /\ import[r].got = Import!NoToken
        /\ x.got = Import!Rotated(t)
        /\ live' = [live EXCEPT ![t.grant] = @ + 1]
      BY <1>0, <1>2 DEF Exchanges
  <2>2. CASE t.grant = g
    <3>1. live'[g] = live[g] + 1 /\ t.version = live[g]  BY <1>0, <1>k, <2>1, <2>2 DEF Import!Live
    <3>2. import'[r].got = Import!Token(g, live'[g])  BY <2>1, <2>2, <3>1 DEF Import!Rotated
    <3>3. QED  BY <3>2 DEF Import!Token
  <2>3. CASE t.grant # g
    <3>1. live'[g] = live[g]  BY <1>0, <1>k, <2>1, <2>3 DEF Toks
    <3>2. KeptAfter(w)  BY <1>k, <2>1 DEF Import!Existing
    <3>3. QED  BY <1>s, <3>1, <3>2
  <2>4. QED  BY <2>2, <2>3
<1>3. ASSUME NEW r \in Callers \cup {Nobody}, NEW t \in Toks, NEW print \in MayTok, NEW u \in BOOLEAN, NEW i \in AccountIds,
             Adds(r, t, print, u, i)
      PROVE  live'[g] = live[g] /\ KeptAfter(w)
  <2> DEFINE new == [token |-> t, print |-> print, unverified |-> u, edits |-> 0]
  <2>1. /\ accounts' = [accounts EXCEPT ![i] = new] /\ UNCHANGED <<live, held>> /\ i \notin Import!Existing
        /\ t \in Toks
      BY <1>3 DEF Adds
  <2>2. new.token = t /\ new # Import!NoAccount  BY TokenFacts
  <2> HIDE DEF new
  <2>3. /\ accounts'[i] = new /\ \A j \in AccountIds \ {i} : accounts'[j] = accounts[j]  BY <1>0, <2>1
  <2>4. i \in Import!Existing' /\ \A j \in Import!Existing : j \in Import!Existing' /\ accounts'[j] = accounts[j]
      BY <2>1, <2>2, <2>3 DEF Import!Existing
  <2>5. \A q \in Callers : import'[q] = import[q] \/ import[q].got = t
      BY <1>3, ImportEndRow DEF Adds
  <2>6. \A q \in Callers : import[q].got = w => import'[q].got = w \/ t = w  BY <2>5
  <2>7. QED  BY <1>k, <2>1, <2>2, <2>3, <2>4, <2>6
<1>4. ASSUME NEW r \in Callers, Writes(r) PROVE live'[g] = live[g] /\ KeptAfter(w)
  <2>1. \A q \in Callers : import'[q] = import[q] \/ import[q].got = Import!NoToken
      BY <1>4, ImportEndRow DEF Writes
  <2>2. QED  BY <1>k, <1>4, <2>1 DEF Writes
<1>5. ASSUME NEW i \in AccountIds, Import!RefreshAccount(i)
      PROVE  (\/ Import!Token(g, live[g]) \in held
              \/ \E j \in Import!Existing : accounts[j].token = Import!Token(g, live[g])
              \/ \E q \in Callers : import[q].got = Import!Token(g, live[g]))'
  <2>1. PICK t \in Toks : t = accounts[i].token  BY <1>0, <1>5 DEF Import!RefreshAccount
  <2>2. /\ i \in Import!Existing /\ Import!Live(t) /\ live' = [live EXCEPT ![t.grant] = @ + 1] /\ UNCHANGED <<held, import>>
        /\ accounts' = [accounts EXCEPT ![i] = [accounts[i] EXCEPT !.token = Import!Rotated(t)]]
      BY <1>5, <2>1 DEF Import!RefreshAccount, Import!Exchange
  <2>3. Import!Rotated(t) # Import!NoToken  BY TokenFacts DEF Import!Rotated, Import!Token, Toks
  <2> DEFINE new == [accounts[i] EXCEPT !.token = Import!Rotated(t)]
  <2>4. new.token = Import!Rotated(t) /\ new # Import!NoAccount
    <3>1. accounts[i] \in Accs  BY <1>0
    <3>2. new.token = Import!Rotated(t)  BY <3>1 DEF Accs
    <3>3. QED  BY <2>3, <3>2, TokenFacts
  <2> HIDE DEF new
  <2>6. /\ accounts'[i] = new /\ \A j \in AccountIds \ {i} : accounts'[j] = accounts[j]
      BY <1>0, <2>2 DEF new
  <2>7. i \in Import!Existing' /\ \A j \in Import!Existing : j \in Import!Existing' /\ (j # i => accounts'[j] = accounts[j])
      BY <2>2, <2>4, <2>6 DEF Import!Existing
  <2>8. CASE t.grant = g
    <3>1. live'[g] = live[g] + 1 /\ t.version = live[g]  BY <1>0, <1>k, <2>2, <2>8 DEF Import!Live
    <3>2. accounts'[i].token = Import!Token(g, live'[g])  BY <2>4, <2>6, <2>8, <3>1 DEF Import!Rotated
    <3>3. QED  BY <2>7, <3>2 DEF Import!Token
  <2>9. CASE t.grant # g
    <3>1. live'[g] = live[g]  BY <1>0, <1>k, <2>2, <2>9 DEF Toks
    <3>2. w # t  BY <1>w, <2>9
    <3>3. KeptAfter(w)  BY <1>k, <2>1, <2>2, <2>7, <3>2
    <3>4. QED  BY <1>s, <3>1, <3>3
  <2>10. QED  BY <2>8, <2>9
<1>6. ASSUME NEW i \in AccountIds, Import!ExportAccounts(i) PROVE live'[g] = live[g] /\ KeptAfter(w)
    BY <1>k, <1>6 DEF Import!ExportAccounts, Import!Existing
<1>7. ASSUME NEW i \in AccountIds, Import!DeleteAccount(i) PROVE live'[g] = live[g] /\ KeptAfter(w)
  <2>1. /\ accounts' = [accounts EXCEPT ![i] = Import!NoAccount] /\ UNCHANGED <<live, held, import>>
        /\ accounts[i].token.grant \in Keys \/ accounts[i].token \in held
      BY <1>7 DEF Import!DeleteAccount
  <2>2. \A j \in Import!Existing : j # i => j \in Import!Existing' /\ accounts'[j] = accounts[j]
      BY <1>0, <2>1 DEF Import!Existing
  <2>3. accounts[i].token = w => w \in held  BY <1>w, <1>k, <2>1
  <2>4. QED  BY <1>k, <2>1, <2>2, <2>3
<1>8. CASE UNCHANGED <<live, accounts, held, mutex, import>>
    BY <1>k, <1>s, <1>8 DEF Import!Existing
<1>9. QED  BY <1>s, <1>1, <1>2, <1>3, <1>4, <1>5, <1>6, <1>7, <1>8 DEF Effects

\* The token a provider would accept for a pasted credential is always somewhere: an import exchanges it,
\* and the successor is with an account, with the request, or back with the operator in the answer
\* (apiImportCredentials returns it when the account could not be added).  Not so when a profile is
\* pinned and verification fails after the exchange, or when the local cache is imported.
THEOREM CredentialIsKept ==
    ASSUME Separate PROVE Import!Spec => []({"local", "pin"} \cap importMix # {} \/ Import!CredentialNotStranded)
<1> DEFINE I == Tracked /\ NoLocal
           S == {"local", "pin"} \cap importMix # {} \/ Import!CredentialNotStranded
<1>1. ASSUME Import!Init PROVE S
    BY <1>1 DEF Import!Init, Import!CredentialNotStranded, Import!Token, Import!Grants
<1>2. ASSUME I, S, [Import!Next]_(Import!vars) PROVE S'
  <2>1. Effects /\ importMix' = importMix
    <3>1. CASE Import!Next  BY <1>2, <3>1, StepEffects DEF Import!Next
    <3>2. CASE UNCHANGED Import!vars  BY <3>2 DEF Import!vars, Effects
    <3>3. QED  BY <1>2, <3>1, <3>2
  <2>2. QED  BY <1>2, <2>1, EffectsKeep
<1>3. Tracked /\ NoLocal /\ ("local" \in importMix \/ Alive) => I  OBVIOUS
<1>4. QED  BY <1>1, <1>2, <1>3, AlwaysAlive, PTL DEF Import!Spec

(***************************************************************************)
(* One way in is taken at a time, so that what holds of each holds of the  *)
(* console's logins.                                                       *)
(***************************************************************************)
LEMMA MicrosoftRuns == LoginsSpec => [](~On("microsoft")) \/ ([]On("microsoft") /\ Microsoft!Spec)
<1>1. LoginsInit /\ On("microsoft") => Microsoft!Init  BY DEF LoginsInit
<1>2. On("microsoft") /\ [LoginsNext]_<<part, logins>> => On("microsoft")' /\ [Microsoft!Next]_(Microsoft!vars)
    BY DEF LoginsNext, logins, microsoftVars, Microsoft!vars, On
<1>3. ~On("microsoft") /\ [LoginsNext]_<<part, logins>> => ~On("microsoft")'
    BY DEF LoginsNext, On
<1>4. QED  BY <1>1, <1>2, <1>3, PTL DEF LoginsSpec, Microsoft!Spec

LEMMA HostedRuns == LoginsSpec => [](~On("hosted")) \/ ([]On("hosted") /\ Hosted!Spec)
<1>1. LoginsInit /\ On("hosted") => Hosted!Init  BY DEF LoginsInit
<1>2. On("hosted") /\ [LoginsNext]_<<part, logins>> => On("hosted")' /\ [Hosted!Next]_(Hosted!vars)
    BY DEF LoginsNext, logins, hostedVars, Hosted!vars, On
<1>3. ~On("hosted") /\ [LoginsNext]_<<part, logins>> => ~On("hosted")'
    BY DEF LoginsNext, On
<1>4. QED  BY <1>1, <1>2, <1>3, PTL DEF LoginsSpec, Hosted!Spec

LEMMA ImportRuns == LoginsSpec => [](~On("import")) \/ ([]On("import") /\ Import!Spec)
<1>1. LoginsInit /\ On("import") => Import!Init  BY DEF LoginsInit
<1>2. On("import") /\ [LoginsNext]_<<part, logins>> => On("import")' /\ [Import!Next]_(Import!vars)
    BY DEF LoginsNext, logins, importVars, Import!vars, On
<1>3. ~On("import") /\ [LoginsNext]_<<part, logins>> => ~On("import")'
    BY DEF LoginsNext, On
<1>4. QED  BY <1>1, <1>2, <1>3, PTL DEF LoginsSpec, Import!Spec

\* Whichever way an account comes in, one login, one pair of tabs or one credential makes one of it,
\* for any number of requests, tabs, retries and imports (AddAccount compares under the lock,
\* ContinueMicrosoftSSOLogin hands the right to add on, buildAuthorizeURL looks again under its lock).
THEOREM OneAccountEachWay == ASSUME Separate PROVE LoginsSpec => []OneAccountEach
<1> DEFINE M == On("microsoft") => Microsoft!OneAccountPerLogin
           H == On("hosted") => Hosted!TabsShareThePair
           I == On("import") => Import!OneAccountPerToken
<1>1. (~On("microsoft") => M) /\ (Microsoft!OneAccountPerLogin => M)  OBVIOUS
<1>2. (~On("hosted") => H) /\ (Hosted!TabsShareThePair => H)  OBVIOUS
<1>3. (~On("import") => I) /\ (Import!OneAccountPerToken => I)  OBVIOUS
<1>4. M /\ H /\ I => OneAccountEach  BY DEF OneAccountEach
<1> HIDE DEF M, H, I
<1>5. LoginsSpec => []M  BY <1>1, MicrosoftRuns, AddedOnce, PTL
<1>6. LoginsSpec => []H  BY <1>2, HostedRuns, OnePairPerLogin, PTL
<1>7. LoginsSpec => []I  BY <1>3, ImportRuns, OneAccountPerCredential, PTL
<1>8. QED  BY <1>4, <1>5, <1>6, <1>7, PTL

\* A canceled login adds nothing and keeps no credential, and a hosted login gives its ports back: in the
\* behaviours in which the list of canceled logins never fills up and no second start of the hosted login
\* disturbs the first (apiMicrosoftSSOCancel, cancelAllPendingKiroSsoSessions).
THEOREM LoginsLeaveNothing ==
    LoginsSpec /\ [](On("microsoft") => Room) /\ [](On("hosted") => Undisturbed) => LoginsCleanUp
<1> DEFINE M == On("microsoft") => Microsoft!CanceledHoldsNoCredential
           H == On("hosted") => Hosted!PortsAccounted
           R == On("microsoft") => Room
           U == On("hosted") => Undisturbed
<1>1. (~On("microsoft") => M) /\ (Microsoft!CanceledHoldsNoCredential => M)  OBVIOUS
<1>2. (~On("hosted") => H) /\ (Hosted!PortsAccounted => H)  OBVIOUS
<1>3. M /\ H => (/\ On("microsoft") => Microsoft!CanceledHoldsNoCredential
                /\ On("hosted") => Hosted!PortsAccounted)
    OBVIOUS
<1>4. (R /\ On("microsoft") => Room) /\ (U /\ On("hosted") => Undisturbed)  OBVIOUS
<1>5. ~On("microsoft") => [On("microsoft") => Microsoft!CanceledAddsNothing]_<<part, logins>>  OBVIOUS
<1>6. Passing /\ [Microsoft!CanceledAddsNothing]_added
      => [On("microsoft") => Microsoft!CanceledAddsNothing]_<<part, logins>>
    BY DEF Microsoft!CanceledAddsNothing
<1> HIDE DEF M, H, R, U
<1>7. LoginsSpec /\ []R => []M  BY <1>1, <1>4, MicrosoftRuns, CanceledCredentialsGo, PTL
<1>8. LoginsSpec /\ []U => []H  BY <1>2, <1>4, HostedRuns, PortsComeBack, PTL
<1>9. LoginsSpec /\ []R => [][On("microsoft") => Microsoft!CanceledAddsNothing]_<<part, logins>>
    BY <1>4, <1>5, <1>6, MicrosoftRuns, PassingHolds, CanceledStaysCanceled, PTL
       DEF Microsoft!CanceledStaysOut
<1>10. QED  BY <1>3, <1>7, <1>8, <1>9, PTL DEF LoginsCleanUp, R, U

\* An account whose token an exchange has confirmed keeps one the provider accepts, and no import loses
\* the only working copy of a credential, but for an import of the local cache and, for the latter, one
\* with a pinned profile (apiImportCredentials, apiImportLocalCache, apiUpdateAccount).
THEOREM CredentialsOutliveImports == ASSUME Separate PROVE LoginsSpec => []CredentialsSurvive
<1>1. ~On("import") => CredentialsSurvive  BY DEF CredentialsSurvive
<1>2. (/\ "local" \in importMix \/ Import!AccountsStayAlive
       /\ {"local", "pin"} \cap importMix # {} \/ Import!CredentialNotStranded)
      => CredentialsSurvive
    BY DEF CredentialsSurvive, Import!CredentialsSurvive
<1>3. QED  BY <1>1, <1>2, ImportRuns, ConfirmedStayAlive, CredentialIsKept, PTL
==============================================================================
