---------------------------- MODULE MicrosoftLogin ----------------------------
(***************************************************************************)
(* Microsoft Enterprise SSO by pasted callbacks: auth/microsoft_sso.go and *)
(* its administration in proxy/handler.go.  A login passes two callbacks,  *)
(* a profile discovery and perhaps a choice of profile before its account  *)
(* is added.  It may be canceled or expire at any moment; the lock of a    *)
(* session is held across its network calls, so a cancel never waits.      *)
(***************************************************************************)
EXTENDS Integers, Sequences, FiniteSets, SequencesExt, Filter

CONSTANTS
    Logins,       \* the login sessions a behaviour may start
    Requests,     \* administrator requests in progress at once
    None,         \* no request
    MaxSessions, MaxSelections, MaxTombstones    \* capacities of the code

VARIABLES
    session,     \* per login: whether it is listed, canceled, expired; what it keeps; its lock
    selection,   \* per login: the pending choice of a profile, with the credential
    tombstones,  \* the logins known to be canceled, oldest first
    discovery,   \* per login: the request discovering profiles and whether it was canceled
    added,       \* per login: the accounts added from it
    told,        \* logins whose cancel was answered
    request      \* per request: the step it is at, its login, what it obtained

vars == <<session, selection, tombstones, discovery, added, told, request>>

Unstarted == [started |-> FALSE, listed |-> FALSE, canceled |-> FALSE, expired |-> FALSE,
              keeps |-> "nothing", mu |-> None]
NoSelection == [listed |-> FALSE, canceled |-> FALSE, expired |-> FALSE, has |-> FALSE, mu |-> None]
NoDiscovery == [by |-> None, canceled |-> FALSE]
Idle == [at |-> "idle", login |-> None, got |-> "nothing", profiles |-> 0, stopped |-> FALSE]

Go(r, at)       == request' = [request EXCEPT ![r].at = at]
Bring(r, at, g) == request' = [request EXCEPT ![r].at = at, ![r].got = g]
End(r)          == request' = [request EXCEPT ![r] = Idle]
At(r, at, s)    == request[r].at = at /\ request[r].login = s

----------------------------------------------------------------------------
(* The session                                                             *)

\* retireMicrosoftSSOSessionLocked, by the request that holds the lock.
Retired(x) == [x EXCEPT !.listed = FALSE, !.canceled = TRUE, !.keeps = "nothing"]

\* Discarding does not wait for the lock: a request that holds it clears the session as it leaves.
Discarded(x) == [x EXCEPT !.listed = FALSE, !.canceled = TRUE,
                          !.keeps = IF x.mu = None THEN "nothing" ELSE @]

StartMicrosoftSSOLogin(s) ==
    LET purged == [t \in Logins |-> IF session[t].listed /\ session[t].expired
                                    THEN Discarded(session[t]) ELSE session[t]]
        room   == Cardinality({t \in Logins : purged[t].listed}) < MaxSessions
    IN /\ ~session[s].started
       /\ session' = IF room THEN [purged EXCEPT ![s] =
                        [@ EXCEPT !.started = TRUE, !.listed = TRUE, !.keeps = "portal"]]
                     ELSE purged
       /\ session' # session
       /\ UNCHANGED <<selection, tombstones, discovery, added, told, request>>

SessionExpires(s) ==
    /\ session[s].started /\ ~session[s].expired
    /\ session' = [session EXCEPT ![s].expired = TRUE]
    /\ UNCHANGED <<selection, tombstones, discovery, added, told, request>>

\* The session's timer.
SessionTimer(s) ==
    /\ session[s].listed /\ session[s].expired
    /\ session' = [session EXCEPT ![s] = Discarded(@)]
    /\ UNCHANGED <<selection, tombstones, discovery, added, told, request>>

\* getMicrosoftSSOSession: a session past its time is discarded by who finds it.
Continue(r, s) ==
    /\ request[r].at = "idle" /\ session[s].listed
    /\ session' = [session EXCEPT ![s] = IF @.expired THEN Discarded(@) ELSE @]
    /\ request' = [request EXCEPT ![r] = IF session[s].expired THEN Idle ELSE [Idle EXCEPT !.login = s, !.at = "lock"]]
    /\ UNCHANGED <<selection, tombstones, discovery, added, told>>

LockSession(r, s) ==
    /\ At(r, "lock", s) /\ session[s].mu = None
    /\ session' = [session EXCEPT ![s] = [IF ~@.canceled /\ @.expired THEN Retired(@) ELSE @ EXCEPT !.mu = r]]
    /\ Go(r, IF session[s].canceled \/ session[s].expired THEN "leave" ELSE session[s].keeps)
    /\ UNCHANGED <<selection, tombstones, discovery, added, told>>

\* A callback that does not parse or match leaves the session as it was; an error it
\* reports ends the session; otherwise the network is called with the lock held.
ReadCallback(r, s, leg, call) ==
    /\ At(r, leg, s)
    /\ \/ Go(r, "leave") /\ UNCHANGED session
       \/ Go(r, "leave") /\ session' = [session EXCEPT ![s] = Retired(@)]
       \/ Go(r, call) /\ UNCHANGED session
    /\ UNCHANGED <<selection, tombstones, discovery, added, told>>

ReadPortalCallback(r, s)   == ReadCallback(r, s, "portal", "oidc")
ReadProviderCallback(r, s) == ReadCallback(r, s, "leg", "exchange")

\* discoverMicrosoftOIDC answered or failed.
ContinuePortalLeg(r, s) ==
    /\ At(r, "oidc", s)
    /\ \/ Go(r, "leave") /\ UNCHANGED session
       \/ /\ session[s].canceled
          /\ Go(r, "leave") /\ session' = [session EXCEPT ![s] = Retired(@)]
       \/ /\ ~session[s].canceled
          /\ Bring(r, "leave", "url") /\ session' = [session EXCEPT ![s].keeps = "leg"]
    /\ UNCHANGED <<selection, tombstones, discovery, added, told>>

\* A code is good for one exchange: whatever it brings, the session ends.
ContinueProviderLeg(r, s) ==
    /\ At(r, "exchange", s)
    /\ session' = [session EXCEPT ![s] = Retired(@)]
    /\ \/ Go(r, "leave")
       \/ ~session[s].canceled /\ Bring(r, "leave", "credential")
    /\ UNCHANGED <<selection, tombstones, discovery, added, told>>

\* The deferred function looks at the flag, then releases the lock.
LeaveSession(r, s) ==
    /\ At(r, "leave", s)
    /\ session' = [session EXCEPT ![s].keeps = IF session[s].canceled THEN "nothing" ELSE @]
    /\ Go(r, "unlock")
    /\ UNCHANGED <<selection, tombstones, discovery, added, told>>

UnlockSession(r, s) ==
    /\ At(r, "unlock", s)
    /\ session' = [session EXCEPT ![s].mu = None]
    /\ IF request[r].got = "nothing" THEN End(r) ELSE Go(r, "answered")
    /\ UNCHANGED <<selection, tombstones, discovery, added, told>>

----------------------------------------------------------------------------
(* From the credential to the account                                      *)

microsoftSessionCanceled(s) == s \in ToSet(tombstones)

AfterContinue(r, s) ==
    /\ At(r, "answered", s)
    /\ \/ /\ microsoftSessionCanceled(s)
          /\ session' = [session EXCEPT ![s] = IF @.listed THEN Discarded(@) ELSE @]
          /\ End(r)
       \/ /\ ~microsoftSessionCanceled(s)
          /\ UNCHANGED session
          /\ IF request[r].got = "url" THEN End(r) ELSE Go(r, "begin")
    /\ UNCHANGED <<selection, tombstones, discovery, added, told>>

beginMicrosoftProfileDiscovery(r, s) ==
    /\ At(r, "begin", s)
    /\ \/ /\ microsoftSessionCanceled(s) \/ discovery[s].by # None
          /\ End(r) /\ UNCHANGED discovery
       \/ /\ ~microsoftSessionCanceled(s) /\ discovery[s].by = None
          /\ discovery' = [discovery EXCEPT ![s] = [by |-> r, canceled |-> FALSE]]
          /\ Go(r, "profiles")
    /\ UNCHANGED <<session, selection, tombstones, added, told>>

\* Discovery answers 0, 1 or more profiles; its context may be canceled, or time out.
DiscoverKiroProfiles(r, s) ==
    /\ At(r, "profiles", s)
    /\ \E n \in 0..2, timeout \in BOOLEAN :
          request' = [request EXCEPT ![r].at = "end", ![r].profiles = n,
                                     ![r].stopped = timeout \/ discovery[s].canceled]
    /\ UNCHANGED <<session, selection, tombstones, discovery, added, told>>

endMicrosoftProfileDiscovery(r, s) ==
    /\ At(r, "end", s)
    /\ discovery' = [discovery EXCEPT ![s] = IF @.by = r THEN NoDiscovery ELSE @]
    /\ Go(r, "commit")
    /\ UNCHANGED <<session, selection, tombstones, added, told>>

\* AddAccount succeeds or leaves everything as it was.
AddAccount(s) == added' = [added EXCEPT ![s] = @ + 1]

\* A later answer for the login forgets that it was canceled.
Forget(s) == tombstones' = Kept(tombstones, Logins \ {s})

storeMicrosoftProfileSelection(s) ==
    LET purged == [t \in Logins |-> IF selection[t].listed /\ selection[t].expired
                                    THEN [selection[t] EXCEPT !.listed = FALSE, !.canceled = TRUE,
                                                              !.has = FALSE] ELSE selection[t]]
        room   == Cardinality({t \in Logins : purged[t].listed}) < MaxSelections
    IN selection' = IF room THEN [purged EXCEPT ![s] = [NoSelection EXCEPT !.listed = TRUE, !.has = TRUE]]
                    ELSE purged

\* A mistake: the answer of the discovery is trusted without looking at the tombstones again.
CommitUnlessStopped(r, s) == ~request[r].stopped

\* All under microsoftFlowMu: the cancel is looked for again before anything is kept.
MayCommit(r, s) == ~microsoftSessionCanceled(s) /\ ~request[r].stopped

CommitLogin(r, s) ==
    /\ At(r, "commit", s) /\ End(r)
    /\ \/ ~MayCommit(r, s) /\ UNCHANGED <<selection, tombstones, added>>
       \/ /\ MayCommit(r, s) /\ request[r].profiles > 1
          /\ storeMicrosoftProfileSelection(s) /\ UNCHANGED <<tombstones, added>>
       \/ /\ MayCommit(r, s) /\ request[r].profiles <= 1
          /\ \/ AddAccount(s) /\ Forget(s) /\ UNCHANGED selection
             \/ UNCHANGED <<selection, tombstones, added>>
    /\ UNCHANGED <<session, discovery, told>>

----------------------------------------------------------------------------
(* The choice of a profile                                                 *)

SelectionExpires(s) ==
    /\ selection[s].listed /\ ~selection[s].expired
    /\ selection' = [selection EXCEPT ![s].expired = TRUE]
    /\ UNCHANGED <<session, tombstones, discovery, added, told, request>>

Detached(x) == [x EXCEPT !.listed = FALSE, !.canceled = TRUE]

\* The timer, and a request that finds the selection expired: detached, then cleared once its lock is free.
SelectionTimer(s) ==
    /\ selection[s].listed /\ selection[s].expired
    /\ selection' = [selection EXCEPT ![s] = Detached(@)]
    /\ UNCHANGED <<session, tombstones, discovery, added, told, request>>

ClearDetachedSelection(s) ==
    /\ ~selection[s].listed /\ selection[s].has /\ selection[s].expired /\ selection[s].mu = None
    /\ selection' = [selection EXCEPT ![s].has = FALSE]
    /\ UNCHANGED <<session, tombstones, discovery, added, told, request>>

SelectProfile(r, s) ==
    /\ request[r].at = "idle" /\ selection[s].listed /\ ~selection[s].expired
    /\ request' = [request EXCEPT ![r] = [Idle EXCEPT !.login = s, !.at = "choose"]]
    /\ UNCHANGED <<session, selection, tombstones, discovery, added, told>>

\* A selection gone meanwhile, or a profile that was not offered, ends the request.
LockSelection(r, s) ==
    /\ At(r, "choose", s) /\ selection[s].mu = None
    /\ \/ /\ selection[s].canceled \/ selection[s].expired
          /\ selection' = [selection EXCEPT ![s] = IF @.listed THEN [Detached(@) EXCEPT !.has = FALSE] ELSE @]
          /\ End(r)
       \/ /\ ~selection[s].canceled /\ ~selection[s].expired
          /\ selection' = [selection EXCEPT ![s].mu = r] /\ Go(r, "chosen")
       \/ End(r) /\ UNCHANGED selection
    /\ UNCHANGED <<session, tombstones, discovery, added, told>>

\* A mistake: the selection stays listed after its account was added.
KeptSelection(x) == [x EXCEPT !.mu = None]

\* What is left of a selection that was used, or found canceled.
UsedSelection(x) == [Detached(x) EXCEPT !.has = FALSE, !.mu = None]

\* Both locks held.  A failed AddAccount keeps the selection for another attempt.
AddSelected(r, s) ==
    /\ At(r, "chosen", s) /\ End(r)
    /\ LET gone == selection[s].canceled \/ selection[s].expired \/ microsoftSessionCanceled(s)
           over == UsedSelection(selection[s])
       IN \/ gone /\ selection' = [selection EXCEPT ![s] = over] /\ UNCHANGED <<added, tombstones>>
          \/ ~gone /\ selection' = [selection EXCEPT ![s].mu = None] /\ UNCHANGED <<added, tombstones>>
          \/ ~gone /\ selection' = [selection EXCEPT ![s] = over] /\ AddAccount(s) /\ Forget(s)
    /\ UNCHANGED <<session, discovery, told>>

----------------------------------------------------------------------------
(* Cancel                                                                  *)

Cancel(r, s) ==
    /\ request[r].at = "idle" /\ session[s].started
    /\ request' = [request EXCEPT ![r] = [Idle EXCEPT !.login = s, !.at = "mark"]]
    /\ UNCHANGED <<session, selection, tombstones, discovery, added, told>>

\* markMicrosoftSessionCanceled: at capacity the oldest tombstone makes room.
MarkCanceled(r, s) ==
    /\ At(r, "mark", s) /\ Go(r, "detach")
    /\ tombstones' = LET kept == IF Len(tombstones) >= MaxTombstones THEN Tail(tombstones) ELSE tombstones
                     IN Append(Kept(kept, Logins \ {s}), s)
    /\ discovery' = [discovery EXCEPT ![s].canceled = @ \/ discovery[s].by # None]
    /\ UNCHANGED <<session, selection, added, told>>

\* detachMicrosoftSSOSession, then the flag and the attempt on the lock.
DetachSession(r, s) ==
    /\ At(r, "detach", s)
    /\ Go(r, IF session[s].listed THEN "flag" ELSE "selections")
    /\ session' = [session EXCEPT ![s].listed = FALSE]
    /\ UNCHANGED <<selection, tombstones, discovery, added, told>>

FlagSession(r, s) ==
    /\ At(r, "flag", s) /\ Go(r, "selections")
    /\ session' = [session EXCEPT ![s] = Discarded(@)]
    /\ UNCHANGED <<selection, tombstones, discovery, added, told>>

\* A mistake: a cancel forgets the choice of profile that is pending.
NonePending(s) == FALSE
PendingFor(s) == selection[s].listed

removeMicrosoftProfileSelectionsForSession(r, s) ==
    /\ At(r, "selections", s)
    /\ \/ /\ PendingFor(s)
          /\ selection' = [selection EXCEPT ![s] = Detached(@)]
          /\ Go(r, "clear") /\ UNCHANGED told
       \/ ~PendingFor(s) /\ told' = told \cup {s} /\ End(r) /\ UNCHANGED selection
    /\ UNCHANGED <<session, tombstones, discovery, added>>

ClearSelection(r, s) ==
    /\ At(r, "clear", s) /\ selection[s].mu = None
    /\ selection' = [selection EXCEPT ![s].has = FALSE]
    /\ told' = told \cup {s} /\ End(r)
    /\ UNCHANGED <<session, tombstones, discovery, added>>

\* A tombstone outlives the requests of its login: every network call has a limit far below its TTL.
TombstoneExpires(s) ==
    /\ microsoftSessionCanceled(s)
    /\ \A r \in Requests : request[r].login # s
    /\ Forget(s)
    /\ UNCHANGED <<session, selection, discovery, added, told, request>>

----------------------------------------------------------------------------
Init ==
    /\ session = [s \in Logins |-> Unstarted]
    /\ selection = [s \in Logins |-> NoSelection]
    /\ tombstones = <<>>
    /\ discovery = [s \in Logins |-> NoDiscovery]
    /\ added = [s \in Logins |-> 0]
    /\ told = {}
    /\ request = [r \in Requests |-> Idle]

Next ==
    \E s \in Logins :
       \/ StartMicrosoftSSOLogin(s) \/ SessionExpires(s) \/ SessionTimer(s)
       \/ SelectionExpires(s) \/ SelectionTimer(s) \/ ClearDetachedSelection(s) \/ TombstoneExpires(s)
       \/ \E r \in Requests :
             \/ Continue(r, s) \/ LockSession(r, s) \/ ReadPortalCallback(r, s) \/ ReadProviderCallback(r, s)
             \/ ContinuePortalLeg(r, s) \/ ContinueProviderLeg(r, s)
             \/ LeaveSession(r, s) \/ UnlockSession(r, s) \/ AfterContinue(r, s)
             \/ beginMicrosoftProfileDiscovery(r, s) \/ DiscoverKiroProfiles(r, s)
             \/ endMicrosoftProfileDiscovery(r, s) \/ CommitLogin(r, s)
             \/ SelectProfile(r, s) \/ LockSelection(r, s) \/ AddSelected(r, s)
             \/ Cancel(r, s) \/ MarkCanceled(r, s) \/ DetachSession(r, s) \/ FlagSession(r, s)
             \/ removeMicrosoftProfileSelectionsForSession(r, s) \/ ClearSelection(r, s)

Spec == Init /\ [][Next]_vars

----------------------------------------------------------------------------
Steps == {"idle", "lock", "portal", "leg", "oidc", "exchange", "leave", "unlock", "answered", "begin",
          "profiles", "end", "commit", "choose", "chosen", "mark", "detach", "flag", "selections", "clear"}

\* Every record has its fields, and neither list grows past its capacity.
TypeOK ==
    /\ session \in [Logins -> [started : BOOLEAN, listed : BOOLEAN, canceled : BOOLEAN, expired : BOOLEAN,
                               keeps : {"nothing", "portal", "leg"}, mu : Requests \cup {None}]]
    /\ selection \in [Logins -> [listed : BOOLEAN, canceled : BOOLEAN, expired : BOOLEAN, has : BOOLEAN,
                                 mu : Requests \cup {None}]]
    /\ tombstones \in Seq(Logins) /\ Len(tombstones) <= MaxTombstones
    /\ discovery \in [Logins -> [by : Requests \cup {None}, canceled : BOOLEAN]]
    /\ added \in [Logins -> 0..2] /\ told \subseteq Logins
    /\ request \in [Requests -> [at : Steps, login : Logins \cup {None}, got : {"nothing", "url", "credential"},
                                 profiles : 0..2, stopped : BOOLEAN]]
    /\ Cardinality({s \in Logins : session[s].listed}) <= MaxSessions
    /\ Cardinality({s \in Logins : selection[s].listed}) <= MaxSelections

\* One login adds one account at most, however its requests, its retries after a failed
\* AddAccount and its choice of profile interleave.
OneAccountPerLogin == \A s \in Logins : added[s] <= 1

\* Once a cancel has been answered, the requests still running for that login add no account.
CanceledAddsNothing == \A s \in told : added'[s] = added[s]
CanceledStaysOut == [][CanceledAddsNothing]_added

\* A request, or the timer of its selection, still works for the login.
Busy(s) == \/ \E r \in Requests : request[r].login = s /\ request[r].at # "idle"
           \/ selection[s].expired

\* Once a cancel has been answered and nothing runs for the login, no credential of it waits for a profile.
CanceledHoldsNoCredential == \A s \in told : ~Busy(s) => ~selection[s].has

\* "wipe PKCE/state material before returning": a canceled session nothing runs for keeps no secret.
CanceledIsWiped == \A s \in Logins : session[s].canceled /\ session[s].mu = None => session[s].keeps = "nothing"
=============================================================================
