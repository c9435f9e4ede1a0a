-------------------------- MODULE CredentialRefresh --------------------------
(***************************************************************************)
(* Refreshing the OAuth credential of an account: proxy/token_manager.go,  *)
(* the forced refresh of proxy/handler.go, the credential fields of the    *)
(* pool (pool/account.go) and of the configuration (config/config.go).     *)
(*                                                                         *)
(* A credential (access token, refresh token, expiry) is the number of the *)
(* exchange that produced it: the provider's newest is idp[a], one copy is *)
(* persisted (saved[a]), one is in the pool (live[a]), one may be parked   *)
(* for a later save (pending[a]), and one in each goroutine under way.     *)
(***************************************************************************)
EXTENDS Naturals

CONSTANTS
  Accounts,     \* OAuth accounts (API-key accounts never refresh)
  Callers,      \* goroutines that may refresh a credential
  None,         \* no goroutine
  MaxCred,      \* bound: exchanges the provider grants per account
  Rotating,     \* the provider invalidates a refresh token when it is used
  Mixes         \* what may happen: each behaviour has one of these sets

\* "forced": the operator presses "refresh" (refreshAccountToken); "diskFails":
\* config.Save returns errors; "lossyIdp": an exchange may succeed upstream and
\* still end in an error; "stop": the process is shut down and started again;
\* "abrupt": it may also die at any point.
ASSUME CallersAssumption == None \notin Callers
ASSUME BoundAssumption   == MaxCred \in Nat
ASSUME SwitchAssumption  ==
  /\ Rotating \in BOOLEAN
  /\ Mixes \subseteq SUBSET {"forced", "diskFails", "lossyIdp", "stop", "abrupt"}

VARIABLES
  idp,        \* newest credential the provider issued (external)
  revoked,    \* accounts whose grant the provider withdrew (external)
  stale,      \* credentials up to this one are inside the expiry skew (clock)
  saved,      \* the credential in the configuration, in memory and on disk
  status,     \* BanStatus of the configuration; ACTIVE is Enabled
  inPool,     \* accounts in the pool's list
  live,       \* the credential of the pool's entry, while there is one
  inFlight,   \* TokenManager.inFlight: the leader of the account's refresh
  tokenState, \* TokenManager.states[a].state
  pending,    \* TokenManager.states[a].pendingPersist, 0 for nil
  refreshMu,  \* holder of Handler.tokenRefreshMu
  phase,      \* "up", "flushing" (Handler.Shutdown), "draining" (srv.Shutdown)
  jobs,       \* FlushPending's copies: what is left to save, per account
  flushed,    \* the job FlushPending saved and has not marked yet
  pc,         \* where each goroutine stands
  acct,       \* the account it works on
  leader,     \* the refresh it joined
  cur,        \* the credential it presents to the provider
  got,        \* the credential it received, 0 for none
  saveErr,    \* its save failed
  result,     \* what the refresh returned to it
  mix         \* what happens in this behaviour

idpVars   == <<idp, revoked, stale>>
cfgVars   == <<saved, status>>
poolVars  == <<inPool, live>>
tmVars    == <<inFlight, tokenState, pending>>
flushVars == <<phase, jobs, flushed>>
locals    == <<pc, acct, leader, cur, got, saveErr, result>>
vars      == <<idpVars, cfgVars, poolVars, tmVars, refreshMu, flushVars, locals,
               mix>>

TokenStates == {"Healthy", "Refreshing", "PersistenceDegraded", "ReauthRequired"}
Statuses    == {"ACTIVE", "BANNED", "DISABLED"}
NoResult    == [err |-> "none", cred |-> 0]
Results     == [err : {"none", "auth", "other"}, cred : Nat]

LeaderSteps == {"resolve", "exchange", "persist", "publish", "mark",
                "snapshot", "release"}
ForcedSteps == {"forcedExchange", "forcedPersist", "forcedPublish"}
Steps       == LeaderSteps \cup ForcedSteps \cup
               {"idle", "coalesce", "wait", "close", "return", "edit", "reload"}

(***************************************************************************)
(* Helpers                                                                 *)
(***************************************************************************)
\* tokenFresh: the credential is outside the expiry skew.
TokenFresh(a, c) == c > stale[a]

\* resolveAccount: the pool's entry, the configuration for an account that
\* the pool excludes.
ResolveAccount(a) == IF a \in inPool THEN live[a] ELSE saved[a]

\* What the provider answers to a refresh token (external).
Accepts(a, c) == a \notin revoked /\ (Rotating => c = idp[a])

Goto(p, step) == pc' = [pc EXCEPT ![p] = step]

\* The goroutine returns, and its locals with it.
Finish(p) ==
  /\ Goto(p, "idle")
  /\ cur'     = [cur EXCEPT ![p] = 0]
  /\ got'     = [got EXCEPT ![p] = 0]
  /\ saveErr' = [saveErr EXCEPT ![p] = FALSE]
  /\ result'  = [result EXCEPT ![p] = NoResult]

SetState(a, s) == tokenState' = [tokenState EXCEPT ![a] = s]

\* reloadLocked rebuilds the pool's list from the enabled accounts.
ReloadPool ==
  /\ inPool' = {a \in Accounts : status[a] = "ACTIVE"}
  /\ live'   = saved

\* Mutant of PublishToPool: the pool keeps the old refresh token.
PublishToPoolForgets(a, c) == c = c /\ a = a /\ UNCHANGED <<live, inPool>>

\* UpdateCredentialState on the pool: only an account in the list has a copy.
PublishToPool(a, c) ==
  /\ live' = IF a \in inPool THEN [live EXCEPT ![a] = c] ELSE live
  /\ UNCHANGED inPool

\* config.UpdateAccountCredentialState: set and save, or roll back and fail.
SaveCredential(a, c, ok) ==
  /\ ok \/ "diskFails" \in mix
  /\ saved' = IF ok THEN [saved EXCEPT ![a] = c] ELSE saved
  /\ UNCHANGED status

(***************************************************************************)
(* The managed refresh: EnsureFresh, refreshCoalesced, doRefresh           *)
(***************************************************************************)
\* EnsureFresh past its early return: the account's token is not fresh.
EnsureFresh(p, a) ==
  /\ pc[p] = "idle"
  /\ ~TokenFresh(a, ResolveAccount(a))
  /\ Goto(p, "coalesce")
  /\ acct' = [acct EXCEPT ![p] = a]
  /\ UNCHANGED <<mix, idpVars, cfgVars, poolVars, tmVars, refreshMu, flushVars,
                 leader, cur, got, saveErr, result>>

\* The first caller registers the call, a later one waits for its result.
Join(p) ==
  /\ pc[p] = "coalesce"
  /\ inFlight[acct[p]] # None
  /\ leader' = [leader EXCEPT ![p] = inFlight[acct[p]]]
  /\ Goto(p, "wait")
  /\ UNCHANGED <<mix, idpVars, cfgVars, poolVars, tmVars, refreshMu, flushVars,
                 acct, cur, got, saveErr, result>>

\* Mutant of Lead: the call is never registered.
LeadUnregistered(p) ==
  /\ pc[p] = "coalesce"
  /\ inFlight[acct[p]] = None
  /\ SetState(acct[p], "Refreshing")
  /\ Goto(p, "resolve")
  /\ UNCHANGED <<mix, idpVars, cfgVars, poolVars, inFlight, pending, refreshMu,
                 flushVars, acct, leader, cur, got, saveErr, result>>

Lead(p) ==
  /\ pc[p] = "coalesce"
  /\ inFlight[acct[p]] = None
  /\ inFlight' = [inFlight EXCEPT ![acct[p]] = p]
  /\ SetState(acct[p], "Refreshing")
  /\ Goto(p, "resolve")
  /\ UNCHANGED <<mix, idpVars, cfgVars, poolVars, pending, refreshMu, flushVars,
                 acct, leader, cur, got, saveErr, result>>

\* doRefresh (1) and (2): the latest snapshot; it may have become fresh.
Resolve(p) ==
  LET a == acct[p]  c == ResolveAccount(a) IN
  /\ pc[p] = "resolve"
  /\ cur' = [cur EXCEPT ![p] = c]
  /\ got' = [got EXCEPT ![p] = 0]
  /\ IF TokenFresh(a, c)
       THEN /\ SetState(a, "Healthy")
            /\ result' = [result EXCEPT ![p] = [err |-> "none", cred |-> c]]
            /\ Goto(p, "release")
       ELSE /\ Goto(p, "exchange")
            /\ UNCHANGED <<tokenState, result>>
  /\ UNCHANGED <<mix, idpVars, cfgVars, poolVars, inFlight, pending, refreshMu,
                 flushVars, acct, leader, saveErr>>

\* (3) and (4): the provider grants a new credential.
Exchange(p) ==
  LET a == acct[p] IN
  /\ pc[p] = "exchange"
  /\ Accepts(a, cur[p])
  /\ idp[a] < MaxCred
  /\ idp' = [idp EXCEPT ![a] = @ + 1]
  /\ got' = [got EXCEPT ![p] = idp[a] + 1]
  /\ Goto(p, "persist")
  /\ UNCHANGED <<mix, revoked, stale, cfgVars, poolVars, tmVars, refreshMu,
                 flushVars, acct, leader, cur, saveErr, result>>

\* Mutant of ExchangeFails: an early return skips the release of the call.
ExchangeFailsReturns(p, err) ==
  /\ pc[p] = "exchange"
  /\ err = "other"
  /\ SetState(acct[p], "ReauthRequired")
  /\ Finish(p)
  /\ UNCHANGED <<mix, idpVars, cfgVars, poolVars, inFlight, pending, refreshMu,
                 flushVars, acct, leader>>

\* (3) or (4) ends in an error: the provider refuses the refresh token
\* ("auth"), the call fails before it had an effect, or the provider rotates
\* and the answer is lost or does not validate ("other").
ExchangeFails(p, err) ==
  LET a == acct[p] IN
  /\ pc[p] = "exchange"
  /\ \/ err = "auth"  /\ ~Accepts(a, cur[p])  /\ idp' = idp
     \/ err = "other" /\ idp' = idp
     \/ /\ err = "other"  /\ "lossyIdp" \in mix
        /\ Accepts(a, cur[p])  /\ idp[a] < MaxCred
        /\ idp' = [idp EXCEPT ![a] = @ + 1]
  /\ SetState(a, "ReauthRequired")
  /\ result' = [result EXCEPT ![p] = [err |-> err, cred |-> 0]]
  /\ Goto(p, "release")
  /\ UNCHANGED <<mix, revoked, stale, cfgVars, poolVars, inFlight, pending,
                 refreshMu, flushVars, acct, leader, cur, got, saveErr>>

\* (6): save the new credential.
Persist(p, ok) ==
  /\ pc[p] = "persist"
  /\ SaveCredential(acct[p], got[p], ok)
  /\ saveErr' = [saveErr EXCEPT ![p] = ~ok]
  /\ Goto(p, "publish")
  /\ UNCHANGED <<mix, idpVars, poolVars, tmVars, refreshMu, flushVars, acct,
                 leader, cur, got, result>>

\* (7): publish, whether or not the save succeeded.
Publish(p) ==
  /\ pc[p] = "publish"
  /\ PublishToPool(acct[p], got[p])
  /\ Goto(p, "mark")
  /\ UNCHANGED <<mix, idpVars, cfgVars, tmVars, refreshMu, flushVars, acct, leader,
                 cur, got, saveErr, result>>

\* Mutant of Mark: a failed save is noted, its credential is not parked.
MarkDrops(p) ==
  /\ pc[p] = "mark"
  /\ SetState(acct[p], IF saveErr[p] THEN "PersistenceDegraded" ELSE "Healthy")
  /\ Goto(p, "snapshot")
  /\ UNCHANGED <<mix, idpVars, cfgVars, poolVars, inFlight, pending, refreshMu,
                 flushVars, acct, leader, cur, got, saveErr, result>>

\* The outcome of the save: park the credential, or Healthy. Healthy leaves an
\* older parked credential where it is.
Mark(p) ==
  LET a == acct[p] IN
  /\ pc[p] = "mark"
  /\ SetState(a, IF saveErr[p] THEN "PersistenceDegraded" ELSE "Healthy")
  /\ pending' = IF saveErr[p] THEN [pending EXCEPT ![a] = got[p]] ELSE pending
  /\ Goto(p, "snapshot")
  /\ UNCHANGED <<mix, idpVars, cfgVars, poolVars, inFlight, refreshMu, flushVars,
                 acct, leader, cur, got, saveErr, result>>

\* Mutant of Snapshot: the snapshot taken before the exchange is returned.
SnapshotStale(p) ==
  /\ pc[p] = "snapshot"
  /\ result' = [result EXCEPT ![p] = [err |-> "none", cred |-> cur[p]]]
  /\ Goto(p, "release")
  /\ UNCHANGED <<mix, idpVars, cfgVars, poolVars, tmVars, refreshMu, flushVars,
                 acct, leader, cur, got, saveErr>>

\* (8): the result is the pool's entry as it is now.
Snapshot(p) ==
  LET a == acct[p] IN
  /\ pc[p] = "snapshot"
  /\ result' = [result EXCEPT ![p] =
       [err |-> "none", cred |-> IF a \in inPool THEN live[a] ELSE got[p]]]
  /\ Goto(p, "release")
  /\ UNCHANGED <<mix, idpVars, cfgVars, poolVars, tmVars, refreshMu, flushVars,
                 acct, leader, cur, got, saveErr>>

\* Mutant of Release: the finished call stays registered.
ReleaseForgets(p) ==
  /\ pc[p] = "release"
  /\ Goto(p, "close")
  /\ UNCHANGED <<mix, idpVars, cfgVars, poolVars, tmVars, refreshMu, flushVars, acct,
                 leader, cur, got, saveErr, result>>

Release(p) ==
  /\ pc[p] = "release"
  /\ inFlight' = [inFlight EXCEPT ![acct[p]] = None]
  /\ Goto(p, "close")
  /\ UNCHANGED <<mix, idpVars, cfgVars, poolVars, tokenState, pending, refreshMu,
                 flushVars, acct, leader, cur, got, saveErr, result>>

\* close(call.done): every caller that joined takes the leader's result.
Close(p) ==
  LET woken == {q \in Callers : pc[q] = "wait" /\ leader[q] = p} IN
  /\ pc[p] = "close"
  /\ pc' = [q \in Callers |-> IF q \in woken \cup {p} THEN "return" ELSE pc[q]]
  /\ result' = [q \in Callers |-> IF q \in woken THEN result[p] ELSE result[q]]
  /\ leader' = [q \in Callers |-> IF q \in woken THEN None ELSE leader[q]]
  /\ UNCHANGED <<mix, idpVars, cfgVars, poolVars, tmVars, refreshMu, flushVars,
                 acct, cur, got, saveErr>>

(***************************************************************************)
(* What the caller does with an error: handleAccountFailure                *)
(***************************************************************************)
\* A request or the background refresh bans the account on an auth error
\* (disableAccount: save, and only then reload the pool).
Ban(p, ok) ==
  LET a == acct[p] IN
  /\ pc[p] = "return"
  /\ result[p].err = "auth"
  /\ ok \/ "diskFails" \in mix
  /\ IF ok
       THEN /\ status' = [status EXCEPT ![a] = "BANNED"]
            /\ Goto(p, "reload")
            /\ UNCHANGED <<cur, got, saveErr, result>>
       ELSE Finish(p) /\ UNCHANGED status
  /\ UNCHANGED <<mix, idpVars, saved, poolVars, tmVars, refreshMu, flushVars, acct,
                 leader>>

\* Mutant of ReloadAfter: the error is kept as the status, not only the reason.
ReloadAfterReason(p) ==
  /\ pc[p] = "reload"
  /\ status' = [status EXCEPT ![acct[p]] = result[p].err]
  /\ ReloadPool
  /\ Finish(p)
  /\ UNCHANGED <<mix, idpVars, saved, tmVars, refreshMu, flushVars, acct, leader>>

\* pool.Reload at the end of disableAccount and of the operator's handler.
ReloadAfter(p) ==
  /\ pc[p] = "reload"
  /\ ReloadPool
  /\ Finish(p)
  /\ UNCHANGED <<mix, idpVars, cfgVars, tmVars, refreshMu, flushVars, acct, leader>>

\* A success, an error that only counts against the account, or an operator's
\* request (profile discovery), which does not ban.
Return(p) ==
  /\ pc[p] = "return"
  /\ Finish(p)
  /\ UNCHANGED <<mix, idpVars, cfgVars, poolVars, tmVars, refreshMu, flushVars,
                 acct, leader>>

(***************************************************************************)
(* The forced refresh: refreshAccountToken(account, true)                  *)
(***************************************************************************)
\* Take the lock and read the persisted credential.
ForceRefresh(p, a) ==
  /\ "forced" \in mix
  /\ pc[p] = "idle"
  /\ refreshMu = None
  /\ refreshMu' = p
  /\ acct' = [acct EXCEPT ![p] = a]
  /\ cur' = [cur EXCEPT ![p] = saved[a]]
  /\ got' = [got EXCEPT ![p] = 0]
  /\ Goto(p, "forcedExchange")
  /\ UNCHANGED <<mix, idpVars, cfgVars, poolVars, tmVars, flushVars, leader,
                 saveErr, result>>

\* auth.RefreshToken; an error returns and drops the lock.
ForcedExchange(p) ==
  LET a == acct[p] IN
  /\ pc[p] = "forcedExchange"
  /\ \/ /\ Accepts(a, cur[p])
        /\ idp[a] < MaxCred
        /\ idp' = [idp EXCEPT ![a] = @ + 1]
        /\ got' = [got EXCEPT ![p] = idp[a] + 1]
        /\ Goto(p, "forcedPersist")
        /\ UNCHANGED <<refreshMu, cur, saveErr, result>>
     \/ /\ refreshMu' = None
        /\ Finish(p)
        /\ UNCHANGED idp
  /\ UNCHANGED <<mix, revoked, stale, cfgVars, poolVars, tmVars, flushVars, acct,
                 leader>>

\* A failed save returns an error: the new credential is dropped.
ForcedPersist(p, ok) ==
  /\ pc[p] = "forcedPersist"
  /\ SaveCredential(acct[p], got[p], ok)
  /\ IF ok
       THEN Goto(p, "forcedPublish") /\ UNCHANGED <<refreshMu, cur, got, saveErr, result>>
       ELSE Finish(p) /\ refreshMu' = None
  /\ UNCHANGED <<mix, idpVars, poolVars, tmVars, flushVars, acct, leader>>

ForcedPublish(p) ==
  /\ pc[p] = "forcedPublish"
  /\ PublishToPool(acct[p], got[p])
  /\ refreshMu' = None
  /\ Finish(p)
  /\ UNCHANGED <<mix, idpVars, cfgVars, tmVars, flushVars, acct, leader>>

(***************************************************************************)
(* The rest of the process: reloads, operator, shutdown, restart           *)
(***************************************************************************)
\* pool.Reload, at the end of the background refresh and of every admin
\* operation that touches accounts or settings.
Reload ==
  /\ ReloadPool
  /\ UNCHANGED <<mix, idpVars, cfgVars, tmVars, refreshMu, flushVars, locals>>

\* The operator enables or disables an account: the handler reads the whole
\* record, changes it, and writes it back under the configuration's lock.
ReadAccount(p, a) ==
  /\ pc[p] = "idle"
  /\ acct' = [acct EXCEPT ![p] = a]
  /\ cur' = [cur EXCEPT ![p] = saved[a]]
  /\ Goto(p, "edit")
  /\ UNCHANGED <<mix, idpVars, cfgVars, poolVars, tmVars, refreshMu, flushVars,
                 leader, got, saveErr, result>>

\* Mutant of UpdateAccount: the record is written as it was read.
UpdateAccountWhole(p, on, ok) ==
  LET a == acct[p] IN
  /\ pc[p] = "edit"
  /\ ok \/ "diskFails" \in mix
  /\ saved' = IF ok THEN [saved EXCEPT ![a] = cur[p]] ELSE saved
  /\ status' = IF ok THEN [status EXCEPT ![a] = IF on THEN "ACTIVE" ELSE "DISABLED"]
                     ELSE status
  /\ Goto(p, "reload")
  /\ UNCHANGED <<mix, idpVars, poolVars, tmVars, refreshMu, flushVars, acct, leader,
                 cur, got, saveErr, result>>

\* config.UpdateAccount keeps the credential that is there now, not the one
\* read; the batch handler reloads whether or not the save succeeded.
UpdateAccount(p, on, ok) ==
  LET a == acct[p] IN
  /\ pc[p] = "edit"
  /\ ok \/ "diskFails" \in mix
  /\ status' = IF ok THEN [status EXCEPT ![a] = IF on THEN "ACTIVE" ELSE "DISABLED"]
                     ELSE status
  /\ Goto(p, "reload")
  /\ UNCHANGED <<mix, idpVars, saved, poolVars, tmVars, refreshMu, flushVars, acct,
                 leader, cur, got, saveErr, result>>

\* FlushPending, first critical section: copy what is parked.
FlushPending ==
  /\ "stop" \in mix
  /\ phase = "up"
  /\ phase' = "flushing"
  /\ jobs' = [a \in Accounts |->
                IF tokenState[a] = "PersistenceDegraded" THEN pending[a] ELSE 0]
  /\ UNCHANGED <<mix, idpVars, cfgVars, poolVars, tmVars, refreshMu, flushed, locals>>

\* Save one copy; on an error the credential stays parked.
FlushSave(a, ok) ==
  /\ phase = "flushing"
  /\ flushed = {}
  /\ jobs[a] # 0
  /\ SaveCredential(a, jobs[a], ok)
  /\ jobs' = [jobs EXCEPT ![a] = 0]
  /\ flushed' = IF ok THEN {a} ELSE {}
  /\ UNCHANGED <<mix, idpVars, poolVars, tmVars, refreshMu, phase, locals>>

\* Healthy and nothing parked, whatever happened since the copy was taken.
FlushMark(a) ==
  /\ a \in flushed
  /\ SetState(a, "Healthy")
  /\ pending' = [pending EXCEPT ![a] = 0]
  /\ flushed' = {}
  /\ UNCHANGED <<mix, idpVars, cfgVars, poolVars, inFlight, refreshMu, phase, jobs,
                 locals>>

\* Shutdown returns; srv.Shutdown then waits for the requests in flight.
FlushDone ==
  /\ phase = "flushing"
  /\ flushed = {} /\ \A a \in Accounts : jobs[a] = 0
  /\ phase' = "draining"
  /\ UNCHANGED <<mix, idpVars, cfgVars, poolVars, tmVars, refreshMu, jobs, flushed,
                 locals>>

\* The process ends, drained or (abrupt) not, and starts again from the file.
Restart ==
  /\ "abrupt" \in mix \/ (phase = "draining" /\ \A p \in Callers : pc[p] = "idle")
  /\ ReloadPool
  /\ inFlight'   = [a \in Accounts |-> None]
  /\ tokenState' = [a \in Accounts |-> "Healthy"]
  /\ pending'    = [a \in Accounts |-> 0]
  /\ refreshMu'  = None
  /\ phase'      = "up"
  /\ jobs'       = [a \in Accounts |-> 0]
  /\ flushed'    = {}
  /\ pc'         = [p \in Callers |-> "idle"]
  /\ leader'     = [p \in Callers |-> None]
  /\ cur'        = [p \in Callers |-> 0]
  /\ got'        = [p \in Callers |-> 0]
  /\ saveErr'    = [p \in Callers |-> FALSE]
  /\ result'     = [p \in Callers |-> NoResult]
  /\ UNCHANGED <<mix, idpVars, cfgVars, acct>>

(***************************************************************************)
(* The provider and the clock (external)                                   *)
(***************************************************************************)
Expire(a) ==
  /\ stale[a] < idp[a]
  /\ stale' = [stale EXCEPT ![a] = @ + 1]
  /\ UNCHANGED <<mix, idp, revoked, cfgVars, poolVars, tmVars, refreshMu, flushVars,
                 locals>>

Revoke(a) ==
  /\ a \notin revoked
  /\ revoked' = revoked \cup {a}
  /\ UNCHANGED <<mix, idp, stale, cfgVars, poolVars, tmVars, refreshMu, flushVars,
                 locals>>

(***************************************************************************)
(* The specification                                                       *)
(***************************************************************************)
Init ==
  /\ idp        = [a \in Accounts |-> 1]
  /\ revoked    = {}
  /\ stale      = [a \in Accounts |-> 0]
  /\ saved      = [a \in Accounts |-> 1]
  /\ status     = [a \in Accounts |-> "ACTIVE"]
  /\ inPool     = Accounts
  /\ live       = [a \in Accounts |-> 1]
  /\ inFlight   = [a \in Accounts |-> None]
  /\ tokenState = [a \in Accounts |-> "Healthy"]
  /\ pending    = [a \in Accounts |-> 0]
  /\ refreshMu  = None
  /\ phase      = "up"
  /\ jobs       = [a \in Accounts |-> 0]
  /\ flushed    = {}
  /\ pc         = [p \in Callers |-> "idle"]
  /\ acct       \in [Callers -> Accounts]
  /\ leader     = [p \in Callers |-> None]
  /\ cur        = [p \in Callers |-> 0]
  /\ got        = [p \in Callers |-> 0]
  /\ saveErr    = [p \in Callers |-> FALSE]
  /\ result     = [p \in Callers |-> NoResult]
  /\ mix        \in Mixes

\* A step of goroutine p inside a refresh it has begun.
CallerStep(p) ==
  \/ Join(p) \/ Lead(p) \/ Resolve(p) \/ Exchange(p)
  \/ \E err \in {"auth", "other"} : ExchangeFails(p, err)
  \/ \E ok \in BOOLEAN : Persist(p, ok) \/ Ban(p, ok) \/ ForcedPersist(p, ok)
  \/ \E on, ok \in BOOLEAN : UpdateAccount(p, on, ok)
  \/ Publish(p) \/ Mark(p) \/ Snapshot(p) \/ Release(p) \/ Close(p)
  \/ ReloadAfter(p) \/ Return(p)
  \/ ForcedExchange(p) \/ ForcedPublish(p)

CallerBegin(p) ==
  \E a \in Accounts : EnsureFresh(p, a) \/ ForceRefresh(p, a) \/ ReadAccount(p, a)

Shutdown ==
  \/ FlushPending \/ FlushDone
  \/ \E a \in Accounts : FlushMark(a) \/ \E ok \in BOOLEAN : FlushSave(a, ok)

Environment ==
  \/ Reload \/ Restart
  \/ \E a \in Accounts : Expire(a) \/ Revoke(a)

Next ==
  \/ \E p \in Callers : CallerStep(p) \/ CallerBegin(p)
  \/ Shutdown
  \/ Environment

Spec == Init /\ [][Next]_vars

\* A goroutine that runs is scheduled, and a call to the provider or a save
\* returns (both have timeouts or are local); nothing makes a caller arrive.
FairSpec == Spec /\ \A p \in Callers : WF_vars(CallerStep(p))

(***************************************************************************)
(* Invariants                                                              *)
(***************************************************************************)
TypeOK ==
  /\ idp \in [Accounts -> Nat]       /\ stale \in [Accounts -> Nat]
  /\ revoked \subseteq Accounts
  /\ saved \in [Accounts -> Nat]     /\ status \in [Accounts -> Statuses]
  /\ inPool \subseteq Accounts       /\ live \in [Accounts -> Nat]
  /\ inFlight \in [Accounts -> Callers \cup {None}]
  /\ tokenState \in [Accounts -> TokenStates]
  /\ pending \in [Accounts -> Nat]   /\ jobs \in [Accounts -> Nat]
  /\ flushed \subseteq Accounts
  /\ refreshMu \in Callers \cup {None}
  /\ phase \in {"up", "flushing", "draining"}
  /\ pc \in [Callers -> Steps]       /\ acct \in [Callers -> Accounts]
  /\ leader \in [Callers -> Callers \cup {None}]
  /\ cur \in [Callers -> Nat]        /\ got \in [Callers -> Nat]
  /\ saveErr \in [Callers -> BOOLEAN]
  /\ result \in [Callers -> Results]

Leads(p, a) == pc[p] \in LeaderSteps /\ acct[p] = a

\* Refreshes of one account are coalesced: at most one goroutine is inside
\* doRefresh for it, and it is the registered one (refreshCoalesced).
SingleFlight ==
  /\ \A p \in Callers : pc[p] \in LeaderSteps => inFlight[acct[p]] = p
  /\ \A a \in Accounts : inFlight[a] # None => Leads(inFlight[a], a)

\* A caller that joined a refresh waits for a goroutine that will still close
\* the call: no join of a finished refresh, no lost wake-up.
WaitersHaveLeader ==
  \A p \in Callers : pc[p] = "wait" =>
    /\ leader[p] \in Callers
    /\ pc[leader[p]] \in LeaderSteps \cup {"close"}
    /\ acct[leader[p]] = acct[p]

\* Refreshes are coalesced: one goroutine refreshes an account, and whoever
\* joined it waits for that one, which will close the call (refreshCoalesced).
Coalesced == SingleFlight /\ WaitersHaveLeader

SavesSucceed == "diskFails" \notin mix

\* While saves succeed, no account is banned unless the provider really
\* withdrew its grant: no interleaving of refreshes, reloads and restarts
\* presents a used-up refresh token (doRefresh re-reads it, and publishes before
\* it lets the next one in).
NoSpuriousBan ==
  SavesSucceed => \A a \in Accounts : status[a] = "BANNED" => a \in revoked

\* While saves succeed, a refresh hands the credential it obtained to every
\* waiter (doRefresh step 8 reads it back from the pool, which others write).
ServesWhatItObtained ==
  SavesSucceed => \A p \in Callers :
    (/\ pc[p] \in {"release", "close"}
     /\ result[p].err = "none"
     /\ got[p] # 0)
    => result[p].cred = got[p]

\* The provider's newest credential is never lost by the process: it is
\* saved, parked for a later save, or in the hands of the goroutine that
\* fetched it (doRefresh: never drop a rotated credential on a failed save).
RotatedCredentialHeld ==
  \A a \in Accounts :
    \/ saved[a] = idp[a]
    \/ pending[a] = idp[a]
    \/ \E p \in Callers : Leads(p, a) /\ got[p] = idp[a]

(***************************************************************************)
(* Action and liveness properties                                          *)
(***************************************************************************)
\* The persisted credential never goes back to an older exchange.
SavedNeverRegresses == [][\A a \in Accounts : saved'[a] >= saved[a]]_vars

\* Every refresh that began ends: the leader finishes, the waiters are woken.
EveryRefreshReturns == \A p \in Callers : pc[p] # "idle" ~> pc[p] = "idle"

(***************************************************************************)
(* What the comments say, and the code does not do                         *)
(***************************************************************************)
\* token_manager.go: "TokenManager coordinates all token refreshes for the
\* account pool. Refreshes for the same account are coalesced (one IdP call
\* serves all waiters)".
OneExchangeAtATime ==
  \A p, q \in Callers :
    (/\ pc[p] \in {"exchange", "forcedExchange"}
     /\ pc[q] \in {"exchange", "forcedExchange"}
     /\ acct[p] = acct[q]) => p = q

\* handler.go, Shutdown: a deferred token "gets a final flush attempt so a
\* rotated credential is not lost across restart".
FlushKeepsNewest ==
  [][\A a \in Accounts : phase = "flushing" => saved'[a] >= saved[a]]_vars
==============================================================================
