----------------------- MODULE CredentialRefreshProofs -----------------------
(***************************************************************************)
(* Theorems about CredentialRefresh, for every set of accounts and callers *)
(* and every bound.                                                        *)
(***************************************************************************)
EXTENDS CredentialRefresh, TLAPS

(***************************************************************************)
(* Type correctness                                                        *)
(***************************************************************************)
LEMMA StepNames ==
  /\ {"resolve", "exchange", "persist", "publish", "mark", "snapshot", "release",
      "forcedExchange", "forcedPersist", "forcedPublish", "idle", "coalesce",
      "wait", "close", "return", "edit", "reload"} \subseteq Steps
  /\ {"ACTIVE", "BANNED", "DISABLED"} \subseteq Statuses
  /\ {"Healthy", "Refreshing", "PersistenceDegraded", "ReauthRequired"}
       \subseteq TokenStates
BY DEF Steps, LeaderSteps, ForcedSteps, Statuses, TokenStates

LEMMA ResultRecords ==
  /\ NoResult \in Results
  /\ \A c \in Nat, e \in {"none", "auth", "other"} :
       [err |-> e, cred |-> c] \in Results
BY DEF NoResult, Results

\* A goroutine that returns leaves well-typed locals behind.
LEMMA FinishTypes ==
  ASSUME TypeOK, NEW p \in Callers, Finish(p)
  PROVE  /\ pc' \in [Callers -> Steps]
         /\ cur' \in [Callers -> Nat] /\ got' \in [Callers -> Nat]
         /\ saveErr' \in [Callers -> BOOLEAN]
         /\ result' \in [Callers -> Results]
<1>1. /\ pc \in [Callers -> Steps]
      /\ cur \in [Callers -> Nat] /\ got \in [Callers -> Nat]
      /\ saveErr \in [Callers -> BOOLEAN]
      /\ result \in [Callers -> Results]
  BY DEF TypeOK
<1>2. pc' \in [Callers -> Steps]
  BY <1>1, StepNames DEF Finish, Goto
<1>3. cur' \in [Callers -> Nat] /\ got' \in [Callers -> Nat]
  BY <1>1 DEF Finish
<1>4. saveErr' \in [Callers -> BOOLEAN]
  BY <1>1 DEF Finish
<1>5. result' \in [Callers -> Results]
  BY <1>1, ResultRecords DEF Finish
<1> QED
  BY <1>2, <1>3, <1>4, <1>5

\* Every variable keeps its type, whatever fails and whenever the process
\* dies.
THEOREM TypeCorrect == Spec => []TypeOK
<1>1. Init => TypeOK
  BY CallersAssumption, StepNames, ResultRecords DEF Init, TypeOK
<1>2. ASSUME TypeOK, NEW p \in Callers, CallerStep(p) PROVE TypeOK'
  <2> USE StepNames, ResultRecords
      DEF TypeOK, Goto, Finish, SetState, idpVars, cfgVars, poolVars, tmVars,
          flushVars
  <2>1. CASE Join(p)
    BY <1>2, <2>1 DEF Join
  <2>2. CASE Lead(p)
    BY <1>2, <2>2 DEF Lead
  <2>3. CASE Resolve(p)
    <3> DEFINE a == acct[p]  c == ResolveAccount(a)
               Fresh == [err |-> "none", cred |-> c]
    <3>1. /\ cur \in [Callers -> Nat] /\ got \in [Callers -> Nat]
          /\ tokenState \in [Accounts -> TokenStates]
          /\ pc \in [Callers -> Steps] /\ result \in [Callers -> Results]
      BY <1>2
    <3>2. a \in Accounts /\ c \in Nat
      BY <1>2 DEF ResolveAccount
    <3>3. Fresh \in Results
      BY <3>2
    <3> HIDE DEF c, a, Fresh, TypeOK
    <3>4. cur' \in [Callers -> Nat] /\ got' \in [Callers -> Nat]
      BY <2>3, <3>1, <3>2 DEF Resolve, a, c
    <3>5. tokenState' \in [Accounts -> TokenStates]
      <4>1. \/ tokenState' = [tokenState EXCEPT ![a] = "Healthy"]
            \/ tokenState' = tokenState
        BY <2>3 DEF Resolve, a
      <4> QED BY <4>1, <3>1, <3>2
    <3>6. pc' \in [Callers -> Steps]
      <4>1. \/ pc' = [pc EXCEPT ![p] = "release"]
            \/ pc' = [pc EXCEPT ![p] = "exchange"]
        BY <2>3 DEF Resolve
      <4> QED BY <4>1, <3>1
    <3>7. result' \in [Callers -> Results]
      <4>1. \/ result' = [result EXCEPT ![p] = Fresh]
            \/ result' = result
        BY <2>3 DEF Resolve, a, c, Fresh
      <4> QED BY <4>1, <3>1, <3>3
    <3>8. UNCHANGED <<idp, revoked, stale, saved, status, inPool, live, inFlight,
                      pending, refreshMu, phase, jobs, flushed, acct, leader,
                      saveErr>>
      BY <2>3 DEF Resolve
    <3> QED
      BY <1>2, <3>4, <3>5, <3>6, <3>7, <3>8 DEF TypeOK
  <2>4. CASE Exchange(p)
    <3>1. acct[p] \in Accounts /\ idp[acct[p]] + 1 \in Nat
      BY <1>2
    <3>2. idp' \in [Accounts -> Nat] /\ got' \in [Callers -> Nat]
          /\ pc' \in [Callers -> Steps]
      BY <1>2, <2>4, <3>1 DEF Exchange
    <3>3. UNCHANGED <<revoked, stale, saved, status, inPool, live, inFlight,
                      tokenState, pending, refreshMu, phase, jobs, flushed, acct,
                      leader, cur, saveErr, result>>
      BY <2>4 DEF Exchange
    <3> QED
      BY <1>2, <3>2, <3>3
  <2>5. ASSUME NEW err \in {"auth", "other"}, ExchangeFails(p, err)
        PROVE TypeOK'
    <3>1. /\ acct[p] \in Accounts /\ idp[acct[p]] + 1 \in Nat
          /\ [err |-> err, cred |-> 0] \in Results
      <4>1. acct[p] \in Accounts /\ idp[acct[p]] + 1 \in Nat
        BY <1>2
      <4>2. [err |-> err, cred |-> 0] \in Results
        BY ResultRecords
      <4> QED BY <4>1, <4>2
    <3>2. idp' \in [Accounts -> Nat]
      BY <1>2, <2>5, <3>1 DEF ExchangeFails
    <3>3. /\ tokenState' \in [Accounts -> TokenStates]
          /\ pc' \in [Callers -> Steps] /\ result' \in [Callers -> Results]
      BY <1>2, <2>5, <3>1 DEF ExchangeFails
    <3>4. UNCHANGED <<revoked, stale, saved, status, inPool, live, inFlight,
                      pending, refreshMu, phase, jobs, flushed, acct, leader,
                      cur, got, saveErr>>
      BY <2>5 DEF ExchangeFails
    <3> QED
      BY <1>2, <3>2, <3>3, <3>4
  <2>6. ASSUME NEW ok \in BOOLEAN, Persist(p, ok) PROVE TypeOK'
    BY <1>2, <2>6 DEF Persist, SaveCredential
  <2>7. ASSUME NEW ok \in BOOLEAN, ForcedPersist(p, ok) PROVE TypeOK'
    <3>1. /\ saved' \in [Accounts -> Nat]
          /\ refreshMu' \in Callers \cup {None}
      BY <1>2, <2>7 DEF ForcedPersist, SaveCredential
    <3>2. CASE Finish(p)
      BY <1>2, <2>7, <3>1, <3>2, FinishTypes DEF ForcedPersist, SaveCredential
    <3>3. CASE Goto(p, "forcedPublish") /\ UNCHANGED <<cur, got, saveErr, result>>
      BY <1>2, <2>7, <3>1, <3>3 DEF ForcedPersist, SaveCredential
    <3> QED
      BY <2>7, <3>2, <3>3 DEF ForcedPersist
  <2>8. ASSUME NEW ok \in BOOLEAN, Ban(p, ok) PROVE TypeOK'
    <3>1. CASE ok
      <4>1. /\ status' = [status EXCEPT ![acct[p]] = "BANNED"]
            /\ pc' = [pc EXCEPT ![p] = "reload"]
        BY <2>8, <3>1 DEF Ban
      <4>2. status' \in [Accounts -> Statuses] /\ pc' \in [Callers -> Steps]
        BY <1>2, <4>1
      <4>3. UNCHANGED <<idp, revoked, stale, saved, inPool, live, inFlight,
                        tokenState, pending, refreshMu, phase, jobs, flushed,
                        acct, leader, cur, got, saveErr, result>>
        BY <2>8, <3>1 DEF Ban
      <4> QED BY <1>2, <4>2, <4>3
    <3>2. CASE ~ok
      <4>1. Finish(p) /\ UNCHANGED status
        BY <2>8, <3>2 DEF Ban
      <4>2. UNCHANGED <<idp, revoked, stale, saved, inPool, live, inFlight,
                        tokenState, pending, refreshMu, phase, jobs, flushed,
                        acct, leader>>
        BY <2>8 DEF Ban
      <4> HIDE DEF Finish
      <4> QED BY <1>2, <4>1, <4>2, FinishTypes
    <3> QED BY <3>1, <3>2
  <2>9. CASE Publish(p)
    BY <1>2, <2>9 DEF Publish, PublishToPool
  <2>10. CASE Mark(p)
    BY <1>2, <2>10 DEF Mark
  <2>11. CASE Snapshot(p)
    BY <1>2, <2>11 DEF Snapshot
  <2>12. CASE Release(p)
    BY <1>2, <2>12 DEF Release
  <2>13. CASE Close(p)
    BY <1>2, <2>13 DEF Close
  <2>14. CASE ReloadAfter(p)
    BY <1>2, <2>14 DEF ReloadAfter, ReloadPool
  <2>15. CASE Return(p)
    BY <1>2, <2>15 DEF Return
  <2>16. CASE ForcedExchange(p)
    <3>1. acct[p] \in Accounts /\ idp[acct[p]] + 1 \in Nat
      BY <1>2
    <3>2. UNCHANGED <<revoked, stale, saved, status, inPool, live, inFlight,
                      tokenState, pending, phase, jobs, flushed, acct, leader>>
      BY <2>16 DEF ForcedExchange
    <3>3. CASE pc' = [pc EXCEPT ![p] = "forcedPersist"]
      <4>1. CASE Finish(p) /\ refreshMu' = None /\ UNCHANGED idp
        <5> HIDE DEF Finish
        <5> QED BY <1>2, <3>2, <4>1, FinishTypes
      <4>2. CASE /\ idp' = [idp EXCEPT ![acct[p]] = @ + 1]
                 /\ got' = [got EXCEPT ![p] = idp[acct[p]] + 1]
                 /\ UNCHANGED <<refreshMu, cur, saveErr, result>>
        BY <1>2, <3>1, <3>2, <3>3, <4>2
      <4> QED BY <2>16, <4>1, <4>2 DEF ForcedExchange
    <3>4. CASE Finish(p) /\ refreshMu' = None /\ UNCHANGED idp
      <4> HIDE DEF Finish
      <4> QED BY <1>2, <3>2, <3>4, FinishTypes
    <3> QED
      BY <2>16, <3>3, <3>4 DEF ForcedExchange
  <2>17. CASE ForcedPublish(p)
    BY <1>2, <2>17 DEF ForcedPublish, PublishToPool
  <2>18. ASSUME NEW on \in BOOLEAN, NEW ok \in BOOLEAN, UpdateAccount(p, on, ok)
         PROVE TypeOK'
    <3>1. status' \in [Accounts -> Statuses] /\ pc' \in [Callers -> Steps]
      BY <1>2, <2>18 DEF UpdateAccount
    <3>2. UNCHANGED <<idp, revoked, stale, saved, inPool, live, inFlight,
                      tokenState, pending, refreshMu, phase, jobs, flushed, acct,
                      leader, cur, got, saveErr, result>>
      BY <2>18 DEF UpdateAccount
    <3> QED
      BY <1>2, <3>1, <3>2
  <2>19. QED
    BY <1>2, <2>1, <2>2, <2>3, <2>4, <2>5, <2>6, <2>7, <2>8, <2>9, <2>10,
       <2>11, <2>12, <2>13, <2>14, <2>15, <2>16, <2>17, <2>18 DEF CallerStep
<1>3. ASSUME TypeOK, NEW p \in Callers, CallerBegin(p) PROVE TypeOK'
  <2> USE StepNames
      DEF TypeOK, Goto, idpVars, cfgVars, poolVars, tmVars, flushVars
  <2>1. ASSUME NEW a \in Accounts, EnsureFresh(p, a) PROVE TypeOK'
    BY <1>3, <2>1 DEF EnsureFresh
  <2>2. ASSUME NEW a \in Accounts, ForceRefresh(p, a) PROVE TypeOK'
    BY <1>3, <2>2 DEF ForceRefresh
  <2>3. ASSUME NEW a \in Accounts, ReadAccount(p, a) PROVE TypeOK'
    BY <1>3, <2>3 DEF ReadAccount
  <2>4. QED
    BY <1>3, <2>1, <2>2, <2>3 DEF CallerBegin
<1>4. ASSUME TypeOK, Shutdown PROVE TypeOK'
  <2> USE StepNames
      DEF TypeOK, SetState, idpVars, cfgVars, poolVars, tmVars, locals
  <2>1. CASE FlushPending
    BY <1>4, <2>1 DEF FlushPending
  <2>2. CASE FlushDone
    BY <1>4, <2>2 DEF FlushDone
  <2>3. ASSUME NEW a \in Accounts, FlushMark(a) PROVE TypeOK'
    BY <1>4, <2>3 DEF FlushMark
  <2>4. ASSUME NEW a \in Accounts, NEW ok \in BOOLEAN, FlushSave(a, ok)
        PROVE TypeOK'
    BY <1>4, <2>4 DEF FlushSave, SaveCredential
  <2>5. QED
    BY <1>4, <2>1, <2>2, <2>3, <2>4 DEF Shutdown
<1>5. ASSUME TypeOK, Environment PROVE TypeOK'
  <2> USE StepNames, ResultRecords
      DEF TypeOK, cfgVars, poolVars, tmVars, flushVars, locals, idpVars
  <2>1. CASE Reload
    BY <1>5, <2>1 DEF Reload, ReloadPool
  <2>2. CASE Restart
    BY <1>5, <2>2 DEF Restart, ReloadPool
  <2>3. ASSUME NEW a \in Accounts, Expire(a) PROVE TypeOK'
    <3>1. stale[a] + 1 \in Nat
      BY <1>5
    <3>2. stale' \in [Accounts -> Nat]
      BY <1>5, <2>3, <3>1 DEF Expire
    <3>3. UNCHANGED <<idp, revoked, saved, status, inPool, live, inFlight,
                      tokenState, pending, refreshMu, phase, jobs, flushed, pc,
                      acct, leader, cur, got, saveErr, result>>
      BY <2>3 DEF Expire
    <3> QED
      BY <1>5, <3>2, <3>3
  <2>4. ASSUME NEW a \in Accounts, Revoke(a) PROVE TypeOK'
    BY <1>5, <2>4 DEF Revoke
  <2>5. QED
    BY <1>5, <2>1, <2>2, <2>3, <2>4 DEF Environment
<1>6. ASSUME TypeOK, UNCHANGED vars PROVE TypeOK'
  BY <1>6 DEF TypeOK, vars, idpVars, cfgVars, poolVars, tmVars, flushVars,
              locals
<1>7. TypeOK /\ [Next]_vars => TypeOK'
  BY <1>2, <1>3, <1>4, <1>5, <1>6 DEF Next
<1>8. QED
  BY <1>1, <1>7, PTL DEF Spec

(***************************************************************************)
(* Coalescing                                                              *)
(***************************************************************************)
\* Two goroutines never refresh one account through the manager at the same
\* time, and a goroutine that joined a refresh is always waiting for one that
\* will close it (refreshCoalesced), with any failure and any restart.
THEOREM CoalescedRefresh == Spec => []Coalesced
<1> USE CallersAssumption
<1> USE DEF Coalesced, SingleFlight, WaitersHaveLeader, Leads, LeaderSteps
<1>1. Init => Coalesced
  BY DEF Init
<1>2. TypeOK /\ TypeOK' /\ Coalesced /\ [Next]_vars => Coalesced'
  <2> SUFFICES ASSUME TypeOK, TypeOK', Coalesced, [Next]_vars PROVE Coalesced'
    OBVIOUS
  <2> USE DEF TypeOK, vars, idpVars, cfgVars, poolVars, tmVars, flushVars,
              locals, Goto, Finish
  <2>1. ASSUME NEW p \in Callers, CallerStep(p) PROVE Coalesced'
    <3>1. CASE Join(p)
      BY <3>1 DEF Join
    <3>2. CASE Lead(p)
      BY <3>2 DEF Lead
    <3>3. CASE Resolve(p)
      BY <3>3 DEF Resolve
    <3>4. CASE Exchange(p)
      BY <3>4 DEF Exchange
    <3>5. ASSUME NEW err \in {"auth", "other"}, ExchangeFails(p, err)
          PROVE Coalesced'
      BY <3>5 DEF ExchangeFails
    <3>6. ASSUME NEW ok \in BOOLEAN, Persist(p, ok) PROVE Coalesced'
      BY <3>6 DEF Persist
    <3>7. ASSUME NEW ok \in BOOLEAN, Ban(p, ok) \/ ForcedPersist(p, ok)
          PROVE Coalesced'
      BY <3>7 DEF Ban, ForcedPersist
    <3>8. CASE Publish(p) \/ Mark(p) \/ Snapshot(p)
      BY <3>8 DEF Publish, Mark, Snapshot
    <3>9. CASE Release(p)
      BY <3>9 DEF Release
    <3>10. CASE Close(p)
      BY <3>10 DEF Close
    <3>11. CASE ReloadAfter(p)
      BY <3>11 DEF ReloadAfter
    <3>12. CASE Return(p)
      BY <3>12 DEF Return
    <3>13. CASE ForcedExchange(p) \/ ForcedPublish(p)
      BY <3>13 DEF ForcedExchange, ForcedPublish
    <3>14. ASSUME NEW on \in BOOLEAN, NEW ok \in BOOLEAN,
                  UpdateAccount(p, on, ok)
           PROVE Coalesced'
      BY <3>14 DEF UpdateAccount
    <3>15. QED
      BY <2>1, <3>1, <3>2, <3>3, <3>4, <3>5, <3>6, <3>7, <3>8, <3>9, <3>10,
         <3>11, <3>12, <3>13, <3>14 DEF CallerStep
  <2>2. ASSUME NEW p \in Callers, CallerBegin(p) PROVE Coalesced'
    BY <2>2 DEF CallerBegin, EnsureFresh, ForceRefresh, ReadAccount
  <2>3. CASE Shutdown
    BY <2>3 DEF Shutdown, FlushPending, FlushDone, FlushMark, FlushSave
  <2>4. CASE Environment
    BY <2>4 DEF Environment, Reload, Restart, Expire, Revoke
  <2>5. CASE UNCHANGED vars
    BY <2>5
  <2>6. QED
    BY <2>1, <2>2, <2>3, <2>4, <2>5 DEF Next
<1> HIDE DEF Coalesced, SingleFlight, WaitersHaveLeader
<1>3. QED
  BY <1>1, <1>2, TypeCorrect, PTL DEF Spec

(***************************************************************************)
(* The managed refresh                                                     *)
(*                                                                         *)
(* Without the operator's forced refresh, answers lost on the way and a    *)
(* process that dies at any point, the credentials of an account stay in   *)
(* step as long as not both the disk fails and the process is restarted.   *)
(* (With those, TLC shows what goes wrong: CredTwoExchanges, CredFlush.)   *)
(***************************************************************************)
ManagedOnly == \A m \in Mixes : m \subseteq {"stop"} \/ m \subseteq {"diskFails"}

Managed ==
  /\ mix \subseteq {"stop"} \/ mix \subseteq {"diskFails"}
  /\ \A p \in Callers : pc[p] \notin ForcedSteps

\* What is parked needs a disk that fails, so that a restart has nothing to
\* flush.
NothingToFlush ==
  /\ \A a \in Accounts : jobs[a] = 0
  /\ flushed = {}
  /\ "stop" \notin mix => phase = "up"
  /\ SavesSucceed => /\ \A a \in Accounts : pending[a] = 0
                     /\ \A p \in Callers : ~saveErr[p]

At(a, steps) == \E p \in Callers : pc[p] \in steps /\ acct[p] = a

\* The provider's newest credential of an account is saved, parked, or in the
\* hands of the goroutine that will save or park it.
Held ==
  /\ \A a \in Accounts : saved[a] <= idp[a] /\ idp[a] # 0
  /\ \A p \in Callers : pc[p] \in {"persist", "publish", "mark", "snapshot"}
       => got[p] = idp[acct[p]]
  /\ \A p \in Callers : pc[p] \in {"publish", "mark"}
       => saveErr[p] \/ saved[acct[p]] = idp[acct[p]]
  /\ \A a \in Accounts :
       saved[a] = idp[a] \/ pending[a] = idp[a] \/ At(a, {"persist", "publish", "mark"})

\* While saves succeed, only the refresh that is between the provider and the
\* configuration, or between the configuration and the pool, leaves an older
\* credential there, and no other refresh of the account presents one.
Current == SavesSucceed =>
  /\ \A a \in Accounts : saved[a] = idp[a] \/ At(a, {"persist"})
  /\ \A a \in inPool : live[a] = idp[a] \/ At(a, {"persist", "publish"})
  /\ \A p \in Callers : pc[p] = "exchange" => cur[p] = idp[acct[p]]

\* While saves succeed, a refusal means that the grant was withdrawn.
Refused == SavesSucceed =>
  /\ \A p \in Callers : pc[p] \in {"idle", "coalesce", "edit", "wait"}
       => result[p].err # "auth"
  /\ \A p \in Callers : result[p].err = "auth" => acct[p] \in revoked
  /\ NoSpuriousBan
  /\ ServesWhatItObtained

LEMMA MixStays == [Next]_vars => mix' = mix
BY DEF Next, CallerStep, CallerBegin, Shutdown, Environment, vars,
       EnsureFresh, Join, Lead, Resolve, Exchange, ExchangeFails, Persist,
       Publish, Mark, Snapshot, Release, Close, Ban, ReloadAfter, Return,
       ForceRefresh, ForcedExchange, ForcedPersist, ForcedPublish, Reload,
       ReadAccount, UpdateAccount, FlushPending, FlushSave, FlushMark,
       FlushDone, Restart, Expire, Revoke

LEMMA ManagedHolds ==
  ASSUME ManagedOnly
  PROVE  Spec => []Managed
<1>1. Init => Managed
  BY DEF Init, Managed, ManagedOnly, ForcedSteps
<1>2. TypeOK /\ Managed /\ [Next]_vars => Managed'
  <2> SUFFICES ASSUME TypeOK, Managed, [Next]_vars PROVE Managed'
    OBVIOUS
  <2>1. mix' = mix
    BY MixStays
  <2>2. pc \in [Callers -> Steps] /\ "forced" \notin mix
    BY DEF TypeOK, Managed
  <2> USE DEF Managed, ForcedSteps, Goto, Finish
  <2>3. ASSUME NEW p \in Callers, CallerStep(p) PROVE Managed'
    BY <2>1, <2>2, <2>3
       DEF CallerStep, Join, Lead, Resolve, Exchange, ExchangeFails, Persist,
           Publish, Mark, Snapshot, Release, Close, Ban, ReloadAfter, Return,
           ForcedExchange, ForcedPersist, ForcedPublish, UpdateAccount
  <2>4. ASSUME NEW p \in Callers, CallerBegin(p) PROVE Managed'
    BY <2>1, <2>2, <2>4 DEF CallerBegin, EnsureFresh, ForceRefresh, ReadAccount
  <2>5. CASE Shutdown
    BY <2>1, <2>5
       DEF Shutdown, FlushPending, FlushSave, FlushMark, FlushDone, locals
  <2>6. CASE Environment
    BY <2>1, <2>6 DEF Environment, Reload, Restart, Expire, Revoke, locals
  <2>7. CASE UNCHANGED vars
    BY <2>7 DEF vars, locals
  <2>8. QED
    BY <2>3, <2>4, <2>5, <2>6, <2>7 DEF Next
<1>3. QED
  BY <1>1, <1>2, TypeCorrect, PTL DEF Spec

LEMMA NothingToFlushHolds ==
  ASSUME ManagedOnly
  PROVE  Spec => []NothingToFlush
<1>1. Init => NothingToFlush
  BY DEF Init, NothingToFlush
<1>2. TypeOK /\ Managed /\ NothingToFlush /\ [Next]_vars => NothingToFlush'
  <2> SUFFICES ASSUME TypeOK, Managed, NothingToFlush, [Next]_vars
               PROVE  NothingToFlush'
    OBVIOUS
  <2>1. mix' = mix
    BY MixStays
  <2>2. /\ pc \in [Callers -> Steps] /\ pending \in [Accounts -> Nat]
        /\ saveErr \in [Callers -> BOOLEAN] /\ jobs \in [Accounts -> Nat]
    BY DEF TypeOK
  <2> USE DEF NothingToFlush, SavesSucceed, Goto, Finish, tmVars, flushVars
  <2>3. ASSUME NEW p \in Callers, CallerStep(p) PROVE NothingToFlush'
    <3>1. ASSUME NEW ok \in BOOLEAN, Persist(p, ok) PROVE NothingToFlush'
      BY <2>1, <2>2, <3>1 DEF Persist, SaveCredential
    <3>2. CASE Mark(p)
      BY <2>1, <2>2, <3>2 DEF Mark
    <3>3. CASE \E ok \in BOOLEAN : Ban(p, ok) \/ ForcedPersist(p, ok)
      BY <2>1, <2>2, <3>3 DEF Ban, ForcedPersist
    <3>4. CASE \/ ReloadAfter(p) \/ Return(p) \/ ForcedExchange(p)
               \/ ForcedPublish(p)
      BY <2>1, <2>2, <3>4 DEF ReloadAfter, Return, ForcedExchange, ForcedPublish
    <3>5. CASE \/ Join(p) \/ Lead(p) \/ Resolve(p) \/ Exchange(p)
               \/ \E err \in {"auth", "other"} : ExchangeFails(p, err)
               \/ \E on, ok \in BOOLEAN : UpdateAccount(p, on, ok)
               \/ Publish(p) \/ Snapshot(p) \/ Release(p) \/ Close(p)
      BY <2>1, <2>2, <3>5
         DEF Join, Lead, Resolve, Exchange, ExchangeFails, UpdateAccount,
             Publish, Snapshot, Release, Close
    <3>6. QED
      BY <2>3, <3>1, <3>2, <3>3, <3>4, <3>5 DEF CallerStep
  <2>4. ASSUME NEW p \in Callers, CallerBegin(p) PROVE NothingToFlush'
    BY <2>1, <2>2, <2>4 DEF CallerBegin, EnsureFresh, ForceRefresh, ReadAccount
  <2>5. CASE Shutdown
    <3>1. CASE FlushPending
      BY <2>1, <2>2, <3>1 DEF FlushPending, Managed, locals
    <3>2. CASE FlushDone
      BY <2>1, <2>2, <3>2 DEF FlushDone, locals
    <3>3. ~ \E a \in Accounts : FlushMark(a) \/ \E ok \in BOOLEAN : FlushSave(a, ok)
      BY DEF FlushMark, FlushSave
    <3>4. QED
      BY <2>5, <3>1, <3>2, <3>3 DEF Shutdown
  <2>6. CASE Environment
    BY <2>1, <2>2, <2>6 DEF Environment, Reload, Restart, Expire, Revoke, locals
  <2>7. CASE UNCHANGED vars
    BY <2>7 DEF vars, locals
  <2>8. QED
    BY <2>3, <2>4, <2>5, <2>6, <2>7 DEF Next
<1>3. QED
  BY <1>1, <1>2, TypeCorrect, ManagedHolds, PTL DEF Spec

\* A goroutine that is neither before nor after a step between the provider and
\* the end of a refresh, and a step that touches no credential, keep Held.
LEMMA HeldKept ==
  ASSUME TypeOK, Held, UNCHANGED <<idp, saved, pending>>,
         \A p \in Callers :
           pc[p] \in {"persist", "publish", "mark", "snapshot"}
             \/ pc'[p] \in {"persist", "publish", "mark", "snapshot"}
           => UNCHANGED <<pc[p], acct[p], got[p], saveErr[p]>>
  PROVE  Held'
BY DEF Held, At

LEMMA HeldHolds ==
  ASSUME ManagedOnly
  PROVE  Spec => []Held
<1>1. Init => Held
  BY DEF Init, Held
<1>2. /\ TypeOK /\ Coalesced /\ Managed /\ NothingToFlush /\ Held
      /\ [Next]_vars
      => Held'
  <2> SUFFICES ASSUME TypeOK, Coalesced, Managed, NothingToFlush, Held,
                      [Next]_vars
               PROVE  Held'
    OBVIOUS
  <2>1. mix' = mix
    BY MixStays
  <2>2. /\ pc \in [Callers -> Steps] /\ acct \in [Callers -> Accounts]
        /\ idp \in [Accounts -> Nat] /\ saved \in [Accounts -> Nat]
        /\ pending \in [Accounts -> Nat] /\ got \in [Callers -> Nat]
        /\ saveErr \in [Callers -> BOOLEAN] /\ cur \in [Callers -> Nat]
        /\ result \in [Callers -> Results]
    BY DEF TypeOK
  <2>3. \A p, q \in Callers :
          (/\ pc[p] \in LeaderSteps /\ pc[q] \in LeaderSteps
           /\ acct[p] = acct[q]) => p = q
    BY DEF Coalesced, SingleFlight
  <2>4. ASSUME NEW p \in Callers, CallerStep(p) PROVE Held'
    <3> USE DEF Goto, Finish
    <3>1. CASE Exchange(p)
      BY <2>2, <2>3, <3>1 DEF Exchange, Held, At, cfgVars, tmVars, LeaderSteps
    <3>2. ASSUME NEW err \in {"auth", "other"}, ExchangeFails(p, err)
          PROVE  Held'
      BY <2>2, <3>2, HeldKept DEF ExchangeFails, Managed, cfgVars
    <3>3. ASSUME NEW ok \in BOOLEAN, Persist(p, ok) PROVE Held'
      <4>1. /\ pc[p] = "persist" /\ pc' = [pc EXCEPT ![p] = "publish"]
            /\ saveErr' = [saveErr EXCEPT ![p] = ~ok]
            /\ saved' = IF ok THEN [saved EXCEPT ![acct[p]] = got[p]] ELSE saved
            /\ UNCHANGED <<idp, pending, acct, got>>
        BY <3>3 DEF Persist, SaveCredential, idpVars, tmVars
      <4>2. got[p] = idp[acct[p]] /\ acct[p] \in Accounts
        BY <2>2, <4>1 DEF Held
      <4>3. /\ \A q \in Callers \ {p} : pc'[q] = pc[q] /\ saveErr'[q] = saveErr[q]
            /\ pc'[p] = "publish" /\ saveErr'[p] = ~ok
        BY <2>2, <4>1
      <4>4. /\ ok => saved'[acct[p]] = idp[acct[p]]
            /\ \A a \in Accounts : saved'[a] = saved[a] \/ saved'[a] = idp[a]
        BY <2>2, <4>1, <4>2
      <4>5. \A a \in Accounts : saved'[a] <= idp'[a] /\ idp'[a] # 0
        BY <2>2, <4>1, <4>4 DEF Held
      <4>6. \A q \in Callers :
              pc'[q] \in {"persist", "publish", "mark", "snapshot"}
              => got'[q] = idp'[acct'[q]]
        BY <4>1, <4>2, <4>3 DEF Held
      <4>7. \A q \in Callers :
              pc'[q] \in {"publish", "mark"}
              => saveErr'[q] \/ saved'[acct'[q]] = idp'[acct'[q]]
        BY <2>2, <4>1, <4>3, <4>4 DEF Held
      <4>8. \A a \in Accounts :
              \/ saved'[a] = idp'[a] \/ pending'[a] = idp'[a]
              \/ At(a, {"persist", "publish", "mark"})'
        <5> TAKE a \in Accounts
        <5>1. At(a, {"persist", "publish", "mark"})
                => At(a, {"persist", "publish", "mark"})'
          BY <4>1, <4>3 DEF At
        <5> QED
          BY <4>1, <4>4, <5>1 DEF Held
      <4>9. QED
        BY <4>5, <4>6, <4>7, <4>8 DEF Held
    <3>4. CASE Publish(p)
      BY <2>2, <3>4 DEF Publish, Held, At, idpVars, cfgVars, tmVars
    <3>5. CASE Mark(p)
      BY <2>2, <2>3, <3>5 DEF Mark, Held, At, idpVars, cfgVars, LeaderSteps
    <3>6. CASE Snapshot(p)
      BY <2>2, <3>6 DEF Snapshot, Held, At, idpVars, cfgVars, tmVars
    <3>7. CASE \/ Join(p) \/ Lead(p) \/ Resolve(p) \/ Release(p) \/ Close(p)
               \/ \E ok \in BOOLEAN : Ban(p, ok)
               \/ \E on, ok \in BOOLEAN : UpdateAccount(p, on, ok)
               \/ ReloadAfter(p) \/ Return(p)
      BY <2>2, <3>7, HeldKept
         DEF Join, Lead, Resolve, Release, Close, Ban, UpdateAccount,
             ReloadAfter, Return, idpVars, cfgVars, tmVars
    <3>8. CASE \/ ForcedExchange(p) \/ ForcedPublish(p)
               \/ \E ok \in BOOLEAN : ForcedPersist(p, ok)
      BY <3>8 DEF Managed, ForcedSteps, ForcedExchange, ForcedPublish,
                  ForcedPersist
    <3>9. QED
      BY <2>4, <3>1, <3>2, <3>3, <3>4, <3>5, <3>6, <3>7, <3>8 DEF CallerStep
  <2>5. ASSUME NEW p \in Callers, CallerBegin(p) PROVE Held'
    BY <2>2, <2>5, HeldKept
       DEF CallerBegin, EnsureFresh, ForceRefresh, ReadAccount, Managed, Goto,
           idpVars, cfgVars, tmVars
  <2>6. CASE Shutdown
    <3>1. ~ \E a \in Accounts : FlushMark(a) \/ \E ok \in BOOLEAN : FlushSave(a, ok)
      BY DEF FlushMark, FlushSave, NothingToFlush
    <3>2. QED
      BY <2>6, <3>1, HeldKept
         DEF Shutdown, FlushPending, FlushDone, idpVars, cfgVars, tmVars, locals
  <2>7. CASE Environment
    <3>1. CASE Restart
      <4>1. \A a \in Accounts : ~At(a, {"persist", "publish", "mark"})
        BY <2>1, <3>1 DEF Restart, Managed, NothingToFlush, At
      <4>2. "abrupt" \notin mix /\ phase = "draining"
        BY <3>1 DEF Restart, Managed
      <4>3. \A a \in Accounts : pending[a] = 0
        BY <4>2 DEF Managed, NothingToFlush, SavesSucceed
      <4>4. UNCHANGED <<idp, saved>> /\ \A p \in Callers : pc'[p] = "idle"
        BY <3>1 DEF Restart, idpVars, cfgVars
      <4>5. QED
        BY <2>2, <4>1, <4>3, <4>4 DEF Held, At
    <3>2. CASE Reload \/ \E a \in Accounts : Expire(a) \/ Revoke(a)
      BY <3>2, HeldKept
         DEF Reload, Expire, Revoke, idpVars, cfgVars, tmVars, locals
    <3>3. QED
      BY <2>7, <3>1, <3>2 DEF Environment
  <2>8. CASE UNCHANGED vars
    BY <2>8, HeldKept DEF vars, idpVars, cfgVars, tmVars, locals
  <2>9. QED
    BY <2>4, <2>5, <2>6, <2>7, <2>8 DEF Next
<1>3. QED
  BY <1>1, <1>2, TypeCorrect, CoalescedRefresh, ManagedHolds,
     NothingToFlushHolds, PTL DEF Spec

\* The provider's newest credential is never lost: doRefresh saves it before
\* it is published, parks it when the save fails, and no later refresh, reload
\* or restart overwrites it with an older one.
THEOREM NewestCredentialIsHeld ==
  ASSUME ManagedOnly
  PROVE  Spec => []RotatedCredentialHeld
<1>1. Held => RotatedCredentialHeld
  <2> SUFFICES ASSUME Held, NEW a \in Accounts,
                      At(a, {"persist", "publish", "mark"})
               PROVE  \E p \in Callers : Leads(p, a) /\ got[p] = idp[a]
    BY DEF Held, RotatedCredentialHeld
  <2>1. PICK p \in Callers : pc[p] \in {"persist", "publish", "mark"} /\ acct[p] = a
    BY DEF At
  <2>2. got[p] = idp[acct[p]]
    BY <2>1 DEF Held
  <2>3. QED
    BY <2>1, <2>2 DEF Leads, LeaderSteps
<1>2. QED
  BY <1>1, HeldHolds, PTL

\* The persisted credential never goes back: only a refresh writes it, and what
\* it writes is the provider's newest (UpdateAccountCredentialState,
\* preserveCredentialState).
THEOREM SavedOnlyAdvances ==
  ASSUME ManagedOnly
  PROVE  Spec => SavedNeverRegresses
<1>1. ASSUME TypeOK, Managed, NothingToFlush, Held, Next, NEW a \in Accounts
      PROVE  saved'[a] >= saved[a]
  <2>1. /\ saved \in [Accounts -> Nat] /\ idp \in [Accounts -> Nat]
        /\ got \in [Callers -> Nat] /\ acct \in [Callers -> Accounts]
    BY <1>1 DEF TypeOK
  <2>2. CASE UNCHANGED saved
    BY <2>1, <2>2
  <2>3. CASE \E p \in Callers, ok \in BOOLEAN : Persist(p, ok)
    BY <1>1, <2>1, <2>3 DEF Persist, SaveCredential, Held
  <2>4. \/ UNCHANGED saved
        \/ \E p \in Callers, ok \in BOOLEAN : Persist(p, ok) \/ ForcedPersist(p, ok)
        \/ \E b \in Accounts, ok \in BOOLEAN : FlushSave(b, ok)
    BY <1>1
       DEF Next, CallerStep, CallerBegin, Shutdown, Environment, cfgVars,
           EnsureFresh, Join, Lead, Resolve, Exchange, ExchangeFails,
           Publish, Mark, Snapshot, Release, Close, Ban, ReloadAfter, Return,
           ForceRefresh, ForcedExchange, ForcedPublish, Reload,
           ReadAccount, UpdateAccount, FlushPending, FlushMark,
           FlushDone, Restart, Expire, Revoke
  <2>5. ~ \E p \in Callers, ok \in BOOLEAN : ForcedPersist(p, ok)
    BY <1>1 DEF Managed, ForcedSteps, ForcedPersist
  <2>6. ~ \E b \in Accounts, ok \in BOOLEAN : FlushSave(b, ok)
    BY <1>1 DEF NothingToFlush, FlushSave
  <2>7. QED
    BY <2>2, <2>3, <2>4, <2>5, <2>6
<1>2. TypeOK /\ Managed /\ NothingToFlush /\ Held /\ [Next]_vars
        => [\A a \in Accounts : saved'[a] >= saved[a]]_vars
  BY <1>1
<1>3. QED
  BY <1>2, TypeCorrect, ManagedHolds, NothingToFlushHolds, HeldHolds, PTL
     DEF Spec, SavedNeverRegresses

LEMMA CurrentHolds ==
  ASSUME ManagedOnly
  PROVE  Spec => []Current
<1>1. Init => Current
  BY DEF Init, Current
<1>2. /\ TypeOK /\ Coalesced /\ Managed /\ NothingToFlush /\ Held /\ Current
      /\ [Next]_vars
      => Current'
  <2> SUFFICES ASSUME TypeOK, Coalesced, Managed, NothingToFlush, Held, Current,
                      [Next]_vars, SavesSucceed
               PROVE  Current'
    BY MixStays DEF Current, SavesSucceed
  <2>1. mix' = mix
    BY MixStays
  <2>2. /\ pc \in [Callers -> Steps] /\ acct \in [Callers -> Accounts]
        /\ idp \in [Accounts -> Nat] /\ saved \in [Accounts -> Nat]
        /\ live \in [Accounts -> Nat] /\ inPool \subseteq Accounts
        /\ got \in [Callers -> Nat] /\ cur \in [Callers -> Nat]
    BY DEF TypeOK
  <2>3. \A p, q \in Callers :
          (/\ pc[p] \in LeaderSteps /\ pc[q] \in LeaderSteps
           /\ acct[p] = acct[q]) => p = q
    BY DEF Coalesced, SingleFlight
  <2>4. /\ \A a \in Accounts : saved[a] = idp[a] \/ At(a, {"persist"})
        /\ \A a \in inPool : live[a] = idp[a] \/ At(a, {"persist", "publish"})
        /\ \A p \in Callers : pc[p] = "exchange" => cur[p] = idp[acct[p]]
    BY DEF Current
  <2>5. \A p \in Callers : pc[p] \in {"persist", "publish", "mark", "snapshot"}
          => got[p] = idp[acct[p]]
    BY DEF Held
  <2> HIDE DEF Current
  \* What none of the quiet steps changes.
  <2>6. ASSUME UNCHANGED <<idp, saved, inPool, live>>,
               \A p \in Callers :
                 pc[p] \in {"persist", "publish"} \/ pc'[p] = "exchange"
                 => UNCHANGED <<pc[p], acct[p], cur[p]>>
        PROVE  Current'
    BY <2>4, <2>6 DEF Current, At
  <2>7. ASSUME NEW p \in Callers, CallerStep(p) PROVE Current'
    <3> USE DEF Goto, Finish
    <3>1. CASE Resolve(p)
      <4>1. acct[p] \in Accounts /\ pc[p] = "resolve"
        BY <2>2, <3>1 DEF Resolve
      <4>2. ~At(acct[p], {"persist"}) /\ ~At(acct[p], {"persist", "publish"})
        BY <2>3, <4>1 DEF At, LeaderSteps
      <4>3. ResolveAccount(acct[p]) = idp[acct[p]]
        BY <2>4, <4>1, <4>2 DEF ResolveAccount
      <4>4. /\ UNCHANGED <<idp, saved, inPool, live, acct>>
            /\ cur' = [cur EXCEPT ![p] = idp[acct[p]]]
            /\ pc' = [pc EXCEPT ![p] = "release"] \/ pc' = [pc EXCEPT ![p] = "exchange"]
        BY <3>1, <4>3 DEF Resolve, idpVars, cfgVars, poolVars
      <4>5. /\ cur'[p] = idp[acct[p]] /\ pc'[p] \in {"release", "exchange"}
            /\ \A q \in Callers \ {p} : cur'[q] = cur[q] /\ pc'[q] = pc[q]
        BY <2>2, <4>4
      <4>6. QED
        BY <2>4, <4>1, <4>4, <4>5 DEF Current, At
    <3>2. CASE Exchange(p)
      <4>1. /\ pc[p] = "exchange" /\ pc' = [pc EXCEPT ![p] = "persist"]
            /\ idp' = [idp EXCEPT ![acct[p]] = @ + 1]
            /\ UNCHANGED <<saved, inPool, live, acct, cur>>
        BY <3>2 DEF Exchange, cfgVars, poolVars
      <4>2. /\ pc'[p] = "persist" /\ acct[p] \in Accounts
            /\ \A q \in Callers \ {p} : pc'[q] = pc[q]
            /\ \A a \in Accounts \ {acct[p]} : idp'[a] = idp[a]
        BY <2>2, <4>1
      <4>3. \A q \in Callers \ {p} : pc[q] = "exchange" => acct[q] # acct[p]
        BY <2>3, <4>1 DEF LeaderSteps
      <4>4. \A a \in Accounts :
              /\ a = acct[p] => At(a, {"persist"})' /\ At(a, {"persist", "publish"})'
              /\ At(a, {"persist"}) => At(a, {"persist"})'
              /\ At(a, {"persist", "publish"}) => At(a, {"persist", "publish"})'
        BY <4>1, <4>2 DEF At
      <4>5. QED
        BY <2>2, <2>4, <4>1, <4>2, <4>3, <4>4 DEF Current
    <3>3. ASSUME NEW err \in {"auth", "other"}, ExchangeFails(p, err)
          PROVE  Current'
      BY <2>2, <2>6, <3>3 DEF ExchangeFails, Managed, cfgVars, poolVars
    <3>4. ASSUME NEW ok \in BOOLEAN, Persist(p, ok) PROVE Current'
      <4>1. /\ pc[p] = "persist" /\ pc' = [pc EXCEPT ![p] = "publish"]
            /\ saved' = [saved EXCEPT ![acct[p]] = got[p]]
            /\ UNCHANGED <<idp, inPool, live, acct, cur>>
        BY <3>4 DEF Persist, SaveCredential, SavesSucceed, idpVars, poolVars
      <4>2. /\ got[p] = idp[acct[p]] /\ acct[p] \in Accounts /\ pc'[p] = "publish"
            /\ \A q \in Callers \ {p} : pc'[q] = pc[q]
        BY <2>2, <2>5, <4>1
      <4>3. \A a \in Accounts :
              /\ saved'[a] = idp[a] \/ (a # acct[p] /\ saved'[a] = saved[a])
              /\ a # acct[p] /\ At(a, {"persist"}) => At(a, {"persist"})'
              /\ At(a, {"persist", "publish"}) => At(a, {"persist", "publish"})'
        BY <2>2, <4>1, <4>2 DEF At
      <4>4. QED
        BY <2>2, <2>4, <4>1, <4>2, <4>3 DEF Current
    <3>5. CASE Publish(p)
      <4>1. /\ pc[p] = "publish" /\ pc' = [pc EXCEPT ![p] = "mark"]
            /\ live' = IF acct[p] \in inPool THEN [live EXCEPT ![acct[p]] = got[p]] ELSE live
            /\ UNCHANGED <<idp, saved, inPool, acct, cur>>
        BY <3>5 DEF Publish, PublishToPool, idpVars, cfgVars
      <4>2. /\ got[p] = idp[acct[p]] /\ acct[p] \in Accounts /\ pc'[p] = "mark"
            /\ \A q \in Callers \ {p} : pc'[q] = pc[q]
        BY <2>2, <2>5, <4>1
      <4>3. \A a \in inPool : live'[a] = idp[a] \/ (a # acct[p] /\ live'[a] = live[a])
        BY <2>2, <4>1, <4>2
      <4>4. \A a \in Accounts :
              /\ At(a, {"persist"}) => At(a, {"persist"})'
              /\ a # acct[p] /\ At(a, {"persist", "publish"})
                   => At(a, {"persist", "publish"})'
        BY <4>1, <4>2 DEF At
      <4>5. QED
        BY <2>2, <2>4, <4>1, <4>2, <4>3, <4>4 DEF Current
    <3>6. CASE ReloadAfter(p)
      <4>1. /\ live' = saved /\ inPool' \subseteq Accounts
            /\ UNCHANGED <<idp, saved, acct>>
            /\ pc[p] = "reload" /\ pc' = [pc EXCEPT ![p] = "idle"]
            /\ cur' = [cur EXCEPT ![p] = 0]
        BY <3>6 DEF ReloadAfter, ReloadPool, idpVars, cfgVars
      <4>2. /\ pc'[p] = "idle"
            /\ \A q \in Callers \ {p} : pc'[q] = pc[q] /\ cur'[q] = cur[q]
        BY <2>2, <4>1
      <4>3. \A a \in Accounts : At(a, {"persist"})
              => At(a, {"persist"})' /\ At(a, {"persist", "publish"})'
        BY <4>1, <4>2 DEF At
      <4>4. QED
        BY <2>4, <4>1, <4>2, <4>3 DEF Current
    <3>7. CASE \/ Join(p) \/ Lead(p) \/ Mark(p) \/ Snapshot(p) \/ Release(p)
               \/ Close(p) \/ Return(p)
               \/ \E ok \in BOOLEAN : Ban(p, ok)
               \/ \E on, ok \in BOOLEAN : UpdateAccount(p, on, ok)
      BY <2>2, <2>6, <3>7
         DEF Join, Lead, Mark, Snapshot, Release, Close, Return, Ban,
             UpdateAccount, idpVars, cfgVars, poolVars
    <3>8. CASE \/ ForcedExchange(p) \/ ForcedPublish(p)
               \/ \E ok \in BOOLEAN : ForcedPersist(p, ok)
      BY <3>8 DEF Managed, ForcedSteps, ForcedExchange, ForcedPublish,
                  ForcedPersist
    <3>9. QED
      BY <2>7, <3>1, <3>2, <3>3, <3>4, <3>5, <3>6, <3>7, <3>8 DEF CallerStep
  <2>8. ASSUME NEW p \in Callers, CallerBegin(p) PROVE Current'
    BY <2>2, <2>6, <2>8
       DEF CallerBegin, EnsureFresh, ForceRefresh, ReadAccount, Managed, Goto,
           idpVars, cfgVars, poolVars
  <2>9. CASE Shutdown
    <3>1. ~ \E a \in Accounts : FlushMark(a) \/ \E ok \in BOOLEAN : FlushSave(a, ok)
      BY DEF FlushMark, FlushSave, NothingToFlush
    <3>2. QED
      BY <2>9, <3>1, <2>6
         DEF Shutdown, FlushPending, FlushDone, idpVars, cfgVars, poolVars, locals
  <2>10. CASE Environment
    <3>1. CASE Reload \/ Restart
      <4>1. /\ live' = saved /\ inPool' \subseteq Accounts
            /\ UNCHANGED <<idp, saved, acct>>
        BY <3>1 DEF Reload, Restart, ReloadPool, idpVars, cfgVars, locals
      <4>2. \/ UNCHANGED <<pc, cur>>
            \/ \A q \in Callers : pc[q] = "idle" /\ pc'[q] = "idle"
        BY <3>1 DEF Reload, Restart, Managed, locals
      <4>3. \A a \in Accounts : At(a, {"persist"})
              => At(a, {"persist"})' /\ At(a, {"persist", "publish"})'
        BY <4>1, <4>2 DEF At
      <4>4. QED
        BY <2>4, <4>1, <4>2, <4>3 DEF Current
    <3>2. CASE \E a \in Accounts : Expire(a) \/ Revoke(a)
      BY <3>2, <2>6 DEF Expire, Revoke, cfgVars, poolVars, locals
    <3>3. QED
      BY <2>10, <3>1, <3>2 DEF Environment
  <2>11. CASE UNCHANGED vars
    BY <2>11, <2>6 DEF vars, idpVars, cfgVars, poolVars, locals
  <2>12. QED
    BY <2>7, <2>8, <2>9, <2>10, <2>11 DEF Next
<1>3. QED
  BY <1>1, <1>2, TypeCorrect, CoalescedRefresh, ManagedHolds,
     NothingToFlushHolds, HeldHolds, PTL DEF Spec

\* What Refused says of one goroutine.
HonestResult(p) ==
  /\ pc[p] \in {"idle", "coalesce", "edit", "wait"} => result[p].err # "auth"
  /\ result[p].err = "auth" => acct[p] \in revoked
  /\ (/\ pc[p] \in {"release", "close"}
      /\ result[p].err = "none"
      /\ got[p] # 0)
     => result[p].cred = got[p]

LEMMA RefusedByParts ==
  ASSUME SavesSucceed
  PROVE  Refused <=> (\A p \in Callers : HonestResult(p)) /\ NoSpuriousBan
BY DEF Refused, HonestResult, ServesWhatItObtained

LEMMA RefusedHolds ==
  ASSUME ManagedOnly
  PROVE  Spec => []Refused
<1>1. Init => Refused
  BY DEF Init, Refused, NoSpuriousBan, ServesWhatItObtained, NoResult
<1>2. /\ TypeOK /\ Coalesced /\ Managed /\ NothingToFlush /\ Held /\ Current
      /\ Refused /\ [Next]_vars
      => Refused'
  <2> SUFFICES ASSUME TypeOK, Coalesced, Managed, NothingToFlush, Held, Current,
                      Refused, [Next]_vars, SavesSucceed
               PROVE  (\A p \in Callers : HonestResult(p)') /\ NoSpuriousBan'
    <3>1. [Next]_vars => (SavesSucceed' <=> SavesSucceed)
      BY MixStays DEF SavesSucceed
    <3>2. SavesSucceed' => (Refused' <=> (\A p \in Callers : HonestResult(p)') /\ NoSpuriousBan')
      BY DEF Refused, HonestResult, ServesWhatItObtained
    <3>3. ~SavesSucceed' => Refused'
      BY DEF Refused
    <3>4. QED
      BY <3>1, <3>2, <3>3
  <2>1. mix' = mix
    BY MixStays
  <2>2. /\ pc \in [Callers -> Steps] /\ acct \in [Callers -> Accounts]
        /\ idp \in [Accounts -> Nat] /\ live \in [Accounts -> Nat]
        /\ status \in [Accounts -> Statuses] /\ revoked \subseteq Accounts
        /\ got \in [Callers -> Nat] /\ result \in [Callers -> Results]
    BY DEF TypeOK
  <2>3. \A p, q \in Callers :
          (/\ pc[p] \in LeaderSteps /\ pc[q] \in LeaderSteps
           /\ acct[p] = acct[q]) => p = q
    BY DEF Coalesced, SingleFlight
  <2>4. /\ \A p \in Callers : HonestResult(p)
        /\ \A a \in Accounts : status[a] = "BANNED" => a \in revoked
    BY RefusedByParts DEF NoSpuriousBan
  \* The steps that touch no result, no grant and no ban.
  <2>5. ASSUME revoked \subseteq revoked', UNCHANGED <<status, result, acct, got>>,
               \A p \in Callers :
                 \/ UNCHANGED pc[p]
                 \/ pc'[p] \notin {"idle", "coalesce", "edit", "wait", "release", "close"}
                 \/ result[p].err = "none" /\ pc'[p] \in {"idle", "coalesce", "edit", "wait"}
                 \/ pc[p] = "release" /\ pc'[p] = "close"
        PROVE  (\A p \in Callers : HonestResult(p)') /\ NoSpuriousBan'
    BY <2>4, <2>5 DEF HonestResult, NoSpuriousBan
  <2>6. ASSUME NEW p \in Callers, Finish(p), UNCHANGED <<revoked, status, acct>>
        PROVE  (\A q \in Callers : HonestResult(q)') /\ NoSpuriousBan'
    <3>1. /\ pc'[p] = "idle" /\ result'[p] = NoResult /\ got'[p] = 0
          /\ \A q \in Callers \ {p} :
               pc'[q] = pc[q] /\ result'[q] = result[q] /\ got'[q] = got[q]
      BY <2>2, <2>6 DEF Finish, Goto
    <3>2. QED
      BY <2>4, <2>6, <3>1 DEF HonestResult, NoSpuriousBan, NoResult
  <2>7. ASSUME NEW p \in Callers, CallerStep(p)
        PROVE  (\A q \in Callers : HonestResult(q)') /\ NoSpuriousBan'
    <3>1. CASE Join(p) \/ Lead(p)
      <4>1. result[p].err # "auth"
        BY <2>4, <3>1 DEF Join, Lead, HonestResult
      <4>2. /\ pc'[p] \in {"wait", "resolve"} /\ pc[p] = "coalesce"
            /\ \A q \in Callers \ {p} : pc'[q] = pc[q]
            /\ UNCHANGED <<revoked, status, result, acct, got>>
        BY <2>2, <3>1 DEF Join, Lead, Goto, idpVars, cfgVars
      <4>3. QED
        BY <2>4, <4>1, <4>2 DEF HonestResult, NoSpuriousBan
    <3>2. CASE Resolve(p)
      <4>1. /\ got'[p] = 0 /\ pc'[p] \in {"release", "exchange"}
            /\ pc[p] = "resolve"
            /\ result'[p].err = "none" \/ result'[p] = result[p]
            /\ \A q \in Callers \ {p} :
                 pc'[q] = pc[q] /\ result'[q] = result[q] /\ got'[q] = got[q]
            /\ UNCHANGED <<revoked, status, acct>>
        BY <2>2, <3>2 DEF Resolve, Goto, idpVars, cfgVars
      <4>2. QED
        BY <2>4, <4>1 DEF HonestResult, NoSpuriousBan
    <3>3. CASE Exchange(p)
      <4>1. /\ pc'[p] = "persist"
            /\ \A q \in Callers \ {p} : pc'[q] = pc[q] /\ got'[q] = got[q]
            /\ UNCHANGED <<revoked, status, result, acct>>
        BY <2>2, <3>3 DEF Exchange, Goto, cfgVars
      <4>2. QED
        BY <2>4, <4>1 DEF HonestResult, NoSpuriousBan
    <3>4. ASSUME NEW err \in {"auth", "other"}, ExchangeFails(p, err)
          PROVE  (\A q \in Callers : HonestResult(q)') /\ NoSpuriousBan'
      <4>1. err = "auth" => acct[p] \in revoked
        BY <3>4 DEF ExchangeFails, Accepts, Current
      <4>2. /\ pc'[p] = "release" /\ result'[p].err = err
            /\ \A q \in Callers \ {p} : pc'[q] = pc[q] /\ result'[q] = result[q]
            /\ UNCHANGED <<revoked, status, acct, got>>
        BY <2>2, <3>4 DEF ExchangeFails, Goto, cfgVars
      <4>3. QED
        BY <2>4, <4>1, <4>2 DEF HonestResult, NoSpuriousBan
    <3>5. CASE \/ \E ok \in BOOLEAN : Persist(p, ok)
               \/ \E on, ok \in BOOLEAN : UpdateAccount(p, on, ok)
               \/ Publish(p) \/ Mark(p)
      <4>1. /\ pc'[p] \in {"publish", "mark", "snapshot", "reload"}
            /\ \A q \in Callers \ {p} : pc'[q] = pc[q]
            /\ UNCHANGED <<revoked, result, acct, got>>
        BY <2>2, <3>5
           DEF Persist, UpdateAccount, Publish, Mark, Goto, idpVars, cfgVars
      <4>2. \A a \in Accounts : status'[a] = "BANNED" => status[a] = "BANNED"
        BY <2>2, <3>5
           DEF Persist, SaveCredential, UpdateAccount, Publish, Mark, cfgVars
      <4>3. QED
        BY <2>4, <4>1, <4>2 DEF HonestResult, NoSpuriousBan
    <3>6. CASE Snapshot(p)
      <4>1. acct[p] \in Accounts /\ pc[p] = "snapshot"
        BY <2>2, <3>6 DEF Snapshot
      <4>2. ~At(acct[p], {"persist", "publish"})
        BY <2>3, <4>1 DEF At, LeaderSteps
      <4>3. got[p] = idp[acct[p]] /\ (acct[p] \in inPool => live[acct[p]] = idp[acct[p]])
        BY <4>1, <4>2 DEF Current, Held
      <4>4. /\ pc'[p] = "release" /\ result'[p].err = "none" /\ result'[p].cred = got[p]
            /\ \A q \in Callers \ {p} : pc'[q] = pc[q] /\ result'[q] = result[q]
            /\ UNCHANGED <<revoked, status, acct, got>>
        BY <2>2, <3>6, <4>3 DEF Snapshot, Goto, idpVars, cfgVars
      <4>5. QED
        BY <2>4, <4>4 DEF HonestResult, NoSpuriousBan
    <3>7. CASE Release(p)
      BY <2>2, <2>5, <3>7 DEF Release, Goto, idpVars, cfgVars
    <3>8. CASE Close(p)
      <4>1. \A q \in Callers :
              \/ UNCHANGED <<pc[q], result[q]>>
              \/ pc'[q] = "return" /\ result'[q] = result[q]
              \/ pc'[q] = "return" /\ result'[q] = result[p] /\ acct[q] = acct[p]
        BY <2>2, <3>8 DEF Close, Coalesced, WaitersHaveLeader
      <4>2. UNCHANGED <<revoked, status, acct, got>>
        BY <3>8 DEF Close, idpVars, cfgVars
      <4>3. QED
        BY <2>4, <4>1, <4>2 DEF HonestResult, NoSpuriousBan
    <3>9. ASSUME NEW ok \in BOOLEAN, Ban(p, ok)
          PROVE  (\A q \in Callers : HonestResult(q)') /\ NoSpuriousBan'
      <4>1. acct[p] \in revoked /\ acct[p] \in Accounts
        BY <2>2, <2>4, <3>9 DEF Ban, HonestResult
      <4>2. CASE ok
        <5>1. /\ status' = [status EXCEPT ![acct[p]] = "BANNED"]
              /\ pc'[p] = "reload" /\ \A q \in Callers \ {p} : pc'[q] = pc[q]
              /\ UNCHANGED <<revoked, result, acct, got>>
          BY <2>2, <3>9, <4>2 DEF Ban, Goto, idpVars
        <5>2. QED
          BY <2>2, <2>4, <4>1, <5>1 DEF HonestResult, NoSpuriousBan
      <4>3. CASE ~ok
        BY <2>6, <3>9, <4>3 DEF Ban, idpVars
      <4>4. QED
        BY <4>2, <4>3
    <3>10. CASE ReloadAfter(p) \/ Return(p)
      BY <2>6, <3>10 DEF ReloadAfter, Return, idpVars, cfgVars
    <3>11. CASE \/ ForcedExchange(p) \/ ForcedPublish(p)
                \/ \E ok \in BOOLEAN : ForcedPersist(p, ok)
      BY <3>11 DEF Managed, ForcedSteps, ForcedExchange, ForcedPublish,
                   ForcedPersist
    <3>12. QED
      BY <2>7, <3>1, <3>2, <3>3, <3>4, <3>5, <3>6, <3>7, <3>8, <3>9, <3>10,
         <3>11 DEF CallerStep
  <2>8. ASSUME NEW p \in Callers, CallerBegin(p)
        PROVE  (\A q \in Callers : HonestResult(q)') /\ NoSpuriousBan'
    <3>1. ~ \E a \in Accounts : ForceRefresh(p, a)
      BY DEF Managed, ForceRefresh
    <3>2. /\ pc[p] = "idle" /\ pc'[p] \in {"coalesce", "edit"}
          /\ \A q \in Callers \ {p} : pc'[q] = pc[q] /\ acct'[q] = acct[q]
          /\ UNCHANGED <<revoked, status, result, got>>
      BY <2>2, <2>8, <3>1
         DEF CallerBegin, EnsureFresh, ReadAccount, Goto, idpVars, cfgVars
    <3>3. QED
      BY <2>4, <3>2 DEF HonestResult, NoSpuriousBan
  <2>9. CASE Shutdown
    BY <2>5, <2>9
       DEF Shutdown, FlushPending, FlushSave, FlushMark, FlushDone,
           SaveCredential, idpVars, cfgVars, locals
  <2>10. CASE Restart
    <3>1. /\ \A p \in Callers : pc'[p] = "idle" /\ result'[p] = NoResult
          /\ UNCHANGED <<revoked, status, acct>>
      BY <2>10 DEF Restart, idpVars, cfgVars
    <3>2. QED
      BY <2>4, <3>1 DEF HonestResult, NoSpuriousBan, NoResult
  <2>11. CASE Reload \/ \E a \in Accounts : Expire(a) \/ Revoke(a)
    BY <2>5, <2>11 DEF Reload, Expire, Revoke, idpVars, cfgVars, locals
  <2>12. CASE UNCHANGED vars
    BY <2>5, <2>12 DEF vars, idpVars, cfgVars, locals
  <2>13. QED
    BY <2>7, <2>8, <2>9, <2>10, <2>11, <2>12 DEF Next, Environment
<1>3. QED
  BY <1>1, <1>2, TypeCorrect, CoalescedRefresh, ManagedHolds,
     NothingToFlushHolds, HeldHolds, CurrentHolds, PTL DEF Spec

\* While saves succeed, an account is banned only if the provider withdrew its
\* grant, for any number of refreshes, edits, reloads and orderly restarts: no
\* refresh ever presents a refresh token another one has used up (doRefresh,
\* handleAccountFailure).
THEOREM BansAreJustified ==
  ASSUME ManagedOnly
  PROVE  Spec => []NoSpuriousBan
<1>1. Refused => NoSpuriousBan
  BY DEF Refused, NoSpuriousBan
<1>2. QED
  BY <1>1, RefusedHolds, PTL

\* While saves succeed, what a refresh returns to its waiters is the credential
\* it obtained, although it reads it back from the pool (doRefresh, step 8).
THEOREM RefreshReturnsItsOwn ==
  ASSUME ManagedOnly
  PROVE  Spec => []ServesWhatItObtained
<1>1. Refused => ServesWhatItObtained
  BY DEF Refused, ServesWhatItObtained
<1>2. QED
  BY <1>1, RefusedHolds, PTL
==============================================================================
