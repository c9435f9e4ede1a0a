------------------------------- MODULE ModelCache -------------------------------
(***************************************************************************)
(* Which models each account serves: proxy/model_cache.go and              *)
(* proxy/profile_discovery.go over the configuration and the pool.         *)
(*                                                                         *)
(* An account is pinned to a profile, an ARN and its region.  Its models   *)
(* are kept three times: the pool's routing list, the cache's metadata,    *)
(* and the aggregate that /v1/models answers with.  Three locks guard      *)
(* them: the switch lock of the account, the cache's mu and the pool's.    *)
(* A list of models is named by the profile that serves it.                *)
(***************************************************************************)
EXTENDS Integers, FiniteSets

CONSTANTS
  Accounts, Profiles,  \* a profile stands for its ARN and for its region
  Workers,             \* administrators, the background sweep, failing requests
  None,                \* no list, no worker, no account
  Mixes                \* what goes on: each behaviour has one of these sets

VARIABLES
  saved,    \* config: the accounts and the profiles they are pinned to
  listed,   \* pool.accounts: what the last reload read of the enabled ones
  routing,  \* pool.modelLists
  info,     \* ModelCache.modelInfoByAccount
  offered,  \* ModelCache.cachedModels
  lock,     \* the profile-switch lock of each account
  job,      \* what each worker is doing
  mix

tables == <<saved, listed, routing, info, offered>>
vars   == <<tables, lock, job, mix>>

Pairs  == [arn : Profiles, region : Profiles]
Lists  == Profiles \cup {"empty"}
NoPair == [arn |-> None, region |-> None]
Idle   == [kind |-> "idle", step |-> "idle", id |-> None, pair |-> NoPair, on |-> FALSE,
           models |-> None, left |-> {}, keep |-> {}, read |-> [a \in Accounts |-> NoPair]]
Kinds  == {"idle", "sweep", "fetch", "switch", "off", "edit"}
Steps  == {"idle", "fetch", "gate", "route", "info", "persist", "pool", "write", "reload",
           "drop", "unroute", "next", "prune", "pruned"}

Enabled == {a \in Accounts : saved[a].there /\ saved[a].on}
Pair(a) == [arn |-> saved[a].arn, region |-> saved[a].region]

At(p, step)    == job[p].step = step
Goto(p, step)  == job' = [job EXCEPT ![p].step = step]
End(p)         == job' = [job EXCEPT ![p] = Idle]
\* A sweep goes on with its next account, any other job is over.
Continue(p)    == IF job[p].kind = "sweep" THEN Goto(p, "next") ELSE End(p)
Unlock(a)      == lock' = [lock EXCEPT ![a] = None]

-----------------------------------------------------------------------------
(* The tables                                                              *)

\* lookupAccountForAdmin: the pool's copy, else the configuration's.
Lookup(a) == IF listed[a].on THEN listed[a].pair ELSE Pair(a)
Known(a)  == listed[a].on \/ saved[a].there

\* reloadLocked
Reloaded == listed' = [a \in Accounts |-> [on |-> a \in Enabled, pair |-> Pair(a)]]

\* rebuildAggregateLocked
Aggregate(known) == {known[a] : a \in Accounts} \cap Profiles

\* setting or deleting an entry of modelInfoByAccount, and rebuilding the aggregate under mu
Inform(a, models) ==
    /\ info' = [info EXCEPT ![a] = models]
    /\ offered' = Aggregate(info')

Init ==
    /\ \E q \in Profiles : saved = [a \in Accounts |-> [there |-> TRUE, on |-> TRUE, arn |-> q, region |-> q]]
    /\ listed = [a \in Accounts |-> [on |-> TRUE, pair |-> Pair(a)]]
    /\ routing = [a \in Accounts |-> None] /\ info = routing /\ offered = {}
    /\ lock = [a \in Accounts |-> None] /\ job = [p \in Workers |-> Idle] /\ mix \in Mixes

-----------------------------------------------------------------------------
(* Fetching the models of a profile, and publishing them unless the        *)
(* account has been switched                                               *)

\* FetchAndCache, apiGetAccountModels
Refresh(p, a) ==
    /\ "fetch" \in mix /\ At(p, "idle") /\ saved[a].there
    /\ job' = [job EXCEPT ![p] = [Idle EXCEPT !.kind = "fetch", !.step = "fetch", !.id = a, !.pair = Pair(a)]]
    /\ UNCHANGED <<tables, lock>>

\* ListAvailableModels: a region serves the profiles it holds; it may answer with no model.
Served(q) == IF q.arn = q.region THEN {q.arn, "empty"} ELSE {}

Fetched(p) ==
    /\ At(p, "fetch")
    /\ \E models \in Served(job[p].pair) :
         job' = [job EXCEPT ![p].models = models, ![p].step = "gate"]
    /\ UNCHANGED <<tables, lock>>

\* The token or the list cannot be had.  A sweep reports it, which may disable the account.
FetchFails(p) ==
    /\ At(p, "fetch")
    /\ \/ Continue(p)
       \/ /\ job[p].kind = "sweep" /\ "ban" \in mix
          /\ Goto(p, "write")
    /\ UNCHANGED <<tables, lock>>

\* Mutant of Current: whatever was fetched is published.
AnyFetch(a, q) == Known(a)

Current(a, q) == Known(a) /\ Lookup(a) = q

\* Mutant of GateLock: the account's switch lock is not taken.
NoGateLock(p, a) == lock' = lock

GateLock(p, a) == lock[a] = None /\ lock' = [lock EXCEPT ![a] = p]

\* PublishGated, under the switch lock: the check, ...
Gate(p) ==
    LET a == job[p].id IN
    /\ At(p, "gate")
    /\ IF Current(a, job[p].pair)
       THEN GateLock(p, a) /\ Goto(p, "route")
       ELSE lock[a] = None /\ Continue(p) /\ UNCHANGED lock
    /\ UNCHANGED tables

\* ... the routing list, ...
Route(p) ==
    /\ At(p, "route") /\ Goto(p, "info")
    /\ routing' = [routing EXCEPT ![job[p].id] = job[p].models]
    /\ UNCHANGED <<saved, listed, info, offered, lock>>

\* ... and the metadata.  PublishSwitch ends alike.
Publish(p) ==
    /\ At(p, "info") /\ Continue(p)
    /\ Inform(job[p].id, job[p].models) /\ Unlock(job[p].id)
    /\ UNCHANGED <<saved, listed, routing>>

-----------------------------------------------------------------------------
(* RefreshAll                                                              *)

StartSweep(p) ==
    /\ "sweep" \in mix /\ At(p, "idle") /\ Enabled # {}
    /\ job' = [job EXCEPT ![p] = [Idle EXCEPT !.kind = "sweep", !.step = "next",
         !.left = Enabled, !.keep = Enabled, !.read = [a \in Accounts |-> Pair(a)]]]
    /\ UNCHANGED <<tables, lock>>

SweepNext(p) ==
    /\ At(p, "next")
    /\ IF job[p].left = {} THEN Goto(p, "prune")
       ELSE \E a \in job[p].left :
              job' = [job EXCEPT ![p].step = "fetch", ![p].id = a, ![p].pair = job[p].read[a],
                                 ![p].left = @ \ {a}]
    /\ UNCHANGED <<tables, lock>>

\* PruneStale: the metadata of every account that was not enabled at the start, then, one
\* by one, the routing lists of those it dropped.
Prune(p) ==
    LET dropped == {a \in Accounts \ job[p].keep : info[a] # None} IN
    /\ At(p, "prune")
    /\ info' = [a \in Accounts |-> IF a \in dropped THEN None ELSE info[a]]
    /\ offered' = Aggregate(info')
    /\ job' = [job EXCEPT ![p].step = "pruned", ![p].left = dropped]
    /\ UNCHANGED <<saved, listed, routing, lock>>

Unroute(p) ==
    /\ At(p, "pruned")
    /\ IF job[p].left = {} THEN End(p) /\ UNCHANGED routing
       ELSE \E a \in job[p].left :
              /\ job' = [job EXCEPT ![p].left = @ \ {a}]
              /\ routing' = [routing EXCEPT ![a] = None]
    /\ UNCHANGED <<saved, listed, info, offered, lock>>

-----------------------------------------------------------------------------
(* SelectProfile, all of it under the switch lock                          *)

Switch(p, a, target) ==
    /\ "switch" \in mix /\ At(p, "idle") /\ lock[a] = None /\ Known(a)
    /\ lock' = [lock EXCEPT ![a] = p]
    /\ job' = [job EXCEPT ![p] = [Idle EXCEPT !.kind = "switch", !.step = "persist", !.id = a,
                                              !.pair = [arn |-> target, region |-> target]]]
    /\ UNCHANGED tables

\* The target is gone, it serves no model, the token fails or the operator leaves.
SwitchRefused(p) ==
    /\ At(p, "persist") /\ End(p) /\ Unlock(job[p].id)
    /\ UNCHANGED tables

\* UpdateAccountProfileArnWithRegion: what it wrote stays in memory when the save fails.
Persist(p) ==
    LET a == job[p].id q == job[p].pair IN
    /\ At(p, "persist")
    /\ saved' = IF saved[a].there THEN [saved EXCEPT ![a].arn = q.arn, ![a].region = q.region] ELSE saved
    /\ \/ job' = [job EXCEPT ![p].step = "pool", ![p].models = q.arn] /\ UNCHANGED lock
       \/ "fail" \in mix /\ End(p) /\ Unlock(a)
    /\ UNCHANGED <<listed, routing, info, offered>>

\* Mutant of PublishProfileSwitch: only the snapshot is published.
ReloadOnly(p) ==
    /\ At(p, "pool") /\ Goto(p, "info")
    /\ Reloaded /\ UNCHANGED <<saved, routing, info, offered, lock>>

\* The new snapshot and the new list, in one section of the pool's lock.
PublishProfileSwitch(p) ==
    /\ At(p, "pool") /\ Goto(p, "info")
    /\ Reloaded /\ routing' = [routing EXCEPT ![job[p].id] = job[p].models]
    /\ UNCHANGED <<saved, info, offered, lock>>

-----------------------------------------------------------------------------
(* Disabling, deleting and editing an account                              *)

\* apiDeleteAccount; a request whose account is banned reaches disableAccount.
StartOff(p, a) ==
    /\ {"ban", "delete"} \cap mix # {} /\ At(p, "idle") /\ a \in Enabled
    /\ job' = [job EXCEPT ![p] = [Idle EXCEPT !.kind = "off", !.step = "write", !.id = a]]
    /\ UNCHANGED <<tables, lock>>

SwitchOff(p) ==
    LET a == job[p].id IN
    /\ At(p, "write") /\ job[p].kind # "edit" /\ Goto(p, "reload")
    /\ \/ "ban" \in mix /\ saved' = [saved EXCEPT ![a].on = FALSE]
       \/ "delete" \in mix /\ saved' = [saved EXCEPT ![a].there = FALSE, ![a].on = FALSE]
    /\ UNCHANGED <<listed, routing, info, offered, lock>>

\* DropAccount, after the reload: the metadata, ...
DropInfo(p) ==
    /\ At(p, "drop") /\ Goto(p, "unroute")
    /\ Inform(job[p].id, None)
    /\ UNCHANGED <<saved, listed, routing, lock>>

\* Mutant of DropRoute: the routing list stays.
KeepRoute(p) == At(p, "unroute") /\ Continue(p) /\ UNCHANGED <<tables, lock>>

\* ... then the routing list.
DropRoute(p) ==
    /\ At(p, "unroute") /\ Continue(p)
    /\ routing' = [routing EXCEPT ![job[p].id] = None]
    /\ UNCHANGED <<saved, listed, info, offered, lock>>

\* apiUpdateAccount, apiBatchAccounts: a copy of the account is read, ...
StartEdit(p, a) ==
    /\ "edit" \in mix /\ At(p, "idle") /\ saved[a].there
    /\ \E on \in BOOLEAN : job' = [job EXCEPT ![p] =
         [Idle EXCEPT !.kind = "edit", !.step = "write", !.id = a, !.pair = Pair(a), !.on = on]]
    /\ UNCHANGED <<tables, lock>>

\* ... and written back.  UpdateAccount keeps the ARN as it is by now, not the region.
WriteEdit(p) ==
    LET a == job[p].id IN
    /\ At(p, "write") /\ job[p].kind = "edit" /\ Goto(p, "reload")
    /\ saved' = IF saved[a].there THEN [saved EXCEPT ![a].on = job[p].on, ![a].region = job[p].pair.region]
                ELSE saved
    /\ UNCHANGED <<listed, routing, info, offered, lock>>

\* The pool is reloaded.  Of an account that was enabled by hand the models are fetched;
\* of one that was disabled by hand they are not dropped.
Reload(p) ==
    /\ At(p, "reload") /\ Reloaded
    /\ IF job[p].kind # "edit" THEN Goto(p, "drop")
       ELSE IF job[p].on THEN job' = [job EXCEPT ![p].kind = "fetch", ![p].step = "fetch"]
       ELSE End(p)
    /\ UNCHANGED <<saved, routing, info, offered, lock>>

\* Any other reload of the pool, as after a change of settings or of usage.
OtherReload ==
    /\ "reload" \in mix /\ Reloaded
    /\ UNCHANGED <<saved, routing, info, offered, lock, job>>

Step(p) ==
    \/ \E a \in Accounts : Refresh(p, a) \/ StartOff(p, a) \/ StartEdit(p, a)
    \/ \E a \in Accounts, target \in Profiles : Switch(p, a, target)
    \/ Fetched(p) \/ FetchFails(p) \/ Gate(p) \/ Route(p) \/ Publish(p)
    \/ StartSweep(p) \/ SweepNext(p) \/ Prune(p) \/ Unroute(p)
    \/ SwitchRefused(p) \/ Persist(p) \/ PublishProfileSwitch(p)
    \/ SwitchOff(p) \/ DropInfo(p) \/ DropRoute(p) \/ WriteEdit(p) \/ Reload(p)

Next == (OtherReload \/ \E p \in Workers : Step(p)) /\ UNCHANGED mix
Spec == Init /\ [][Next]_vars

-----------------------------------------------------------------------------
TypeOK ==
    /\ saved \in [Accounts -> [there : BOOLEAN, on : BOOLEAN, arn : Profiles, region : Profiles]]
    /\ listed \in [Accounts -> [on : BOOLEAN, pair : Pairs]]
    /\ routing \in [Accounts -> Lists \cup {None}] /\ info \in [Accounts -> Lists \cup {None}]
    /\ offered \subseteq Profiles
    /\ lock \in [Accounts -> Workers \cup {None}]
    /\ \A p \in Workers : job[p].kind \in Kinds /\ job[p].step \in Steps

\* While no switch and no publication is under way for an account, requests are routed to it
\* by the models of the profile it is pinned to: a refresh that began before a switch cannot
\* put back the models of the old profile, whoever ends first.
RoutedByItsProfile ==
    \A a \in Accounts : lock[a] = None /\ saved[a].there /\ routing[a] \in Profiles
                          => routing[a] = saved[a].arn

\* What is routed is advertised: once nobody is publishing or dropping the models of an
\* account, its routing list is the one /v1/models was built from, or there is none.  Publishing
\* writes the list first and the metadata second, dropping the other way round, and neither
\* excludes the other.
Settled(a) == \A p \in Workers : job[p].id = a => job[p].step \notin {"info", "unroute"}
RoutedIsAdvertised ==
    \A a \in Accounts : Settled(a) /\ (\A p \in Workers : job[p].step # "pruned" \/ a \notin job[p].left)
                          => routing[a] \in {None, info[a]}

\* Both together; a switch whose save fails keeps the new profile in memory and stops before its models.
ModelsFollowProfile == RoutedIsAdvertised /\ ("fail" \in mix \/ RoutedByItsProfile)

\* The pinned ARN and the pinned region are of one profile.
PairIsWhole == \A a \in Accounts : saved[a].arn = saved[a].region

\* No reader of the pool finds the new profile together with the models of the old one.
CutoverIsAtomic == \A a \in Accounts : listed[a].on /\ routing[a] \in Profiles => routing[a] = listed[a].pair.arn

\* The models of a disabled or deleted account have left /v1/models once that is done.
GoneIsDropped == \A a \in Accounts \ Enabled :
    (\A p \in Workers : job[p].id = a => job[p].kind \in {"idle", "fetch", "switch"}) => info[a] = None
=============================================================================
