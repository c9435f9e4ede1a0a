------------------------------ MODULE AccountPool ------------------------------
(***************************************************************************)
(* The account pool, pool/account.go: a weighted list of copies of the     *)
(* enabled accounts, rebuilt from the configuration by Reload and scanned  *)
(* round-robin by every request, under one read-write lock.                *)
(*                                                                         *)
(* A scan is one step per list entry: scans share currentIndex, which is   *)
(* advanced atomically but under the read lock only.  A credential is the  *)
(* number of the refresh that produced it; the access token and the expiry *)
(* of a pool entry are written one after the other.                        *)
(***************************************************************************)
EXTENDS Naturals, Sequences, Filter

CONSTANTS
  Accounts,    \* configured accounts
  Weighted,    \* the accounts in configured order, each repeated by its weight
  Goroutines,  \* requests, administrators and background workers
  Selectors,   \* the goroutines that select accounts
  None,        \* no goroutine, no account
  IndexWrap,   \* the range of currentIndex (2^64)
  MaxCred,     \* bound: refreshes of one account
  Mixes        \* what changes: each behaviour has one of these sets of changes

ASSUME NoneAssumption     == None \notin Goroutines \cup Accounts
ASSUME SelectorAssumption == Selectors \subseteq Goroutines
ASSUME WeightedAssumption ==
  /\ Weighted \in Seq(Accounts)
  /\ \A a \in Accounts : \E i \in 1 .. Len(Weighted) : Weighted[i] = a
ASSUME MixesAssumption ==
  Mixes \subseteq SUBSET {"select", "enabled", "quota", "overage", "cooldown",
                          "models", "refresh"}
ASSUME WrapAssumption     == IndexWrap \in Nat \ {0} /\ MaxCred \in Nat \ {0}

VARIABLES
  enabled,    \* config: enabled accounts
  over,       \* config: accounts over quota without an overage switch
  allowOver,  \* config: AllowOverUsage
  saved,      \* config: the account's credential
  listed,     \* pool.accounts: the accounts that have entries
  entry,      \* pool.accounts: what a listed account's copies hold
  index,      \* pool.currentIndex
  cooldown,   \* pool.cooldowns that have not run out
  models,     \* pool.modelLists, for the model requested
  writer,     \* pool.mu held for writing
  readers,    \* pool.mu held for reading
  stale,      \* credentials up to this one are inside the expiry skew (clock)
  pc,         \* where each goroutine stands
  work,       \* the account it changes, and the credential it publishes
  scan,       \* the locals of GetNextForModelExcluding
  snap,       \* the enabled accounts as reloadLocked read them
  sel,        \* the snapshot a selection returns
  mix         \* the changes of this behaviour, chosen at the start

configVars == <<enabled, over, allowOver, saved>>
poolVars   == <<listed, entry, cooldown, models>>
lockVars   == <<writer, readers>>
vars == <<configVars, poolVars, index, lockVars, stale, pc, work, scan, snap, sel, mix>>

Steps   == {"idle", "scan", "return", "cool", "reload", "read", "rebuild",
            "publish", "token", "expiry"}
Support == {"unknown", "yes", "no"}
Creds   == 0 .. MaxCred
Entry   == [over : BOOLEAN, token : Creds, expiry : Creds]
NoScan  == [excluded |-> {}, seen |-> {}, left |-> 0, allow |-> FALSE, cold |-> {}]
NoSnap  == [on |-> {}, over |-> {}, cred |-> [a \in Accounts |-> 0]]
NoWork  == [id |-> None, cred |-> 0]
NoSel   == [id |-> None, token |-> 0, expiry |-> 0]

Goto(p, step) == pc' = [pc EXCEPT ![p] = step]
WorkOn(p, a, cred) == work' = [work EXCEPT ![p] = [id |-> a, cred |-> cred]]

\* pool.accounts: the configured order and weights, without the accounts that
\* the last reload dropped.
List == Kept(Weighted, listed)

(***************************************************************************)
(* The lock                                                                *)
(***************************************************************************)
Locked(p)   == writer = p
CanLock     == writer = None /\ readers = {}
Lock(p)     == CanLock /\ writer' = p /\ UNCHANGED readers
Unlock      == writer' = None /\ UNCHANGED readers
RLock(p)    == writer = None /\ readers' = readers \cup {p} /\ UNCHANGED writer
RUnlock(p)  == readers' = readers \ {p} /\ UNCHANGED writer

(***************************************************************************)
(* Selection: GetNextForModelExcluding and, with every model supported,    *)
(* GetNextExcluding                                                        *)
(***************************************************************************)
\* accountHasModel: an account whose models are not known yet has them all.
HasModel(a) == models[a] # "no"

\* The conditions of the loop, in a scan that took its locals at the start.
Eligible(a, s) ==
  /\ a \notin s.excluded
  /\ HasModel(a)
  /\ a \notin s.cold
  /\ entry[a].expiry > stale[a]
  /\ ~(entry[a].over /\ ~s.allow)

\* Mutant of Select: the scan runs without the read lock.
SelectUnlocked(p, excluded) ==
  /\ p \in Selectors /\ "select" \in mix
  /\ pc[p] = "idle"
  /\ UNCHANGED lockVars
  /\ scan' = [scan EXCEPT ![p] = [excluded |-> excluded, seen |-> {},
       left |-> Len(List), allow |-> allowOver, cold |-> cooldown]]
  /\ Goto(p, IF List = << >> THEN "return" ELSE "scan")
  /\ UNCHANGED <<configVars, poolVars, index, stale, work, snap, sel>>

Select(p, excluded) ==
  /\ p \in Selectors /\ "select" \in mix
  /\ pc[p] = "idle"
  /\ RLock(p)
  /\ scan' = [scan EXCEPT ![p] = [excluded |-> excluded, seen |-> {},
       left |-> Len(List), allow |-> allowOver, cold |-> cooldown]]
  /\ Goto(p, IF List = << >> THEN "return" ELSE "scan")
  /\ UNCHANGED <<configVars, poolVars, index, stale, work, snap, sel>>

\* Mutant of Probe: the loop runs once less than the list is long.
ProbeShort(p) ==
  \E a \in listed :
  LET next == (index + 1) % IndexWrap
      s    == scan[p]
      hit  == a \notin s.seen /\ Eligible(a, s) IN
  /\ pc[p] = "scan"
  /\ a = List[(next % Len(List)) + 1]
  /\ index' = next
  /\ scan' = [scan EXCEPT ![p].left = s.left - 1,
       ![p].seen = IF hit THEN s.seen ELSE s.seen \cup {a}]
  /\ sel' = IF hit THEN [sel EXCEPT ![p] = [id |-> a, token |-> entry[a].token,
                                            expiry |-> entry[a].expiry]]
                   ELSE sel
  /\ Goto(p, IF hit \/ s.left <= 2 THEN "return" ELSE "scan")
  /\ UNCHANGED <<configVars, poolVars, lockVars, stale, work, snap>>

\* Mutant of Probe: the loop runs once more than the list is long.
ProbeLong(p) ==
  \E a \in listed :
  LET next == (index + 1) % IndexWrap
      s    == scan[p]
      hit  == a \notin s.seen /\ Eligible(a, s) IN
  /\ pc[p] = "scan"
  /\ a = List[(next % Len(List)) + 1]
  /\ index' = next
  /\ scan' = [scan EXCEPT ![p].left = s.left - 1,
       ![p].seen = IF hit THEN s.seen ELSE s.seen \cup {a}]
  /\ sel' = IF hit THEN [sel EXCEPT ![p] = [id |-> a, token |-> entry[a].token,
                                            expiry |-> entry[a].expiry]]
                   ELSE sel
  /\ Goto(p, IF hit \/ s.left = 0 THEN "return" ELSE "scan")
  /\ UNCHANGED <<configVars, poolVars, lockVars, stale, work, snap>>

\* One turn of the loop: advance the shared index and look at one entry.
Probe(p) ==
  \E a \in listed :
  LET next == (index + 1) % IndexWrap
      s    == scan[p]
      hit  == a \notin s.seen /\ Eligible(a, s) IN
  /\ pc[p] = "scan"
  /\ a = List[(next % Len(List)) + 1]
  /\ index' = next
  /\ scan' = [scan EXCEPT ![p].left = s.left - 1,
       ![p].seen = IF hit THEN s.seen ELSE s.seen \cup {a}]
  /\ sel' = IF hit THEN [sel EXCEPT ![p] = [id |-> a, token |-> entry[a].token,
                                            expiry |-> entry[a].expiry]]
                   ELSE sel
  /\ Goto(p, IF hit \/ s.left = 1 THEN "return" ELSE "scan")
  /\ UNCHANGED <<configVars, poolVars, lockVars, stale, work, snap>>

Return(p) ==
  /\ pc[p] = "return"
  /\ RUnlock(p)
  /\ scan' = [scan EXCEPT ![p] = NoScan]
  /\ sel' = [sel EXCEPT ![p] = NoSel]
  /\ Goto(p, "idle")
  /\ UNCHANGED <<configVars, poolVars, index, stale, work, snap>>

(***************************************************************************)
(* Reload: reads the configuration under the pool's lock                   *)
(***************************************************************************)
\* Mutant of ReloadLock: the configuration is read before the lock is held.
ReloadLockReads(p) ==
  \/ /\ pc[p] = "reload" /\ snap[p] = NoSnap
     /\ snap' = [snap EXCEPT ![p] = [on |-> enabled, over |-> over, cred |-> saved]]
     /\ UNCHANGED <<lockVars, pc, configVars, poolVars, index, stale, work, scan, sel>>
  \/ /\ pc[p] = "reload" /\ snap[p] # NoSnap
     /\ Lock(p)
     /\ Goto(p, "rebuild")
     /\ UNCHANGED <<configVars, poolVars, index, stale, work, scan, snap, sel>>

ReloadLock(p) ==
  /\ pc[p] = "reload"
  /\ Lock(p)
  /\ Goto(p, "read")
  /\ UNCHANGED <<configVars, poolVars, index, stale, work, scan, snap, sel>>

\* config.GetEnabledAccounts: one critical section of the configuration.
ReloadRead(p) ==
  /\ pc[p] = "read"
  /\ snap' = [snap EXCEPT ![p] = [on |-> enabled, over |-> over, cred |-> saved]]
  /\ Goto(p, "rebuild")
  /\ UNCHANGED <<configVars, poolVars, index, lockVars, stale, work, scan, sel>>

\* config.GetAllowOverUsage is another one; then the list is replaced.
ReloadPublish(p) ==
  LET s == snap[p]
      routable(a) == a \in s.on /\ ~(a \in s.over /\ ~allowOver) IN
  /\ pc[p] = "rebuild"
  /\ listed' = {a \in Accounts : routable(a)}
  /\ entry' = [a \in Accounts |-> IF routable(a)
       THEN [over |-> a \in s.over, token |-> s.cred[a], expiry |-> s.cred[a]]
       ELSE entry[a]]
  /\ snap' = [snap EXCEPT ![p] = NoSnap]
  /\ work' = [work EXCEPT ![p] = NoWork]
  /\ Unlock
  /\ Goto(p, "idle")
  /\ UNCHANGED <<configVars, cooldown, models, index, stale, scan, sel>>

(***************************************************************************)
(* What changes the configuration, and then reloads                        *)
(***************************************************************************)
\* An administrator's switch, and the ban of an account (disableAccount).
SetEnabled(p, a, on) ==
  /\ "enabled" \in mix
  /\ pc[p] = "idle"
  /\ enabled' = IF on THEN enabled \cup {a} ELSE enabled \ {a}
  /\ WorkOn(p, a, 0)
  /\ Goto(p, "reload")
  /\ UNCHANGED <<over, allowOver, saved, poolVars, index, lockVars, stale,
                 scan, snap, sel>>

\* UpdateAccountInfo and overage switches, at the end of which pools reload.
SetQuota(p, a, isOver) ==
  /\ "quota" \in mix
  /\ pc[p] = "idle"
  /\ over' = IF isOver THEN over \cup {a} ELSE over \ {a}
  /\ WorkOn(p, a, 0)
  /\ Goto(p, "reload")
  /\ UNCHANGED <<enabled, allowOver, saved, poolVars, index, lockVars, stale,
                 scan, snap, sel>>

\* The AllowOverUsage setting.
SetAllowOver(p, allow) ==
  /\ "overage" \in mix
  /\ pc[p] = "idle"
  /\ allowOver' = allow
  /\ Goto(p, "reload")
  /\ UNCHANGED <<enabled, over, saved, poolVars, index, lockVars, stale, work,
                 scan, snap, sel>>

\* DisableAccount: the ban, saved or not, then a cooldown, then a reload.
DisableAccount(p, a, ok) ==
  /\ {"enabled", "cooldown"} \subseteq mix
  /\ pc[p] = "idle"
  /\ enabled' = IF ok THEN enabled \ {a} ELSE enabled
  /\ WorkOn(p, a, 0)
  /\ Goto(p, "cool")
  /\ UNCHANGED <<over, allowOver, saved, poolVars, index, lockVars, stale,
                 scan, snap, sel>>

\* MarkOverLimit is the same without the ban.
MarkOverLimit(p, a) ==
  /\ "cooldown" \in mix
  /\ pc[p] = "idle"
  /\ WorkOn(p, a, 0)
  /\ Goto(p, "cool")
  /\ UNCHANGED <<configVars, poolVars, index, lockVars, stale, scan, snap, sel>>

StartCooldown(p) ==
  /\ pc[p] = "cool"
  /\ CanLock
  /\ cooldown' = cooldown \cup {work[p].id}
  /\ Goto(p, "reload")
  /\ UNCHANGED <<configVars, listed, entry, models, index, lockVars, stale, work,
                 scan, snap, sel>>

(***************************************************************************)
(* What changes the pool alone                                             *)
(***************************************************************************)
\* RecordSuccess and ResetAntiAbuse forget the cooldown.
RecordSuccess(a) ==
  /\ CanLock
  /\ cooldown' = cooldown \ {a}
  /\ UNCHANGED <<configVars, listed, entry, models, index, lockVars, stale, pc,
                 work, scan, snap, sel>>

\* SetModelList and DeleteModelList ("unknown").
SetModelList(a, support) ==
  /\ "models" \in mix
  /\ CanLock
  /\ models' = [models EXCEPT ![a] = support]
  /\ UNCHANGED <<configVars, listed, entry, cooldown, index, lockVars, stale, pc,
                 work, scan, snap, sel>>

\* A refresh persists the new credential, then publishes it to the pool.
Refresh(p, a) ==
  /\ "refresh" \in mix
  /\ pc[p] = "idle"
  /\ saved[a] < MaxCred
  /\ saved' = [saved EXCEPT ![a] = @ + 1]
  /\ WorkOn(p, a, saved[a] + 1)
  /\ Goto(p, "publish")
  /\ UNCHANGED <<enabled, over, allowOver, poolVars, index, lockVars, stale,
                 scan, snap, sel>>

\* UpdateCredentialState: only a listed account has a copy to write.
UpdateLock(p) ==
  /\ pc[p] = "publish"
  /\ Lock(p)
  /\ Goto(p, "token")
  /\ UNCHANGED <<configVars, poolVars, index, stale, work, scan, snap, sel>>

UpdateAccessToken(p) ==
  LET a == work[p].id IN
  /\ pc[p] = "token"
  /\ entry' = IF a \in listed THEN [entry EXCEPT ![a].token = work[p].cred] ELSE entry
  /\ Goto(p, "expiry")
  /\ UNCHANGED <<configVars, listed, cooldown, models, index, lockVars, stale,
                 work, scan, snap, sel>>

UpdateExpiry(p) ==
  LET a == work[p].id IN
  /\ pc[p] = "expiry"
  /\ entry' = IF a \in listed THEN [entry EXCEPT ![a].expiry = work[p].cred] ELSE entry
  /\ work' = [work EXCEPT ![p] = NoWork]
  /\ Unlock
  /\ Goto(p, "idle")
  /\ UNCHANGED <<configVars, listed, cooldown, models, index, stale, scan, snap,
                 sel>>

(***************************************************************************)
(* The clock (external)                                                    *)
(***************************************************************************)
CooldownEnds(a) ==
  /\ a \in cooldown
  /\ cooldown' = cooldown \ {a}
  /\ UNCHANGED <<configVars, listed, entry, models, index, lockVars, stale, pc,
                 work, scan, snap, sel>>

Expire(a) ==
  /\ stale[a] < saved[a]
  /\ stale' = [stale EXCEPT ![a] = @ + 1]
  /\ UNCHANGED <<configVars, poolVars, index, lockVars, pc, work, scan, snap, sel>>

(***************************************************************************)
(* The specification                                                       *)
(***************************************************************************)
Init ==
  /\ enabled = Accounts /\ over = {} /\ allowOver = FALSE
  /\ saved = [a \in Accounts |-> 1] /\ stale = [a \in Accounts |-> 0]
  /\ listed = Accounts
  /\ entry = [a \in Accounts |-> [over |-> FALSE, token |-> 1, expiry |-> 1]]
  /\ index = 0
  /\ cooldown = {} /\ models = [a \in Accounts |-> "unknown"]
  /\ writer = None /\ readers = {}
  /\ pc = [p \in Goroutines |-> "idle"]
  /\ work = [p \in Goroutines |-> NoWork]
  /\ scan = [p \in Goroutines |-> NoScan]
  /\ snap = [p \in Goroutines |-> NoSnap]
  /\ sel = [p \in Goroutines |-> NoSel]
  /\ mix \in Mixes

Selection(p) ==
  \/ \E excluded \in SUBSET Accounts : Select(p, excluded)
  \/ Probe(p) \/ Return(p)

Reload(p) == ReloadLock(p) \/ ReloadRead(p) \/ ReloadPublish(p)

Configure(p) ==
  \/ \E b \in BOOLEAN, a \in Accounts :
       SetEnabled(p, a, b) \/ SetQuota(p, a, b) \/ DisableAccount(p, a, b)
  \/ \E b \in BOOLEAN : SetAllowOver(p, b)
  \/ \E a \in Accounts : MarkOverLimit(p, a)
  \/ StartCooldown(p)

Publish(p) ==
  \/ \E a \in Accounts : Refresh(p, a)
  \/ UpdateLock(p) \/ UpdateAccessToken(p) \/ UpdateExpiry(p)

Record ==
  \E a \in Accounts : RecordSuccess(a) \/ \E m \in Support : SetModelList(a, m)

Clock == \E a \in Accounts : CooldownEnds(a) \/ Expire(a)

Next ==
  /\ \/ \E p \in Goroutines : Selection(p) \/ Reload(p) \/ Configure(p) \/ Publish(p)
     \/ Record
     \/ Clock
  /\ UNCHANGED mix

Spec == Init /\ [][Next]_vars

(***************************************************************************)
(* Invariants                                                              *)
(***************************************************************************)
ScanOK(s) ==
  /\ s.excluded \subseteq Accounts /\ s.seen \subseteq Accounts
  /\ s.left \in 0 .. Len(List)     /\ s.allow \in BOOLEAN
  /\ s.cold \subseteq Accounts

TypeOK ==
  /\ enabled \subseteq Accounts /\ over \subseteq Accounts /\ allowOver \in BOOLEAN
  /\ saved \in [Accounts -> Creds] /\ stale \in [Accounts -> Creds]
  /\ listed \subseteq Accounts /\ entry \in [Accounts -> Entry]
  /\ index \in 0 .. IndexWrap - 1
  /\ cooldown \subseteq Accounts /\ models \in [Accounts -> Support]
  /\ writer \in Goroutines \cup {None} /\ readers \subseteq Goroutines
  /\ mix \in Mixes
  /\ pc \in [Goroutines -> Steps] /\ work \in [Goroutines -> [id : Accounts \cup {None}, cred : Creds]]
  /\ \A p \in Goroutines : pc[p] = "scan" => ScanOK(scan[p]) /\ scan[p].left > 0

\* A snapshot pairs an access token with its own expiry: a selection never
\* sees a published refresh half written (snapshotAccount under the lock).
NoTornSnapshot == \A p \in Goroutines : sel[p].token = sel[p].expiry

\* A disabled account is still listed only while whoever disabled it has not
\* reloaded yet: no other reload, and no refresh, brings it back
\* (reloadLocked reads the configuration under the pool's lock).
RemovedStaysRemoved ==
  \A a \in listed \ enabled :
    \E p \in Goroutines :
      work[p].id = a /\ pc[p] \in {"cool", "reload", "read", "rebuild"}

\* A selection returns nothing only when no listed account was eligible for
\* it: "All model-supporting accounts are on cooldown or blocked. Return nil".
NilMeansNoneEligible ==
  \A p \in Goroutines :
    pc[p] = "return" /\ sel[p].id = None =>
      \A a \in listed : ~Eligible(a, scan[p])
==============================================================================
