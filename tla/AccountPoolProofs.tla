--------------------------- MODULE AccountPoolProofs ---------------------------
(***************************************************************************)
(* Theorems about AccountPool, for every set of accounts and goroutines,   *)
(* every order and weight, and every change.                               *)
(***************************************************************************)
EXTENDS AccountPool, FilterProofs, TLAPS

\* What the proofs need to know of the shape of the variables.
Shape ==
  /\ enabled \subseteq Accounts
  /\ listed \subseteq Accounts
  /\ pc \in [Goroutines -> Steps]
  /\ work \in [Goroutines -> [id : Accounts \cup {None}, cred : Nat]]
  /\ snap \in [Goroutines -> [on : SUBSET Accounts, over : SUBSET Accounts,
                              cred : [Accounts -> Nat]]]
  /\ over \subseteq Accounts
  /\ saved \in [Accounts -> Nat]

\* The goroutine that changed account a has not published that change yet: if
\* it has read the configuration, it read it without a.
Unpublished(a) ==
  \E p \in Goroutines :
    /\ work[p].id = a
    /\ \/ pc[p] \in {"cool", "reload", "read"}
       \/ pc[p] = "rebuild" /\ a \notin snap[p].on

\* What is listed, or about to be listed from a snapshot, and not enabled, is
\* about to be corrected.
Removal ==
  /\ \A a \in listed \ enabled : Unpublished(a)
  /\ \A p \in Goroutines : pc[p] = "rebuild" =>
       \A a \in snap[p].on \ enabled : Unpublished(a)

\* Only one goroutine at a time is between reading and publishing.
OneRebuild ==
  \A p \in Goroutines : pc[p] \in {"read", "rebuild", "token", "expiry"} => writer = p

LEMMA ShapeHolds == Spec => []Shape
<1>1. Init => Shape
  BY DEF Init, Shape, NoWork, NoSnap, Steps
<1>2. Shape /\ [Next]_vars => Shape'
  <2> SUFFICES ASSUME Shape, [Next]_vars PROVE Shape'
    OBVIOUS
  <2> USE DEF Shape, Steps, Goto, WorkOn, configVars, poolVars, lockVars
  <2>1. ASSUME NEW p \in Goroutines, Selection(p) PROVE Shape'
    BY <2>1 DEF Selection, Select, Probe, Return
  <2>2. ASSUME NEW p \in Goroutines, Reload(p) PROVE Shape'
    <3>1. CASE ReloadLock(p)
      BY <3>1 DEF ReloadLock
    <3>2. CASE ReloadRead(p)
      <4>1. [on |-> enabled, over |-> over, cred |-> saved]
              \in [on : SUBSET Accounts, over : SUBSET Accounts, cred : [Accounts -> Nat]]
        OBVIOUS
      <4>2. QED
        BY <3>2, <4>1 DEF ReloadRead
    <3>3. CASE ReloadPublish(p)
      <4>1. NoSnap \in [on : SUBSET Accounts, over : SUBSET Accounts, cred : [Accounts -> Nat]]
        BY DEF NoSnap
      <4>2. NoWork \in [id : Accounts \cup {None}, cred : Nat]
        BY DEF NoWork
      <4>3. snap' \in [Goroutines -> [on : SUBSET Accounts, over : SUBSET Accounts,
                                      cred : [Accounts -> Nat]]]
        BY <3>3, <4>1 DEF ReloadPublish
      <4>4. work' \in [Goroutines -> [id : Accounts \cup {None}, cred : Nat]]
        BY <3>3, <4>2 DEF ReloadPublish
      <4>5. /\ listed' \subseteq Accounts
            /\ pc' \in [Goroutines -> Steps]
            /\ UNCHANGED <<enabled, over, saved>>
        BY <3>3 DEF ReloadPublish
      <4>6. QED
        BY <4>3, <4>4, <4>5
    <3>4. QED
      BY <2>2, <3>1, <3>2, <3>3 DEF Reload
  <2>3. ASSUME NEW p \in Goroutines, Configure(p) PROVE Shape'
    <3>1. ASSUME NEW a \in Accounts, NEW on \in BOOLEAN,
                 SetEnabled(p, a, on) \/ SetQuota(p, a, on)
          PROVE Shape'
      <4>1. [id |-> a, cred |-> 0] \in [id : Accounts \cup {None}, cred : Nat]
        OBVIOUS
      <4>2. /\ work' = [work EXCEPT ![p] = [id |-> a, cred |-> 0]]
            /\ pc' = [pc EXCEPT ![p] = "reload"]
            /\ UNCHANGED <<listed, saved, snap>>
        BY <3>1 DEF SetEnabled, SetQuota
      <4>3. enabled' \subseteq Accounts /\ over' \subseteq Accounts
        BY <3>1 DEF SetEnabled, SetQuota
      <4>4. QED
        BY <4>1, <4>2, <4>3
    <3>2. ASSUME NEW a \in Accounts, NEW ok \in BOOLEAN,
                 DisableAccount(p, a, ok) \/ MarkOverLimit(p, a)
          PROVE Shape'
      <4>1. [id |-> a, cred |-> 0] \in [id : Accounts \cup {None}, cred : Nat]
        OBVIOUS
      <4>2. /\ work' = [work EXCEPT ![p] = [id |-> a, cred |-> 0]]
            /\ pc' = [pc EXCEPT ![p] = "cool"]
            /\ UNCHANGED <<over, listed, saved, snap>>
        BY <3>2 DEF DisableAccount, MarkOverLimit
      <4>3. enabled' \subseteq Accounts
        BY <3>2 DEF DisableAccount, MarkOverLimit
      <4>4. QED
        BY <4>1, <4>2, <4>3
    <3>3. ASSUME NEW b \in BOOLEAN, SetAllowOver(p, b) PROVE Shape'
      BY <3>3 DEF SetAllowOver
    <3>4. CASE StartCooldown(p)
      BY <3>4 DEF StartCooldown
    <3>5. QED
      BY <2>3, <3>1, <3>2, <3>3, <3>4 DEF Configure
  <2>4. ASSUME NEW p \in Goroutines, Publish(p) PROVE Shape'
    <3>1. ASSUME NEW a \in Accounts, Refresh(p, a) PROVE Shape'
      BY <3>1 DEF Refresh
    <3>2. CASE UpdateLock(p) \/ UpdateAccessToken(p)
      BY <3>2 DEF UpdateLock, UpdateAccessToken
    <3>3. CASE UpdateExpiry(p)
      BY <3>3 DEF UpdateExpiry, NoWork
    <3>4. QED
      BY <2>4, <3>1, <3>2, <3>3 DEF Publish
  <2>5. CASE Record \/ Clock
    BY <2>5 DEF Record, RecordSuccess, SetModelList, Clock, CooldownEnds, Expire
  <2>6. CASE UNCHANGED vars
    BY <2>6 DEF vars
  <2>7. QED
    BY <2>1, <2>2, <2>3, <2>4, <2>5, <2>6 DEF Next
<1>3. QED
  BY <1>1, <1>2, PTL DEF Spec

\* Whoever is between reading the configuration and publishing the list holds
\* the pool's lock.
LEMMA OneRebuildHolds == Spec => []OneRebuild
<1>1. Init => OneRebuild
  BY DEF Init, OneRebuild
<1>2. Shape /\ OneRebuild /\ [Next]_vars => OneRebuild'
  <2> SUFFICES ASSUME Shape, OneRebuild, [Next]_vars PROVE OneRebuild'
    OBVIOUS
  <2>0. pc \in [Goroutines -> Steps]
    BY DEF Shape
  <2> USE NoneAssumption, <2>0
      DEF OneRebuild, Goto, WorkOn, configVars, poolVars, lockVars
  <2>1. ASSUME NEW p \in Goroutines, Selection(p) PROVE OneRebuild'
    BY <2>1 DEF Selection, Select, Probe, Return, RLock, RUnlock
  <2>2. ASSUME NEW p \in Goroutines, Reload(p) PROVE OneRebuild'
    BY <2>2 DEF Reload, ReloadLock, ReloadRead, ReloadPublish, Lock, CanLock, Unlock
  <2>3. ASSUME NEW p \in Goroutines, Configure(p) PROVE OneRebuild'
    BY <2>3 DEF Configure, SetEnabled, SetQuota, SetAllowOver, DisableAccount,
                MarkOverLimit, StartCooldown, CanLock
  <2>4. ASSUME NEW p \in Goroutines, Publish(p) PROVE OneRebuild'
    BY <2>4 DEF Publish, Refresh, UpdateLock, UpdateAccessToken, UpdateExpiry,
                Lock, CanLock, Unlock
  <2>5. CASE Record \/ Clock
    BY <2>5 DEF Record, RecordSuccess, SetModelList, Clock, CooldownEnds, Expire
  <2>6. CASE UNCHANGED vars
    BY <2>6 DEF vars
  <2>7. QED
    BY <2>1, <2>2, <2>3, <2>4, <2>5, <2>6 DEF Next
<1>3. QED
  BY <1>1, <1>2, ShapeHolds, PTL DEF Spec

\* A step that adds nothing to what is listed, enabled elsewhere or about to be
\* listed, and loses no unpublished change, keeps Removal.
LEMMA RemovalKept ==
  ASSUME Removal,
         \A a \in listed' \ enabled' :
           (a \in listed \ enabled /\ (Unpublished(a) => Unpublished(a)')) \/ Unpublished(a)',
         \A p \in Goroutines : pc'[p] = "rebuild" =>
           \A a \in snap'[p].on \ enabled' :
             \/ pc[p] = "rebuild" /\ a \in snap[p].on \ enabled
                /\ (Unpublished(a) => Unpublished(a)')
             \/ Unpublished(a)'
  PROVE  Removal'
BY DEF Removal

\* A step of p after which p works on a, and is not past its own read, leaves a
\* unpublished.
LEMMA UnpublishedBy ==
  ASSUME NEW p \in Goroutines, NEW a,
         work'[p].id = a, pc'[p] \in {"cool", "reload", "read"}
  PROVE  Unpublished(a)'
BY DEF Unpublished

\* A step of p while p works on nothing, or after which p is still working on
\* the same account, not past its own read, loses no unpublished change.
LEMMA UnpublishedKept ==
  ASSUME NEW p \in Goroutines, Shape,
         \A q \in Goroutines \ {p} :
           work'[q] = work[q] /\ pc'[q] = pc[q] /\ snap'[q] = snap[q],
         \/ pc[p] \notin {"cool", "reload", "read", "rebuild"}
         \/ work'[p] = work[p] /\ pc'[p] \in {"cool", "reload", "read"},
         NEW a, Unpublished(a)
  PROVE  Unpublished(a)'
BY DEF Unpublished, Shape

\* An account that was disabled is listed only while whoever disabled it has
\* not reloaded yet: because reloadLocked reads the configuration under the
\* pool's lock, no reload that began earlier can bring the account back.
THEOREM RemovedAccountsStayRemoved == Spec => []RemovedStaysRemoved
<1>1. Init => Removal
  BY DEF Init, Removal, NoSnap
<1>2. Shape /\ OneRebuild /\ Removal /\ [Next]_vars => Removal'
  <2> SUFFICES ASSUME Shape, OneRebuild, Removal, [Next]_vars PROVE Removal'
    OBVIOUS
  <2>0. /\ pc \in [Goroutines -> Steps]
        /\ work \in [Goroutines -> [id : Accounts \cup {None}, cred : Nat]]
        /\ snap \in [Goroutines -> [on : SUBSET Accounts, over : SUBSET Accounts,
                                    cred : [Accounts -> Nat]]]
        /\ enabled \subseteq Accounts
    BY DEF Shape
  <2> USE DEF Goto, WorkOn, configVars, poolVars, lockVars
  <2>1. ASSUME NEW p \in Goroutines,
               Selection(p) \/ Publish(p) \/ ReloadLock(p) \/ StartCooldown(p)
        PROVE  Removal'
    <3>1. /\ \A q \in Goroutines \ {p} :
               work'[q] = work[q] /\ pc'[q] = pc[q] /\ snap'[q] = snap[q]
          /\ \/ pc[p] \notin {"cool", "reload", "read", "rebuild"}
             \/ work'[p] = work[p] /\ pc'[p] \in {"cool", "reload", "read"}
          /\ pc'[p] # "rebuild"
          /\ UNCHANGED <<listed, enabled>>
      <4>1. CASE Selection(p)
        BY <2>0, <4>1 DEF Selection, Select, Probe, Return
      <4>2. CASE Publish(p)
        BY <2>0, <4>2 DEF Publish, Refresh, UpdateLock, UpdateAccessToken, UpdateExpiry
      <4>3. CASE ReloadLock(p) \/ StartCooldown(p)
        BY <2>0, <4>3 DEF ReloadLock, StartCooldown
      <4>4. QED
        BY <2>1, <4>1, <4>2, <4>3
    <3>2. \A a : Unpublished(a) => Unpublished(a)'
      BY <3>1, UnpublishedKept
    <3>3. QED
      BY <3>1, <3>2, RemovalKept
  <2>2. ASSUME NEW p \in Goroutines, ReloadRead(p) PROVE Removal'
    <3>1. /\ \A q \in Goroutines \ {p} :
               work'[q] = work[q] /\ pc'[q] = pc[q] /\ snap'[q] = snap[q]
          /\ work' = work
          /\ pc[p] = "read" /\ pc'[p] = "rebuild" /\ snap'[p].on = enabled
          /\ UNCHANGED <<listed, enabled>>
      BY <2>0, <2>2 DEF ReloadRead
    <3>2. \A a : a \notin enabled /\ Unpublished(a) => Unpublished(a)'
      BY <3>1 DEF Unpublished
    <3>3. QED
      BY <3>1, <3>2, RemovalKept
  <2>3. ASSUME NEW p \in Goroutines, ReloadPublish(p) PROVE Removal'
    <3>1. /\ \A q \in Goroutines \ {p} :
               work'[q] = work[q] /\ pc'[q] = pc[q] /\ snap'[q] = snap[q]
          /\ pc[p] = "rebuild" /\ pc'[p] = "idle"
          /\ listed' \subseteq snap[p].on /\ enabled' = enabled
      BY <2>0, <2>3 DEF ReloadPublish
    <3>2. \A a : a \notin snap[p].on => ~(a \in listed')
      BY <3>1
    <3>3. \A q \in Goroutines : pc'[q] # "rebuild"
      BY <3>1, NoneAssumption, <2>0 DEF OneRebuild
    <3>4. ASSUME NEW a \in listed' \ enabled' PROVE Unpublished(a)'
      <4>1. a \in snap[p].on \ enabled
        BY <3>1, <3>4
      <4>2. PICK q \in Goroutines :
              /\ work[q].id = a
              /\ \/ pc[q] \in {"cool", "reload", "read"}
                 \/ pc[q] = "rebuild" /\ a \notin snap[q].on
        BY <3>1, <4>1 DEF Removal, Unpublished
      <4>3. q # p
        BY <3>1, <4>1, <4>2
      <4>4. QED
        BY <3>1, <4>2, <4>3 DEF Unpublished
    <3>5. QED
      BY <3>3, <3>4 DEF Removal
  <2>4. ASSUME NEW p \in Goroutines, NEW a \in Accounts, NEW b \in BOOLEAN,
               SetEnabled(p, a, b) \/ DisableAccount(p, a, b)
        PROVE  Removal'
    <3>1. /\ \A q \in Goroutines \ {p} :
               work'[q] = work[q] /\ pc'[q] = pc[q] /\ snap'[q] = snap[q]
          /\ pc[p] = "idle" /\ pc'[p] \in {"cool", "reload"} /\ work'[p].id = a
          /\ listed' = listed /\ enabled \ {a} \subseteq enabled'
          /\ snap' = snap
      BY <2>0, <2>4 DEF SetEnabled, DisableAccount
    <3>2. \A c : Unpublished(c) => Unpublished(c)'
      BY <3>1, UnpublishedKept
    <3>3. Unpublished(a)'
      BY <3>1, UnpublishedBy
    <3>4. ASSUME NEW c \in listed' \ enabled' PROVE Unpublished(c)'
      BY <3>1, <3>2, <3>3, <3>4 DEF Removal
    <3>5. ASSUME NEW q \in Goroutines, pc'[q] = "rebuild", NEW c \in snap'[q].on \ enabled'
          PROVE  Unpublished(c)'
      <4>1. q # p /\ pc[q] = "rebuild" /\ (c = a \/ c \in snap[q].on \ enabled)
        BY <3>1, <3>5
      <4>2. QED
        BY <4>1, <3>2, <3>3 DEF Removal
    <3>6. QED
      BY <3>4, <3>5 DEF Removal
  <2>5. ASSUME NEW p \in Goroutines,
               \/ \E a \in Accounts, b \in BOOLEAN : SetQuota(p, a, b)
               \/ \E b \in BOOLEAN : SetAllowOver(p, b)
               \/ \E a \in Accounts : MarkOverLimit(p, a)
        PROVE  Removal'
    <3>1. /\ \A q \in Goroutines \ {p} :
               work'[q] = work[q] /\ pc'[q] = pc[q] /\ snap'[q] = snap[q]
          /\ pc[p] = "idle" /\ pc'[p] \in {"cool", "reload"}
          /\ UNCHANGED <<listed, enabled>>
      BY <2>0, <2>5 DEF SetQuota, SetAllowOver, MarkOverLimit
    <3>2. \A c : Unpublished(c) => Unpublished(c)'
      BY <3>1, UnpublishedKept
    <3>3. QED
      BY <3>1, <3>2, RemovalKept
  <2>6. CASE Record \/ Clock \/ UNCHANGED vars
    <3>1. UNCHANGED <<work, pc, snap, listed, enabled>>
      BY <2>6 DEF vars, Record, RecordSuccess, SetModelList, Clock, CooldownEnds, Expire
    <3>2. QED
      BY <3>1 DEF Removal, Unpublished
  <2>7. QED
    BY <2>1, <2>2, <2>3, <2>4, <2>5, <2>6 DEF Next, Reload, Configure
<1>3. Removal => RemovedStaysRemoved
  BY DEF Removal, Unpublished, RemovedStaysRemoved
<1>4. QED
  BY <1>1, <1>2, <1>3, ShapeHolds, OneRebuildHolds, PTL DEF Spec

(***************************************************************************)
(* Whole snapshots                                                         *)
(***************************************************************************)
\* A scan holds the lock for reading, and while anyone does nobody writes.
Reading ==
  /\ \A p \in Goroutines : pc[p] \in {"scan", "return"} => p \in readers
  /\ readers # {} => writer = None

\* The copies of an account hold one credential, unless a refresh is between the
\* two writes that publish it.
Entries == [Accounts -> [over : BOOLEAN, token : Nat, expiry : Nat]]
Matched(a) == entry[a].token = entry[a].expiry
HalfWritten(p, a) == pc[p] = "expiry" /\ work[p].id = a /\ a \in listed
Whole ==
  /\ entry \in Entries
  /\ \A a \in Accounts : Matched(a) \/ \E p \in Goroutines : HalfWritten(p, a)
  /\ \A p \in Goroutines, a \in Accounts : HalfWritten(p, a) => entry[a].token = work[p].cred
  /\ sel \in [Goroutines -> [id : Accounts \cup {None}, token : Nat, expiry : Nat]]
  /\ NoTornSnapshot

LEMMA ReadingHolds == Spec => []Reading
<1>1. Init => Reading
  BY DEF Init, Reading
<1>2. Shape /\ Reading /\ [Next]_vars => Reading'
  <2> SUFFICES ASSUME Shape, Reading, [Next]_vars PROVE Reading'
    OBVIOUS
  <2>0. pc \in [Goroutines -> Steps]
    BY DEF Shape
  <2> USE NoneAssumption, <2>0 DEF Reading, Goto, WorkOn, configVars, poolVars, lockVars
  <2>1. ASSUME NEW p \in Goroutines, Selection(p) PROVE Reading'
    BY <2>1 DEF Selection, Select, Probe, Return, RLock, RUnlock
  <2>2. ASSUME NEW p \in Goroutines, Reload(p) PROVE Reading'
    BY <2>2 DEF Reload, ReloadLock, ReloadRead, ReloadPublish, Lock, CanLock, Unlock
  <2>3. ASSUME NEW p \in Goroutines, Configure(p) PROVE Reading'
    BY <2>3 DEF Configure, SetEnabled, SetQuota, SetAllowOver, DisableAccount,
                MarkOverLimit, StartCooldown
  <2>4. ASSUME NEW p \in Goroutines, Publish(p) PROVE Reading'
    BY <2>4 DEF Publish, Refresh, UpdateLock, UpdateAccessToken, UpdateExpiry,
                Lock, CanLock, Unlock
  <2>5. CASE Record \/ Clock
    BY <2>5 DEF Record, RecordSuccess, SetModelList, Clock, CooldownEnds, Expire
  <2>6. CASE UNCHANGED vars
    BY <2>6 DEF vars
  <2>7. QED
    BY <2>1, <2>2, <2>3, <2>4, <2>5, <2>6 DEF Next
<1>3. QED
  BY <1>1, <1>2, ShapeHolds, PTL DEF Spec

\* A step that writes no entry, selects nothing, and moves nobody from or to the
\* second write of a refresh.
LEMMA WholeKept ==
  ASSUME Whole, UNCHANGED <<entry, sel, listed>>,
         \A q \in Goroutines : \/ pc[q] # "expiry" /\ pc'[q] # "expiry"
                               \/ pc'[q] = pc[q] /\ work'[q] = work[q]
  PROVE  Whole'
BY DEF Whole, Matched, HalfWritten, NoTornSnapshot

\* While p holds the lock for writing, no other goroutine is half way.
LEMMA OnlyWriter ==
  ASSUME OneRebuild, NEW p \in Goroutines, writer = p,
         NEW q \in Goroutines, pc[q] = "expiry"
  PROVE  q = p
BY DEF OneRebuild

LEMMA ProbeSelectsWhole ==
  ASSUME Shape, OneRebuild, Reading, Whole, NEW p \in Goroutines, Probe(p)
  PROVE  Whole'
<1>1. /\ pc \in [Goroutines -> Steps] /\ listed \subseteq Accounts
      /\ sel \in [Goroutines -> [id : Accounts \cup {None}, token : Nat, expiry : Nat]]
      /\ entry \in Entries /\ NoTornSnapshot
  BY DEF Shape, Whole
<1>2. \A q \in Goroutines : pc[q] # "expiry"
  BY NoneAssumption DEF Probe, Reading, OneRebuild
<1>3. \A a \in Accounts : entry[a].token = entry[a].expiry
  BY <1>2 DEF Whole, HalfWritten, Matched
<1>4. PICK a \in listed :
        \/ sel' = sel
        \/ sel' = [sel EXCEPT ![p] = [id |-> a, token |-> entry[a].token, expiry |-> entry[a].expiry]]
  BY DEF Probe
<1>5. entry' = entry /\ listed' = listed /\ \A q \in Goroutines : pc'[q] # "expiry"
  BY <1>1, <1>2 DEF Probe, Goto, poolVars
<1>6. [id |-> a, token |-> entry[a].token, expiry |-> entry[a].expiry]
        \in [id : Accounts \cup {None}, token : Nat, expiry : Nat]
  BY <1>1, <1>4 DEF Entries
<1>7. sel' \in [Goroutines -> [id : Accounts \cup {None}, token : Nat, expiry : Nat]]
  BY <1>1, <1>4, <1>6
<1>8. NoTornSnapshot'
  BY <1>1, <1>3, <1>4 DEF NoTornSnapshot
<1>9. QED
  BY <1>1, <1>2, <1>3, <1>5, <1>7, <1>8 DEF Whole, HalfWritten, Matched

LEMMA ReloadKeepsWhole ==
  ASSUME Shape, OneRebuild, Whole, NEW p \in Goroutines, ReloadPublish(p)
  PROVE  Whole'
<1>1. /\ pc \in [Goroutines -> Steps]
      /\ snap[p] \in [on : SUBSET Accounts, over : SUBSET Accounts, cred : [Accounts -> Nat]]
      /\ entry \in Entries
  BY DEF Shape, Whole
<1>2. pc[p] = "rebuild" /\ pc' = [pc EXCEPT ![p] = "idle"] /\ sel' = sel
  BY DEF ReloadPublish, Goto
<1>3. \A q \in Goroutines : pc[q] # "expiry"
  BY <1>2 DEF OneRebuild
<1>4. \A q \in Goroutines : pc'[q] # "expiry"
  BY <1>1, <1>2, <1>3
<1>5. \A a \in Accounts : entry[a].token = entry[a].expiry
  BY <1>3 DEF Whole, HalfWritten, Matched
<1>6. \A a \in Accounts :
        \/ entry'[a] = entry[a]
        \/ entry'[a] = [over |-> a \in snap[p].over, token |-> snap[p].cred[a],
                        expiry |-> snap[p].cred[a]]
  BY DEF ReloadPublish
<1>7. \A a \in Accounts : entry'[a].token = entry'[a].expiry
  <2> TAKE a \in Accounts
  <2>1. CASE entry'[a] = entry[a]
    BY <1>5, <2>1
  <2>2. CASE entry'[a] = [over |-> a \in snap[p].over, token |-> snap[p].cred[a],
                          expiry |-> snap[p].cred[a]]
    <3>1. PICK x : entry'[a] = [over |-> x, token |-> snap[p].cred[a], expiry |-> snap[p].cred[a]]
      BY <2>2, Zenon
    <3>2. QED
      BY <3>1
  <2>3. QED
    BY <1>6, <2>1, <2>2
<1>8. entry' \in Entries
  <2>1. \A a \in Accounts : entry'[a] \in [over : BOOLEAN, token : Nat, expiry : Nat]
    <3> TAKE a \in Accounts
    <3>1. entry[a] \in [over : BOOLEAN, token : Nat, expiry : Nat]
      BY <1>1 DEF Entries
    <3>2. snap[p].cred[a] \in Nat /\ (a \in snap[p].over) \in BOOLEAN
      BY <1>1
    <3>3. [over |-> a \in snap[p].over, token |-> snap[p].cred[a], expiry |-> snap[p].cred[a]]
            \in [over : BOOLEAN, token : Nat, expiry : Nat]
      BY <3>2
    <3>4. QED
      BY <1>6, <3>1, <3>3
  <2>2. entry' = [a \in Accounts |-> entry'[a]]
    BY DEF ReloadPublish
  <2>3. QED
    BY <2>1, <2>2 DEF Entries
<1>9. QED
  BY <1>2, <1>4, <1>7, <1>8 DEF Whole, HalfWritten, Matched, NoTornSnapshot

LEMMA PublishKeepsWhole ==
  ASSUME Shape, OneRebuild, Whole, NEW p \in Goroutines, UpdateAccessToken(p) \/ UpdateExpiry(p)
  PROVE  Whole'
<1> DEFINE a == work[p].id
<1>1. /\ pc \in [Goroutines -> Steps] /\ listed \subseteq Accounts
      /\ work \in [Goroutines -> [id : Accounts \cup {None}, cred : Nat]] /\ work[p].cred \in Nat
      /\ entry \in Entries /\ entry \in [Accounts -> [over : BOOLEAN, token : Nat, expiry : Nat]]
  BY DEF Shape, Whole, Entries
<1>2. \A q \in Goroutines : pc[q] = "expiry" => q = p
  BY OnlyWriter DEF OneRebuild, UpdateAccessToken, UpdateExpiry
<1>3. sel' = sel /\ listed' = listed
  BY DEF UpdateAccessToken, UpdateExpiry
<1>4. CASE UpdateAccessToken(p)
  <2>1. /\ pc[p] = "token" /\ pc' = [pc EXCEPT ![p] = "expiry"] /\ work' = work
        /\ entry' = IF a \in listed THEN [entry EXCEPT ![a].token = work[p].cred] ELSE entry
    BY <1>4 DEF UpdateAccessToken, Goto
  <2>2. entry' \in Entries
    BY <1>1, <2>1 DEF Entries
  <2>3. \A b \in Accounts : entry[b].token = entry[b].expiry
    BY <1>2, <2>1 DEF Whole, HalfWritten, Matched
  <2>4. \A b \in Accounts : b # a \/ a \notin listed => entry'[b] = entry[b]
    BY <1>1, <2>1
  <2>5. a \in listed => entry'[a].token = work[p].cred
    BY <1>1, <2>1
  <2>6. \A q \in Goroutines : pc'[q] = "expiry" <=> q = p
    BY <1>1, <1>2, <2>1
  <2>7. \A b \in Accounts : Matched(b)' \/ \E q \in Goroutines : HalfWritten(q, b)'
    BY <1>3, <2>1, <2>3, <2>4, <2>6 DEF Matched, HalfWritten
  <2>8. \A q \in Goroutines, b \in Accounts : HalfWritten(q, b)' => entry'[b].token = work'[q].cred
    BY <1>3, <2>1, <2>5, <2>6 DEF HalfWritten
  <2>9. QED
    BY <1>3, <2>2, <2>7, <2>8 DEF Whole, NoTornSnapshot
<1>5. CASE UpdateExpiry(p)
  <2>1. /\ pc[p] = "expiry" /\ pc' = [pc EXCEPT ![p] = "idle"]
        /\ entry' = IF a \in listed THEN [entry EXCEPT ![a].expiry = work[p].cred] ELSE entry
    BY <1>5 DEF UpdateExpiry, Goto
  <2>2. entry' \in Entries
    BY <1>1, <2>1 DEF Entries
  <2>3. \A b \in Accounts : b # a \/ a \notin listed => entry[b].token = entry[b].expiry
    BY <1>2, <2>1 DEF Whole, HalfWritten, Matched
  <2>4. a \in listed => entry[a].token = work[p].cred
    BY <1>1, <2>1 DEF Whole, HalfWritten
  <2>5. \A b \in Accounts : entry'[b].token = entry'[b].expiry
    BY <1>1, <2>1, <2>3, <2>4
  <2>6. \A q \in Goroutines : pc'[q] # "expiry"
    BY <1>1, <1>2, <2>1
  <2>7. QED
    BY <1>3, <2>2, <2>5, <2>6 DEF Whole, HalfWritten, Matched, NoTornSnapshot
<1>6. QED
  BY <1>4, <1>5

LEMMA WholeHolds == Spec => []Whole
<1>1. Init => Whole
  <2> SUFFICES ASSUME Init PROVE Whole
    OBVIOUS
  <2>1. entry \in Entries
    BY DEF Init, Entries
  <2>2. sel \in [Goroutines -> [id : Accounts \cup {None}, token : Nat, expiry : Nat]]
    BY DEF Init, NoSel
  <2>3. NoTornSnapshot
    BY DEF Init, NoTornSnapshot, NoSel
  <2>4. QED
    BY <2>1, <2>2, <2>3 DEF Init, Whole, Matched, HalfWritten
<1>2. Shape /\ OneRebuild /\ Reading /\ Whole /\ [Next]_vars => Whole'
  <2> SUFFICES ASSUME Shape, OneRebuild, Reading, Whole, [Next]_vars PROVE Whole'
    OBVIOUS
  <2>0. pc \in [Goroutines -> Steps] /\ work \in [Goroutines -> [id : Accounts \cup {None}, cred : Nat]]
    BY DEF Shape
  <2>1. ASSUME NEW p \in Goroutines, Selection(p) PROVE Whole'
    <3>1. ASSUME NEW excluded \in SUBSET Accounts, Select(p, excluded) PROVE Whole'
      BY <2>0, <3>1, WholeKept DEF Select, Goto, poolVars
    <3>2. CASE Return(p)
      <4>1. /\ sel' = [sel EXCEPT ![p] = NoSel] /\ UNCHANGED <<entry, listed, work>>
            /\ \A q \in Goroutines : pc'[q] = "expiry" <=> pc[q] = "expiry"
        BY <2>0, <3>2 DEF Return, Goto, poolVars
      <4>2. NoSel \in [id : Accounts \cup {None}, token : Nat, expiry : Nat]
        BY DEF NoSel
      <4>3. sel' \in [Goroutines -> [id : Accounts \cup {None}, token : Nat, expiry : Nat]]
        BY <4>1, <4>2 DEF Whole
      <4>4. NoTornSnapshot'
        BY <4>1 DEF Whole, NoTornSnapshot, NoSel
      <4>5. QED
        BY <4>1, <4>3, <4>4 DEF Whole, Matched, HalfWritten
    <3>3. QED
      BY <2>1, <3>1, <3>2, ProbeSelectsWhole DEF Selection
  <2>2. ASSUME NEW p \in Goroutines, ReloadLock(p) \/ ReloadRead(p) PROVE Whole'
    BY <2>0, <2>2, WholeKept DEF ReloadLock, ReloadRead, Goto, poolVars
  <2>3. ASSUME NEW p \in Goroutines, Configure(p) PROVE Whole'
    <3>1. /\ UNCHANGED <<entry, sel, listed>> /\ pc[p] # "expiry" /\ pc'[p] # "expiry"
          /\ \A q \in Goroutines \ {p} : pc'[q] = pc[q] /\ work'[q] = work[q]
      BY <2>0, <2>3 DEF Configure, SetEnabled, SetQuota, SetAllowOver, DisableAccount,
           MarkOverLimit, StartCooldown, Goto, WorkOn, poolVars
    <3>2. \A q \in Goroutines : \/ pc[q] # "expiry" /\ pc'[q] # "expiry"
                                \/ pc'[q] = pc[q] /\ work'[q] = work[q]
      BY <3>1
    <3>3. QED
      BY <3>1, <3>2, WholeKept
  <2>4. ASSUME NEW p \in Goroutines, (\E a \in Accounts : Refresh(p, a)) \/ UpdateLock(p) PROVE Whole'
    <3>1. /\ UNCHANGED <<entry, sel, listed>> /\ pc[p] # "expiry" /\ pc'[p] # "expiry"
          /\ \A q \in Goroutines \ {p} : pc'[q] = pc[q] /\ work'[q] = work[q]
      BY <2>0, <2>4 DEF Refresh, UpdateLock, Goto, WorkOn, poolVars
    <3>2. \A q \in Goroutines : \/ pc[q] # "expiry" /\ pc'[q] # "expiry"
                                \/ pc'[q] = pc[q] /\ work'[q] = work[q]
      BY <3>1
    <3>3. QED
      BY <3>1, <3>2, WholeKept
  <2>5. CASE Record \/ Clock \/ UNCHANGED vars
    BY <2>5, WholeKept DEF Record, RecordSuccess, SetModelList, Clock, CooldownEnds, Expire,
         poolVars, vars
  <2>6. QED
    BY <2>1, <2>2, <2>3, <2>4, <2>5, ReloadKeepsWhole, PublishKeepsWhole DEF Next, Reload, Publish
<1> QED
  BY <1>1, <1>2, ShapeHolds, OneRebuildHolds, ReadingHolds, PTL DEF Spec

\* A selection never returns the access token of one refresh with the expiry of
\* another: the two writes that publish a refresh are both under the lock, and a
\* scan reads the entry it copies while it holds the lock for reading.
THEOREM SnapshotsAreWhole == Spec => []NoTornSnapshot
<1>1. Whole => NoTornSnapshot
  BY DEF Whole
<1> QED
  BY <1>1, WholeHolds, PTL

(***************************************************************************)
(* Type correctness                                                        *)
(***************************************************************************)
\* The list holds the listed accounts, and no others.
LEMMA ListHolds ==
  ASSUME listed \subseteq Accounts
  PROVE  List \in Seq(Accounts) /\ \A a : Occurs(List, a) <=> a \in listed
<1>1. /\ Kept(Weighted, listed) \in Seq(Accounts)
      /\ \A a : Occurs(Kept(Weighted, listed), a) <=> a \in listed /\ Occurs(Weighted, a)
  BY WeightedAssumption, KeptHolds
<1>2. \A a \in Accounts : Occurs(Weighted, a)
  BY WeightedAssumption DEF Occurs
<1> QED
  BY <1>1, <1>2 DEF List

LEMMA ListKept == UNCHANGED listed => List' = List
BY DEF List

Snaps == [on : SUBSET Accounts, over : SUBSET Accounts, cred : [Accounts -> Creds]]
Works == [id : Accounts \cup {None}, cred : Creds]
Scans == [excluded : SUBSET Accounts, seen : SUBSET Accounts, left : Nat,
          allow : BOOLEAN, cold : SUBSET Accounts]

ConfigTyped ==
  /\ enabled \subseteq Accounts /\ over \subseteq Accounts /\ allowOver \in BOOLEAN
  /\ saved \in [Accounts -> Creds] /\ stale \in [Accounts -> Creds]

PoolTyped ==
  /\ listed \subseteq Accounts /\ entry \in [Accounts -> Entry]
  /\ cooldown \subseteq Accounts /\ models \in [Accounts -> Support]

LockTyped ==
  /\ index \in 0 .. IndexWrap - 1
  /\ writer \in Goroutines \cup {None} /\ readers \subseteq Goroutines

LocalsTyped ==
  /\ pc \in [Goroutines -> Steps] /\ work \in [Goroutines -> Works]
  /\ snap \in [Goroutines -> Snaps] /\ scan \in [Goroutines -> Scans]
  /\ \A p \in Goroutines : pc[p] = "cool" => work[p].id \in Accounts

\* A goroutine in the loop has turns left, and no more than the list is long.
TurnsLeft == \A p \in Goroutines : pc[p] = "scan" => scan[p].left \in 1 .. Len(List)

Typed ==
  ConfigTyped /\ PoolTyped /\ LockTyped /\ LocalsTyped /\ TurnsLeft /\ mix \in Mixes

\* While anyone scans, nobody writes what a scan reads, but the clock.
LEMMA ScansReadStill ==
  ASSUME Reading, OneRebuild, LocalsTyped, NEW p \in Goroutines, pc[p] \in {"scan", "return"}, [Next]_vars
  PROVE  UNCHANGED <<listed, entry, models>>
<1>1. /\ p \in readers /\ readers # {} /\ writer = None
      /\ \A q \in Goroutines : pc[q] \notin {"read", "rebuild", "token", "expiry"}
  BY NoneAssumption DEF Reading, OneRebuild
<1> USE DEF poolVars
<1>2. ASSUME NEW q \in Goroutines, Selection(q) PROVE UNCHANGED <<listed, entry, models>>
  BY <1>2 DEF Selection, Select, Probe, Return
<1>3. ASSUME NEW q \in Goroutines, Reload(q) PROVE UNCHANGED <<listed, entry, models>>
  BY <1>1, <1>3 DEF Reload, ReloadLock, ReloadRead, ReloadPublish
<1>4. ASSUME NEW q \in Goroutines, Configure(q) PROVE UNCHANGED <<listed, entry, models>>
  BY <1>4 DEF Configure, SetEnabled, SetQuota, SetAllowOver, DisableAccount, MarkOverLimit,
              StartCooldown
<1>5. ASSUME NEW q \in Goroutines, Publish(q) PROVE UNCHANGED <<listed, entry, models>>
  BY <1>1, <1>5 DEF Publish, Refresh, UpdateLock, UpdateAccessToken, UpdateExpiry
<1>6. CASE Record \/ Clock
  BY <1>1, <1>6 DEF Record, RecordSuccess, SetModelList, Clock, CooldownEnds, Expire, CanLock
<1>7. CASE UNCHANGED vars
  BY <1>7 DEF vars
<1> QED
  BY <1>2, <1>3, <1>4, <1>5, <1>6, <1>7 DEF Next

LEMMA ConfigTypedKept ==
  ASSUME ConfigTyped, [Next]_vars
  PROVE  ConfigTyped'
<1> USE WrapAssumption DEF ConfigTyped, Creds
<1>1. CASE UNCHANGED configVars /\ UNCHANGED stale
  BY <1>1 DEF configVars
<1>2. ASSUME NEW p \in Goroutines, Selection(p) \/ Reload(p) PROVE ConfigTyped'
  BY <1>1, <1>2 DEF Selection, Select, Probe, Return, Reload, ReloadLock, ReloadRead, ReloadPublish
<1>3. ASSUME NEW p \in Goroutines, Configure(p) PROVE ConfigTyped'
  <2>1. UNCHANGED <<saved, stale>>
    BY <1>3 DEF Configure, SetEnabled, SetQuota, SetAllowOver, DisableAccount, MarkOverLimit,
                StartCooldown, configVars
  <2>2. enabled' \subseteq Accounts /\ over' \subseteq Accounts /\ allowOver' \in BOOLEAN
    BY <1>3 DEF Configure, SetEnabled, SetQuota, SetAllowOver, DisableAccount, MarkOverLimit,
                StartCooldown, configVars
  <2> QED
    BY <2>1, <2>2
<1>4. ASSUME NEW p \in Goroutines, Publish(p) PROVE ConfigTyped'
  <2>1. ASSUME NEW a \in Accounts, Refresh(p, a) PROVE ConfigTyped'
    <3>1. saved[a] + 1 \in 0 .. MaxCred
      BY <2>1 DEF Refresh
    <3> QED
      BY <2>1, <3>1 DEF Refresh
  <2>2. CASE UpdateLock(p) \/ UpdateAccessToken(p) \/ UpdateExpiry(p)
    BY <1>1, <2>2 DEF UpdateLock, UpdateAccessToken, UpdateExpiry
  <2> QED
    BY <1>4, <2>1, <2>2 DEF Publish
<1>5. ASSUME NEW a \in Accounts, Expire(a) PROVE ConfigTyped'
  <2>1. stale[a] + 1 \in 0 .. MaxCred
    BY <1>5 DEF Expire
  <2> QED
    BY <1>5, <2>1 DEF Expire, configVars
<1>6. CASE Record \/ \E a \in Accounts : CooldownEnds(a)
  BY <1>1, <1>6 DEF Record, RecordSuccess, SetModelList, CooldownEnds
<1>7. CASE UNCHANGED vars
  BY <1>1, <1>7 DEF vars, configVars
<1> QED
  BY <1>2, <1>3, <1>4, <1>5, <1>6, <1>7 DEF Next, Clock

LEMMA PoolTypedKept ==
  ASSUME ConfigTyped, PoolTyped, LocalsTyped, [Next]_vars
  PROVE  PoolTyped'
<1> USE DEF PoolTyped
<1>1. CASE UNCHANGED poolVars
  BY <1>1 DEF poolVars
<1>2. ASSUME NEW p \in Goroutines, Selection(p) PROVE PoolTyped'
  BY <1>1, <1>2 DEF Selection, Select, Probe, Return
<1>3. ASSUME NEW p \in Goroutines, ReloadPublish(p) PROVE PoolTyped'
  <2>1. snap[p] \in Snaps
    BY DEF LocalsTyped
  <2>2. ASSUME NEW a \in Accounts PROVE entry'[a] \in Entry
    <3>1. \/ entry'[a] = entry[a]
          \/ entry'[a] = [over |-> a \in snap[p].over, token |-> snap[p].cred[a],
                          expiry |-> snap[p].cred[a]]
      BY <1>3 DEF ReloadPublish
    <3>2. entry[a] \in Entry
      OBVIOUS
    <3>3. snap[p].cred[a] \in Creds /\ (a \in snap[p].over) \in BOOLEAN
      BY <2>1 DEF Snaps
    <3>4. [over |-> a \in snap[p].over, token |-> snap[p].cred[a], expiry |-> snap[p].cred[a]]
            \in Entry
      BY <3>3 DEF Entry
    <3> QED
      BY <3>1, <3>2, <3>4
  <2>3. entry' = [a \in Accounts |-> entry'[a]]
    BY <1>3 DEF ReloadPublish
  <2>4. listed' \subseteq Accounts /\ UNCHANGED <<cooldown, models>>
    BY <1>3 DEF ReloadPublish
  <2>5. entry' \in [Accounts -> Entry]
    BY <2>2, <2>3
  <2> QED
    BY <2>4, <2>5
<1>4. ASSUME NEW p \in Goroutines, ReloadLock(p) \/ ReloadRead(p) PROVE PoolTyped'
  BY <1>1, <1>4 DEF ReloadLock, ReloadRead
<1>5. ASSUME NEW p \in Goroutines, Configure(p) PROVE PoolTyped'
  <2>1. CASE StartCooldown(p)
    BY <2>1 DEF StartCooldown, LocalsTyped
  <2> QED
    BY <1>1, <1>5, <2>1 DEF Configure, SetEnabled, SetQuota, SetAllowOver, DisableAccount,
                            MarkOverLimit
<1>6. ASSUME NEW p \in Goroutines, Publish(p) PROVE PoolTyped'
  <2>1. work[p].cred \in Creds
    BY DEF LocalsTyped, Works
  <2>2. CASE (\E a \in Accounts : Refresh(p, a)) \/ UpdateLock(p)
    BY <1>1, <2>2 DEF Refresh, UpdateLock
  <2>3. CASE UpdateAccessToken(p)
    <3>1. entry' \in [Accounts -> Entry]
      BY <2>1, <2>3 DEF UpdateAccessToken, Entry
    <3> QED
      BY <2>3, <3>1 DEF UpdateAccessToken
  <2>4. CASE UpdateExpiry(p)
    <3>1. entry' \in [Accounts -> Entry]
      BY <2>1, <2>4 DEF UpdateExpiry, Entry
    <3> QED
      BY <2>4, <3>1 DEF UpdateExpiry
  <2> QED
    BY <1>6, <2>2, <2>3, <2>4 DEF Publish
<1>7. CASE Record \/ Clock
  BY <1>7 DEF Record, RecordSuccess, SetModelList, Clock, CooldownEnds, Expire, poolVars
<1>8. CASE UNCHANGED vars
  BY <1>1, <1>8 DEF vars, poolVars
<1> QED
  BY <1>2, <1>3, <1>4, <1>5, <1>6, <1>7, <1>8 DEF Next, Reload

LEMMA LockTypedKept ==
  ASSUME LockTyped, [Next]_vars
  PROVE  LockTyped'
<1> USE DEF LockTyped
<1>1. ASSUME UNCHANGED index, NEW p \in Goroutines,
             UNCHANGED lockVars \/ Lock(p) \/ RLock(p) \/ Unlock \/ RUnlock(p)
      PROVE  LockTyped'
  BY <1>1 DEF lockVars, Lock, CanLock, RLock, Unlock, RUnlock
<1>2. ASSUME NEW p \in Goroutines, Selection(p) PROVE LockTyped'
  <2>1. CASE Probe(p)
    <3>1. (index + 1) % IndexWrap \in 0 .. IndexWrap - 1
      BY WrapAssumption
    <3> QED
      BY <2>1, <3>1 DEF Probe, lockVars
  <2> QED
    BY <1>1, <1>2, <2>1 DEF Selection, Select, Return
<1>3. ASSUME NEW p \in Goroutines, Reload(p) \/ Publish(p) PROVE LockTyped'
  <2>1. UNCHANGED index
    BY <1>3 DEF Reload, ReloadLock, ReloadRead, ReloadPublish, Publish, Refresh, UpdateLock,
                UpdateAccessToken, UpdateExpiry
  <2>2. UNCHANGED lockVars \/ Lock(p) \/ Unlock
    BY <1>3 DEF Reload, ReloadLock, ReloadRead, ReloadPublish, Publish, Refresh, UpdateLock,
                UpdateAccessToken, UpdateExpiry
  <2> QED
    BY <1>1, <2>1, <2>2
<1>4. ASSUME NEW p \in Goroutines, Configure(p) PROVE LockTyped'
  BY <1>1, <1>4 DEF Configure, SetEnabled, SetQuota, SetAllowOver, DisableAccount,
                    MarkOverLimit, StartCooldown
<1>5. CASE Record \/ Clock \/ UNCHANGED vars
  BY <1>5 DEF Record, RecordSuccess, SetModelList, Clock, CooldownEnds, Expire, vars, lockVars
<1> QED
  BY <1>2, <1>3, <1>4, <1>5 DEF Next

\* A step writes the locals of the goroutine that takes it.
LEMMA LocalsWritten ==
  ASSUME LocalsTyped, NEW p \in Goroutines,
         \E step \in Steps : pc' = [pc EXCEPT ![p] = step],
         work' = work \/ \E w \in Works : work' = [work EXCEPT ![p] = w],
         snap' = snap \/ \E t \in Snaps : snap' = [snap EXCEPT ![p] = t],
         scan' = scan \/ scan' \in [Goroutines -> Scans],
         pc'[p] = "cool" => work'[p].id \in Accounts
  PROVE  LocalsTyped'
<1> USE DEF LocalsTyped
<1>1. pc' \in [Goroutines -> Steps] /\ work' \in [Goroutines -> Works]
  OBVIOUS
<1>2. snap' \in [Goroutines -> Snaps] /\ scan' \in [Goroutines -> Scans]
  OBVIOUS
<1>3. \A q \in Goroutines : pc'[q] = "cool" => work'[q].id \in Accounts
  OBVIOUS
<1> QED
  BY <1>1, <1>2, <1>3

LEMMA LocalsTypedKept ==
  ASSUME ConfigTyped, PoolTyped, LocalsTyped, TurnsLeft, [Next]_vars
  PROVE  LocalsTyped'
<1>0. /\ NoWork \in Works /\ NoSnap \in Snaps /\ NoScan \in Scans
      /\ \A a \in Accounts, c \in Creds : [id |-> a, cred |-> c] \in Works
  BY WrapAssumption DEF NoWork, Works, NoSnap, Snaps, NoScan, Scans, Creds
<1>1. CASE UNCHANGED <<pc, work, snap, scan>>
  BY <1>1 DEF LocalsTyped
<1>2. /\ pc \in [Goroutines -> Steps] /\ work \in [Goroutines -> Works]
      /\ scan \in [Goroutines -> Scans]
      /\ \A step \in Steps, q \in Goroutines : [pc EXCEPT ![q] = step][q] = step
  BY DEF LocalsTyped
<1> USE DEF Goto, WorkOn
<1>3. ASSUME NEW p \in Goroutines, Selection(p) PROVE LocalsTyped'
  <2>1. /\ \E step \in {"idle", "scan", "return"} : pc' = [pc EXCEPT ![p] = step]
        /\ UNCHANGED <<work, snap>>
    BY <1>3 DEF Selection, Select, Probe, Return
  <2>2. scan' \in [Goroutines -> Scans]
    <3>1. ASSUME NEW excluded \in SUBSET Accounts, Select(p, excluded)
          PROVE  scan' \in [Goroutines -> Scans]
      <4>1. Len(List) \in Nat
        BY ListHolds DEF PoolTyped
      <4>2. [excluded |-> excluded, seen |-> {}, left |-> Len(List), allow |-> allowOver,
             cold |-> cooldown] \in Scans
        BY <4>1 DEF Scans, ConfigTyped, PoolTyped
      <4> QED
        BY <1>2, <3>1, <4>2 DEF Select
    <3>2. CASE Probe(p)
      <4>1. pc[p] = "scan" /\ listed \subseteq Accounts
        BY <3>2 DEF Probe, PoolTyped
      <4>2. scan[p].left - 1 \in Nat
        BY <4>1, ListHolds DEF TurnsLeft
      <4>3. PICK seen \in SUBSET Accounts :
              scan' = [scan EXCEPT ![p].left = scan[p].left - 1, ![p].seen = seen]
        <5>1. PICK a \in listed :
                scan' = [scan EXCEPT ![p].left = scan[p].left - 1,
                  ![p].seen = IF a \notin scan[p].seen /\ Eligible(a, scan[p])
                                THEN scan[p].seen ELSE scan[p].seen \cup {a}]
          BY <3>2 DEF Probe
        <5>2. scan[p].seen \in SUBSET Accounts /\ a \in Accounts
          BY <1>2, <4>1 DEF Scans
        <5> DEFINE seen == IF a \notin scan[p].seen /\ Eligible(a, scan[p])
                             THEN scan[p].seen ELSE scan[p].seen \cup {a}
        <5>3. seen \in SUBSET Accounts
          BY <5>2
        <5>4. scan' = [scan EXCEPT ![p].left = scan[p].left - 1, ![p].seen = seen]
          BY <5>1
        <5> HIDE DEF seen
        <5> QED
          BY <5>3, <5>4
      <4>4. ASSUME NEW q \in Goroutines PROVE scan'[q] \in Scans
        <5>1. scan[q] \in Scans
          BY <1>2
        <5>2. CASE q = p
          <6>1. scan'[p] = [scan[p] EXCEPT !.left = scan[p].left - 1, !.seen = seen]
            BY <1>2, <4>3
          <6> QED
            BY <4>2, <5>1, <5>2, <6>1 DEF Scans
        <5>3. CASE q # p
          BY <1>2, <4>3, <5>1, <5>3
        <5> QED
          BY <5>2, <5>3
      <4>5. scan' = [q \in Goroutines |-> scan'[q]]
        BY <1>2, <4>3
      <4> QED
        BY <4>4, <4>5
    <3>3. CASE Return(p)
      <4>1. scan' = [scan EXCEPT ![p] = NoScan]
        BY <3>3 DEF Return
      <4> QED
        BY <1>0, <1>2, <4>1
    <3> QED
      BY <1>3, <3>1, <3>2, <3>3 DEF Selection
  <2>3. PICK step \in {"idle", "scan", "return"} : pc' = [pc EXCEPT ![p] = step]
    BY <2>1
  <2>4. step \in Steps /\ pc'[p] # "cool"
    BY <1>2, <2>3 DEF Steps
  <2> QED
    BY <2>1, <2>2, <2>3, <2>4, LocalsWritten
<1>4. ASSUME NEW p \in Goroutines, Reload(p) PROVE LocalsTyped'
  <2>1. CASE ReloadLock(p)
    BY <1>2, <2>1, LocalsWritten DEF ReloadLock, Steps
  <2>2. CASE ReloadRead(p)
    <3>1. [on |-> enabled, over |-> over, cred |-> saved] \in Snaps
      BY DEF Snaps, ConfigTyped
    <3>2. \E t \in Snaps : snap' = [snap EXCEPT ![p] = t]
      BY <2>2, <3>1 DEF ReloadRead
    <3>3. pc'[p] # "cool" /\ \E step \in Steps : pc' = [pc EXCEPT ![p] = step]
      BY <1>2, <2>2 DEF ReloadRead, Steps
    <3> QED
      BY <2>2, <3>2, <3>3, LocalsWritten DEF ReloadRead
  <2>3. CASE ReloadPublish(p)
    BY <1>0, <1>2, <2>3, LocalsWritten DEF ReloadPublish, Steps
  <2> QED
    BY <1>4, <2>1, <2>2, <2>3 DEF Reload
<1>5. ASSUME NEW p \in Goroutines, Configure(p) PROVE LocalsTyped'
  <2>1. UNCHANGED <<snap, scan>>
    BY <1>5 DEF Configure, SetEnabled, SetQuota, SetAllowOver, DisableAccount, MarkOverLimit,
                StartCooldown
  <2>2. \E step \in {"reload", "cool"} : pc' = [pc EXCEPT ![p] = step]
    BY <1>5 DEF Configure, SetEnabled, SetQuota, SetAllowOver, DisableAccount, MarkOverLimit,
                StartCooldown
  <2>3. \/ pc' = [pc EXCEPT ![p] = "reload"] /\ UNCHANGED work
        \/ \E a \in Accounts : work' = [work EXCEPT ![p] = [id |-> a, cred |-> 0]]
    BY <1>5 DEF Configure, SetEnabled, SetQuota, SetAllowOver, DisableAccount, MarkOverLimit,
                StartCooldown, configVars
  <2>4. CASE pc' = [pc EXCEPT ![p] = "reload"] /\ UNCHANGED work
    BY <1>2, <2>1, <2>4, LocalsWritten DEF Steps
  <2>5. ASSUME NEW a \in Accounts, work' = [work EXCEPT ![p] = [id |-> a, cred |-> 0]]
        PROVE  LocalsTyped'
    <3>1. [id |-> a, cred |-> 0] \in Works
      BY <1>0, WrapAssumption DEF Creds
    <3>2. work'[p].id \in Accounts /\ \E w \in Works : work' = [work EXCEPT ![p] = w]
      BY <1>2, <2>5, <3>1
    <3>3. \E step \in Steps : pc' = [pc EXCEPT ![p] = step]
      BY <2>2 DEF Steps
    <3> QED
      BY <2>1, <3>2, <3>3, LocalsWritten
  <2> QED
    BY <2>3, <2>4, <2>5
<1>6. ASSUME NEW p \in Goroutines, Publish(p) PROVE LocalsTyped'
  <2>1. ASSUME NEW a \in Accounts, Refresh(p, a) PROVE LocalsTyped'
    <3>1. [id |-> a, cred |-> saved[a] + 1] \in Works
      BY <1>0, <2>1, WrapAssumption DEF Refresh, ConfigTyped, Creds
    <3>2. \E w \in Works : work' = [work EXCEPT ![p] = w]
      BY <2>1, <3>1 DEF Refresh
    <3>3. pc'[p] # "cool" /\ \E step \in Steps : pc' = [pc EXCEPT ![p] = step]
      BY <1>2, <2>1 DEF Refresh, Steps
    <3> QED
      BY <2>1, <3>2, <3>3, LocalsWritten DEF Refresh
  <2>2. CASE UpdateLock(p) \/ UpdateAccessToken(p)
    BY <1>2, <2>2, LocalsWritten DEF UpdateLock, UpdateAccessToken, Steps
  <2>3. CASE UpdateExpiry(p)
    BY <1>0, <1>2, <2>3, LocalsWritten DEF UpdateExpiry, Steps
  <2> QED
    BY <1>6, <2>1, <2>2, <2>3 DEF Publish
<1>7. CASE Record \/ Clock
  BY <1>1, <1>7 DEF Record, RecordSuccess, SetModelList, Clock, CooldownEnds, Expire
<1>8. CASE UNCHANGED vars
  BY <1>1, <1>8 DEF vars
<1> QED
  BY <1>3, <1>4, <1>5, <1>6, <1>7, <1>8 DEF Next

\* Only its own selection moves a goroutine into the loop, in it, or out of it.
LEMMA OnlySelections ==
  ASSUME LocalsTyped, Whole, [Next]_vars, NEW p \in Goroutines,
         pc[p] \in {"scan", "return"} \/ pc'[p] \in {"scan", "return"}
  PROVE  Selection(p) \/ (pc'[p] = pc[p] /\ scan'[p] = scan[p] /\ sel'[p] = sel[p])
<1>1. /\ pc \in [Goroutines -> Steps] /\ scan \in [Goroutines -> Scans]
      /\ \A q \in Goroutines \ {p} : \A x : [pc EXCEPT ![q] = x][p] = pc[p]
      /\ \A q \in Goroutines : \A x : [pc EXCEPT ![q] = x][q] = x
      /\ DOMAIN sel = Goroutines
  BY DEF LocalsTyped, Whole
<1> USE DEF Goto
<1>2. ASSUME NEW q \in Goroutines \ {p}, Selection(q)
      PROVE  pc'[p] = pc[p] /\ scan'[p] = scan[p] /\ sel'[p] = sel[p]
  <2>1. pc'[p] = pc[p]
    BY <1>1, <1>2 DEF Selection, Select, Probe, Return
  <2>2. scan'[p] = scan[p]
    BY <1>1, <1>2 DEF Selection, Select, Probe, Return
  <2>3. sel'[p] = sel[p]
    BY <1>1, <1>2 DEF Selection, Select, Probe, Return
  <2> QED
    BY <2>1, <2>2, <2>3
<1>3. ASSUME NEW q \in Goroutines, Reload(q) \/ Configure(q) \/ Publish(q)
      PROVE  pc'[p] = pc[p] /\ scan'[p] = scan[p] /\ sel'[p] = sel[p]
  <2>1. UNCHANGED <<scan, sel>>
    BY <1>3 DEF Reload, ReloadLock, ReloadRead, ReloadPublish, Configure, SetEnabled, SetQuota,
                SetAllowOver, DisableAccount, MarkOverLimit, StartCooldown, Publish, Refresh,
                UpdateLock, UpdateAccessToken, UpdateExpiry
  <2>2. pc[q] \notin {"scan", "return"}
    BY <1>3 DEF Reload, ReloadLock, ReloadRead, ReloadPublish, Configure, SetEnabled, SetQuota,
                SetAllowOver, DisableAccount, MarkOverLimit, StartCooldown, Publish, Refresh,
                UpdateLock, UpdateAccessToken, UpdateExpiry
  <2>3. \E x \in Steps \ {"scan", "return"} : pc' = [pc EXCEPT ![q] = x]
    BY <1>3 DEF Steps, Reload, ReloadLock, ReloadRead, ReloadPublish, Configure, SetEnabled,
                SetQuota, SetAllowOver, DisableAccount, MarkOverLimit, StartCooldown, Publish,
                Refresh, UpdateLock, UpdateAccessToken, UpdateExpiry
  <2> QED
    BY <1>1, <2>1, <2>2, <2>3
<1>4. CASE Record \/ Clock \/ UNCHANGED vars
  BY <1>4 DEF Record, RecordSuccess, SetModelList, Clock, CooldownEnds, Expire, vars
<1> QED
  BY <1>2, <1>3, <1>4 DEF Next

LEMMA TurnsLeftKept ==
  ASSUME PoolTyped, LocalsTyped, TurnsLeft, Whole, Reading, OneRebuild, [Next]_vars
  PROVE  TurnsLeft'
<1>1. pc \in [Goroutines -> Steps] /\ scan \in [Goroutines -> Scans] /\ Len(List) \in Nat
  BY ListHolds DEF LocalsTyped, PoolTyped
<1> SUFFICES ASSUME NEW p \in Goroutines, pc'[p] = "scan"
             PROVE  scan'[p].left \in 1 .. Len(List')
  BY DEF TurnsLeft
<1>2. Selection(p) \/ (pc'[p] = pc[p] /\ scan'[p] = scan[p])
  BY OnlySelections
<1>3. CASE pc'[p] = pc[p] /\ scan'[p] = scan[p]
  BY <1>3, ScansReadStill, ListKept DEF TurnsLeft
<1>4. CASE Probe(p)
  <2>1. pc[p] = "scan" /\ List' = List /\ scan[p].left \in 1 .. Len(List)
    BY <1>4, ScansReadStill, ListKept DEF Probe, TurnsLeft
  <2>2. scan'[p].left = scan[p].left - 1 /\ scan[p].left # 1
    BY <1>1, <1>4 DEF Probe, Goto
  <2> QED
    BY <1>1, <2>1, <2>2
<1>5. ASSUME NEW excluded \in SUBSET Accounts, Select(p, excluded)
      PROVE  scan'[p].left \in 1 .. Len(List')
  <2>1. UNCHANGED listed /\ List # <<>> /\ scan'[p].left = Len(List)
    BY <1>1, <1>5 DEF Select, Goto, poolVars
  <2>2. List \in Seq(Accounts)
    BY ListHolds DEF PoolTyped
  <2>3. List' = List /\ Len(List) > 0
    BY <1>1, <2>1, <2>2, ListKept
  <2> QED
    BY <1>1, <2>1, <2>3
<1>6. CASE Return(p)
  BY <1>1, <1>6 DEF Return, Goto
<1> QED
  BY <1>2, <1>3, <1>4, <1>5, <1>6 DEF Selection

LEMMA TypedHolds == Spec => []Typed
<1>1. Init => Typed
  <2> SUFFICES ASSUME Init PROVE Typed
    OBVIOUS
  <2> USE WrapAssumption DEF Init, Creds
  <2>1. ConfigTyped
    <3>1. 0 \in Creds /\ 1 \in Creds
      OBVIOUS
    <3>2. saved \in [Accounts -> Creds] /\ stale \in [Accounts -> Creds]
      BY <3>1
    <3>3. enabled \subseteq Accounts /\ over \subseteq Accounts /\ allowOver \in BOOLEAN
      OBVIOUS
    <3> QED
      BY <3>2, <3>3 DEF ConfigTyped
  <2>2. PoolTyped
    BY DEF PoolTyped, Entry, Support
  <2>3. LockTyped
    BY DEF LockTyped
  <2>4. LocalsTyped
    <3>1. NoWork \in Works /\ NoSnap \in Snaps /\ NoScan \in Scans
      BY DEF NoWork, Works, NoSnap, Snaps, NoScan, Scans
    <3> QED
      BY <3>1 DEF LocalsTyped, Steps
  <2>5. TurnsLeft
    BY DEF TurnsLeft
  <2> QED
    BY <2>1, <2>2, <2>3, <2>4, <2>5 DEF Typed
<1>2. Typed /\ Whole /\ Reading /\ OneRebuild /\ [Next]_vars => Typed'
  <2>1. [Next]_vars => mix' = mix
    BY DEF Next, vars
  <2> QED
    BY <2>1, ConfigTypedKept, PoolTypedKept, LockTypedKept, LocalsTypedKept, TurnsLeftKept DEF Typed
<1> QED
  BY <1>1, <1>2, WholeHolds, ReadingHolds, OneRebuildHolds, PTL DEF Spec

\* Every variable of the pool keeps its type: no action writes an account that
\* is not configured, no counter leaves its range, and a scan never has more
\* turns left than the list is long.
THEOREM TypeCorrect == Spec => []TypeOK
<1>1. Typed => TypeOK
  <2> SUFFICES ASSUME Typed PROVE TypeOK
    OBVIOUS
  <2>1. \A p \in Goroutines : pc[p] = "scan" => ScanOK(scan[p]) /\ scan[p].left > 0
    <3> SUFFICES ASSUME NEW p \in Goroutines, pc[p] = "scan"
                 PROVE  ScanOK(scan[p]) /\ scan[p].left > 0
      OBVIOUS
    <3>1. scan[p] \in Scans /\ scan[p].left \in 1 .. Len(List) /\ Len(List) \in Nat
      BY ListHolds DEF Typed, LocalsTyped, TurnsLeft, PoolTyped
    <3> QED
      BY <3>1 DEF ScanOK, Scans
  <2> QED
    BY <2>1 DEF Typed, TypeOK, ConfigTyped, PoolTyped, LockTyped, LocalsTyped, Works
<1> QED
  BY <1>1, TypedHolds, PTL

(***************************************************************************)
(* A scan that finds nothing                                               *)
(*                                                                         *)
(* The list is a ring, and a scan takes as many turns as the ring is long, *)
(* from wherever the shared counter stands.  The counter is a 64-bit word: *)
(* when it wraps, its residue jumps, unless the length divides 2^64.       *)
(***************************************************************************)
\* Division with remainder.
LEMMA Divided ==
  ASSUME NEW n \in Nat \ {0}, NEW x \in Nat
  PROVE  \E q \in Nat, r \in 0 .. n - 1 : x = n * q + r
<1> DEFINE T == {y \in Nat : ~\E q \in Nat, r \in 0 .. n - 1 : y = n * q + r}
<1> SUFFICES ASSUME T # {} PROVE FALSE
  OBVIOUS
<1>1. PICK m \in T : \A k \in T : m <= k
  BY LeastNatural
<1>2. m # 0
  <2>1. 0 = n * 0 + 0 /\ 0 \in 0 .. n - 1
    OBVIOUS
  <2> QED
    BY <2>1
<1>3. m - 1 \in Nat /\ m - 1 \notin T
  BY <1>1, <1>2
<1>4. PICK q \in Nat, r \in 0 .. n - 1 : m - 1 = n * q + r
  BY <1>3
<1>5. CASE r = n - 1
  <2>1. m = n * (q + 1) + 0 /\ q + 1 \in Nat /\ 0 \in 0 .. n - 1
    BY <1>4, <1>5
  <2> QED
    BY <2>1
<1>6. CASE r # n - 1
  <2>1. m = n * q + (r + 1) /\ r + 1 \in 0 .. n - 1
    BY <1>4, <1>6
  <2> QED
    BY <2>1
<1> QED
  BY <1>5, <1>6

LEMMA Remainder ==
  ASSUME NEW n \in Nat \ {0}, NEW x \in Nat, NEW q \in Nat, NEW r \in 0 .. n - 1, x = n * q + r
  PROVE  x % n = r
OBVIOUS

LEMMA Multiple ==
  ASSUME NEW n \in Nat \ {0}, NEW x \in Nat, NEW q \in Nat, x = n * q
  PROVE  x % n = 0
OBVIOUS

\* The counter's next residue is the next place of the ring.
LEMMA NextResidue ==
  ASSUME NEW x \in Nat, NEW n \in Nat \ {0}
  PROVE  /\ x % n \in 0 .. n - 1
         /\ (x + 1) % n = IF x % n = n - 1 THEN 0 ELSE (x % n) + 1
<1>1. PICK q \in Nat, r \in 0 .. n - 1 : x = n * q + r
  BY Divided
<1> DEFINE y == x + 1
           k == q + 1
<1>2. x % n = r
  BY <1>1, Remainder
<1>3. CASE r = n - 1
  <2>1. y \in Nat /\ k \in Nat
    OBVIOUS
  <2>2. y = n * k
    <3>1. n * (q + 1) = n * q + n
      OBVIOUS
    <3> QED
      BY <1>1, <1>3, <3>1
  <2> HIDE DEF y, k
  <2>3. y % n = 0
    BY <2>1, <2>2, Multiple
  <2> QED
    BY <1>2, <1>3, <2>3 DEF y
<1>4. CASE r # n - 1
  <2>1. x + 1 = n * q + (r + 1) /\ r + 1 \in 0 .. n - 1
    BY <1>1, <1>4
  <2> QED
    BY <1>2, <1>4, <2>1, Remainder
<1> QED
  BY <1>2, <1>3, <1>4

\* The same of the counter, which wraps: after d + 1 turns that did not cross the
\* wrap, or when the ring divides the counter's range.
LEMMA NextPlace ==
  ASSUME NEW n \in Nat \ {0}, NEW d \in Nat,
         index \in 0 .. IndexWrap - 1, index' = (index + 1) % IndexWrap,
         index' >= d + 1 \/ IndexWrap % n = 0
  PROVE  /\ index >= d \/ IndexWrap % n = 0
         /\ index % n \in 0 .. n - 1
         /\ index' % n = IF index % n = n - 1 THEN 0 ELSE (index % n) + 1
<1>1. /\ index % n \in 0 .. n - 1
      /\ (index + 1) % n = IF index % n = n - 1 THEN 0 ELSE (index % n) + 1
  <2>1. index \in Nat
    BY WrapAssumption
  <2> QED
    BY <2>1, NextResidue, Zenon
<1>2. CASE index + 1 < IndexWrap
  <2>1. index' = index + 1
    BY <1>2, WrapAssumption
  <2> QED
    BY <1>1, <2>1
<1>3. CASE index + 1 = IndexWrap
  <2>1. index' = 0
    BY <1>3, WrapAssumption
  <2>2. IndexWrap % n = 0
    BY <2>1
  <2>3. index % n = n - 1
    BY <1>1, <1>3, <2>2
  <2>4. index' % n = 0
    BY <2>1
  <2> QED
    BY <1>1, <2>2, <2>3, <2>4
<1> QED
  BY <1>2, <1>3, WrapAssumption

\* Place c of a ring of n is j turns behind place r.
Behind(c, j, r, n) == c + j = r \/ c + j = r + n

\* The last d places up to place r of ring s are in S.
SeenBehind(s, d, r, n, S) ==
  \A j \in 0 .. d - 1, c \in 0 .. n - 1 : Behind(c, j, r, n) => s[c + 1] \in S

LEMMA OneMoreSeen ==
  ASSUME NEW n \in Nat \ {0}, NEW d \in Nat, NEW r \in 0 .. n - 1, NEW s, NEW S,
         SeenBehind(s, d, r, n, S),
         NEW next, next = IF r = n - 1 THEN 0 ELSE r + 1
  PROVE  SeenBehind(s, d + 1, next, n, S \cup {s[next + 1]})
<1> SUFFICES ASSUME NEW j \in 0 .. d, NEW c \in 0 .. n - 1, Behind(c, j, next, n), c # next
             PROVE  s[c + 1] \in S
  BY DEF SeenBehind
<1> DEFINE i == j - 1
<1>1. i \in 0 .. d - 1 /\ Behind(c, i, r, n)
  BY DEF Behind
<1> HIDE DEF i
<1> QED
  BY <1>1 DEF SeenBehind

LEMMA AllSeen ==
  ASSUME NEW n \in Nat \ {0}, NEW r \in 0 .. n - 1, NEW s, NEW S, SeenBehind(s, n, r, n, S),
         NEW i \in 1 .. n
  PROVE  s[i] \in S
<1> DEFINE c == i - 1
           j == IF c <= r THEN r - c ELSE r + n - c
<1>1. c \in 0 .. n - 1 /\ j \in 0 .. n - 1 /\ Behind(c, j, r, n) /\ c + 1 = i
  BY DEF Behind
<1> HIDE DEF c, j
<1> QED
  BY <1>1 DEF SeenBehind

\* The turns a scan has taken, and whether the counter tells how far back they
\* go: it has not wrapped since the scan began, or wrapping does not matter.
Turns(p) == Len(List) - scan[p].left
Tells(turns) == index >= turns \/ IndexWrap % Len(List) = 0

Refused(p) == \A a \in scan[p].seen : ~Eligible(a, scan[p])
Went(p) ==
  Tells(Turns(p)) => SeenBehind(List, Turns(p), index % Len(List), Len(List), scan[p].seen)

\* A scan that has not found an account has looked at the entries behind the
\* counter, as many as it has taken turns, and none of their accounts has become
\* eligible since.
Searching(p) ==
  /\ Refused(p)
  /\ List # <<>> => (pc[p] = "return" => scan[p].left = 0) /\ Went(p)

Coverage ==
  \A p \in Goroutines : pc[p] \in {"scan", "return"} =>
    p \in Selectors /\ (sel[p].id = None => Searching(p))

\* Only the clock takes credentials away.
LEMMA OnlyTheClockExpires ==
  [Next]_vars => UNCHANGED stale \/ \E b \in Accounts : Expire(b)
<1>1. ASSUME NEW p \in Goroutines, Selection(p) PROVE UNCHANGED stale
  BY <1>1, Zenon DEF Selection, Select, Probe, Return
<1>2. ASSUME NEW p \in Goroutines, Reload(p) PROVE UNCHANGED stale
  BY <1>2, Zenon DEF Reload, ReloadLock, ReloadRead, ReloadPublish
<1>3. ASSUME NEW p \in Goroutines, Configure(p) PROVE UNCHANGED stale
  <2>1. ASSUME NEW a \in Accounts, NEW b \in BOOLEAN,
               SetEnabled(p, a, b) \/ SetQuota(p, a, b) \/ DisableAccount(p, a, b)
        PROVE  UNCHANGED stale
    BY <2>1, Zenon DEF SetEnabled, SetQuota, DisableAccount
  <2>2. ASSUME NEW a \in Accounts, NEW b \in BOOLEAN,
               SetAllowOver(p, b) \/ MarkOverLimit(p, a)
        PROVE  UNCHANGED stale
    BY <2>2, Zenon DEF SetAllowOver, MarkOverLimit
  <2>3. ASSUME StartCooldown(p) PROVE UNCHANGED stale
    BY <2>3, Zenon DEF StartCooldown
  <2> QED
    BY <1>3, <2>1, <2>2, <2>3, Zenon DEF Configure, SetAllowOver
<1>4. ASSUME NEW p \in Goroutines, Publish(p) PROVE UNCHANGED stale
  BY <1>4, Zenon DEF Publish, Refresh, UpdateLock, UpdateAccessToken, UpdateExpiry
<1>5. ASSUME Record PROVE UNCHANGED stale
  BY <1>5, Zenon DEF Record, RecordSuccess, SetModelList
<1>6. ASSUME Clock PROVE UNCHANGED stale \/ \E b \in Accounts : Expire(b)
  BY <1>6, Zenon DEF Clock, CooldownEnds
<1>7. ASSUME UNCHANGED vars PROVE UNCHANGED stale
  BY <1>7, Zenon DEF vars
<1> QED
  BY <1>1, <1>2, <1>3, <1>4, <1>5, <1>6, <1>7, Zenon DEF Next

\* What a scan refused stays refused: the lock keeps all it depends on as it is
\* but the clock, and that only takes credentials away.
LEMMA RefusalStays ==
  ASSUME Typed, Reading, OneRebuild, [Next]_vars, NEW p \in Goroutines,
         pc[p] \in {"scan", "return"},
         scan'[p].excluded = scan[p].excluded, scan'[p].cold = scan[p].cold,
         scan'[p].allow = scan[p].allow,
         NEW a \in Accounts, ~Eligible(a, scan[p])
  PROVE  ~Eligible(a, scan[p])'
<1>1. entry' = entry /\ models' = models
  BY ScansReadStill DEF Typed
<1>2. stale[a] \in Nat /\ stale'[a] \in Nat /\ entry[a].expiry \in Nat
  <2>1. ConfigTyped'
    BY ConfigTypedKept DEF Typed
  <2>2. stale \in [Accounts -> Creds] /\ stale' \in [Accounts -> Creds] /\ entry[a] \in Entry
    BY <2>1 DEF Typed, ConfigTyped, PoolTyped
  <2> QED
    BY <2>2, WrapAssumption DEF Creds, Entry
<1>3. stale'[a] >= stale[a]
  <2>1. CASE UNCHANGED stale
    BY <1>2, <2>1
  <2>2. ASSUME NEW b \in Accounts, Expire(b) PROVE stale'[a] >= stale[a]
    <3>1. stale' = [stale EXCEPT ![b] = stale[b] + 1] /\ stale \in [Accounts -> Creds]
      BY <2>2 DEF Expire, Typed, ConfigTyped
    <3> QED
      BY <1>2, <3>1
  <2>3. UNCHANGED stale \/ \E b \in Accounts : Expire(b)
    BY OnlyTheClockExpires
  <2> QED
    BY <2>1, <2>2, <2>3
<1>4. entry[a].expiry > stale'[a] => entry[a].expiry > stale[a]
  BY <1>2, <1>3
<1> QED
  BY <1>1, <1>4, Zenon DEF Eligible, HasModel

\* Only a turn of a scan moves the counter.
LEMMA OnlyTurnsCount ==
  [Next]_vars => index' = index \/ \E q \in Goroutines : Probe(q)
BY DEF Next, Selection, Select, Return, Reload, ReloadLock, ReloadRead, ReloadPublish,
       Configure, SetEnabled, SetQuota, SetAllowOver, DisableAccount, MarkOverLimit,
       StartCooldown, Publish, Refresh, UpdateLock, UpdateAccessToken, UpdateExpiry, Record,
       RecordSuccess, SetModelList, Clock, CooldownEnds, Expire, vars

LEMMA TurnCovers ==
  ASSUME Typed, Reading, OneRebuild, Whole, [Next]_vars, Coverage, NEW p \in Goroutines,
         Probe(p), sel'[p].id = None
  PROVE  Searching(p)'
<1>1. /\ pc \in [Goroutines -> Steps] /\ scan \in [Goroutines -> Scans]
      /\ sel \in [Goroutines -> [id : Accounts \cup {None}, token : Nat, expiry : Nat]]
      /\ listed \subseteq Accounts /\ index \in 0 .. IndexWrap - 1
      /\ List \in Seq(Accounts) /\ Len(List) \in Nat
  BY ListHolds DEF Typed, LocalsTyped, LockTyped, PoolTyped, Whole
<1>2. pc[p] = "scan" /\ scan[p].left \in 1 .. Len(List) /\ List' = List
  BY ScansReadStill, ListKept DEF Probe, Typed, TurnsLeft
<1>3. PICK a \in listed :
        /\ index' = (index + 1) % IndexWrap
        /\ a = List[(index' % Len(List)) + 1]
        /\ scan' = [scan EXCEPT ![p].left = scan[p].left - 1,
             ![p].seen = IF a \notin scan[p].seen /\ Eligible(a, scan[p])
                           THEN scan[p].seen ELSE scan[p].seen \cup {a}]
        /\ sel' = IF a \notin scan[p].seen /\ Eligible(a, scan[p])
                    THEN [sel EXCEPT ![p] = [id |-> a, token |-> entry[a].token,
                                             expiry |-> entry[a].expiry]]
                    ELSE sel
        /\ scan[p].left # 1 => pc' = [pc EXCEPT ![p] = IF a \notin scan[p].seen /\ Eligible(a, scan[p])
                                        THEN "return" ELSE "scan"]
  BY DEF Probe, Goto
<1>4. ~(a \notin scan[p].seen /\ Eligible(a, scan[p]))
  BY <1>1, <1>3, NoneAssumption
<1>5. /\ scan'[p].left = scan[p].left - 1 /\ scan'[p].seen = scan[p].seen \cup {a}
      /\ scan'[p].excluded = scan[p].excluded /\ scan'[p].cold = scan[p].cold
      /\ scan'[p].allow = scan[p].allow
      /\ sel' = sel
      /\ scan[p].left # 1 => pc'[p] = "scan"
  BY <1>1, <1>3, <1>4 DEF Scans
<1>6. Searching(p)
  BY <1>2, <1>5 DEF Coverage
<1>7. Refused(p)'
  <2>1. ASSUME NEW b \in scan'[p].seen PROVE ~Eligible(b, scan[p])'
    <3>1. ~Eligible(b, scan[p]) /\ b \in Accounts
      <4>1. scan[p].seen \subseteq Accounts
        BY <1>1 DEF Scans
      <4> QED
        BY <1>1, <1>4, <1>5, <1>6, <2>1, <4>1 DEF Searching, Refused
    <3> QED
      BY <1>2, <1>5, <3>1, RefusalStays
  <2> QED
    BY <2>1 DEF Refused
<1>8. Went(p)'
  <2> DEFINE n    == Len(List)
             d    == Turns(p)
             r    == index % n
             next == index' % n
  <2>1. n \in Nat \ {0} /\ d \in Nat /\ Turns(p)' = d + 1 /\ IndexWrap \in Nat \ {0}
    BY <1>1, <1>2, <1>5, WrapAssumption DEF Turns
  <2>2. SUFFICES ASSUME index' >= d + 1 \/ IndexWrap % n = 0
                 PROVE  SeenBehind(List, d + 1, next, n, scan[p].seen \cup {List[next + 1]})
    BY <1>2, <1>3, <1>5, <2>1 DEF Went, Tells
  <2>3. /\ index >= d \/ IndexWrap % n = 0
        /\ r \in 0 .. n - 1
        /\ next = IF r = n - 1 THEN 0 ELSE r + 1
    <3>1. index' = (index + 1) % IndexWrap /\ index \in 0 .. IndexWrap - 1
      BY <1>1, <1>3
    <3> HIDE DEF n, d
    <3> QED
      BY <2>1, <2>2, <3>1, NextPlace, Zenon
  <2>4. SeenBehind(List, d, r, n, scan[p].seen)
    BY <1>1, <1>2, <1>6, <2>1, <2>3 DEF Searching, Went, Tells
  <2> HIDE DEF n, d, r, next
  <2> QED
    BY <2>1, <2>3, <2>4, OneMoreSeen
<1>9. pc'[p] = "return" => scan'[p].left = 0
  BY <1>5
<1> QED
  BY <1>7, <1>8, <1>9 DEF Searching

LEMMA CoverageHolds ==
  ASSUME \A p, q \in Selectors : p = q
  PROVE  Spec => []Coverage
<1>1. Init => Coverage
  BY DEF Init, Coverage
<1>2. Typed /\ Reading /\ OneRebuild /\ Whole /\ Coverage /\ [Next]_vars => Coverage'
  <2> SUFFICES ASSUME Typed, Reading, OneRebuild, Whole, Coverage, [Next]_vars,
                      NEW p \in Goroutines, pc'[p] \in {"scan", "return"}
               PROVE  p \in Selectors /\ (sel'[p].id = None => Searching(p)')
    BY DEF Coverage
  <2>0. /\ pc \in [Goroutines -> Steps] /\ scan \in [Goroutines -> Scans]
        /\ listed \subseteq Accounts /\ List \in Seq(Accounts) /\ Len(List) \in Nat
    BY ListHolds DEF Typed, LocalsTyped, PoolTyped
  <2>1. CASE Probe(p)
    <3>1. pc[p] = "scan"
      BY <2>1 DEF Probe
    <3> QED
      BY <2>1, <3>1, TurnCovers DEF Coverage
  <2>2. ASSUME NEW excluded \in SUBSET Accounts, Select(p, excluded)
        PROVE  p \in Selectors /\ Searching(p)'
    <3>1. /\ p \in Selectors /\ UNCHANGED listed
          /\ scan'[p].seen = {} /\ scan'[p].left = Len(List)
          /\ pc'[p] = IF List = <<>> THEN "return" ELSE "scan"
      BY <2>0, <2>2 DEF Select, Goto, poolVars
    <3>2. List' = List /\ Turns(p)' = 0
      BY <2>0, <3>1, ListKept DEF Turns
    <3>3. Refused(p)' /\ Went(p)'
      BY <3>1, <3>2 DEF Refused, Went, SeenBehind
    <3> QED
      BY <3>1, <3>2, <3>3 DEF Searching
  <2>3. ~Return(p)
    BY <2>0 DEF Return, Goto
  <2>4. CASE ~Probe(p) /\ pc'[p] = pc[p] /\ scan'[p] = scan[p] /\ sel'[p] = sel[p]
    <3>1. List' = List
      BY <2>4, ScansReadStill, ListKept DEF Typed
    <3>2. \A q \in Goroutines : ~Probe(q)
      BY <2>4 DEF Coverage, Probe
    <3>3. index' = index
      BY <3>2, OnlyTurnsCount
    <3>4. ASSUME Refused(p) PROVE Refused(p)'
      <4>1. scan[p].seen \subseteq Accounts
        BY <2>0 DEF Scans
      <4>2. \A a \in Accounts : ~Eligible(a, scan[p]) => ~Eligible(a, scan[p])'
        BY <2>4, RefusalStays
      <4> QED
        BY <2>4, <3>4, <4>1, <4>2 DEF Refused
    <3>5. Went(p)' = Went(p)
      BY <2>4, <3>1, <3>3 DEF Went, Turns, Tells
    <3>6. sel[p].id = None /\ Searching(p) => Searching(p)'
      BY <2>4, <3>1, <3>4, <3>5 DEF Searching
    <3> QED
      BY <2>4, <3>6 DEF Coverage
  <2> QED
    BY <2>1, <2>2, <2>3, <2>4, OnlySelections DEF Selection, Typed
<1> QED
  BY <1>1, <1>2, TypedHolds, ReadingHolds, OneRebuildHolds, WholeHolds, PTL DEF Spec

\* With one goroutine selecting at a time, a selection gives up only when no
\* listed account was eligible, unless the 64-bit counter wrapped while it
\* scanned: "All model-supporting accounts are on cooldown or blocked".
THEOREM NothingEligibleIsMissed ==
  ASSUME \A p, q \in Selectors : p = q
  PROVE  Spec => [](Tells(Len(List)) => NilMeansNoneEligible)
<1>1. Typed /\ Coverage => (Tells(Len(List)) => NilMeansNoneEligible)
  <2> SUFFICES ASSUME Typed, Coverage, Tells(Len(List)), NEW p \in Goroutines,
                      pc[p] = "return", sel[p].id = None, NEW a \in listed
               PROVE  ~Eligible(a, scan[p])
    BY DEF NilMeansNoneEligible
  <2>1. /\ List \in Seq(Accounts) /\ Len(List) \in Nat /\ Occurs(List, a)
        /\ index \in Nat
    BY ListHolds, WrapAssumption DEF Typed, PoolTyped, LockTyped
  <2>2. PICK i \in 1 .. Len(List) : List[i] = a
    BY <2>1 DEF Occurs
  <2>3. List # <<>> /\ Len(List) \in Nat \ {0}
    BY <2>1, <2>2
  <2>4. Refused(p) /\ Turns(p) = Len(List) /\ Went(p)
    BY <2>1, <2>3 DEF Coverage, Searching, Turns
  <2>5. SeenBehind(List, Len(List), index % Len(List), Len(List), scan[p].seen)
    BY <2>4 DEF Went
  <2>6. index % Len(List) \in 0 .. Len(List) - 1
    BY <2>1, <2>3, NextResidue
  <2>7. a \in scan[p].seen
    BY <2>2, <2>3, <2>5, <2>6, AllSeen
  <2> QED
    BY <2>4, <2>7 DEF Refused
<1> QED
  BY <1>1, CoverageHolds, TypedHolds, PTL
==============================================================================
