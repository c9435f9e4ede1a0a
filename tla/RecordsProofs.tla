---------------------------- MODULE RecordsProofs ----------------------------
(***************************************************************************)
(* What the console shows and administers, for any keys, accounts,         *)
(* profiles, workers and requests.  A value authenticates at most one      *)
(* entry.  Requests are routed to an account by the models of the profile  *)
(* it is pinned to, and only by models that are offered.  A stored         *)
(* conversation has one owner and no gap, and is not lost before it        *)
(* expires.  Every request is counted once, and two views of one range of  *)
(* the statistics agree.                                                   *)
(***************************************************************************)
EXTENDS ConsoleRecords, Sequences, FiniteSets, FilterProofs

(***************************************************************************)
(* The client keys                                                         *)
(*                                                                         *)
(* Memory and file each hold a table in which no two entries share a       *)
(* value, whatever saves fail and whenever the process stops: every step   *)
(* that writes a value looks for it first, under the lock it writes under. *)
(***************************************************************************)
Values    == KeyValues \cup {None}
KeyRows   == [key : Values, enabled : BOOLEAN, limit : Limits \cup {0}, used : Nat]
KeyTables == UNION {[D -> KeyRows] : D \in SUBSET Nat}
Confs     == [keys : KeyTables, required : BOOLEAN, legacy : Values]

Distinct(keys) == \A i, j \in DOMAIN keys : keys[i].key = keys[j].key => i = j
Sound(c)       == c \in Confs /\ Distinct(c.keys)

\* Memory and file are both sound, identifiers are numbers, and an editor's copy is an entry.
Keyed ==
    /\ Sound(conf) /\ Sound(disk)
    /\ spent \in [ids : Nat, kills : Nat]
    /\ edit \in [Admins -> [id : Nat, copy : KeyRows]]

----------------------------------------------------------------------------
LEMMA EntryTypes ==
    ASSUME NEW key \in Values, NEW on \in BOOLEAN, NEW limit \in Limits \cup {0}
    PROVE  ClientKeys!Entry(key, on, limit) \in KeyRows /\ ClientKeys!Entry(key, on, limit).key = key
  BY DEF ClientKeys!Entry, KeyRows

LEMMA TableTypes ==
    ASSUME NEW keys \in KeyTables
    PROVE  /\ DOMAIN keys \subseteq Nat /\ keys \in [DOMAIN keys -> KeyRows]
           /\ \A i \in DOMAIN keys : keys[i] \in KeyRows
<1>1. PICK D \in SUBSET Nat : keys \in [D -> KeyRows]  BY DEF KeyTables
<1>2. QED  BY <1>1

LEMMA TableOf ==
    ASSUME NEW D \in SUBSET Nat, NEW keys \in [D -> KeyRows]
    PROVE  keys \in KeyTables
  BY DEF KeyTables

\* An entry whose value no other entry has may be put anywhere.
LEMMA WithStaysDistinct ==
    ASSUME NEW keys \in KeyTables, Distinct(keys), NEW id \in Nat, NEW e \in KeyRows,
           \A j \in DOMAIN keys \ {id} : keys[j].key # e.key
    PROVE  ClientKeys!With(keys, id, e) \in KeyTables /\ Distinct(ClientKeys!With(keys, id, e))
<1> DEFINE new == ClientKeys!With(keys, id, e)
<1>1. DOMAIN keys \subseteq Nat /\ \A i \in DOMAIN keys : keys[i] \in KeyRows  BY TableTypes
<1>2. DOMAIN new = DOMAIN keys \cup {id} /\ new[id] = e
      /\ \A i \in DOMAIN keys \ {id} : new[i] = keys[i]
    BY DEF ClientKeys!With
<1>3. new \in [DOMAIN keys \cup {id} -> KeyRows]  BY <1>1 DEF ClientKeys!With
<1>4. new \in KeyTables
  <2> HIDE DEF new
  <2> QED  BY <1>1, <1>3, TableOf
<1>5. Distinct(new)
  <2> HIDE DEF new
  <2> QED  BY <1>2 DEF Distinct
<1>6. QED  BY <1>4, <1>5

LEMMA NoKeysSound == ClientKeys!NoKeys \in KeyTables /\ Distinct(ClientKeys!NoKeys)
<1>1. DOMAIN ClientKeys!NoKeys = {} /\ ClientKeys!NoKeys \in [{} -> KeyRows]  BY DEF ClientKeys!NoKeys
<1>2. ClientKeys!NoKeys \in KeyTables  BY <1>1, TableOf
<1>3. QED  BY <1>1, <1>2 DEF Distinct

\* What an administrator's step makes of a configuration.
LEMMA KeysReplaced ==
    ASSUME NEW c \in Confs, NEW keys \in KeyTables, Distinct(keys)
    PROVE  Sound([c EXCEPT !.keys = keys])
<1>1. [c EXCEPT !.keys = keys] \in Confs /\ [c EXCEPT !.keys = keys].keys = keys  BY DEF Confs
<1>2. QED  BY <1>1 DEF Sound

LEMMA KeyReplaced ==
    ASSUME NEW c, Sound(c), NEW id \in DOMAIN c.keys, NEW e \in KeyRows,
           \A j \in DOMAIN c.keys \ {id} : c.keys[j].key # e.key
    PROVE  Sound([c EXCEPT !.keys[id] = e])
<1>1. c \in Confs /\ c.keys \in KeyTables /\ Distinct(c.keys)  BY DEF Sound, Confs
<1>2. c.keys \in [DOMAIN c.keys -> KeyRows] /\ id \in Nat  BY <1>1, TableTypes
<1>3. [c.keys EXCEPT ![id] = e] = ClientKeys!With(c.keys, id, e)  BY <1>2 DEF ClientKeys!With
<1>4. ClientKeys!With(c.keys, id, e) \in KeyTables /\ Distinct(ClientKeys!With(c.keys, id, e))
    BY <1>1, <1>2, WithStaysDistinct
<1>5. [c EXCEPT !.keys[id] = e] = [c EXCEPT !.keys = ClientKeys!With(c.keys, id, e)]
    BY <1>1, <1>3 DEF Confs
<1>6. QED  BY <1>1, <1>4, <1>5, KeysReplaced

LEMMA PersistKeeps ==
    ASSUME Keyed, NEW c, Sound(c), ClientKeys!Persist(c) \/ ClientKeys!PersistOrUndo(c)
    PROVE  Sound(conf') /\ Sound(disk')
  BY DEF Keyed, ClientKeys!Persist, ClientKeys!PersistOrUndo

----------------------------------------------------------------------------
LEMMA AdminsKeep ==
    ASSUME Keyed, ClientKeys!AddApiKey \/ ClientKeys!DeleteApiKey \/ ClientKeys!ResetApiKeyUsage \/ ClientKeys!UpdateSettings
                  \/ \E a \in Admins : ClientKeys!BeginEdit(a) \/ ClientKeys!UpdateApiKey(a)
    PROVE  Keyed'
<1>1. /\ Sound(conf) /\ conf \in Confs /\ conf.keys \in KeyTables /\ Distinct(conf.keys)
      /\ spent.ids \in Nat
    BY DEF Keyed, Sound, Confs
<1>2. DOMAIN conf.keys \subseteq Nat /\ \A i \in DOMAIN conf.keys : conf.keys[i] \in KeyRows
    BY <1>1, TableTypes
<1>3. CASE ClientKeys!AddApiKey
  <2>1. PICK key \in KeyValues, on \in BOOLEAN, limit \in Limits :
           /\ ~ClientKeys!Holds(conf.keys, key)
           /\ ClientKeys!PersistOrUndo([conf EXCEPT !.keys = ClientKeys!With(conf.keys, spent.ids + 1, ClientKeys!Entry(key, on, limit))])
      BY <1>3 DEF ClientKeys!AddApiKey
  <2>2. ClientKeys!Entry(key, on, limit) \in KeyRows /\ ClientKeys!Entry(key, on, limit).key = key
      BY EntryTypes DEF Values
  <2>3. /\ ClientKeys!With(conf.keys, spent.ids + 1, ClientKeys!Entry(key, on, limit)) \in KeyTables
        /\ Distinct(ClientKeys!With(conf.keys, spent.ids + 1, ClientKeys!Entry(key, on, limit)))
    <3>1. \A j \in DOMAIN conf.keys : conf.keys[j].key # ClientKeys!Entry(key, on, limit).key
        BY <2>1, <2>2 DEF ClientKeys!Holds
    <3>2. spent.ids + 1 \in Nat  BY <1>1
    <3>3. QED  BY <1>1, <2>2, <3>1, <3>2, WithStaysDistinct
  <2>4. Sound(conf') /\ Sound(disk')  BY <1>1, <2>1, <2>3, KeysReplaced, PersistKeeps
  <2>5. spent' \in [ids : Nat, kills : Nat] /\ UNCHANGED edit  BY <1>3 DEF ClientKeys!AddApiKey, Keyed
  <2>6. QED  BY <2>4, <2>5 DEF Keyed
<1>4. CASE ClientKeys!DeleteApiKey
  <2>1. PICK id \in DOMAIN conf.keys :
           ClientKeys!Persist([conf EXCEPT !.keys = [i \in DOMAIN conf.keys \ {id} |-> conf.keys[i]]])
      BY <1>4 DEF ClientKeys!DeleteApiKey
  <2> DEFINE rest == [i \in DOMAIN conf.keys \ {id} |-> conf.keys[i]]
  <2>2. rest \in [DOMAIN conf.keys \ {id} -> KeyRows]  BY <1>2
  <2>3. DOMAIN conf.keys \ {id} \in SUBSET Nat  BY <1>2
  <2>4. rest \in KeyTables
    <3> HIDE DEF rest
    <3> QED  BY <2>2, <2>3, TableOf
  <2>5. Distinct(rest)  BY <1>1 DEF Distinct
  <2>6. Sound(conf') /\ Sound(disk')
    <3>1. ClientKeys!Persist([conf EXCEPT !.keys = rest])  BY <2>1
    <3> HIDE DEF rest
    <3> QED  BY <1>1, <2>4, <2>5, <3>1, KeysReplaced, PersistKeeps
  <2>7. QED  BY <1>4, <2>6 DEF ClientKeys!DeleteApiKey, Keyed
<1>5. CASE ClientKeys!ResetApiKeyUsage
  <2>1. PICK id \in DOMAIN conf.keys : ClientKeys!Persist([conf EXCEPT !.keys[id].used = 0])
      BY <1>5 DEF ClientKeys!ResetApiKeyUsage
  <2> DEFINE e == [conf.keys[id] EXCEPT !.used = 0]
  <2>2. conf.keys[id] \in KeyRows  BY <1>2
  <2>3. e \in KeyRows /\ e.key = conf.keys[id].key  BY <2>2 DEF KeyRows
  <2>4. ClientKeys!Persist([conf EXCEPT !.keys[id] = e])  BY <2>1
  <2>5. \A j \in DOMAIN conf.keys \ {id} : conf.keys[j].key # e.key  BY <1>1, <2>3 DEF Distinct
  <2>6. Sound(conf') /\ Sound(disk')
    <3> HIDE DEF e
    <3> QED  BY <1>1, <2>3, <2>4, <2>5, KeyReplaced, PersistKeeps
  <2>7. QED  BY <1>5, <2>6 DEF ClientKeys!ResetApiKeyUsage, Keyed
<1>6. CASE ClientKeys!UpdateSettings
  <2>1. PICK required \in BOOLEAN, legacy \in {None} \cup KeyValues :
           ClientKeys!Persist([conf EXCEPT !.required = required, !.legacy = legacy])
      BY <1>6 DEF ClientKeys!UpdateSettings
  <2>2. Sound([conf EXCEPT !.required = required, !.legacy = legacy])
      BY <1>1 DEF Sound, Confs, Values
  <2>3. Sound(conf') /\ Sound(disk')  BY <2>1, <2>2, PersistKeeps
  <2>4. QED  BY <1>6, <2>3 DEF ClientKeys!UpdateSettings, Keyed
<1>7. ASSUME NEW a \in Admins, ClientKeys!BeginEdit(a)
      PROVE  Keyed'
  <2>1. PICK i \in DOMAIN conf.keys : edit' = [edit EXCEPT ![a] = [id |-> i, copy |-> conf.keys[i]]]
      BY <1>7 DEF ClientKeys!BeginEdit
  <2>2. [id |-> i, copy |-> conf.keys[i]] \in [id : Nat, copy : KeyRows]  BY <1>2
  <2>3. edit' \in [Admins -> [id : Nat, copy : KeyRows]]  BY <2>1, <2>2 DEF Keyed
  <2>4. QED  BY <1>7, <2>3 DEF ClientKeys!BeginEdit, Keyed
<1>8. ASSUME NEW a \in Admins, ClientKeys!UpdateApiKey(a)
      PROVE  Keyed'
  <2> DEFINE id == edit[a].id
  <2>1. PICK key \in KeyValues, on \in BOOLEAN, limit \in Limits :
           IF id \notin DOMAIN conf.keys \/ ClientKeys!Collides(conf.keys, id, key)
           THEN UNCHANGED <<conf, disk>>
           ELSE ClientKeys!Persist([conf EXCEPT !.keys[id] = ClientKeys!Patched(conf.keys[id],
                  [edit[a].copy EXCEPT !.key = key, !.enabled = on, !.limit = limit])])
      BY <1>8 DEF ClientKeys!UpdateApiKey
  <2>2. Sound(conf') /\ Sound(disk')
    <3>1. CASE id \notin DOMAIN conf.keys \/ ClientKeys!Collides(conf.keys, id, key)
        BY <2>1, <3>1 DEF Keyed
    <3>2. CASE id \in DOMAIN conf.keys /\ ~ClientKeys!Collides(conf.keys, id, key)
      <4> DEFINE patch == [edit[a].copy EXCEPT !.key = key, !.enabled = on, !.limit = limit]
                 e     == ClientKeys!Patched(conf.keys[id], patch)
      <4>1. edit[a].copy \in KeyRows /\ conf.keys[id] \in KeyRows  BY <1>2, <3>2 DEF Keyed
      <4>2. patch \in KeyRows /\ patch.key = key  BY <4>1 DEF KeyRows, Values
      <4>3. e \in KeyRows /\ e.key = key
        <5> HIDE DEF patch
        <5> QED  BY <4>1, <4>2 DEF ClientKeys!Patched, KeyRows
      <4>4. ClientKeys!Persist([conf EXCEPT !.keys[id] = e])  BY <2>1, <3>2
      <4>5. \A j \in DOMAIN conf.keys \ {id} : conf.keys[j].key # e.key
        <5> HIDE DEF e
        <5> QED  BY <3>2, <4>3 DEF ClientKeys!Collides
      <4> HIDE DEF e, id
      <4>6. QED  BY <1>1, <3>2, <4>3, <4>4, <4>5, KeyReplaced, PersistKeeps
    <3>3. QED  BY <3>1, <3>2
  <2>3. ClientKeys!NoEdit \in [id : Nat, copy : KeyRows]
      BY EntryTypes DEF ClientKeys!NoEdit, ClientKeys!NoId, Values
  <2>4. edit' \in [Admins -> [id : Nat, copy : KeyRows]]  BY <1>8, <2>3 DEF ClientKeys!UpdateApiKey, Keyed
  <2>5. QED  BY <1>8, <2>2, <2>4 DEF ClientKeys!UpdateApiKey, Keyed
<1>9. QED  BY <1>3, <1>4, <1>5, <1>6, <1>7, <1>8

\* A request changes no entry but its counter.
LEMMA ClientsKeep ==
    ASSUME Keyed, NEW c \in Clients,
           \/ ClientKeys!CheckRequired(c) \/ ClientKeys!CheckHasKeys(c) \/ ClientKeys!CheckEntry(c)
           \/ ClientKeys!CheckLegacy(c)
           \/ ClientKeys!RecordApiKeyUsage(c) \/ ClientKeys!FailRequest(c)
    PROVE  Keyed'
<1>1. CASE ClientKeys!RecordApiKeyUsage(c)
  <2> DEFINE id == check[c].id
  <2>1. CASE id \notin DOMAIN conf.keys
      BY <1>1, <2>1 DEF ClientKeys!RecordApiKeyUsage, Keyed
  <2>2. CASE id \in DOMAIN conf.keys
    <3> DEFINE e == [conf.keys[id] EXCEPT !.used = @ + 1]
    <3>1. Sound(conf) /\ conf.keys \in KeyTables /\ Distinct(conf.keys)  BY DEF Keyed, Sound, Confs
    <3>2. conf.keys[id] \in KeyRows  BY <2>2, <3>1, TableTypes
    <3>3. e \in KeyRows /\ e.key = conf.keys[id].key
      <4> DEFINE more == conf.keys[id].used + 1
      <4>1. more \in Nat  BY <3>2 DEF KeyRows
      <4>2. e = [conf.keys[id] EXCEPT !.used = more]  OBVIOUS
      <4> HIDE DEF more, e
      <4>3. QED  BY <3>2, <4>1, <4>2 DEF KeyRows
    <3>4. ClientKeys!Persist([conf EXCEPT !.keys[id] = e])  BY <1>1, <2>2 DEF ClientKeys!RecordApiKeyUsage
    <3>5. \A j \in DOMAIN conf.keys \ {id} : conf.keys[j].key # e.key  BY <2>2, <3>1, <3>3 DEF Distinct
    <3>6. Sound(conf') /\ Sound(disk')
      <4> HIDE DEF e, id
      <4> QED  BY <2>2, <3>1, <3>3, <3>4, <3>5, KeyReplaced, PersistKeeps
    <3>7. QED  BY <1>1, <3>6 DEF ClientKeys!RecordApiKeyUsage, Keyed
  <2>3. QED  BY <2>1, <2>2
<1>2. CASE ~ClientKeys!RecordApiKeyUsage(c)
  <2>1. UNCHANGED <<conf, disk, edit, spent>>
      BY <1>2 DEF ClientKeys!CheckRequired, ClientKeys!CheckHasKeys, ClientKeys!CheckEntry,
         ClientKeys!CheckLegacy, ClientKeys!FailRequest
  <2>2. QED  BY <2>1 DEF Keyed
<1>3. QED  BY <1>1, <1>2

\* The migration of Load adds its entry to an empty table only.
LEMMA KeysRestartKeeps ==
    ASSUME Keyed, ClientKeys!Restart
    PROVE  Keyed'
<1>1. Sound(disk) /\ disk \in Confs /\ disk.keys \in KeyTables /\ Distinct(disk.keys)
      /\ disk.legacy \in Values /\ disk.required \in BOOLEAN /\ spent.ids + 1 \in Nat
    BY DEF Keyed, Sound, Confs
<1>2. Sound(ClientKeys!Promoted(disk))
  <2>1. CASE disk.legacy # None /\ DOMAIN disk.keys = {}
    <3> DEFINE e == ClientKeys!Entry(disk.legacy, disk.required, 0)
    <3>1. e \in KeyRows  BY <1>1, EntryTypes
    <3>2. \A j \in DOMAIN disk.keys \ {spent.ids + 1} : disk.keys[j].key # e.key  BY <2>1
    <3> HIDE DEF e
    <3>3. /\ ClientKeys!With(disk.keys, spent.ids + 1, e) \in KeyTables
          /\ Distinct(ClientKeys!With(disk.keys, spent.ids + 1, e))
        BY <1>1, <3>1, <3>2, WithStaysDistinct
    <3>4. ClientKeys!Promoted(disk) = [disk EXCEPT !.keys = ClientKeys!With(disk.keys, spent.ids + 1, e)]
        BY <2>1 DEF ClientKeys!Promoted, e
    <3>5. QED  BY <1>1, <3>3, <3>4, KeysReplaced
  <2>2. CASE ~(disk.legacy # None /\ DOMAIN disk.keys = {})  BY <1>1, <2>2 DEF ClientKeys!Promoted
  <2>3. QED  BY <2>1, <2>2
<1>3. Sound(conf') /\ Sound(disk')  BY <1>2 DEF ClientKeys!Restart
<1>4. spent' \in [ids : Nat, kills : Nat]
  <2>1. spent.ids + 1 \in Nat /\ spent.kills + 1 \in Nat  BY DEF Keyed
  <2>2. QED  BY <2>1 DEF ClientKeys!Restart
<1>5. ClientKeys!NoEdit \in [id : Nat, copy : KeyRows]
    BY EntryTypes DEF ClientKeys!NoEdit, ClientKeys!NoId, Values
<1>6. edit' \in [Admins -> [id : Nat, copy : KeyRows]]  BY <1>5 DEF ClientKeys!Restart
<1>7. QED  BY <1>3, <1>4, <1>6 DEF Keyed

----------------------------------------------------------------------------
LEMMA KeyedAlways == ClientKeys!Spec => []Keyed
<1>1. ClientKeys!Init => Keyed
  <2> SUFFICES ASSUME ClientKeys!Init PROVE Keyed  OBVIOUS
  <2>1. conf \in [keys : {ClientKeys!NoKeys}, required : BOOLEAN, legacy : {None} \cup KeyValues] /\ disk = conf
      BY DEF ClientKeys!Init
  <2>2. conf.keys = ClientKeys!NoKeys /\ conf \in Confs  BY <2>1, NoKeysSound DEF Confs, Values
  <2>3. Sound(conf) /\ Sound(disk)  BY <2>1, <2>2, NoKeysSound DEF Sound
  <2>4. ClientKeys!NoEdit \in [id : Nat, copy : KeyRows]
      BY EntryTypes DEF ClientKeys!NoEdit, ClientKeys!NoId, Values
  <2>5. QED  BY <2>3, <2>4 DEF ClientKeys!Init, Keyed
<1>2. Keyed /\ [ClientKeys!Next]_(ClientKeys!vars) => Keyed'
  <2> SUFFICES ASSUME Keyed, [ClientKeys!Next]_(ClientKeys!vars) PROVE Keyed'  OBVIOUS
  <2>1. CASE UNCHANGED ClientKeys!vars  BY <2>1 DEF ClientKeys!vars, Keyed
  <2>2. CASE ClientKeys!Next
      BY <2>2, ClientsKeep, AdminsKeep, KeysRestartKeeps DEF ClientKeys!Next, ClientKeys!Step
  <2>3. QED  BY <2>1, <2>2
<1>3. QED  BY <1>1, <1>2, PTL DEF ClientKeys!Spec

\* Whatever is added, edited, deleted, charged or migrated, a value belongs to at
\* most one entry, in memory and on disk (AddApiKey, UpdateApiKey, Load).
THEOREM KeysAreUnique == ClientKeys!Spec => []ClientKeys!UniqueKeys
<1>1. Keyed => ClientKeys!UniqueKeys  BY DEF Keyed, Sound, Distinct, ClientKeys!UniqueKeys
<1>2. QED  BY <1>1, KeyedAlways, PTL

\* The end of an edit leaves every counter as it is, whatever was charged or reset
\* since the entry was read: only the step that ends it can be UpdateApiKey's, which
\* writes the counter it finds (UpdateApiKey).
THEOREM EditsKeepTheCounters == ClientKeys!Spec => ClientKeys!EditKeepsUsage
<1>1. Keyed /\ [ClientKeys!Next]_(ClientKeys!vars) => [ClientKeys!UsageKept]_(ClientKeys!vars)
  <2> SUFFICES ASSUME Keyed, ClientKeys!Next, NEW a \in Admins,
                      edit[a].id # ClientKeys!NoId, edit'[a] = ClientKeys!NoEdit, spent' = spent
               PROVE  ClientKeys!UsageOf(conf'.keys) = ClientKeys!UsageOf(conf.keys)
      BY DEF ClientKeys!UsageKept
  <2>1. /\ conf \in Confs /\ conf.keys \in KeyTables /\ spent.ids \in Nat
        /\ edit \in [Admins -> [id : Nat, copy : KeyRows]]
      BY DEF Keyed, Sound, Confs
  <2>2. \A i \in DOMAIN conf.keys : conf.keys[i] \in KeyRows  BY <2>1, TableTypes
  <2>3. ClientKeys!NoEdit.id = ClientKeys!NoId  BY DEF ClientKeys!NoEdit
  <2>4. ~UNCHANGED edit  BY <2>3
  <2>5. ~ClientKeys!Restart
    <3>1. spent.ids + 1 # spent.ids  BY <2>1
    <3>2. QED  BY <3>1 DEF ClientKeys!Restart
  <2>6. \E b \in Admins : ClientKeys!BeginEdit(b) \/ ClientKeys!UpdateApiKey(b)
      BY <2>4, <2>5 DEF ClientKeys!Next, ClientKeys!Step, ClientKeys!CheckRequired,
         ClientKeys!CheckHasKeys, ClientKeys!CheckEntry, ClientKeys!CheckLegacy,
         ClientKeys!RecordApiKeyUsage, ClientKeys!FailRequest, ClientKeys!AddApiKey,
         ClientKeys!DeleteApiKey, ClientKeys!ResetApiKeyUsage, ClientKeys!UpdateSettings
  <2>7. PICK b \in Admins : ClientKeys!BeginEdit(b) \/ ClientKeys!UpdateApiKey(b)  BY <2>6
  <2>8. b = a
    <3>1. b # a => edit'[a] = edit[a]  BY <2>1, <2>7 DEF ClientKeys!BeginEdit, ClientKeys!UpdateApiKey
    <3>2. QED  BY <3>1, <2>3
  <2>9. ClientKeys!UpdateApiKey(a)  BY <2>7, <2>8 DEF ClientKeys!BeginEdit
  <2> DEFINE id == edit[a].id
  <2>10. CASE UNCHANGED conf  BY <2>10
  <2>11. CASE ~UNCHANGED conf
    <3>1. PICK key \in KeyValues, on \in BOOLEAN, limit \in Limits :
             /\ id \in DOMAIN conf.keys
             /\ ClientKeys!Persist([conf EXCEPT !.keys[id] = ClientKeys!Patched(conf.keys[id],
                  [edit[a].copy EXCEPT !.key = key, !.enabled = on, !.limit = limit])])
        BY <2>9, <2>11 DEF ClientKeys!UpdateApiKey
    <3> DEFINE patch == [edit[a].copy EXCEPT !.key = key, !.enabled = on, !.limit = limit]
               e     == ClientKeys!Patched(conf.keys[id], patch)
    <3>2. edit[a].copy \in KeyRows /\ conf.keys[id] \in KeyRows  BY <2>1, <2>2, <3>1
    <3>3. patch \in KeyRows  BY <3>2 DEF KeyRows, Values
    <3>4. e.used = conf.keys[id].used
      <4> HIDE DEF patch
      <4> QED  BY <3>3 DEF ClientKeys!Patched, KeyRows
    <3>5. conf' = [conf EXCEPT !.keys[id] = e]  BY <3>1 DEF ClientKeys!Persist
    <3>6. conf'.keys = [conf.keys EXCEPT ![id] = e]
      <4> HIDE DEF e, id
      <4> QED  BY <2>1, <3>5 DEF Confs
    <3>7. DOMAIN conf'.keys = DOMAIN conf.keys
          /\ \A i \in DOMAIN conf.keys : conf'.keys[i].used = conf.keys[i].used
      <4>1. conf.keys \in [DOMAIN conf.keys -> KeyRows]  BY <2>1, TableTypes
      <4> HIDE DEF e, id
      <4>2. QED  BY <3>1, <3>4, <3>6, <4>1
    <3>8. QED  BY <3>7 DEF ClientKeys!UsageOf
  <2>12. QED  BY <2>10, <2>11
<1>2. QED  BY <1>1, KeyedAlways, PTL DEF ClientKeys!Spec, ClientKeys!EditKeepsUsage

(***************************************************************************)
(* The models of an account                                                *)
(*                                                                         *)
(* Publishing and dropping write what an account is routed by and what is  *)
(* offered in opposite orders, and only switching excludes another switch: *)
(* what is offered is therefore followed through the steps of every job,   *)
(* and what an account is routed by through those of its lock's holder,    *)
(* whose profile it will be pinned to.                                     *)
(***************************************************************************)
Entries == [there : BOOLEAN, on : BOOLEAN, arn : Profiles, region : Profiles]

Jobs == [kind : Models!Kinds, step : Models!Steps, id : Accounts \cup {None}, pair : Models!Pairs \cup {Models!NoPair},
         on : BOOLEAN, models : Models!Lists \cup {None}, left : SUBSET Accounts, keep : SUBSET Accounts,
         read : [Accounts -> Models!Pairs \cup {Models!NoPair}]]

\* The steps an account's switch lock is held at.
Locking == {"route", "info", "persist", "pool"}

Tables ==
    /\ saved \in [Accounts -> Entries]
    /\ listed \in [Accounts -> [on : BOOLEAN, pair : Models!Pairs]]
    /\ routing \in [Accounts -> Models!Lists \cup {None}] /\ info \in [Accounts -> Models!Lists \cup {None}]
    /\ offered \subseteq Profiles
    /\ lock \in [Accounts -> Workers \cup {None}]
    /\ job \in [Workers -> Jobs]

\* What a job's step tells of what it carries.
Carries(x) ==
    /\ x.step \in Models!Steps \ {"idle", "next", "prune", "pruned"} => x.id \in Accounts
    /\ x.step \in {"persist", "pool"} => x.kind = "switch"
    /\ x.step \in {"fetch", "gate", "persist"} => x.pair \in Models!Pairs
    /\ x.step = "gate" => x.models \in {x.pair.arn, "empty"}
    /\ x.step \in {"route", "info", "pool"} => x.models \in Models!Lists
    /\ x.step \in {"write", "reload"} /\ x.kind = "edit" => x.pair \in Models!Pairs
    /\ x.step \in {"next", "prune", "pruned"} => x.kind = "sweep"
    /\ x.kind = "sweep" /\ x.step # "pruned" => x.left \subseteq x.keep /\ \A a \in x.keep : x.read[a] \in Models!Pairs

\* Whoever is between taking and releasing the lock of its account holds it, alone.
Held(p) == job[p].step \in Locking => lock[job[p].id] = p

Shape == Tables /\ \A p \in Workers : Carries(job[p]) /\ Held(p)

\* What is on its way to the metadata is what the routing list is, if there is one.
OnItsWay(p) == job[p].step = "info" => routing[job[p].id] \in {None, job[p].models}
Unsettled(a) == \E p \in Workers :
    \/ job[p].id = a /\ job[p].step \in {"info", "unroute"}
    \/ job[p].step = "pruned" /\ a \in job[p].left
Advertised == /\ \A p \in Workers : OnItsWay(p)
              /\ \A a \in Accounts : Unsettled(a) \/ routing[a] \in {None, info[a]}

\* The account is between the save of a new profile and its publication.
Switching(a) == \E p \in Workers : job[p].step = "pool" /\ job[p].id = a

Followed ==
    /\ \A a \in Accounts : saved[a].there /\ ~Switching(a) =>
          /\ listed[a].on => listed[a].pair.arn = saved[a].arn
          /\ routing[a] \in Profiles => routing[a] = saved[a].arn
    /\ \A p \in Workers : job[p].step \in {"route", "info", "pool"} /\ saved[job[p].id].there =>
          (job[p].models \in Profiles => job[p].models = saved[job[p].id].arn)

\* The names the instance gives to nothing and to an empty list are no worker's, account's
\* or profile's.
Apart == /\ None \notin Workers \cup Accounts \cup Profiles \cup {"empty"}
         /\ "empty" \notin Profiles

\* A job's next row, and what becomes of the lock of its account.
Turns(p, x) ==
    /\ x \in Jobs /\ Carries(x) /\ job' = [job EXCEPT ![p] = x]
    /\ \/ lock' = lock /\ (x.step \in Locking => job[p].step \in Locking /\ x.id = job[p].id)
       \/ lock' = [lock EXCEPT ![x.id] = p] /\ x.id \in Accounts /\ lock[x.id] = None
       \/ lock' = [lock EXCEPT ![job[p].id] = None] /\ job[p].step \in Locking /\ x.step \notin Locking

LEMMA IdleRow == Models!Idle \in Jobs /\ Carries(Models!Idle) /\ Models!Idle.step = "idle"
<1>1. [a \in Accounts |-> Models!NoPair] \in [Accounts -> Models!Pairs \cup {Models!NoPair}]  OBVIOUS
<1>2. Models!Idle.step = "idle" /\ Models!Idle.kind = "idle" BY DEF Models!Idle
<1>3. QED  BY <1>1, <1>2 DEF Models!Idle, Jobs, Carries, Models!Kinds, Models!Steps, Locking, Models!Lists

LEMMA TurnKeepsShape ==
    ASSUME Apart, Shape, NEW p \in Workers, NEW x, Turns(p, x),
           saved' \in [Accounts -> Entries],
           listed' \in [Accounts -> [on : BOOLEAN, pair : Models!Pairs]],
           routing' \in [Accounts -> Models!Lists \cup {None}], info' \in [Accounts -> Models!Lists \cup {None}],
           offered' \subseteq Profiles
    PROVE  Shape'
<1>1. lock' \in [Accounts -> Workers \cup {None}] /\ job' \in [Workers -> Jobs]
    BY DEF Shape, Tables, Turns
<1>2. Tables'  BY <1>1 DEF Tables
<1>3. job'[p] = x /\ \A q \in Workers : q # p => job'[q] = job[q]
    BY DEF Turns, Shape, Tables
<1>4. \A q \in Workers : Carries(job'[q])  BY <1>3 DEF Turns, Shape
<1>5. ASSUME NEW q \in Workers PROVE Held(q)'
  <2>0. /\ job[q].step \in Locking => job[q].id \in Accounts
        /\ job[p].step \in Locking => job[p].id \in Accounts
        /\ x.step \in Locking => x.id \in Accounts
        /\ Held(p) /\ Held(q)
        /\ lock \in [Accounts -> Workers \cup {None}]
      BY DEF Shape, Carries, Locking, Turns, Models!Steps, Tables
  <2>1. CASE q = p
      BY <1>3, <2>0, <2>1 DEF Turns, Held
  <2>2. CASE q # p
    <3>1. job'[q] = job[q]  BY <1>3, <2>2
    <3>2. CASE job[q].step \notin Locking  BY <3>1, <3>2 DEF Held
    <3>3. CASE job[q].step \in Locking
      <4>1. lock[job[q].id] = q  BY <3>3, <2>0 DEF Held
      <4>2. q # None  BY DEF Apart
      <4>3. lock'[job[q].id] = q  BY <4>1, <4>2, <2>0, <2>2, <3>3 DEF Turns, Held
      <4>4. QED  BY <4>3, <3>1 DEF Held
    <3>4. QED  BY <3>2, <3>3
  <2>3. QED  BY <2>1, <2>2
<1>6. QED  BY <1>2, <1>4, <1>5 DEF Shape

LEMMA StepTurns == ASSUME Apart, Shape, NEW p \in Workers, Models!Step(p) PROVE \E x : Turns(p, x)
<1> USE DEF Shape, Tables
<1>0. job[p] \in Jobs /\ Carries(job[p]) /\ Held(p)  OBVIOUS
<1>1. \A a \in Accounts : Models!Pair(a) \in Models!Pairs  BY DEF Models!Pair, Models!Pairs, Entries
<1>2. ASSUME NEW a \in Accounts, Models!Refresh(p, a) \/ Models!StartOff(p, a) \/ Models!StartEdit(p, a) PROVE \E x : Turns(p, x)
  <2>1. CASE Models!Refresh(p, a)
    <3> DEFINE x == [Models!Idle EXCEPT !.kind = "fetch", !.step = "fetch", !.id = a, !.pair = Models!Pair(a)]
    <3>1. x \in Jobs /\ Carries(x) /\ x.step = "fetch"
        BY <1>1, IdleRow DEF Jobs, Carries, Models!Kinds, Models!Steps
    <3>2. Turns(p, x)  BY <2>1, <3>1 DEF Models!Refresh, Turns, Locking
    <3>3. QED  BY <3>2
  <2>2. CASE Models!StartOff(p, a)
    <3> DEFINE x == [Models!Idle EXCEPT !.kind = "off", !.step = "write", !.id = a]
    <3>1. x \in Jobs /\ Carries(x) /\ x.step = "write"
        BY <1>1, IdleRow DEF Jobs, Carries, Models!Kinds, Models!Steps
    <3>2. Turns(p, x)  BY <2>2, <3>1 DEF Models!StartOff, Turns, Locking
    <3>3. QED  BY <3>2
  <2>3. CASE Models!StartEdit(p, a)
    <3>0. PICK on \in BOOLEAN : job' = [job EXCEPT ![p] =
               [Models!Idle EXCEPT !.kind = "edit", !.step = "write", !.id = a, !.pair = Models!Pair(a), !.on = on]]
        BY <2>3 DEF Models!StartEdit
    <3> DEFINE x == [Models!Idle EXCEPT !.kind = "edit", !.step = "write", !.id = a, !.pair = Models!Pair(a), !.on = on]
    <3>1. x \in Jobs /\ Carries(x) /\ x.step = "write"
        BY <1>1, IdleRow DEF Jobs, Carries, Models!Kinds, Models!Steps
    <3>2. Turns(p, x)  BY <2>3, <3>0, <3>1 DEF Models!StartEdit, Turns, Locking
    <3>3. QED  BY <3>2
  <2>4. QED  BY <1>2, <2>1, <2>2, <2>3
<1>3. ASSUME NEW a \in Accounts, NEW target \in Profiles, Models!Switch(p, a, target) PROVE \E x : Turns(p, x)
  <2> DEFINE x == [Models!Idle EXCEPT !.kind = "switch", !.step = "persist", !.id = a,
                                              !.pair = [arn |-> target, region |-> target]]
  <2>1. x \in Jobs /\ Carries(x) /\ x.step = "persist" /\ x.id = a
      BY IdleRow DEF Jobs, Carries, Models!Kinds, Models!Steps, Models!Pairs
  <2>2. Turns(p, x)  BY <1>3, <2>1 DEF Models!Switch, Turns, Locking
  <2>3. QED  BY <2>2
<1>4. CASE Models!Fetched(p)
  <2>0. PICK m \in Models!Served(job[p].pair) : job' = [job EXCEPT ![p].models = m, ![p].step = "gate"]
      BY <1>4 DEF Models!Fetched
  <2> DEFINE x == [job[p] EXCEPT !.models = m, !.step = "gate"]
  <2>1. job' = [job EXCEPT ![p] = x] BY <2>0, <1>0
  <2>2. m \in {job[p].pair.arn, "empty"} /\ m \in Models!Lists
      BY <1>0, <1>4 DEF Models!Served, Models!Lists, Carries, Models!Fetched, Models!At, Models!Pairs
  <2>3. x \in Jobs /\ Carries(x) /\ x.step = "gate"
      BY <1>0, <1>4, <2>2 DEF Jobs, Carries, Models!Kinds, Models!Steps, Models!Fetched, Models!At
  <2>4. Turns(p, x)  BY <1>4, <2>1, <2>3 DEF Models!Fetched, Turns, Locking
  <2>5. QED  BY <2>4
<1> DEFINE To(s) == [job[p] EXCEPT !.step = s]
<1>5. ASSUME NEW s, Models!Goto(p, s) PROVE job' = [job EXCEPT ![p] = To(s)]  BY <1>5, <1>0 DEF Models!Goto
<1>6. ASSUME (Models!Continue(p) /\ job[p].step # "pruned") \/ Models!End(p), lock' = lock \/ (job[p].step \in Locking /\ lock' = [lock EXCEPT ![job[p].id] = None])
      PROVE \E x : Turns(p, x)
  <2>1. CASE Models!End(p)  BY <1>6, <2>1, IdleRow DEF Models!End, Turns, Locking
  <2>2. CASE job[p].kind = "sweep" /\ Models!Goto(p, "next") /\ job[p].step # "pruned"
    <3>1. job' = [job EXCEPT ![p] = To("next")]  BY <2>2, <1>5
    <3>2. To("next") \in Jobs /\ Carries(To("next")) /\ To("next").step = "next"
        BY <1>0, <2>2 DEF Jobs, Carries, Models!Steps
    <3>3. Turns(p, To("next"))  BY <1>6, <3>1, <3>2 DEF Turns, Locking
    <3>4. QED  BY <3>3
  <2>3. QED  BY <1>6, <2>1, <2>2 DEF Models!Continue
<1>7. CASE Models!FetchFails(p)
  <2>1. CASE Models!Continue(p)  BY <2>1, <1>6, <1>7 DEF Models!FetchFails, Models!At
  <2>2. CASE job[p].kind = "sweep" /\ Models!Goto(p, "write")
    <3>1. job' = [job EXCEPT ![p] = To("write")]  BY <2>2, <1>5
    <3>2. To("write") \in Jobs /\ Carries(To("write")) /\ To("write").step = "write"
        BY <1>0, <1>7, <2>2 DEF Jobs, Carries, Models!Steps, Models!FetchFails, Models!At
    <3>3. Turns(p, To("write"))  BY <1>7, <3>1, <3>2 DEF Turns, Locking, Models!FetchFails
    <3>4. QED  BY <3>3
  <2>3. QED  BY <1>7, <2>1, <2>2 DEF Models!FetchFails
<1>8. CASE Models!Gate(p)
  <2>1. CASE ~Models!Current(job[p].id, job[p].pair)  BY <2>1, <1>6, <1>8 DEF Models!Gate, Models!At
  <2>2. CASE Models!Current(job[p].id, job[p].pair)
    <3>1. job' = [job EXCEPT ![p] = To("route")]  BY <1>8, <2>2, <1>5 DEF Models!Gate
    <3>2. job[p].models \in Models!Lists
        BY <1>0, <1>8 DEF Models!Gate, Models!At, Carries, Models!Lists, Models!Pairs
    <3>3. job[p].id \in Accounts  BY <1>0, <1>8 DEF Models!Gate, Models!At, Carries, Models!Steps
    <3>4. To("route") \in Jobs /\ Carries(To("route")) /\ To("route").id = job[p].id
        BY <1>0, <1>8, <3>2, <3>3 DEF Jobs, Carries, Models!Steps, Models!Gate, Models!At
    <3>5. Turns(p, To("route"))  BY <1>8, <2>2, <3>1, <3>3, <3>4 DEF Turns, Models!Gate, Models!GateLock
    <3>6. QED  BY <3>5
  <2>3. QED  BY <2>1, <2>2
<1>9. CASE Models!Route(p) \/ Models!PublishProfileSwitch(p)
  <2>1. job' = [job EXCEPT ![p] = To("info")] /\ lock' = lock
      BY <1>9, <1>5 DEF Models!Route, Models!PublishProfileSwitch
  <2>2. job[p].step \in Locking /\ To("info").id = job[p].id
      BY <1>0, <1>9 DEF Models!Route, Models!PublishProfileSwitch, Models!At, Locking, Jobs
  <2>3. To("info") \in Jobs /\ Carries(To("info"))
      BY <1>0, <1>9 DEF Models!Route, Models!PublishProfileSwitch, Models!At, Carries, Jobs, Models!Steps
  <2>4. Turns(p, To("info"))  BY <2>1, <2>2, <2>3 DEF Turns
  <2>5. QED  BY <2>4
<1>10. CASE Models!Publish(p) \/ Models!SwitchRefused(p)
  BY <1>6, <1>10 DEF Models!Publish, Models!SwitchRefused, Models!At, Locking, Models!Unlock
<1>11. CASE Models!StartSweep(p)
  <2> DEFINE x == [Models!Idle EXCEPT !.kind = "sweep", !.step = "next",
         !.left = Models!Enabled, !.keep = Models!Enabled, !.read = [a \in Accounts |-> Models!Pair(a)]]
  <2>1. x \in Jobs /\ Carries(x) /\ x.step = "next"
    <3>1. Models!Enabled \subseteq Accounts  BY DEF Models!Enabled
    <3>2. [a \in Accounts |-> Models!Pair(a)] \in [Accounts -> Models!Pairs]  BY <1>1
    <3>3. QED  BY <3>1, <3>2, IdleRow DEF Jobs, Carries, Models!Kinds, Models!Steps
  <2>2. Turns(p, x)  BY <1>11, <2>1 DEF Models!StartSweep, Turns, Locking
  <2>3. QED  BY <2>2
<1>12. CASE Models!SweepNext(p)
  <2>1. CASE job[p].left = {}
    <3>1. job' = [job EXCEPT ![p] = To("prune")]  BY <1>12, <2>1, <1>5 DEF Models!SweepNext
    <3>2. To("prune") \in Jobs /\ Carries(To("prune")) /\ To("prune").step = "prune"
        BY <1>0, <1>12 DEF Jobs, Carries, Models!Steps, Models!SweepNext, Models!At
    <3>3. Turns(p, To("prune"))  BY <1>12, <3>1, <3>2 DEF Turns, Locking, Models!SweepNext
    <3>4. QED  BY <3>3
  <2>2. CASE job[p].left # {}
    <3>0. PICK a \in job[p].left :
              job' = [job EXCEPT ![p].step = "fetch", ![p].id = a, ![p].pair = job[p].read[a],
                                 ![p].left = @ \ {a}]
        BY <1>12, <2>2 DEF Models!SweepNext
    <3> DEFINE x == [job[p] EXCEPT !.step = "fetch", !.id = a, !.pair = job[p].read[a], !.left = @ \ {a}]
    <3>1. job' = [job EXCEPT ![p] = x]  BY <3>0, <1>0
    <3>2. x \in Jobs /\ Carries(x) /\ x.step = "fetch"
        BY <1>0, <1>12 DEF Jobs, Carries, Models!Steps, Models!SweepNext, Models!At
    <3>3. Turns(p, x)  BY <1>12, <3>1, <3>2 DEF Turns, Locking, Models!SweepNext
    <3>4. QED  BY <3>3
  <2>3. QED  BY <2>1, <2>2
<1>13. CASE Models!Prune(p)
  <2> DEFINE dropped == {a \in Accounts \ job[p].keep : info[a] # None}
             x == [job[p] EXCEPT !.step = "pruned", !.left = dropped]
  <2>1. job' = [job EXCEPT ![p] = x]  BY <1>13, <1>0 DEF Models!Prune
  <2>2. x \in Jobs /\ Carries(x) /\ x.step = "pruned"
    <3>1. dropped \subseteq Accounts /\ job[p].kind = "sweep"
        BY <1>0, <1>13 DEF Models!Prune, Models!At, Carries
    <3> HIDE DEF dropped
    <3>2. QED  BY <1>0, <3>1 DEF Jobs, Carries, Models!Steps
  <2>3. Turns(p, x)  BY <1>13, <2>1, <2>2 DEF Turns, Locking, Models!Prune
  <2>4. QED  BY <2>3
<1>14. CASE Models!Unroute(p)
  <2>1. CASE job[p].left = {}  BY <1>14, <2>1, <1>6 DEF Models!Unroute
  <2>2. CASE job[p].left # {}
    <3>0. PICK a \in job[p].left : job' = [job EXCEPT ![p].left = @ \ {a}]
        BY <1>14, <2>2 DEF Models!Unroute
    <3> DEFINE x == [job[p] EXCEPT !.left = @ \ {a}]
    <3>1. job' = [job EXCEPT ![p] = x]  BY <3>0, <1>0
    <3>2. x \in Jobs /\ Carries(x) /\ x.step = "pruned"
        BY <1>0, <1>14 DEF Jobs, Carries, Models!Steps, Models!Unroute, Models!At
    <3>3. Turns(p, x)  BY <1>14, <3>1, <3>2 DEF Turns, Locking, Models!Unroute
    <3>4. QED  BY <3>3
  <2>3. QED  BY <2>1, <2>2
<1>15. CASE Models!Persist(p)
  <2>1. CASE Models!End(p) /\ Models!Unlock(job[p].id)
      BY <1>6, <1>15, <2>1 DEF Models!Persist, Models!At, Locking, Models!Unlock
  <2>2. CASE job' = [job EXCEPT ![p].step = "pool", ![p].models = job[p].pair.arn] /\ UNCHANGED lock
    <3> DEFINE x == [job[p] EXCEPT !.step = "pool", !.models = job[p].pair.arn]
    <3>1. job' = [job EXCEPT ![p] = x]  BY <2>2, <1>0
    <3>2. job[p].pair.arn \in Models!Lists /\ job[p].step = "persist" /\ job[p].kind = "switch"
        BY <1>0, <1>15 DEF Models!Persist, Models!At, Carries, Models!Pairs, Models!Lists, Models!Steps
    <3>3. x \in Jobs /\ Carries(x) /\ x.step = "pool" /\ x.id = job[p].id
        BY <1>0, <3>2 DEF Jobs, Carries, Models!Steps
    <3>4. Turns(p, x)  BY <2>2, <3>1, <3>2, <3>3 DEF Turns, Locking
    <3>5. QED  BY <3>4
  <2>3. QED  BY <1>15, <2>1, <2>2 DEF Models!Persist
<1>16. ASSUME NEW s \in {"reload", "unroute", "drop"}, Models!Goto(p, s), lock' = lock,
              job[p].step \in {"write", "reload", "drop"}, s = "reload" => job[p].step = "write"
       PROVE  \E x : Turns(p, x)
  <2>1. job' = [job EXCEPT ![p] = To(s)]  BY <1>16, <1>5
  <2>2. To(s) \in Jobs /\ Carries(To(s)) /\ To(s).step = s
      BY <1>0, <1>16 DEF Jobs, Carries, Models!Steps
  <2>3. Turns(p, To(s))  BY <1>16, <2>1, <2>2 DEF Turns, Locking
  <2>4. QED  BY <2>3
<1>17. CASE Models!SwitchOff(p) \/ Models!DropInfo(p) \/ Models!WriteEdit(p)
  BY <1>16, <1>17 DEF Models!SwitchOff, Models!DropInfo, Models!WriteEdit, Models!At
<1>18. CASE Models!DropRoute(p)  BY <1>6, <1>18 DEF Models!DropRoute, Models!At
<1>19. CASE Models!Reload(p)
  <2>1. CASE Models!Goto(p, "drop")  BY <1>16, <1>19, <2>1 DEF Models!Reload, Models!At
  <2>2. CASE job[p].kind = "edit" /\ job[p].on
    <3> DEFINE x == [job[p] EXCEPT !.kind = "fetch", !.step = "fetch"]
    <3>1. job' = [job EXCEPT ![p] = x]  BY <1>19, <2>2, <1>0 DEF Models!Reload
    <3>2. x \in Jobs /\ Carries(x) /\ x.step = "fetch"
        BY <1>0, <1>19, <2>2 DEF Jobs, Carries, Models!Kinds, Models!Steps, Models!Reload, Models!At
    <3>3. Turns(p, x)  BY <1>19, <3>1, <3>2 DEF Turns, Locking, Models!Reload
    <3>4. QED  BY <3>3
  <2>3. CASE Models!End(p)  BY <1>6, <1>19, <2>3 DEF Models!Reload
  <2>4. QED  BY <1>19, <2>1, <2>2, <2>3 DEF Models!Reload
<1>20. QED
  BY <1>2, <1>3, <1>4, <1>7, <1>8, <1>9, <1>10, <1>11, <1>12, <1>13, <1>14, <1>15, <1>17, <1>18, <1>19
     DEF Models!Step

\* The typing of the tables alone.
TablesTyped ==
    /\ saved \in [Accounts -> Entries]
    /\ listed \in [Accounts -> [on : BOOLEAN, pair : Models!Pairs]]
    /\ routing \in [Accounts -> Models!Lists \cup {None}] /\ info \in [Accounts -> Models!Lists \cup {None}]
    /\ offered \subseteq Profiles

\* One entry of the configuration is replaced by another of its kind.
LEMMA EntryTyped ==
    ASSUME saved \in [Accounts -> Entries], NEW a,
           saved' = saved \/ \E x \in Entries : saved' = [saved EXCEPT ![a] = x]
    PROVE  saved' \in [Accounts -> Entries]
OBVIOUS

LEMMA ReloadedTyped ==
    ASSUME TablesTyped, Models!Reloaded PROVE listed' \in [Accounts -> [on : BOOLEAN, pair : Models!Pairs]]
<1>1. \A a \in Accounts : Models!Pair(a) \in Models!Pairs
    BY DEF Models!Pair, Models!Pairs, TablesTyped, Entries
<1>2. \A a \in Accounts : [on |-> a \in Models!Enabled, pair |-> Models!Pair(a)] \in [on : BOOLEAN, pair : Models!Pairs]
    BY <1>1
<1>3. QED  BY <1>2 DEF Models!Reloaded

LEMMA InformTyped ==
    ASSUME TablesTyped, NEW a, NEW models \in Models!Lists \cup {None}, Models!Inform(a, models)
    PROVE  info' \in [Accounts -> Models!Lists \cup {None}] /\ offered' \subseteq Profiles
BY DEF TablesTyped, Models!Inform, Models!Aggregate

LEMMA StepTyped == ASSUME Shape, NEW p \in Workers, Models!Step(p) PROVE TablesTyped'
<1>0. TablesTyped /\ job[p] \in Jobs /\ Carries(job[p])  BY DEF Shape, Tables, TablesTyped
<1>1. CASE UNCHANGED Models!tables  BY <1>0, <1>1 DEF TablesTyped, Models!tables
<1>2. CASE Models!Route(p)
  <2>1. job[p].models \in Models!Lists  BY <1>0, <1>2 DEF Models!Route, Models!At, Carries
  <2>2. QED  BY <1>0, <1>2, <2>1 DEF Models!Route, TablesTyped
<1>3. CASE Models!Publish(p)
  <2>1. job[p].models \in Models!Lists  BY <1>0, <1>3 DEF Models!Publish, Models!At, Carries
  <2>2. info' \in [Accounts -> Models!Lists \cup {None}] /\ offered' \subseteq Profiles
      BY <1>0, <1>3, <2>1, InformTyped DEF Models!Publish
  <2>3. QED  BY <1>0, <1>3, <2>2 DEF Models!Publish, TablesTyped
<1>4. CASE Models!DropInfo(p)
  <2>2. info' \in [Accounts -> Models!Lists \cup {None}] /\ offered' \subseteq Profiles
      BY <1>0, <1>4, InformTyped DEF Models!DropInfo
  <2>3. QED  BY <1>0, <1>4, <2>2 DEF Models!DropInfo, TablesTyped
<1>5. CASE Models!Prune(p)  BY <1>0, <1>5 DEF Models!Prune, TablesTyped, Models!Aggregate
<1>6. CASE Models!Unroute(p)
  <2>1. routing' \in [Accounts -> Models!Lists \cup {None}]  BY <1>0, <1>6 DEF Models!Unroute, TablesTyped
  <2>2. QED  BY <1>0, <1>6, <2>1 DEF Models!Unroute, TablesTyped
<1>7. CASE Models!DropRoute(p)  BY <1>0, <1>7 DEF Models!DropRoute, TablesTyped
<1>8. CASE Models!Persist(p)
  <2>1. job[p].pair \in Models!Pairs  BY <1>0, <1>8 DEF Models!Persist, Models!At, Carries
  <2>2. saved' \in [Accounts -> Entries]
    <3> DEFINE a == job[p].id
               x == [saved[a] EXCEPT !.arn = job[p].pair.arn, !.region = job[p].pair.region]
    <3>1. a \in Accounts /\ saved \in [Accounts -> Entries]
        BY <1>0, <1>8 DEF Models!Persist, Models!At, Carries, Models!Steps, TablesTyped, Entries
    <3>2. x \in Entries  BY <2>1, <3>1 DEF Entries, Models!Pairs
    <3>3. saved' = saved \/ saved' = [saved EXCEPT ![a] = x]
        BY <1>8, <3>1 DEF Models!Persist
    <3>4. saved' \in [Accounts -> Entries]
      <4> HIDE DEF x, a
      <4> QED  BY <3>1, <3>2, <3>3, EntryTyped
    <3>5. QED  BY <3>4
  <2>3. QED  BY <1>0, <1>8, <2>2 DEF Models!Persist, TablesTyped
<1>9. CASE Models!PublishProfileSwitch(p)
  <2>1. job[p].models \in Models!Lists  BY <1>0, <1>9 DEF Models!PublishProfileSwitch, Models!At, Carries
  <2>2. listed' \in [Accounts -> [on : BOOLEAN, pair : Models!Pairs]]
      BY <1>0, <1>9, ReloadedTyped DEF Models!PublishProfileSwitch
  <2>3. routing' \in [Accounts -> Models!Lists \cup {None}]
      BY <1>0, <1>9, <2>1 DEF Models!PublishProfileSwitch, TablesTyped
  <2>4. QED  BY <1>0, <1>9, <2>2, <2>3 DEF Models!PublishProfileSwitch, TablesTyped
<1>10. CASE Models!SwitchOff(p)
  <2>1. saved' \in [Accounts -> Entries]
    <3> DEFINE a == job[p].id
               x == [saved[a] EXCEPT !.on = FALSE]
               y == [saved[a] EXCEPT !.there = FALSE, !.on = FALSE]
    <3>1. a \in Accounts /\ saved \in [Accounts -> Entries]
        BY <1>0, <1>10 DEF Models!SwitchOff, Models!At, Carries, Models!Steps, TablesTyped, Entries
    <3>2. x \in Entries /\ y \in Entries  BY <3>1 DEF Entries
    <3>3. saved' = [saved EXCEPT ![a] = x] \/ saved' = [saved EXCEPT ![a] = y]
        BY <1>10, <3>1 DEF Models!SwitchOff
    <3>4. saved' \in [Accounts -> Entries]
      <4> HIDE DEF x, y, a
      <4> QED  BY <3>1, <3>2, <3>3, EntryTyped
    <3>5. QED  BY <3>4
  <2>2. QED  BY <1>0, <1>10, <2>1 DEF Models!SwitchOff, TablesTyped
<1>11. CASE Models!WriteEdit(p)
  <2>1. job[p].pair \in Models!Pairs /\ job[p].on \in BOOLEAN
      BY <1>0, <1>11 DEF Models!WriteEdit, Models!At, Carries, Jobs
  <2>2. saved' \in [Accounts -> Entries]
    <3>1. job[p].pair.region \in Profiles  BY <2>1 DEF Models!Pairs
    <3> DEFINE a == job[p].id
               x == [saved[a] EXCEPT !.on = job[p].on, !.region = job[p].pair.region]
    <3>2. a \in Accounts /\ saved \in [Accounts -> Entries]
        BY <1>0, <1>11 DEF Models!WriteEdit, Models!At, Carries, Models!Steps, TablesTyped, Entries
    <3>3. x \in Entries  BY <2>1, <3>1, <3>2 DEF Entries
    <3>4. saved' = saved \/ saved' = [saved EXCEPT ![a] = x]
        BY <1>11, <3>2 DEF Models!WriteEdit
    <3>5. saved' \in [Accounts -> Entries]
      <4> HIDE DEF x, a
      <4> QED  BY <3>2, <3>3, <3>4, EntryTyped
    <3>6. QED  BY <3>5
  <2>3. QED  BY <1>0, <1>11, <2>2 DEF Models!WriteEdit, TablesTyped
<1>12. CASE Models!Reload(p)
  <2>1. listed' \in [Accounts -> [on : BOOLEAN, pair : Models!Pairs]]
      BY <1>0, <1>12, ReloadedTyped DEF Models!Reload
  <2>2. QED  BY <1>0, <1>12, <2>1 DEF Models!Reload, TablesTyped
<1>13. QED
  <2>1. \A a \in Accounts : Models!Refresh(p, a) \/ Models!StartOff(p, a) \/ Models!StartEdit(p, a) => UNCHANGED Models!tables
      BY DEF Models!Refresh, Models!StartOff, Models!StartEdit
  <2>2. \A a \in Accounts, t \in Profiles : Models!Switch(p, a, t) => UNCHANGED Models!tables
      BY DEF Models!Switch
  <2>3. Models!Fetched(p) \/ Models!FetchFails(p) \/ Models!Gate(p) \/ Models!StartSweep(p) \/ Models!SweepNext(p) \/ Models!SwitchRefused(p)
        => UNCHANGED Models!tables
      BY DEF Models!Fetched, Models!FetchFails, Models!Gate, Models!StartSweep, Models!SweepNext,
         Models!SwitchRefused
  <2>4. QED
      BY <1>1, <1>2, <1>3, <1>4, <1>5, <1>6, <1>7, <1>8, <1>9, <1>10, <1>11, <1>12, <2>1, <2>2, <2>3
         DEF Models!Step

LEMMA InitShape == Models!Init => Shape
<1> SUFFICES ASSUME Models!Init PROVE Shape  OBVIOUS
<1>1. PICK q \in Profiles : saved = [a \in Accounts |-> [there |-> TRUE, on |-> TRUE, arn |-> q, region |-> q]]
    BY DEF Models!Init
<1>2. \A a \in Accounts : Models!Pair(a) \in Models!Pairs  BY <1>1 DEF Models!Pair, Models!Pairs
<1>3. saved \in [Accounts -> Entries]
    BY <1>1 DEF Entries
<1>4. listed \in [Accounts -> [on : BOOLEAN, pair : Models!Pairs]]  BY <1>2 DEF Models!Init
<1>5. \A p \in Workers : job[p] = Models!Idle  BY DEF Models!Init
<1>6. job \in [Workers -> Jobs]  BY IdleRow DEF Models!Init
<1>7. Tables  BY <1>3, <1>4, <1>6 DEF Models!Init, Tables
<1>8. QED  BY <1>5, <1>7, IdleRow DEF Shape, Held, Locking

LEMMA NextShape == Apart /\ Shape /\ [Models!Next]_(Models!vars) => Shape'
<1> SUFFICES ASSUME Apart, Shape, [Models!Next]_(Models!vars) PROVE Shape'  OBVIOUS
<1>1. CASE UNCHANGED Models!vars
  <2>1. /\ UNCHANGED saved /\ UNCHANGED listed /\ UNCHANGED routing /\ UNCHANGED info
        /\ UNCHANGED offered /\ UNCHANGED lock /\ UNCHANGED job
      BY <1>1 DEF Models!vars, Models!tables
  <2>2. QED  BY <2>1 DEF Shape, Tables, Carries, Held
<1>2. CASE Models!OtherReload
  <2>1. listed' \in [Accounts -> [on : BOOLEAN, pair : Models!Pairs]]
      BY <1>2, ReloadedTyped DEF Models!OtherReload, Shape, Tables, TablesTyped
  <2>2. QED  BY <1>2, <2>1 DEF Models!OtherReload, Shape, Tables, Held
<1>3. ASSUME NEW p \in Workers, Models!Step(p) PROVE Shape'
  <2>1. PICK x : Turns(p, x)  BY <1>3, StepTurns
  <2>2. TablesTyped'  BY <1>3, StepTyped
  <2>3. QED  BY <2>1, <2>2, TurnKeepsShape DEF TablesTyped
<1>4. QED  BY <1>1, <1>2, <1>3 DEF Models!Next

LEMMA ShapeAlways == ASSUME Apart PROVE Models!Spec => []Shape
BY InitShape, NextShape, PTL DEF Models!Spec

\* What a step does to the routing lists and the metadata, and where its worker stands.
Routes(p) == /\ job[p].step \in {"route", "pool"} /\ job' = [job EXCEPT ![p].step = "info"]
             /\ routing' = [routing EXCEPT ![job[p].id] = job[p].models]
             /\ UNCHANGED <<info, lock>>
Elsewhere(p) == /\ job[p].step \notin {"info", "unroute", "pruned"} /\ job'[p].step # "info"
                /\ UNCHANGED <<routing, info>>

LEMMA StepMoves ==
    ASSUME Apart, Shape, NEW p \in Workers, Models!Step(p)
    PROVE  \/ Routes(p) \/ Models!Publish(p) \/ Models!DropInfo(p) \/ Models!DropRoute(p) \/ Models!Prune(p) \/ Models!Unroute(p)
           \/ Elsewhere(p)
<1>0. job \in [Workers -> Jobs] /\ Models!Idle.step = "idle"  BY IdleRow DEF Shape, Tables
<1>1. \A a \in Accounts : Models!Refresh(p, a) => Elsewhere(p)
    BY <1>0, IdleRow DEF Models!Refresh, Elsewhere, Models!At, Models!tables, Jobs
<1>2. \A a \in Accounts : Models!StartOff(p, a) => Elsewhere(p)
    BY <1>0, IdleRow DEF Models!StartOff, Elsewhere, Models!At, Models!tables, Jobs
<1>3. \A a \in Accounts : Models!StartEdit(p, a) => Elsewhere(p)
    BY <1>0, IdleRow DEF Models!StartEdit, Elsewhere, Models!At, Models!tables, Jobs
<1>4. \A a \in Accounts, t \in Profiles : Models!Switch(p, a, t) => Elsewhere(p)
    BY <1>0, IdleRow DEF Models!Switch, Elsewhere, Models!At, Models!tables, Jobs
<1>5. Models!Fetched(p) \/ Models!SwitchRefused(p) \/ Models!Persist(p) => Elsewhere(p)
    BY <1>0 DEF Models!Fetched, Models!SwitchRefused, Models!Persist, Elsewhere, Models!At, Models!End,
       Models!tables, Jobs
<1>6. Models!FetchFails(p) \/ Models!Gate(p) => Elsewhere(p)
    BY <1>0 DEF Models!FetchFails, Models!Gate, Models!Continue, Models!Goto, Models!End, Elsewhere,
       Models!At, Models!tables, Jobs
<1>7. Models!StartSweep(p) => Elsewhere(p)
    BY <1>0, IdleRow DEF Models!StartSweep, Elsewhere, Models!At, Models!tables, Jobs
<1>8. Models!SweepNext(p) => Elsewhere(p)
  <2> SUFFICES ASSUME Models!SweepNext(p) PROVE Elsewhere(p)  OBVIOUS
  <2>1. job[p].step = "next" /\ UNCHANGED <<routing, info>>
      BY DEF Models!SweepNext, Models!At, Models!tables
  <2>2. job'[p].step \in {"prune", "fetch"}
    <3>1. CASE Models!Goto(p, "prune")  BY <1>0, <3>1 DEF Models!Goto, Jobs
    <3>2. CASE \E a \in job[p].left :
              job' = [job EXCEPT ![p].step = "fetch", ![p].id = a, ![p].pair = job[p].read[a],
                                 ![p].left = @ \ {a}]
      <4>1. PICK a \in job[p].left :
              job' = [job EXCEPT ![p] = [job[p] EXCEPT !.step = "fetch", !.id = a, !.pair = job[p].read[a],
                                 !.left = @ \ {a}]]
          BY <1>0, <3>2
      <4>2. QED  BY <1>0, <4>1 DEF Jobs
    <3>3. QED  BY <3>1, <3>2 DEF Models!SweepNext
  <2>3. QED  BY <2>1, <2>2 DEF Elsewhere
<1>9. Models!SwitchOff(p) \/ Models!WriteEdit(p) => Elsewhere(p)
    BY <1>0 DEF Models!SwitchOff, Models!WriteEdit, Models!Goto, Elsewhere, Models!At, Models!tables, Jobs
<1>10. Models!Reload(p) => Elsewhere(p)
    BY <1>0 DEF Models!Reload, Models!Goto, Models!End, Elsewhere, Models!At, Models!tables, Jobs
<1>11. Models!Route(p) \/ Models!PublishProfileSwitch(p) => Routes(p)
    BY DEF Models!Route, Models!PublishProfileSwitch, Routes, Models!At, Models!Goto
<1>12. QED
    BY <1>1, <1>2, <1>3, <1>4, <1>5, <1>6, <1>7, <1>8, <1>9, <1>10, <1>11 DEF Models!Step

LEMMA StepAdvertised ==
    ASSUME Apart, Shape, Advertised, NEW p \in Workers, Models!Step(p) PROVE Advertised'
<1>0. /\ job \in [Workers -> Jobs] /\ routing \in [Accounts -> Models!Lists \cup {None}]
      /\ info \in [Accounts -> Models!Lists \cup {None}] /\ Models!Idle.step = "idle"
      /\ \A q \in Workers : Carries(job[q]) /\ Held(q)
    BY IdleRow DEF Shape, Tables
<1>1. \A q \in Workers : q # p => job'[q] = job[q]
    BY StepTurns, <1>0 DEF Turns
<1>2. CASE Routes(p)
  <2>1. /\ job[p].id \in Accounts /\ lock[job[p].id] = p
        /\ job'[p].step = "info" /\ job'[p].id = job[p].id /\ job'[p].models = job[p].models
      BY <1>0, <1>2 DEF Routes, Carries, Held, Locking, Models!Steps, Jobs
  <2>2. ASSUME NEW q \in Workers PROVE OnItsWay(q)'
    <3>1. CASE q = p  BY <1>0, <1>2, <2>1, <3>1 DEF OnItsWay, Routes
    <3>2. CASE q # p
      <4>1. job[q].step = "info" => job[q].id # job[p].id
          BY <1>0, <2>1, <3>2 DEF Held, Locking
      <4>2. QED  BY <1>0, <1>1, <1>2, <3>2, <4>1 DEF OnItsWay, Routes, Advertised
    <3>3. QED  BY <3>1, <3>2
  <2>3. ASSUME NEW a \in Accounts PROVE Unsettled(a)' \/ routing'[a] \in {None, info'[a]}
    <3>1. CASE a = job[p].id  BY <2>1, <3>1 DEF Unsettled
    <3>2. CASE a # job[p].id
      <4>1. routing'[a] = routing[a] /\ info'[a] = info[a]  BY <1>0, <1>2, <3>2 DEF Routes
      <4>2. Unsettled(a) => Unsettled(a)'  BY <1>1, <1>2, <3>2 DEF Unsettled, Routes
      <4>3. QED  BY <4>1, <4>2 DEF Advertised
    <3>3. QED  BY <3>1, <3>2
  <2>4. QED  BY <2>2, <2>3 DEF Advertised
<1>3. CASE Models!Publish(p)
  <2>1. /\ job[p].step = "info" /\ routing' = routing /\ job[p].id \in Accounts
        /\ info' = [info EXCEPT ![job[p].id] = job[p].models] /\ job'[p].step \in {"idle", "next"}
      BY <1>0, <1>3 DEF Models!Publish, Models!At, Models!Inform, Models!Continue, Models!Goto, Models!End,
         Carries, Models!Steps, Jobs
  <2>2. ASSUME NEW q \in Workers PROVE OnItsWay(q)'
      BY <1>1, <2>1 DEF OnItsWay, Advertised
  <2>3. ASSUME NEW a \in Accounts PROVE Unsettled(a)' \/ routing'[a] \in {None, info'[a]}
    <3>1. CASE a = job[p].id
      <4>1. info'[a] = job[p].models /\ routing[a] \in {None, job[p].models}
          BY <1>0, <2>1, <3>1 DEF Advertised, OnItsWay
      <4>2. QED  BY <2>1, <4>1
    <3>2. CASE a # job[p].id
      <4>1. info'[a] = info[a]  BY <1>0, <2>1, <3>2
      <4>2. Unsettled(a) => Unsettled(a)'  BY <1>1, <2>1, <3>2 DEF Unsettled
      <4>3. QED  BY <2>1, <4>1, <4>2 DEF Advertised
    <3>3. QED  BY <3>1, <3>2
  <2>4. QED  BY <2>2, <2>3 DEF Advertised
<1>4. CASE Models!DropInfo(p)
  <2>1. /\ job[p].step = "drop" /\ routing' = routing /\ job[p].id \in Accounts
        /\ info' = [info EXCEPT ![job[p].id] = None]
        /\ job'[p].step = "unroute" /\ job'[p].id = job[p].id
      BY <1>0, <1>4 DEF Models!DropInfo, Models!At, Models!Inform, Models!Goto, Carries, Models!Steps, Jobs
  <2>2. ASSUME NEW q \in Workers PROVE OnItsWay(q)'
      BY <1>1, <2>1 DEF OnItsWay, Advertised
  <2>3. ASSUME NEW a \in Accounts PROVE Unsettled(a)' \/ routing'[a] \in {None, info'[a]}
    <3>1. CASE a = job[p].id  BY <2>1, <3>1 DEF Unsettled
    <3>2. CASE a # job[p].id
      <4>1. info'[a] = info[a]  BY <1>0, <2>1, <3>2
      <4>2. Unsettled(a) => Unsettled(a)'  BY <1>1, <2>1, <3>2 DEF Unsettled
      <4>3. QED  BY <2>1, <4>1, <4>2 DEF Advertised
    <3>3. QED  BY <3>1, <3>2
  <2>4. QED  BY <2>2, <2>3 DEF Advertised
<1>5. CASE Models!DropRoute(p)
  <2>1. /\ job[p].step = "unroute" /\ info' = info /\ job[p].id \in Accounts
        /\ routing' = [routing EXCEPT ![job[p].id] = None] /\ job'[p].step \in {"idle", "next"}
      BY <1>0, <1>5 DEF Models!DropRoute, Models!At, Models!Continue, Models!Goto, Models!End, Carries,
         Models!Steps, Jobs
  <2>2. ASSUME NEW q \in Workers PROVE OnItsWay(q)'
      BY <1>0, <1>1, <2>1 DEF OnItsWay, Advertised, Carries, Models!Steps
  <2>3. ASSUME NEW a \in Accounts PROVE Unsettled(a)' \/ routing'[a] \in {None, info'[a]}
    <3>1. CASE a = job[p].id  BY <1>0, <2>1, <3>1
    <3>2. CASE a # job[p].id
      <4>1. routing'[a] = routing[a]  BY <1>0, <2>1, <3>2
      <4>2. Unsettled(a) => Unsettled(a)'  BY <1>1, <2>1, <3>2 DEF Unsettled
      <4>3. QED  BY <2>1, <4>1, <4>2 DEF Advertised
    <3>3. QED  BY <3>1, <3>2
  <2>4. QED  BY <2>2, <2>3 DEF Advertised
<1>6. CASE Models!Prune(p)
  <2> DEFINE dropped == {a \in Accounts \ job[p].keep : info[a] # None}
  <2>1. /\ job[p].step = "prune" /\ routing' = routing
        /\ \A a \in Accounts : a \notin dropped => info'[a] = info[a]
        /\ job'[p].step = "pruned" /\ job'[p].left = dropped
      BY <1>0, <1>6 DEF Models!Prune, Models!At, Jobs
  <2>2. ASSUME NEW q \in Workers PROVE OnItsWay(q)'
      BY <1>1, <2>1 DEF OnItsWay, Advertised
  <2>3. ASSUME NEW a \in Accounts PROVE Unsettled(a)' \/ routing'[a] \in {None, info'[a]}
    <3> HIDE DEF dropped
    <3>1. CASE a \in dropped  BY <2>1, <3>1 DEF Unsettled
    <3>2. CASE a \notin dropped
      <4>1. Unsettled(a) => Unsettled(a)'  BY <1>1, <2>1, <3>2 DEF Unsettled
      <4>2. QED  BY <2>1, <3>2, <4>1 DEF Advertised
    <3>3. QED  BY <3>1, <3>2
  <2>4. QED  BY <2>2, <2>3 DEF Advertised
<1>7. CASE Models!Unroute(p)
  <2>1. CASE job[p].left = {}
    <3>1. job[p].step = "pruned" /\ job'[p].step = "idle" /\ routing' = routing /\ info' = info
        BY <1>0, <1>7, <2>1 DEF Models!Unroute, Models!At, Models!End
    <3>2. ASSUME NEW q \in Workers PROVE OnItsWay(q)'
        BY <1>1, <3>1 DEF OnItsWay, Advertised
    <3>3. ASSUME NEW a \in Accounts PROVE Unsettled(a) => Unsettled(a)'
        BY <1>1, <2>1, <3>1 DEF Unsettled
    <3>4. QED  BY <3>1, <3>2, <3>3 DEF Advertised
  <2>2. CASE job[p].left # {}
    <3>0. PICK b \in job[p].left :
              /\ job' = [job EXCEPT ![p].left = @ \ {b}]
              /\ routing' = [routing EXCEPT ![b] = None]
        BY <1>7, <2>2 DEF Models!Unroute
    <3>1. /\ job[p].step = "pruned" /\ job'[p].step = "pruned" /\ job'[p].left = job[p].left \ {b}
          /\ b \in Accounts /\ info' = info
        BY <1>0, <1>7, <3>0 DEF Models!Unroute, Models!At, Jobs
    <3>2. ASSUME NEW q \in Workers PROVE OnItsWay(q)'
        BY <1>0, <1>1, <3>0, <3>1 DEF OnItsWay, Advertised, Carries, Models!Steps
    <3>3. ASSUME NEW a \in Accounts PROVE Unsettled(a)' \/ routing'[a] \in {None, info'[a]}
      <4>1. CASE a = b  BY <1>0, <3>0, <4>1
      <4>2. CASE a # b
        <5>1. routing'[a] = routing[a]  BY <1>0, <3>0, <4>2
        <5>2. Unsettled(a) => Unsettled(a)'  BY <1>1, <3>1, <4>2 DEF Unsettled
        <5>3. QED  BY <3>1, <5>1, <5>2 DEF Advertised
      <4>3. QED  BY <4>1, <4>2
    <3>4. QED  BY <3>2, <3>3 DEF Advertised
  <2>3. QED  BY <2>1, <2>2
<1>8. CASE Elsewhere(p)
  <2>1. ASSUME NEW q \in Workers PROVE OnItsWay(q)'
      BY <1>1, <1>8 DEF OnItsWay, Advertised, Elsewhere
  <2>2. ASSUME NEW a \in Accounts PROVE Unsettled(a) => Unsettled(a)'
      BY <1>1, <1>8 DEF Unsettled, Elsewhere
  <2>3. QED  BY <1>8, <2>1, <2>2 DEF Advertised, Elsewhere
<1>9. QED  BY StepMoves, <1>2, <1>3, <1>4, <1>5, <1>6, <1>7, <1>8

\* Once nobody is publishing or dropping the models of an account, what it is routed by is
\* what /v1/models was built from: publishing and dropping write the two tables in opposite
\* orders and do not exclude each other (PublishGated, DropAccount, PruneStale).
THEOREM RoutedModelsAreAdvertised == ASSUME Apart PROVE Models!Spec => []Models!RoutedIsAdvertised
<1>1. Models!Init => Advertised
    BY IdleRow DEF Models!Init, Advertised, OnItsWay
<1>2. Shape /\ Advertised /\ [Models!Next]_(Models!vars) => Advertised'
  <2> SUFFICES ASSUME Shape, Advertised, [Models!Next]_(Models!vars) PROVE Advertised'  OBVIOUS
  <2>1. CASE Models!OtherReload \/ UNCHANGED Models!vars
      BY <2>1 DEF Models!OtherReload, Models!vars, Models!tables, Advertised, OnItsWay, Unsettled
  <2>2. QED  BY <2>1, StepAdvertised DEF Models!Next
<1>3. Advertised => Models!RoutedIsAdvertised
    BY DEF Advertised, Unsettled, Models!RoutedIsAdvertised, Models!Settled
<1>4. QED  BY <1>1, <1>2, <1>3, ShapeAlways, PTL DEF Models!Spec

\* The models of an account, its pool entry and what is on its way follow its pinned profile.
FollowedBy(a) == saved[a].there /\ ~Switching(a) =>
          /\ listed[a].on => listed[a].pair.arn = saved[a].arn
          /\ routing[a] \in Profiles => routing[a] = saved[a].arn
Following(p) == job[p].step \in {"route", "info", "pool"} /\ saved[job[p].id].there =>
          (job[p].models \in Profiles => job[p].models = saved[job[p].id].arn)

\* A step that changes neither the pinned ARNs nor the routing lists, brings no account back
\* and lists an account only as it is saved.
Keeps == \A a \in Accounts :
    /\ saved'[a].there => saved[a].there
    /\ saved'[a].arn = saved[a].arn
    /\ routing'[a] \in {routing[a], None}
    /\ listed'[a] = listed[a] \/ listed'[a].pair.arn = saved[a].arn

LEMMA KeepingFollows ==
    ASSUME Apart, Shape, Followed, NEW p \in Workers, Keeps,
           \A q \in Workers \ {p} : job'[q] = job[q],
           job[p].step # "pool", job'[p].step \notin {"route", "info", "pool"}
    PROVE  Followed'
<1>1. \A a \in Accounts : Switching(a)' <=> Switching(a)  BY DEF Switching
<1>2. ASSUME NEW a \in Accounts PROVE FollowedBy(a)'
    BY <1>1 DEF FollowedBy, Followed, Keeps, Apart
<1>3. ASSUME NEW q \in Workers PROVE Following(q)'
  <2>1. /\ Carries(job[q]) /\ Carries(job[p])  BY DEF Shape
  <2>2. Following(q) /\ Following(p)  BY DEF Followed, Following
  <2>3. CASE q # p  BY <2>1, <2>2, <2>3 DEF Following, Keeps, Carries, Models!Steps
  <2>4. CASE q = p  BY <2>1, <2>2, <2>4 DEF Following, Keeps, Carries, Models!Steps
  <2>5. QED  BY <2>3, <2>4
<1>4. QED  BY <1>2, <1>3 DEF Followed, FollowedBy, Following

\* An entry replaced in the configuration, by one of the same ARN that is there only if the
\* old one was.
LEMMA Replaced ==
    ASSUME saved \in [Accounts -> Entries], NEW a \in Accounts, NEW x \in Entries,
           saved' = [saved EXCEPT ![a] = x], x.arn = saved[a].arn, x.there => saved[a].there
    PROVE  \A b \in Accounts : (saved'[b].there => saved[b].there) /\ saved'[b].arn = saved[b].arn
OBVIOUS

LEMMA StepKeeps ==
    ASSUME Apart, Shape, NEW p \in Workers, Models!Step(p)
    PROVE  \/ Models!Gate(p) \/ Routes(p) \/ Models!Persist(p)
           \/ Keeps /\ job[p].step # "pool" /\ job'[p].step \notin {"route", "info", "pool"}
<1>0. /\ job \in [Workers -> Jobs] /\ Models!Idle.step = "idle" /\ Models!Idle \in Jobs
      /\ saved \in [Accounts -> Entries] /\ listed \in [Accounts -> [on : BOOLEAN, pair : Models!Pairs]]
      /\ routing \in [Accounts -> Models!Lists \cup {None}] /\ Carries(job[p])
    BY IdleRow DEF Shape, Tables
<1> DEFINE Out == job[p].step # "pool" /\ job'[p].step \notin {"route", "info", "pool"}
<1>1. UNCHANGED Models!tables => Keeps
    BY DEF Models!tables, Keeps
<1>2. ASSUME NEW a \in Accounts, Models!Refresh(p, a) \/ Models!StartOff(p, a) \/ Models!StartEdit(p, a)
      PROVE  UNCHANGED Models!tables /\ Out
  <2>1. CASE Models!Refresh(p, a)  BY <1>0, <2>1 DEF Models!Refresh, Models!At, Jobs
  <2>2. CASE Models!StartOff(p, a)  BY <1>0, <2>2 DEF Models!StartOff, Models!At, Jobs
  <2>3. CASE Models!StartEdit(p, a)
    <3>1. UNCHANGED Models!tables /\ job[p].step = "idle"  BY <2>3 DEF Models!StartEdit, Models!At
    <3>2. job'[p].step = "write"  BY <1>0, <2>3 DEF Models!StartEdit, Jobs
    <3>3. QED  BY <3>1, <3>2
  <2>4. QED  BY <1>2, <2>1, <2>2, <2>3
<1>3. ASSUME NEW a \in Accounts, NEW t \in Profiles, Models!Switch(p, a, t) PROVE UNCHANGED Models!tables /\ Out
    BY <1>0, <1>3 DEF Models!Switch, Models!At, Jobs
<1>4. CASE Models!Fetched(p) \/ Models!FetchFails(p) \/ Models!StartSweep(p) \/ Models!SweepNext(p) \/ Models!SwitchRefused(p)
  <2>1. UNCHANGED Models!tables
      BY <1>4 DEF Models!Fetched, Models!FetchFails, Models!StartSweep, Models!SweepNext,
         Models!SwitchRefused
  <2>2. Models!Fetched(p) \/ Models!SwitchRefused(p) => Out
      BY <1>0 DEF Models!Fetched, Models!SwitchRefused, Models!At, Models!End, Jobs
  <2>3. Models!FetchFails(p) => Out
      BY <1>0 DEF Models!FetchFails, Models!At, Models!Continue, Models!Goto, Models!End, Jobs
  <2>4. Models!StartSweep(p) => Out
      BY <1>0 DEF Models!StartSweep, Models!At, Jobs
  <2>5. ASSUME Models!SweepNext(p) PROVE Out
    <3>1. CASE Models!Goto(p, "prune")
        BY <1>0, <2>5, <3>1 DEF Models!Goto, Jobs, Models!SweepNext, Models!At
    <3>2. CASE \E a \in job[p].left :
              job' = [job EXCEPT ![p].step = "fetch", ![p].id = a, ![p].pair = job[p].read[a],
                                 ![p].left = @ \ {a}]
      <4>1. PICK a \in job[p].left :
              job' = [job EXCEPT ![p] = [job[p] EXCEPT !.step = "fetch", !.id = a, !.pair = job[p].read[a],
                                 !.left = @ \ {a}]]
          BY <1>0, <3>2
      <4>2. QED  BY <1>0, <2>5, <4>1 DEF Jobs, Models!SweepNext, Models!At
    <3>3. QED  BY <2>5, <3>1, <3>2 DEF Models!SweepNext
  <2>6. QED  BY <1>1, <1>4, <2>1, <2>2, <2>3, <2>4, <2>5
<1>5. CASE Models!Publish(p) \/ Models!Prune(p) \/ Models!DropInfo(p)
  <2>1. Models!Publish(p) => UNCHANGED <<saved, listed, routing>> /\ Out
      BY <1>0 DEF Models!Publish, Models!At, Models!Continue, Models!Goto, Models!End, Jobs
  <2>2. Models!Prune(p) \/ Models!DropInfo(p) => UNCHANGED <<saved, listed, routing>> /\ Out
      BY <1>0 DEF Models!Prune, Models!DropInfo, Models!At, Models!Goto, Jobs
  <2>3. QED  BY <1>5, <2>1, <2>2 DEF Keeps
<1>6. CASE Models!Unroute(p) \/ Models!DropRoute(p)
  <2>1. UNCHANGED <<saved, listed>>  BY <1>6 DEF Models!Unroute, Models!DropRoute
  <2>2. Models!Unroute(p) => Out
      BY <1>0 DEF Models!Unroute, Models!At, Models!End, Jobs
  <2>3. Models!DropRoute(p) => Out
      BY <1>0 DEF Models!DropRoute, Models!At, Models!Continue, Models!Goto, Models!End, Jobs
  <2>4. \A a \in Accounts : routing'[a] \in {routing[a], None}
      BY <1>0, <1>6 DEF Models!Unroute, Models!DropRoute
  <2>5. QED  BY <1>6, <2>1, <2>2, <2>3, <2>4 DEF Keeps
<1>7. CASE Models!SwitchOff(p) \/ Models!WriteEdit(p)
  <2> DEFINE a == job[p].id
             x == [saved[a] EXCEPT !.on = FALSE]
             y == [saved[a] EXCEPT !.there = FALSE, !.on = FALSE]
             z == [saved[a] EXCEPT !.on = job[p].on, !.region = job[p].pair.region]
  <2>1. Out /\ UNCHANGED <<listed, routing>>
      BY <1>0, <1>7 DEF Models!SwitchOff, Models!WriteEdit, Models!At, Models!Goto, Jobs
  <2>2. a \in Accounts
      BY <1>0, <1>7 DEF Models!SwitchOff, Models!WriteEdit, Models!At, Carries, Models!Steps
  <2>3. /\ x \in Entries /\ x.arn = saved[a].arn /\ x.there = saved[a].there
        /\ y \in Entries /\ y.arn = saved[a].arn /\ ~y.there
      BY <1>0, <2>2 DEF Entries
  <2>4. ASSUME Models!WriteEdit(p) PROVE z \in Entries /\ z.arn = saved[a].arn /\ z.there = saved[a].there
    <3>1. job[p].pair \in Models!Pairs /\ job[p].on \in BOOLEAN
        BY <1>0, <2>4 DEF Models!WriteEdit, Models!At, Carries, Jobs
    <3>2. job[p].pair.region \in Profiles  BY <3>1 DEF Models!Pairs
    <3>3. QED  BY <1>0, <2>2, <3>1, <3>2 DEF Entries
  <2>5. \/ saved' = saved \/ saved' = [saved EXCEPT ![a] = x] \/ saved' = [saved EXCEPT ![a] = y]
        \/ Models!WriteEdit(p) /\ saved' = [saved EXCEPT ![a] = z]
      BY <1>0, <1>7, <2>2 DEF Models!SwitchOff, Models!WriteEdit
  <2>6. \A b \in Accounts : (saved'[b].there => saved[b].there) /\ saved'[b].arn = saved[b].arn
    <3> HIDE DEF a, x, y, z
    <3>1. CASE saved' = saved  BY <3>1
    <3>2. CASE saved' = [saved EXCEPT ![a] = x]  BY <1>0, <2>2, <2>3, <3>2, Replaced
    <3>3. CASE saved' = [saved EXCEPT ![a] = y]  BY <1>0, <2>2, <2>3, <3>3, Replaced
    <3>4. CASE Models!WriteEdit(p) /\ saved' = [saved EXCEPT ![a] = z]  BY <1>0, <2>2, <2>4, <3>4, Replaced
    <3>5. QED  BY <2>5, <3>1, <3>2, <3>3, <3>4
  <2>7. QED  BY <2>1, <2>6 DEF Keeps
<1>8. CASE Models!Reload(p)
  <2>1. Out  BY <1>0, <1>8 DEF Models!Reload, Models!At, Models!Goto, Models!End, Jobs
  <2>2. \A a \in Accounts : listed'[a].pair.arn = saved[a].arn
      BY <1>8 DEF Models!Reload, Models!Reloaded, Models!Pair
  <2>3. QED  BY <1>8, <2>1, <2>2 DEF Keeps, Models!Reload
<1>9. Models!Route(p) \/ Models!PublishProfileSwitch(p) => Routes(p)
    BY DEF Models!Route, Models!PublishProfileSwitch, Routes, Models!At, Models!Goto
<1>10. QED
    BY <1>1, <1>2, <1>3, <1>4, <1>5, <1>6, <1>7, <1>8, <1>9 DEF Models!Step

\* While the lock of an account is free nobody is switching it.
LEMMA FreeIsNotSwitching ==
    ASSUME Apart, Shape, NEW a \in Accounts, lock[a] = None PROVE ~Switching(a)
BY DEF Switching, Shape, Held, Locking, Apart

LEMMA StepFollowed ==
    ASSUME Apart, Shape, Followed, "fail" \notin modelMix, NEW p \in Workers, Models!Step(p) PROVE Followed'
<1>0. /\ job \in [Workers -> Jobs]
      /\ saved \in [Accounts -> Entries] /\ listed \in [Accounts -> [on : BOOLEAN, pair : Models!Pairs]]
      /\ routing \in [Accounts -> Models!Lists \cup {None}]
      /\ \A q \in Workers : Carries(job[q]) /\ Held(q)
    BY DEF Shape, Tables
<1>1. \A q \in Workers \ {p} : job'[q] = job[q]
    BY StepTurns, <1>0 DEF Turns
<1>2. \A q \in Workers : Following(q)  BY DEF Followed, Following
<1>3. \A a \in Accounts : FollowedBy(a)  BY DEF Followed, FollowedBy
<1> DEFINE b == job[p].id
<1>4. CASE Models!Gate(p)
  <2>1. CASE ~Models!Current(b, job[p].pair)
    <3>1. UNCHANGED Models!tables /\ job[p].step # "pool"
        BY <1>4 DEF Models!Gate, Models!At
    <3>2. Models!Continue(p)  BY <1>4, <2>1 DEF Models!Gate
    <3>3. job'[p].step \in {"idle", "next"}
        BY <1>0, <3>2, IdleRow DEF Models!Continue, Models!Goto, Models!End, Jobs
    <3>4. Keeps  BY <3>1 DEF Keeps, Models!tables
    <3>5. QED  BY <1>1, <3>1, <3>3, <3>4, KeepingFollows
  <2>2. CASE Models!Current(b, job[p].pair)
    <3>1. /\ UNCHANGED Models!tables /\ b \in Accounts /\ lock[b] = None
          /\ job[p].step = "gate" /\ job[p].models \in {job[p].pair.arn, "empty"}
        BY <1>0, <1>4, <2>2 DEF Models!Gate, Models!GateLock, Models!At, Carries, Models!Steps
    <3>2. job'[p].step = "route" /\ job'[p].id = b /\ job'[p].models = job[p].models
        BY <1>0, <1>4, <2>2 DEF Models!Gate, Models!Goto, Jobs
    <3>3. ~Switching(b)  BY <3>1, FreeIsNotSwitching
    <3>4. Following(p)'
      <4>1. Models!Lookup(b) = job[p].pair  BY <2>2 DEF Models!Current
      <4>2. saved[b].there => job[p].pair.arn = saved[b].arn
          BY <1>3, <3>1, <3>3, <4>1 DEF Models!Lookup, Models!Pair, FollowedBy
      <4>3. QED  BY <3>1, <3>2, <4>2 DEF Following, Models!tables, Apart
    <3>5. \A q \in Workers : Following(q)'
        BY <1>1, <1>2, <3>1, <3>4 DEF Following, Models!tables
    <3>6. \A a \in Accounts : Switching(a)' <=> Switching(a)
        BY <1>1, <3>1, <3>2 DEF Switching
    <3>7. \A a \in Accounts : FollowedBy(a)'
        BY <1>3, <3>1, <3>6 DEF FollowedBy, Models!tables
    <3>8. QED  BY <3>5, <3>7 DEF Followed, Following, FollowedBy
  <2>3. QED  BY <2>1, <2>2
<1>5. CASE Routes(p)
  <2>1. /\ b \in Accounts /\ lock[b] = p /\ job'[p].step = "info"
        /\ job'[p].id = b /\ job'[p].models = job[p].models /\ job[p].step \in {"route", "pool"}
        /\ routing'[b] = job[p].models /\ \A a \in Accounts \ {b} : routing'[a] = routing[a]
      BY <1>0, <1>5 DEF Routes, Carries, Held, Locking, Models!Steps, Jobs
  <2>2. /\ saved' = saved
        /\ \/ listed' = listed /\ job[p].step = "route"
           \/ \A a \in Accounts : listed'[a].pair.arn = saved[a].arn
    <3>1. Models!Route(p) \/ Models!PublishProfileSwitch(p) => saved' = saved
        BY DEF Models!Route, Models!PublishProfileSwitch
    <3>2. Models!Route(p) => listed' = listed /\ job[p].step = "route"  BY DEF Models!Route, Models!At
    <3>3. Models!PublishProfileSwitch(p) => \A a \in Accounts : listed'[a].pair.arn = saved[a].arn
        BY DEF Models!PublishProfileSwitch, Models!Reloaded, Models!Pair
    <3>4. Models!Route(p) \/ Models!PublishProfileSwitch(p)
      <4>1. job[p].step \in {"route", "pool"} /\ job'[p].step = "info"  BY <2>1
      <4>2. \A a \in Accounts : ~Models!Refresh(p, a) /\ ~Models!StartOff(p, a) /\ ~Models!StartEdit(p, a)
          BY <4>1 DEF Models!Refresh, Models!StartOff, Models!StartEdit, Models!At
      <4>3. \A a \in Accounts, t \in Profiles : ~Models!Switch(p, a, t)
          BY <4>1 DEF Models!Switch, Models!At
      <4>4. ~Models!Fetched(p) /\ ~Models!FetchFails(p) /\ ~Models!Gate(p) /\ ~Models!Publish(p) /\ ~Models!StartSweep(p) /\ ~Models!SweepNext(p)
          BY <4>1 DEF Models!Fetched, Models!FetchFails, Models!Gate, Models!Publish, Models!StartSweep,
             Models!SweepNext, Models!At
      <4>5. ~Models!Prune(p) /\ ~Models!Unroute(p) /\ ~Models!SwitchRefused(p) /\ ~Models!Persist(p) /\ ~Models!SwitchOff(p)
          BY <4>1 DEF Models!Prune, Models!Unroute, Models!SwitchRefused, Models!Persist, Models!SwitchOff,
             Models!At
      <4>6. ~Models!DropInfo(p) /\ ~Models!DropRoute(p) /\ ~Models!WriteEdit(p) /\ ~Models!Reload(p)
          BY <4>1 DEF Models!DropInfo, Models!DropRoute, Models!WriteEdit, Models!Reload, Models!At
      <4>7. QED  BY <4>2, <4>3, <4>4, <4>5, <4>6 DEF Models!Step
    <3>5. QED  BY <3>1, <3>2, <3>3, <3>4
  <2>3. \A q \in Workers : Following(q)'
    <3>1. Following(p)'  BY <1>2, <2>1, <2>2 DEF Following
    <3>2. QED  BY <1>1, <1>2, <2>2, <3>1 DEF Following
  <2>4. ASSUME NEW a \in Accounts PROVE FollowedBy(a)'
    <3>1. CASE a = b
      <4>1. saved[b].there /\ job[p].models \in Profiles => job[p].models = saved[b].arn
          BY <1>2, <2>1 DEF Following
      <4>2. job[p].step = "route" => ~Switching(b)
          BY <1>0, <2>1 DEF Switching, Held, Locking
      <4>3. saved[b].there /\ listed'[b].on => listed'[b].pair.arn = saved[b].arn
          BY <1>3, <2>1, <2>2, <4>2 DEF FollowedBy
      <4>4. QED  BY <2>1, <2>2, <3>1, <4>1, <4>3 DEF FollowedBy
    <3>2. CASE a # b
      <4>1. Switching(a)' <=> Switching(a)  BY <1>1, <2>1, <3>2 DEF Switching
      <4>2. QED  BY <1>3, <2>1, <2>2, <3>2, <4>1 DEF FollowedBy
    <3>3. QED  BY <3>1, <3>2
  <2>5. QED  BY <2>3, <2>4 DEF Followed, Following, FollowedBy
<1>6. CASE Models!Persist(p)
  <2>1. /\ b \in Accounts /\ lock[b] = p /\ job[p].pair \in Models!Pairs /\ job[p].step = "persist"
        /\ job'[p].step = "pool" /\ job'[p].id = b /\ job'[p].models = job[p].pair.arn
        /\ UNCHANGED <<listed, routing>>
      BY <1>0, <1>6 DEF Models!Persist, Models!At, Carries, Held, Locking, Models!Steps, Jobs
  <2>2. /\ \A a \in Accounts \ {b} : saved'[a] = saved[a]
        /\ saved'[b].there => saved'[b].arn = job[p].pair.arn
    <3> DEFINE y == [saved[b] EXCEPT !.arn = job[p].pair.arn, !.region = job[p].pair.region]
    <3>1. saved' = IF saved[b].there THEN [saved EXCEPT ![b] = y] ELSE saved
        BY <1>0, <1>6, <2>1 DEF Models!Persist
    <3>2. y.arn = job[p].pair.arn  BY <1>0, <2>1 DEF Entries
    <3> HIDE DEF y
    <3>3. QED  BY <1>0, <2>1, <3>1, <3>2
  <2>3. ASSUME NEW q \in Workers PROVE Following(q)'
    <3>1. CASE q = p  BY <2>1, <2>2, <3>1 DEF Following
    <3>2. CASE q # p
      <4>1. job'[q] = job[q]  BY <1>1, <3>2
      <4>2. job[q].step \in {"route", "info", "pool"} => job[q].id # b /\ job[q].id \in Accounts
          BY <1>0, <2>1, <3>2 DEF Held, Locking, Carries, Models!Steps
      <4>3. QED  BY <1>2, <2>2, <4>1, <4>2 DEF Following
    <3>3. QED  BY <3>1, <3>2
  <2>4. ASSUME NEW a \in Accounts PROVE FollowedBy(a)'
    <3>1. CASE a = b  BY <2>1, <3>1 DEF FollowedBy, Switching
    <3>2. CASE a # b
      <4>1. Switching(a) => Switching(a)'  BY <1>1, <2>1, <3>2 DEF Switching
      <4>2. QED  BY <1>3, <2>1, <2>2, <3>2, <4>1 DEF FollowedBy
    <3>3. QED  BY <3>1, <3>2
  <2>5. QED  BY <2>3, <2>4 DEF Followed, Following, FollowedBy
<1>7. QED  BY <1>1, <1>4, <1>5, <1>6, StepKeeps, KeepingFollows

\* While no switch and no publication is under way, requests are routed to an account by the
\* models of the profile it is pinned to, whatever refreshes, sweeps, switches, bans, deletions
\* and edits overlap: as long as no save fails, since a failing one keeps the new profile in
\* memory and stops before the models (SelectProfile, PublishGated).
THEOREM RoutedByThePinnedProfile ==
    ASSUME Apart PROVE Models!Spec => []("fail" \in modelMix \/ Models!RoutedByItsProfile)
<1> DEFINE Inv == "fail" \in modelMix \/ Followed
<1>1. Models!Init => Inv
    BY IdleRow DEF Models!Init, Followed, Models!Pair, Apart, Switching
<1>2. Shape /\ Inv /\ [Models!Next]_(Models!vars) => Inv'
  <2> SUFFICES ASSUME Shape, Inv, [Models!Next]_(Models!vars), "fail" \notin modelMix PROVE Inv'
      BY DEF Models!Next, Models!vars
  <2>1. CASE UNCHANGED Models!vars
      BY <2>1 DEF Models!vars, Models!tables, Followed, Switching
  <2>2. CASE Models!OtherReload
    <3>1. \A a \in Accounts : listed'[a].pair.arn = saved[a].arn
        BY <2>2 DEF Models!OtherReload, Models!Reloaded, Models!Pair
    <3>2. QED  BY <2>2, <3>1 DEF Models!OtherReload, Followed, Switching
  <2>3. QED  BY <2>1, <2>2, StepFollowed DEF Models!Next
<1>3. Shape /\ Inv => ("fail" \in modelMix \/ Models!RoutedByItsProfile)
    BY FreeIsNotSwitching DEF Followed, Models!RoutedByItsProfile
<1>4. QED  BY <1>1, <1>2, <1>3, ShapeAlways, PTL DEF Models!Spec

(***************************************************************************)
(* The stored conversations                                                *)
(*                                                                         *)
(* A response is given its identifier, then stored, then told of, and a    *)
(* purge removes files between any two of these: what nobody knows yet is  *)
(* kept apart from what was told, and a chain read earlier from the files  *)
(* it is continued with.                                                   *)
(***************************************************************************)
Docs == [there : BOOLEAN, owner : Stored!Owners, prev : Stored!Ids \cup {None}, expired : BOOLEAN]
Asks == [step : Stored!Steps, key : KeyValues \cup {None}, owner : Stored!Owners, asked : BOOLEAN,
         prev : Stored!Ids \cup {None}, chain : Seq(Stored!Ids), id : Stored!Ids \cup {None}]

\* Nothing has the name of an owner or of a response.
Sane == None \notin KeyValues \cup {"anonymous"} \cup Nat /\ MaxResponses \in Nat \ {0} /\ MaxDepth \in Nat

StoreTyped ==
    /\ auth \in BOOLEAN /\ purging \in BOOLEAN /\ ids \in 0 .. MaxResponses /\ promised \subseteq Stored!Ids
    /\ doc \in [Stored!Ids -> Docs] /\ req \in [Askers -> Asks]

\* An identifier nobody has stored a response under: not given out yet, or a request's that
\* is about to save.
Fresh(i) == i > ids \/ \E r \in Askers : Stored!At(r, "save") /\ req[r].id = i

\* A fresh identifier has no file, and nothing stored, sent or told refers to it.
FreshUnknown == \A i \in Stored!Ids : Fresh(i) =>
    /\ doc[i] = Stored!Absent /\ i \notin promised
    /\ \A j \in Stored!Ids : doc[j].prev # i
    /\ \A r \in Askers : req[r].prev # i /\ \A n \in 1 .. Len(req[r].chain) : req[r].chain[n] # i

\* Two requests never save under one identifier.
FreshApart == \A r, q \in Askers : Stored!At(r, "save") /\ Stored!At(q, "save") /\ req[r].id = req[q].id => r = q

\* What a request may continue.
MayContinue(owner, r) == owner = r \/ (owner = None /\ r = "anonymous")

\* What a request knows at each of its steps.
Knows(r) == LET x == req[r] IN
    /\ x.step \in {"walk", "call", "save", "tell"} =>
          /\ x.owner # None
          /\ x.prev # None => MayContinue(doc[x.prev].owner, x.owner)
          /\ x.asked \/ x.owner = "anonymous"
    /\ x.step = "walk" => x.chain # << >>
    /\ x.step \in {"save", "tell"} => x.id \in 1 .. ids
    /\ x.step = "tell" => doc[x.id].owner # None /\ (doc[x.id].there \/ doc[x.id].expired)

StoreKept == /\ StoreTyped /\ FreshUnknown /\ FreshApart /\ Stored!ConversationsHold
        /\ \A r \in Askers : Knows(r)

\* Files only age: they expire and go, and what is absent stays as it is.
Ages == \A i \in Stored!Ids :
    /\ doc'[i].owner = doc[i].owner /\ doc'[i].prev = doc[i].prev
    /\ doc[i].there \/ doc[i].expired => doc'[i].there \/ doc'[i].expired
    /\ doc[i] = Stored!Absent => doc'[i] = Stored!Absent

\* The run of turns a request has collected.
Unbroken(x, d) ==
    /\ Len(x.chain) <= MaxDepth + 1
    /\ x.chain # << >> => x.chain[Len(x.chain)] = x.prev
    /\ \A n \in 1 .. Len(x.chain) - 1 : x.chain[n] = d[x.chain[n + 1]].prev

LEMMA AbsentFacts == ASSUME Sane PROVE
    /\ Stored!Absent.owner = None /\ Stored!Absent.prev = None /\ ~Stored!Absent.there
    /\ ~Stored!Absent.expired
    /\ Stored!Absent \in Docs
BY DEF Stored!Absent, Docs, Stored!Owners, Sane

LEMMA IdleAsks == ASSUME Sane PROVE
    /\ Stored!Idle \in Asks /\ Stored!Idle.step = "idle" /\ Stored!Idle.prev = None
    /\ Stored!Idle.chain = << >>
BY DEF Stored!Idle, Asks, Stored!Steps, Stored!Owners

LEMMA ChainTyped == ASSUME StoreTyped, NEW r \in Askers, NEW n \in 1 .. Len(req[r].chain)
                    PROVE  req[r].chain[n] \in Stored!Ids /\ Len(req[r].chain) \in Nat
<1>1. req[r].chain \in Seq(Stored!Ids)  BY DEF StoreTyped, Asks
<1>2. QED  BY <1>1

\* A request moves on without saving, while files at most age.
LEMMA MoveKeeps ==
    ASSUME Sane, StoreKept, NEW r \in Askers, NEW x \in Asks, req' = [req EXCEPT ![r] = x],
           doc' \in [Stored!Ids -> Docs], Ages, UNCHANGED <<auth, ids, purging>>,
           x.step # "save", Knows(r)', Unbroken(x, doc),
           x.prev \in Stored!Ids => ~Fresh(x.prev),
           \A n \in 1 .. Len(x.chain) : ~Fresh(x.chain[n]),
           \A i \in promised' \ promised : i \in Stored!Ids /\ ~Fresh(i) /\ doc[i].owner # None
                                    /\ (doc[i].there \/ doc[i].expired),
           promised \subseteq promised'
    PROVE  StoreKept'
<1>1. StoreTyped /\ FreshUnknown /\ FreshApart /\ Stored!ConversationsHold /\ \A q \in Askers : Knows(q)
    BY DEF StoreKept
<1>2. /\ req'[r] = x /\ \A q \in Askers \ {r} : req'[q] = req[q]
      /\ req \in [Askers -> Asks] /\ doc \in [Stored!Ids -> Docs] /\ promised \subseteq Stored!Ids
      /\ ids \in 0 .. MaxResponses
    BY <1>1 DEF StoreTyped
<1>3. StoreTyped'
    BY <1>1, <1>2 DEF StoreTyped
<1>4. \A i \in Stored!Ids : Fresh(i)' => Fresh(i)
    BY <1>2 DEF Fresh, Stored!At
<1>5. FreshUnknown'
  <2>1. ASSUME NEW i \in Stored!Ids, Fresh(i)' PROVE
          /\ doc'[i] = Stored!Absent /\ i \notin promised'
          /\ \A j \in Stored!Ids : doc'[j].prev # i
          /\ \A q \in Askers : req'[q].prev # i /\ \A n \in 1 .. Len(req'[q].chain) : req'[q].chain[n] # i
    <3>1. Fresh(i)  BY <1>4, <2>1
    <3>2. doc'[i] = Stored!Absent /\ \A j \in Stored!Ids : doc'[j].prev # i
        BY <1>1, <3>1 DEF FreshUnknown, Ages
    <3>3. i \notin promised'  BY <1>1, <3>1 DEF FreshUnknown
    <3>4. ASSUME NEW q \in Askers
          PROVE req'[q].prev # i /\ \A n \in 1 .. Len(req'[q].chain) : req'[q].chain[n] # i
      <4>1. CASE q = r  BY <1>2, <3>1, <4>1
      <4>2. CASE q # r  BY <1>1, <1>2, <3>1, <4>2 DEF FreshUnknown
      <4>3. QED  BY <4>1, <4>2
    <3>5. QED  BY <3>2, <3>3, <3>4
  <2>2. QED  BY <2>1 DEF FreshUnknown
<1>6. FreshApart'  BY <1>1, <1>2 DEF FreshApart, Stored!At
<1>7. ASSUME NEW q \in Askers PROVE Knows(q)'
  <2>1. CASE q = r  BY <2>1
  <2>2. CASE q # r
    <3>1. Knows(q) /\ req'[q] = req[q] /\ req[q] \in Asks  BY <1>1, <1>2, <2>2
    <3>2. req[q].prev # None => req[q].prev \in Stored!Ids  BY <3>1 DEF Asks
    <3>3. req[q].step = "tell" => req[q].id \in Stored!Ids
        BY <1>2, <3>1 DEF Knows, Stored!Ids, Sane
    <3>4. QED  BY <3>1, <3>2, <3>3 DEF Knows, Ages
  <2>3. QED  BY <2>1, <2>2
<1>8. Stored!ConversationsHold'
  <2>1. Stored!OneOwnerPerConversation'
    <3>1. \A i \in Stored!Ids : doc[i].prev # None => doc[i].prev \in Stored!Ids  BY <1>2 DEF Docs
    <3>2. QED  BY <1>1, <3>1 DEF Stored!ConversationsHold, Stored!OneOwnerPerConversation, Ages
  <2>2. Stored!HistoryIsUnbroken'
    <3>1. ASSUME NEW q \in Askers PROVE Unbroken(req'[q], doc')
      <4>1. req'[q] \in Asks  BY <1>3 DEF StoreTyped
      <4>2. req'[q].chain \in Seq(Stored!Ids)  BY <4>1 DEF Asks
      <4>3. \A n \in 1 .. Len(req'[q].chain) : req'[q].chain[n] \in Stored!Ids  BY <4>2
      <4>4. Unbroken(req'[q], doc)
        <5>1. CASE q = r  BY <1>2, <5>1
        <5>2. CASE q # r
          <6>1. req'[q] = req[q]  BY <1>2, <5>2
          <6>2. Stored!HistoryIsUnbroken  BY <1>1 DEF Stored!ConversationsHold
          <6>3. QED  BY <6>1, <6>2 DEF Stored!HistoryIsUnbroken, Unbroken
        <5>3. QED  BY <5>1, <5>2
      <4>5. \A n \in 1 .. Len(req'[q].chain) - 1 : req'[q].chain[n + 1] \in Stored!Ids  BY <4>2, <4>3
      <4>6. QED  BY <4>4, <4>5 DEF Unbroken, Ages
    <3>2. QED  BY <3>1 DEF Stored!HistoryIsUnbroken, Unbroken
  <2>3. Stored!ToldIsKept'
    <3>1. Stored!ToldIsKept  BY <1>1 DEF Stored!ConversationsHold
    <3>2. QED  BY <1>2, <3>1 DEF Stored!ToldIsKept, Ages
  <2>4. QED  BY <2>1, <2>2, <2>3 DEF Stored!ConversationsHold
<1>9. QED  BY <1>3, <1>5, <1>6, <1>7, <1>8 DEF StoreKept

\* What a request's own row says, while the invariant holds.
LEMMA RowFacts ==
    ASSUME Sane, StoreKept, NEW r \in Askers
    PROVE  /\ req[r] \in Asks /\ Knows(r) /\ Unbroken(req[r], doc) /\ req \in [Askers -> Asks]
           /\ req[r].prev \in Stored!Ids => ~Fresh(req[r].prev)
           /\ \A n \in 1 .. Len(req[r].chain) : ~Fresh(req[r].chain[n])
           /\ doc \in [Stored!Ids -> Docs] /\ ids \in 0 .. MaxResponses
<1>1. StoreTyped /\ FreshUnknown /\ Stored!ConversationsHold /\ Knows(r)  BY DEF StoreKept
<1>2. Stored!HistoryIsUnbroken  BY <1>1 DEF Stored!ConversationsHold
<1>3. Unbroken(req[r], doc)  BY <1>2 DEF Stored!HistoryIsUnbroken, Unbroken
<1>4. \A n \in 1 .. Len(req[r].chain) : req[r].chain[n] \in Stored!Ids  BY <1>1, ChainTyped
<1>5. QED  BY <1>1, <1>3, <1>4 DEF StoreTyped, FreshUnknown

\* A file that is there is nobody's to save.
LEMMA ThereIsNotFresh ==
    ASSUME Sane, StoreKept, NEW i \in Stored!Ids, doc[i].there \/ doc[i].expired \/ doc[i].owner # None
    PROVE  ~Fresh(i)
BY AbsentFacts DEF StoreKept, FreshUnknown

\* A file that is gone once it has expired has aged.
LEMMA GoneAges ==
    ASSUME Sane, doc \in [Stored!Ids -> Docs], NEW i \in Stored!Ids, doc[i].expired,
           doc' = [doc EXCEPT ![i].there = FALSE]
    PROVE  Ages /\ doc' \in [Stored!Ids -> Docs]
<1>1. \A j \in Stored!Ids : doc[j] \in Docs  OBVIOUS
<1>2. doc' = [doc EXCEPT ![i] = [doc[i] EXCEPT !.there = FALSE]]  OBVIOUS
<1>3. [doc[i] EXCEPT !.there = FALSE] \in Docs  BY <1>1 DEF Docs
<1>4. /\ doc'[i].owner = doc[i].owner /\ doc'[i].prev = doc[i].prev /\ doc'[i].expired
      /\ doc[i] # Stored!Absent /\ \A j \in Stored!Ids : j # i => doc'[j] = doc[j]
    BY <1>1, <1>2, <1>3, AbsentFacts DEF Docs
<1>5. QED  BY <1>2, <1>3, <1>4 DEF Ages

LEMMA PrunedAges ==
    ASSUME Sane, doc \in [Stored!Ids -> Docs], NEW i, Stored!Pruned(i) PROVE Ages /\ doc' \in [Stored!Ids -> Docs]
<1>1. CASE UNCHANGED doc  BY <1>1 DEF Ages
<1>2. CASE i \in Stored!Ids /\ doc[i].expired /\ doc' = [doc EXCEPT ![i].there = FALSE]
    BY <1>2, GoneAges
<1>3. QED  BY <1>1, <1>2 DEF Stored!Pruned

\* A step of no request that ages a file at most.
LEMMA AgeKeeps ==
    ASSUME Sane, StoreKept, doc' \in [Stored!Ids -> Docs], Ages, UNCHANGED <<ids, req, promised>>,
           auth' \in BOOLEAN, purging' \in BOOLEAN
    PROVE  StoreKept'
<1>1. StoreTyped /\ FreshUnknown /\ FreshApart /\ Stored!ConversationsHold /\ \A q \in Askers : Knows(q)
    BY DEF StoreKept
<1>2. req \in [Askers -> Asks] /\ doc \in [Stored!Ids -> Docs] /\ promised \subseteq Stored!Ids /\ ids \in 0 .. MaxResponses
    BY <1>1 DEF StoreTyped
<1>3. StoreTyped'  BY <1>1 DEF StoreTyped
<1>4. FreshUnknown'  BY <1>1 DEF FreshUnknown, Fresh, Stored!At, Ages
<1>5. FreshApart'  BY <1>1 DEF FreshApart, Stored!At
<1>6. ASSUME NEW q \in Askers PROVE Knows(q)'
  <2>1. req[q].prev # None => req[q].prev \in Stored!Ids  BY <1>2 DEF Asks
  <2>2. req[q].step = "tell" => req[q].id \in Stored!Ids  BY <1>1, <1>2 DEF Knows, Stored!Ids, Sane
  <2>3. QED  BY <1>1, <2>1, <2>2 DEF Knows, Ages
<1>7. Stored!OneOwnerPerConversation'
  <2>1. \A i \in Stored!Ids : doc[i].prev # None => doc[i].prev \in Stored!Ids  BY <1>2 DEF Docs
  <2>2. QED  BY <1>1, <2>1 DEF Stored!ConversationsHold, Stored!OneOwnerPerConversation, Ages
<1>8. Stored!HistoryIsUnbroken'
  <2>1. ASSUME NEW q \in Askers PROVE Unbroken(req[q], doc')
    <3>1. req[q].chain \in Seq(Stored!Ids)  BY <1>2 DEF Asks
    <3>2. \A n \in 1 .. Len(req[q].chain) - 1 : req[q].chain[n + 1] \in Stored!Ids  BY <3>1
    <3>3. Unbroken(req[q], doc)  BY RowFacts
    <3>4. QED  BY <3>2, <3>3 DEF Unbroken, Ages
  <2>2. QED  BY <2>1 DEF Stored!HistoryIsUnbroken, Unbroken
<1>9. Stored!ToldIsKept'  BY <1>1, <1>2 DEF Stored!ConversationsHold, Stored!ToldIsKept, Ages
<1>10. QED  BY <1>3, <1>4, <1>5, <1>6, <1>7, <1>8, <1>9 DEF StoreKept, Stored!ConversationsHold

LEMMA NoAge == doc' = doc => Ages
BY DEF Ages

\* A request that ends.
LEMMA EndKeeps ==
    ASSUME Sane, StoreKept, NEW r \in Askers, Stored!End(r), doc' \in [Stored!Ids -> Docs], Ages,
           UNCHANGED <<auth, ids, purging, promised>>
    PROVE  StoreKept'
<1>1. Stored!Idle \in Asks /\ Stored!Idle.step = "idle" /\ Stored!Idle.prev = None /\ Stored!Idle.chain = << >>
    BY IdleAsks
<1>2. req' = [req EXCEPT ![r] = Stored!Idle] /\ req'[r] = Stored!Idle  BY RowFacts DEF Stored!End
<1>3. Knows(r)'  BY <1>1, <1>2 DEF Knows
<1>4. Unbroken(Stored!Idle, doc)  BY <1>1 DEF Unbroken, Sane
<1>5. \A n \in 1 .. Len(Stored!Idle.chain) : ~Fresh(Stored!Idle.chain[n])  BY <1>1
<1>6. Stored!Idle.prev \notin Stored!Ids  BY <1>1 DEF Sane, Stored!Ids
<1>7. QED  BY <1>1, <1>2, <1>3, <1>4, <1>5, <1>6, MoveKeeps

LEMMA AuthenticateKeeps == ASSUME Sane, StoreKept, NEW r \in Askers, Stored!Authenticate(r) PROVE StoreKept'
<1>1. PICK k \in KeyValues \cup {None} : req' = [req EXCEPT ![r].step = "read", ![r].key = k]
    BY DEF Stored!Authenticate
<1> DEFINE x == [req[r] EXCEPT !.step = "read", !.key = k]
<1>2. req[r] \in Asks /\ Unbroken(req[r], doc)  BY RowFacts
<1>3. x \in Asks /\ x.step = "read" /\ x.prev = req[r].prev /\ x.chain = req[r].chain
    BY <1>2 DEF Asks, Stored!Steps
<1>4. req' = [req EXCEPT ![r] = x] /\ req'[r] = x  BY <1>1, RowFacts
<1> HIDE DEF x
<1>5. Knows(r)'  BY <1>3, <1>4 DEF Knows
<1>6. Unbroken(x, doc)  BY <1>2, <1>3 DEF Unbroken
<1>7. doc' = doc /\ promised' = promised /\ UNCHANGED <<auth, ids, purging>>  BY DEF Stored!Authenticate
<1>8. QED  BY <1>3, <1>4, <1>5, <1>6, <1>7, RowFacts, NoAge, MoveKeeps

LEMMA BeginKeeps ==
    ASSUME Sane, StoreKept, NEW r \in Askers, NEW prev \in Stored!Ids \cup {None}, Stored!Begin(r, prev) PROVE StoreKept'
<1> DEFINE owner == Stored!Principal(auth, req[r].key)
           x == [req[r] EXCEPT !.owner = owner, !.asked = auth, !.prev = prev,
                  !.step = IF prev = None THEN "call" ELSE "walk",
                  !.chain = IF prev = None THEN << >> ELSE <<prev>>]
<1>0. /\ req[r] \in Asks /\ doc \in [Stored!Ids -> Docs] /\ auth \in BOOLEAN /\ req \in [Askers -> Asks]
    BY RowFacts DEF StoreKept, StoreTyped
<1>1. Ages /\ doc' \in [Stored!Ids -> Docs] /\ UNCHANGED <<auth, ids, purging, promised>>
    BY <1>0, PrunedAges DEF Stored!Begin
<1>2. CASE Stored!End(r)  BY <1>1, <1>2, EndKeeps
<1>3. CASE /\ prev = None \/ Stored!Found(prev, owner, auth)
           /\ req' = [req EXCEPT ![r] = x]
  <2>1. owner \in Stored!Owners /\ owner # None /\ (auth \/ owner = "anonymous")
      BY <1>0 DEF Stored!Principal, Stored!Owners, Sane, Asks
  <2>2. prev # None => /\ prev \in Stored!Ids /\ doc[prev].there
                       /\ MayContinue(doc[prev].owner, owner)
      BY <1>3, <2>1 DEF Stored!Found, Stored!Authorized, MayContinue
  <2> DEFINE c == IF prev = None THEN << >> ELSE <<prev>>
  <2>3. c \in Seq(Stored!Ids)  OBVIOUS
  <2>4. /\ x \in Asks /\ x.prev = prev /\ x.owner = owner /\ x.asked = auth /\ x.chain = c
        /\ x.step = IF prev = None THEN "call" ELSE "walk"
    <3> HIDE DEF owner, c
    <3>1. x = [req[r] EXCEPT !.owner = owner, !.asked = auth, !.prev = prev,
                  !.step = IF prev = None THEN "call" ELSE "walk", !.chain = c]  BY DEF c
    <3> HIDE DEF x
    <3>2. QED  BY <1>0, <2>1, <2>3, <3>1 DEF Asks, Stored!Steps
  <2>5. Len(c) = IF prev = None THEN 0 ELSE 1  OBVIOUS
  <2>6. prev # None => c[1] = prev /\ c # << >>  OBVIOUS
  <2>7. prev = None => c = << >>  OBVIOUS
  <2> HIDE DEF x, c, owner
  <2>8. req'[r] = x  BY <1>0, <1>3
  <2>9. Knows(r)'
      BY <1>1, <2>1, <2>2, <2>4, <2>6, <2>8 DEF Knows, Ages
  <2>10. Unbroken(x, doc)  BY <2>4, <2>5, <2>6, <2>7 DEF Unbroken, Sane
  <2>11. x.prev \in Stored!Ids => ~Fresh(x.prev)  BY <2>2, <2>4, ThereIsNotFresh DEF Sane, Stored!Ids
  <2>12. \A n \in 1 .. Len(x.chain) : ~Fresh(x.chain[n])
      BY <2>2, <2>4, <2>5, <2>6, ThereIsNotFresh
  <2>13. x.step # "save" BY <2>4
  <2>14. QED  BY <1>1, <1>3, <2>4, <2>9, <2>10, <2>11, <2>12, <2>13, MoveKeeps
<1>4. QED  BY <1>2, <1>3 DEF Stored!Begin

\* One older response before a run of turns.
LEMMA Longer ==
    ASSUME NEW c \in Seq(Stored!Ids), NEW i \in Stored!Ids, c # << >>
    PROVE  /\ <<i>> \o c \in Seq(Stored!Ids) /\ <<i>> \o c # << >>
           /\ Len(<<i>> \o c) = Len(c) + 1 /\ (<<i>> \o c)[1] = i /\ Len(c) \in Nat /\ Len(c) > 0
           /\ \A n \in 1 .. Len(c) : (<<i>> \o c)[n + 1] = c[n]
           /\ Head(c) = c[1] /\ c[1] \in Stored!Ids
OBVIOUS

LEMMA WalkKeeps == ASSUME Sane, StoreKept, NEW r \in Askers, Stored!Walk(r) PROVE StoreKept'
<1> DEFINE i == Stored!Older(r) y == [req[r] EXCEPT !.step = "call"] z == [req[r] EXCEPT !.chain = <<i>> \o @]
<1>0. /\ req[r] \in Asks /\ doc \in [Stored!Ids -> Docs] /\ req \in [Askers -> Asks]
      /\ Knows(r) /\ Unbroken(req[r], doc) /\ req[r].step = "walk"
    BY RowFacts DEF Stored!Walk, Stored!At
<1>1. Ages /\ doc' \in [Stored!Ids -> Docs] /\ UNCHANGED <<auth, ids, purging, promised>>
  <2>1. CASE UNCHANGED doc  BY <1>0, <2>1, NoAge DEF Stored!Walk
  <2>2. CASE Stored!Pruned(i)  BY <1>0, <2>2, PrunedAges DEF Stored!Walk
  <2>3. QED  BY <2>1, <2>2 DEF Stored!Walk
<1>2. req[r].prev # None => req[r].prev \in Stored!Ids  BY <1>0 DEF Asks
<1>3. CASE req' = [req EXCEPT ![r].step = "call"]
  <2>1. /\ y \in Asks /\ y.step = "call" /\ y.prev = req[r].prev /\ y.chain = req[r].chain
        /\ y.owner = req[r].owner /\ y.asked = req[r].asked
      BY <1>0 DEF Asks, Stored!Steps
  <2>2. req' = [req EXCEPT ![r] = y] /\ req'[r] = y  BY <1>0, <1>3
  <2> HIDE DEF y
  <2>3. Knows(r)'  BY <1>0, <1>1, <1>2, <2>1, <2>2 DEF Knows, Ages
  <2>4. Unbroken(y, doc)  BY <1>0, <2>1 DEF Unbroken
  <2>5. QED  BY <1>1, <2>1, <2>2, <2>3, <2>4, RowFacts, MoveKeeps
<1>4. CASE /\ req' = [req EXCEPT ![r].chain = <<i>> \o @]
           /\ Stored!Found(i, req[r].owner, req[r].asked) /\ Len(req[r].chain) <= MaxDepth
  <2> DEFINE c == req[r].chain
  <2>1. i \in Stored!Ids /\ doc[i].there /\ c \in Seq(Stored!Ids) /\ c # << >> /\ i = doc[c[1]].prev
    <3>1. c \in Seq(Stored!Ids) /\ c # << >>  BY <1>0 DEF Asks, Knows
    <3>2. Head(c) = c[1]  BY <3>1
    <3>3. QED  BY <1>4, <3>1, <3>2 DEF Stored!Found, Stored!Older
  <2> DEFINE d == <<i>> \o c
  <2>2. /\ d \in Seq(Stored!Ids) /\ d # << >> /\ Len(d) = Len(c) + 1 /\ d[1] = i /\ Len(c) \in Nat /\ Len(c) > 0
        /\ \A n \in 1 .. Len(c) : d[n + 1] = c[n]
    <3> HIDE DEF i, c
    <3>1. QED  BY <2>1, Longer
  <2>3. z = [req[r] EXCEPT !.chain = d]  BY <1>0 DEF Asks
  <2>4. req' = [req EXCEPT ![r] = z] /\ req'[r] = z  BY <1>0, <1>4
  <2> HIDE DEF d, i, z
  <2>5. /\ z \in Asks /\ z.step = "walk" /\ z.prev = req[r].prev /\ z.chain = d
        /\ z.owner = req[r].owner /\ z.asked = req[r].asked
      BY <1>0, <2>2, <2>3 DEF Asks, Stored!Steps
  <2>6. Knows(r)'  BY <1>0, <1>1, <1>2, <2>2, <2>4, <2>5 DEF Knows, Ages
  <2>7. Unbroken(z, doc)
    <3>1. Len(d) <= MaxDepth + 1  BY <1>4, <2>2 DEF Sane
    <3>2. d[Len(d)] = z.prev
      <4> HIDE DEF c
      <4>0. Len(c) \in 1 .. Len(c)  BY <2>2
      <4>1. d[Len(c) + 1] = c[Len(c)]  BY <2>2, <4>0
      <4> USE DEF c
      <4>2. QED  BY <1>0, <2>1, <2>2, <2>5, <4>1 DEF Unbroken
    <3>3. ASSUME NEW n \in 1 .. Len(d) - 1 PROVE d[n] = doc[d[n + 1]].prev
      <4>1. n \in 1 .. Len(c) /\ d[n + 1] = c[n]  BY <2>2
      <4>2. CASE n = 1  BY <2>1, <2>2, <4>1, <4>2
      <4>3. CASE n # 1
        <5>1. n - 1 \in 1 .. Len(c) - 1 /\ (n - 1) + 1 = n /\ n - 1 \in 1 .. Len(c)  BY <2>2, <4>1, <4>3
        <5>2. d[n] = c[n - 1]  BY <2>2, <5>1
        <5>3. c[n - 1] = doc[c[n]].prev  BY <1>0, <5>1 DEF Unbroken
        <5>4. QED  BY <4>1, <5>2, <5>3
      <4>4. QED  BY <4>2, <4>3
    <3>4. QED  BY <2>5, <3>1, <3>2, <3>3 DEF Unbroken
  <2>8. \A n \in 1 .. Len(z.chain) : ~Fresh(z.chain[n])
    <3>1. ASSUME NEW n \in 1 .. Len(d) PROVE ~Fresh(d[n])
      <4>1. CASE n = 1  BY <2>1, <2>2, <4>1, ThereIsNotFresh
      <4>2. CASE n # 1
        <5>1. n - 1 \in 1 .. Len(c) /\ (n - 1) + 1 = n  BY <2>2, <4>2
        <5>2. d[n] = c[n - 1]  BY <2>2, <5>1
        <5>3. QED  BY <5>1, <5>2, RowFacts
      <4>3. QED  BY <4>1, <4>2
    <3>2. QED  BY <2>5, <3>1
  <2>9. z.step # "save" /\ (z.prev \in Stored!Ids => ~Fresh(z.prev))  BY <2>5, RowFacts
  <2>10. QED  BY <1>1, <2>4, <2>5, <2>6, <2>7, <2>8, <2>9, MoveKeeps
<1>5. QED  BY <1>3, <1>4 DEF Stored!Walk

LEMMA AnswerKeeps == ASSUME Sane, StoreKept, NEW r \in Askers, Stored!Answer(r) PROVE StoreKept'
<1>0. /\ req[r] \in Asks /\ doc \in [Stored!Ids -> Docs] /\ req \in [Askers -> Asks]
      /\ Knows(r) /\ Unbroken(req[r], doc) /\ req[r].step = "call" /\ ids \in 0 .. MaxResponses
      /\ UNCHANGED <<auth, doc, purging, promised>>
    BY RowFacts DEF Stored!Answer, Stored!At
<1>1. CASE Stored!End(r) /\ UNCHANGED ids  BY <1>0, <1>1, EndKeeps, NoAge
<1>2. CASE ids < MaxResponses /\ ids' = ids + 1 /\ req' = [req EXCEPT ![r].step = "save", ![r].id = ids']
  <2> DEFINE x == [req[r] EXCEPT !.step = "save", !.id = ids + 1]
  <2>1. ids + 1 \in Stored!Ids /\ ids' \in 0 .. MaxResponses /\ ids' = ids + 1
      BY <1>0, <1>2 DEF Stored!Ids, Sane
  <2>2. req' = [req EXCEPT ![r] = x]  BY <1>0, <1>2
  <2>3. /\ x \in Asks /\ x.step = "save" /\ x.id = ids + 1 /\ x.prev = req[r].prev /\ x.chain = req[r].chain
        /\ x.owner = req[r].owner /\ x.asked = req[r].asked
      BY <1>0, <2>1 DEF Asks, Stored!Steps
  <2> HIDE DEF x
  <2>4. req'[r] = x /\ \A q \in Askers \ {r} : req'[q] = req[q]  BY <1>0, <2>2
  <2>5. StoreTyped'  BY <1>0, <2>1, <2>2, <2>3 DEF StoreKept, StoreTyped
  <2>6. \A i \in Stored!Ids : Fresh(i)' => Fresh(i)
    <3>1. ASSUME NEW i \in Stored!Ids, Fresh(i)' PROVE Fresh(i)
      <4>1. CASE i > ids'  BY <1>0, <2>1, <4>1 DEF Fresh, Stored!Ids
      <4>2. CASE \E q \in Askers : req'[q].step = "save" /\ req'[q].id = i
        <5>1. PICK q \in Askers : req'[q].step = "save" /\ req'[q].id = i  BY <4>2
        <5>2. CASE q = r
          <6>1. i = ids + 1  BY <2>3, <2>4, <5>1, <5>2
          <6>2. QED  BY <1>0, <6>1 DEF Fresh
        <5>3. CASE q # r  BY <2>4, <5>1, <5>3 DEF Fresh, Stored!At
        <5>4. QED  BY <5>2, <5>3
      <4>3. QED  BY <3>1, <4>1, <4>2 DEF Fresh, Stored!At
    <3>2. QED  BY <3>1
  <2>7. FreshUnknown'
    <3>1. FreshUnknown  BY DEF StoreKept
    <3>2. ASSUME NEW i \in Stored!Ids, Fresh(i) PROVE
          /\ doc'[i] = Stored!Absent /\ i \notin promised' /\ \A j \in Stored!Ids : doc'[j].prev # i
          /\ \A q \in Askers : req'[q].prev # i /\ \A n \in 1 .. Len(req'[q].chain) : req'[q].chain[n] # i
      <4>1. doc'[i] = Stored!Absent /\ i \notin promised' /\ \A j \in Stored!Ids : doc'[j].prev # i
          BY <1>0, <3>1, <3>2 DEF FreshUnknown
      <4>2. \A q \in Askers : req'[q].prev = req[q].prev /\ req'[q].chain = req[q].chain
          BY <2>3, <2>4
      <4>3. QED  BY <3>1, <3>2, <4>1, <4>2 DEF FreshUnknown
    <3>3. QED  BY <2>6, <3>2 DEF FreshUnknown
  <2>8. FreshApart'
    <3>1. FreshApart /\ \A q \in Askers : Knows(q)  BY DEF StoreKept
    <3>2. \A q \in Askers : req[q].step = "save" => req[q].id \in 1 .. ids  BY <3>1 DEF Knows
    <3>3. ASSUME NEW q \in Askers, NEW u \in Askers, req'[q].step = "save", req'[u].step = "save",
                 req'[q].id = req'[u].id PROVE q = u
      <4>1. CASE q = r /\ u # r
        <5>1. req[u].id = ids + 1 /\ req[u].id \in 1 .. ids  BY <2>3, <2>4, <3>2, <3>3, <4>1
        <5>2. QED  BY <1>0, <5>1
      <4>2. CASE q # r /\ u = r
        <5>1. req[q].id = ids + 1 /\ req[q].id \in 1 .. ids  BY <2>3, <2>4, <3>2, <3>3, <4>2
        <5>2. QED  BY <1>0, <5>1
      <4>3. CASE q # r /\ u # r  BY <2>4, <3>1, <3>3, <4>3 DEF FreshApart, Stored!At
      <4>4. QED  BY <4>1, <4>2, <4>3
    <3>4. QED  BY <3>3 DEF FreshApart, Stored!At
  <2>9. ASSUME NEW q \in Askers PROVE Knows(q)'
    <3>1. Knows(q)  BY DEF StoreKept
    <3>2. CASE q = r
      <4>1. x.id \in 1 .. ids'  BY <1>0, <2>1, <2>3
      <4>2. QED  BY <1>0, <2>3, <2>4, <3>2, <4>1 DEF Knows
    <3>3. CASE q # r
      <4>1. req'[q] = req[q]  BY <2>4, <3>3
      <4>2. req[q].id \in 1 .. ids => req[q].id \in 1 .. ids'  BY <1>0, <2>1
      <4>3. QED  BY <1>0, <3>1, <4>1, <4>2 DEF Knows
    <3>4. QED  BY <3>2, <3>3
  <2>10. Stored!ConversationsHold'
    <3>1. \A q \in Askers : req'[q].prev = req[q].prev /\ req'[q].chain = req[q].chain
        BY <2>3, <2>4
    <3>2. Stored!ConversationsHold  BY DEF StoreKept
    <3>3. Stored!HistoryIsUnbroken'
        BY <1>0, <3>1, <3>2 DEF Stored!ConversationsHold, Stored!HistoryIsUnbroken
    <3>4. Stored!OneOwnerPerConversation' /\ Stored!ToldIsKept'
        BY <1>0, <3>2 DEF Stored!ConversationsHold, Stored!OneOwnerPerConversation, Stored!ToldIsKept
    <3>5. QED  BY <3>3, <3>4 DEF Stored!ConversationsHold
  <2>11. QED  BY <2>5, <2>7, <2>8, <2>9, <2>10 DEF StoreKept
<1>3. QED  BY <1>1, <1>2 DEF Stored!Answer

LEMMA SaveKeeps == ASSUME Sane, StoreKept, NEW r \in Askers, Stored!Save(r) PROVE StoreKept'
<1>0. /\ req[r] \in Asks /\ doc \in [Stored!Ids -> Docs] /\ req \in [Askers -> Asks]
      /\ Knows(r) /\ Unbroken(req[r], doc) /\ req[r].step = "save" /\ ids \in 0 .. MaxResponses
      /\ UNCHANGED <<auth, ids, purging, promised>>
      /\ FreshUnknown /\ FreshApart /\ \A q \in Askers : Knows(q)
    BY RowFacts DEF Stored!Save, Stored!At, StoreKept
<1>1. CASE Stored!End(r) /\ UNCHANGED doc  BY <1>0, <1>1, EndKeeps, NoAge
<1>2. CASE doc' = [doc EXCEPT ![req[r].id] = Stored!Document(r)] /\ req' = [req EXCEPT ![r].step = "tell"]
  <2> DEFINE x == [req[r] EXCEPT !.step = "tell"] i == req[r].id d == Stored!Document(r)
  <2>1. i \in Stored!Ids /\ i \in 1 .. ids /\ Fresh(i)
      BY <1>0 DEF Knows, Stored!Ids, Fresh, Stored!At, Sane
  <2>2. /\ d \in Docs /\ d.there /\ d.owner = req[r].owner /\ d.prev = req[r].prev
        /\ d.owner # None
      BY <1>0 DEF Stored!Document, Docs, Asks, Knows
  <2>3. req' = [req EXCEPT ![r] = x]  BY <1>0, <1>2
  <2>4. /\ x \in Asks /\ x.step = "tell" /\ x.id = i /\ x.prev = req[r].prev /\ x.chain = req[r].chain
        /\ x.owner = req[r].owner /\ x.asked = req[r].asked
      BY <1>0 DEF Asks, Stored!Steps
  <2> HIDE DEF x, d
  <2>5. /\ req'[r] = x /\ \A q \in Askers \ {r} : req'[q] = req[q]
        /\ doc'[i] = d /\ \A j \in Stored!Ids \ {i} : doc'[j] = doc[j]
        /\ doc' \in [Stored!Ids -> Docs]
    <3>1. doc' = [doc EXCEPT ![i] = d]  BY <1>2 DEF d
    <3>2. QED  BY <1>0, <2>1, <2>2, <2>3, <3>1
  <2> HIDE DEF i
  <2>6. StoreTyped'  BY <1>0, <2>3, <2>4, <2>5 DEF StoreKept, StoreTyped
  <2>7. /\ doc[i] = Stored!Absent /\ i \notin promised
        /\ \A j \in Stored!Ids : doc[j].prev # i
        /\ \A q \in Askers : req[q].prev # i /\ \A n \in 1 .. Len(req[q].chain) : req[q].chain[n] # i
      BY <1>0, <2>1 DEF FreshUnknown
  <2>8. \A j \in Stored!Ids : Fresh(j)' => Fresh(j) /\ j # i
    <3>1. ASSUME NEW j \in Stored!Ids, Fresh(j)' PROVE Fresh(j) /\ j # i
      <4>1. CASE j > ids'  BY <1>0, <2>1, <4>1 DEF Fresh
      <4>2. CASE \E q \in Askers : req'[q].step = "save" /\ req'[q].id = j
        <5>1. PICK q \in Askers : req'[q].step = "save" /\ req'[q].id = j  BY <4>2
        <5>2. q # r  BY <2>4, <2>5, <5>1
        <5>3. req[q].step = "save" /\ req[q].id = j  BY <2>5, <5>1, <5>2
        <5>4. j # i  BY <1>0, <5>2, <5>3 DEF FreshApart, Stored!At, i
        <5>5. QED  BY <5>3, <5>4 DEF Fresh, Stored!At
      <4>3. QED  BY <3>1, <4>1, <4>2 DEF Fresh, Stored!At
    <3>2. QED  BY <3>1
  <2>9. FreshUnknown'
    <3>1. ASSUME NEW j \in Stored!Ids, Fresh(j), j # i PROVE
          /\ doc'[j] = Stored!Absent /\ j \notin promised' /\ \A k \in Stored!Ids : doc'[k].prev # j
          /\ \A q \in Askers : req'[q].prev # j /\ \A n \in 1 .. Len(req'[q].chain) : req'[q].chain[n] # j
      <4>1. doc'[j] = Stored!Absent /\ j \notin promised'  BY <1>0, <2>5, <3>1 DEF FreshUnknown
      <4>2. \A q \in Askers : req'[q].prev = req[q].prev /\ req'[q].chain = req[q].chain
          BY <2>4, <2>5
      <4>3. \A q \in Askers : req'[q].prev # j /\ \A n \in 1 .. Len(req'[q].chain) : req'[q].chain[n] # j
          BY <1>0, <3>1, <4>2 DEF FreshUnknown
      <4>4. ASSUME NEW k \in Stored!Ids PROVE doc'[k].prev # j
        <5>1. req[r].prev # j /\ doc[k].prev # j  BY <1>0, <3>1 DEF FreshUnknown
        <5>2. QED  BY <2>2, <2>5, <5>1
      <4>5. QED  BY <4>1, <4>3, <4>4
    <3>2. QED  BY <2>8, <3>1 DEF FreshUnknown
  <2>10. FreshApart'  BY <1>0, <2>4, <2>5 DEF FreshApart, Stored!At
  <2>11. ASSUME NEW q \in Askers PROVE Knows(q)'
    <3>0. req[q] \in Asks /\ req[q].prev # i  BY <1>0, <2>7
    <3>1. req[q].prev # None => req[q].prev \in Stored!Ids /\ doc'[req[q].prev] = doc[req[q].prev]
        BY <2>5, <3>0 DEF Asks
    <3>2. CASE q = r
        BY <1>0, <2>1, <2>2, <2>4, <2>5, <3>1, <3>2 DEF Knows
    <3>3. CASE q # r
      <4>1. req'[q] = req[q] /\ Knows(q)  BY <1>0, <2>5, <3>3
      <4>2. req[q].step = "tell" => req[q].id \in Stored!Ids /\ req[q].id # i
          BY <1>0, <2>7, <4>1, AbsentFacts DEF Knows, Stored!Ids, Sane
      <4>3. QED  BY <1>0, <2>5, <3>1, <4>1, <4>2 DEF Knows
    <3>4. QED  BY <3>2, <3>3
  <2>12. Stored!ConversationsHold'
    <3>0. Stored!ConversationsHold  BY DEF StoreKept
    <3>1. Stored!OneOwnerPerConversation'
      <4>1. ASSUME NEW j \in Stored!Ids, doc'[j].owner # None, doc'[j].prev # None
            PROVE  LET before == doc'[doc'[j].prev].owner IN
                   before = doc'[j].owner \/ (before = None /\ doc'[j].owner = "anonymous")
        <5>1. CASE j = i
          <6>1. req[r].prev \in Stored!Ids \ {i} /\ MayContinue(doc[req[r].prev].owner, req[r].owner)
              BY <1>0, <2>2, <2>5, <2>7, <4>1, <5>1 DEF Knows, Asks
          <6>2. QED  BY <2>2, <2>5, <5>1, <6>1 DEF MayContinue
        <5>2. CASE j # i
          <6>1. doc'[j] = doc[j] /\ doc[j] \in Docs  BY <1>0, <2>5, <5>2
          <6>2. doc[j].prev \in Stored!Ids \ {i}  BY <2>7, <4>1, <6>1 DEF Docs
          <6>3. QED
              BY <2>5, <3>0, <4>1, <6>1, <6>2 DEF Stored!ConversationsHold, Stored!OneOwnerPerConversation
        <5>3. QED  BY <5>1, <5>2
      <4>2. QED  BY <4>1 DEF Stored!OneOwnerPerConversation
    <3>2. Stored!HistoryIsUnbroken'
      <4>1. ASSUME NEW q \in Askers PROVE Unbroken(req'[q], doc')
        <5>1. req'[q].prev = req[q].prev /\ req'[q].chain = req[q].chain  BY <2>4, <2>5
        <5>2. Unbroken(req[q], doc) /\ req[q].chain \in Seq(Stored!Ids)  BY RowFacts DEF Asks
        <5>3. \A n \in 1 .. Len(req[q].chain) - 1 : req[q].chain[n + 1] \in Stored!Ids \ {i}
          <6>1. \A n \in 1 .. Len(req[q].chain) - 1 : n + 1 \in 1 .. Len(req[q].chain)  BY <5>2
          <6>2. QED  BY <2>7, <5>2, <6>1
        <5>4. QED  BY <2>5, <5>1, <5>2, <5>3 DEF Unbroken
      <4>2. QED  BY <4>1 DEF Stored!HistoryIsUnbroken, Unbroken
    <3>3. Stored!ToldIsKept'
      <4>1. promised \subseteq Stored!Ids \ {i}  BY <2>7 DEF StoreKept, StoreTyped
      <4>2. QED  BY <1>0, <2>5, <3>0, <4>1 DEF Stored!ConversationsHold, Stored!ToldIsKept
    <3>4. QED  BY <3>1, <3>2, <3>3 DEF Stored!ConversationsHold
  <2>13. QED  BY <2>6, <2>9, <2>10, <2>11, <2>12 DEF StoreKept
<1>3. QED  BY <1>1, <1>2 DEF Stored!Save

LEMMA TellKeeps == ASSUME Sane, StoreKept, NEW r \in Askers, Stored!Tell(r) PROVE StoreKept'
<1> DEFINE i == req[r].id
<1>0. /\ req[r] \in Asks /\ Knows(r) /\ req[r].step = "tell" /\ doc \in [Stored!Ids -> Docs]
      /\ req \in [Askers -> Asks] /\ ids \in 0 .. MaxResponses
    BY RowFacts DEF Stored!Tell, Stored!At
<1>1. /\ i \in Stored!Ids /\ doc[i].owner # None /\ (doc[i].there \/ doc[i].expired) /\ ~Fresh(i)
    BY <1>0, ThereIsNotFresh DEF Knows, Stored!Ids, Sane
<1>2. /\ promised' = promised \cup {i} /\ doc' = doc /\ UNCHANGED <<auth, ids, purging>>
      /\ req' = [req EXCEPT ![r] = Stored!Idle]
    BY DEF Stored!Tell, Stored!End
<1>3. Stored!Idle \in Asks /\ Stored!Idle.step = "idle" /\ Stored!Idle.prev = None /\ Stored!Idle.chain = << >>
    BY IdleAsks
<1>4. req'[r] = Stored!Idle  BY <1>0, <1>2
<1>5. Knows(r)'  BY <1>3, <1>4 DEF Knows
<1>6. Unbroken(Stored!Idle, doc)  BY <1>3 DEF Unbroken, Sane
<1>7. \A n \in 1 .. Len(Stored!Idle.chain) : ~Fresh(Stored!Idle.chain[n])  BY <1>3
<1>8. Stored!Idle.prev \notin Stored!Ids  BY <1>3 DEF Sane, Stored!Ids
<1>9. Ages  BY <1>2, NoAge
<1> HIDE DEF i
<1>10. QED  BY <1>0, <1>1, <1>2, <1>3, <1>5, <1>6, <1>7, <1>8, <1>9, MoveKeeps

LEMMA ExpireKeeps == ASSUME Sane, StoreKept, NEW i \in Stored!Ids, Stored!Expire(i) PROVE StoreKept'
<1>0. doc \in [Stored!Ids -> Docs]  BY DEF StoreKept, StoreTyped
<1>1. /\ doc[i].there /\ doc' = [doc EXCEPT ![i] = [doc[i] EXCEPT !.expired = TRUE]]
      /\ UNCHANGED <<auth, ids, purging, req, promised>>
    BY DEF Stored!Expire
<1>2. [doc[i] EXCEPT !.expired = TRUE] \in Docs  BY <1>0 DEF Docs
<1>3. /\ doc'[i].owner = doc[i].owner /\ doc'[i].prev = doc[i].prev /\ doc'[i].expired
      /\ doc[i] # Stored!Absent /\ \A j \in Stored!Ids : j # i => doc'[j] = doc[j]
    BY <1>0, <1>1, <1>2, AbsentFacts DEF Docs
<1>4. Ages /\ doc' \in [Stored!Ids -> Docs]  BY <1>0, <1>1, <1>2, <1>3 DEF Ages
<1>5. QED  BY <1>1, <1>4, AgeKeeps DEF StoreKept, StoreTyped

LEMMA PurgeKeeps == ASSUME Sane, StoreKept, NEW i \in Stored!Ids, Stored!Purge(i) PROVE StoreKept'
<1>1. doc \in [Stored!Ids -> Docs] /\ auth \in BOOLEAN /\ purging \in BOOLEAN  BY DEF StoreKept, StoreTyped
<1>2. doc[i].expired /\ doc' = [doc EXCEPT ![i].there = FALSE] /\ UNCHANGED <<auth, ids, purging, req, promised>>
    BY DEF Stored!Purge, Stored!Old
<1>3. Ages /\ doc' \in [Stored!Ids -> Docs]  BY <1>1, <1>2, GoneAges
<1>4. QED  BY <1>1, <1>2, <1>3, AgeKeeps

LEMMA RestartKeeps == ASSUME Sane, StoreKept, Stored!Restart PROVE StoreKept'
<1>1. /\ \A q \in Askers : req'[q] = Stored!Idle
      /\ req' = [r \in Askers |-> Stored!Idle] /\ purging' = TRUE /\ UNCHANGED <<auth, doc, ids, promised>>
    BY DEF Stored!Restart
<1>2. Stored!Idle \in Asks /\ Stored!Idle.step = "idle" /\ Stored!Idle.prev = None /\ Stored!Idle.chain = << >>
    BY IdleAsks
<1>3. StoreTyped /\ FreshUnknown /\ Stored!ConversationsHold  BY DEF StoreKept
<1>4. StoreTyped'  BY <1>1, <1>2, <1>3 DEF StoreTyped
<1>5. FreshUnknown'
  <2>1. \A i \in Stored!Ids : Fresh(i)' => Fresh(i)  BY <1>1, <1>2 DEF Fresh, Stored!At
  <2>2. \A q \in Askers : req'[q].prev \notin Stored!Ids /\ req'[q].chain = << >>
      BY <1>1, <1>2 DEF Sane, Stored!Ids
  <2>3. QED  BY <1>1, <1>3, <2>1, <2>2 DEF FreshUnknown
<1>6. FreshApart' /\ \A q \in Askers : Knows(q)'  BY <1>1, <1>2 DEF FreshApart, Stored!At, Knows
<1>7. Stored!HistoryIsUnbroken'
  <2>1. \A q \in Askers : Unbroken(req'[q], doc')  BY <1>1, <1>2 DEF Unbroken, Sane
  <2>2. QED  BY <2>1 DEF Stored!HistoryIsUnbroken, Unbroken
<1>8. Stored!OneOwnerPerConversation' /\ Stored!ToldIsKept'
    BY <1>1, <1>3 DEF Stored!ConversationsHold, Stored!OneOwnerPerConversation, Stored!ToldIsKept
<1>9. QED  BY <1>4, <1>5, <1>6, <1>7, <1>8 DEF StoreKept, Stored!ConversationsHold

LEMMA InitKept == ASSUME Sane, Stored!Init PROVE StoreKept
<1>1. PICK legacy \in BOOLEAN :
         /\ doc = [i \in Stored!Ids |-> IF legacy /\ i = 1 THEN [Stored!Absent EXCEPT !.there = TRUE] ELSE Stored!Absent]
         /\ ids = IF legacy THEN 1 ELSE 0
    BY DEF Stored!Init
<1>2. Stored!Idle \in Asks /\ Stored!Idle.step = "idle" /\ Stored!Idle.prev = None /\ Stored!Idle.chain = << >>
    BY IdleAsks
<1>3. /\ auth \in BOOLEAN /\ purging = TRUE /\ promised = {} /\ req = [r \in Askers |-> Stored!Idle]
    BY DEF Stored!Init
<1>4. Stored!Absent \in Docs /\ Stored!Absent.owner = None /\ Stored!Absent.prev = None /\ ~Stored!Absent.there /\ ~Stored!Absent.expired
    BY AbsentFacts
<1>5. /\ [Stored!Absent EXCEPT !.there = TRUE] \in Docs /\ [Stored!Absent EXCEPT !.there = TRUE].owner = None
      /\ [Stored!Absent EXCEPT !.there = TRUE].prev = None
    BY <1>4 DEF Docs
<1>6. doc \in [Stored!Ids -> Docs] /\ \A i \in Stored!Ids : doc[i].owner = None /\ doc[i].prev = None
    BY <1>1, <1>4, <1>5
<1>7. StoreTyped
  <2>1. ids \in 0 .. MaxResponses /\ req \in [Askers -> Asks]  BY <1>1, <1>2, <1>3 DEF Sane
  <2>2. QED  BY <1>3, <1>6, <2>1 DEF StoreTyped
<1>8. FreshUnknown
  <2>1. ASSUME NEW i \in Stored!Ids, Fresh(i) PROVE doc[i] = Stored!Absent
      BY <1>1, <1>2, <1>3, <2>1 DEF Fresh, Stored!At, Stored!Ids, Sane
  <2>2. \A q \in Askers : req[q].prev \notin Stored!Ids /\ req[q].chain = << >>
      BY <1>2, <1>3 DEF Sane, Stored!Ids
  <2>3. \A i, j \in Stored!Ids : doc[j].prev # i  BY <1>6 DEF Sane, Stored!Ids
  <2>4. QED  BY <1>3, <2>1, <2>2, <2>3 DEF FreshUnknown
<1>9. FreshApart /\ \A q \in Askers : Knows(q)  BY <1>2, <1>3 DEF FreshApart, Stored!At, Knows
<1>10. Stored!HistoryIsUnbroken
  <2>1. \A q \in Askers : Unbroken(req[q], doc)  BY <1>2, <1>3 DEF Unbroken, Sane
  <2>2. QED  BY <2>1 DEF Stored!HistoryIsUnbroken, Unbroken
<1>11. Stored!OneOwnerPerConversation /\ Stored!ToldIsKept
    BY <1>3, <1>6 DEF Stored!OneOwnerPerConversation, Stored!ToldIsKept
<1>12. QED  BY <1>7, <1>8, <1>9, <1>10, <1>11 DEF StoreKept, Stored!ConversationsHold

LEMMA NextKept == ASSUME Sane PROVE StoreKept /\ [Stored!Next]_(Stored!vars) => StoreKept'
<1> SUFFICES ASSUME StoreKept, [Stored!Next]_(Stored!vars) PROVE StoreKept'  OBVIOUS
<1>0. doc \in [Stored!Ids -> Docs] /\ auth \in BOOLEAN /\ purging \in BOOLEAN  BY DEF StoreKept, StoreTyped
<1>1. CASE UNCHANGED Stored!vars \/ Stored!EndPurge \/ Stored!Toggle
  <2>1. UNCHANGED <<ids, req, promised, doc>> /\ auth' \in BOOLEAN /\ purging' \in BOOLEAN
      BY <1>0, <1>1 DEF Stored!vars, Stored!EndPurge, Stored!Toggle
  <2>2. QED  BY <1>0, <2>1, NoAge, AgeKeeps
<1>2. CASE Stored!Next
  BY <1>1, <1>2, AuthenticateKeeps, BeginKeeps, WalkKeeps, AnswerKeeps, SaveKeeps, TellKeeps,
     ExpireKeeps, PurgeKeeps, RestartKeeps DEF Stored!Next
<1>3. QED  BY <1>1, <1>2

\* One owner per conversation, no gap in the history sent upstream, and nothing told of as
\* stored that cannot be continued until it expires: for any requests and keys, whatever
\* expires, is purged or switched meanwhile, through any number of restarts
\* (handleOpenAIResponses, collectAncestorChain, saveResponse, purgeExpiredResponses).
THEOREM ConversationsAreKept == ASSUME Sane PROVE Stored!Spec => []Stored!ConversationsHold
<1>1. StoreKept => Stored!ConversationsHold  BY DEF StoreKept
<1>2. QED  BY <1>1, InitKept, NextKept, PTL DEF Stored!Spec

(***************************************************************************)
(* The statistics                                                          *)
(*                                                                         *)
(* The totals are the sums of the providers' counts, and what a provider's *)
(* series add up to stays within its counts: of the store, of a snapshot   *)
(* on its way to the file and of every file written whole, so that a       *)
(* restart finds books that add up.  Within the window the ring of recent  *)
(* events has none that its provider's minutes lack, so that a reset,      *)
(* which rebuilds the minutes of all traffic from the ring, stays within   *)
(* the providers'.                                                         *)
(***************************************************************************)
Outcomes == {"success", "failed", "canceled"}
Timed    == {"requests", "success", "failed"}
Counted  == Timed \cup {"canceled"}

\* What a request may report, and the bounds.
Reporting ==
    /\ \A ev \in Events : {"provider", "outcome"} \subseteq DOMAIN ev /\ ev.outcome \in Outcomes
    /\ HourMinutes \in Nat \ {0} /\ Window \in Nat /\ HourWindow \in Nat
    /\ RingCapacity \in Nat /\ MaxEvents \in Nat

\* The events that may have been recorded by the minute t.
Rows(t) == {Statistics!Put(ev, "minute", m) : ev \in Events, m \in 0 .. t}

\* The sum of one field of counters or buckets, and whether it stays within a counter's.
SumOf(m, k) == SumFunctionOnSet([i \in DOMAIN m |-> m[i][k]], DOMAIN m)
Within(fields, m, c) ==
    /\ IsFiniteSet(DOMAIN m)
    /\ \A i \in DOMAIN m : m[i] \in [fields -> Nat]
    /\ \A k \in fields : SumOf(m, k) <= c[k]

\* A provider's aggregate: the series have no key of the future.
Aggregate(a, t) ==
    /\ {"count", "byAccount", "minutes", "hours"} \subseteq DOMAIN a
    /\ a.count \in [Counted -> Nat]
    /\ a.count["requests"] = a.count["success"] + a.count["failed"] + a.count["canceled"]
    /\ Within(Timed, a.minutes, a.count) /\ DOMAIN a.minutes \subseteq 0 .. t
    /\ Within(Timed, a.hours, a.count) /\ DOMAIN a.hours \subseteq 0 .. Statistics!HourOf(t)
    /\ Within(Counted, a.byAccount, a.count)

\* Totals and aggregates that add up.
Books(overall, byProvider, t) ==
    /\ overall \in [Counted -> Nat]
    /\ IsFiniteSet(DOMAIN byProvider)
    /\ \A p \in DOMAIN byProvider : Aggregate(byProvider[p], t)
    /\ \A k \in Counted :
          overall[k] = SumFunctionOnSet([p \in DOMAIN byProvider |-> byProvider[p].count[k]], DOMAIN byProvider)

----------------------------------------------------------------------------
LEMMA SameSum == \A f, S : Statistics!SumFunctionOnSet(f, S) = SumFunctionOnSet(f, S)
BY DEF SumFunctionOnSet, FoldFunctionOnSet, MapThenFoldSet,
       Statistics!SumFunctionOnSet, Statistics!FoldFunctionOnSet, Statistics!MapThenFoldSet

LEMMA SameFilter == \A s, S : Statistics!Kept(s, S) = Kept(s, S)
BY DEF Statistics!Kept, Kept, Statistics!FlattenSeq, FlattenSeq

LEMMA SameSize == \A S : Statistics!Cardinality(S) = Cardinality(S)
BY DEF Statistics!Cardinality, Cardinality

LEMMA LargerOf == ASSUME NEW a \in Int, NEW b \in Int PROVE
    Statistics!Max({a, b}) = IF a >= b THEN a ELSE b
BY DEF Statistics!Max

LEMMA SmallerOf == ASSUME NEW a \in Int, NEW b \in Int PROVE
    Statistics!Min({a, b}) = IF a <= b THEN a ELSE b
BY DEF Statistics!Min

LEMMA QuotientsGrow == ASSUME NEW a \in Nat, NEW b \in Nat, a <= b, NEW d \in Nat \ {0}
    PROVE  a \div d \in 0 .. b \div d /\ b \div d \in Nat
<1> DEFINE p == a \div d
           q == b \div d
<1>1. p \in Nat /\ q \in Nat  OBVIOUS
<1>2. a = d * p + (a % d) /\ b = d * q + (b % d) /\ a % d \in 0 .. d - 1 /\ b % d \in 0 .. d - 1
    OBVIOUS
<1> HIDE DEF p, q
<1>3. ASSUME p > q PROVE FALSE
  <2> DEFINE x == p - (q + 1)
  <2>1. x \in Nat /\ p = q + 1 + x  BY <1>1, <1>3
  <2> HIDE DEF x
  <2>2. d * p = d * q + d + d * x  BY <1>1, <2>1
  <2>3. d * x \in Nat /\ d * q \in Nat /\ d * p \in Nat  BY <1>1, <2>1
  <2>4. QED  BY <1>2, <2>2, <2>3
<1>4. QED  BY <1>1, <1>3 DEF p, q

LEMMA HoursGrow == ASSUME Reporting, NEW a \in Nat, NEW b \in Nat, a <= b
    PROVE  Statistics!HourOf(a) \in 0 .. Statistics!HourOf(b) /\ Statistics!HourOf(b) \in Nat
BY QuotientsGrow DEF Reporting, Statistics!HourOf

LEMMA EventFacts == ASSUME Reporting, NEW t \in Nat, NEW e \in Rows(t) PROVE
    e.minute \in 0 .. t /\ e.outcome \in Outcomes
<1>1. PICK ev \in Events, m \in 0 .. t : e = Statistics!Put(ev, "minute", m)  BY DEF Rows
<1>2. "outcome" \in DOMAIN ev /\ ev.outcome \in Outcomes  BY DEF Reporting
<1>3. e["minute"] = m /\ e["outcome"] = ev["outcome"]  BY <1>1, <1>2 DEF Statistics!Put
<1>4. QED  BY <1>2, <1>3

LEMMA ZeroFacts ==
    /\ Statistics!Zero \in [Counted -> Nat] /\ DOMAIN Statistics!Zero = Counted
    /\ \A k \in Counted : Statistics!Zero[k] = 0
    /\ Statistics!NoTime \in [Timed -> Nat] /\ DOMAIN Statistics!NoTime = Timed
    /\ \A k \in Timed : Statistics!NoTime[k] = 0
    /\ DOMAIN Statistics!Empty = {}
BY DEF Statistics!Zero, Statistics!NoTime, Statistics!Empty, Counted, Timed

\* The sums the statistics are written with.
LEMMA TotalIs == \A m :
    /\ DOMAIN Statistics!Total(Statistics!Zero, m) = Counted
    /\ DOMAIN Statistics!Total(Statistics!NoTime, m) = Timed
    /\ \A k \in Counted : Statistics!Total(Statistics!Zero, m)[k] = SumOf(m, k)
    /\ \A k \in Timed : Statistics!Total(Statistics!NoTime, m)[k] = SumOf(m, k)
BY ZeroFacts, SameSum DEF Statistics!Total, SumOf

LEMMA Tallied == ASSUME NEW F \in SUBSET Counted, NEW c \in [F -> Nat], NEW e PROVE
    /\ Statistics!Add(c, e) \in [F -> Nat]
    /\ \A k \in F : Statistics!Add(c, e)[k] = c[k] + IF k \in {"requests", e.outcome} THEN 1 ELSE 0
BY DEF Statistics!Add

LEMMA PutFacts == \A f, k, v :
    /\ DOMAIN Statistics!Put(f, k, v) = DOMAIN f \cup {k} /\ Statistics!Put(f, k, v)[k] = v
    /\ \A x \in DOMAIN f \ {k} : Statistics!Put(f, k, v)[x] = f[x]
BY DEF Statistics!Put

LEMMA SumOfNat == ASSUME NEW F, NEW m, IsFiniteSet(DOMAIN m), \A i \in DOMAIN m : m[i] \in [F -> Nat], NEW k \in F
    PROVE  SumOf(m, k) \in Nat
<1>1. \A i \in DOMAIN m : [j \in DOMAIN m |-> m[j][k]][i] \in Nat  OBVIOUS
<1>2. QED  BY <1>1, SumSteps DEF SumOf

\* What stays within a counter stays within a larger one,
LEMMA WithinMore == ASSUME NEW F, NEW m, NEW c, NEW d, Within(F, m, c),
           \A k \in F : c[k] \in Nat /\ d[k] \in Nat /\ c[k] <= d[k]
    PROVE  Within(F, m, d)
<1>1. \A k \in F : SumOf(m, k) \in Nat  BY SumOfNat DEF Within
<1>2. QED  BY <1>1 DEF Within

\* also when it is pruned,
LEMMA PrunedWithin == ASSUME NEW F, NEW m, NEW c \in [F -> Nat], Within(F, m, c), NEW cut
    PROVE  Within(F, Statistics!Prune(m, cut), c) /\ DOMAIN Statistics!Prune(m, cut) \subseteq DOMAIN m
<1> DEFINE q == Statistics!Prune(m, cut)
<1>1. DOMAIN q \in SUBSET DOMAIN m /\ \A i \in DOMAIN q : q[i] = m[i]  BY DEF Statistics!Prune
<1>2. IsFiniteSet(DOMAIN q) /\ \A i \in DOMAIN q : q[i] \in [F -> Nat]
  <2> HIDE DEF q
  <2> QED  BY <1>1, FS_Subset DEF Within
<1>3. ASSUME NEW k \in F PROVE SumOf(q, k) <= c[k]
  <2> DEFINE f == [i \in DOMAIN m |-> m[i][k]]
             g == [i \in DOMAIN q |-> q[i][k]]
  <2> HIDE DEF q
  <2>1. \A i \in DOMAIN m : f[i] \in Nat  BY DEF Within
  <2>2. \A i \in DOMAIN q : g[i] \in Nat /\ g[i] <= f[i]  BY <1>1, <2>1
  <2>3. IsFiniteSet(DOMAIN m)  BY DEF Within
  <2> HIDE DEF f, g
  <2>4. SumFunctionOnSet(g, DOMAIN q) <= SumFunctionOnSet(f, DOMAIN m)  BY <1>1, <2>1, <2>2, <2>3, SumIsLess
  <2>5. SumOf(q, k) <= SumOf(m, k)  BY <2>4 DEF f, g, SumOf
  <2>6. SumOf(q, k) \in Nat /\ SumOf(m, k) \in Nat /\ SumOf(m, k) <= c[k]  BY <1>2, SumOfNat DEF Within
  <2>7. QED  BY <2>5, <2>6
<1>4. QED  BY <1>1, <1>2, <1>3 DEF Within

\* and when both count one event more.
LEMMA AddedWithin == ASSUME NEW F \in SUBSET Counted, NEW m, NEW c \in [F -> Nat], Within(F, m, c), NEW key, NEW e,
           NEW zero \in [F -> Nat], \A k \in F : zero[k] = 0
    PROVE  Within(F, Statistics!Put(m, key, Statistics!Add(Statistics!At(m, key, zero), e)), Statistics!Add(c, e))
<1> DEFINE old == Statistics!At(m, key, zero)
           n   == Statistics!Put(m, key, Statistics!Add(old, e))
           One(k) == IF k \in {"requests", e.outcome} THEN 1 ELSE 0
<1>0. IsFiniteSet(DOMAIN m) /\ \A i \in DOMAIN m : m[i] \in [F -> Nat]  BY DEF Within
<1>1. old \in [F -> Nat] /\ \A k \in F : old[k] = IF key \in DOMAIN m THEN m[key][k] ELSE 0
    BY <1>0 DEF Statistics!At
<1> HIDE DEF old
<1>2. Statistics!Add(old, e) \in [F -> Nat] /\ \A k \in F : Statistics!Add(old, e)[k] = old[k] + One(k)
    BY <1>1, Tallied
<1>3. Statistics!Add(c, e) \in [F -> Nat] /\ \A k \in F : Statistics!Add(c, e)[k] = c[k] + One(k)
    BY Tallied
<1>4. /\ DOMAIN n = DOMAIN m \cup {key} /\ n[key] = Statistics!Add(old, e)
      /\ \A x \in DOMAIN m \ {key} : n[x] = m[x]
    BY DEF Statistics!Put
<1>5. IsFiniteSet(DOMAIN n) /\ \A i \in DOMAIN n : n[i] \in [F -> Nat]
  <2> HIDE DEF n
  <2> QED  BY <1>0, <1>2, <1>4, FS_AddElement
<1>6. ASSUME NEW k \in F PROVE SumOf(n, k) <= Statistics!Add(c, e)[k]
  <2> DEFINE f == [i \in DOMAIN m |-> m[i][k]]
             g == [i \in DOMAIN m \cup {key} |-> n[i][k]]
  <2>0. One(k) \in Nat  OBVIOUS
  <2> HIDE DEF n, One
  <2>1. \A i \in DOMAIN m : f[i] \in Nat  BY <1>0
  <2>2. /\ \A i \in DOMAIN m \ {key} : g[i] = f[i]
        /\ g[key] = (IF key \in DOMAIN m THEN f[key] ELSE 0) + One(k)
    BY <1>1, <1>2, <1>4
  <2>3. SumFunctionOnSet(g, DOMAIN m \cup {key}) = SumFunctionOnSet(f, DOMAIN m) + One(k)
    <3> DEFINE S == DOMAIN m
               d == One(k)
    <3>1. /\ IsFiniteSet(S) /\ d \in Nat /\ \A i \in S : f[i] \in Nat
          /\ \A i \in S \ {key} : g[i] = f[i]
          /\ g[key] = (IF key \in S THEN f[key] ELSE 0) + d /\ g[key] \in Nat
        BY <1>0, <2>0, <2>1, <2>2
    <3>2. SumFunctionOnSet(f, S) \in Nat /\ SumFunctionOnSet(g, S \cup {key}) \in Nat
      <4>1. \A i \in S \cup {key} : g[i] \in Nat  BY <3>1
      <4> HIDE DEF S, d, f, g
      <4>2. IsFiniteSet(S \cup {key})  BY <3>1, FS_AddElement
      <4>3. QED  BY <3>1, <4>1, <4>2, SumSteps
    <3>3. SumFunctionOnSet(g, S \cup {key}) + (IF key \in S THEN f[key] ELSE 0) = SumFunctionOnSet(f, S) + g[key]
      <4> HIDE DEF S, d, f, g
      <4> QED  BY <3>1, SumReplaces
    <3>4. SumFunctionOnSet(g, S \cup {key}) = SumFunctionOnSet(f, S) + d
      <4> HIDE DEF S, d, f, g
      <4> QED  BY <3>1, <3>2, <3>3
    <3>5. QED  BY <3>4
  <2> HIDE DEF f, g
  <2>4. SumOf(n, k) = SumFunctionOnSet(g, DOMAIN m \cup {key})  BY <1>4, Zenon DEF SumOf, g
  <2>5. SumOf(m, k) = SumFunctionOnSet(f, DOMAIN m)  BY DEF SumOf, f
  <2>6. SumOf(m, k) \in Nat /\ SumOf(m, k) <= c[k]  BY <1>0, SumOfNat DEF Within
  <2>7. QED  BY <1>3, <2>0, <2>3, <2>4, <2>5, <2>6
<1>7. Within(F, n, Statistics!Add(c, e))
  <2> HIDE DEF n
  <2> QED  BY <1>5, <1>6 DEF Within
<1>8. QED  BY <1>7 DEF old

\* The series gain a key that is not of the future and lose old ones.
LEMMA BumpedWithin == ASSUME NEW m, NEW c \in [Timed -> Nat], Within(Timed, m, c), NEW key, NEW e, NEW window
    PROVE  /\ Within(Timed, Statistics!Bump(m, key, e, window), Statistics!Add(c, e))
           /\ DOMAIN Statistics!Bump(m, key, e, window) \subseteq DOMAIN m \cup {key}
<1> DEFINE n == Statistics!Put(m, key, Statistics!Add(Statistics!At(m, key, Statistics!NoTime), e))
<1>1. Timed \in SUBSET Counted  BY DEF Counted
<1>2. Statistics!Add(c, e) \in [Timed -> Nat]  BY <1>1, Tallied
<1>3. Within(Timed, n, Statistics!Add(c, e))  BY <1>1, ZeroFacts, AddedWithin
<1>4. DOMAIN n = DOMAIN m \cup {key}  BY DEF Statistics!Put
<1> HIDE DEF n
<1>5. Statistics!Bump(m, key, e, window) = Statistics!Prune(n, key - window)  BY DEF Statistics!Bump, n
<1>6. QED  BY <1>2, <1>3, <1>4, <1>5, PrunedWithin

\* Without a field a counter counts as before.
LEMMA TimedPart == ASSUME NEW c \in [Counted -> Nat], NEW m, NEW e PROVE
    /\ [k \in Timed |-> c[k]] \in [Timed -> Nat]
    /\ Within(Timed, m, c) <=> Within(Timed, m, [k \in Timed |-> c[k]])
    /\ Statistics!Add([k \in Timed |-> c[k]], e) = [k \in Timed |-> Statistics!Add(c, e)[k]]
    /\ Within(Timed, m, Statistics!Add(c, e)) <=> Within(Timed, m, Statistics!Add([k \in Timed |-> c[k]], e))
<1> DEFINE d == [k \in Timed |-> c[k]]
<1>1. Timed \subseteq Counted /\ d \in [Timed -> Nat] /\ \A k \in Timed : d[k] = c[k]  BY DEF Counted
<1>2. Statistics!Add(d, e) = [k \in Timed |-> Statistics!Add(c, e)[k]]  BY <1>1 DEF Statistics!Add
<1>3. \A k \in Timed : Statistics!Add(d, e)[k] = Statistics!Add(c, e)[k]
  <2> HIDE DEF d
  <2> QED  BY <1>2
<1> HIDE DEF d
<1>4. Within(Timed, m, c) <=> Within(Timed, m, d)  BY <1>1 DEF Within
<1>5. Within(Timed, m, Statistics!Add(c, e)) <=> Within(Timed, m, Statistics!Add(d, e))  BY <1>3 DEF Within
<1>6. QED  BY <1>1, <1>2, <1>4, <1>5 DEF d

LEMMA SeriesBumped == ASSUME NEW m, NEW c \in [Counted -> Nat], Within(Timed, m, c), NEW n \in Nat,
           DOMAIN m \subseteq 0 .. n, NEW key \in 0 .. n, NEW e, NEW window
    PROVE  /\ Within(Timed, Statistics!Bump(m, key, e, window), Statistics!Add(c, e))
           /\ DOMAIN Statistics!Bump(m, key, e, window) \subseteq 0 .. n
<1> DEFINE d == [k \in Timed |-> c[k]]
           b == Statistics!Bump(m, key, e, window)
<1>1. d \in [Timed -> Nat] /\ Within(Timed, m, d)  BY TimedPart
<1> HIDE DEF d
<1>2. Within(Timed, b, Statistics!Add(d, e)) /\ DOMAIN b \subseteq DOMAIN m \cup {key}  BY <1>1, BumpedWithin
<1>3. Within(Timed, b, Statistics!Add(c, e)) <=> Within(Timed, b, Statistics!Add(d, e))
  <2> HIDE DEF b
  <2> QED  BY TimedPart DEF d
<1> HIDE DEF b
<1>4. Within(Timed, b, Statistics!Add(c, e)) /\ DOMAIN b \subseteq 0 .. n  BY <1>2, <1>3
<1>5. QED  BY <1>4 DEF b

LEMMA EmptyWithin == ASSUME NEW F, NEW c, \A k \in F : c[k] \in Nat PROVE Within(F, Statistics!Empty, c)
<1>1. DOMAIN Statistics!Empty = {}  BY ZeroFacts
<1>2. \A k \in F : SumOf(Statistics!Empty, k) = 0
  <2> TAKE k \in F
  <2> DEFINE f == [i \in DOMAIN Statistics!Empty |-> Statistics!Empty[i][k]]
  <2> HIDE DEF f
  <2>1. SumFunctionOnSet(f, {}) = 0  BY FS_EmptySet, SumOfNone
  <2>2. QED  BY <1>1, <2>1, Zenon DEF SumOf, f
<1>3. IsFiniteSet(DOMAIN Statistics!Empty)  BY <1>1, FS_EmptySet, Zenon
<1>4. QED  BY <1>1, <1>2, <1>3 DEF Within

LEMMA FreshAggregate == ASSUME NEW t \in Nat PROVE
    Aggregate(Statistics!NewProvider, t) /\ Statistics!NewProvider.count = Statistics!Zero
<1> DEFINE a == Statistics!NewProvider
<1>1. /\ {"count", "byAccount", "minutes", "hours"} \subseteq DOMAIN a /\ a.count = Statistics!Zero
      /\ a.minutes = Statistics!Empty /\ a.hours = Statistics!Empty /\ a.byAccount = Statistics!Empty
    BY DEF Statistics!NewProvider
<1> HIDE DEF a
<1>2. Within(Timed, Statistics!Empty, Statistics!Zero) /\ Within(Counted, Statistics!Empty, Statistics!Zero)
    BY ZeroFacts, EmptyWithin DEF Counted
<1>3. /\ Statistics!Zero["requests"] = 0 /\ Statistics!Zero["success"] = 0
      /\ Statistics!Zero["failed"] = 0 /\ Statistics!Zero["canceled"] = 0
    BY DEF Statistics!Zero
<1>4. QED  BY <1>1, <1>2, <1>3, ZeroFacts DEF Aggregate, a

LEMMA RecordedFields == ASSUME NEW a, {"count", "byAccount", "minutes", "hours"} \subseteq DOMAIN a, NEW e
    PROVE  LET r == Statistics!RecordProvider(a, e) IN
           /\ DOMAIN r = DOMAIN a
           /\ r.count = Statistics!Add(a.count, e)
           /\ r.byAccount = IF e.account = None THEN a.byAccount ELSE
                 Statistics!Put(a.byAccount, e.account,
                                Statistics!Add(Statistics!At(a.byAccount, e.account, Statistics!Zero), e))
           /\ r.minutes = Statistics!Bump(a.minutes, e.minute, e, Window)
           /\ r.hours = Statistics!Bump(a.hours, Statistics!HourOf(e.minute), e, HourWindow)
BY DEF Statistics!RecordProvider

\* Recording keeps an aggregate whole.
LEMMA AggregateRecorded == ASSUME Reporting, NEW t \in Nat, NEW e \in Rows(t), NEW a, Aggregate(a, t)
    PROVE  Aggregate(Statistics!RecordProvider(a, e), t)
<1> DEFINE r == Statistics!RecordProvider(a, e)
           c == a.count
           d == Statistics!Add(c, e)
           One(k) == IF k \in {"requests", e.outcome} THEN 1 ELSE 0
<1>1. /\ DOMAIN r = DOMAIN a /\ r.count = d
      /\ r.byAccount = IF e.account = None THEN a.byAccount ELSE
            Statistics!Put(a.byAccount, e.account,
                           Statistics!Add(Statistics!At(a.byAccount, e.account, Statistics!Zero), e))
      /\ r.minutes = Statistics!Bump(a.minutes, e.minute, e, Window)
      /\ r.hours = Statistics!Bump(a.hours, Statistics!HourOf(e.minute), e, HourWindow)
    BY RecordedFields DEF Aggregate
<1>2. /\ c \in [Counted -> Nat] /\ c["requests"] = c["success"] + c["failed"] + c["canceled"]
      /\ Within(Timed, a.minutes, c) /\ DOMAIN a.minutes \subseteq 0 .. t
      /\ Within(Timed, a.hours, c) /\ DOMAIN a.hours \subseteq 0 .. Statistics!HourOf(t)
      /\ Within(Counted, a.byAccount, c)
    BY DEF Aggregate
<1>3. e.minute \in 0 .. t /\ e.outcome \in Outcomes  BY EventFacts
<1>4. Statistics!HourOf(e.minute) \in 0 .. Statistics!HourOf(t)  BY <1>3, HoursGrow
<1> HIDE DEF r, c
<1>5. d \in [Counted -> Nat] /\ \A k \in Counted : d[k] = c[k] + One(k)  BY <1>2, Tallied
<1>6. d["requests"] = d["success"] + d["failed"] + d["canceled"]
    BY <1>2, <1>3, <1>5 DEF Counted, Timed, Outcomes
<1>7. Within(Timed, r.minutes, d) /\ DOMAIN r.minutes \subseteq 0 .. t
    BY <1>1, <1>2, <1>3, SeriesBumped
<1>8. Within(Timed, r.hours, d) /\ DOMAIN r.hours \subseteq 0 .. Statistics!HourOf(t)
  <2>1. Statistics!HourOf(t) \in Nat  BY HoursGrow
  <2>2. QED  BY <1>1, <1>2, <1>4, <2>1, SeriesBumped
<1>9. Within(Counted, r.byAccount, d)
  <2>1. Within(Counted, a.byAccount, d)
    <3>1. \A k \in Counted : c[k] \in Nat /\ d[k] \in Nat /\ c[k] <= d[k]  BY <1>2, <1>5
    <3> HIDE DEF d
    <3>2. QED  BY <1>2, <3>1, WithinMore
  <2>2. CASE e.account = None  BY <1>1, <2>1, <2>2
  <2>3. CASE e.account # None  BY <1>1, <1>2, <2>3, ZeroFacts, AddedWithin
  <2>4. QED  BY <2>2, <2>3
<1>10. {"count", "byAccount", "minutes", "hours"} \subseteq DOMAIN r  BY <1>1 DEF Aggregate
<1> HIDE DEF d
<1>11. Aggregate(r, t)  BY <1>1, <1>5, <1>6, <1>7, <1>8, <1>9, <1>10 DEF Aggregate
<1>12. QED  BY <1>11 DEF r

\* What the providers count together.
Counts(byProvider, k) == SumFunctionOnSet([p \in DOMAIN byProvider |-> byProvider[p].count[k]], DOMAIN byProvider)

LEMMA AggregateAges == ASSUME Reporting, NEW t \in Nat, NEW u \in Nat, t <= u, NEW a, Aggregate(a, t)
    PROVE  Aggregate(a, u)
<1>1. 0 .. t \subseteq 0 .. u  OBVIOUS
<1>2. 0 .. Statistics!HourOf(t) \subseteq 0 .. Statistics!HourOf(u)  BY HoursGrow
<1>3. QED  BY <1>1, <1>2 DEF Aggregate

LEMMA BooksAge == ASSUME Reporting, NEW t \in Nat, NEW u \in Nat, t <= u, NEW o, NEW b, Books(o, b, t)
    PROVE  Books(o, b, u)
BY AggregateAges DEF Books

\* One provider's aggregate for another, or a new provider's.
BooksReplaced(o, b, p, a, d, c) ==
    /\ DOMAIN c = DOMAIN b \cup {p} /\ c[p] = a /\ \A q \in DOMAIN b \ {p} : c[q] = b[q]
    /\ d \in [Counted -> Nat]
    /\ \A k \in Counted : d[k] + (IF p \in DOMAIN b THEN b[p].count[k] ELSE 0) = o[k] + a.count[k]

LEMMA BooksReplace ==
    ASSUME NEW t, NEW o, NEW b, Books(o, b, t), NEW p, NEW a, Aggregate(a, t), NEW d, NEW c,
           BooksReplaced(o, b, p, a, d, c)
    PROVE  Books(d, c, t)
<1> USE DEF BooksReplaced
<1>0. /\ o \in [Counted -> Nat] /\ IsFiniteSet(DOMAIN b) /\ \A q \in DOMAIN b : Aggregate(b[q], t)
      /\ \A k \in Counted : o[k] = Counts(b, k)
    BY DEF Books, Counts
<1>1. IsFiniteSet(DOMAIN c)
  <2>1. IsFiniteSet(DOMAIN b \cup {p})  BY <1>0, FS_AddElement
  <2>2. QED  BY <2>1
<1>2. \A q \in DOMAIN c : Aggregate(c[q], t)  BY <1>0
<1>3. ASSUME NEW k \in Counted PROVE d[k] = Counts(c, k)
  <2> DEFINE S == DOMAIN b
             f == [q \in S |-> b[q].count[k]]
             g == [q \in S \cup {p} |-> c[q].count[k]]
  <2>1. /\ \A q \in S : f[q] \in Nat /\ f[q] = b[q].count[k]
        /\ \A q \in S \cup {p} : g[q] \in Nat
        /\ \A q \in S \ {p} : g[q] = f[q]
        /\ g[p] = a.count[k] /\ g[p] \in Nat /\ IsFiniteSet(S)
    <3>1. \A q \in S : b[q].count[k] \in Nat  BY <1>0 DEF Aggregate
    <3>2. \A q \in S \cup {p} : c[q].count[k] \in Nat  BY <1>2 DEF Aggregate
    <3>3. QED  BY <1>0, <3>1, <3>2
  <2>2. Counts(b, k) = SumFunctionOnSet(f, S)  BY DEF Counts
  <2>3. Counts(c, k) = SumFunctionOnSet(g, S \cup {p})  BY Zenon DEF Counts
  <2> HIDE DEF S, f, g
  <2>4. SumFunctionOnSet(g, S \cup {p}) + (IF p \in S THEN f[p] ELSE 0) = SumFunctionOnSet(f, S) + g[p]
    <3>1. /\ IsFiniteSet(S) /\ \A q \in S : f[q] \in Nat
          /\ \A q \in S \ {p} : g[q] = f[q]
          /\ g[p] \in Nat
        BY <2>1
    <3>2. QED  BY <3>1, SumReplaces
  <2>5. IsFiniteSet(S \cup {p})  BY <2>1, FS_AddElement
  <2>6. SumFunctionOnSet(f, S) \in Nat /\ SumFunctionOnSet(g, S \cup {p}) \in Nat  BY <2>1, <2>5, SumSteps
  <2>7. d[k] + (IF p \in S THEN f[p] ELSE 0) = SumFunctionOnSet(f, S) + g[p]  BY <1>0, <2>1, <2>2 DEF S
  <2>8. (IF p \in S THEN f[p] ELSE 0) \in Nat /\ d[k] \in Nat  BY <2>1
  <2>9. QED  BY <2>3, <2>4, <2>6, <2>7, <2>8
<1>4. QED  BY <1>1, <1>2, <1>3 DEF Books, Counts

\* What does not concern the counters leaves them adding up.
LEMMA BooksKeep ==
    ASSUME NEW t, NEW o, NEW b, Books(o, b, t), NEW c, DOMAIN c = DOMAIN b,
           \A p \in DOMAIN b : Aggregate(c[p], t) /\ c[p].count = b[p].count
    PROVE  Books(o, c, t)
<1>1. \A k \in Counted : Counts(c, k) = Counts(b, k)
  <2> TAKE k \in Counted
  <2>1. [p \in DOMAIN c |-> c[p].count[k]] = [p \in DOMAIN b |-> b[p].count[k]]  OBVIOUS
  <2>2. QED  BY <2>1, Zenon DEF Counts
<1>2. QED  BY <1>1 DEF Books, Counts

LEMMA BooksOfNone == ASSUME NEW t \in Nat, NEW D, IsFiniteSet(D) PROVE
    Books(Statistics!Zero, [p \in D |-> Statistics!NewProvider], t)
<1> DEFINE b == [p \in D |-> Statistics!NewProvider]
<1>1. DOMAIN b = D /\ \A p \in D : Aggregate(b[p], t) /\ b[p].count = Statistics!Zero  BY FreshAggregate
<1> HIDE DEF b
<1>2. ASSUME NEW k \in Counted PROVE Statistics!Zero[k] = Counts(b, k)
  <2> DEFINE f == [p \in D |-> b[p].count[k]]
  <2>1. \A p \in D : f[p] = 0  BY <1>1, ZeroFacts
  <2> HIDE DEF f
  <2>2. SumFunctionOnSet(f, D) = 0  BY <2>1, SumOfNone
  <2>3. Counts(b, k) = SumFunctionOnSet(f, D)  BY <1>1 DEF Counts, f
  <2>4. QED  BY <2>2, <2>3, ZeroFacts
<1>3. Books(Statistics!Zero, b, t)  BY <1>1, <1>2, ZeroFacts DEF Books, Counts
<1>4. QED  BY <1>3 DEF b

----------------------------------------------------------------------------
(* The store: its books, the ring of recent events and the minute series *)

\* The events of a provider and a minute the ring still has, and the requests its series has.
InRing(ring, q, j)      == Cardinality({i \in DOMAIN ring : ring[i].provider = q /\ ring[i].minute = j})
Requests(m, j)          == Statistics!At(m, j, Statistics!NoTime)["requests"]
OfAll(byProvider, j)    == SumFunctionOnSet([q \in DOMAIN byProvider |-> Requests(byProvider[q].minutes, j)],
                                            DOMAIN byProvider)
Recent(t)               == t - Window + 1 .. t

\* Within the window the ring has no event its provider's series lacks, and the series of all
\* traffic none the providers' lack.
Store(s, t, n) ==
    /\ {"ring", "overall", "byProvider", "buckets"} \subseteq DOMAIN s
    /\ Books(s.overall, s.byProvider, t)
    /\ s.ring \in Seq(Rows(t)) /\ Len(s.ring) <= n
    /\ \A i \in DOMAIN s.ring : s.ring[i].provider \in DOMAIN s.byProvider
    /\ \A q \in DOMAIN s.byProvider : \A j \in Recent(t) :
          InRing(s.ring, q, j) <= Requests(s.byProvider[q].minutes, j)
    /\ DOMAIN s.buckets \subseteq 0 .. t /\ \A j \in DOMAIN s.buckets : s.buckets[j] \in [Timed -> Nat]
    /\ \A j \in Recent(t) : Requests(s.buckets, j) <= OfAll(s.byProvider, j)

LEMMA AtSeries == ASSUME NEW m, \A j \in DOMAIN m : m[j] \in [Timed -> Nat], NEW j PROVE
    /\ Statistics!At(m, j, Statistics!NoTime) \in [Timed -> Nat]
    /\ Requests(m, j) \in Nat /\ (j \notin DOMAIN m => Requests(m, j) = 0)
BY ZeroFacts DEF Statistics!At, Requests, Timed

LEMMA OfAllNat == ASSUME NEW b, NEW o, NEW t, Books(o, b, t), NEW j PROVE
    OfAll(b, j) \in Nat /\ \A q \in DOMAIN b : Requests(b[q].minutes, j) \in Nat
<1>1. \A q \in DOMAIN b : Requests(b[q].minutes, j) \in Nat
    BY AtSeries DEF Books, Aggregate, Within
<1> DEFINE f == [q \in DOMAIN b |-> Requests(b[q].minutes, j)]
<1>2. \A q \in DOMAIN b : f[q] \in Nat  BY <1>1
<1> HIDE DEF f
<1>3. SumFunctionOnSet(f, DOMAIN b) \in Nat  BY <1>2, SumSteps DEF Books
<1>4. QED  BY <1>1, <1>3 DEF OfAll, f

LEMMA RingHits == ASSUME NEW t, NEW ring \in Seq(Rows(t)), NEW q, NEW j PROVE
    /\ InRing(ring, q, j) = Cardinality(Hits(ring, {e \in Rows(t) : e.provider = q /\ e.minute = j}))
    /\ InRing(ring, q, j) \in Nat
<1> DEFINE W == {e \in Rows(t) : e.provider = q /\ e.minute = j}
<1>1. {i \in DOMAIN ring : ring[i].provider = q /\ ring[i].minute = j} = Hits(ring, W)
    BY DEF Hits
<1> HIDE DEF W
<1>2. InRing(ring, q, j) = Cardinality(Hits(ring, W))  BY <1>1, Zenon DEF InRing
<1>3. Cardinality(Hits(ring, W)) \in Nat  BY HitsBounded
<1>4. QED  BY <1>2, <1>3 DEF W

LEMMA RowsGrow == ASSUME NEW t \in Nat, NEW u \in Nat, t <= u PROVE Rows(t) \subseteq Rows(u)
BY DEF Rows

\* A minute passes: nothing of the new minute is anywhere yet.
LEMMA StoreAges == ASSUME Reporting, NEW t \in Nat, NEW s, NEW n, Store(s, t, n) PROVE Store(s, t + 1, n)
<1>0. /\ Books(s.overall, s.byProvider, t) /\ s.ring \in Seq(Rows(t)) /\ DOMAIN s.buckets \subseteq 0 .. t
      /\ \A j \in DOMAIN s.buckets : s.buckets[j] \in [Timed -> Nat]
    BY DEF Store
<1>1. t + 1 \in Nat /\ t <= t + 1  OBVIOUS
<1>2. Books(s.overall, s.byProvider, t + 1)  BY <1>0, <1>1, BooksAge
<1>3. s.ring \in Seq(Rows(t + 1))  BY <1>0, <1>1, RowsGrow, SeqSubset
<1>4. \A j \in Recent(t + 1) : j \in Recent(t) \/ j = t + 1  BY DEF Recent, Reporting
<1>5. ASSUME NEW q \in DOMAIN s.byProvider PROVE InRing(s.ring, q, t + 1) <= Requests(s.byProvider[q].minutes, t + 1)
  <2>1. {i \in DOMAIN s.ring : s.ring[i].provider = q /\ s.ring[i].minute = t + 1} = {}
    <3>1. \A i \in DOMAIN s.ring : s.ring[i] \in Rows(t)  BY <1>0
    <3>2. \A i \in DOMAIN s.ring : s.ring[i].minute \in 0 .. t  BY <3>1, EventFacts
    <3>3. QED  BY <3>2
  <2>2. InRing(s.ring, q, t + 1) = 0  BY <2>1, FS_EmptySet, Zenon DEF InRing
  <2>3. \A p \in DOMAIN s.byProvider : Requests(s.byProvider[p].minutes, t + 1) \in Nat  BY <1>0, OfAllNat
  <2>4. QED  BY <2>2, <2>3
<1>6. Requests(s.buckets, t + 1) = 0
  <2>1. t + 1 \notin DOMAIN s.buckets  BY <1>0
  <2>2. QED  BY <1>0, <2>1, AtSeries
<1>7. OfAll(s.byProvider, t + 1) \in Nat  BY <1>0, OfAllNat
<1>8. DOMAIN s.buckets \subseteq 0 .. t + 1  BY <1>0
<1>9. QED  BY <1>0, <1>2, <1>3, <1>4, <1>5, <1>6, <1>7, <1>8 DEF Store

\* In the window nothing is pruned: the minute gains the event, the others stay.
LEMMA BumpedRequests ==
    ASSUME NEW m, \A i \in DOMAIN m : m[i] \in [Timed -> Nat], NEW key \in Int, NEW e, NEW window \in Int,
           NEW j \in Int, j >= key - window
    PROVE  Requests(Statistics!Bump(m, key, e, window), j) = Requests(m, j) + IF j = key THEN 1 ELSE 0
<1> DEFINE old == Statistics!At(m, key, Statistics!NoTime)
           n   == Statistics!Put(m, key, Statistics!Add(old, e))
<1>1. old \in [Timed -> Nat]  BY AtSeries
<1>2. Timed \in SUBSET Counted  BY DEF Counted
<1>3. Statistics!Add(old, e)["requests"] = old["requests"] + 1
  <2>1. "requests" \in Timed  BY DEF Timed
  <2> HIDE DEF old
  <2>2. QED  BY <1>1, <1>2, <2>1, Tallied
<1> HIDE DEF old
<1>4. /\ DOMAIN n = DOMAIN m \cup {key} /\ n[key] = Statistics!Add(old, e)
      /\ \A x \in DOMAIN m \ {key} : n[x] = m[x]
    BY DEF Statistics!Put
<1>5. Statistics!Bump(m, key, e, window) = Statistics!Prune(n, key - window)  BY DEF Statistics!Bump, old
<1> HIDE DEF n
<1>6. Requests(Statistics!Prune(n, key - window), j) = Requests(n, j)
    BY DEF Statistics!Prune, Requests, Statistics!At
<1>7. Requests(m, j) \in Nat  BY AtSeries
<1>8. CASE j = key
  <2>1. Requests(n, j) = old["requests"] + 1  BY <1>3, <1>4, <1>8 DEF Requests, Statistics!At
  <2>2. Requests(m, j) = old["requests"]  BY <1>8 DEF Requests, old
  <2>3. QED  BY <1>5, <1>6, <1>7, <1>8, <2>1, <2>2
<1>9. CASE j # key
  <2>1. Requests(n, j) = Requests(m, j)  BY <1>4, <1>9 DEF Requests, Statistics!At
  <2>2. QED  BY <1>5, <1>6, <1>7, <1>9, <2>1
<1>10. QED  BY <1>8, <1>9

----------------------------------------------------------------------------
(* Record *)
LEMMA Remembered == ASSUME Reporting, NEW t \in Nat, NEW ring \in Seq(Rows(t)), NEW e \in Rows(t) PROVE
    LET r == Statistics!Remember(ring, e) IN
    /\ r \in Seq(Rows(t)) /\ Len(r) <= Len(ring) + 1
    /\ \A i \in DOMAIN r : r[i] = e \/ \E k \in DOMAIN ring : r[i] = ring[k]
    /\ \A q, j : InRing(r, q, j) <= InRing(ring, q, j) + IF e.provider = q /\ e.minute = j THEN 1 ELSE 0
<1> DEFINE w == ring \o <<e>>
           a == IF Len(w) - RingCapacity + 1 >= 1 THEN Len(w) - RingCapacity + 1 ELSE 1
           r == SubSeq(w, a, Len(w))
<1>1. /\ w \in Seq(Rows(t)) /\ Len(w) = Len(ring) + 1 /\ Len(ring) \in Nat /\ Append(ring, e) = w
      /\ \A i \in DOMAIN w : w[i] = e \/ \E k \in DOMAIN ring : w[i] = ring[k]
  <2>1. \A i \in DOMAIN (ring \o <<e>>) :
           IF i = Len(ring) + 1 THEN (ring \o <<e>>)[i] = e ELSE i \in DOMAIN ring /\ (ring \o <<e>>)[i] = ring[i]
      OBVIOUS
  <2>2. QED  BY <2>1
<1>2. a \in 1 .. Len(w) + 1 /\ a = Statistics!Max({1, Len(w) - RingCapacity + 1})
  <2>1. Len(w) \in Nat /\ RingCapacity \in Nat  BY <1>1 DEF Reporting
  <2> HIDE DEF w
  <2>2. Len(w) - RingCapacity + 1 \in Int  BY <2>1
  <2>3. Statistics!Max({1, Len(w) - RingCapacity + 1}) = IF 1 >= Len(w) - RingCapacity + 1 THEN 1 ELSE Len(w) - RingCapacity + 1
      BY <2>2, LargerOf
  <2>4. QED  BY <2>1, <2>3
<1>3. Statistics!Remember(ring, e) = r
  <2> HIDE DEF a, w
  <2> QED  BY <1>1, <1>2 DEF Statistics!Remember
<1> HIDE DEF a
<1>4. /\ r \in Seq(Rows(t)) /\ Len(r) = Len(w) - a + 1
      /\ \A i \in DOMAIN r : \E j \in DOMAIN w : r[i] = w[j]
      /\ \A W : Cardinality(Hits(r, W)) <= Cardinality(Hits(w, W))
  <2>1. w \in Seq(Rows(t)) /\ a \in 1 .. Len(w) + 1  BY <1>1, <1>2
  <2> HIDE DEF w
  <2>2. QED  BY <2>1, HitsOfTail
<1>5. ASSUME NEW q, NEW j PROVE InRing(r, q, j) <= InRing(ring, q, j) + IF e.provider = q /\ e.minute = j THEN 1 ELSE 0
  <2> DEFINE W == {x \in Rows(t) : x.provider = q /\ x.minute = j}
  <2>1. InRing(r, q, j) = Cardinality(Hits(r, W)) /\ InRing(ring, q, j) = Cardinality(Hits(ring, W))
    <3> HIDE DEF r
    <3> QED  BY <1>4, RingHits
  <2>2. Cardinality(Hits(w, W)) = Cardinality(Hits(ring, W)) + IF e \in W THEN 1 ELSE 0
    <3> HIDE DEF W
    <3> QED  BY HitsOfMore
  <2>3. e \in W <=> e.provider = q /\ e.minute = j  OBVIOUS
  <2> HIDE DEF W, r, w
  <2>4. QED  BY <1>4, <2>1, <2>2, <2>3
<1>6. Len(r) <= Len(ring) + 1
  <2> HIDE DEF r, w
  <2> QED  BY <1>1, <1>2, <1>4
<1>7. \A i \in DOMAIN r : r[i] = e \/ \E k \in DOMAIN ring : r[i] = ring[k]
  <2> HIDE DEF r, w
  <2> QED  BY <1>1, <1>4
<1> HIDE DEF r
<1>8. QED  BY <1>3, <1>4, <1>5, <1>6, <1>7

LEMMA RecordedStore == ASSUME NEW s, {"ring", "overall", "byProvider", "buckets"} \subseteq DOMAIN s, NEW e PROVE
    LET r == Statistics!Recorded(s, e) IN
    /\ DOMAIN r = DOMAIN s /\ r.ring = Statistics!Remember(s.ring, e)
    /\ r.overall = Statistics!Add(s.overall, e)
    /\ r.byProvider = Statistics!Put(s.byProvider, e.provider,
          Statistics!RecordProvider(Statistics!At(s.byProvider, e.provider, Statistics!NewProvider), e))
    /\ r.buckets = Statistics!Bump(s.buckets, e.minute, e, Window)
BY DEF Statistics!Recorded

LEMMA StoreRecorded == ASSUME Reporting, NEW t \in Nat, NEW s, NEW n \in Nat, Store(s, t, n), NEW e \in Rows(t)
    PROVE  Store(Statistics!Recorded(s, e), t, n + 1)
<1> DEFINE r   == Statistics!Recorded(s, e)
           b   == s.byProvider
           c   == r.byProvider
           p   == e.provider
           old == Statistics!At(b, p, Statistics!NewProvider)
           new == Statistics!RecordProvider(old, e)
           One(j) == IF j = e.minute THEN 1 ELSE 0
<1>0. /\ {"ring", "overall", "byProvider", "buckets"} \subseteq DOMAIN s
      /\ Books(s.overall, b, t) /\ s.ring \in Seq(Rows(t)) /\ Len(s.ring) <= n
      /\ \A i \in DOMAIN s.ring : s.ring[i].provider \in DOMAIN b
      /\ \A q \in DOMAIN b : \A j \in Recent(t) : InRing(s.ring, q, j) <= Requests(b[q].minutes, j)
      /\ DOMAIN s.buckets \subseteq 0 .. t /\ \A j \in DOMAIN s.buckets : s.buckets[j] \in [Timed -> Nat]
      /\ \A j \in Recent(t) : Requests(s.buckets, j) <= OfAll(b, j)
    BY DEF Store
<1>1. /\ DOMAIN r = DOMAIN s /\ r.ring = Statistics!Remember(s.ring, e)
      /\ r.overall = Statistics!Add(s.overall, e) /\ c = Statistics!Put(b, p, new)
      /\ r.buckets = Statistics!Bump(s.buckets, e.minute, e, Window)
    BY <1>0, RecordedStore
<1> HIDE DEF r, old, new
<1>2. DOMAIN c = DOMAIN b \cup {p} /\ c[p] = new /\ \A q \in DOMAIN b \ {p} : c[q] = b[q]
  <2>1. c = Statistics!Put(b, p, new)  BY <1>1
  <2> HIDE DEF b, c, p
  <2>2. QED  BY <2>1 DEF Statistics!Put
<1>3. e.minute \in 0 .. t /\ t \in Nat /\ \A j \in Recent(t) : j \in Int /\ j >= e.minute - Window
  <2>1. e.minute \in 0 .. t /\ Window \in Nat  BY EventFacts DEF Reporting
  <2>2. QED  BY <2>1 DEF Recent
<1>4. Aggregate(old, t) /\ old.count \in [Counted -> Nat]
      /\ (p \in DOMAIN b => old = b[p]) /\ (p \notin DOMAIN b => old = Statistics!NewProvider)
    BY <1>0, FreshAggregate DEF old, Statistics!At, Books, Aggregate
<1>5. Aggregate(new, t)  BY <1>4, AggregateRecorded DEF new
<1>6. /\ new.count = Statistics!Add(old.count, e)
      /\ new.minutes = Statistics!Bump(old.minutes, e.minute, e, Window)
    BY <1>4, RecordedFields DEF new, Aggregate
<1>7. Books(r.overall, c, t)
  <2>1. s.overall \in [Counted -> Nat]  BY <1>0 DEF Books
  <2>2. Counted \in SUBSET Counted  OBVIOUS
  <2>3. /\ r.overall \in [Counted -> Nat]
        /\ \A k \in Counted : r.overall[k] = s.overall[k] + IF k \in {"requests", e.outcome} THEN 1 ELSE 0
      BY <1>1, <2>1, <2>2, Tallied
  <2>4. \A k \in Counted : new.count[k] = old.count[k] + IF k \in {"requests", e.outcome} THEN 1 ELSE 0
      BY <1>4, <1>6, <2>2, Tallied
  <2>5. \A k \in Counted : old.count[k] = IF p \in DOMAIN b THEN b[p].count[k] ELSE 0
      BY <1>4, FreshAggregate, ZeroFacts
  <2>6. \A k \in Counted : r.overall[k] + (IF p \in DOMAIN b THEN b[p].count[k] ELSE 0) = s.overall[k] + new.count[k]
    <3> TAKE k \in Counted
    <3>1. s.overall[k] \in Nat /\ old.count[k] \in Nat  BY <1>4, <2>1
    <3>2. QED  BY <2>3, <2>4, <2>5, <3>1
  <2>7. BooksReplaced(s.overall, b, p, new, r.overall, c)  BY <1>2, <2>3, <2>6 DEF BooksReplaced
  <2> HIDE DEF b, c, p
  <2>8. QED  BY <1>0, <1>5, <2>7, BooksReplace
<1>8. /\ r.ring \in Seq(Rows(t)) /\ Len(r.ring) <= Len(s.ring) + 1
      /\ \A i \in DOMAIN r.ring : r.ring[i] = e \/ \E k \in DOMAIN s.ring : r.ring[i] = s.ring[k]
      /\ \A q, j : InRing(r.ring, q, j) <= InRing(s.ring, q, j) + IF e.provider = q /\ e.minute = j THEN 1 ELSE 0
    BY <1>0, <1>1, Remembered
<1>9. Len(r.ring) <= n + 1
  <2>1. Len(r.ring) \in Nat /\ Len(s.ring) \in Nat  BY <1>0, <1>8
  <2>2. QED  BY <1>0, <1>8, <2>1
<1>10. \A i \in DOMAIN r.ring : r.ring[i].provider \in DOMAIN c  BY <1>0, <1>2, <1>8
<1>11. \A j \in Recent(t) : Requests(new.minutes, j) = Requests(old.minutes, j) + One(j)
       /\ Requests(old.minutes, j) \in Nat /\ (p \notin DOMAIN b => Requests(old.minutes, j) = 0)
  <2> TAKE j \in Recent(t)
  <2>1. \A i \in DOMAIN old.minutes : old.minutes[i] \in [Timed -> Nat]  BY <1>4 DEF Aggregate, Within
  <2>2. e.minute \in Int /\ Window \in Int /\ j \in Int /\ j >= e.minute - Window  BY <1>3 DEF Reporting
  <2>3. Requests(new.minutes, j) = Requests(old.minutes, j) + One(j)  BY <1>6, <2>1, <2>2, BumpedRequests
  <2>4. p \notin DOMAIN b => j \notin DOMAIN old.minutes
      BY <1>4, ZeroFacts DEF Statistics!NewProvider
  <2>5. QED  BY <2>1, <2>3, <2>4, AtSeries
<1>12. ASSUME NEW q \in DOMAIN c, NEW j \in Recent(t) PROVE InRing(r.ring, q, j) <= Requests(c[q].minutes, j)
  <2>1. InRing(r.ring, q, j) \in Nat /\ InRing(s.ring, q, j) \in Nat  BY <1>0, <1>8, RingHits
  <2>2. CASE q = p
    <3>1. InRing(s.ring, p, j) <= Requests(old.minutes, j)
      <4>1. CASE p \in DOMAIN b  BY <1>0, <1>4, <4>1
      <4>2. CASE p \notin DOMAIN b
        <5>1. {i \in DOMAIN s.ring : s.ring[i].provider = p /\ s.ring[i].minute = j} = {}  BY <1>0, <4>2
        <5>2. InRing(s.ring, p, j) = 0  BY <5>1, FS_EmptySet, Zenon DEF InRing
        <5>3. QED  BY <1>11, <5>2
      <4>3. QED  BY <4>1, <4>2
    <3>2. InRing(r.ring, p, j) <= InRing(s.ring, p, j) + One(j)  BY <1>8
    <3>3. One(j) \in Nat  OBVIOUS
    <3> HIDE DEF One, p, c
    <3>4. QED  BY <1>2, <1>11, <2>1, <2>2, <3>1, <3>2, <3>3
  <2>3. CASE q # p
    <3>1. q \in DOMAIN b /\ c[q] = b[q]  BY <1>2, <2>3
    <3>2. InRing(r.ring, q, j) <= InRing(s.ring, q, j)  BY <1>8, <2>1, <2>3
    <3>3. Requests(b[q].minutes, j) \in Nat
      <4>1. \A x \in DOMAIN b : Requests(b[x].minutes, j) \in Nat  BY <1>0, OfAllNat
      <4>2. QED  BY <3>1, <4>1
    <3>4. InRing(s.ring, q, j) <= Requests(b[q].minutes, j)  BY <1>0, <3>1
    <3>5. QED  BY <2>1, <3>1, <3>2, <3>3, <3>4
  <2>4. QED  BY <2>2, <2>3
<1>13. DOMAIN r.buckets \subseteq 0 .. t /\ \A j \in DOMAIN r.buckets : r.buckets[j] \in [Timed -> Nat]
  <2> DEFINE ob == Statistics!At(s.buckets, e.minute, Statistics!NoTime)
             nb == Statistics!Put(s.buckets, e.minute, Statistics!Add(ob, e))
  <2>1. ob \in [Timed -> Nat]  BY <1>0, AtSeries
  <2>2. Timed \in SUBSET Counted  BY DEF Counted
  <2> HIDE DEF ob
  <2>3. Statistics!Add(ob, e) \in [Timed -> Nat]  BY <2>1, <2>2, Tallied
  <2>4. DOMAIN nb \subseteq 0 .. t /\ \A j \in DOMAIN nb : nb[j] \in [Timed -> Nat]
      BY <1>0, <1>3, <2>3 DEF Statistics!Put
  <2> HIDE DEF nb
  <2>5. r.buckets = Statistics!Prune(nb, e.minute - Window)  BY <1>1 DEF Statistics!Bump, nb, ob
  <2>6. DOMAIN r.buckets \subseteq DOMAIN nb /\ \A j \in DOMAIN r.buckets : r.buckets[j] = nb[j]
      BY <2>5 DEF Statistics!Prune
  <2>7. QED  BY <2>4, <2>6
<1>14. ASSUME NEW j \in Recent(t) PROVE Requests(r.buckets, j) <= OfAll(c, j)
  <2> DEFINE S == DOMAIN b
             f == [q \in S |-> Requests(b[q].minutes, j)]
             g == [q \in S \cup {p} |-> Requests(c[q].minutes, j)]
  <2>1. Requests(r.buckets, j) = Requests(s.buckets, j) + One(j)
    <3>1. e.minute \in Int /\ Window \in Int /\ j \in Int /\ j >= e.minute - Window  BY <1>3 DEF Reporting
    <3>2. QED  BY <1>0, <1>1, <3>1, BumpedRequests
  <2>2. Requests(s.buckets, j) <= OfAll(b, j) /\ Requests(s.buckets, j) \in Nat  BY <1>0, AtSeries
  <2>3. OfAll(b, j) = SumFunctionOnSet(f, S) /\ OfAll(c, j) = SumFunctionOnSet(g, S \cup {p})
    <3>1. OfAll(b, j) = SumFunctionOnSet(f, S)  BY DEF OfAll
    <3>2. OfAll(c, j) = SumFunctionOnSet(g, S \cup {p})  BY <1>2, Zenon DEF OfAll
    <3>3. QED  BY <3>1, <3>2
  <2>4. /\ IsFiniteSet(S) /\ \A q \in S : f[q] \in Nat
        /\ \A q \in S \ {p} : g[q] = f[q]
        /\ g[p] \in Nat
    <3>1. \A x \in DOMAIN b : Requests(b[x].minutes, j) \in Nat  BY <1>0, OfAllNat
    <3>2. g[p] = Requests(new.minutes, j)  BY <1>2
    <3>3. Requests(new.minutes, j) \in Nat  BY <1>11
    <3>4. QED  BY <1>0, <1>2, <3>1, <3>2, <3>3 DEF Books
  <2>5. g[p] = (IF p \in S THEN f[p] ELSE 0) + One(j)  BY <1>2, <1>4, <1>11
  <2>6. One(j) \in Nat  OBVIOUS
  <2>7. IsFiniteSet(S \cup {p}) /\ \A q \in S \cup {p} : g[q] \in Nat
    <3> HIDE DEF S, f, g, p
    <3> QED  BY <2>4, FS_AddElement
  <2> HIDE DEF S, f, g, One, p
  <2>8. SumFunctionOnSet(g, S \cup {p}) + (IF p \in S THEN f[p] ELSE 0) = SumFunctionOnSet(f, S) + g[p]
      BY <2>4, SumReplaces
  <2>9. SumFunctionOnSet(f, S) \in Nat /\ SumFunctionOnSet(g, S \cup {p}) \in Nat  BY <2>4, <2>7, SumSteps
  <2>10. QED  BY <2>1, <2>2, <2>3, <2>4, <2>5, <2>6, <2>8, <2>9
<1>15. Store(r, t, n + 1)  BY <1>0, <1>1, <1>7, <1>8, <1>9, <1>10, <1>12, <1>13, <1>14 DEF Store
<1>16. QED  BY <1>15 DEF r

----------------------------------------------------------------------------
(* Resets and the file *)

\* With nothing in the ring and in the series of all traffic the books are enough.
LEMMA StoreOfBooks == ASSUME Reporting, NEW t \in Nat, NEW n \in Nat, NEW s,
           {"ring", "overall", "byProvider", "buckets"} \subseteq DOMAIN s,
           Books(s.overall, s.byProvider, t), s.ring = <<>>, s.buckets = Statistics!Empty
    PROVE  Store(s, t, n)
<1>1. s.ring \in Seq(Rows(t)) /\ Len(s.ring) = 0 /\ DOMAIN s.ring = {}  OBVIOUS
<1>2. DOMAIN s.buckets = {}  BY ZeroFacts
<1>3. ASSUME NEW q \in DOMAIN s.byProvider, NEW j PROVE InRing(s.ring, q, j) <= Requests(s.byProvider[q].minutes, j)
  <2>1. {i \in DOMAIN s.ring : s.ring[i].provider = q /\ s.ring[i].minute = j} = {}  BY <1>1
  <2>2. InRing(s.ring, q, j) = 0  BY <2>1, FS_EmptySet, Zenon DEF InRing
  <2>3. \A x \in DOMAIN s.byProvider : Requests(s.byProvider[x].minutes, j) \in Nat  BY OfAllNat
  <2>4. QED  BY <2>2, <2>3
<1>4. ASSUME NEW j PROVE Requests(s.buckets, j) <= OfAll(s.byProvider, j)
  <2>1. Requests(s.buckets, j) = 0  BY <1>2, AtSeries
  <2>2. OfAll(s.byProvider, j) \in Nat  BY OfAllNat
  <2>3. QED  BY <2>1, <2>2
<1>5. QED  BY <1>1, <1>2, <1>3, <1>4 DEF Store

LEMMA StoreStarts == ASSUME Reporting, NEW t \in Nat, NEW n \in Nat PROVE Store(Statistics!NewStore, t, n)
<1> DEFINE s == Statistics!NewStore
<1>1. /\ {"ring", "overall", "byProvider", "buckets"} \subseteq DOMAIN s
      /\ s.ring = <<>> /\ s.buckets = Statistics!Empty
      /\ s.overall = Statistics!Zero /\ s.byProvider = Statistics!Empty
    BY DEF Statistics!NewStore
<1>2. Statistics!Empty = [p \in {} |-> Statistics!NewProvider]  BY DEF Statistics!Empty
<1>3. Books(Statistics!Zero, [p \in {} |-> Statistics!NewProvider], t)  BY FS_EmptySet, BooksOfNone
<1> HIDE DEF s
<1>4. Books(s.overall, s.byProvider, t)  BY <1>1, <1>2, <1>3, Zenon
<1>5. Store(s, t, n)  BY <1>1, <1>4, StoreOfBooks
<1>6. QED  BY <1>5 DEF s

LEMMA StoreResetAll == ASSUME Reporting, NEW t \in Nat, NEW n \in Nat, NEW s, Store(s, t, n)
    PROVE  Store(Statistics!ResetAll(s), t, n)
<1> DEFINE r == Statistics!ResetAll(s)
<1>1. /\ {"ring", "overall", "byProvider", "buckets"} \subseteq DOMAIN r
      /\ r.ring = <<>> /\ r.buckets = Statistics!Empty /\ r.overall = Statistics!Zero
      /\ r.byProvider = [p \in DOMAIN s.byProvider |-> Statistics!NewProvider]
    BY DEF Statistics!ResetAll, Statistics!NewStore
<1> HIDE DEF r
<1>2. IsFiniteSet(DOMAIN s.byProvider)  BY DEF Store, Books
<1>3. Books(Statistics!Zero, [p \in DOMAIN s.byProvider |-> Statistics!NewProvider], t)  BY <1>2, BooksOfNone
<1>4. Books(r.overall, r.byProvider, t)  BY <1>1, <1>3, Zenon
<1>5. Store(r, t, n)  BY <1>1, <1>4, StoreOfBooks
<1>6. QED  BY <1>5 DEF r

\* What a snapshot holds, and what a restart makes of it: the books, with fewer hours and no minutes.
Snap(d, t) == {"overall", "byProvider"} \subseteq DOMAIN d /\ Books(d.overall, d.byProvider, t)

LEMMA HoursPruned == ASSUME NEW a, NEW t, Aggregate(a, t), NEW cut, NEW r,
           DOMAIN r = DOMAIN a, r.count = a.count, r.byAccount = a.byAccount,
           r.minutes = a.minutes \/ r.minutes = Statistics!Empty, r.hours = Statistics!Prune(a.hours, cut)
    PROVE  Aggregate(r, t)
<1>1. /\ a.count \in [Counted -> Nat] /\ Within(Timed, a.minutes, a.count) /\ Within(Timed, a.hours, a.count)
      /\ DOMAIN a.minutes \subseteq 0 .. t /\ DOMAIN a.hours \subseteq 0 .. Statistics!HourOf(t)
    BY DEF Aggregate
<1> DEFINE d == [k \in Timed |-> a.count[k]]
<1>2. d \in [Timed -> Nat] /\ Within(Timed, a.hours, d)  BY <1>1, TimedPart
<1>3. \A m : Within(Timed, m, a.count) <=> Within(Timed, m, d)  BY <1>1, TimedPart
<1> HIDE DEF d
<1>4. Within(Timed, r.hours, d) /\ DOMAIN r.hours \subseteq DOMAIN a.hours  BY <1>2, PrunedWithin
<1>5. Within(Timed, Statistics!Empty, d) /\ DOMAIN Statistics!Empty = {}  BY <1>2, ZeroFacts, EmptyWithin
<1>6. Within(Timed, r.minutes, a.count) /\ DOMAIN r.minutes \subseteq 0 .. t
  <2>1. CASE r.minutes = a.minutes  BY <1>1, <2>1
  <2>2. CASE r.minutes = Statistics!Empty  BY <1>3, <1>5, <2>2
  <2>3. QED  BY <2>1, <2>2
<1>7. Within(Timed, r.hours, a.count) /\ DOMAIN r.hours \subseteq 0 .. Statistics!HourOf(t)  BY <1>1, <1>3, <1>4
<1>8. QED  BY <1>6, <1>7 DEF Aggregate

LEMMA SnapshotSound == ASSUME Reporting, now \in Nat, NEW n, Store(stats, now, n) PROVE Snap(Statistics!Persisted, now)
<1> DEFINE d == Statistics!Persisted
           b == stats.byProvider
           cut == Statistics!HourOf(now) - HourWindow
           Saved(a) == [a EXCEPT !.minutes = Statistics!Empty, !.hours = Statistics!Prune(@, cut)]
<1>1. /\ {"overall", "byProvider"} \subseteq DOMAIN d /\ d.overall = stats.overall
      /\ d.byProvider = [p \in DOMAIN b |-> Saved(b[p])]
    BY DEF Statistics!Persisted
<1>2. Books(stats.overall, b, now)  BY DEF Store
<1>3. ASSUME NEW p \in DOMAIN b PROVE Aggregate(Saved(b[p]), now) /\ Saved(b[p]).count = b[p].count
  <2> DEFINE a == b[p]
             r == Saved(a)
  <2>1. Aggregate(a, now) /\ {"count", "byAccount", "minutes", "hours"} \subseteq DOMAIN a  BY <1>2 DEF Books, Aggregate
  <2> HIDE DEF a
  <2>2. /\ DOMAIN r = DOMAIN a /\ r.count = a.count /\ r.byAccount = a.byAccount
        /\ r.minutes = Statistics!Empty /\ r.hours = Statistics!Prune(a.hours, cut)
      BY <2>1
  <2> HIDE DEF r, cut
  <2>3. Aggregate(r, now)  BY <2>1, <2>2, HoursPruned
  <2>4. QED  BY <2>2, <2>3 DEF r, a
<1>4. DOMAIN d.byProvider = DOMAIN b /\ \A p \in DOMAIN b : d.byProvider[p] = Saved(b[p])
  <2> HIDE DEF Saved, d
  <2>1. QED  BY <1>1
<1> HIDE DEF Saved, d, b
<1>5. Books(stats.overall, d.byProvider, now)  BY <1>2, <1>3, <1>4, BooksKeep
<1>6. QED  BY <1>1, <1>5 DEF Snap, d

LEMMA RestoredSound == ASSUME Reporting, now \in Nat, NEW n \in Nat, NEW file, file = Statistics!Torn \/ Snap(file, now)
    PROVE  Store(Statistics!Restored(file), now, n)
<1>1. CASE file = Statistics!Torn
  <2>1. Statistics!Restored(file) = Statistics!NewStore  BY <1>1 DEF Statistics!Restored
  <2>2. QED  BY <2>1, StoreStarts
<1>2. CASE file # Statistics!Torn
  <2> DEFINE r == Statistics!Restored(file)
             b == file.byProvider
             cut == Statistics!HourOf(now) - HourWindow
             Read(a) == [a EXCEPT !.hours = Statistics!Prune(@, cut)]
  <2>1. /\ {"ring", "overall", "byProvider", "buckets"} \subseteq DOMAIN r
        /\ r.ring = <<>> /\ r.buckets = Statistics!Empty /\ r.overall = file.overall
        /\ r.byProvider = [p \in DOMAIN b |-> Read(b[p])]
      BY <1>2 DEF Statistics!Restored, Statistics!NewStore
  <2>2. Books(file.overall, b, now)  BY <1>2 DEF Snap
  <2>3. ASSUME NEW p \in DOMAIN b PROVE Aggregate(Read(b[p]), now) /\ Read(b[p]).count = b[p].count
    <3> DEFINE a == b[p]
               x == Read(a)
    <3>1. Aggregate(a, now) /\ {"count", "byAccount", "minutes", "hours"} \subseteq DOMAIN a  BY <2>2 DEF Books, Aggregate
    <3> HIDE DEF a
    <3>2. /\ DOMAIN x = DOMAIN a /\ x.count = a.count /\ x.byAccount = a.byAccount
          /\ x.minutes = a.minutes /\ x.hours = Statistics!Prune(a.hours, cut)
        BY <3>1
    <3> HIDE DEF x, cut
    <3>3. Aggregate(x, now)  BY <3>1, <3>2, HoursPruned
    <3>4. QED  BY <3>2, <3>3 DEF x, a
  <2>4. DOMAIN r.byProvider = DOMAIN b /\ \A p \in DOMAIN b : r.byProvider[p] = Read(b[p])
    <3> HIDE DEF Read, r
    <3>1. QED  BY <2>1
  <2> HIDE DEF Read, r, b
  <2>5. Books(file.overall, r.byProvider, now)  BY <2>2, <2>3, <2>4, BooksKeep
  <2>6. Store(r, now, n)  BY <2>1, <2>5, StoreOfBooks
  <2>7. QED  BY <2>6 DEF r
<1>3. QED  BY <1>1, <1>2

\* The events of the other providers, all of them.
LEMMA OthersKept == ASSUME NEW t, NEW ring \in Seq(Rows(t)), NEW p PROVE
    LET k == Statistics!OfOthers(ring, p) IN
    /\ k \in Seq(Rows(t)) /\ Len(k) \in Nat /\ Len(k) <= Len(ring)
    /\ \A i \in DOMAIN k : k[i].provider # p /\ \E j \in DOMAIN ring : k[i] = ring[j]
    /\ \A q, j : q # p => InRing(k, q, j) = InRing(ring, q, j)
<1> DEFINE S == {ev \in Statistics!Range(ring) : ev.provider # p}
           k == Kept(ring, S)
<1>1. Statistics!OfOthers(ring, p) = k  BY SameFilter DEF Statistics!OfOthers
<1>2. \A x : x \in S <=> Occurs(ring, x) /\ x.provider # p  BY DEF Statistics!Range, Occurs
<1> HIDE DEF S
<1>3. k \in Seq(Rows(t)) /\ \A x : Occurs(k, x) <=> x \in S /\ Occurs(ring, x)  BY KeptHolds
<1>4. Len(k) \in Nat /\ Len(k) <= Len(ring)
  <2>1. Len(k) \in 0 .. Len(ring) /\ Len(ring) \in Nat  BY KeptLength
  <2>2. QED  BY <2>1
<1>5. ASSUME NEW q, NEW j, q # p PROVE InRing(k, q, j) = InRing(ring, q, j)
  <2> DEFINE W == {e \in Rows(t) : e.provider = q /\ e.minute = j}
  <2>1. InRing(k, q, j) = Cardinality(Hits(k, W)) /\ InRing(ring, q, j) = Cardinality(Hits(ring, W))
    <3> HIDE DEF k
    <3> QED  BY <1>3, RingHits
  <2>2. Hits(ring, S \cap W) = Hits(ring, W)  BY <1>2, <1>5 DEF Hits, Occurs
  <2> HIDE DEF W
  <2>3. Cardinality(Hits(k, W)) = Cardinality(Hits(ring, S \cap W))  BY KeptCounts
  <2>4. Cardinality(Hits(ring, S \cap W)) = Cardinality(Hits(ring, W))  BY <2>2, Zenon
  <2>5. QED  BY <2>1, <2>3, <2>4
<1> HIDE DEF k
<1>6. \A i \in DOMAIN k : k[i].provider # p /\ \E j \in DOMAIN ring : k[i] = ring[j]
  <2> TAKE i \in DOMAIN k
  <2>1. Occurs(k, k[i])  BY DEF Occurs
  <2>2. QED  BY <1>2, <1>3, <2>1 DEF Occurs
<1>7. QED  BY <1>1, <1>3, <1>4, <1>5, <1>6

\* The events of a minute, provider by provider.
LEMMA MinuteInParts == ASSUME NEW t, NEW ring \in Seq(Rows(t)), NEW D, IsFiniteSet(D),
           \A i \in DOMAIN ring : ring[i].provider \in D, NEW j
    PROVE  Cardinality({i \in DOMAIN ring : ring[i].minute = j}) = SumFunctionOnSet([q \in D |-> InRing(ring, q, j)], D)
<1> DEFINE I    == {i \in DOMAIN ring : ring[i].minute = j}
           h    == [i \in I |-> ring[i].provider]
           P(q) == {i \in I : h[i] = q}
<1>1. IsFiniteSet(I)
  <2>1. DOMAIN ring = 1 .. Len(ring) /\ Len(ring) \in Nat  OBVIOUS
  <2>2. IsFiniteSet(1 .. Len(ring)) /\ I \in SUBSET (1 .. Len(ring))  BY <2>1, FS_Interval
  <2> HIDE DEF I
  <2>3. QED  BY <2>2, FS_Subset
<1>2. h \in [I -> D]  OBVIOUS
<1>3. \A q : P(q) = {i \in DOMAIN ring : ring[i].provider = q /\ ring[i].minute = j}  OBVIOUS
<1> HIDE DEF I, h
<1>4. Cardinality(I) = SumFunctionOnSet([q \in D |-> Cardinality(P(q))], D)  BY <1>1, <1>2, PartsAddUp
<1> HIDE DEF P
<1>5. \A q : Cardinality(P(q)) = InRing(ring, q, j)  BY <1>3, Zenon DEF InRing
<1>6. [q \in D |-> Cardinality(P(q))] = [q \in D |-> InRing(ring, q, j)]  BY <1>5
<1>7. QED  BY <1>4, <1>6 DEF I

LEMMA StoreResetOne == ASSUME Reporting, NEW t \in Nat, NEW n \in Nat, NEW s, Store(s, t, n), NEW p \in DOMAIN s.byProvider
    PROVE  Store(Statistics!ResetOne(s, p), t, n)
<1> DEFINE b    == s.byProvider
           kept == Statistics!OfOthers(s.ring, p)
           r    == Statistics!ResetOne(s, p)
           c    == r.byProvider
           Of(j) == {i \in DOMAIN kept : kept[i].minute = j}
           M    == {kept[i].minute : i \in DOMAIN kept}
           B(j) == [f \in DOMAIN Statistics!NoTime |->
                       Statistics!Cardinality({i \in Of(j) : f \in {"requests", kept[i].outcome}})]
<1>0. /\ {"ring", "overall", "byProvider", "buckets"} \subseteq DOMAIN s
      /\ Books(s.overall, b, t) /\ s.ring \in Seq(Rows(t)) /\ Len(s.ring) <= n
      /\ \A i \in DOMAIN s.ring : s.ring[i].provider \in DOMAIN b
      /\ \A q \in DOMAIN b : \A j \in Recent(t) : InRing(s.ring, q, j) <= Requests(b[q].minutes, j)
    BY DEF Store
<1>1. /\ {"ring", "overall", "byProvider", "buckets"} \subseteq DOMAIN r
      /\ r.ring = kept /\ r.overall = Statistics!Sub(s.overall, b[p].count)
      /\ c = [b EXCEPT ![p] = Statistics!NewProvider]
      /\ r.buckets = [j \in M |-> B(j)]
    BY <1>0 DEF Statistics!ResetOne
<1> HIDE DEF r, B
<1>2. DOMAIN c = DOMAIN b /\ c[p] = Statistics!NewProvider /\ \A q \in DOMAIN b \ {p} : c[q] = b[q]
    BY <1>1
<1>3. /\ kept \in Seq(Rows(t)) /\ Len(kept) \in Nat /\ Len(kept) <= Len(s.ring)
      /\ \A i \in DOMAIN kept : kept[i].provider # p /\ \E j \in DOMAIN s.ring : kept[i] = s.ring[j]
      /\ \A q, j : q # p => InRing(kept, q, j) = InRing(s.ring, q, j)
    BY <1>0, OthersKept
<1> HIDE DEF kept
\* The totals lose exactly what the provider had.
<1>4. Books(r.overall, c, t)
  <2> DEFINE d == b[p].count
             new == Statistics!NewProvider
  <2>1. /\ s.overall \in [Counted -> Nat] /\ d \in [Counted -> Nat] /\ IsFiniteSet(DOMAIN b)
        /\ \A k \in Counted : \A q \in DOMAIN b : b[q].count[k] \in Nat
      BY <1>0 DEF Books, Aggregate
  <2>2. ASSUME NEW k \in Counted PROVE d[k] <= s.overall[k]
    <3> DEFINE f == [q \in DOMAIN b |-> b[q].count[k]]
    <3>1. \A q \in DOMAIN b : f[q] \in Nat  BY <2>1
    <3>2. f[p] = d[k]  OBVIOUS
    <3>3. s.overall[k] = SumFunctionOnSet(f, DOMAIN b)  BY <1>0 DEF Books
    <3> HIDE DEF f
    <3>4. SumFunctionOnSet(f, DOMAIN b) = f[p] + SumFunctionOnSet(f, DOMAIN b \ {p})  BY <2>1, <3>1, SumTakes
    <3>5. SumFunctionOnSet(f, DOMAIN b \ {p}) \in Nat  BY <2>1, <3>1, SumSteps
    <3>6. d[k] \in Nat /\ s.overall[k] \in Nat  BY <2>1
    <3>7. QED  BY <3>2, <3>3, <3>4, <3>5, <3>6
  <2>3. r.overall = [k \in Counted |-> Statistics!Max({0, s.overall[k] - d[k]})]  BY <1>1, <2>1 DEF Statistics!Sub
  <2>4. ASSUME NEW k \in Counted PROVE r.overall[k] = s.overall[k] - d[k] /\ r.overall[k] \in Nat
    <3>1. d[k] \in Nat /\ s.overall[k] \in Nat /\ d[k] <= s.overall[k]  BY <2>1, <2>2
    <3>2. 0 \in Int /\ s.overall[k] - d[k] \in Int  BY <3>1
    <3>3. Statistics!Max({0, s.overall[k] - d[k]}) = IF 0 >= s.overall[k] - d[k] THEN 0 ELSE s.overall[k] - d[k]
        BY <3>2, LargerOf
    <3>4. QED  BY <2>3, <3>1, <3>3
  <2>5. \A k \in Counted : new.count[k] = 0  BY FreshAggregate, ZeroFacts
  <2> HIDE DEF new
  <2>6. \A k \in Counted : r.overall[k] + (IF p \in DOMAIN b THEN d[k] ELSE 0) = s.overall[k] + new.count[k]
    <3> TAKE k \in Counted
    <3>1. d[k] \in Nat /\ s.overall[k] \in Nat /\ r.overall[k] = s.overall[k] - d[k]  BY <2>1, <2>4
    <3> HIDE DEF d
    <3>2. QED  BY <2>5, <3>1
  <2>7. r.overall \in [Counted -> Nat]
    <3>1. DOMAIN r.overall = Counted  BY <2>3
    <3>2. QED  BY <2>3, <2>4
  <2>8. DOMAIN c = DOMAIN b \cup {p} /\ c[p] = new  BY <1>2 DEF new
  <2>9. BooksReplaced(s.overall, b, p, new, r.overall, c)  BY <1>2, <2>6, <2>7, <2>8 DEF BooksReplaced
  <2>10. Aggregate(new, t)  BY FreshAggregate DEF new
  <2> HIDE DEF b, c, d
  <2>11. QED  BY <1>0, <2>9, <2>10, BooksReplace
<1>5. r.ring \in Seq(Rows(t)) /\ Len(r.ring) <= n
  <2>1. Len(s.ring) \in Nat  BY <1>0
  <2>2. QED  BY <1>0, <1>1, <1>3, <2>1
<1>6. \A i \in DOMAIN kept : kept[i].provider \in DOMAIN c  BY <1>0, <1>2, <1>3
<1>7. ASSUME NEW q \in DOMAIN c, NEW j \in Recent(t) PROVE InRing(kept, q, j) <= Requests(c[q].minutes, j)
  <2>0. \A x \in DOMAIN c : Requests(c[x].minutes, j) \in Nat  BY <1>4, OfAllNat
  <2>1. CASE q = p
    <3>1. {i \in DOMAIN kept : kept[i].provider = p /\ kept[i].minute = j} = {}  BY <1>3
    <3>2. InRing(kept, p, j) = 0  BY <3>1, FS_EmptySet, Zenon DEF InRing
    <3>3. QED  BY <2>0, <2>1, <3>2
  <2>2. CASE q # p
    <3>1. InRing(kept, q, j) = InRing(s.ring, q, j) /\ c[q] = b[q] /\ q \in DOMAIN b  BY <1>2, <1>3, <2>2
    <3>2. QED  BY <1>0, <3>1
  <2>3. QED  BY <2>1, <2>2
<1>8. ASSUME NEW j, NEW f PROVE Statistics!Cardinality({i \in Of(j) : f \in {"requests", kept[i].outcome}}) \in Nat
  <2> DEFINE X == {i \in Of(j) : f \in {"requests", kept[i].outcome}}
  <2>0. DOMAIN kept = 1 .. Len(kept)  BY <1>3
  <2>1. X \in SUBSET (1 .. Len(kept))  BY <2>0
  <2> HIDE DEF X
  <2>2. IsFiniteSet(1 .. Len(kept))  BY <1>3, FS_Interval
  <2>3. Cardinality(X) \in Nat  BY <2>1, <2>2, FS_Subset, FS_CardinalityType
  <2>4. Statistics!Cardinality(X) \in Nat  BY <2>3, SameSize
  <2>5. QED  BY <2>4 DEF X
<1>9. \A j : B(j) \in [Timed -> Nat]
  <2> HIDE DEF Of
  <2> QED  BY <1>8, ZeroFacts DEF B
<1>10. DOMAIN r.buckets \subseteq 0 .. t /\ \A j \in DOMAIN r.buckets : r.buckets[j] \in [Timed -> Nat]
  <2>1. \A i \in DOMAIN kept : kept[i].minute \in 0 .. t
    <3>1. \A i \in DOMAIN kept : kept[i] \in Rows(t)  BY <1>3
    <3>2. QED  BY <3>1, EventFacts
  <2>2. QED  BY <1>1, <1>9, <2>1
<1>11. ASSUME NEW j \in Recent(t) PROVE Requests(r.buckets, j) <= OfAll(c, j)
  <2>0. OfAll(c, j) \in Nat /\ \A x \in DOMAIN c : Requests(c[x].minutes, j) \in Nat  BY <1>4, OfAllNat
  <2>1. CASE j \notin DOMAIN r.buckets
    <3>1. Requests(r.buckets, j) = 0  BY <1>10, <2>1, AtSeries
    <3>2. QED  BY <2>0, <3>1
  <2>2. CASE j \in DOMAIN r.buckets
    <3> DEFINE f == [q \in DOMAIN c |-> Requests(c[q].minutes, j)]
               g == [q \in DOMAIN c |-> InRing(kept, q, j)]
    <3>1. Requests(r.buckets, j) = B(j)["requests"]  BY <1>1, <2>2 DEF Requests, Statistics!At
    <3>2. B(j)["requests"] = Statistics!Cardinality({i \in Of(j) : "requests" \in {"requests", kept[i].outcome}})
      <4> HIDE DEF Of
      <4>1. "requests" \in DOMAIN Statistics!NoTime  BY DEF Statistics!NoTime
      <4>2. QED  BY <4>1 DEF B
    <3>3. {i \in Of(j) : "requests" \in {"requests", kept[i].outcome}} = Of(j)  OBVIOUS
    <3>4. Statistics!Cardinality({i \in Of(j) : "requests" \in {"requests", kept[i].outcome}}) = Statistics!Cardinality(Of(j))
        BY <3>3, Zenon
    <3>5. Requests(r.buckets, j) = Cardinality(Of(j))
      <4> HIDE DEF Of
      <4>1. QED  BY <3>1, <3>2, <3>4, SameSize
    <3>6. IsFiniteSet(DOMAIN c)  BY <1>4 DEF Books
    <3>7. Cardinality(Of(j)) = SumFunctionOnSet(g, DOMAIN c)
      <4> DEFINE D == DOMAIN c
      <4>1. kept \in Seq(Rows(t)) /\ IsFiniteSet(D) /\ \A i \in DOMAIN kept : kept[i].provider \in D
          BY <1>3, <1>6, <3>6
      <4> HIDE DEF D
      <4>2. Cardinality({i \in DOMAIN kept : kept[i].minute = j}) = SumFunctionOnSet([q \in D |-> InRing(kept, q, j)], D)
          BY <4>1, MinuteInParts
      <4>3. QED  BY <4>2 DEF D
    <3>8. \A q \in DOMAIN c : f[q] \in Nat /\ g[q] \in Nat /\ g[q] <= f[q]
      <4>1. \A q \in DOMAIN c : InRing(kept, q, j) \in Nat  BY <1>3, RingHits
      <4>2. QED  BY <1>7, <2>0, <4>1
    <3>9. OfAll(c, j) = SumFunctionOnSet(f, DOMAIN c)  BY DEF OfAll
    <3> HIDE DEF f, g, Of, c
    <3>10. SumFunctionOnSet(g, DOMAIN c) <= SumFunctionOnSet(f, DOMAIN c)  BY <3>6, <3>8, SumIsLess
    <3>11. QED  BY <3>5, <3>7, <3>9, <3>10
  <2>3. QED  BY <2>1, <2>2
<1>12. Store(r, t, n)  BY <1>1, <1>4, <1>5, <1>6, <1>7, <1>10, <1>11 DEF Store
<1>13. QED  BY <1>12 DEF r

----------------------------------------------------------------------------
(* The invariant and its steps *)

\* A saver between its snapshot and its write has books in hand, and a file to write them to.
Saving(s, files, t) ==
    /\ {"at", "data", "inode"} \subseteq DOMAIN s
    /\ s.at \in {"open", "write"} => Snap(s.data, t)
    /\ s.at = "write" => s.inode \in 1 .. files

StatisticsInv ==
    /\ now \in Nat
    /\ DOMAIN tally = {"events", "saves", "kills"} /\ tally.events \in 0 .. MaxEvents
    /\ Store(stats, now, tally.events)
    /\ \E S : inodes \in Seq(S)
    /\ \A i \in DOMAIN inodes : inodes[i] = Statistics!Torn \/ Snap(inodes[i], now)
    /\ path \in 0 .. Len(inodes) /\ tmp \in 0 .. Len(inodes)
    /\ DOMAIN saver = Savers
    /\ \A g \in Savers : Saving(saver[g], Len(inodes), now)

LEMMA StatisticsStart == ASSUME Reporting PROVE Statistics!Init => StatisticsInv
<1> SUFFICES ASSUME Statistics!Init PROVE StatisticsInv  OBVIOUS
<1>1. /\ now = 0 /\ stats = Statistics!NewStore /\ inodes = <<>> /\ path = 0 /\ tmp = 0
      /\ saver = [g \in Savers |-> Statistics!Idle] /\ tally = [events |-> 0, saves |-> 0, kills |-> 0]
    BY DEF Statistics!Init
<1>2. inodes \in Seq({}) /\ Len(inodes) = 0 /\ DOMAIN inodes = {}  BY <1>1
<1>3. DOMAIN tally = {"events", "saves", "kills"} /\ tally.events = 0 /\ tally.events \in 0 .. MaxEvents
    BY <1>1 DEF Reporting
<1>4. Store(stats, now, tally.events)  BY <1>1, <1>3, StoreStarts
<1>5. \A g \in Savers : Saving(saver[g], Len(inodes), now)  BY <1>1 DEF Saving, Statistics!Idle
<1>6. QED  BY <1>1, <1>2, <1>3, <1>4, <1>5 DEF StatisticsInv

LEMMA RecordStep == ASSUME Reporting, StatisticsInv, Statistics!Record PROVE StatisticsInv'
<1>1. PICK ev \in Events, minute \in Statistics!Max({0, now - 1}) .. now :
          stats' = Statistics!Recorded(stats, Statistics!Put(ev, "minute", minute))
    BY DEF Statistics!Record
<1> DEFINE e == Statistics!Put(ev, "minute", minute)
<1>2. /\ tally.events < MaxEvents /\ tally' = [tally EXCEPT !.events = @ + 1]
      /\ now' = now /\ inodes' = inodes /\ path' = path /\ tmp' = tmp /\ saver' = saver
    BY DEF Statistics!Record
<1>3. e \in Rows(now)
  <2>1. now \in Nat  BY DEF StatisticsInv
  <2>2. 0 \in Int /\ now - 1 \in Int  BY <2>1
  <2>3. Statistics!Max({0, now - 1}) = IF 0 >= now - 1 THEN 0 ELSE now - 1  BY <2>2, LargerOf
  <2>4. minute \in 0 .. now  BY <2>1, <2>3
  <2>5. QED  BY <2>4 DEF Rows
<1> HIDE DEF e
<1>4. /\ tally.events \in Nat /\ now \in Nat /\ Store(stats, now, tally.events)
      /\ DOMAIN tally' = {"events", "saves", "kills"}
      /\ tally'.events = tally.events + 1 /\ tally'.events \in 0 .. MaxEvents
    BY <1>2 DEF StatisticsInv, Reporting
<1>5. Store(Statistics!Recorded(stats, e), now, tally.events + 1)  BY <1>3, <1>4, StoreRecorded
<1>6. Store(stats', now', tally'.events)  BY <1>1, <1>2, <1>4, <1>5 DEF e
<1>7. QED  BY <1>2, <1>4, <1>6 DEF StatisticsInv

LEMMA ResetStep == ASSUME Reporting, StatisticsInv, NEW g \in Savers,
           Statistics!Reset(g) \/ Statistics!ResetProvider(g)
    PROVE  StatisticsInv'
<1>1. /\ saver' = [saver EXCEPT ![g].at = "reset"]
      /\ now' = now /\ inodes' = inodes /\ path' = path /\ tmp' = tmp /\ tally' = tally
    BY DEF Statistics!Reset, Statistics!ResetProvider, Statistics!ResetBy
<1>2. now \in Nat /\ tally.events \in Nat /\ Store(stats, now, tally.events)  BY DEF StatisticsInv
<1>3. Store(stats', now, tally.events)
  <2>1. CASE Statistics!Reset(g)
    <3>1. stats' = Statistics!ResetAll(stats)  BY <2>1 DEF Statistics!Reset, Statistics!ResetBy
    <3>2. QED  BY <1>2, <3>1, StoreResetAll
  <2>2. CASE Statistics!ResetProvider(g)
    <3>1. PICK p \in DOMAIN stats.byProvider : stats' = Statistics!ResetOne(stats, p)
        BY <2>2 DEF Statistics!ResetProvider, Statistics!ResetBy
    <3>2. QED  BY <1>2, <3>1, StoreResetOne
  <2>3. QED  BY <2>1, <2>2
<1>4. ASSUME NEW h \in Savers PROVE Saving(saver'[h], Len(inodes), now)
  <2>1. Saving(saver[h], Len(inodes), now) /\ DOMAIN saver = Savers  BY DEF StatisticsInv
  <2>2. saver'[h] = saver[h] \/ saver'[h] = [saver[h] EXCEPT !.at = "reset"]  BY <1>1, <2>1
  <2>3. QED  BY <2>1, <2>2 DEF Saving
<1>5. DOMAIN saver' = Savers  BY <1>1 DEF StatisticsInv
<1>6. QED  BY <1>1, <1>3, <1>4, <1>5 DEF StatisticsInv

LEMMA SnapshotStep == ASSUME Reporting, StatisticsInv, NEW g \in Savers, Statistics!Snapshot(g) PROVE StatisticsInv'
<1>1. /\ tally' = [tally EXCEPT !.saves = @ + 1]
      /\ saver' = [saver EXCEPT ![g] = [at |-> "open", data |-> Statistics!Persisted, inode |-> 0]]
      /\ now' = now /\ stats' = stats /\ inodes' = inodes /\ path' = path /\ tmp' = tmp
    BY DEF Statistics!Snapshot
<1>2. now \in Nat /\ Store(stats, now, tally.events)  BY DEF StatisticsInv
<1>3. Snap(Statistics!Persisted, now)  BY <1>2, SnapshotSound
<1>4. tally'.events = tally.events /\ DOMAIN tally' = {"events", "saves", "kills"}  BY <1>1 DEF StatisticsInv
<1>5. ASSUME NEW h \in Savers PROVE Saving(saver'[h], Len(inodes), now)
  <2>1. Saving(saver[h], Len(inodes), now) /\ DOMAIN saver = Savers  BY DEF StatisticsInv
  <2> DEFINE d == Statistics!Persisted
  <2> HIDE DEF d
  <2>2. saver'[h] = saver[h] \/ saver'[h] = [at |-> "open", data |-> d, inode |-> 0]  BY <1>1, <2>1 DEF d
  <2>3. Snap(d, now)  BY <1>3 DEF d
  <2>4. QED  BY <2>1, <2>2, <2>3 DEF Saving
<1>6. DOMAIN saver' = Savers  BY <1>1 DEF StatisticsInv
<1>7. QED  BY <1>1, <1>4, <1>5, <1>6 DEF StatisticsInv

LEMMA OpenStep == ASSUME StatisticsInv, NEW g \in Savers, Statistics!OpenTemp(g) PROVE StatisticsInv'
<1> DEFINE i == IF tmp = 0 THEN Len(inodes) + 1 ELSE tmp
<1>1. /\ saver[g].at = "open"
      /\ inodes' = IF tmp = 0 THEN Append(inodes, Statistics!Torn) ELSE [inodes EXCEPT ![i] = Statistics!Torn]
      /\ tmp' = i /\ saver' = [saver EXCEPT ![g].at = "write", ![g].inode = i]
      /\ now' = now /\ stats' = stats /\ path' = path /\ tally' = tally
    BY DEF Statistics!OpenTemp
<1>2. PICK S : inodes \in Seq(S)  BY DEF StatisticsInv
<1>3. /\ Len(inodes) \in Nat /\ DOMAIN inodes = 1 .. Len(inodes) /\ tmp \in 0 .. Len(inodes)
      /\ path \in 0 .. Len(inodes)
    BY <1>2 DEF StatisticsInv
<1>4. /\ inodes' \in Seq(S \cup {Statistics!Torn}) /\ Len(inodes) <= Len(inodes') /\ i \in 1 .. Len(inodes')
      /\ \A k \in DOMAIN inodes' : inodes'[k] = Statistics!Torn \/ (k \in DOMAIN inodes /\ inodes'[k] = inodes[k])
  <2> DEFINE x == Statistics!Torn
  <2> HIDE DEF x
  <2>0. inodes \in Seq(S \cup {x})  BY <1>2, SeqSubset
  <2>1. CASE tmp = 0
    <3>1. inodes' = Append(inodes, x) /\ i = Len(inodes) + 1  BY <1>1, <2>1 DEF x
    <3>2. /\ Append(inodes, x) \in Seq(S \cup {x}) /\ Len(Append(inodes, x)) = Len(inodes) + 1
          /\ \A k \in DOMAIN Append(inodes, x) :
                IF k = Len(inodes) + 1 THEN Append(inodes, x)[k] = x
                ELSE k \in DOMAIN inodes /\ Append(inodes, x)[k] = inodes[k]
        BY <2>0
    <3> HIDE DEF i
    <3>3. QED  BY <1>3, <3>1, <3>2 DEF x
  <2>2. CASE tmp # 0
    <3>1. inodes' = [inodes EXCEPT ![tmp] = x] /\ i = tmp /\ tmp \in 1 .. Len(inodes)  BY <1>1, <1>3, <2>2 DEF x
    <3>2. /\ [inodes EXCEPT ![tmp] = x] \in Seq(S \cup {x}) /\ Len([inodes EXCEPT ![tmp] = x]) = Len(inodes)
          /\ \A k \in DOMAIN inodes : [inodes EXCEPT ![tmp] = x][k] = IF k = tmp THEN x ELSE inodes[k]
          /\ DOMAIN [inodes EXCEPT ![tmp] = x] = DOMAIN inodes
        BY <1>3, <2>0, <3>1
    <3> HIDE DEF i
    <3>3. QED  BY <1>3, <3>1, <3>2 DEF x
  <2>3. QED  BY <2>1, <2>2
<1> HIDE DEF i
<1>5. \A k \in DOMAIN inodes' : inodes'[k] = Statistics!Torn \/ Snap(inodes'[k], now)  BY <1>4 DEF StatisticsInv
<1>6. path' \in 0 .. Len(inodes') /\ tmp' \in 0 .. Len(inodes') /\ Len(inodes') \in Nat
    BY <1>1, <1>3, <1>4
<1>7. ASSUME NEW h \in Savers PROVE Saving(saver'[h], Len(inodes'), now)
  <2>1. Saving(saver[h], Len(inodes), now) /\ Saving(saver[g], Len(inodes), now) /\ DOMAIN saver = Savers
      BY DEF StatisticsInv
  <2>2. saver'[h] = saver[h] \/ (h = g /\ saver'[h] = [saver[g] EXCEPT !.at = "write", !.inode = i])
      BY <1>1, <2>1
  <2>3. Len(inodes) <= Len(inodes') /\ Len(inodes) \in Nat /\ Len(inodes') \in Nat  BY <1>3, <1>4, <1>6
  <2>4. CASE saver'[h] = saver[h]  BY <2>1, <2>3, <2>4 DEF Saving
  <2>5. CASE saver'[h] = [saver[g] EXCEPT !.at = "write", !.inode = i]
      BY <1>1, <1>4, <2>1, <2>5 DEF Saving
  <2>6. QED  BY <2>2, <2>4, <2>5
<1>8. DOMAIN saver' = Savers  BY <1>1 DEF StatisticsInv
<1>9. QED  BY <1>1, <1>4, <1>5, <1>6, <1>7, <1>8 DEF StatisticsInv

LEMMA WriteStep == ASSUME StatisticsInv, NEW g \in Savers, Statistics!WriteTemp(g) PROVE StatisticsInv'
<1> DEFINE i == saver[g].inode
           x == saver[g].data
<1>1. /\ saver[g].at = "write" /\ inodes' = [inodes EXCEPT ![i] = x]
      /\ saver' = [saver EXCEPT ![g].at = "rename", ![g].data = Statistics!Torn]
      /\ now' = now /\ stats' = stats /\ path' = path /\ tmp' = tmp /\ tally' = tally
    BY DEF Statistics!WriteTemp
<1>2. PICK S : inodes \in Seq(S)  BY DEF StatisticsInv
<1>3. Snap(x, now) /\ i \in 1 .. Len(inodes)  BY <1>1 DEF StatisticsInv, Saving
<1> HIDE DEF i, x
<1>4. inodes \in Seq(S \cup {x})  BY <1>2, SeqSubset
<1>5. /\ inodes' \in Seq(S \cup {x}) /\ Len(inodes') = Len(inodes) /\ DOMAIN inodes' = DOMAIN inodes
      /\ \A k \in DOMAIN inodes : inodes'[k] = IF k = i THEN x ELSE inodes[k]
    BY <1>1, <1>3, <1>4
<1>6. \A k \in DOMAIN inodes' : inodes'[k] = Statistics!Torn \/ Snap(inodes'[k], now)  BY <1>3, <1>5 DEF StatisticsInv
<1>7. ASSUME NEW h \in Savers PROVE Saving(saver'[h], Len(inodes'), now)
  <2>1. Saving(saver[h], Len(inodes), now) /\ DOMAIN saver = Savers  BY DEF StatisticsInv
  <2> DEFINE y == Statistics!Torn
  <2> HIDE DEF y
  <2>2. saver'[h] = saver[h] \/ saver'[h] = [saver[h] EXCEPT !.at = "rename", !.data = y]  BY <1>1, <2>1 DEF y
  <2>3. QED  BY <1>5, <2>1, <2>2 DEF Saving
<1>8. DOMAIN saver' = Savers  BY <1>1 DEF StatisticsInv
<1>9. QED  BY <1>1, <1>5, <1>6, <1>7, <1>8 DEF StatisticsInv

LEMMA RenameStep == ASSUME StatisticsInv, NEW g \in Savers, Statistics!RenameTemp(g) PROVE StatisticsInv'
<1>1. /\ path' = (IF tmp = 0 THEN path ELSE tmp) /\ tmp' = 0
      /\ saver' = [saver EXCEPT ![g].at = "idle", ![g].inode = 0]
      /\ now' = now /\ stats' = stats /\ inodes' = inodes /\ tally' = tally
    BY DEF Statistics!RenameTemp
<1>2. path' \in 0 .. Len(inodes) /\ tmp' \in 0 .. Len(inodes)
  <2>1. path \in 0 .. Len(inodes) /\ tmp \in 0 .. Len(inodes)  BY DEF StatisticsInv
  <2>2. QED  BY <1>1, <2>1
<1>3. ASSUME NEW h \in Savers PROVE Saving(saver'[h], Len(inodes), now)
  <2>1. Saving(saver[h], Len(inodes), now) /\ DOMAIN saver = Savers  BY DEF StatisticsInv
  <2>2. saver'[h] = saver[h] \/ saver'[h] = [saver[h] EXCEPT !.at = "idle", !.inode = 0]  BY <1>1, <2>1
  <2>3. QED  BY <2>1, <2>2 DEF Saving
<1>4. DOMAIN saver' = Savers  BY <1>1 DEF StatisticsInv
<1>5. QED  BY <1>1, <1>2, <1>3, <1>4 DEF StatisticsInv

LEMMA RestartStep == ASSUME Reporting, StatisticsInv, Statistics!Restart PROVE StatisticsInv'
<1>1. /\ stats' = (IF path = 0 THEN Statistics!NewStore ELSE Statistics!Restored(inodes[path]))
      /\ saver' = [g \in Savers |-> Statistics!Idle] /\ tally' = [tally EXCEPT !.kills = @ + 1]
      /\ now' = now /\ inodes' = inodes /\ path' = path /\ tmp' = tmp
    BY DEF Statistics!Restart
<1>2. now \in Nat /\ tally.events \in Nat /\ path \in 0 .. Len(inodes)  BY DEF StatisticsInv
<1>3. Store(stats', now, tally.events)
  <2>1. CASE path = 0  BY <1>1, <1>2, <2>1, StoreStarts
  <2>2. CASE path # 0
    <3>1. PICK S : inodes \in Seq(S)  BY DEF StatisticsInv
    <3>2. path \in DOMAIN inodes  BY <1>2, <2>2, <3>1
    <3>3. inodes[path] = Statistics!Torn \/ Snap(inodes[path], now)  BY <3>2 DEF StatisticsInv
    <3>4. QED  BY <1>1, <1>2, <2>2, <3>3, RestoredSound
  <2>3. QED  BY <2>1, <2>2
<1>4. tally'.events = tally.events /\ DOMAIN tally' = {"events", "saves", "kills"}  BY <1>1 DEF StatisticsInv
<1>5. DOMAIN saver' = Savers /\ \A g \in Savers : Saving(saver'[g], Len(inodes), now)
    BY <1>1 DEF Saving, Statistics!Idle
<1>6. QED  BY <1>1, <1>3, <1>4, <1>5 DEF StatisticsInv

LEMMA TickStep == ASSUME Reporting, StatisticsInv, Statistics!Tick PROVE StatisticsInv'
<1>1. /\ now' = now + 1 /\ stats' = stats /\ inodes' = inodes /\ path' = path /\ tmp' = tmp
      /\ saver' = saver /\ tally' = tally
    BY DEF Statistics!Tick
<1>2. now \in Nat /\ now + 1 \in Nat /\ now <= now + 1 /\ Store(stats, now, tally.events)  BY DEF StatisticsInv
<1>3. Store(stats, now + 1, tally.events)  BY <1>2, StoreAges
<1>4. \A d : Snap(d, now) => Snap(d, now + 1)  BY <1>2, BooksAge DEF Snap
<1>5. \A i \in DOMAIN inodes : inodes[i] = Statistics!Torn \/ Snap(inodes[i], now + 1)  BY <1>4 DEF StatisticsInv
<1>6. \A g \in Savers : Saving(saver[g], Len(inodes), now + 1)  BY <1>4 DEF StatisticsInv, Saving
<1>7. QED  BY <1>1, <1>2, <1>3, <1>5, <1>6 DEF StatisticsInv

LEMMA StatisticsStep == ASSUME Reporting, StatisticsInv, [Statistics!Next]_(Statistics!vars) PROVE StatisticsInv'
<1>1. CASE UNCHANGED Statistics!vars  BY <1>1 DEF StatisticsInv, Statistics!vars
<1>2. CASE Statistics!Next
  <2>1. CASE Statistics!Record  BY <2>1, RecordStep
  <2>2. CASE Statistics!Restart  BY <2>2, RestartStep
  <2>3. CASE Statistics!Tick  BY <2>3, TickStep
  <2>4. ASSUME NEW g \in Savers, Statistics!Reset(g) \/ Statistics!ResetProvider(g) PROVE StatisticsInv'
      BY <2>4, ResetStep
  <2>5. ASSUME NEW g \in Savers, Statistics!Snapshot(g) PROVE StatisticsInv'  BY <2>5, SnapshotStep
  <2>6. ASSUME NEW g \in Savers, Statistics!OpenTemp(g) PROVE StatisticsInv'  BY <2>6, OpenStep
  <2>7. ASSUME NEW g \in Savers, Statistics!WriteTemp(g) PROVE StatisticsInv'  BY <2>7, WriteStep
  <2>8. ASSUME NEW g \in Savers, Statistics!RenameTemp(g) PROVE StatisticsInv'  BY <2>8, RenameStep
  <2>9. QED  BY <1>2, <2>1, <2>2, <2>3, <2>4, <2>5, <2>6, <2>7, <2>8 DEF Statistics!Next
<1>3. QED  BY <1>1, <1>2

----------------------------------------------------------------------------
(* The books add up *)

LEMMA LedgerHolds == ASSUME Reporting, StatisticsInv PROVE Statistics!Ledger
<1> DEFINE b == stats.byProvider
           m == [p \in DOMAIN b |-> b[p].count]
<1>1. Books(stats.overall, b, now)  BY DEF StatisticsInv, Store
<1>2. stats.overall = Statistics!Total(Statistics!Zero, m)
  <2>1. \A k : SumOf(m, k) = Counts(b, k)
    <3> TAKE k
    <3>1. DOMAIN m = DOMAIN b /\ [i \in DOMAIN m |-> m[i][k]] = [p \in DOMAIN b |-> b[p].count[k]]  OBVIOUS
    <3> HIDE DEF m
    <3>2. QED  BY <3>1, Zenon DEF SumOf, Counts
  <2> HIDE DEF m
  <2>2. stats.overall \in [Counted -> Nat] /\ \A k \in Counted : stats.overall[k] = Counts(b, k)
      BY <1>1 DEF Books, Counts
  <2> DEFINE t == Statistics!Total(Statistics!Zero, m)
  <2>3. DOMAIN t = Counted /\ \A k \in Counted : t[k] = SumOf(m, k)  BY TotalIs
  <2>4. t = [k \in DOMAIN t |-> t[k]]  BY DEF Statistics!Total
  <2> HIDE DEF t
  <2>5. stats.overall = t  BY <2>1, <2>2, <2>3, <2>4
  <2>6. QED  BY <2>5 DEF t
<1>3. ASSUME NEW p \in DOMAIN b PROVE
      /\ b[p].count.requests = b[p].count.success + b[p].count.failed + b[p].count.canceled
      /\ \A k \in DOMAIN Statistics!NoTime :
            /\ Statistics!Total(Statistics!NoTime, b[p].hours)[k] <= b[p].count[k]
            /\ Statistics!Total(Statistics!NoTime, b[p].minutes)[k] <= b[p].count[k]
      /\ \A k \in DOMAIN Statistics!Zero : Statistics!Total(Statistics!Zero, b[p].byAccount)[k] <= b[p].count[k]
  <2> DEFINE a == b[p]
  <2>1. Aggregate(a, now)  BY <1>1 DEF Books
  <2> HIDE DEF a
  <2>2. /\ a.count["requests"] = a.count["success"] + a.count["failed"] + a.count["canceled"]
        /\ Within(Timed, a.minutes, a.count) /\ Within(Timed, a.hours, a.count)
        /\ Within(Counted, a.byAccount, a.count)
      BY <2>1 DEF Aggregate
  <2>3. \A k \in Timed : SumOf(a.minutes, k) <= a.count[k] /\ SumOf(a.hours, k) <= a.count[k]  BY <2>2 DEF Within
  <2>4. \A k \in Counted : SumOf(a.byAccount, k) <= a.count[k]  BY <2>2 DEF Within
  <2>5. /\ \A k \in Timed : /\ Statistics!Total(Statistics!NoTime, a.hours)[k] = SumOf(a.hours, k)
                            /\ Statistics!Total(Statistics!NoTime, a.minutes)[k] = SumOf(a.minutes, k)
        /\ \A k \in Counted : Statistics!Total(Statistics!Zero, a.byAccount)[k] = SumOf(a.byAccount, k)
      BY TotalIs
  <2>6. /\ \A k \in DOMAIN Statistics!NoTime :
              /\ Statistics!Total(Statistics!NoTime, a.hours)[k] <= a.count[k]
              /\ Statistics!Total(Statistics!NoTime, a.minutes)[k] <= a.count[k]
        /\ \A k \in DOMAIN Statistics!Zero : Statistics!Total(Statistics!Zero, a.byAccount)[k] <= a.count[k]
      BY <2>3, <2>4, <2>5, ZeroFacts
  <2>7. QED  BY <2>2, <2>6 DEF a
<1>4. QED  BY <1>2, <1>3 DEF Statistics!Ledger

(* Two views of one range agree *)

\* A window's total is that of the series that shows it.
LEMMA SeriesTotals ==
    ASSUME NEW m, IsFiniteSet(DOMAIN m), \A i \in DOMAIN m : m[i] \in [Timed -> Nat],
           NEW last \in Nat, DOMAIN m \subseteq 0 .. last, NEW n \in Nat
    PROVE  Statistics!Total(Statistics!NoTime, Statistics!Prune(m, last - n + 1))
              = Statistics!Total(Statistics!NoTime, Statistics!Series(m, last, n))
<1> DEFINE q == Statistics!Prune(m, last - n + 1)
           r == Statistics!Series(m, last, n)
<1>1. DOMAIN q = {j \in DOMAIN m : j >= last - n + 1} /\ \A j \in DOMAIN q : q[j] = m[j]
    BY DEF Statistics!Prune
<1>2. DOMAIN r = 1 .. n /\ \A i \in 1 .. n : r[i] = Statistics!At(m, last - n + i, Statistics!NoTime)
    BY DEF Statistics!Series
<1> HIDE DEF q, r
<1>3. ASSUME NEW k \in Timed PROVE SumOf(q, k) = SumOf(r, k)
  <2> DEFINE S == DOMAIN q
             T == 1 .. n
             e == [j \in S |-> j - last + n]
             f == [i \in T |-> r[i][k]]
             g == [j \in S |-> q[j][k]]
  <2>1. IsFiniteSet(S) /\ IsFiniteSet(T)
    <3>1. S \subseteq DOMAIN m  BY <1>1
    <3>2. IsFiniteSet(T)  BY FS_Interval
    <3> HIDE DEF S
    <3>3. IsFiniteSet(S)  BY <3>1, FS_Subset
    <3>4. QED  BY <3>2, <3>3
  <2>2. \A i \in T : f[i] \in Nat
    <3> TAKE i \in T
    <3>1. Statistics!At(m, last - n + i, Statistics!NoTime) \in [Timed -> Nat]  BY AtSeries
    <3>2. QED  BY <1>2, <3>1
  <2>3. \A j \in S : j \in 0 .. last /\ j \in DOMAIN m /\ j >= last - n + 1  BY <1>1
  <2>4. e \in [S -> T] /\ \A x, y \in S : e[x] = e[y] => x = y
    <3> HIDE DEF S
    <3>1. \A j \in S : j - last + n \in T  BY <2>3
    <3>2. \A x, y \in S : x \in Int /\ y \in Int /\ (x - last + n = y - last + n => x = y)  BY <2>3
    <3> HIDE DEF T
    <3>3. QED  BY <3>1, <3>2
  <2>5. ASSUME NEW y \in T PROVE (\E x \in S : e[x] = y) \/ f[y] = 0
    <3>1. CASE last - n + y \in DOMAIN m
      <4>1. last - n + y \in S /\ e[last - n + y] = y  BY <1>1, <3>1
      <4>2. QED  BY <4>1
    <3>2. CASE last - n + y \notin DOMAIN m
      <4>1. r[y] = Statistics!NoTime  BY <1>2, <3>2 DEF Statistics!At
      <4>2. QED  BY <4>1, ZeroFacts
    <3>3. QED  BY <3>1, <3>2
  <2>6. ASSUME NEW x \in S PROVE g[x] = f[e[x]]
    <3>1. e[x] \in T /\ e[x] = x - last + n /\ last - n + e[x] = x  BY <2>3
    <3>2. r[e[x]] = Statistics!At(m, x, Statistics!NoTime)  BY <1>2, <3>1
    <3>3. r[e[x]] = m[x]  BY <2>3, <3>2 DEF Statistics!At
    <3> HIDE DEF e, S
    <3>4. QED  BY <1>1, <3>1, <3>3 DEF S
  <2>7. SumOf(q, k) = SumFunctionOnSet(g, S)  BY DEF SumOf
  <2>8. SumOf(r, k) = SumFunctionOnSet(f, T)  BY <1>2, Zenon DEF SumOf
  <2> HIDE DEF S, T, e, f, g
  <2>9. SumFunctionOnSet(g, S) = SumFunctionOnSet(f, T)  BY <2>1, <2>2, <2>4, <2>5, <2>6, SumMoves
  <2>10. QED  BY <2>7, <2>8, <2>9
<1> DEFINE x == Statistics!Total(Statistics!NoTime, q)
           y == Statistics!Total(Statistics!NoTime, r)
<1>4. /\ DOMAIN x = Timed /\ DOMAIN y = Timed
      /\ \A k \in Timed : x[k] = SumOf(q, k) /\ y[k] = SumOf(r, k)
      /\ x = [k \in DOMAIN x |-> x[k]] /\ y = [k \in DOMAIN y |-> y[k]]
  <2>1. x = [k \in DOMAIN x |-> x[k]] /\ y = [k \in DOMAIN y |-> y[k]]  BY DEF Statistics!Total
  <2> HIDE DEF x, y
  <2>2. QED  BY <2>1, TotalIs DEF x, y
<1> HIDE DEF x, y
<1>5. x = y  BY <1>3, <1>4
<1>6. QED  BY <1>5 DEF x, y, q, r

\* The window of a provider, and its chart.
LEMMA WindowIsChart ==
    ASSUME Reporting, now \in Nat, NEW a, Aggregate(a, now), NEW hours \in 1 .. HourWindow
    PROVE  Statistics!ProviderWindow(a, hours) =
              Statistics!Total(Statistics!NoTime, IF hours * HourMinutes <= Window
                                                  THEN Statistics!MinuteHistory(a, hours * HourMinutes)
                                                  ELSE Statistics!History(a, hours))
<1>0. hours \in Nat /\ hours * HourMinutes \in Nat /\ HourWindow \in Nat /\ hours <= HourWindow
  <2>1. hours \in Nat /\ HourMinutes \in Nat /\ HourWindow \in Nat /\ hours <= HourWindow  BY DEF Reporting
  <2>2. QED  BY <2>1
<1>1. CASE hours * HourMinutes <= Window
  <2> DEFINE n == hours * HourMinutes
  <2>1. Statistics!ProviderWindow(a, hours) = Statistics!Total(Statistics!NoTime, Statistics!Prune(a.minutes, now - n + 1))
      BY <1>1 DEF Statistics!ProviderWindow, Statistics!WindowSource, Statistics!WindowCutoff
  <2>2. n \in Nat  BY <1>0
  <2> HIDE DEF n
  <2>3. /\ IsFiniteSet(DOMAIN a.minutes) /\ \A i \in DOMAIN a.minutes : a.minutes[i] \in [Timed -> Nat]
        /\ DOMAIN a.minutes \subseteq 0 .. now
      BY DEF Aggregate, Within
  <2>4. Statistics!Total(Statistics!NoTime, Statistics!Prune(a.minutes, now - n + 1))
           = Statistics!Total(Statistics!NoTime, Statistics!Series(a.minutes, now, n))
      BY <2>2, <2>3, SeriesTotals
  <2>5. Statistics!MinuteHistory(a, n) = Statistics!Series(a.minutes, now, n)  BY DEF Statistics!MinuteHistory
  <2>6. QED  BY <1>1, <2>1, <2>4, <2>5 DEF n
<1>2. CASE ~(hours * HourMinutes <= Window)
  <2> DEFINE H == Statistics!HourOf(now)
  <2>1. H \in Nat  BY HoursGrow
  <2>2. Statistics!Min({hours, HourWindow}) = hours  BY <1>0, SmallerOf
  <2>3. Statistics!ProviderWindow(a, hours) = Statistics!Total(Statistics!NoTime, Statistics!Prune(a.hours, H - hours + 1))
      BY <1>2, <2>2 DEF Statistics!ProviderWindow, Statistics!WindowSource, Statistics!WindowCutoff
  <2>4. /\ IsFiniteSet(DOMAIN a.hours) /\ \A i \in DOMAIN a.hours : a.hours[i] \in [Timed -> Nat]
        /\ DOMAIN a.hours \subseteq 0 .. H
      BY DEF Aggregate, Within
  <2> HIDE DEF H
  <2>5. Statistics!Total(Statistics!NoTime, Statistics!Prune(a.hours, H - hours + 1))
           = Statistics!Total(Statistics!NoTime, Statistics!Series(a.hours, H, hours))
      BY <1>0, <2>1, <2>4, SeriesTotals
  <2>6. Statistics!History(a, hours) = Statistics!Series(a.hours, H, hours)  BY DEF Statistics!History, H
  <2>7. QED  BY <1>2, <2>3, <2>5, <2>6
<1>3. QED  BY <1>1, <1>2

\* The merged chart, and the charts it merges.
LEMMA MergedIsAll ==
    ASSUME Reporting, now \in Nat, NEW o, Books(o, stats.byProvider, now), NEW hours \in 1 .. HourWindow
    PROVE  Statistics!Total(Statistics!NoTime, Statistics!MergedHours(hours)) =
              Statistics!Total(Statistics!NoTime, [p \in DOMAIN stats.byProvider |->
                 Statistics!Total(Statistics!NoTime, Statistics!History(stats.byProvider[p], hours))])
<1> DEFINE b == stats.byProvider
           P == DOMAIN b
           H == Statistics!HourOf(now)
           At(p, j) == Statistics!At(b[p].hours, j, Statistics!NoTime)
           All(j)   == [p \in P |-> At(p, j)]
           K == {k \in UNION {DOMAIN b[p].hours : p \in P} : k >= H - hours}
           M == [k \in K |-> Statistics!Total(Statistics!NoTime, All(k))]
           w == Statistics!MergedHours(hours)
           Chart(p) == Statistics!History(b[p], hours)
           v == [p \in P |-> Statistics!Total(Statistics!NoTime, Chart(p))]
           Hour(i) == H - hours + i
<1>1. H \in Nat /\ hours \in Nat /\ IsFiniteSet(P)
    BY HoursGrow DEF Books, Reporting
<1>2. \A p \in P : DOMAIN b[p].hours \subseteq 0 .. H /\ \A i \in DOMAIN b[p].hours : b[p].hours[i] \in [Timed -> Nat]
    BY DEF Books, Aggregate, Within
<1>3. \A p \in P : \A j : At(p, j) \in [Timed -> Nat]  BY <1>2, AtSeries
<1>4. w = [i \in 1 .. hours |-> Statistics!At(M, Hour(i), Statistics!NoTime)]
    BY DEF Statistics!MergedHours, Statistics!Series
<1>5. \A p \in P : Chart(p) = [i \in 1 .. hours |-> At(p, Hour(i))]
    BY DEF Statistics!History, Statistics!Series
<1>6. \A k \in K : M[k] = Statistics!Total(Statistics!NoTime, All(k))  OBVIOUS
<1>7. ASSUME NEW i \in 1 .. hours, NEW k \in Timed PROVE w[i][k] = SumOf(All(Hour(i)), k)
  <2> DEFINE j == Hour(i)
  <2>1. w[i] = Statistics!At(M, j, Statistics!NoTime)  BY <1>4
  <2>2. j \in Int /\ j >= H - hours  BY <1>1
  <2>3. CASE j \in K
    <3>1. w[i] = Statistics!Total(Statistics!NoTime, All(j))
      <4> HIDE DEF All
      <4>1. QED  BY <2>1, <2>3 DEF Statistics!At
    <3> HIDE DEF All
    <3>2. Statistics!Total(Statistics!NoTime, All(j))[k] = SumOf(All(j), k)  BY TotalIs
    <3>3. QED  BY <3>1, <3>2
  <2>4. CASE j \notin K
    <3>1. w[i] = Statistics!NoTime  BY <2>1, <2>4 DEF Statistics!At
    <3>2. \A p \in P : At(p, j) = Statistics!NoTime  BY <2>2, <2>4 DEF Statistics!At
    <3> DEFINE f == [p \in P |-> All(j)[p][k]]
    <3>3. \A p \in P : f[p] = 0  BY <3>2, ZeroFacts
    <3>4. SumOf(All(j), k) = SumFunctionOnSet(f, P)
      <4>1. DOMAIN All(j) = P  OBVIOUS
      <4> HIDE DEF All
      <4>2. QED  BY <4>1, Zenon DEF SumOf
    <3> HIDE DEF f
    <3>5. SumFunctionOnSet(f, P) = 0  BY <1>1, <3>3, SumOfNone
    <3>6. QED  BY <3>1, <3>4, <3>5, ZeroFacts
  <2>5. QED  BY <2>3, <2>4
<1> DEFINE A(k) == [p \in P |-> [i \in 1 .. hours |-> At(p, Hour(i))[k]]]
<1>8. ASSUME NEW k \in Timed PROVE SumOf(w, k) = SumOf(v, k)
  <2> DEFINE T == 1 .. hours
  <2>1. IsFiniteSet(T) /\ \A p \in P : \A i \in T : A(k)[p][i] \in Nat
    <3>1. \A p \in P : \A i \in T : A(k)[p][i] = At(p, Hour(i))[k]  OBVIOUS
    <3>2. IsFiniteSet(T)  BY <1>1, FS_Interval
    <3>3. \A p \in P : \A i \in T : At(p, Hour(i))[k] \in Nat
      <4> HIDE DEF At, Hour
      <4> QED  BY <1>3
    <3> HIDE DEF A, At, Hour, T
    <3>4. QED  BY <3>1, <3>2, <3>3
  <2>2. SumOf(w, k) = SumFunctionOnSet(ColSums(A(k), P, T), T)
    <3>1. \A i \in T : w[i][k] = SumFunctionOnSet([p \in P |-> A(k)[p][i]], P)
      <4> TAKE i \in T
      <4>1. DOMAIN All(Hour(i)) = P /\ [p \in P |-> All(Hour(i))[p][k]] = [p \in P |-> A(k)[p][i]]  OBVIOUS
      <4>2. SumOf(All(Hour(i)), k) = SumFunctionOnSet([p \in P |-> A(k)[p][i]], P)
        <5> HIDE DEF All, A
        <5> QED  BY <4>1, Zenon DEF SumOf
      <4> HIDE DEF All, A, w, Hour
      <4>3. QED  BY <1>7, <4>2
    <3>2. DOMAIN w = T  BY <1>4
    <3> HIDE DEF w, A, T
    <3>3. [i \in T |-> w[i][k]] = ColSums(A(k), P, T)  BY <3>1 DEF ColSums
    <3>4. SumOf(w, k) = SumFunctionOnSet([i \in T |-> w[i][k]], T)  BY <3>2, Zenon DEF SumOf
    <3>5. QED  BY <3>3, <3>4
  <2>3. SumOf(v, k) = SumFunctionOnSet(RowSums(A(k), P, T), P)
    <3>1. \A p \in P : v[p][k] = SumFunctionOnSet([i \in T |-> A(k)[p][i]], T)
      <4> TAKE p \in P
      <4>1. v[p][k] = SumOf(Chart(p), k)
        <5> HIDE DEF Chart
        <5> QED  BY TotalIs
      <4>2. DOMAIN Chart(p) = T /\ [i \in T |-> Chart(p)[i][k]] = [i \in T |-> A(k)[p][i]]
        <5> HIDE DEF At, Chart, Hour
        <5>1. QED  BY <1>5
      <4> HIDE DEF A, Chart, v
      <4>3. SumOf(Chart(p), k) = SumFunctionOnSet([i \in T |-> A(k)[p][i]], T)  BY <4>2, Zenon DEF SumOf
      <4>4. QED  BY <4>1, <4>3
    <3>2. DOMAIN v = P  OBVIOUS
    <3> HIDE DEF v, A, T
    <3>3. [p \in P |-> v[p][k]] = RowSums(A(k), P, T)  BY <3>1 DEF RowSums
    <3>4. SumOf(v, k) = SumFunctionOnSet([p \in P |-> v[p][k]], P)  BY <3>2, Zenon DEF SumOf
    <3>5. QED  BY <3>3, <3>4
  <2> HIDE DEF A, T, w, v
  <2>4. SumFunctionOnSet(RowSums(A(k), P, T), P) = SumFunctionOnSet(ColSums(A(k), P, T), T)
      BY <1>1, <2>1, SumSwaps
  <2>5. QED  BY <2>2, <2>3, <2>4
<1> DEFINE x == Statistics!Total(Statistics!NoTime, w)
           y == Statistics!Total(Statistics!NoTime, v)
<1> HIDE DEF w, v
<1>9. /\ DOMAIN x = Timed /\ DOMAIN y = Timed
      /\ \A k \in Timed : x[k] = SumOf(w, k) /\ y[k] = SumOf(v, k)
      /\ x = [k \in DOMAIN x |-> x[k]] /\ y = [k \in DOMAIN y |-> y[k]]
  <2>1. x = [k \in DOMAIN x |-> x[k]] /\ y = [k \in DOMAIN y |-> y[k]]  BY DEF Statistics!Total
  <2> HIDE DEF x, y
  <2>2. QED  BY <2>1, TotalIs DEF x, y
<1> HIDE DEF x, y
<1>10. x = y  BY <1>8, <1>9
<1>11. QED  BY <1>10 DEF x, y, w, v

\* The minute series of all traffic, and those of the providers.
LEMMA MinutesWithin == ASSUME StatisticsInv, NEW k \in Recent(now) PROVE
    Statistics!At(stats.buckets, k, Statistics!NoTime).requests
       <= Statistics!Total(Statistics!NoTime, [p \in DOMAIN stats.byProvider |->
             Statistics!At(stats.byProvider[p].minutes, k, Statistics!NoTime)]).requests
<1> DEFINE b == stats.byProvider
           m == [p \in DOMAIN b |-> Statistics!At(b[p].minutes, k, Statistics!NoTime)]
<1>1. Requests(stats.buckets, k) <= OfAll(b, k)  BY DEF StatisticsInv, Store
<1>2. DOMAIN m = DOMAIN b /\ [i \in DOMAIN m |-> m[i]["requests"]] = [p \in DOMAIN b |-> Requests(b[p].minutes, k)]
    BY DEF Requests
<1> HIDE DEF m
<1>3. SumOf(m, "requests") = OfAll(b, k)  BY <1>2, Zenon DEF SumOf, OfAll
<1>4. Statistics!Total(Statistics!NoTime, m)["requests"] = SumOf(m, "requests")
  <2>1. "requests" \in Timed  BY DEF Timed
  <2>2. QED  BY <2>1, TotalIs
<1>5. QED  BY <1>1, <1>3, <1>4 DEF Requests, m

\* The filters of the event log split it.
LEMMA LogSplits == ASSUME Reporting, StatisticsInv, NEW p PROVE
    /\ Len(Statistics!EventLog(p, "")) = Len(Statistics!EventLog(p, "success")) + Len(Statistics!EventLog(p, "error"))
                                            + Len(Statistics!EventLog(p, "canceled"))
    /\ Statistics!EventLog(p, "") \in Seq(Rows(now))
    /\ Len(Statistics!EventLog(p, "")) \in 0 .. MaxEvents
<1> DEFINE ring == stats.ring
           R    == Statistics!Reverse(ring)
           S(x) == {ev \in Statistics!Range(ring) : Statistics!Matches(ev, p, x)}
           T    == Rows(now)
<1>1. ring \in Seq(T) /\ Len(ring) <= tally.events /\ tally.events \in 0 .. MaxEvents /\ now \in Nat
    BY DEF StatisticsInv, Store
<1>2. R \in Seq(T) /\ Len(R) = Len(ring) /\ \A i \in DOMAIN R : \E j \in DOMAIN ring : R[i] = ring[j]
  <2>1. Len(ring) \in Nat /\ DOMAIN ring = 1 .. Len(ring)  BY <1>1
  <2>2. R = [i \in 1 .. Len(ring) |-> ring[(Len(ring) - i) + 1]]  BY DEF Statistics!Reverse
  <2>3. \A i \in 1 .. Len(ring) : (Len(ring) - i) + 1 \in DOMAIN ring /\ ring[(Len(ring) - i) + 1] \in T
    <3>1. \A i \in 1 .. Len(ring) : (Len(ring) - i) + 1 \in DOMAIN ring  BY <2>1
    <3>2. \A i \in DOMAIN ring : ring[i] \in T  BY <1>1
    <3>3. QED  BY <3>1, <3>2
  <2> HIDE DEF ring, R, T
  <2>4. QED  BY <2>1, <2>2, <2>3
<1>3. \A x : Statistics!EventLog(p, x) = Kept(R, S(x))  BY SameFilter DEF Statistics!EventLog
<1> HIDE DEF R
<1>4. \A x : Kept(R, S(x)) \in Seq(T) /\ Len(Kept(R, S(x))) = Cardinality(Hits(R, S(x))) /\ Len(Kept(R, S(x))) \in 0 .. Len(R)
  <2> HIDE DEF S, T
  <2> QED  BY <1>2, KeptHolds, KeptLength
<1>5. \A x : IsFiniteSet(Hits(R, S(x))) /\ Cardinality(Hits(R, S(x))) \in Nat
  <2> HIDE DEF S, T
  <2> QED  BY <1>2, HitsBounded
<1>6. \A ev \in Statistics!Range(ring) : ev.outcome \in Outcomes
  <2>1. \A i \in DOMAIN ring : ring[i] \in Rows(now)  BY <1>1
  <2>2. \A i \in DOMAIN ring : ring[i].outcome \in Outcomes  BY <1>1, <2>1, EventFacts
  <2>3. QED  BY <2>2 DEF Statistics!Range
<1> DEFINE a == Hits(R, S("success"))
           b == Hits(R, S("error"))
           c == Hits(R, S("canceled"))
<1>7. Hits(R, S("")) = (a \cup b) \cup c /\ a \cap b = {} /\ (a \cup b) \cap c = {}
  <2>1. ASSUME NEW ev \in Statistics!Range(ring) PROVE
        /\ ev \in S("") <=> ev \in S("success") \/ ev \in S("error") \/ ev \in S("canceled")
        /\ ~(ev \in S("success") /\ ev \in S("error"))
        /\ ~((ev \in S("success") \/ ev \in S("error")) /\ ev \in S("canceled"))
      BY <1>6 DEF Statistics!Matches, Outcomes
  <2>2. \A x : S(x) \subseteq Statistics!Range(ring)  OBVIOUS
  <2> HIDE DEF S
  <2>3. QED  BY <2>1, <2>2 DEF Hits
<1> HIDE DEF S
<1>8. /\ IsFiniteSet(a) /\ IsFiniteSet(b) /\ IsFiniteSet(c)
      /\ Cardinality(a) \in Nat /\ Cardinality(b) \in Nat /\ Cardinality(c) \in Nat
    BY <1>5
<1>9. Cardinality(Hits(R, S(""))) = Cardinality(a) + Cardinality(b) + Cardinality(c)
  <2> DEFINE h == Hits(R, S(""))
  <2>0. h = (a \cup b) \cup c  BY <1>7
  <2> HIDE DEF a, b, c, h
  <2>1. Cardinality(a \cap b) = 0 /\ Cardinality((a \cup b) \cap c) = 0  BY <1>7, FS_EmptySet, Zenon
  <2>2. IsFiniteSet(a \cup b) /\ Cardinality(a \cup b) = Cardinality(a) + Cardinality(b) - Cardinality(a \cap b)
      BY <1>8, FS_Union
  <2>3. Cardinality((a \cup b) \cup c) = Cardinality(a \cup b) + Cardinality(c) - Cardinality((a \cup b) \cap c)
      BY <1>8, <2>2, FS_Union
  <2>4. Cardinality(h) = Cardinality((a \cup b) \cup c)  BY <2>0, Zenon
  <2>5. Cardinality(h) = Cardinality(a) + Cardinality(b) + Cardinality(c)  BY <1>8, <2>1, <2>2, <2>3, <2>4
  <2>6. QED  BY <2>5 DEF h
<1>10. Len(Kept(R, S(""))) \in 0 .. MaxEvents
  <2> DEFINE l == Len(Kept(R, S("")))
             m == Len(ring)
  <2>1. m \in Nat /\ Len(R) = m /\ m <= tally.events  BY <1>1, <1>2
  <2>2. l \in 0 .. Len(R)  BY <1>4
  <2>3. tally.events \in 0 .. MaxEvents /\ MaxEvents \in Nat  BY <1>1 DEF Reporting
  <2> HIDE DEF l, m
  <2>4. l \in 0 .. MaxEvents  BY <2>1, <2>2, <2>3
  <2>5. QED  BY <2>4 DEF l
<1>11. /\ Len(Kept(R, S(""))) = Cardinality(Hits(R, S(""))) /\ Len(Kept(R, S("success"))) = Cardinality(a)
       /\ Len(Kept(R, S("error"))) = Cardinality(b) /\ Len(Kept(R, S("canceled"))) = Cardinality(c)
       /\ Kept(R, S("")) \in Seq(T)
    BY <1>4
<1>12. /\ Statistics!EventLog(p, "") = Kept(R, S("")) /\ Statistics!EventLog(p, "success") = Kept(R, S("success"))
       /\ Statistics!EventLog(p, "error") = Kept(R, S("error"))
       /\ Statistics!EventLog(p, "canceled") = Kept(R, S("canceled"))
    BY <1>3
<1> HIDE DEF a, b, c
<1>13. Len(Kept(R, S(""))) = Len(Kept(R, S("success"))) + Len(Kept(R, S("error"))) + Len(Kept(R, S("canceled")))
    BY <1>8, <1>9, <1>11
<1>14. QED  BY <1>10, <1>11, <1>12, <1>13

\* Two pages that meet are the whole log.
LEMMA PagesMeet == ASSUME NEW T, NEW log \in Seq(T), NEW n \in Nat, Len(log) \in 0 .. n PROVE
    Statistics!Page(log, 0, 1) \o Statistics!Page(log, 1, n) = log
<1> DEFINE L == Len(log)
           k == IF 1 <= L THEN 1 ELSE L
<1>0. L \in Nat /\ k \in Nat /\ k <= L /\ L <= n  OBVIOUS
<1>1. /\ Statistics!Min({0, L}) = 0 /\ Statistics!Min({1, L}) = k
      /\ Statistics!Min({L, 0 + 1}) = k /\ Statistics!Min({L, k + n}) = L
  <2>1. Statistics!Min({0, L}) = 0  BY <1>0, SmallerOf
  <2>2. Statistics!Min({1, L}) = k
    <3>1. 1 \in Int /\ L \in Int  BY <1>0
    <3>2. QED  BY <3>1, SmallerOf
  <2>3. Statistics!Min({L, 0 + 1}) = k
    <3>1. 0 + 1 = 1 /\ 0 + 1 \in Int /\ L \in Int  BY <1>0
    <3>2. Statistics!Min({L, 0 + 1}) = IF L <= 0 + 1 THEN L ELSE 0 + 1  BY <3>1, SmallerOf
    <3>3. QED  BY <1>0, <3>1, <3>2
  <2>4. Statistics!Min({L, k + n}) = L
    <3>1. k + n \in Int /\ L \in Int /\ L <= k + n  BY <1>0
    <3> HIDE DEF L, k
    <3>2. QED  BY <3>1, SmallerOf
  <2>5. QED  BY <2>1, <2>2, <2>3, <2>4
<1>2. Statistics!Page(log, 0, 1) = SubSeq(log, 0 + 1, k) /\ Statistics!Page(log, 1, n) = SubSeq(log, k + 1, L)
  <2> HIDE DEF L, k
  <2>1. QED  BY <1>1 DEF Statistics!Page, L
<1>3. SubSeq(log, 0 + 1, k) \o SubSeq(log, k + 1, L) = log
  <2>1. CASE L = 0
    <3>1. k = 0  BY <2>1
    <3> HIDE DEF k
    <3>2. QED  BY <2>1, <3>1
  <2>2. CASE L # 0
    <3>1. k = 1  BY <1>0, <2>2
    <3> HIDE DEF k
    <3>2. QED  BY <1>0, <2>2, <3>1
  <2>3. QED  BY <2>1, <2>2
<1>4. QED  BY <1>2, <1>3

LEMMA ViewsHold == ASSUME Reporting, StatisticsInv PROVE Statistics!ViewsAgree
<1>1. now \in Nat /\ Books(stats.overall, stats.byProvider, now) /\ MaxEvents \in Nat
    BY DEF StatisticsInv, Store, Reporting
<1>2. ASSUME NEW p \in DOMAIN stats.byProvider, NEW hours \in 1 .. HourWindow
      PROVE  Statistics!ProviderWindow(stats.byProvider[p], hours) =
                Statistics!Total(Statistics!NoTime, IF hours * HourMinutes <= Window
                                                    THEN Statistics!MinuteHistory(stats.byProvider[p], hours * HourMinutes)
                                                    ELSE Statistics!History(stats.byProvider[p], hours))
  <2> DEFINE a == stats.byProvider[p]
  <2>1. Aggregate(a, now)  BY <1>1 DEF Books
  <2> HIDE DEF a
  <2>2. Statistics!ProviderWindow(a, hours) =
           Statistics!Total(Statistics!NoTime, IF hours * HourMinutes <= Window
                                               THEN Statistics!MinuteHistory(a, hours * HourMinutes)
                                               ELSE Statistics!History(a, hours))
      BY <1>1, <2>1, WindowIsChart
  <2>3. QED  BY <2>2 DEF a
<1>3. ASSUME NEW hours \in 1 .. HourWindow PROVE
      Statistics!Total(Statistics!NoTime, Statistics!MergedHours(hours)) =
         Statistics!Total(Statistics!NoTime, [p \in DOMAIN stats.byProvider |->
            Statistics!Total(Statistics!NoTime, Statistics!History(stats.byProvider[p], hours))])
    BY <1>1, MergedIsAll
<1>4. \A k \in now - Window + 1 .. now :
         Statistics!At(stats.buckets, k, Statistics!NoTime).requests
            <= Statistics!Total(Statistics!NoTime, [p \in DOMAIN stats.byProvider |->
                  Statistics!At(stats.byProvider[p].minutes, k, Statistics!NoTime)]).requests
    BY MinutesWithin DEF Recent
<1>5. ASSUME NEW p PROVE
      /\ Len(Statistics!EventLog(p, "")) = Len(Statistics!EventLog(p, "success")) + Len(Statistics!EventLog(p, "error"))
                                              + Len(Statistics!EventLog(p, "canceled"))
      /\ Statistics!Page(Statistics!EventLog(p, ""), 0, 1) \o Statistics!Page(Statistics!EventLog(p, ""), 1, MaxEvents)
            = Statistics!EventLog(p, "")
  <2> DEFINE log == Statistics!EventLog(p, "")
  <2>1. log \in Seq(Rows(now)) /\ Len(log) \in 0 .. MaxEvents  BY LogSplits
  <2> HIDE DEF log
  <2>2. Statistics!Page(log, 0, 1) \o Statistics!Page(log, 1, MaxEvents) = log  BY <1>1, <2>1, PagesMeet
  <2>3. QED  BY <2>2, LogSplits DEF log
<1>6. QED  BY <1>2, <1>3, <1>4, <1>5 DEF Statistics!ViewsAgree

(***************************************************************************)
(* The console runs one component at a time, so that what holds of each    *)
(* holds of the console's records.                                         *)
(***************************************************************************)
LEMMA StatisticsRun == RecordsSpec =>
    [](~On("statistics")) \/ ([]On("statistics") /\ Statistics!Init /\ [][Statistics!Next]_(Statistics!vars))
<1>1. RecordsInit /\ On("statistics") => Statistics!Init  BY DEF RecordsInit
<1>2. On("statistics") /\ [RecordsNext]_<<part, records>> => On("statistics")' /\ [Statistics!Next]_(Statistics!vars)
    BY DEF RecordsNext, records, statisticsVars, Statistics!vars, On
<1>3. ~On("statistics") /\ [RecordsNext]_<<part, records>> => ~On("statistics")'
    BY DEF RecordsNext, On
<1>4. QED  BY <1>1, <1>2, <1>3, PTL DEF RecordsSpec

LEMMA KeysRun == RecordsSpec => [](~On("keys")) \/ ([]On("keys") /\ ClientKeys!Spec)
<1>1. RecordsInit /\ On("keys") => ClientKeys!Init  BY DEF RecordsInit
<1>2. On("keys") /\ [RecordsNext]_<<part, records>> => On("keys")' /\ [ClientKeys!Next]_(ClientKeys!vars)
    BY DEF RecordsNext, records, keysVars, ClientKeys!vars, On
<1>3. ~On("keys") /\ [RecordsNext]_<<part, records>> => ~On("keys")'
    BY DEF RecordsNext, On
<1>4. QED  BY <1>1, <1>2, <1>3, PTL DEF RecordsSpec, ClientKeys!Spec

LEMMA ModelsRun == RecordsSpec => [](~On("models")) \/ ([]On("models") /\ Models!Spec)
<1>1. RecordsInit /\ On("models") => Models!Init  BY DEF RecordsInit
<1>2. On("models") /\ [RecordsNext]_<<part, records>> => On("models")' /\ [Models!Next]_(Models!vars)
    BY DEF RecordsNext, records, modelsVars, Models!vars, Models!tables, On
<1>3. ~On("models") /\ [RecordsNext]_<<part, records>> => ~On("models")'
    BY DEF RecordsNext, On
<1>4. QED  BY <1>1, <1>2, <1>3, PTL DEF RecordsSpec, Models!Spec

LEMMA StoredRuns == RecordsSpec => [](~On("stored")) \/ ([]On("stored") /\ Stored!Spec)
<1>1. RecordsInit /\ On("stored") => Stored!Init  BY DEF RecordsInit
<1>2. On("stored") /\ [RecordsNext]_<<part, records>> => On("stored")' /\ [Stored!Next]_(Stored!vars)
    BY DEF RecordsNext, records, storedVars, Stored!vars, On
<1>3. ~On("stored") /\ [RecordsNext]_<<part, records>> => ~On("stored")'
    BY DEF RecordsNext, On
<1>4. QED  BY <1>1, <1>2, <1>3, PTL DEF RecordsSpec, Stored!Spec

\* The client keys of the console: a value never belongs to two entries, whatever saves fail and
\* whenever the process stops, and no edit from an old copy takes usage back (AddApiKey,
\* UpdateApiKey, RecordApiKeyUsage, Load).
THEOREM ClientKeysAreSound == RecordsSpec => ClientKeysHold
<1>1. ~On("keys") => (On("keys") => ClientKeys!UniqueKeys)  OBVIOUS
<1>2. ClientKeys!UniqueKeys => (On("keys") => ClientKeys!UniqueKeys)  OBVIOUS
<1>3. ~On("keys") => [On("keys") => ClientKeys!UsageKept]_<<part, records>>  OBVIOUS
<1>4. [ClientKeys!UsageKept]_(ClientKeys!vars) => [On("keys") => ClientKeys!UsageKept]_<<part, records>>
    BY DEF ClientKeys!vars, ClientKeys!UsageKept
<1>5. QED  BY <1>1, <1>2, <1>3, <1>4, KeysRun, KeysAreUnique, EditsKeepTheCounters, PTL
           DEF ClientKeysHold, ClientKeys!EditKeepsUsage

\* The models a request is routed by are those offered, and those of the profile the account is
\* pinned to while no switch or publication is under way, whatever refreshes, sweeps, switches, bans
\* and deletions overlap, unless saves fail (PublishGated, SelectProfile, DropAccount, PruneStale).
THEOREM ModelsStayWithTheProfile == ASSUME Apart PROVE RecordsSpec => []ModelsFollowProfile
<1>1. ~On("models") => ModelsFollowProfile  BY DEF ModelsFollowProfile
<1>2. Models!RoutedIsAdvertised /\ ("fail" \in modelMix \/ Models!RoutedByItsProfile) => ModelsFollowProfile
    BY DEF ModelsFollowProfile, Models!ModelsFollowProfile
<1>3. QED  BY <1>1, <1>2, ModelsRun, RoutedModelsAreAdvertised, RoutedByThePinnedProfile, PTL

\* The conversations the console stores: one owner, no gap, nothing told of and lost
\* (handleOpenAIResponses, collectAncestorChain, saveResponse, purgeExpiredResponses).
THEOREM StoredConversationsHold == ASSUME Sane PROVE RecordsSpec => []ConversationsHold
<1>1. ~On("stored") => ConversationsHold  BY DEF ConversationsHold
<1>2. Stored!ConversationsHold => ConversationsHold  BY DEF ConversationsHold
<1>3. QED  BY <1>1, <1>2, StoredRuns, ConversationsAreKept, PTL

\* The statistics of the console: every request is counted once, the parts stay within the whole, and
\* two views of one range agree, whatever is recorded late, reset, saved, torn by a kill and restored
\* (Record, Reset, ResetProvider, Save, Load, ProviderStatsWindow, HistoryFor, Events).
THEOREM StatisticsAddUp == ASSUME Reporting PROVE RecordsSpec => []StatisticsAgree
<1>1. ~On("statistics") => StatisticsAgree  BY DEF StatisticsAgree
<1>2. StatisticsInv => StatisticsAgree  BY LedgerHolds, ViewsHold DEF StatisticsAgree
<1>3. Statistics!Init => StatisticsInv  BY StatisticsStart
<1>4. StatisticsInv /\ [Statistics!Next]_(Statistics!vars) => StatisticsInv'  BY StatisticsStep
<1>5. QED  BY <1>1, <1>2, <1>3, <1>4, StatisticsRun, PTL
===============================================================================
