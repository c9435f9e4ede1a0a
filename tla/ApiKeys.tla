------------------------------- MODULE ApiKeys -------------------------------
(***************************************************************************)
(* The keys clients authenticate with: config/apikeys.go, the checks of    *)
(* proxy/auth.go and the administration of proxy/admin_apikeys.go.  A      *)
(* request is checked against several sections of the configuration and    *)
(* accounted for when it ends; administrators edit an entry from a copy    *)
(* they read before.  One unit of usage stands for tokens or credits.      *)
(***************************************************************************)
EXTENDS Integers

CONSTANTS
    Clients,      \* requests that may be in progress at once
    Admins,       \* administrators editing at once
    KeyValues,    \* the values a key may have
    NoKey,        \* an empty key
    Limits,       \* limits an administrator sets, 0 for none
    Mixes,        \* what may happen together: "fail", saves that fail; "settings", changed settings
    MaxIds, MaxUsed, MaxKills    \* bounds of the instance

VARIABLES
    conf,     \* the configuration: keys, requireApiKey, the legacy apiKey
    disk,     \* what it is on disk
    request,  \* per client: the step of authenticate it is at, its key, the entry it is served under
    edit,     \* per administrator: the entry being edited and the copy of it
    spent,    \* identifiers given out, kills
    mix       \* what this behaviour includes

vars == <<conf, disk, request, edit, spent, mix>>

NoId == 0
Entry(key, on, limit) == [key |-> key, enabled |-> on, limit |-> limit, used |-> 0]
Holds(keys, key) == \E i \in DOMAIN keys : keys[i].key = key
With(keys, id, e) == [i \in DOMAIN keys \cup {id} |-> IF i = id THEN e ELSE keys[i]]
NoEdit == [id |-> NoId, copy |-> Entry(NoKey, FALSE, 0)]
NoKeys == [i \in {} |-> Entry(NoKey, FALSE, 0)]

\* saveLocked: the file follows, or the save fails and memory is ahead of it.
Persist(c)       == conf' = c /\ disk' \in IF "fail" \in mix THEN {c, disk} ELSE {c}
\* Setters that undo their change when the save fails.
PersistOrUndo(c) == \/ conf' = c /\ disk' = c
                    \/ "fail" \in mix /\ UNCHANGED <<conf, disk>>

----------------------------------------------------------------------------
(* A request                                                               *)

ToIdle == [at |-> "idle", key |-> NoKey, id |-> NoId]

\* The master switch: when it is off nothing is checked.
CheckRequired(c) ==
    /\ request[c].at = "idle"
    /\ \E key \in KeyValues \cup {NoKey} :
          request' = [request EXCEPT ![c] =
              [at |-> IF conf.required THEN "has" ELSE "served", key |-> key, id |-> NoId]]
    /\ UNCHANGED <<conf, disk, edit, spent>>

CheckHasKeys(c) ==
    /\ request[c].at = "has"
    /\ request' = [request EXCEPT ![c] =
          IF DOMAIN conf.keys = {} THEN [@ EXCEPT !.at = "legacy"]
          ELSE IF @.key = NoKey THEN ToIdle ELSE [@ EXCEPT !.at = "find"]]
    /\ UNCHANGED <<conf, disk, edit, spent>>

ApiKeyOverLimit(e) == e.limit > 0 /\ e.used >= e.limit

\* The entry is copied under the lock: its switch and its limit are of one moment.
CheckEntry(c) ==
    /\ request[c].at = "find"
    /\ \/ \E i \in DOMAIN conf.keys :
             /\ conf.keys[i].key = request[c].key
             /\ request' = [request EXCEPT ![c] =
                   IF conf.keys[i].enabled /\ ~ApiKeyOverLimit(conf.keys[i])
                   THEN [@ EXCEPT !.at = "served", !.id = i] ELSE ToIdle]
       \/ /\ ~Holds(conf.keys, request[c].key)
          /\ request' = [request EXCEPT ![c] = ToIdle]
    /\ UNCHANGED <<conf, disk, edit, spent>>

\* Nothing configured refuses everyone.
CheckLegacy(c) ==
    /\ request[c].at = "legacy"
    /\ request' = [request EXCEPT ![c] =
          IF conf.legacy # NoKey /\ request[c].key = conf.legacy
          THEN [@ EXCEPT !.at = "served"] ELSE ToIdle]
    /\ UNCHANGED <<conf, disk, edit, spent>>

\* recordSuccessForApiKey: an entry deleted meanwhile is only logged.
RecordApiKeyUsage(c) ==
    /\ request[c].at = "served"
    /\ request' = [request EXCEPT ![c] = ToIdle]
    /\ LET id == request[c].id
       IN IF id \notin DOMAIN conf.keys THEN UNCHANGED <<conf, disk>>
          ELSE /\ conf.keys[id].used < MaxUsed
               /\ Persist([conf EXCEPT !.keys[id].used = @ + 1])
    /\ UNCHANGED <<edit, spent>>

\* A request that fails is not charged.
FailRequest(c) ==
    /\ request[c].at = "served"
    /\ request' = [request EXCEPT ![c] = ToIdle]
    /\ UNCHANGED <<conf, disk, edit, spent>>

----------------------------------------------------------------------------
(* Administration                                                          *)

\* AddApiKey refuses a value some entry has.
AddApiKey ==
    /\ spent.ids < MaxIds
    /\ \E key \in KeyValues, on \in BOOLEAN, limit \in Limits :
          /\ ~Holds(conf.keys, key)
          /\ PersistOrUndo([conf EXCEPT
                !.keys = With(@, spent.ids + 1, Entry(key, on, limit))])
    /\ spent' = [spent EXCEPT !.ids = @ + 1]
    /\ UNCHANGED <<request, edit>>

\* apiUpdateApiKey reads the entry and decodes the request, ...
BeginEdit(a) ==
    /\ edit[a].id = NoId
    /\ \E i \in DOMAIN conf.keys : edit' = [edit EXCEPT ![a] = [id |-> i, copy |-> conf.keys[i]]]
    /\ UNCHANGED <<conf, disk, request, spent>>

\* ... UpdateApiKey then writes the fields of the patch, never the counters.
\* (WholePatch and NeverCollides are mistakes.)
WholePatch(e, patch) == patch
Patched(e, patch)    == [patch EXCEPT !.used = e.used]
\* A value another entry has is refused.
NeverCollides(keys, id, key) == FALSE
Collides(keys, id, key) == \E j \in DOMAIN keys \ {id} : keys[j].key = key

UpdateApiKey(a) ==
    /\ edit[a].id # NoId
    /\ LET id == edit[a].id
       IN \E key \in KeyValues, on \in BOOLEAN, limit \in Limits :
             IF id \notin DOMAIN conf.keys \/ Collides(conf.keys, id, key)
             THEN UNCHANGED <<conf, disk>>
             ELSE Persist([conf EXCEPT !.keys[id] = Patched(@,
                    [edit[a].copy EXCEPT !.key = key, !.enabled = on, !.limit = limit])])
    /\ edit' = [edit EXCEPT ![a] = NoEdit]
    /\ UNCHANGED <<request, spent>>

DeleteApiKey ==
    /\ \E id \in DOMAIN conf.keys :
          Persist([conf EXCEPT !.keys = [i \in DOMAIN @ \ {id} |-> @[i]]])
    /\ UNCHANGED <<request, edit, spent>>

ResetApiKeyUsage ==
    /\ \E id \in DOMAIN conf.keys : Persist([conf EXCEPT !.keys[id].used = 0])
    /\ UNCHANGED <<request, edit, spent>>

\* The switch and the legacy key.
UpdateSettings ==
    /\ "settings" \in mix
    /\ \E required \in BOOLEAN, legacy \in {NoKey} \cup KeyValues :
          /\ <<required, legacy>> # <<conf.required, conf.legacy>>
          /\ Persist([conf EXCEPT !.required = required, !.legacy = legacy])
    /\ UNCHANGED <<request, edit, spent>>

\* A kill and a start.  Load turns a legacy key into an entry when there is none.
Promoted(c) ==
    IF c.legacy # NoKey /\ DOMAIN c.keys = {}
    THEN [c EXCEPT !.keys = With(@, spent.ids + 1, Entry(c.legacy, c.required, 0))] ELSE c
Restart ==
    /\ spent.kills < MaxKills
    /\ spent.ids < MaxIds
    /\ conf' = Promoted(disk) /\ disk' = conf'
    /\ request' = [c \in Clients |-> ToIdle]
    /\ edit' = [a \in Admins |-> NoEdit]
    /\ spent' = [ids |-> spent.ids + 1, kills |-> spent.kills + 1]

Init ==
    /\ conf \in [keys : {NoKeys}, required : BOOLEAN, legacy : {NoKey} \cup KeyValues]
    /\ disk = conf
    /\ request = [c \in Clients |-> ToIdle]
    /\ edit = [a \in Admins |-> NoEdit]
    /\ spent = [ids |-> 0, kills |-> 0]
    /\ mix \in Mixes

Step ==
    \/ \E c \in Clients : CheckRequired(c) \/ CheckHasKeys(c) \/ CheckEntry(c) \/ CheckLegacy(c)
                             \/ RecordApiKeyUsage(c) \/ FailRequest(c)
    \/ \E a \in Admins : BeginEdit(a) \/ UpdateApiKey(a)
    \/ AddApiKey \/ DeleteApiKey \/ ResetApiKeyUsage \/ UpdateSettings \/ Restart
Next == Step /\ UNCHANGED mix
Spec == Init /\ [][Next]_vars

----------------------------------------------------------------------------
(* Properties                                                              *)

Entries  == [key : KeyValues, enabled : BOOLEAN, limit : Limits \cup {0}, used : 0 .. MaxUsed]
Requests == [at : {"idle", "has", "find", "legacy", "served"},
             key : KeyValues \cup {NoKey}, id : 0 .. MaxIds]

TypeOK ==
    /\ spent \in [ids : 0 .. MaxIds, kills : 0 .. MaxKills] /\ mix \in Mixes
    /\ \A c \in {conf, disk} :
          /\ DOMAIN c.keys \subseteq 1 .. spent.ids
          /\ \A i \in DOMAIN c.keys : c.keys[i] \in Entries
          /\ c.required \in BOOLEAN
          /\ c.legacy \in KeyValues \cup {NoKey}
    /\ request \in [Clients -> Requests]
    /\ \A a \in Admins : edit[a] = NoEdit \/ (edit[a].id \in 1 .. MaxIds /\ edit[a].copy \in Entries)

\* A value authenticates at most one entry, so that the usage of a request goes
\* to the entry whose switch and limit admitted it: in memory and in what a
\* restart finds (AddApiKey, UpdateApiKey, the migration in Load).
UniqueKeys ==
    \A c \in {conf, disk} : \A i, j \in DOMAIN c.keys : c.keys[i].key = c.keys[j].key => i = j

UsageOf(keys) == [i \in DOMAIN keys |-> keys[i].used]

\* The end of an edit, made from a copy read before, takes back no usage recorded
\* since and undoes no reset (UpdateApiKey does not touch the counters).
UsageKept == \A a \in Admins :
    (edit[a].id # NoId /\ edit'[a] = NoEdit /\ spent' = spent) => UsageOf(conf'.keys) = UsageOf(conf.keys)
EditKeepsUsage == [][UsageKept]_vars
==============================================================================
