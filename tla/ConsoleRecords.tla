---------------------------- MODULE ConsoleRecords ----------------------------
(***************************************************************************)
(* What the console shows and administers: the statistics, the client      *)
(* keys, the model lists of the accounts and the stored conversations.  Of *)
(* the configuration each has what it writes itself, so that they share no *)
(* state.                                                                  *)
(***************************************************************************)
EXTENDS Integers, OnePart

CONSTANTS
    None,      \* no key, no profile, no account, no address
    MaxKills,  \* bound: restarts
    Events, Savers, RingCapacity, Window, HourWindow, HourMinutes, StatusCodes, ErrorsKept, TrackedIPs,
    MaxEvents, MaxMinute, MaxSaves,
    Clients, Admins, KeyValues, Limits, KeyMixes, MaxIds, MaxUsed,
    Accounts, Profiles, Workers, ModelMixes,
    Askers, MaxResponses, MaxDepth, StoreMixes

VARIABLES
    now, stats, inodes, path, tmp, saver, tally,
    conf, disk, check, edit, spent, keyMix,
    saved, listed, routing, info, offered, lock, job, modelMix,
    auth, doc, ids, purging, req, promised, kills, storeMix

Statistics == INSTANCE Metrics WITH spent <- tally, NoId <- None

ClientKeys == INSTANCE ApiKeys WITH request <- check, mix <- keyMix, NoKey <- None, Mixes <- KeyMixes

Models == INSTANCE ModelCache WITH mix <- modelMix, Mixes <- ModelMixes

\* A conversation belongs to the client key it was made with.
Stored == INSTANCE ResponsesStore WITH
    told <- promised, mix <- storeMix, Requests <- Askers, Keys <- KeyValues, MaxIds <- MaxResponses, Mixes <- StoreMixes

NoStatistics == /\ now = Unused /\ stats = Unused /\ inodes = Unused /\ path = Unused /\ tmp = Unused
                /\ saver = Unused /\ tally = Unused
NoKeys   == /\ conf = Unused /\ disk = Unused /\ check = Unused /\ edit = Unused /\ spent = Unused /\ keyMix = Unused
NoModels == /\ saved = Unused /\ listed = Unused /\ routing = Unused /\ info = Unused /\ offered = Unused
            /\ lock = Unused /\ job = Unused /\ modelMix = Unused
NoStore  == /\ auth = Unused /\ doc = Unused /\ ids = Unused /\ purging = Unused /\ req = Unused
            /\ promised = Unused /\ kills = Unused /\ storeMix = Unused

statisticsVars == <<now, stats, inodes, path, tmp, saver, tally>>
keysVars   == <<conf, disk, check, edit, spent, keyMix>>
modelsVars == <<saved, listed, routing, info, offered, lock, job, modelMix>>
storedVars == <<auth, doc, ids, purging, req, promised, kills, storeMix>>
records    == <<statisticsVars, keysVars, modelsVars, storedVars>>

RecordsInit ==
    /\ IF On("statistics") THEN Statistics!Init ELSE NoStatistics
    /\ IF On("keys") THEN ClientKeys!Init ELSE NoKeys
    /\ IF On("models") THEN Models!Init ELSE NoModels
    /\ IF On("stored") THEN Stored!Init ELSE NoStore

RecordsNext ==
    /\ UNCHANGED part
    /\ IF On("statistics") THEN Statistics!Next ELSE UNCHANGED statisticsVars
    /\ IF On("keys") THEN ClientKeys!Next ELSE UNCHANGED keysVars
    /\ IF On("models") THEN Models!Next ELSE UNCHANGED modelsVars
    /\ IF On("stored") THEN Stored!Next ELSE UNCHANGED storedVars

RecordsSpec == RecordsInit /\ [][RecordsNext]_<<part, records>>

----------------------------------------------------------------------------
(* Properties                                                              *)

\* The variables of the component that is taken keep their types.
RecordsTypeOK ==
    /\ On("statistics") => Statistics!TypeOK
    /\ On("keys") => ClientKeys!TypeOK
    /\ On("models") => Models!TypeOK
    /\ On("stored") => Stored!TypeOK

\* metrics.Add, Snapshot, ResetProvider, Save and Load: across every event, reset, window, save, kill
\* and restart the counters of each view add up, and two views of one period agree.
StatisticsAgree == On("statistics") => Statistics!Ledger /\ Statistics!ViewsAgree

\* config's API keys: two entries never share a key, and an edit from an old copy takes no usage back
\* that a request booked meanwhile.
ClientKeysHold ==
    /\ [](On("keys") => ClientKeys!UniqueKeys)
    /\ [][On("keys") => ClientKeys!UsageKept]_<<part, records>>

\* ModelCache and AccountPool: the list an account is routed by is its current profile's, and no model
\* is routed that is not offered, whatever sweeps, fetches, switches and bans overlap.
ModelsFollowProfile == On("models") => Models!ModelsFollowProfile

\* profile_discovery.go: a switch persists "the new ARN + region atomically", so an account never has the
\* profile of one region and the endpoint of another.  (An edit from an old copy separates them.)
PairIsWhole == On("models") => Models!PairIsWhole

\* responses_store.go: one owner per conversation, no gap in its history, nothing told of as stored
\* and lost, across purges, restarts and changes of the key policy.
ConversationsHold == On("stored") => Stored!ConversationsHold
===============================================================================
