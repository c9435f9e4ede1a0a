------------------------------- MODULE Metrics -------------------------------
(***************************************************************************)
(* The statistics of metrics/metrics.go and metrics/persist.go: totals,    *)
(* per-provider, per-route and per-address counters, the ring of recent    *)
(* events, minute and hour series, resets, and the file they are saved to. *)
(* Tokens, latencies and costs are sums that go wherever `requests' goes.  *)
(* Time is counted in minutes.  The failure streak and the live gauge are  *)
(* UpstreamForward's.                                                      *)
(***************************************************************************)
EXTENDS Integers, Sequences, FiniteSets, SequencesExt, FiniteSetsExt, Functions, Filter

CONSTANTS
    Events,          \* what a request may report: [provider, account, route, ip, status, outcome]
    Savers,          \* goroutines that save: the ticker, the shutdown, admin handlers
    RingCapacity,    \* eventRingCapacity
    Window,          \* bucketWindowMins
    HourWindow,      \* hourWindowHours
    HourMinutes,     \* minutes in an hour
    StatusCodes,     \* topStatusCodes
    ErrorsKept,      \* recentErrorsKept
    TrackedIPs,      \* maxTrackedIPs
    NoId,            \* an empty identifier
    MaxEvents, MaxMinute, MaxSaves, MaxKills    \* bounds of the instance

VARIABLES
    now,      \* the current minute
    stats,    \* the store: ring, overall, byProvider, byRoute, byIP, buckets
    inodes,   \* contents of the files written: Seq of snapshots or Torn
    path,     \* the inode forward_stats.json names, 0 when there is none
    tmp,      \* the inode forward_stats.json.tmp names, 0 when there is none
    saver,    \* per saver: the step of Save it is at, its snapshot and its inode
    spent     \* events, saves and kills so far

vars == <<now, stats, inodes, path, tmp, saver, spent>>

Torn == [torn |-> TRUE]
Zero   == [requests |-> 0, success |-> 0, failed |-> 0, canceled |-> 0]
NoTime == [requests |-> 0, success |-> 0, failed |-> 0]
Empty  == [x \in {} |-> 0]

At(f, k, default) == IF k \in DOMAIN f THEN f[k] ELSE default
Put(f, k, v)      == [x \in DOMAIN f \cup {k} |-> IF x = k THEN v ELSE f[x]]
HourOf(minute)    == minute \div HourMinutes

\* counter.add and Bucket.add: a request counts under exactly one outcome; a
\* bucket has no field for canceled ones.  (The first counts a canceled one as failed, a mistake.)
CountCanceledAsFailed(c, ev) ==
    [k \in DOMAIN c |->
        c[k] + IF k \in {"requests", ev.outcome} \/ (k = "failed" /\ ev.outcome = "canceled")
               THEN 1 ELSE 0]
Add(c, ev) ==
    [k \in DOMAIN c |-> c[k] + IF k \in {"requests", ev.outcome} THEN 1 ELSE 0]

\* counter.sub with clampNonNegative.
Sub(c, o) == [k \in DOMAIN c |-> Max({0, c[k] - o[k]})]

\* Sum of counters or buckets.
Total(zero, f) == [k \in DOMAIN zero |-> SumFunctionOnSet([i \in DOMAIN f |-> f[i][k]], DOMAIN f)]

NewProvider == [count |-> Zero, byStatus |-> Empty, byAccount |-> Empty, errs |-> <<>>,
                streak |-> 0, maxStreak |-> 0, minutes |-> Empty, hours |-> Empty]
NewStore == [ring |-> <<>>, overall |-> Zero, byProvider |-> Empty, byRoute |-> Empty,
             byIP |-> Empty, buckets |-> Empty]

----------------------------------------------------------------------------
(* Recording                                                               *)

Prune(m, cutoff) == [k \in {j \in DOMAIN m : j >= cutoff} |-> m[k]]
Bump(m, k, ev, window) == Prune(Put(m, k, Add(At(m, k, NoTime), ev)), k - window)

\* A mistake: nothing leaves the ring.
RememberAll(ring, ev) == Append(ring, ev)
\* The ring keeps the newest RingCapacity events, oldest first.
Remember(ring, ev) == LET r == Append(ring, ev)
                      IN SubSeq(r, Max({1, Len(r) - RingCapacity + 1}), Len(r))

ErrorSample(ev) == [status |-> ev.status, minute |-> ev.minute]

\* What Record does to the provider's aggregate.
RecordProvider(p, ev) ==
    [p EXCEPT
        !.count = Add(@, ev),
        !.byStatus = IF ev.status \in DOMAIN @ \/ Cardinality(DOMAIN @) < StatusCodes
                     THEN Put(@, ev.status, At(@, ev.status, 0) + 1) ELSE @,
        !.byAccount = IF ev.account = NoId THEN @
                      ELSE Put(@, ev.account, Add(At(@, ev.account, Zero), ev)),
        !.streak = CASE ev.outcome = "canceled" -> @
                     [] ev.outcome = "success" -> 0
                     [] ev.outcome = "failed" -> @ + 1,
        !.maxStreak = IF ev.outcome = "failed" THEN Max({@, p.streak + 1}) ELSE @,
        !.errs = IF ev.outcome # "failed" THEN @
                 ELSE LET e == Append(@, ErrorSample(ev))
                      IN SubSeq(e, Max({1, Len(e) - ErrorsKept + 1}), Len(e)),
        !.minutes = Bump(@, ev.minute, ev, Window),
        !.hours = Bump(@, HourOf(ev.minute), ev, HourWindow)]

RecordRoute(routes, ev) ==
    IF ev.route = NoId THEN routes
    ELSE LET r == At(routes, ev.route, [count |-> Zero, provider |-> NoId])
         IN Put(routes, ev.route, [count |-> Add(r.count, ev), provider |-> ev.provider])

\* Once the table is full only addresses already in it are counted.
RecordIP(ips, ev) ==
    IF ev.ip = NoId \/ (ev.ip \notin DOMAIN ips /\ Cardinality(DOMAIN ips) >= TrackedIPs)
    THEN ips ELSE Put(ips, ev.ip, Add(At(ips, ev.ip, Zero), ev))

Recorded(s, ev) ==
    [s EXCEPT
        !.ring = Remember(@, ev),
        !.overall = Add(@, ev),
        !.byProvider =
            Put(@, ev.provider, RecordProvider(At(@, ev.provider, NewProvider), ev)),
        !.byRoute = RecordRoute(@, ev),
        !.byIP = RecordIP(@, ev),
        !.buckets = Bump(@, ev.minute, ev, Window)]

\* The time of an event is read before the lock is taken: it may be a minute late.
Record ==
    /\ spent.events < MaxEvents
    /\ \E ev \in Events, minute \in Max({0, now - 1}) .. now :
          stats' = Recorded(stats, Put(ev, "minute", minute))
    /\ spent' = [spent EXCEPT !.events = @ + 1]
    /\ UNCHANGED <<now, inodes, path, tmp, saver>>

----------------------------------------------------------------------------
(* Resets by an administrator, who saves afterwards                        *)

\* Reset keeps an (empty) entry for every provider it knows.
ResetAll(s) ==
    [NewStore EXCEPT !.byProvider = [p \in DOMAIN s.byProvider |-> NewProvider]]

OfOthers(ring, p) == Kept(ring, {ev \in Range(ring) : ev.provider # p})

\* ResetProvider takes the provider's lifetime out of the totals and rebuilds
\* ring and minute series from the events of the others that the ring still has.
\* (The first recounts the totals from the ring, a mistake.)
TotalsFromRing(s, p) ==
    LET kept == OfOthers(s.ring, p)
    IN [s EXCEPT !.overall = FoldLeft(Add, Zero, kept),
                 !.byProvider[p] = NewProvider,
                 !.ring = kept]
ResetOne(s, p) ==
    LET kept == OfOthers(s.ring, p)
        Of(k) == {i \in DOMAIN kept : kept[i].minute = k}
    IN [s EXCEPT
          !.overall = Sub(@, s.byProvider[p].count),
          !.byProvider[p] = NewProvider,
          !.byRoute = [r \in {x \in DOMAIN @ : @[x].provider # p} |-> @[r]],
          !.ring = kept,
          !.buckets = [k \in {kept[i].minute : i \in DOMAIN kept} |->
              [f \in DOMAIN NoTime |-> Cardinality({i \in Of(k) : f \in {"requests", kept[i].outcome}})]]]

ResetBy(g, s) ==
    /\ saver[g].at = "idle"
    /\ stats' = s
    /\ saver' = [saver EXCEPT ![g].at = "reset"]
    /\ UNCHANGED <<now, inodes, path, tmp, spent>>
Reset(g)         == ResetBy(g, ResetAll(stats))
ResetProvider(g) == \E p \in DOMAIN stats.byProvider : ResetBy(g, ResetOne(stats, p))

----------------------------------------------------------------------------
(* Save and Load                                                           *)

\* What Save takes down under the lock: no ring and no minute series.
Persisted ==
    [overall |-> stats.overall, byRoute |-> stats.byRoute, byIP |-> stats.byIP,
     byProvider |-> [p \in DOMAIN stats.byProvider |->
        [stats.byProvider[p] EXCEPT !.minutes = Empty,
                                    !.hours = Prune(@, HourOf(now) - HourWindow)]]]

Snapshot(g) ==
    /\ saver[g].at = "reset" \/ saver[g].at = "idle"
    /\ spent.saves < MaxSaves
    /\ spent' = [spent EXCEPT !.saves = @ + 1]
    /\ saver' = [saver EXCEPT ![g] = [at |-> "open", data |-> Persisted, inode |-> 0]]
    /\ UNCHANGED <<now, stats, inodes, path, tmp>>

\* os.WriteFile opens with O_TRUNC: it empties the file another saver may be
\* writing, or about to rename.
OpenTemp(g) ==
    /\ saver[g].at = "open"
    /\ LET i == IF tmp = 0 THEN Len(inodes) + 1 ELSE tmp
       IN /\ inodes' = IF tmp = 0 THEN Append(inodes, Torn) ELSE [inodes EXCEPT ![i] = Torn]
          /\ tmp' = i
          /\ saver' = [saver EXCEPT ![g].at = "write", ![g].inode = i]
    /\ UNCHANGED <<now, stats, path, spent>>

WriteTemp(g) ==
    /\ saver[g].at = "write"
    /\ inodes' = [inodes EXCEPT ![saver[g].inode] = saver[g].data]
    /\ saver' = [saver EXCEPT ![g].at = "rename", ![g].data = Torn]
    /\ UNCHANGED <<now, stats, path, tmp, spent>>

\* The rename moves whatever the temporary name stands for by now; it fails
\* when another saver has moved it, which is only logged.
RenameTemp(g) ==
    /\ saver[g].at = "rename"
    /\ path' = IF tmp = 0 THEN path ELSE tmp
    /\ tmp' = 0
    /\ saver' = [saver EXCEPT ![g].at = "idle", ![g].inode = 0]
    /\ UNCHANGED <<now, stats, inodes, spent>>

\* A file that cannot be parsed is logged and leaves the store empty.
Restored(file) ==
    IF file = Torn THEN NewStore
    ELSE [NewStore EXCEPT
            !.overall = file.overall, !.byRoute = file.byRoute, !.byIP = file.byIP,
            !.byProvider = [p \in DOMAIN file.byProvider |->
                [file.byProvider[p] EXCEPT !.hours = Prune(@, HourOf(now) - HourWindow)]]]

Idle == [at |-> "idle", data |-> Torn, inode |-> 0]

\* The process is killed, at any step of a save, and starts again.
Restart ==
    /\ spent.kills < MaxKills
    /\ stats' = IF path = 0 THEN NewStore ELSE Restored(inodes[path])
    /\ saver' = [g \in Savers |-> Idle]
    /\ spent' = [spent EXCEPT !.kills = @ + 1]
    /\ UNCHANGED <<now, inodes, path, tmp>>

Tick ==
    /\ now < MaxMinute
    /\ now' = now + 1
    /\ UNCHANGED <<stats, inodes, path, tmp, saver, spent>>

Init ==
    /\ now = 0
    /\ stats = NewStore
    /\ inodes = <<>> /\ path = 0 /\ tmp = 0
    /\ saver = [g \in Savers |-> Idle]
    /\ spent = [events |-> 0, saves |-> 0, kills |-> 0]

Next ==
    \/ Record \/ Restart \/ Tick
    \/ \E g \in Savers :
          Reset(g) \/ ResetProvider(g) \/ Snapshot(g) \/ OpenTemp(g) \/ WriteTemp(g) \/ RenameTemp(g)

----------------------------------------------------------------------------
(* What the console reads                                                  *)

\* seriesLocked: the last n buckets up to `last', gaps filled.
Series(m, last, n) == [i \in 1 .. n |-> At(m, last - n + i, NoTime)]

\* The buckets ProviderStatsWindow and ProviderDetailWindow add up for `hours':
\* minutes when the range is short enough, hours otherwise.
WindowSource(p, hours) ==
    IF hours * HourMinutes <= Window THEN p.minutes ELSE p.hours
\* (The first reaches one bucket too far back, a mistake.)
OneBucketMore(hours) ==
    IF hours * HourMinutes <= Window THEN now - hours * HourMinutes
    ELSE HourOf(now) - Min({hours, HourWindow})
WindowCutoff(hours) ==
    IF hours * HourMinutes <= Window THEN now - hours * HourMinutes + 1
    ELSE HourOf(now) - Min({hours, HourWindow}) + 1
ProviderWindow(p, hours) ==
    Total(NoTime, Prune(WindowSource(p, hours), WindowCutoff(hours)))

MinuteHistory(p, minutes) == Series(p.minutes, now, minutes)
History(p, hours)         == Series(p.hours, HourOf(now), hours)

\* HistoryFor(""): the hours of all providers merged.
MergedHours(hours) ==
    LET P == DOMAIN stats.byProvider
        K == {k \in UNION {DOMAIN stats.byProvider[p].hours : p \in P} : k >= HourOf(now) - hours}
    IN Series([k \in K |-> Total(NoTime, [p \in P |-> At(stats.byProvider[p].hours, k, NoTime)])],
              HourOf(now), hours)

\* EventFilter.matches and the order and paging of Events.
Matches(ev, provider, status) ==
    /\ provider \in {NoId, ev.provider}
    /\ CASE status = "success" -> ev.outcome = "success"
         [] status = "error" -> ev.outcome \notin {"success", "canceled"}
         [] status = "canceled" -> ev.outcome = "canceled"
         [] OTHER -> TRUE
EventLog(provider, status) ==
    Kept(Reverse(stats.ring), {ev \in Range(stats.ring) : Matches(ev, provider, status)})
Page(log, offset, limit) ==
    SubSeq(log, Min({offset, Len(log)}) + 1, Min({Len(log), Min({offset, Len(log)}) + limit}))

----------------------------------------------------------------------------
(* Properties                                                              *)

\* Types, and the caps on what a flood of events may grow.
TypeOK ==
    /\ now \in 0 .. MaxMinute
    /\ \A k \in DOMAIN Zero : stats.overall[k] \in 0 .. MaxEvents
    /\ Len(stats.ring) <= RingCapacity
    /\ Cardinality(DOMAIN stats.byIP) <= TrackedIPs
    /\ \A p \in DOMAIN stats.byProvider :
          /\ Cardinality(DOMAIN stats.byProvider[p].byStatus) <= StatusCodes
          /\ Len(stats.byProvider[p].errs) <= ErrorsKept
          /\ stats.byProvider[p].streak <= stats.byProvider[p].maxStreak
    /\ path \in 0 .. Len(inodes) /\ tmp \in 0 .. Len(inodes)
    /\ \A g \in Savers : saver[g].at \in {"idle", "reset", "open", "write", "rename"}

\* Every request is counted once, under one outcome, in the total and in its
\* provider's; the parts a provider is broken down into never exceed it: whatever
\* was reset in between, and whatever a restart found (Record, ResetProvider, Load).
Ledger ==
    /\ stats.overall = Total(Zero, [p \in DOMAIN stats.byProvider |-> stats.byProvider[p].count])
    /\ \A p \in DOMAIN stats.byProvider :
          LET a == stats.byProvider[p]
          IN /\ a.count.requests = a.count.success + a.count.failed + a.count.canceled
             /\ \A k \in DOMAIN NoTime :
                   /\ Total(NoTime, a.hours)[k] <= a.count[k]
                   /\ Total(NoTime, a.minutes)[k] <= a.count[k]
             /\ \A k \in DOMAIN Zero : Total(Zero, a.byAccount)[k] <= a.count[k]

\* The views of one range agree: the comparison table (ProviderStatsWindow) and
\* the trend chart of the same provider and range, the merged chart and the
\* providers' charts, the minute series of all traffic and those of the
\* providers; and the filters of the event log split it without rest.
ViewsAgree ==
    LET P == DOMAIN stats.byProvider
    IN /\ \A p \in P, hours \in 1 .. HourWindow :
            LET a == stats.byProvider[p]
            IN ProviderWindow(a, hours) =
                  Total(NoTime, IF hours * HourMinutes <= Window
                                THEN MinuteHistory(a, hours * HourMinutes)
                                ELSE History(a, hours))
       /\ \A hours \in 1 .. HourWindow :
            Total(NoTime, MergedHours(hours)) =
               Total(NoTime, [p \in P |-> Total(NoTime, History(stats.byProvider[p], hours))])
       /\ \A k \in now - Window + 1 .. now :
            At(stats.buckets, k, NoTime).requests
               <= Total(NoTime, [p \in P |-> At(stats.byProvider[p].minutes, k, NoTime)]).requests
       /\ \A p \in P \cup {NoId} :
            /\ Len(EventLog(p, "")) = Len(EventLog(p, "success")) + Len(EventLog(p, "error"))
                                        + Len(EventLog(p, "canceled"))
            /\ Page(EventLog(p, ""), 0, 1) \o Page(EventLog(p, ""), 1, MaxEvents) = EventLog(p, "")

\* Save says it writes atomically, by a temporary file and a rename: the file a
\* restart would read is never half written.
FileIsComplete == path # 0 => inodes[path] # Torn
==============================================================================
