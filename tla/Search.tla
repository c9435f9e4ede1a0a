-------------------------------- MODULE Search --------------------------------
(***************************************************************************)
(* The search core (search/): one search is looked up in the cache, then   *)
(* routed over the providers in order, past those whose circuit is open or *)
(* whose monthly budget is spent, until one gives results of some quality. *)
(* The budget of the paid provider is counted here, because the provider   *)
(* does not say what is left of it, and outlives a restart in a file.      *)
(***************************************************************************)
EXTENDS Integers, Sequences, FiniteSets

CONSTANTS
    Searchers,     \* searches in progress at once
    Keys,          \* cache keys: everything that changes a result
    Configured,    \* the primary provider, then the fallbacks
    Usable,        \* the providers that are enabled and could be built
    Paid,          \* those that cost credits
    AllowPaid,     \* routing.allowPaidUsage
    Limit,         \* monthly credits
    Cost,          \* credits of one paid search
    RetryMax,      \* retries of the paid provider
    Threshold,     \* failures in a row that open a circuit
    Cooldown,      \* time a circuit stays open
    Capacity,      \* entries of the cache
    TTL,           \* lifetime of an entry
    MinResults,    \* results a provider must give
    MaxResults,    \* bound on what it gives
    MaxMonth,      \* bound on the calendar
    MaxKills       \* bound on restarts

VARIABLES
    health,        \* per provider: failures in a row, and the age of its trip
    cache,         \* entries, most recently used first
    month,         \* the calendar
    budget,        \* what is counted, and for which month
    file, temp,    \* the budget on disk, and the file it is written to first
    bill,          \* what the provider charged, per month
    search,        \* per search: where it stands
    kills

vars == <<health, cache, month, budget, file, temp, bill, search, kills>>

None == "none"
\* NewOrchestratorFromConfig: the configured ones that are usable, each once, then whatever else is usable.
Named == SelectSeq([i \in DOMAIN Configured |-> i],
                   LAMBDA i : Configured[i] \in Usable /\ \A j \in 1 .. i - 1 : Configured[j] # Configured[i])
Unnamed == Usable \ {Configured[i] : i \in DOMAIN Configured}
Order == [k \in DOMAIN Named |-> Configured[Named[k]]]
         \o (CHOOSE f \in [1 .. Cardinality(Unnamed) -> Unnamed] : \A i, j \in DOMAIN f : i # j => f[i] # f[j])
Providers == {Order[i] : i \in DOMAIN Order}
Closed == -1
Fresh == [fails |-> 0, age |-> Closed]
Idle == [at |-> "idle", key |-> None, i |-> 0, attempt |-> 0, first |-> 0, last |-> None, credits |-> 0,
         snap |-> [month |-> 0, spent |-> 0], told |-> None]
Count(m, n) == [month |-> m, spent |-> n]

Init ==
    /\ health = [p \in Providers |-> Fresh] /\ cache = <<>> /\ month = 1
    /\ budget = Count(1, 0) /\ file = Count(0, 0) /\ temp = Count(0, 0)
    /\ bill = [m \in 1 .. MaxMonth |-> 0] /\ search = [s \in Searchers |-> Idle] /\ kills = 0

Put(s, r) == search' = [search EXCEPT ![s] = r]
Ended(told) == [Idle EXCEPT !.told = told]

----------------------------------------------------------------------------
(* search/provider_health.go                                               *)

State(p) ==
    LET h == health[p] IN
    IF h.age # Closed THEN (IF h.age >= Cooldown THEN "degraded" ELSE "unhealthy")
    ELSE IF h.fails > 0 THEN "degraded" ELSE "healthy"

ObserveSuccess(p) == health' = [health EXCEPT ![p] = Fresh]

Least(a, b) == IF a <= b THEN a ELSE b

\* The trip is dated when it was not dated yet; failures are counted to the threshold.
Failed(h) ==
    LET n == Least(h.fails + 1, Threshold)
    IN  [fails |-> n, age |-> IF n >= Threshold /\ h.age = Closed THEN 0 ELSE h.age]

ObserveFailure(p) == health' = [health EXCEPT ![p] = Failed(@)]

----------------------------------------------------------------------------
(* search/search_cache.go: least recently used first out                   *)

Without(k) == SelectSeq(cache, LAMBDA e : e.key # k)
Hit(k) == \E i \in DOMAIN cache : cache[i].key = k /\ cache[i].left > 0

Get(k) == cache' = IF Hit(k) THEN <<cache[CHOOSE i \in DOMAIN cache : cache[i].key = k]>> \o Without(k) ELSE Without(k)

Store(k) == LET c == <<[key |-> k, left |-> TTL]>> \o Without(k) IN cache' = SubSeq(c, 1, Least(Len(c), Capacity))

----------------------------------------------------------------------------
(* search/tavily_budget.go                                                 *)

Rolled == IF budget.month = month THEN budget ELSE Count(month, 0)

\* A mistake: the gate asks whether anything was spent this month beyond the limit.
AllowBeyond == Rolled.spent <= Limit

Allow == Rolled.spent < Limit

\* load: a file of another month, or none, is a fresh start.
Load == IF file.month = month THEN file ELSE Count(month, 0)

----------------------------------------------------------------------------
(* search/provider_router.go                                               *)

Skip(s) == Put(s, [search[s] EXCEPT !.i = @ + 1])

HasHealthyAfter(i) == \E j \in i + 1 .. Len(Order) : State(Order[j]) # "unhealthy"

Begin(s) ==
    /\ search[s].at = "idle"
    /\ \E k \in Keys :
          /\ Get(k)
          /\ Put(s, IF Hit(k) THEN Ended("answered") ELSE [Idle EXCEPT !.at = "route", !.key = k, !.i = 1])
    /\ UNCHANGED <<health, month, budget, file, temp, bill, kills>>

\* The gate may roll the month over; a provider behind it is passed by.
PaidGate(s) ==
    LET p == Order[search[s].i] IN
    /\ search[s].at = "route" /\ search[s].i <= Len(Order) /\ p \in Paid /\ ~AllowPaid
    /\ budget' = Rolled
    /\ IF Allow THEN Put(s, [search[s] EXCEPT !.at = "gated"]) ELSE Skip(s)
    /\ UNCHANGED <<health, cache, month, file, temp, bill, kills>>

\* An open circuit is passed by while a later provider is better off.
Choose(s) ==
    LET i == search[s].i IN
    /\ search[s].at = "gated" \/ (search[s].at = "route" /\ i <= Len(Order) /\ (Order[i] \notin Paid \/ AllowPaid))
    /\ IF State(Order[i]) = "unhealthy" /\ HasHealthyAfter(i)
       THEN Put(s, [search[s] EXCEPT !.at = "route", !.i = @ + 1])
       ELSE Put(s, [search[s] EXCEPT !.at = "call", !.attempt = 0, !.first = IF @ = 0 THEN i ELSE @])
    /\ UNCHANGED <<health, cache, month, budget, file, temp, bill, kills>>

\* heuristicQualityEvaluator.Evaluate, of n valid results with at most d on one host.
Acceptable(n, d) == n >= MinResults /\ (n >= 3 => 10 * d <= 8 * n)

Charge(p) == bill' = IF p \in Paid THEN [bill EXCEPT ![month] = @ + Cost] ELSE bill

\* The provider answers; good results end the routing, poor ones are kept in case nothing better comes.
Answers(s) ==
    LET r == search[s]  p == Order[r.i]  c == IF p \in Paid THEN Cost ELSE 0 IN
    /\ r.at = "call" /\ ObserveSuccess(p) /\ Charge(p)
    /\ \E n \in 0 .. MaxResults : \E d \in (IF n = 0 THEN {0} ELSE 1 .. n) :
          Put(s, IF Acceptable(n, d) THEN [r EXCEPT !.at = "book", !.credits = c, !.last = "good"]
                 ELSE [r EXCEPT !.at = "route", !.i = @ + 1, !.credits = c, !.last = IF n = 0 THEN "empty" ELSE "poor"])
    /\ UNCHANGED <<cache, month, budget, file, temp, kills>>

\* An error it is no use to repeat, or the last attempt: the circuit counts one failure for the search.
Fails(s) ==
    LET r == search[s]  p == Order[r.i] IN
    /\ r.at = "call" /\ ObserveFailure(p)
    /\ Put(s, [r EXCEPT !.at = "route", !.i = @ + 1, !.credits = 0, !.last = "error"])
    /\ UNCHANGED <<cache, month, budget, file, temp, bill, kills>>

\* Only the paid provider repeats a call, after a pause.
Retries(s) ==
    LET r == search[s] IN
    /\ r.at = "call" /\ Order[r.i] \in Paid /\ r.attempt < RetryMax
    /\ Put(s, [r EXCEPT !.attempt = @ + 1])
    /\ UNCHANGED <<health, cache, month, budget, file, temp, bill, kills>>

\* The deadline covers the whole routing; no circuit counts it.
Expires(s) ==
    /\ search[s].at \in {"route", "gated", "call"} /\ search[s].i <= Len(Order)
    /\ Put(s, Ended("timeout"))
    /\ UNCHANGED <<health, cache, month, budget, file, temp, bill, kills>>

\* Nothing was good enough: the last thing seen is the answer.
Exhausted(s) ==
    LET r == search[s] IN
    /\ r.at = "route" /\ r.i > Len(Order)
    /\ Put(s, IF r.first = 0 THEN Ended("unconfigured") ELSE IF r.last = "error" THEN Ended("failed")
              ELSE [r EXCEPT !.at = "book"])
    /\ UNCHANGED <<health, cache, month, budget, file, temp, bill, kills>>

----------------------------------------------------------------------------
(* search/search_orchestrator.go: booking, ordering, caching               *)

\* record: counted under the lock, written outside it.
Book(s) ==
    LET r == search[s]  b == Count(month, Rolled.spent + r.credits) IN
    /\ r.at = "book"
    /\ IF r.credits = 0
       THEN Put(s, [r EXCEPT !.at = "keep"]) /\ UNCHANGED budget
       ELSE Put(s, [r EXCEPT !.at = "write", !.snap = b]) /\ budget' = b
    /\ UNCHANGED <<health, cache, month, file, temp, bill, kills>>

WriteTemp(s) ==
    /\ search[s].at = "write" /\ temp' = search[s].snap
    /\ Put(s, [search[s] EXCEPT !.at = "rename"])
    /\ UNCHANGED <<health, cache, month, budget, file, bill, kills>>

\* Another search may have moved the file away already: the failure is logged.
Rename(s) ==
    /\ search[s].at = "rename"
    /\ IF temp.month = 0 THEN UNCHANGED <<file, temp>> ELSE file' = temp /\ temp' = Count(0, 0)
    /\ Put(s, [search[s] EXCEPT !.at = "keep"])
    /\ UNCHANGED <<health, cache, month, budget, bill, kills>>

Keep(s) ==
    /\ search[s].at = "keep" /\ Put(s, Ended("answered"))
    /\ IF search[s].last = "empty" THEN UNCHANGED cache ELSE Store(search[s].key)
    /\ UNCHANGED <<health, month, budget, file, temp, bill, kills>>

----------------------------------------------------------------------------
(* Time and restarts                                                       *)

Tick ==
    /\ health' = [p \in Providers |-> IF health[p].age \in 0 .. Cooldown - 1 THEN [health[p] EXCEPT !.age = @ + 1] ELSE health[p]]
    /\ cache' = [i \in DOMAIN cache |-> IF cache[i].left > 0 THEN [cache[i] EXCEPT !.left = @ - 1] ELSE cache[i]]
    /\ UNCHANGED <<month, budget, file, temp, bill, search, kills>>

NextMonth ==
    /\ month < MaxMonth /\ month' = month + 1
    /\ UNCHANGED <<health, cache, budget, file, temp, bill, search, kills>>

Restart ==
    /\ kills < MaxKills /\ kills' = kills + 1
    /\ search' = [s \in Searchers |-> Idle] /\ cache' = <<>> /\ health' = [p \in Providers |-> Fresh]
    /\ budget' = Load
    /\ UNCHANGED <<month, file, temp, bill>>

Next ==
    \/ \E s \in Searchers :
          \/ Begin(s) \/ PaidGate(s) \/ Choose(s) \/ Answers(s) \/ Fails(s) \/ Retries(s) \/ Expires(s)
          \/ Exhausted(s) \/ Book(s) \/ WriteTemp(s) \/ Rename(s) \/ Keep(s)
    \/ Tick \/ NextMonth \/ Restart

Spec == Init /\ [][Next]_vars

----------------------------------------------------------------------------
(* Properties                                                              *)

\* The variables keep their shape.
TypeOK ==
    /\ \A p \in Providers : health[p].fails \in 0 .. Threshold /\ health[p].age \in {Closed} \cup 0 .. Cooldown
    /\ \A i \in DOMAIN cache : cache[i].key \in Keys /\ cache[i].left \in 0 .. TTL
    /\ month \in 1 .. MaxMonth /\ budget.month \in 0 .. MaxMonth /\ file.month \in 0 .. MaxMonth
    /\ \A s \in Searchers :
          search[s].at \in {"idle", "route", "gated", "call", "book", "write", "rename", "keep"}

\* tavily_budget.go: the paid provider is left alone once the month's credits are spent.  The gate is
\* asked before a call and the credits are booked after it, by searches that run at once and across the
\* end of a month: what a month is charged stays under its limit but for the searches already past the
\* gate when it was reached.  (A restart may forget a booking that another search's older file undid.)
SpendBounded == kills = 0 => \A m \in 1 .. MaxMonth : bill[m] <= Limit - 1 + Cost * Cardinality(Searchers)

\* provider_health.go:11: an open circuit is skipped "unless it is the only option".  A search must not
\* end for want of a provider while a free one is configured.
OnlyOptionIsTried == Providers \subseteq Paid \/ \A s \in Searchers : search[s].told # "unconfigured"

\* provider_health.go:64: once the cooldown is over "a failure re-trips it".
FailureReTrips ==
    [][\A s \in Searchers :
          /\ search[s].at = "call" /\ health[Order[search[s].i]].age = Cooldown
          /\ search'[s].last = "error" /\ search'[s].i > search[s].i
          => health'[Order[search[s].i]].age < Cooldown]_vars
================================================================================
