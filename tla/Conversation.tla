----------------------------- MODULE Conversation -----------------------------
(***************************************************************************)
(* One request served by the conversation runner                           *)
(* (proxy/kiro_conversation_runner.go): rounds with the upstream on one    *)
(* account, the web searches a round asks for run in parallel in between,  *)
(* until a round asks for none, a budget ends, a search fails or the       *)
(* client leaves.  A tool use is its identifier and its query; an answer   *)
(* is the tool use it is addressed to and the query it is about.           *)
(***************************************************************************)
EXTENDS Integers, Sequences, FiniteSets, Functions

CONSTANTS
    Queries,       \* queries the model may ask
    Empty,         \* a query the executor turns down itself: none, or too long
    MaxRounds,     \* Limits.MaxRounds
    SearchCap,     \* Limits.MaxSearchesPerRequest
    Parallel,      \* Limits.MaxConcurrentSearches
    MaxUses,       \* tool uses of one round, at most
    Providers      \* whether a search provider could be built at startup: a set of Booleans

VARIABLES
    policy,        \* the searches this request may make, and whether there is a provider
    phase,         \* where Run stands
    rounds,        \* rounds called so far
    calls,         \* agg.SearchCalls
    turns,         \* the payload: per search round, its tool uses and the answers to them
    uses,          \* tool uses of the round being served
    work,          \* the searches scheduled for it: by the tool use they are run for, where they are
    cache,         \* answers of this request, by query
    firstErr,
    gone,          \* the client has left
    paid,          \* provider calls, per query
    outcome

vars == <<policy, phase, rounds, calls, turns, uses, work, cache, firstErr, gone, paid, outcome>>

None == "none"
Budget == "budget"         \* what the notice of an exhausted budget is about
Answer(u, about) == [id |-> u.id, about |-> about]

\* extractWebSearchPolicy: the request's max_uses, when positive, lowers the configured cap.
Effective(maxUses) == IF maxUses > 0 /\ maxUses < SearchCap THEN maxUses ELSE SearchCap

Init ==
    /\ \E asked \in 0 .. SearchCap + 1, p \in Providers : policy = [searches |-> Effective(asked), provider |-> p]
    /\ phase = "call" /\ rounds = 0 /\ calls = 0 /\ turns = <<>> /\ uses = <<>> /\ work = <<>>
    /\ cache = [q \in Queries |-> None] /\ firstErr = None /\ gone = FALSE
    /\ paid = [q \in Queries |-> 0] /\ outcome = None

End(o) == phase' = "done" /\ outcome' = o

\* classifyRunError: whatever is not known to be the search's or the client's doing is the account's.
AccountFailure(o) == o \notin {None, "answered", "crash", "search", "mixed", "canceled", "context"}

----------------------------------------------------------------------------
(* Rounds                                                                  *)

\* A round is due; the finalizing one, without the tool, when the rounds or the searches are spent.
Due == phase \in {"call", "final"}

\* The context is looked at before a round; a call under a dead context fails with it.
Canceled ==
    /\ Due /\ gone
    /\ End("canceled")
    /\ UNCHANGED <<policy, rounds, calls, turns, uses, work, cache, firstErr, gone, paid>>

\* The upstream refuses or breaks the round.
RoundFails ==
    /\ Due /\ rounds' = rounds + 1
    /\ End("upstream")
    /\ UNCHANGED <<policy, calls, turns, uses, work, cache, firstErr, gone, paid>>

\* A round without a web search goes to the client as it is, client tools included.
FinalRound ==
    /\ Due /\ rounds' = rounds + 1
    /\ End("answered")
    /\ UNCHANGED <<policy, calls, turns, uses, work, cache, firstErr, gone, paid>>

\* Searches and client tools in one turn are refused.
MixedRound ==
    /\ phase = "call" /\ rounds' = rounds + 1
    /\ End("mixed")
    /\ UNCHANGED <<policy, calls, turns, uses, work, cache, firstErr, gone, paid>>

\* The searches of a round, numbered within the request.
Asked == UNION {{[i \in 1 .. n |-> [id |-> <<rounds, i>>, query |-> f[i]]] : f \in [1 .. n -> Queries \cup {Empty}]}
                : n \in 1 .. MaxUses}

\* cacheKey: a query without text has no key.
Keyed(u) == u.query # Empty

\* A mistake: duplicates within a round are each sent to the provider.
OncePerRequest(us) == {i \in DOMAIN us : Keyed(us[i]) => cache[us[i].query] = None}

\* executeAll schedules the queries that are neither cached nor already scheduled in this round.
ToRun(us) == {i \in DOMAIN us : Keyed(us[i]) => /\ cache[us[i].query] = None
                                                 /\ \A j \in 1 .. i - 1 : us[j].query # us[i].query}

\* A mistake: the budget is compared before this round's searches are added.
BudgetSpent(n) == calls >= policy.searches

OverBudget(n) == calls + n > policy.searches

\* advancePayload: the round and its answers become the end of the conversation.
Advance(us, answers) == turns' = Append(turns, [uses |-> us, answers |-> answers])

\* finalize: every use is answered with the notice, and the tool is withdrawn.
SearchRound ==
    /\ phase = "call" /\ rounds' = rounds + 1
    /\ \E us \in Asked :
          \/ /\ OverBudget(Len(us)) /\ phase' = "final"
             /\ Advance(us, [i \in DOMAIN us |-> Answer(us[i], Budget)])
             /\ UNCHANGED <<uses, work>>
          \/ /\ ~OverBudget(Len(us)) /\ phase' = "search" /\ uses' = us
             /\ work' = [i \in ToRun(us) |-> "waiting"]
             /\ UNCHANGED turns
    /\ UNCHANGED <<policy, calls, cache, firstErr, gone, paid, outcome>>

----------------------------------------------------------------------------
(* Searches: one goroutine per scheduled query                             *)

\* A mistake: a search that fails keeps its slot.
SlotsInUse == {i \in DOMAIN work : work[i] \in {"running", "sent", "failed"}}

Running == {i \in DOMAIN work : work[i] \in {"running", "sent"}}
Query(i) == uses[i].query
Least(a, b) == IF a <= b THEN a ELSE b
Limit == Least(IF Parallel <= 0 THEN 1 ELSE Parallel, Cardinality(DOMAIN work))

\* runCtx ends with the request's context or at the first error.
Stopped == gone \/ firstErr # None

Set(i, s) == work' = [work EXCEPT ![i] = s]

\* A slot of the semaphore, then one look at the context.
Start(i) ==
    /\ phase = "search" /\ work[i] = "waiting" /\ Cardinality(Running) < Limit
    /\ Set(i, IF Stopped THEN "skipped" ELSE "running")
    /\ UNCHANGED <<policy, phase, rounds, calls, turns, uses, cache, firstErr, gone, paid, outcome>>

\* Execute turns an unusable query down itself, with an answer the model can read.
Reject(i) ==
    /\ phase = "search" /\ work[i] = "running" /\ Query(i) = Empty
    /\ Set(i, "answered")
    /\ UNCHANGED <<policy, phase, rounds, calls, turns, uses, cache, firstErr, gone, paid, outcome>>

Search(i) ==
    /\ phase = "search" /\ work[i] = "running" /\ Query(i) # Empty /\ policy.provider
    /\ Set(i, "sent")
    /\ paid' = [paid EXCEPT ![Query(i)] = @ + 1]
    /\ UNCHANGED <<policy, phase, rounds, calls, turns, uses, cache, firstErr, gone, outcome>>

\* Without a provider the orchestrator is nil: calling it panics in a goroutine, and nothing recovers there.
Panic(i) ==
    /\ phase = "search" /\ work[i] = "running" /\ Query(i) # Empty /\ ~policy.provider
    /\ End("crash")
    /\ UNCHANGED <<policy, rounds, calls, turns, uses, work, cache, firstErr, gone, paid>>

Found(i) ==
    /\ phase = "search" /\ work[i] = "sent"
    /\ Set(i, "answered")
    /\ UNCHANGED <<policy, phase, rounds, calls, turns, uses, cache, firstErr, gone, paid, outcome>>

\* A mistake: whoever fails last is reported.
LastErr(e) == firstErr' = e

FirstErr(e) == firstErr' = IF firstErr = None THEN e ELSE firstErr

\* The first error stops the others, which then fail with the context.
Fails(i) ==
    /\ phase = "search" /\ work[i] = "sent"
    /\ Set(i, "failed")
    /\ FirstErr(IF Stopped THEN "context" ELSE "search")
    /\ UNCHANGED <<policy, phase, rounds, calls, turns, uses, cache, gone, paid, outcome>>

----------------------------------------------------------------------------
(* The end of a search round                                               *)

Fresh(i) == i \in DOMAIN work /\ work[i] = "answered"

\* What a goroutine left on its item: its answer, or the empty result of one that never ran.
Left(i) == IF work[i] = "answered" THEN Query(i) ELSE "nothing"

\* Folded under the query; a query without text is not kept.
Folded == [q \in Queries |-> IF \E i \in DOMAIN work : Query(i) = q
                             THEN Left(CHOOSE i \in DOMAIN work : Query(i) = q) ELSE cache[q]]

\* A mistake: a cached answer keeps the identifier of the tool use that first asked.
FirstAsker(u) == uses[CHOOSE i \in DOMAIN uses : uses[i].query = u.query]

\* A cached or shared answer is addressed to the tool use that gets it.
Addressee(u) == u

Assembled(i) == IF Fresh(i) THEN Answer(uses[i], uses[i].query) ELSE Answer(Addressee(uses[i]), Folded[uses[i].query])

\* An item without answer and without key stops the request with an internal error.
Missing == \E i \in DOMAIN uses : ~Fresh(i) /\ ~Keyed(uses[i])

Assemble ==
    /\ phase = "search" /\ \A i \in DOMAIN work : work[i] \in {"answered", "failed", "skipped"}
    /\ \/ /\ firstErr # None /\ End(firstErr)
          /\ UNCHANGED <<calls, turns, cache>>
       \/ /\ firstErr = None /\ Missing /\ End("search")
          /\ cache' = Folded
          /\ UNCHANGED <<calls, turns>>
       \/ /\ firstErr = None /\ ~Missing
          /\ cache' = Folded /\ calls' = calls + Len(uses)
          /\ Advance(uses, [i \in DOMAIN uses |-> Assembled(i)])
          /\ phase' = IF rounds < MaxRounds THEN "call" ELSE "final"
          /\ UNCHANGED outcome
    /\ uses' = <<>> /\ work' = <<>>
    /\ UNCHANGED <<policy, rounds, firstErr, gone, paid>>

ClientLeaves ==
    /\ ~gone /\ phase # "done" /\ gone' = TRUE
    /\ UNCHANGED <<policy, phase, rounds, calls, turns, uses, work, cache, firstErr, paid, outcome>>

Step ==
    \/ Canceled \/ RoundFails \/ FinalRound \/ MixedRound \/ SearchRound \/ Assemble
    \/ \E i \in DOMAIN work : Start(i) \/ Reject(i) \/ Search(i) \/ Panic(i) \/ Found(i) \/ Fails(i)

Next == Step \/ ClientLeaves

\* Every call has a deadline, and a goroutine that holds a slot gives it back.
Spec == Init /\ [][Next]_vars /\ WF_vars(Step)

----------------------------------------------------------------------------
(* Properties                                                              *)

\* The variables keep their shape.
TypeOK ==
    /\ policy.searches \in 1 .. SearchCap /\ policy.provider \in BOOLEAN
    /\ phase \in {"call", "search", "final", "done"}
    /\ \A q \in Queries : cache[q] \in {None, q, "nothing"} /\ paid[q] \in Nat
    /\ \A i \in DOMAIN work : work[i] \in {"waiting", "running", "sent", "answered", "failed", "skipped"}
    /\ firstErr \in {None, "search", "context"} /\ gone \in BOOLEAN
    /\ outcome \in {None, "canceled", "upstream", "answered", "mixed", "search", "context", "crash"}

\* In what is about to be sent to the upstream every tool use of every round has its answer, in its
\* place, under its own identifier and about its own query: the upstream refuses a conversation where
\* one is missing, and the model would take another query's results for its own.  Answers come from
\* parallel searches, from duplicates in the round and from earlier rounds; a search that never ran
\* leaves an empty one, which must not get out.
EveryUseAnswered ==
    Due /\ ~gone =>
        \A t \in DOMAIN turns :
            /\ Len(turns[t].answers) = Len(turns[t].uses)
            /\ \A i \in DOMAIN turns[t].uses :
                  turns[t].answers[i] \in {Answer(turns[t].uses[i], about) : about \in {turns[t].uses[i].query, Budget}}

\* No query is paid twice in a request, the searches stay within the budget the request was given, and
\* the rounds within the configured number and the finalizing one, whatever the order of the searches.
Total == SumFunctionOnSet(paid, Queries)

WithinBudget ==
    /\ \A q \in Queries : paid[q] <= 1
    /\ Total <= policy.searches
    /\ calls <= policy.searches
    /\ rounds <= MaxRounds + 1
    /\ Cardinality(Running) <= (IF Parallel <= 0 THEN 1 ELSE Parallel)

\* An error of a search is told as what it was: the searches a failure stops fail in their turn, with
\* the context's error, and the request must not be taken for one whose client left.  The account of
\* the request is blamed for what the upstream did and for nothing else.
CauseIsReported == (outcome = "context" => gone) /\ (AccountFailure(outcome) => outcome = "upstream")

\* kiro_conversation_runner.go:69: without a provider "the executor surfaces a config error".
MissingProviderIsTold == outcome # "crash"

\* Every request ends.
Terminates == <>(phase = "done")
================================================================================
