----------------------------- MODULE WebSearchLoop -----------------------------
(***************************************************************************)
(* A request with the native web_search tool (proxy/websearch_loop.go,     *)
(* proxy/websearch.go): alone, it is one search; among other tools, rounds *)
(* with the upstream and searches at its MCP endpoint in between, each on  *)
(* whatever account of the pool answers, until a round asks for something  *)
(* else than searches or the uses of the request are spent.                *)
(***************************************************************************)
EXTENDS Integers, Sequences, FiniteSets, Functions

CONSTANTS
    Accounts,
    MaxAttempts,   \* maxAccountRetryAttempts
    MaxLoop,       \* maxWebSearchRounds
    MaxTools       \* tool uses of one round, at most

VARIABLES
    kind,          \* "pure" or "mixed"
    maxUses,       \* resolveWebSearchMaxUses
    phase,         \* "call", "search", "flush" or "done"
    round,         \* roundIdx
    uses,          \* tool uses of the round: "web" or "client"
    next,          \* the tool use to search for
    excluded,      \* accounts this call has tried
    last,          \* lastAccountID
    searched,      \* the tool uses of the round a search was made for
    count,         \* searchCount
    spent,         \* credits, per account
    billed,        \* credits added to the statistics, per account, and to the API key
    issued, shown, \* the tool uses the upstream issued, and those the client is shown, by round and place
    outcome

vars == <<kind, maxUses, phase, round, uses, next, excluded, last, searched, count, spent, billed, issued, shown, outcome>>

None == "none"
Key == "key"

\* A request's max_uses counts when it is positive and within the bound of the loop.
MaxUses(asked) == IF asked <= 0 \/ asked > MaxLoop THEN MaxLoop ELSE asked

Init ==
    /\ \E asked \in 0 .. MaxLoop : maxUses = MaxUses(asked)
    /\ \/ kind = "pure" /\ phase = "flush" /\ uses = <<"web">>
       \/ kind = "mixed" /\ phase = "call" /\ uses = <<>>
    /\ round = 0 /\ next = 1 /\ excluded = {} /\ last = None /\ searched = {} /\ count = 0
    /\ spent = [a \in Accounts |-> 0] /\ billed = [x \in Accounts \cup {Key} |-> 0]
    /\ issued = <<>> /\ shown = <<>> /\ outcome = None

End(o) == phase' = "done" /\ outcome' = o
Place(us, S) == [i \in 1 .. Cardinality(S) |-> <<round, CHOOSE k \in S : Cardinality({j \in S : j <= k}) = i>>]
Webs(us) == {i \in DOMAIN us : us[i] = "web"}

----------------------------------------------------------------------------
(* Calls: whoever of the pool answers                                      *)

\* A call is due: a round, or a search, in the last round within the uses that are left.
Wanted ==
    \/ phase = "call"
    \/ /\ phase \in {"search", "flush"} /\ next <= Len(uses) /\ uses[next] = "web"
       /\ phase = "flush" => count < maxUses
CanTry == excluded # Accounts /\ Cardinality(excluded) < MaxAttempts

\* An account that fails is left out of the rest of this call.
LeaveOut ==
    /\ \E a \in Accounts \ excluded : excluded' = excluded \cup {a}
    /\ UNCHANGED <<kind, maxUses, phase, round, uses, next, last, searched, count, spent, billed, issued, shown, outcome>>

\* Its token cannot be refreshed, or the upstream refuses the round.
UpstreamFails == phase = "call" /\ CanTry /\ LeaveOut

\* callMcpAPI: no connection, another status than 200, an error in the answer, or results
\* that cannot be read: none of these is an empty search.
McpFails == phase # "call" /\ Wanted /\ CanTry /\ LeaveOut

\* No account is left: the client is told, and nothing is billed.
GivesUp ==
    /\ Wanted /\ ~CanTry
    /\ End("failed")
    /\ UNCHANGED <<kind, maxUses, round, uses, next, excluded, last, searched, count, spent, billed, issued, shown>>

\* The context is looked at between rounds only.
ClientLeaves ==
    /\ phase = "call" /\ End("gone")
    /\ UNCHANGED <<kind, maxUses, round, uses, next, excluded, last, searched, count, spent, billed, issued, shown>>

----------------------------------------------------------------------------
(* Rounds                                                                  *)

ShouldSearchRound(us) == us # <<>> /\ round < maxUses /\ \A i \in DOMAIN us : us[i] = "web"

\* A mistake: only the rounds are counted, not the searches of each.
AnyNumber(us) == TRUE

FitsBudget(us) == count + Cardinality(Webs(us)) <= maxUses

RoundAnswers ==
    /\ phase = "call" /\ CanTry
    /\ \E a \in Accounts \ excluded : last' = a /\ spent' = [spent EXCEPT ![a] = @ + 1]
    /\ \E n \in 0 .. MaxTools : \E us \in [1 .. n -> {"web", "client"}] :
          /\ uses' = us /\ issued' = issued \o Place(us, DOMAIN us)
          /\ phase' = IF ShouldSearchRound(us) /\ FitsBudget(us) THEN "search" ELSE "flush"
    /\ next' = 1 /\ excluded' = {} /\ searched' = {}
    /\ UNCHANGED <<kind, maxUses, round, count, billed, shown, outcome>>

\* One search: its account is another than the round's.  It answers, or the request fails.
Search ==
    /\ phase # "call" /\ Wanted /\ CanTry
    /\ searched' = searched \cup {next} /\ next' = next + 1 /\ excluded' = {}
    /\ count' = count + 1
    /\ UNCHANGED <<kind, maxUses, phase, round, uses, last, spent, billed, issued, shown, outcome>>

\* appendSearchRound: the results go to the upstream and to the presentation.  Behind the last round
\* the loop is left without an answer: "web_search loop exited unexpectedly".
SearchRoundEnds ==
    /\ phase = "search" /\ next > Len(uses)
    /\ shown' = shown \o Place(uses, DOMAIN uses)
    /\ round' = round + 1 /\ excluded' = {}
    /\ IF round < maxUses THEN phase' = "call" /\ UNCHANGED outcome ELSE End("fellThrough")
    /\ UNCHANGED <<kind, maxUses, uses, next, last, searched, count, spent, billed, issued>>

----------------------------------------------------------------------------
(* The last round                                                          *)

\* A client's tool is passed by.
PassesBy ==
    /\ phase = "flush" /\ next <= Len(uses) /\ uses[next] = "client" /\ next' = next + 1
    /\ UNCHANGED <<kind, maxUses, phase, round, uses, excluded, last, searched, count, spent, billed, issued, shown, outcome>>

\* The uses are spent: the searches that are left stay without results.
Stops ==
    /\ phase = "flush" /\ next <= Len(uses) /\ uses[next] = "web" /\ count >= maxUses
    /\ next' = Len(uses) + 1
    /\ UNCHANGED <<kind, maxUses, phase, round, uses, excluded, last, searched, count, spent, billed, issued, shown, outcome>>

\* A mistake: a search that was not made is not shown.
OnlySearched(us) == {i \in DOMAIN us : us[i] = "client" \/ i \in searched}

\* buildFlushContent: every tool use has its block.
Flushed(us) == DOMAIN us

\* A mistake: the credits of the last round alone are billed.
LastRound == IF last = None THEN 0 ELSE 1

TotalCredits == SumFunctionOnSet(spent, Accounts)

\* The whole request is billed to the account of its last round, and to the API key.
Flush ==
    /\ phase = "flush" /\ next > Len(uses)
    /\ shown' = shown \o Place(uses, Flushed(uses))
    /\ billed' = [x \in Accounts \cup {Key} |-> billed[x] + IF x \in {last, Key} THEN TotalCredits ELSE 0]
    /\ End("answered")
    /\ UNCHANGED <<kind, maxUses, round, uses, next, excluded, last, searched, count, spent, issued>>

Next ==
    \/ UpstreamFails \/ McpFails \/ GivesUp \/ ClientLeaves \/ RoundAnswers \/ Search \/ SearchRoundEnds
    \/ PassesBy \/ Stops \/ Flush

Spec == Init /\ [][Next]_vars

----------------------------------------------------------------------------
(* Properties                                                              *)

\* The variables keep their shape.
TypeOK ==
    /\ maxUses \in 1 .. MaxLoop /\ phase \in {"call", "search", "flush", "done"} /\ round \in 0 .. MaxLoop + 1
    /\ excluded \subseteq Accounts /\ searched \subseteq DOMAIN uses /\ count \in Nat
    /\ outcome \in {None, "failed", "gone", "fellThrough", "answered"}

\* websearch_loop.go:7: client tool uses are "never swallowed", and searches are all presented: what the
\* upstream issued over the rounds is what the client is shown, once each and in order, those included
\* that the budget left without results.
NothingSwallowed == outcome = "answered" /\ kind = "mixed" => shown = issued

\* No request searches more often than its uses allow, however its rounds split them, and the loop ends
\* with an answer, never behind its last round.
UsesAreKept == count <= maxUses /\ round <= maxUses /\ outcome # "fellThrough"

\* What a request cost is what its API key and the accounts are charged, over all its rounds.
CreditsAreBilled ==
    outcome = "answered" => /\ billed[Key] = SumFunctionOnSet(spent, Accounts)
                            /\ last # None => SumFunctionOnSet(billed, Accounts) = SumFunctionOnSet(spent, Accounts)
================================================================================
