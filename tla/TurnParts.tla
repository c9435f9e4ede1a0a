------------------------------- MODULE TurnParts -------------------------------
(***************************************************************************)
(* What is under way in a turn of a conversation: the rounds of web        *)
(* searches, by the tool runner and by the loop, the search providers      *)
(* behind them, and the events of the Responses endpoint.  They pass each  *)
(* other values and share no state.                                        *)
(***************************************************************************)
EXTENDS Integers, Sequences, OnePart

CONSTANTS
    Queries, Empty, MaxRounds, SearchCap, Parallel, RoundUses, Availability,
    Pool, MaxTries, MaxLoop, MaxTools,
    Searchers, Keys, Configured, Engines, Paid, AllowPaid, MonthLimit, Cost, RetryMax, Threshold, Cooldown,
    Capacity, TTL, MinResults, MaxResults, MaxMonth, MaxKills,
    MaxPieces, MaxAccounts, MaxRepeats

VARIABLES
    policy, stage, rounds, calls, turns, uses, work, cache, firstErr, away, paid, outcome,
    kind, maxUses, step, round, tools, next, tried, last, searched, count, spent, billed, issued, presented, result,
    circuits, results, month, budget, file, temp, bill, search, kills,
    mode, standing, nth, retry, received, cursor, guarded, sent, counted, stored

Talk == INSTANCE Conversation WITH
    phase <- stage, gone <- away, MaxUses <- RoundUses, Providers <- Availability

Loop == INSTANCE WebSearchLoop WITH
    Accounts <- Pool, MaxAttempts <- MaxTries,
    phase <- step, uses <- tools, excluded <- tried, shown <- presented, outcome <- result

Lookup == INSTANCE Search WITH Usable <- Engines, Limit <- MonthLimit, health <- circuits, cache <- results

Responses == INSTANCE ResponsesStream WITH
    MaxAttempts <- MaxAccounts, MaxRetries <- MaxRepeats,
    phase <- standing, attempt <- nth, acc <- received, committed <- guarded

talkVars      == <<policy, stage, rounds, calls, turns, uses, work, cache, firstErr, away, paid, outcome>>
loopVars      == <<kind, maxUses, step, round, tools, next, tried, last, searched, count, spent, billed, issued,
                   presented, result>>
lookupVars    == <<circuits, results, month, budget, file, temp, bill, search, kills>>
responsesVars == <<mode, standing, nth, retry, received, cursor, guarded, sent, counted, stored>>
parts         == <<talkVars, loopVars, lookupVars, responsesVars>>

NoTalk      == /\ policy = Unused /\ stage = Unused /\ rounds = Unused /\ calls = Unused /\ turns = Unused
               /\ uses = Unused /\ work = Unused /\ cache = Unused /\ firstErr = Unused /\ away = Unused
               /\ paid = Unused /\ outcome = Unused
NoLoop      == /\ kind = Unused /\ maxUses = Unused /\ step = Unused /\ round = Unused /\ tools = Unused
               /\ next = Unused /\ tried = Unused /\ last = Unused /\ searched = Unused /\ count = Unused
               /\ spent = Unused /\ billed = Unused /\ issued = Unused /\ presented = Unused /\ result = Unused
NoLookup    == /\ circuits = Unused /\ results = Unused /\ month = Unused /\ budget = Unused /\ file = Unused
               /\ temp = Unused /\ bill = Unused /\ search = Unused /\ kills = Unused
NoResponses == /\ mode = Unused /\ standing = Unused /\ nth = Unused /\ retry = Unused /\ received = Unused
               /\ cursor = Unused /\ guarded = Unused /\ sent = Unused /\ counted = Unused /\ stored = Unused

PartsInit ==
    /\ IF On("talk") THEN Talk!Init ELSE NoTalk
    /\ IF On("loop") THEN Loop!Init ELSE NoLoop
    /\ IF On("lookup") THEN Lookup!Init ELSE NoLookup
    /\ IF On("responses") THEN Responses!Init ELSE NoResponses

PartsNext ==
    /\ UNCHANGED part
    /\ IF On("talk") THEN Talk!Next ELSE UNCHANGED talkVars
    /\ IF On("loop") THEN Loop!Next ELSE UNCHANGED loopVars
    /\ IF On("lookup") THEN Lookup!Next ELSE UNCHANGED lookupVars
    /\ IF On("responses") THEN Responses!Next ELSE UNCHANGED responsesVars

PartsSpec == PartsInit /\ [][PartsNext]_<<part, parts>>

----------------------------------------------------------------------------
(* Properties                                                              *)

\* The variables of the component that is taken keep their types.
PartsTypeOK ==
    /\ On("talk") => Talk!TypeOK
    /\ On("loop") => Loop!TypeOK
    /\ On("lookup") => Lookup!TypeOK
    /\ On("responses") => Responses!TypeOK

\* Web searches: every tool use gets its own answer or reaches the client, none is paid twice or beyond
\* the budgets of the request and of the month, and errors and credits go where they belong.
SearchesAccounted ==
    /\ On("talk") => Talk!EveryUseAnswered /\ Talk!WithinBudget /\ Talk!CauseIsReported
    /\ On("loop") => Loop!NothingSwallowed /\ Loop!UsesAreKept /\ Loop!CreditsAreBilled
    /\ On("lookup") => Lookup!SpendBounded
================================================================================
