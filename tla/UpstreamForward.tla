---------------------------- MODULE UpstreamForward ----------------------------
(***************************************************************************)
(* Requests for a model that an operator routed to other providers:        *)
(* config.ResolveRoute orders the route's targets, applyForwardCooldown    *)
(* moves the failing ones back, and tryForwardUpstream walks them until    *)
(* one has answered, or the chain reaches the Kiro pool.  Provider health  *)
(* is what package metrics counts.                                         *)
(*                                                                         *)
(* A target is identified by its position in the chain, a response by      *)
(* its class.  Weights only say how often a target is picked first, so     *)
(* the shared counter may stand anywhere; the configuration is read once   *)
(* per request and may change between any two of them.                     *)
(***************************************************************************)
EXTENDS Naturals, Sequences, FiniteSets, Filter

CONSTANTS
  Requests,   \* client requests
  Leavers,    \* those whose client may disconnect
  Upstreams,  \* providers an operator configured
  Pool,       \* the sentinel KiroPoolID
  Routes,     \* model -> its targets, as configured: [to, priority]
  Tiers,      \* priorities are 1 .. Tiers
  Threshold,  \* forwardCooldownThreshold
  NoReply     \* no response yet

ASSUME PoolAssumption == Pool \notin Upstreams
ASSUME RoutesAssumption ==
  \A m \in DOMAIN Routes :
    Routes[m] \in Seq([to : Upstreams \cup {Pool}, priority : 1 .. Tiers])
ASSUME ThresholdAssumption == Tiers \in Nat /\ Threshold \in Nat \ {0}
ASSUME RequestsAssumption == IsFiniteSet(Requests) /\ Leavers \subseteq Requests

VARIABLES
  streak,     \* curStreak of each provider, counted up to Threshold
  cooling,    \* those at Threshold that failed within forwardCooldownWindow
  inFlight,   \* the live gauge of each provider
  pc,         \* where each request stands
  chain,      \* the resolved targets' providers
  at,         \* the target in use: i + 1
  reply,      \* what the target answered
  outcome,    \* forwardOutcome of the attempt
  shown,      \* the targets whose content the client has
  answer,     \* how the response ended, "no" before
  gone,       \* the client disconnected
  successes, failures,  \* calls of recordSuccessForApiKey, recordFailure
  owed        \* history: the upstreams ahead of the pool that were not tried

metrics == <<streak, cooling, inFlight>>
counts  == <<successes, failures>>
client  == <<shown, answer, gone>>
vars    == <<metrics, pc, chain, at, reply, outcome, client, counts, owed>>

Target(r) == chain[r][at[r]]

\* Mutant of MoreTargets: one too many.
MoreTargetsOne(r) == at[r] <= Len(chain[r])

MoreTargets(r) == at[r] < Len(chain[r])

Goto(r, step) == pc' = [pc EXCEPT ![r] = step]
\* The handler returns, and its locals are gone.
Returns(r) ==
  /\ Goto(r, "done")
  /\ chain' = [chain EXCEPT ![r] = <<>>] /\ at' = [at EXCEPT ![r] = 1]
Ends(r, how)  == answer' = [answer EXCEPT ![r] = how]

(***************************************************************************)
(* Route resolution                                                        *)
(***************************************************************************)
Targets   == Upstreams \cup {Pool}
IsPool(t) == t = Pool

\* The targets that are enabled and have an enabled provider, or are the sentinel.
Eligible(m, enabled) == Kept(Routes[m], [to : enabled, priority : 1 .. Tiers])

\* weightedOrder: the pick, the rest of the tier, the sentinel last.
WeightedOrder(tier, n) ==
  LET relayable == Kept(tier, Upstreams)
      first     == (n % Len(relayable)) + 1
      rest      == SubSeq(relayable, 1, first - 1)
                     \o SubSeq(relayable, first + 1, Len(relayable))
  IN (IF relayable = <<>> THEN <<>> ELSE <<relayable[first]>> \o rest)
       \o Kept(tier, {Pool})

\* orderTargets: tier by tier, all with the same value of the counter.
OrderTargets(ts, n) ==
  LET InTier(p) == Kept(ts, [to : Targets, priority : {p}])
      Tier(p)   == [k \in DOMAIN InTier(p) |-> InTier(p)[k].to]
  IN FlattenSeq([p \in 1 .. Tiers |-> WeightedOrder(Tier(p), n)])

\* applyForwardCooldown: tripped targets last, but nothing crosses the sentinel.
\* forwardTargetInCooldown reads the health of all targets in one step.
BeforePool(ts) ==
  IF \E k \in DOMAIN ts : IsPool(ts[k])
    THEN SubSeq(ts, 1, (CHOOSE k \in DOMAIN ts :
                          IsPool(ts[k]) /\ \A j \in 1 .. k - 1 : ~IsPool(ts[j])) - 1)
    ELSE ts

\* Mutant of ApplyForwardCooldown: the sentinel is a target like any other.
ApplyForwardCooldownToAll(ts) ==
  Kept(ts, Targets \ cooling) \o Kept(ts, cooling)

ApplyForwardCooldown(ts) ==
  LET ahead == BeforePool(ts)
  IN Kept(ahead, Upstreams \ cooling) \o Kept(ahead, cooling)
       \o SubSeq(ts, Len(ahead) + 1, Len(ts))

\* The upstreams an operator put ahead of the pool, or beside it.
AheadOfPool(m, enabled) ==
  {Routes[m][k].to : k \in
     {k \in DOMAIN Routes[m] :
        /\ Routes[m][k].to \in enabled \ {Pool}
        /\ \A j \in DOMAIN Routes[m] :
             IsPool(Routes[m][j].to) /\ Pool \in enabled
               => Routes[m][k].priority <= Routes[m][j].priority}}

(***************************************************************************)
(* Package metrics                                                         *)
(***************************************************************************)
\* Record: a canceled attempt says nothing about its provider.
Record(u, result) ==
  CASE result = "canceled" -> UNCHANGED <<streak, cooling>>
    [] result = "ok"       -> /\ streak' = [streak EXCEPT ![u] = 0]
                              /\ cooling' = cooling \ {u}
    [] result = "failed"   ->
         LET n == IF streak[u] < Threshold THEN streak[u] + 1 ELSE Threshold
         IN /\ streak' = [streak EXCEPT ![u] = n]
            /\ cooling' = cooling \cup (IF n = Threshold THEN {u} ELSE {})

\* Mutant of Clear: the gauges as well.
ClearGauges(providers) ==
  /\ streak' = [u \in Upstreams |-> IF u \in providers THEN 0 ELSE streak[u]]
  /\ cooling' = cooling \ providers
  /\ inFlight' = [u \in Upstreams |-> IF u \in providers THEN 0 ELSE inFlight[u]]

\* Reset and ResetProvider: in-flight counts are preserved.
Clear(providers) ==
  /\ streak' = [u \in Upstreams |-> IF u \in providers THEN 0 ELSE streak[u]]
  /\ cooling' = cooling \ providers
  /\ UNCHANGED inFlight

(***************************************************************************)
(* tryForwardUpstream                                                      *)
(***************************************************************************)
\* ResolveRoute reads the configuration once; without targets the request is
\* the pool's.
Resolve(r) ==
  /\ pc[r] = "arrive"
  /\ \E m \in DOMAIN Routes, enabled \in SUBSET (Upstreams \cup {Pool}),
        n \in 0 .. Cardinality(Upstreams) - 1 :
       /\ owed' = [owed EXCEPT ![r] = AheadOfPool(m, enabled)]
       /\ IF Eligible(m, enabled) = <<>>
            THEN Ends(r, "pool") /\ Returns(r)
            ELSE /\ chain' = [chain EXCEPT ![r] = OrderTargets(Eligible(m, enabled), n)]
                 /\ Goto(r, "cooldown")
                 /\ UNCHANGED <<answer, at>>
  /\ UNCHANGED <<metrics, reply, outcome, shown, gone, counts>>

Cooldown(r) ==
  /\ pc[r] = "cooldown"
  /\ chain' = [chain EXCEPT ![r] = ApplyForwardCooldown(@)]
  /\ Goto(r, "walk")
  /\ UNCHANGED <<metrics, at, reply, outcome, client, counts, owed>>

\* The sentinel: the request is the pool's, with nothing written.
FallThrough(r) ==
  /\ pc[r] = "walk" /\ Target(r) = Pool
  /\ Ends(r, "pool") /\ Returns(r)
  /\ UNCHANGED <<metrics, reply, outcome, shown, gone, counts, owed>>

\* BeginInFlight.
BeginAttempt(r) ==
  /\ pc[r] = "walk" /\ Target(r) # Pool
  /\ inFlight' = [inFlight EXCEPT ![Target(r)] = @ + 1]
  /\ owed' = [owed EXCEPT ![r] = @ \ {Target(r)}]
  /\ Goto(r, "build")
  /\ UNCHANGED <<streak, cooling, chain, at, reply, outcome, client, counts>>

\* failed: nothing was written, the caller decides.
Failed(r, result, what) ==
  /\ Record(Target(r), result)
  /\ outcome' = [outcome EXCEPT ![r] = what]
  /\ reply' = [reply EXCEPT ![r] = NoReply]
  /\ Goto(r, "release")
  /\ UNCHANGED <<inFlight, chain, at, client, counts, owed>>

\* The request cannot be built: a bad body, or a bad address.
CannotBuild(r) ==
  /\ pc[r] = "build"
  /\ \E what \in {"surface", "retry"} : Failed(r, "failed", what)

\* client.Do.
Send(r) ==
  /\ pc[r] = "build"
  /\ Goto(r, "send")
  /\ UNCHANGED <<metrics, chain, at, reply, outcome, client, counts, owed>>

\* Mutant of NoResponse: the client's context is not looked at.
NoResponseBlames(r) ==
  /\ pc[r] = "send"
  /\ Failed(r, "failed", "retry")

\* It returns an error.
NoResponse(r) ==
  /\ pc[r] = "send"
  /\ IF gone[r] THEN Failed(r, "canceled", "canceled") ELSE Failed(r, "failed", "retry")

\* It returns a response: 200, 429 or 5xx, or another status.
Replies == {"ok", "busy", "refused"}
ASSUME NoReplyAssumption == NoReply \notin Replies
Response(r) ==
  /\ pc[r] = "send"
  /\ \E a \in Replies : reply' = [reply EXCEPT ![r] = a]
  /\ Goto(r, "body")
  /\ UNCHANGED <<metrics, chain, at, outcome, client, counts, owed>>

\* 429 or 5xx with a backup left: the error is withheld.  Otherwise the attempt is
\* committed.
Withheld(r) == reply[r] = "busy" /\ MoreTargets(r)
Withhold(r) ==
  /\ pc[r] = "body" /\ Withheld(r)
  /\ Failed(r, "failed", "retry")

IsOk(r)    == reply[r] = "ok"
Content(r) == IF IsOk(r) THEN {at[r]} ELSE {}

\* The body is relayed as it arrives (streams, compressed bodies), or it is read
\* first and written at once, which skips this step.
Relay(r) ==
  /\ pc[r] = "body" /\ IsOk(r) /\ ~gone[r]
  /\ shown' = [shown EXCEPT ![r] = @ \cup Content(r)]
  /\ UNCHANGED <<metrics, pc, chain, at, reply, outcome, answer, gone, counts, owed>>

Commit(r, result, how) ==
  /\ Record(Target(r), result)
  /\ outcome' = [outcome EXCEPT ![r] = "committed"]
  /\ Ends(r, how)
  /\ reply' = [reply EXCEPT ![r] = NoReply]
  /\ Goto(r, "release")
  /\ UNCHANGED <<inFlight, chain, at, gone, owed>>

RecordSuccess(r) == successes' = [successes EXCEPT ![r] = @ + 1] /\ UNCHANGED failures
RecordFailure(r) == failures' = [failures EXCEPT ![r] = @ + 1] /\ UNCHANGED successes

\* The body was relayed to its end.
RelayWhole(r) ==
  /\ pc[r] = "body" /\ ~Withheld(r)
  /\ shown' = [shown EXCEPT ![r] = @ \cup Content(r)]
  /\ IF IsOk(r) THEN RecordSuccess(r) /\ Commit(r, "ok", "complete")
                ELSE RecordFailure(r) /\ Commit(r, "failed", "failed")

\* Mutant of Truncated: the failure is not counted.
TruncatedUncounted(r) ==
  /\ pc[r] = "body" /\ IsOk(r) /\ ~gone[r]
  /\ Commit(r, "failed", "failed")
  /\ UNCHANGED <<shown, counts>>

\* A stream ended without a terminal event: the client is sent an error event.
Truncated(r) ==
  /\ pc[r] = "body" /\ IsOk(r) /\ ~gone[r]
  /\ RecordFailure(r) /\ Commit(r, "failed", "failed")
  /\ UNCHANGED shown

\* The same, with nobody to tell: it passes for an answer.
TruncatedUnseen(r) ==
  /\ pc[r] = "body" /\ IsOk(r) /\ gone[r]
  /\ RecordSuccess(r) /\ Commit(r, "ok", "abandoned")
  /\ UNCHANGED shown

\* Mutant of RelayBreaks: another target is tried.
RelayBreaksRetries(r) ==
  /\ pc[r] = "body" /\ ~Withheld(r) /\ ~gone[r]
  /\ Failed(r, "failed", "retry")

\* A read of the body, or a write to the client, fails.
RelayBreaks(r) ==
  /\ pc[r] = "body" /\ ~Withheld(r)
  /\ IF gone[r] THEN Commit(r, "canceled", "abandoned") ELSE Commit(r, "failed", "cut")
  /\ IF IsOk(r) THEN UNCHANGED counts ELSE RecordFailure(r)
  /\ UNCHANGED shown

\* Mutant of Release: the same target again.
ReleaseSticks(r) ==
  /\ pc[r] = "release"
  /\ inFlight' = [inFlight EXCEPT ![Target(r)] = IF @ > 0 THEN @ - 1 ELSE @]
  /\ \/ /\ outcome[r] = "retry" /\ MoreTargets(r)
        /\ Goto(r, "walk")
        /\ UNCHANGED <<chain, at, answer, counts>>
     \/ /\ outcome[r] = "surface" \/ (outcome[r] = "retry" /\ ~MoreTargets(r))
        /\ RecordFailure(r) /\ Ends(r, "failed") /\ Returns(r)
     \/ /\ outcome[r] = "canceled"
        /\ Ends(r, "abandoned") /\ Returns(r)
        /\ UNCHANGED counts
     \/ /\ outcome[r] = "committed"
        /\ Returns(r)
        /\ UNCHANGED <<answer, counts>>
  /\ UNCHANGED <<streak, cooling, reply, outcome, shown, gone, owed>>

\* The attempt returns (releaseInFlight), and the walk goes on or ends.
Release(r) ==
  /\ pc[r] = "release"
  /\ inFlight' = [inFlight EXCEPT ![Target(r)] = IF @ > 0 THEN @ - 1 ELSE @]
  /\ \/ /\ outcome[r] = "retry" /\ MoreTargets(r)
        /\ at' = [at EXCEPT ![r] = @ + 1]
        /\ Goto(r, "walk")
        /\ UNCHANGED <<chain, answer, counts>>
     \/ /\ outcome[r] = "surface" \/ (outcome[r] = "retry" /\ ~MoreTargets(r))
        /\ RecordFailure(r) /\ Ends(r, "failed") /\ Returns(r)
     \/ /\ outcome[r] = "canceled"
        /\ Ends(r, "abandoned") /\ Returns(r)
        /\ UNCHANGED counts
     \/ /\ outcome[r] = "committed"
        /\ Returns(r)
        /\ UNCHANGED <<answer, counts>>
  /\ UNCHANGED <<streak, cooling, reply, outcome, shown, gone, owed>>

(***************************************************************************)
(* Around it                                                               *)
(***************************************************************************)
ClientLeaves(r) ==
  /\ r \in Leavers /\ pc[r] \notin {"arrive", "done"} /\ answer[r] = "no" /\ ~gone[r]
  /\ gone' = [gone EXCEPT ![r] = TRUE]
  /\ UNCHANGED <<metrics, pc, chain, at, reply, outcome, shown, answer, counts, owed>>

\* apiResetForwardStats and apiResetProviderStats.
ResetStats ==
  /\ \E providers \in {Upstreams} \cup {{u} : u \in Upstreams} : Clear(providers)
  /\ UNCHANGED <<pc, chain, at, reply, outcome, client, counts, owed>>

\* forwardCooldownWindow passes.
WindowPasses(u) ==
  /\ u \in cooling
  /\ cooling' = cooling \ {u}
  /\ UNCHANGED <<streak, inFlight, pc, chain, at, reply, outcome, client, counts, owed>>

\* The health of a provider is restored from disk with the other statistics.
Init ==
  /\ streak \in [Upstreams -> 0 .. Threshold]
  /\ cooling \in SUBSET {u \in Upstreams : streak[u] = Threshold}
  /\ inFlight = [u \in Upstreams |-> 0]
  /\ pc = [r \in Requests |-> "arrive"]
  /\ chain = [r \in Requests |-> <<>>]
  /\ at = [r \in Requests |-> 1]
  /\ reply = [r \in Requests |-> NoReply]
  /\ outcome = [r \in Requests |-> "none"]
  /\ shown = [r \in Requests |-> {}]
  /\ answer = [r \in Requests |-> "no"]
  /\ gone = [r \in Requests |-> FALSE]
  /\ successes = [r \in Requests |-> 0]
  /\ failures = [r \in Requests |-> 0]
  /\ owed = [r \in Requests |-> {}]

Walk(r) ==
  \/ Resolve(r)  \/ Cooldown(r) \/ FallThrough(r) \/ BeginAttempt(r)
  \/ CannotBuild(r) \/ Send(r) \/ NoResponse(r) \/ Response(r) \/ Withhold(r) \/ Release(r)
EndBody(r) ==
  RelayWhole(r) \/ Truncated(r) \/ TruncatedUnseen(r) \/ RelayBreaks(r)

Next ==
  \/ \E r \in Requests : Walk(r) \/ Relay(r) \/ EndBody(r) \/ ClientLeaves(r)
  \/ \E u \in Upstreams : WindowPasses(u)
  \/ ResetStats

Spec == Init /\ [][Next]_vars

\* A handler takes its next step: connecting and the response headers have
\* timeouts.  A body has none; it ends for sure only once the client has left,
\* which cancels the upstream call.  Nothing is asked of the other requests.
FairSpec ==
  /\ Spec
  /\ \A r \in Leavers : WF_vars(Walk(r) \/ (gone[r] /\ EndBody(r)))

(***************************************************************************)
(* Properties                                                              *)
(***************************************************************************)
\* The types of all variables.
TypeOK ==
  /\ cooling \subseteq {u \in Upstreams : streak[u] = Threshold}
  /\ streak \in [Upstreams -> 0 .. Threshold]
  /\ inFlight \in [Upstreams -> Nat]
  /\ pc \in [Requests -> {"arrive", "cooldown", "walk", "build", "send", "body", "release", "done"}]
  /\ \A r \in Requests :
       pc[r] \in {"walk", "build", "send", "body", "release"} => at[r] \in DOMAIN chain[r]
  /\ reply \in [Requests -> Replies \cup {NoReply}]
  /\ \A r \in Requests : (pc[r] = "body") = (reply[r] # NoReply)
  /\ outcome \in [Requests -> {"none", "retry", "surface", "canceled", "committed"}]
  /\ shown \in [Requests -> SUBSET Nat]
  /\ answer \in [Requests -> {"no", "complete", "failed", "cut", "abandoned", "pool"}]
  /\ gone \in [Requests -> BOOLEAN]
  /\ successes \in [Requests -> Nat] /\ failures \in [Requests -> Nat]

\* The answer a client gets is one target's and ends once, and a request that
\* falls through to the pool does so with nothing written (tryForwardUpstream:
\* "a response cannot be un-sent").
Told(r) == CASE answer[r] = "pool" -> "no"
             [] answer[r] = "cut"  -> "failed"
             [] OTHER              -> answer[r]
Client(r) == INSTANCE ClientStream WITH
  Calls <- Nat \ {0}, shown <- shown[r], ended <- Told(r)
ImplementsClientStream ==
  /\ \A r \in Requests : Client(r)!Init
  /\ [][\A r \in Requests : [Client(r)!Next]_<<shown[r], Told(r)>>]_vars

\* The pool answers, or the last failure is reported as one another provider
\* might not share, only after every enabled upstream that the operator put
\* ahead of the pool or beside it was tried: neither the weighted pick nor the
\* cooldown may drop a target or move the sentinel forward.
NoTargetSkipped ==
  \A r \in Requests :
    /\ pc[r] = "done"
    /\ \/ answer[r] = "pool"
       \/ answer[r] = "failed" /\ outcome[r] = "retry"
    => owed[r] = {}

Attempting(u) ==
  {r \in Requests : pc[r] \in {"build", "send", "body", "release"} /\ Target(r) = u}

\* The live gauge of a provider counts the attempts against it that are in
\* progress, whatever statistics are reset meanwhile (Reset: "requests still
\* running do not underflow the gauge").
GaugeCountsAttempts == \A u \in Upstreams : inFlight[u] = Cardinality(Attempting(u))

\* A client that leaves cools nothing down: an attempt that was sent, and was
\* not answered with an error, counts against no provider once its client has
\* left (ProviderFailureState: "a user who habitually aborts long answers cannot
\* cool down a perfectly healthy provider").
LeavingBlamesNobody ==
  [][\A r \in Requests, u \in Upstreams :
       /\ gone[r] /\ pc'[r] # pc[r]
       /\ pc[r] = "send" \/ (pc[r] = "body" /\ IsOk(r))
       => streak'[u] <= streak[u] /\ (u \in cooling' => u \in cooling)]_vars

\* The global statistics agree with what the client got: an answer is counted
\* as one success, a reported error as one failure, and nothing twice.
CountsMatchAnswers ==
  \A r \in Requests :
    /\ successes[r] + failures[r] <= 1
    /\ pc[r] = "done" /\ answer[r] = "complete" => successes[r] = 1
    /\ pc[r] = "done" /\ answer[r] = "failed" => failures[r] = 1

\* A client that left holds on to no upstream: its request ends, although a
\* forwarded body has no timeout.
LeaversAreReleased == \A r \in Leavers : gone[r] ~> pc[r] = "done"
==============================================================================
