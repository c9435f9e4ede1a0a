---------------------------- MODULE UpstreamProofs ----------------------------
(***************************************************************************)
(* What goes upstream.                                                     *)
(*                                                                         *)
(* UpstreamForward, for any requests, providers, routes and thresholds:    *)
(* the live gauge of a provider is exact, a client that leaves cools       *)
(* nothing down, each request gets its answer from one target and is       *)
(* counted once, no target is skipped, and every variable keeps its type.  *)
(*                                                                         *)
(* HistoryRepair, for any request and any rounds of searches: the payload  *)
(* is repaired to a conversation the upstream accepts, without loss.       *)
(***************************************************************************)
EXTENDS UpstreamForward, HistoryRepair, FilterProofs, FiniteSetTheorems, TLAPS

Busy == {"build", "send", "body", "release"}

\* What every step needs to know about the functions it updates.
Typed ==
  /\ pc \in [Requests -> {"arrive", "cooldown", "walk"} \cup Busy \cup {"done"}]
  /\ at \in [Requests -> Nat \ {0}]
  /\ DOMAIN chain = Requests /\ DOMAIN reply = Requests /\ DOMAIN outcome = Requests
  /\ DOMAIN shown = Requests /\ DOMAIN answer = Requests
  /\ inFlight \in [Upstreams -> Nat]
  /\ streak \in [Upstreams -> 0 .. Threshold]

LEMMA TypedInit == Init => Typed
BY DEF Init, Typed, Busy

LEMMA RecordTyped ==
  ASSUME streak \in [Upstreams -> 0 .. Threshold], NEW u,
         NEW result \in {"ok", "failed", "canceled"}, Record(u, result)
  PROVE  streak' \in [Upstreams -> 0 .. Threshold]
<1> USE ThresholdAssumption
<1>1. CASE result = "ok"
  BY <1>1 DEF Record
<1>2. CASE result = "canceled"
  BY <1>2 DEF Record
<1>3. CASE result = "failed"
  BY <1>3 DEF Record
<1>4. QED
  BY <1>1, <1>2, <1>3

LEMMA GaugeDown ==
  ASSUME NEW S, NEW f \in [S -> Nat], NEW x
  PROVE  [f EXCEPT ![x] = IF @ > 0 THEN @ - 1 ELSE @] \in [S -> Nat]
<1>1. ASSUME NEW n \in Nat PROVE (IF n > 0 THEN n - 1 ELSE n) \in Nat
  OBVIOUS
<1>2. CASE x \in S
  BY <1>1, <1>2
<1>3. CASE x \notin S
  BY <1>3
<1>4. QED
  BY <1>2, <1>3

LEMMA TypedNext == Typed /\ [Next]_vars => Typed'
<1> SUFFICES ASSUME Typed, [Next]_vars PROVE Typed'
  OBVIOUS
<1> USE DEF Typed, Busy, Goto, Ends, Returns, metrics, client, counts
<1>1. ASSUME NEW r \in Requests, Resolve(r) \/ Cooldown(r) \/ FallThrough(r) PROVE Typed'
  <2>1. CASE Resolve(r)
    <3>1. UNCHANGED <<reply, outcome, shown, inFlight, streak>>
      BY <2>1 DEF Resolve
    <3>2. \/ Ends(r, "pool") /\ Returns(r)
          \/ /\ \E ts : chain' = [chain EXCEPT ![r] = ts]
             /\ Goto(r, "cooldown")
             /\ UNCHANGED <<answer, at>>
      BY <2>1 DEF Resolve
    <3>3. CASE Ends(r, "pool") /\ Returns(r)
      BY <3>1, <3>3
    <3>4. ASSUME NEW ts, chain' = [chain EXCEPT ![r] = ts], Goto(r, "cooldown"),
                 UNCHANGED <<answer, at>>
          PROVE  Typed'
      BY <3>1, <3>4
    <3>5. QED
      BY <3>2, <3>3, <3>4
  <2>2. CASE Cooldown(r)
    <3> DEFINE ts == ApplyForwardCooldown(chain[r])
    <3> HIDE DEF ts
    <3>1. chain' = [chain EXCEPT ![r] = ts]
      BY <2>2 DEF Cooldown, ts
    <3>2. pc' = [pc EXCEPT ![r] = "walk"]
             /\ UNCHANGED <<reply, outcome, shown, inFlight, streak, answer, at>>
      BY <2>2 DEF Cooldown
    <3>3. QED
      BY <3>1, <3>2
  <2>3. CASE FallThrough(r)
    BY <2>3 DEF FallThrough
  <2>4. QED
    BY <1>1, <2>1, <2>2, <2>3
<1>2. ASSUME NEW r \in Requests, BeginAttempt(r) \/ Send(r) \/ Response(r) PROVE Typed'
  BY <1>2 DEF BeginAttempt, Send, Response
<1>3. ASSUME NEW r \in Requests, CannotBuild(r) \/ NoResponse(r) \/ Withhold(r)
      PROVE  Typed'
  <2>1. PICK result, what : result \in {"failed", "canceled"} /\ Failed(r, result, what)
    BY <1>3 DEF CannotBuild, NoResponse, Withhold
  <2>2. streak' \in [Upstreams -> 0 .. Threshold]
    BY <2>1, RecordTyped DEF Failed
  <2>3. QED
    BY <2>1, <2>2 DEF Failed
<1>4. ASSUME NEW r \in Requests, Release(r) PROVE Typed'
  <2>1. inFlight' \in [Upstreams -> Nat]
    BY <1>4, GaugeDown DEF Release
  <2>2. CASE at' = [at EXCEPT ![r] = @ + 1] /\ Goto(r, "walk") /\ UNCHANGED <<chain, answer>>
    BY <1>4, <2>1, <2>2 DEF Release
  <2>3. CASE Returns(r) /\ (UNCHANGED answer \/ \E how : Ends(r, how))
    BY <1>4, <2>1, <2>3 DEF Release
  <2>4. QED
    BY <1>4, <2>2, <2>3 DEF Release
<1>5. ASSUME NEW r \in Requests, Relay(r) PROVE Typed'
  BY <1>5 DEF Relay
<1>6. ASSUME NEW r \in Requests, EndBody(r) PROVE Typed'
  BY <1>6, RecordTyped DEF EndBody, RelayWhole, Truncated, TruncatedUnseen, RelayBreaks,
                           Commit
<1>7. ASSUME NEW r \in Requests, ClientLeaves(r) PROVE Typed'
  BY <1>7 DEF ClientLeaves
<1>8. ASSUME NEW u \in Upstreams, WindowPasses(u) PROVE Typed'
  BY <1>8 DEF WindowPasses
<1>9. CASE ResetStats
  BY <1>9, ThresholdAssumption DEF ResetStats, Clear
<1>10. CASE UNCHANGED vars
  BY <1>10 DEF vars
<1>11. QED
  BY <1>1, <1>2, <1>3, <1>4, <1>5, <1>6, <1>7, <1>8, <1>9, <1>10 DEF Next, Walk

LEMMA TypedHolds == Spec => []Typed
BY TypedInit, TypedNext, PTL DEF Spec

(***************************************************************************)
(* The live gauge                                                          *)
(***************************************************************************)
LEMMA AttemptingFinite == \A u : IsFiniteSet(Attempting(u))
BY RequestsAssumption, FS_Subset DEF Attempting

\* A step that neither begins nor ends an attempt moves no request in or out.
Steady ==
  /\ UNCHANGED inFlight
  /\ \A q \in Requests :
       /\ pc'[q] \in Busy <=> pc[q] \in Busy
       /\ pc[q] \in Busy => chain'[q] = chain[q] /\ at'[q] = at[q]

LEMMA SteadyKeeps ==
  ASSUME Steady, GaugeCountsAttempts
  PROVE  GaugeCountsAttempts'
<1>1. \A u : Attempting(u)' = Attempting(u)
  BY DEF Steady, Attempting, Target, Busy
<1>2. QED
  BY <1>1 DEF Steady, GaugeCountsAttempts

LEMMA StepIsSteady ==
  ASSUME Typed, [Next]_vars,
         \A r \in Requests : ~BeginAttempt(r) /\ ~Release(r)
  PROVE  Steady
<1> USE DEF Typed, Busy, Steady, Goto, Returns, metrics
<1>1. ASSUME NEW r \in Requests, Resolve(r) \/ Cooldown(r) \/ FallThrough(r) PROVE Steady
  BY <1>1 DEF Resolve, Cooldown, FallThrough
<1>2. ASSUME NEW r \in Requests, Send(r) \/ Response(r) PROVE Steady
  BY <1>2 DEF Send, Response
<1>3. ASSUME NEW r \in Requests, CannotBuild(r) \/ NoResponse(r) \/ Withhold(r)
      PROVE  Steady
  BY <1>3 DEF CannotBuild, NoResponse, Withhold, Failed
<1>4. ASSUME NEW r \in Requests, EndBody(r) PROVE Steady
  BY <1>4 DEF EndBody, RelayWhole, Truncated, TruncatedUnseen, RelayBreaks, Commit
<1>5. ASSUME NEW r \in Requests, Relay(r) \/ ClientLeaves(r) PROVE Steady
  BY <1>5 DEF Relay, ClientLeaves
<1>6. CASE ResetStats \/ \E u \in Upstreams : WindowPasses(u)
  BY <1>6 DEF ResetStats, Clear, WindowPasses
<1>7. CASE UNCHANGED vars
  BY <1>7 DEF vars
<1>8. QED
  BY <1>1, <1>2, <1>3, <1>4, <1>5, <1>6, <1>7 DEF Next, Walk

LEMMA BeginCounts ==
  ASSUME Typed, GaugeCountsAttempts, NEW r \in Requests, BeginAttempt(r)
  PROVE  GaugeCountsAttempts'
<1> SUFFICES ASSUME NEW u \in Upstreams
             PROVE  inFlight'[u] = Cardinality(Attempting(u)')
  BY DEF GaugeCountsAttempts
<1> USE DEF BeginAttempt, Goto, Typed, Busy
<1>1. \A q \in Requests : q # r => pc'[q] = pc[q]
  OBVIOUS
<1>2. pc'[r] = "build" /\ pc[r] = "walk" /\ UNCHANGED <<chain, at>>
  OBVIOUS
<1>3. CASE u = Target(r)
  <2>1. Attempting(u)' = Attempting(u) \cup {r} /\ r \notin Attempting(u)
    BY <1>1, <1>2, <1>3 DEF Attempting, Target
  <2>2. Cardinality(Attempting(u) \cup {r}) = Cardinality(Attempting(u)) + 1
    BY <2>1, AttemptingFinite, FS_AddElement
  <2>3. inFlight'[u] = inFlight[u] + 1
    BY <1>3
  <2>4. QED
    BY <2>1, <2>2, <2>3 DEF GaugeCountsAttempts
<1>4. CASE u # Target(r)
  <2>1. Attempting(u)' = Attempting(u)
    BY <1>1, <1>2, <1>4 DEF Attempting, Target
  <2>2. inFlight'[u] = inFlight[u]
    BY <1>4
  <2>3. QED
    BY <2>1, <2>2 DEF GaugeCountsAttempts
<1>5. QED
  BY <1>3, <1>4

LEMMA ReleaseCounts ==
  ASSUME Typed, GaugeCountsAttempts, NEW r \in Requests, Release(r)
  PROVE  GaugeCountsAttempts'
<1> SUFFICES ASSUME NEW u \in Upstreams
             PROVE  inFlight'[u] = Cardinality(Attempting(u)')
  BY DEF GaugeCountsAttempts
<1>1. \A q \in Requests : q # r =>
        pc'[q] = pc[q] /\ chain'[q] = chain[q] /\ at'[q] = at[q]
  BY DEF Release, Returns, Goto, Typed
<1>2. pc[r] = "release" /\ pc'[r] \in {"walk", "done"}
  BY DEF Release, Returns, Goto, Typed
<1>3. Attempting(u)' = Attempting(u) \ {r}
  BY <1>1, <1>2 DEF Attempting, Target
<1>4. inFlight' = [inFlight EXCEPT ![Target(r)] = IF @ > 0 THEN @ - 1 ELSE @]
  BY DEF Release
<1>5. CASE u = Target(r)
  <2>1. r \in Attempting(u)
    BY <1>2, <1>5 DEF Attempting
  <2>2. Cardinality(Attempting(u) \ {r}) = Cardinality(Attempting(u)) - 1
    BY <2>1, AttemptingFinite, FS_RemoveElement
  <2>3. Cardinality(Attempting(u)) > 0
    BY <2>1, AttemptingFinite, FS_EmptySet, FS_CardinalityType
  <2>4. inFlight'[u] = inFlight[u] - 1
    BY <1>4, <1>5, <2>3 DEF GaugeCountsAttempts, Typed
  <2>5. QED
    BY <1>3, <2>2, <2>4 DEF GaugeCountsAttempts
<1>6. CASE u # Target(r)
  <2>1. Attempting(u)' = Attempting(u)
    BY <1>3, <1>6 DEF Attempting
  <2>2. inFlight'[u] = inFlight[u]
    BY <1>4, <1>6 DEF Typed
  <2>3. QED
    BY <2>1, <2>2 DEF GaugeCountsAttempts
<1>7. QED
  BY <1>5, <1>6

\* The gauge of every provider counts the attempts against it, for any number of
\* requests and whatever statistics are reset while they run (BeginInFlight,
\* Reset, ResetProvider).
THEOREM GaugeIsExact == Spec => []GaugeCountsAttempts
<1>1. Init => GaugeCountsAttempts
  <2> SUFFICES ASSUME Init, NEW u \in Upstreams PROVE inFlight[u] = Cardinality(Attempting(u))
    BY DEF GaugeCountsAttempts
  <2>1. Attempting(u) = {}
    BY DEF Init, Attempting
  <2>2. QED
    BY <2>1, FS_EmptySet DEF Init
<1>2. Typed /\ GaugeCountsAttempts /\ [Next]_vars => GaugeCountsAttempts'
  BY BeginCounts, ReleaseCounts, StepIsSteady, SteadyKeeps
<1>3. QED
  BY <1>1, <1>2, TypedHolds, PTL DEF Spec

(***************************************************************************)
(* A client that leaves                                                    *)
(***************************************************************************)
\* Cancellations move neither the streak nor the window of a provider (Record),
\* and every attempt cut short by its client is recorded as one.
THEOREM CancellationsBlameNobody == Spec => LeavingBlamesNobody
<1>1. ASSUME Typed, [Next]_vars, NEW r \in Requests, NEW u \in Upstreams,
             gone[r], pc'[r] # pc[r], pc[r] = "send" \/ (pc[r] = "body" /\ IsOk(r))
      PROVE  streak'[u] <= streak[u] /\ (u \in cooling' => u \in cooling)
  <2>1. streak[u] \in Nat
    BY <1>1, ThresholdAssumption DEF Typed
  <2>2. \/ NoResponse(r) \/ Response(r) \/ Withhold(r) \/ EndBody(r)
    <3>1. ASSUME NEW q \in Requests, q # r, Walk(q) \/ Relay(q) \/ EndBody(q) PROVE FALSE
      BY <1>1, <3>1 DEF Walk, Relay, EndBody, Resolve, Cooldown, FallThrough, BeginAttempt,
           CannotBuild, Send, NoResponse, Response, Withhold, Release, RelayWhole, Truncated,
           TruncatedUnseen, RelayBreaks, Failed, Commit, Returns, Goto, Typed
    <3>2. ASSUME NEW q \in Requests, ClientLeaves(q) PROVE FALSE
      BY <1>1, <3>2 DEF ClientLeaves
    <3>3. ~ResetStats /\ ~UNCHANGED vars /\ \A p \in Upstreams : ~WindowPasses(p)
      BY <1>1 DEF ResetStats, vars, WindowPasses
    <3>4. Walk(r) \/ Relay(r) \/ EndBody(r)
      BY <1>1, <3>1, <3>2, <3>3 DEF Next
    <3>5. QED
      BY <1>1, <3>4 DEF Walk, Relay, Resolve, Cooldown, FallThrough, BeginAttempt,
           CannotBuild, Send, Release
  <2>3. CASE NoResponse(r) \/ Response(r)
    BY <1>1, <2>1, <2>3 DEF NoResponse, Response, Failed, Record, metrics
  <2>4. CASE Withhold(r)
    BY <1>1, <2>4 DEF Withhold, Withheld, IsOk
  <2>5. CASE EndBody(r)
    <3>1. Record(Target(r), "ok") \/ Record(Target(r), "canceled")
      BY <1>1, <2>5 DEF EndBody, RelayWhole, Truncated, TruncatedUnseen, RelayBreaks, Commit
    <3>2. QED
      BY <1>1, <2>1, <3>1 DEF Record, Typed
  <2>6. QED
    BY <1>1, <2>2, <2>3, <2>4, <2>5
<1>2. Typed /\ [Next]_vars =>
        [\A r \in Requests, u \in Upstreams :
           /\ gone[r] /\ pc'[r] # pc[r]
           /\ pc[r] = "send" \/ (pc[r] = "body" /\ IsOk(r))
           => streak'[u] <= streak[u] /\ (u \in cooling' => u \in cooling)]_vars
  BY <1>1
<1>3. QED
  BY <1>2, TypedHolds, PTL DEF Spec, LeavingBlamesNobody

(***************************************************************************)
(* One answer                                                              *)
(***************************************************************************)
\* Nothing is written before an attempt is committed, and what a relay has
\* written is of the target in use.
Clean(r) ==
  /\ pc[r] # "done" /\ ~(pc[r] = "release" /\ outcome[r] = "committed") => answer[r] = "no"
  /\ pc[r] = "body" => shown[r] \subseteq Content(r)
  /\ \/ pc[r] \in {"arrive", "cooldown", "walk", "build", "send"}
     \/ pc[r] = "release" /\ outcome[r] # "committed"
     => shown[r] = {}
AllClean == \A r \in Requests : Clean(r)

\* A step of one request leaves the others as they are.
LEMMA OthersStay ==
  ASSUME Typed, NEW q \in Requests, Walk(q) \/ Relay(q) \/ EndBody(q) \/ ClientLeaves(q),
         NEW r \in Requests, r # q
  PROVE  /\ pc'[r] = pc[r] /\ at'[r] = at[r] /\ reply'[r] = reply[r]
         /\ outcome'[r] = outcome[r] /\ shown'[r] = shown[r] /\ answer'[r] = answer[r]
<1> USE DEF Typed, Goto, Ends, Returns, client
<1>1. CASE Resolve(q) \/ Cooldown(q) \/ FallThrough(q)
  BY <1>1 DEF Resolve, Cooldown, FallThrough
<1>2. CASE BeginAttempt(q) \/ Send(q) \/ Response(q) \/ Release(q)
  BY <1>2 DEF BeginAttempt, Send, Response, Release
<1>3. CASE CannotBuild(q) \/ NoResponse(q) \/ Withhold(q)
  BY <1>3 DEF CannotBuild, NoResponse, Withhold, Failed
<1>4. CASE Relay(q) \/ ClientLeaves(q)
  BY <1>4 DEF Relay, ClientLeaves
<1>5. CASE EndBody(q)
  BY <1>5 DEF EndBody, RelayWhole, Truncated, TruncatedUnseen, RelayBreaks, Commit
<1>6. QED
  BY <1>1, <1>2, <1>3, <1>4, <1>5 DEF Walk

\* Before an attempt is committed the client sees nothing.
LEMMA UnseenStep ==
  ASSUME Typed, NEW r \in Requests, Clean(r),
         \/ Resolve(r) \/ Cooldown(r) \/ FallThrough(r) \/ BeginAttempt(r) \/ Send(r)
         \/ Response(r) \/ CannotBuild(r) \/ NoResponse(r) \/ Withhold(r)
  PROVE  Clean(r)' /\ UNCHANGED <<shown[r], Told(r)>>
<1> USE DEF Typed, Goto, Ends, Returns, client, Clean
<1>1. CASE Resolve(r)
  BY <1>1 DEF Resolve, Told
<1>2. CASE Cooldown(r) \/ FallThrough(r)
  BY <1>2 DEF Cooldown, FallThrough, Told
<1>3. CASE BeginAttempt(r) \/ Send(r) \/ Response(r)
  BY <1>3 DEF BeginAttempt, Send, Response, Told
<1>4. CASE CannotBuild(r) \/ NoResponse(r) \/ Withhold(r)
  BY <1>4 DEF CannotBuild, NoResponse, Withhold, Withheld, Failed, Told, Content, IsOk
<1>5. QED
  BY <1>1, <1>2, <1>3, <1>4

\* A committed attempt, and what the walk makes of one that was not.
LEMMA SeenStep ==
  ASSUME Typed, NEW r \in Requests, Clean(r), Relay(r) \/ EndBody(r) \/ Release(r)
  PROVE  Clean(r)' /\ [Client(r)!Next]_<<shown[r], Told(r)>>
<1> USE DEF Typed, Goto, Ends, Returns, Clean
<1>1. CASE Relay(r)
  BY <1>1 DEF Relay, Content, IsOk, Told, Client!Next, Client!Deliver, Client!FromOneStream
<1>2. CASE RelayWhole(r)
  BY <1>2 DEF RelayWhole, Commit, Content, IsOk, Told, Client!Next, Client!Complete, Client!Fail,
              Client!FromOneStream
<1>3. CASE Truncated(r) \/ TruncatedUnseen(r) \/ RelayBreaks(r)
  BY <1>3 DEF Truncated, TruncatedUnseen, RelayBreaks, Commit, Told, Client!Next,
              Client!Fail, Client!Abandon
<1>4. CASE Release(r)
  BY <1>4 DEF Release, Told, Client!Next, Client!Fail, Client!Abandon
<1>5. QED
  BY <1>1, <1>2, <1>3, <1>4 DEF EndBody

LEMMA EveryStepIsTheClients ==
  ASSUME Typed, AllClean, [Next]_vars
  PROVE  AllClean' /\ \A r \in Requests : [Client(r)!Next]_<<shown[r], Told(r)>>
<1>1. CASE \/ \E u \in Upstreams : WindowPasses(u)
           \/ ResetStats \/ UNCHANGED vars
  <2>1. UNCHANGED <<pc, outcome, shown, answer, reply, at>>
    BY <1>1 DEF WindowPasses, ResetStats, client, vars
  <2>2. QED
    BY <2>1 DEF AllClean, Clean, Content, IsOk, Told
<1>2. ASSUME NEW q \in Requests, Walk(q) \/ Relay(q) \/ EndBody(q) \/ ClientLeaves(q)
      PROVE  AllClean' /\ \A r \in Requests : [Client(r)!Next]_<<shown[r], Told(r)>>
  <2>1. ASSUME NEW r \in Requests, r # q
        PROVE  Clean(r)' /\ UNCHANGED <<shown[r], Told(r)>>
    BY <1>2, <2>1, OthersStay DEF AllClean, Clean, Content, IsOk, Told
  <2>2. Clean(q)' /\ [Client(q)!Next]_<<shown[q], Told(q)>>
    <3>1. CASE ClientLeaves(q)
      BY <3>1 DEF ClientLeaves, AllClean, Clean, Content, IsOk, Told
    <3>2. CASE Walk(q) /\ ~Release(q)
      BY <3>2, UnseenStep DEF Walk, AllClean
    <3>3. CASE Relay(q) \/ EndBody(q) \/ Release(q)
      BY <3>3, SeenStep DEF AllClean
    <3>4. QED
      BY <1>2, <3>1, <3>2, <3>3
  <2>3. QED
    BY <2>1, <2>2 DEF AllClean
<1>3. QED
  BY <1>1, <1>2 DEF Next

\* However many targets a request is walked along, its client gets the answer of
\* one, and one end; a request handed to the pool was not answered at all
\* (forwardOutcome.committed).
THEOREM OneTargetAnswers == Spec => ImplementsClientStream
<1>1. Init => AllClean /\ \A r \in Requests : Client(r)!Init
  BY DEF Init, AllClean, Clean, Content, Told, Client!Init
<1>2. Typed /\ AllClean /\ [Next]_vars => AllClean'
  BY EveryStepIsTheClients
<1>3. Typed /\ AllClean /\ [Next]_vars
        => [\A r \in Requests : [Client(r)!Next]_<<shown[r], Told(r)>>]_vars
  BY EveryStepIsTheClients
<1>4. QED
  BY <1>1, <1>2, <1>3, TypedHolds, PTL DEF Spec, ImplementsClientStream

(***************************************************************************)
(* What is counted                                                         *)
(***************************************************************************)
\* A request is counted when its attempt is committed or its walk ends, so that nothing is
\* counted before, and as what its client was told.
Booked(r) ==
  /\ pc[r] # "done" /\ ~(pc[r] = "release" /\ outcome[r] = "committed")
       => successes[r] = 0 /\ failures[r] = 0 /\ answer[r] = "no"
  /\ <<successes[r], failures[r]>> \in {<<0, 0>>, <<1, 0>>, <<0, 1>>}
  /\ answer[r] = "complete" => successes[r] = 1
  /\ answer[r] = "failed" => failures[r] = 1
AllBooked ==
  /\ successes \in [Requests -> Nat] /\ failures \in [Requests -> Nat]
  /\ \A r \in Requests : Booked(r)

LEMMA OthersCountStays ==
  ASSUME Typed, AllBooked,
         NEW q \in Requests, Walk(q) \/ Relay(q) \/ EndBody(q) \/ ClientLeaves(q)
  PROVE  /\ successes' \in [Requests -> Nat] /\ failures' \in [Requests -> Nat]
         /\ \A r \in Requests : r # q => successes'[r] = successes[r] /\ failures'[r] = failures[r]
<1> USE DEF AllBooked, counts, RecordSuccess, RecordFailure
<1>1. CASE Walk(q) /\ ~Release(q)
  BY <1>1 DEF Walk, Resolve, Cooldown, FallThrough, BeginAttempt, CannotBuild, Send, NoResponse, Response,
              Withhold, Failed
<1>2. CASE Release(q)
  BY <1>2 DEF Release
<1>3. CASE Relay(q) \/ ClientLeaves(q)
  BY <1>3 DEF Relay, ClientLeaves
<1>4. CASE EndBody(q)
  BY <1>4 DEF EndBody, RelayWhole, Truncated, TruncatedUnseen, RelayBreaks
<1>5. QED
  BY <1>1, <1>2, <1>3, <1>4

LEMMA BookedStep ==
  ASSUME Typed, AllBooked, NEW r \in Requests, Walk(r) \/ Relay(r) \/ EndBody(r) \/ ClientLeaves(r)
  PROVE  Booked(r)'
<1> USE DEF Typed, Goto, Ends, Returns, client, counts, Booked, AllBooked, RecordSuccess, RecordFailure
<1>1. CASE Resolve(r) \/ Cooldown(r) \/ FallThrough(r)
  BY <1>1 DEF Resolve, Cooldown, FallThrough
<1>2. CASE BeginAttempt(r) \/ Send(r) \/ Response(r)
  BY <1>2 DEF BeginAttempt, Send, Response
<1>3. CASE CannotBuild(r) \/ NoResponse(r) \/ Withhold(r)
  BY <1>3 DEF CannotBuild, NoResponse, Withhold, Failed
<1>4. CASE Relay(r) \/ ClientLeaves(r)
  BY <1>4 DEF Relay, ClientLeaves
<1>5. CASE EndBody(r)
  BY <1>5 DEF EndBody, RelayWhole, Truncated, TruncatedUnseen, RelayBreaks, Commit
<1>6. CASE Release(r)
  BY <1>6 DEF Release
<1>7. QED
  BY <1>1, <1>2, <1>3, <1>4, <1>5, <1>6 DEF Walk

LEMMA AllBookedNext == Typed /\ AllBooked /\ [Next]_vars => AllBooked'
<1> SUFFICES ASSUME Typed, AllBooked, [Next]_vars PROVE AllBooked'
  OBVIOUS
<1>1. CASE \/ \E u \in Upstreams : WindowPasses(u)
           \/ ResetStats \/ UNCHANGED vars
  <2>1. UNCHANGED <<pc, outcome, answer, successes, failures>>
    BY <1>1 DEF WindowPasses, ResetStats, client, counts, vars
  <2>2. QED
    BY <2>1 DEF AllBooked, Booked
<1>2. ASSUME NEW q \in Requests, Walk(q) \/ Relay(q) \/ EndBody(q) \/ ClientLeaves(q)
      PROVE  AllBooked'
  <2>1. ASSUME NEW r \in Requests, r # q PROVE Booked(r)'
    BY <1>2, <2>1, OthersStay, OthersCountStays DEF AllBooked, Booked
  <2>2. Booked(q)'
    BY <1>2, BookedStep
  <2>3. QED
    BY <1>2, <2>1, <2>2, OthersCountStays DEF AllBooked
<1>3. QED
  BY <1>1, <1>2 DEF Next

LEMMA AllBookedHolds == Spec => []AllBooked
<1>1. Init => AllBooked
  BY DEF Init, AllBooked, Booked
<1> QED
  BY <1>1, AllBookedNext, TypedHolds, PTL DEF Spec

\* Whatever way an attempt ends, and however many targets were tried before it, a request is
\* counted once and as what its client was told (recordSuccessForApiKey, recordFailure).
THEOREM CountedOnce == Spec => []CountsMatchAnswers
<1>1. AllBooked => CountsMatchAnswers
  <2> SUFFICES ASSUME AllBooked, NEW r \in Requests
               PROVE  /\ successes[r] + failures[r] <= 1
                      /\ answer[r] = "complete" => successes[r] = 1
                      /\ answer[r] = "failed" => failures[r] = 1
    BY DEF CountsMatchAnswers
  <2>1. \/ successes[r] = 0 /\ failures[r] = 0
        \/ successes[r] = 1 /\ failures[r] = 0
        \/ successes[r] = 0 /\ failures[r] = 1
    BY DEF AllBooked, Booked
  <2>2. QED
    BY <2>1 DEF AllBooked, Booked
<1>2. QED
  BY <1>1, AllBookedHolds, PTL

(***************************************************************************)
(* The order of the targets                                                *)
(***************************************************************************)
\* A walk of s that starts at `from' comes to x before it comes to the pool.
Reached(s, from, x) ==
  \E j \in DOMAIN s : j >= from /\ s[j] = x /\ \A i \in from .. j : s[i] # Pool

\* What comes before any sentinel is reached.
LEMMA ReachedFirst ==
  ASSUME NEW s \in Seq(Upstreams), NEW t \in Seq(Targets), NEW u, Occurs(s, u)
  PROVE  Reached(s \o t, 1, u)
<1>1. PICK j \in DOMAIN s : s[j] = u
  BY DEF Occurs
<1>2. \A i \in DOMAIN s : i \in DOMAIN (s \o t) /\ (s \o t)[i] = s[i] /\ s[i] # Pool
  <2>1. s \in Seq(Targets) /\ s \o t \in Seq(Targets) /\ Len(s \o t) = Len(s) + Len(t)
    BY DEF Targets
  <2>2. \A i \in DOMAIN s : s[i] \in Upstreams
    OBVIOUS
  <2> QED
    BY <2>1, <2>2, PoolAssumption
<1>3. j \in 1 .. Len(s) /\ \A i \in 1 .. j : i \in DOMAIN s
  BY <1>1
<1> QED
  BY <1>1, <1>2, <1>3 DEF Reached

\* The pick takes one element to the front, and loses none.
LEMMA PickFirst ==
  ASSUME NEW T, NEW s \in Seq(T), NEW k \in DOMAIN s
  PROVE  LET p == <<s[k]>> \o (SubSeq(s, 1, k - 1) \o SubSeq(s, k + 1, Len(s)))
         IN p \in Seq(T) /\ \A x : Occurs(p, x) <=> Occurs(s, x)
<1> DEFINE a == SubSeq(s, 1, k - 1)
           b == SubSeq(s, k + 1, Len(s))
<1>1. /\ s[k] \in T /\ <<s[k]>> \in Seq(T) /\ k \in 1 .. Len(s)
      /\ a \in Seq(T) /\ Len(a) = k - 1 /\ \A i \in 1 .. k - 1 : a[i] = s[i]
      /\ b \in Seq(T) /\ Len(b) = Len(s) - k /\ \A i \in 1 .. Len(s) - k : b[i] = s[k + i]
  OBVIOUS
<1> HIDE DEF a, b
<1>2. a \o b \in Seq(T) /\ <<s[k]>> \o (a \o b) \in Seq(T)
  BY <1>1
<1>3. ASSUME NEW x
      PROVE  Occurs(<<s[k]>> \o (a \o b), x) <=> x = s[k] \/ Occurs(a, x) \/ Occurs(b, x)
  <2>1. Occurs(<<s[k]>>, x) <=> x = s[k]
    BY DEF Occurs
  <2> QED
    BY <1>1, <1>2, <2>1, OccursEither
<1>4. ASSUME NEW i \in DOMAIN s
      PROVE  i = k \/ Occurs(a, s[i]) \/ Occurs(b, s[i])
  <2>1. CASE i < k
    <3>1. i \in DOMAIN a /\ a[i] = s[i]
      BY <1>1, <2>1
    <3> QED
      BY <3>1 DEF Occurs
  <2>2. CASE i > k
    <3>1. i - k \in DOMAIN b /\ b[i - k] = s[k + (i - k)] /\ k + (i - k) = i
      BY <1>1, <2>2
    <3> QED
      BY <3>1 DEF Occurs
  <2> QED
    BY <1>1, <2>1, <2>2
<1>5. ASSUME NEW x, Occurs(a, x) \/ Occurs(b, x) PROVE Occurs(s, x)
  <2>1. CASE Occurs(a, x)
    <3>1. PICK i \in DOMAIN a : a[i] = x
      BY <2>1 DEF Occurs
    <3>2. i \in DOMAIN s /\ s[i] = x
      BY <1>1, <3>1
    <3> QED
      BY <3>2 DEF Occurs
  <2>2. CASE Occurs(b, x)
    <3>1. PICK i \in DOMAIN b : b[i] = x
      BY <2>2 DEF Occurs
    <3>2. k + i \in DOMAIN s /\ s[k + i] = x
      BY <1>1, <3>1
    <3> QED
      BY <3>2 DEF Occurs
  <2> QED
    BY <1>5, <2>1, <2>2
<1>6. \A x : Occurs(<<s[k]>> \o (a \o b), x) <=> Occurs(s, x)
  BY <1>3, <1>4, <1>5 DEF Occurs
<1> QED
  BY <1>2, <1>6 DEF a, b

\* Within a tier every target is kept, and every upstream comes before the
\* sentinel (weightedOrder).
LEMMA WeightedOrderHolds ==
  ASSUME NEW tier \in Seq(Targets), NEW n \in Nat
  PROVE  /\ WeightedOrder(tier, n) \in Seq(Targets)
         /\ \A x : Occurs(WeightedOrder(tier, n), x) <=> Occurs(tier, x)
         /\ \A u \in Upstreams : Occurs(tier, u) => Reached(WeightedOrder(tier, n), 1, u)
<1> DEFINE relayable == Kept(tier, Upstreams)
           first     == (n % Len(relayable)) + 1
           picked    == IF relayable = <<>> THEN <<>> ELSE <<relayable[first]>> \o
                          (SubSeq(relayable, 1, first - 1)
                             \o SubSeq(relayable, first + 1, Len(relayable)))
           sentinels == Kept(tier, {Pool})
<1>1. WeightedOrder(tier, n) = picked \o sentinels
  BY DEF WeightedOrder
<1>2. /\ relayable \in Seq(Upstreams) /\ sentinels \in Seq(Targets)
      /\ \A u \in Upstreams : Occurs(tier, u) <=> Occurs(relayable, u)
      /\ \A x : Occurs(sentinels, x) <=> x = Pool /\ Occurs(tier, x)
  <2>1. Targets \cap Upstreams = Upstreams /\ Targets \cap {Pool} = {Pool}
    BY DEF Targets
  <2>2. relayable \in Seq(Upstreams) /\ sentinels \in Seq({Pool})
    BY <2>1, KeptHolds
  <2>3. \A x : Occurs(relayable, x) <=> x \in Upstreams /\ Occurs(tier, x)
    BY KeptHolds
  <2>4. \A x : Occurs(sentinels, x) <=> x = Pool /\ Occurs(tier, x)
    <3>1. \A x : x = Pool <=> x \in {Pool}
      OBVIOUS
    <3> QED
      BY <3>1, KeptHolds
  <2> HIDE DEF relayable, sentinels
  <2>5. sentinels \in Seq(Targets)
    BY <2>2 DEF Targets
  <2> QED
    BY <2>2, <2>3, <2>4, <2>5
<1>3. picked \in Seq(Upstreams) /\ \A x : Occurs(picked, x) <=> Occurs(relayable, x)
  <2>1. CASE relayable = <<>>
    BY <2>1
  <2>2. CASE relayable # <<>>
    <3> HIDE DEF relayable
    <3>1. Len(relayable) \in Nat \ {0}
      BY <1>2, <2>2
    <3>2. n % Len(relayable) \in 0 .. Len(relayable) - 1
      BY <3>1
    <3>3. first \in DOMAIN relayable
      BY <1>2, <3>2
    <3> HIDE DEF first
    <3> QED
      BY <1>2, <2>2, <3>3, PickFirst
  <2> QED
    BY <2>1, <2>2
<1>4. \A x : Occurs(tier, x) => x \in Targets
  BY DEF Occurs
<1>5. \A x : Occurs(relayable, x) => x \in Upstreams
  BY <1>2 DEF Occurs
<1> HIDE DEF relayable, picked, sentinels
<1>6. picked \in Seq(Targets)
  BY <1>3 DEF Targets
<1>7. picked \o sentinels \in Seq(Targets)
  BY <1>2, <1>6
<1>8. \A x : Occurs(picked \o sentinels, x) <=> Occurs(picked, x) \/ Occurs(sentinels, x)
  BY <1>2, <1>6, OccursEither
<1>9. \A u \in Upstreams : Occurs(tier, u) => Reached(picked \o sentinels, 1, u)
  BY <1>2, <1>3, ReachedFirst
<1>10. \A x : Occurs(picked \o sentinels, x) <=> Occurs(tier, x)
  BY <1>2, <1>3, <1>4, <1>5, <1>8 DEF Targets
<1> QED
  BY <1>1, <1>7, <1>9, <1>10

\* Resolving a route drops no target, and keeps the sentinel behind the upstreams
\* that it does not outrank (orderTargets).
LEMMA OrderHolds ==
  ASSUME NEW m \in DOMAIN Routes, NEW enabled \in SUBSET Targets, NEW n \in Nat
  PROVE  LET chosen == Eligible(m, enabled)
         IN /\ OrderTargets(chosen, n) \in Seq(Targets)
            /\ chosen # <<>> => OrderTargets(chosen, n) # <<>>
            /\ \A u \in AheadOfPool(m, enabled) : Reached(OrderTargets(chosen, n), 1, u)
            /\ chosen = <<>> => AheadOfPool(m, enabled) = {}
<1> DEFINE Entries   == [to : Targets, priority : 1 .. Tiers]
           chosen    == Eligible(m, enabled)
           InTier(p) == Kept(chosen, [to : Targets, priority : {p}])
           Tier(p)   == [k \in DOMAIN InTier(p) |-> InTier(p)[k].to]
           ss        == [p \in 1 .. Tiers |-> WeightedOrder(Tier(p), n)]
<1>1. Tiers \in Nat /\ Routes[m] \in Seq(Entries)
  BY ThresholdAssumption, RoutesAssumption DEF Targets
<1>2. /\ chosen \in Seq(Entries)
      /\ \A t : Occurs(chosen, t) <=> t \in Entries /\ t.to \in enabled /\ Occurs(Routes[m], t)
  <2> DEFINE Asked == [to : enabled, priority : 1 .. Tiers]
  <2>1. \A t \in Entries : t \in Asked <=> t.to \in enabled
    OBVIOUS
  <2>2. chosen = Kept(Routes[m], Asked)
    BY DEF Eligible
  <2> HIDE DEF Entries, Asked, chosen
  <2>3. chosen \in Seq(Entries) /\ \A t : Occurs(chosen, t) <=> t \in Asked /\ Occurs(Routes[m], t)
    BY <1>1, <2>2, KeptHolds
  <2>4. \A t : Occurs(Routes[m], t) => t \in Entries
    BY <1>1, OccursIn
  <2> QED
    BY <2>1, <2>3, <2>4
<1> HIDE DEF chosen
<1>3. ASSUME NEW p \in 1 .. Tiers
      PROVE  /\ Tier(p) \in Seq(Targets)
             /\ \A x : Occurs(Tier(p), x) <=> \E t \in Entries : Occurs(chosen, t) /\ t.priority = p /\ t.to = x
  <2> DEFINE Tierful == [to : Targets, priority : {p}]
             tier    == InTier(p)
  <2>1. \A t \in Entries : t \in Tierful <=> t.priority = p
    OBVIOUS
  <2>2. tier = Kept(chosen, Tierful)
    OBVIOUS
  <2>3. /\ tier \in Seq(Entries)
        /\ \A t : Occurs(tier, t) <=> t \in Entries /\ t.priority = p /\ Occurs(chosen, t)
    <3> HIDE DEF Entries, Tierful, tier
    <3>1. tier \in Seq(Entries) /\ \A t : Occurs(tier, t) <=> t \in Tierful /\ Occurs(chosen, t)
      BY <1>2, <2>2, KeptHolds
    <3>2. \A t : Occurs(chosen, t) => t \in Entries
      BY <1>2, OccursIn
    <3> QED
      BY <2>1, <3>1, <3>2
  <2>4. Tier(p) = [k \in DOMAIN tier |-> tier[k].to]
    OBVIOUS
  <2> HIDE DEF InTier, tier, Tier
  <2>5. \A k \in DOMAIN tier : tier[k].to \in Targets
    <3>1. \A k \in DOMAIN tier : tier[k] \in Entries
      <4> HIDE DEF Entries
      <4> QED
        BY <2>3
    <3> QED
      BY <3>1
  <2>6. DOMAIN tier = 1 .. Len(tier) /\ Len(tier) \in Nat
    BY <2>3
  <2>7. Tier(p) \in Seq(Targets)
    BY <2>4, <2>5, <2>6
  <2>8. \A x : Occurs(Tier(p), x) <=> \E t : Occurs(tier, t) /\ t.to = x
    BY <2>4 DEF Occurs
  <2> QED
    BY <2>3, <2>7, <2>8
<1> HIDE DEF Tier
<1>4. \A p \in 1 .. Tiers : WeightedOrder(Tier(p), n) \in Seq(Targets)
  BY <1>3, WeightedOrderHolds
<1>5. ss \in Seq(Seq(Targets)) /\ Len(ss) = Tiers
  BY <1>1, <1>4
<1>6. OrderTargets(chosen, n) = FlattenSeq(ss)
  BY DEF OrderTargets, Tier
<1>7. OrderTargets(chosen, n) \in Seq(Targets) /\ Consists(ss, Tiers, OrderTargets(chosen, n))
  <2> HIDE DEF ss
  <2> QED
    BY <1>5, <1>6, Flattened
<1>8. \A p \in 1 .. Tiers : ss[p] = WeightedOrder(Tier(p), n)
  OBVIOUS
<1> HIDE DEF ss
<1>9. ASSUME NEW p \in 1 .. Tiers
          PROVE  /\ ss[p] \in Seq(Targets)
                 /\ \A x : Occurs(ss[p], x) <=> \E t \in Entries : Occurs(chosen, t) /\ t.priority = p /\ t.to = x
                 /\ \A u \in Upstreams : Occurs(ss[p], u) => Reached(ss[p], 1, u)
  <2> DEFINE tier == Tier(p)
  <2>1. tier \in Seq(Targets) /\ ss[p] = WeightedOrder(tier, n)
    BY <1>3, <1>8
  <2>2. \A x : Occurs(tier, x) <=> \E t \in Entries : Occurs(chosen, t) /\ t.priority = p /\ t.to = x
    BY <1>3
  <2> HIDE DEF tier
  <2>3. /\ ss[p] \in Seq(Targets)
        /\ \A x : Occurs(ss[p], x) <=> Occurs(tier, x)
        /\ \A u \in Upstreams : Occurs(tier, u) => Reached(ss[p], 1, u)
    BY <2>1, WeightedOrderHolds
  <2> QED
    BY <2>2, <2>3
<1>10. ASSUME NEW u \in AheadOfPool(m, enabled)
      PROVE  Reached(OrderTargets(chosen, n), 1, u) /\ chosen # <<>>
  <2> DEFINE order == OrderTargets(chosen, n)
  <2>1. PICK k \in DOMAIN Routes[m] :
          /\ Routes[m][k].to = u /\ u \in enabled \ {Pool}
          /\ \A j \in DOMAIN Routes[m] :
               IsPool(Routes[m][j].to) /\ Pool \in enabled
                 => Routes[m][k].priority <= Routes[m][j].priority
    BY DEF AheadOfPool
  <2> DEFINE t == Routes[m][k]
             p == t.priority
  <2>2. t \in Entries /\ Occurs(Routes[m], t)
    <3>1. Occurs(Routes[m], t)
      BY DEF Occurs
    <3> HIDE DEF Entries, t
    <3> QED
      BY <1>1, <3>1, OccursIn
  <2>3. p \in 1 .. Tiers /\ t.to = u /\ Occurs(chosen, t) /\ u \in Upstreams
    BY <1>2, <2>1, <2>2 DEF Targets
  <2>4. \A e : Occurs(Routes[m], e) /\ e.to = Pool /\ Pool \in enabled => p <= e.priority
    BY <2>1 DEF Occurs, IsPool
  <2> HIDE DEF t, p
  <2>5. Reached(ss[p], 1, u)
    BY <1>9, <2>2, <2>3 DEF p
  <2>6. PICK i \in DOMAIN ss[p] : i >= 1 /\ ss[p][i] = u /\ \A h \in 1 .. i : ss[p][h] # Pool
    BY <2>5 DEF Reached
  <2>7. PICK o \in Nat : StandsAt(ss, p, order, o)
    BY <1>7, <2>3 DEF Consists
  <2>8. i \in 1 .. Len(ss[p]) /\ DOMAIN ss[p] = 1 .. Len(ss[p])
    BY <1>9, <2>3, <2>6
  <2>9. o + i \in DOMAIN order /\ order[o + i] = u
    BY <2>6, <2>7 DEF StandsAt
  <2>10. ASSUME NEW h \in 1 .. o + i PROVE order[h] # Pool
    <3>1. CASE h \in 1 .. o
      <4>1. PICK q \in 1 .. p - 1 : Occurs(ss[q], order[h])
        BY <2>7, <3>1 DEF StandsAt, Among
      <4>2. q \in 1 .. Tiers /\ q < p
        BY <2>3, ThresholdAssumption
      <4>3. PICK e \in Entries : Occurs(chosen, e) /\ e.priority = q /\ e.to = order[h]
        BY <1>9, <4>1, <4>2
      <4> QED
        BY <1>2, <2>3, <2>4, <4>2, <4>3
    <3>2. CASE h \notin 1 .. o
      <4>1. h - o \in 1 .. i /\ h = o + (h - o)
        BY <2>8, <3>2
      <4>2. h - o \in DOMAIN ss[p]
        BY <2>8, <4>1
      <4> QED
        BY <2>6, <2>7, <4>1, <4>2 DEF StandsAt
    <3> QED
      BY <3>1, <3>2
  <2>11. o + i >= 1
    BY <2>8
  <2>12. chosen # <<>>
    BY <2>3 DEF Occurs
  <2> QED
    BY <2>9, <2>10, <2>11, <2>12 DEF Reached
<1>11. ASSUME chosen # <<>> PROVE OrderTargets(chosen, n) # <<>>
  <2>1. 1 \in DOMAIN chosen /\ chosen[1] \in Entries
    <3> HIDE DEF Entries
    <3> QED
      BY <1>2, <1>11
  <2> DEFINE t == chosen[1]
             p == t.priority
  <2>2. Occurs(chosen, t) /\ t \in Entries /\ p \in 1 .. Tiers
    BY <2>1 DEF Occurs
  <2> HIDE DEF t, p
  <2>3. Occurs(ss[p], t.to)
    BY <1>9, <2>2 DEF p
  <2>4. PICK i \in DOMAIN ss[p] : ss[p][i] = t.to
    BY <2>3 DEF Occurs
  <2>5. PICK o \in Nat : StandsAt(ss, p, OrderTargets(chosen, n), o)
    BY <1>7, <2>2 DEF Consists
  <2> QED
    BY <2>4, <2>5 DEF StandsAt
<1>12. chosen = <<>> => AheadOfPool(m, enabled) = {}
  BY <1>10
<1> QED
  BY <1>7, <1>10, <1>11, <1>12 DEF chosen

\* What is ahead of the sentinel.
LEMMA BeforePoolHolds ==
  ASSUME NEW ts \in Seq(Targets)
  PROVE  /\ BeforePool(ts) \in Seq(Upstreams)
         /\ Len(BeforePool(ts)) <= Len(ts)
         /\ \A u : Reached(ts, 1, u) => Occurs(BeforePool(ts), u)
<1>1. Len(ts) \in Nat /\ DOMAIN ts = 1 .. Len(ts) /\ \A k \in DOMAIN ts : ts[k] \in Targets
  OBVIOUS
<1>2. CASE \E k \in DOMAIN ts : IsPool(ts[k])
  <2> DEFINE first == CHOOSE k \in DOMAIN ts :
                        IsPool(ts[k]) /\ \A j \in 1 .. k - 1 : ~IsPool(ts[j])
             ahead == SubSeq(ts, 1, first - 1)
  <2>1. \E k \in DOMAIN ts : IsPool(ts[k]) /\ \A j \in 1 .. k - 1 : ~IsPool(ts[j])
    <3> DEFINE Pools == {k \in DOMAIN ts : IsPool(ts[k])}
    <3>1. Pools \in SUBSET Nat /\ Pools # {}
      BY <1>1, <1>2
    <3> HIDE DEF Pools
    <3>2. PICK k \in Pools : \A j \in Pools : k <= j
      BY <3>1, LeastNatural
    <3> QED
      BY <1>1, <3>2 DEF Pools
  <2>2. first \in 1 .. Len(ts) /\ IsPool(ts[first]) /\ \A j \in 1 .. first - 1 : ~IsPool(ts[j])
    BY <1>1, <2>1
  <2>3. BeforePool(ts) = ahead
    BY <1>2 DEF BeforePool
  <2> HIDE DEF first
  <2>4. ahead \in Seq(Targets) /\ Len(ahead) = first - 1 /\ \A j \in 1 .. first - 1 : ahead[j] = ts[j]
    BY <1>1, <2>2
  <2> HIDE DEF ahead
  <2>5. \A j \in DOMAIN ahead : ahead[j] \in Upstreams
    BY <1>1, <2>2, <2>4 DEF IsPool, Targets
  <2>6. ahead \in Seq(Upstreams)
    <3>1. DOMAIN ahead = 1 .. Len(ahead) /\ Len(ahead) \in Nat /\ ahead = [j \in DOMAIN ahead |-> ahead[j]]
      BY <2>4
    <3> QED
      BY <2>5, <3>1
  <2>7. ASSUME NEW u, Reached(ts, 1, u) PROVE Occurs(ahead, u)
    <3>1. PICK j \in DOMAIN ts : j >= 1 /\ ts[j] = u /\ \A i \in 1 .. j : ts[i] # Pool
      BY <2>7 DEF Reached
    <3>2. j < first
      BY <1>1, <2>2, <3>1 DEF IsPool
    <3>3. j \in 1 .. first - 1 /\ j \in DOMAIN ahead
      BY <1>1, <2>2, <2>4, <3>1, <3>2
    <3> QED
      BY <2>4, <3>1, <3>3 DEF Occurs
  <2> QED
    BY <1>1, <2>2, <2>3, <2>4, <2>6, <2>7
<1>3. CASE ~\E k \in DOMAIN ts : IsPool(ts[k])
  <2>1. BeforePool(ts) = ts
    BY <1>3 DEF BeforePool
  <2>2. \A k \in DOMAIN ts : ts[k] \in Upstreams
    BY <1>1, <1>3 DEF IsPool, Targets
  <2>3. ts \in Seq(Upstreams)
    <3>1. ts = [j \in DOMAIN ts |-> ts[j]]
      OBVIOUS
    <3> QED
      BY <1>1, <2>2, <3>1
  <2>4. \A u : Reached(ts, 1, u) => Occurs(ts, u)
    BY DEF Reached, Occurs
  <2> QED
    BY <1>1, <2>1, <2>3, <2>4
<1> QED
  BY <1>2, <1>3

\* The cooldown drops no target, and moves none across the sentinel
\* (applyForwardCooldown).
LEMMA CooldownHolds ==
  ASSUME NEW ts \in Seq(Targets), cooling \subseteq Upstreams
  PROVE  /\ ApplyForwardCooldown(ts) \in Seq(Targets)
         /\ ts # <<>> => ApplyForwardCooldown(ts) # <<>>
         /\ \A u : Reached(ts, 1, u) => Reached(ApplyForwardCooldown(ts), 1, u)
<1> DEFINE ahead   == BeforePool(ts)
           healthy == Kept(ahead, Upstreams \ cooling)
           tripped == Kept(ahead, cooling)
           front   == healthy \o tripped
           rest    == SubSeq(ts, Len(ahead) + 1, Len(ts))
<1>1. ApplyForwardCooldown(ts) = front \o rest
  BY DEF ApplyForwardCooldown
<1>2. ahead \in Seq(Upstreams) /\ Len(ahead) \in 0 .. Len(ts) /\ \A u : Reached(ts, 1, u) => Occurs(ahead, u)
  <2>1. ahead \in Seq(Upstreams) /\ Len(ahead) <= Len(ts) /\ \A u : Reached(ts, 1, u) => Occurs(ahead, u)
    BY BeforePoolHolds
  <2> HIDE DEF ahead
  <2> QED
    BY <2>1
<1> HIDE DEF ahead
<1>3. /\ healthy \in Seq(Upstreams) /\ tripped \in Seq(Upstreams)
      /\ \A u : Occurs(ahead, u) => Occurs(healthy, u) \/ Occurs(tripped, u)
  <2>1. /\ healthy \in Seq(Upstreams)
        /\ \A u : Occurs(healthy, u) <=> u \in Upstreams \ cooling /\ Occurs(ahead, u)
    BY <1>2, KeptHolds
  <2>2. tripped \in Seq(Upstreams) /\ \A u : Occurs(tripped, u) <=> u \in cooling /\ Occurs(ahead, u)
    BY <1>2, KeptHolds
  <2>3. \A u : Occurs(ahead, u) => u \in Upstreams
    BY <1>2, OccursIn
  <2> QED
    BY <2>1, <2>2, <2>3
<1>4. rest \in Seq(Targets) /\ Len(rest) = Len(ts) - Len(ahead)
  BY <1>2
<1> HIDE DEF healthy, tripped, rest
<1>5. front \in Seq(Upstreams) /\ Upstreams \subseteq Targets
  BY <1>3 DEF Targets
<1>6. front \in Seq(Targets)
  BY <1>5, SeqSubset
<1>7. front \o rest \in Seq(Targets)
  BY <1>4, <1>6
<1>8. \A u : Occurs(ahead, u) => Occurs(front, u)
  BY <1>3, OccursEither
<1> HIDE DEF front
<1>9. ASSUME NEW u, Reached(ts, 1, u) PROVE Reached(front \o rest, 1, u)
  BY <1>2, <1>4, <1>5, <1>8, <1>9, ReachedFirst
<1>10. ASSUME ts # <<>> PROVE front \o rest # <<>>
  <2>1. CASE Len(ahead) = 0
    <3>1. Len(rest) # 0
      BY <1>4, <1>10, <2>1
    <3>2. Len(front \o rest) = Len(front) + Len(rest)
      BY <1>4, <1>6
    <3>3. Len(front) \in Nat /\ Len(rest) \in Nat
      BY <1>4, <1>6
    <3> QED
      BY <3>1, <3>2, <3>3
  <2>2. CASE Len(ahead) # 0
    <3>1. Occurs(ahead, ahead[1])
      BY <1>2, <2>2 DEF Occurs
    <3>2. Reached(front \o rest, 1, ahead[1])
      BY <1>4, <1>5, <1>8, <3>1, ReachedFirst
    <3> QED
      BY <3>2 DEF Reached
  <2> QED
    BY <2>1, <2>2
<1> QED
  BY <1>1, <1>7, <1>9, <1>10

(***************************************************************************)
(* The walk                                                                *)
(***************************************************************************)
\* A request stands at a target of its chain, and tries no sentinel.
Placed(r) ==
  /\ chain[r] \in Seq(Targets)
  /\ pc[r] \in {"arrive", "cooldown"} => at[r] = 1
  /\ pc[r] = "cooldown" => chain[r] # <<>>
  /\ pc[r] \in {"walk"} \cup Busy => at[r] \in DOMAIN chain[r]
  /\ pc[r] \in Busy => Target(r) # Pool

\* What is owed still comes, before the pool does; and the pool comes last.
Due(r) ==
  /\ pc[r] \in {"cooldown", "walk"} => \A u \in owed[r] : Reached(chain[r], at[r], u)
  /\ pc[r] \in Busy => \A u \in owed[r] : Reached(chain[r], at[r] + 1, u)
  /\ answer[r] = "pool" => pc[r] = "done"

Settled(r) ==
  /\ pc[r] = "done"
  /\ \/ answer[r] = "pool"
     \/ answer[r] = "failed" /\ outcome[r] = "retry"
  => owed[r] = {}

Walked(r) == Placed(r) /\ Due(r) /\ Settled(r)

Cooled == cooling \subseteq {u \in Upstreams : streak[u] = Threshold}

Walks ==
  /\ Cooled /\ DOMAIN owed = Requests
  /\ \A r \in Requests : Walked(r)

\* A step of which the walk knows nothing.
Stays(r) ==
  /\ chain'[r] = chain[r] /\ at'[r] = at[r] /\ owed'[r] = owed[r]
  /\ \/ pc'[r] = pc[r] /\ answer'[r] = answer[r] /\ outcome'[r] = outcome[r]
     \/ /\ pc[r] \in Busy /\ pc'[r] \in Busy
        /\ answer'[r] = answer[r] \/ answer'[r] # "pool"

LEMMA StaysKeeps ==
  ASSUME NEW r, Stays(r), Walked(r)
  PROVE  Walked(r)'
BY DEF Stays, Walked, Placed, Due, Settled, Busy, Target

LEMMA OthersWalkOn ==
  ASSUME Typed, DOMAIN owed = Requests,
         NEW q \in Requests, Walk(q) \/ Relay(q) \/ EndBody(q) \/ ClientLeaves(q)
  PROVE  /\ DOMAIN owed' = Requests
         /\ \A r \in Requests : r # q => Stays(r)
<1>1. DOMAIN owed' = Requests /\ \A r \in Requests : r # q => chain'[r] = chain[r] /\ owed'[r] = owed[r]
  <2> USE DEF Typed, Returns
  <2>1. CASE Walk(q) /\ ~Resolve(q) /\ ~Release(q)
    BY <2>1 DEF Walk, Cooldown, FallThrough, BeginAttempt, CannotBuild, Send, NoResponse, Response,
                Withhold, Failed
  <2>2. CASE Resolve(q)
    BY <2>2 DEF Resolve
  <2>3. CASE Release(q)
    BY <2>3 DEF Release
  <2>4. CASE Relay(q) \/ ClientLeaves(q)
    BY <2>4 DEF Relay, ClientLeaves
  <2>5. CASE EndBody(q)
    BY <2>5 DEF EndBody, RelayWhole, Truncated, TruncatedUnseen, RelayBreaks, Commit
  <2> QED
    BY <2>1, <2>2, <2>3, <2>4, <2>5
<1> QED
  BY <1>1, OthersStay DEF Stays

\* The steps of an attempt stay at its target.
LEMMA AttemptStays ==
  ASSUME Typed, NEW r \in Requests, Walked(r),
         \/ Send(r) \/ CannotBuild(r) \/ NoResponse(r) \/ Response(r) \/ Withhold(r)
         \/ Relay(r) \/ EndBody(r) \/ ClientLeaves(r)
  PROVE  Stays(r)
<1> USE DEF Typed, Busy, Stays, Goto, Ends, client
<1>1. CASE Send(r) \/ Response(r)
  BY <1>1 DEF Send, Response
<1>2. CASE CannotBuild(r) \/ NoResponse(r) \/ Withhold(r)
  BY <1>2 DEF CannotBuild, NoResponse, Withhold, Failed
<1>3. CASE Relay(r) \/ ClientLeaves(r)
  BY <1>3 DEF Relay, ClientLeaves
<1>4. CASE EndBody(r)
  BY <1>4 DEF EndBody, RelayWhole, Truncated, TruncatedUnseen, RelayBreaks, Commit
<1> QED
  BY <1>1, <1>2, <1>3, <1>4

LEMMA ResolveWalks ==
  ASSUME Typed, Walks, NEW r \in Requests, Resolve(r)
  PROVE  Walked(r)'
<1> USE DEF Typed
<1>1. PICK m \in DOMAIN Routes, enabled \in SUBSET (Upstreams \cup {Pool}),
           n \in 0 .. Cardinality(Upstreams) - 1 :
        /\ owed' = [owed EXCEPT ![r] = AheadOfPool(m, enabled)]
        /\ IF Eligible(m, enabled) = <<>>
             THEN Ends(r, "pool") /\ Returns(r)
             ELSE /\ chain' = [chain EXCEPT ![r] = OrderTargets(Eligible(m, enabled), n)]
                  /\ Goto(r, "cooldown")
                  /\ UNCHANGED <<answer, at>>
  BY DEF Resolve
<1>2. pc[r] = "arrive" /\ at[r] = 1 /\ answer[r] # "pool"
  BY DEF Resolve, Walks, Walked, Placed, Due
<1>3. enabled \in SUBSET Targets /\ n \in Nat
  BY DEF Targets
<1> DEFINE chosen == Eligible(m, enabled)
           order  == OrderTargets(chosen, n)
<1>4. /\ order \in Seq(Targets)
      /\ chosen # <<>> => order # <<>>
      /\ \A u \in AheadOfPool(m, enabled) : Reached(order, 1, u)
      /\ chosen = <<>> => AheadOfPool(m, enabled) = {}
  BY <1>3, OrderHolds
<1>5. owed'[r] = AheadOfPool(m, enabled)
  BY <1>1 DEF Walks
<1>6. CASE chosen = <<>>
  <2>1. owed'[r] = {} /\ chain'[r] = <<>> /\ pc'[r] = "done"
    BY <1>1, <1>4, <1>5, <1>6 DEF Returns, Goto
  <2>2. chain'[r] \in Seq(Targets)
    BY <2>1
  <2> QED
    BY <2>1, <2>2 DEF Walked, Placed, Due, Settled, Busy
<1>7. CASE chosen # <<>>
  <2>1. chain'[r] = order /\ pc'[r] = "cooldown" /\ at'[r] = 1 /\ answer'[r] = answer[r]
    BY <1>1, <1>2, <1>7 DEF Goto
  <2> QED
    BY <1>2, <1>4, <1>5, <1>7, <2>1 DEF Walked, Placed, Due, Settled, Busy
<1> QED
  BY <1>6, <1>7

LEMMA CooldownWalks ==
  ASSUME Typed, Walks, NEW r \in Requests, Cooldown(r)
  PROVE  Walked(r)'
<1> DEFINE ts == chain[r]
           demoted == ApplyForwardCooldown(ts)
<1>1. /\ pc[r] = "cooldown" /\ pc'[r] = "walk" /\ chain'[r] = demoted
      /\ at'[r] = at[r] /\ owed'[r] = owed[r] /\ answer'[r] = answer[r]
  BY DEF Cooldown, Typed, Goto, client
<1>2. /\ ts \in Seq(Targets) /\ at[r] = 1 /\ ts # <<>>
      /\ \A u \in owed[r] : Reached(ts, 1, u)
      /\ answer[r] # "pool"
  BY <1>1 DEF Walks, Walked, Placed, Due
<1> HIDE DEF ts
<1>3. cooling \subseteq Upstreams
  BY DEF Walks, Cooled
<1>4. /\ demoted \in Seq(Targets) /\ demoted # <<>>
      /\ \A u \in owed[r] : Reached(demoted, 1, u)
  BY <1>2, <1>3, CooldownHolds
<1> HIDE DEF demoted
<1>5. 1 \in DOMAIN demoted
  BY <1>4
<1> QED
  BY <1>1, <1>2, <1>4, <1>5 DEF Walked, Placed, Due, Settled, Busy

LEMMA FallThroughWalks ==
  ASSUME Typed, Walks, NEW r \in Requests, FallThrough(r)
  PROVE  Walked(r)'
<1>1. /\ pc[r] = "walk" /\ Target(r) = Pool /\ pc'[r] = "done" /\ chain'[r] = <<>>
      /\ owed'[r] = owed[r]
  BY DEF FallThrough, Typed, Returns, Goto
<1>2. owed[r] = {}
  <2> SUFFICES ASSUME NEW u \in owed[r] PROVE FALSE
    OBVIOUS
  <2>1. at[r] \in Nat /\ Reached(chain[r], at[r], u)
    BY <1>1 DEF Walks, Walked, Due, Typed
  <2> QED
    BY <1>1, <2>1 DEF Reached, Target, Walks, Walked, Placed
<1>3. chain'[r] \in Seq(Targets)
  BY <1>1
<1> QED
  BY <1>1, <1>2, <1>3 DEF Walked, Placed, Due, Settled, Busy

LEMMA BeginWalks ==
  ASSUME Typed, Walks, NEW r \in Requests, BeginAttempt(r)
  PROVE  Walked(r)'
<1>1. /\ pc[r] = "walk" /\ Target(r) # Pool /\ pc'[r] = "build" /\ chain'[r] = chain[r]
      /\ at'[r] = at[r] /\ owed'[r] = owed[r] \ {Target(r)} /\ answer'[r] = answer[r]
  BY DEF BeginAttempt, Typed, Walks, Goto, client
<1>2. at[r] \in Nat /\ at[r] \in DOMAIN chain[r] /\ chain[r] \in Seq(Targets) /\ answer[r] # "pool"
  BY <1>1 DEF Walks, Walked, Placed, Due, Typed
<1>3. ASSUME NEW u \in owed[r], u # Target(r) PROVE Reached(chain[r], at[r] + 1, u)
  <2>1. PICK j \in DOMAIN chain[r] :
          j >= at[r] /\ chain[r][j] = u /\ \A i \in at[r] .. j : chain[r][i] # Pool
    BY <1>1 DEF Walks, Walked, Due, Reached
  <2>2. j \in Nat /\ j # at[r]
    BY <1>2, <1>3, <2>1 DEF Target
  <2>3. j >= at[r] + 1 /\ \A i \in at[r] + 1 .. j : i \in at[r] .. j
    BY <1>2, <2>1, <2>2
  <2> QED
    BY <2>1, <2>3 DEF Reached
<1> QED
  BY <1>1, <1>2, <1>3 DEF Walked, Placed, Due, Settled, Busy, Target

LEMMA ReleaseWalks ==
  ASSUME Typed, Walks, NEW r \in Requests, Release(r)
  PROVE  Walked(r)'
<1>1. /\ pc[r] = "release" /\ owed'[r] = owed[r] /\ outcome'[r] = outcome[r]
      /\ chain[r] \in Seq(Targets) /\ at[r] \in DOMAIN chain[r] /\ at[r] \in Nat
      /\ answer[r] # "pool"
      /\ \A u \in owed[r] : Reached(chain[r], at[r] + 1, u)
  BY DEF Release, Walks, Walked, Placed, Due, Busy, Typed
<1>2. CASE /\ MoreTargets(r) /\ at' = [at EXCEPT ![r] = @ + 1] /\ Goto(r, "walk")
           /\ UNCHANGED <<chain, answer>>
  <2>1. at'[r] = at[r] + 1 /\ pc'[r] = "walk" /\ chain'[r] = chain[r] /\ answer'[r] = answer[r]
    BY <1>2 DEF Goto, Typed
  <2>2. at[r] + 1 \in DOMAIN chain[r]
    BY <1>1, <1>2 DEF MoreTargets
  <2> QED
    BY <1>1, <2>1, <2>2 DEF Walked, Placed, Due, Settled, Busy
<1>3. CASE /\ Returns(r)
           /\ \/ answer'[r] = answer[r] /\ outcome[r] # "retry"
              \/ answer'[r] = "failed" /\ (outcome[r] # "retry" \/ ~MoreTargets(r))
              \/ answer'[r] = "abandoned"
  <2>1. pc'[r] = "done" /\ chain'[r] = <<>>
    BY <1>3 DEF Returns, Goto, Typed
  <2>2. chain'[r] \in Seq(Targets)
    BY <2>1
  <2>3. ~MoreTargets(r) => owed[r] = {}
    <3> SUFFICES ASSUME ~MoreTargets(r), NEW u \in owed[r] PROVE FALSE
      OBVIOUS
    <3>1. PICK j \in DOMAIN chain[r] : j >= at[r] + 1
      BY <1>1 DEF Reached
    <3> QED
      BY <1>1, <3>1 DEF MoreTargets
  <2> QED
    BY <1>1, <1>3, <2>1, <2>2, <2>3 DEF Walked, Placed, Due, Settled, Busy
<1> QED
  BY <1>2, <1>3 DEF Release, Ends, Typed

\* Only a provider whose streak is at the threshold is cooled down.
LEMMA RecordCools ==
  ASSUME Typed, Cooled, NEW u \in Upstreams, NEW result \in {"ok", "failed", "canceled"},
         Record(u, result)
  PROVE  Cooled'
<1> USE ThresholdAssumption DEF Typed, Cooled, Record
<1>1. CASE result = "ok"
  BY <1>1
<1>2. CASE result = "canceled"
  BY <1>2
<1>3. CASE result = "failed"
  <2> DEFINE n == IF streak[u] < Threshold THEN streak[u] + 1 ELSE Threshold
  <2>1. /\ streak' = [streak EXCEPT ![u] = n]
        /\ cooling' = cooling \cup (IF n = Threshold THEN {u} ELSE {})
    BY <1>3
  <2>2. \A v \in cooling : v = u => n = Threshold
    OBVIOUS
  <2> HIDE DEF n
  <2> QED
    BY <2>1, <2>2
<1> QED
  BY <1>1, <1>2, <1>3

LEMMA CooledNext == Typed /\ Walks /\ [Next]_vars => Cooled'
<1> SUFFICES ASSUME Typed, Walks, [Next]_vars PROVE Cooled'
  OBVIOUS
<1>1. ASSUME NEW r \in Requests, pc[r] \in Busy PROVE Target(r) \in Upstreams
  BY <1>1 DEF Walks, Walked, Placed, Target, Targets
<1>2. Cooled
  BY DEF Walks
<1>3. ASSUME NEW r \in Requests,
             \/ Resolve(r) \/ Cooldown(r) \/ FallThrough(r) \/ BeginAttempt(r) \/ Send(r)
             \/ Response(r) \/ Release(r) \/ Relay(r) \/ ClientLeaves(r)
      PROVE  Cooled'
  <2>1. UNCHANGED <<streak, cooling>>
    BY <1>3 DEF Resolve, Cooldown, FallThrough, BeginAttempt, Send, Response, Release, Relay,
                ClientLeaves, metrics
  <2> QED
    BY <1>2, <2>1 DEF Cooled
<1>4. ASSUME NEW r \in Requests, CannotBuild(r) \/ NoResponse(r) \/ Withhold(r) \/ EndBody(r)
      PROVE  Cooled'
  <2>1. PICK result \in {"ok", "failed", "canceled"} : Record(Target(r), result)
    BY <1>4 DEF CannotBuild, NoResponse, Withhold, EndBody, RelayWhole, Truncated, TruncatedUnseen,
                RelayBreaks, Failed, Commit
  <2>2. pc[r] \in Busy
    BY <1>4 DEF CannotBuild, NoResponse, Withhold, EndBody, RelayWhole, Truncated, TruncatedUnseen,
                RelayBreaks, Busy
  <2> QED
    BY <1>1, <1>2, <2>1, <2>2, RecordCools
<1>5. ASSUME NEW u \in Upstreams, WindowPasses(u) PROVE Cooled'
  BY <1>2, <1>5 DEF WindowPasses, Cooled
<1>6. CASE ResetStats
  BY <1>2, <1>6 DEF ResetStats, Clear, Cooled, Typed
<1>7. CASE UNCHANGED vars
  BY <1>2, <1>7 DEF vars, metrics, Cooled
<1> QED
  BY <1>3, <1>4, <1>5, <1>6, <1>7 DEF Next, Walk

LEMMA WalksHolds == Spec => []Walks
<1>1. Init => Walks
  <2> SUFFICES ASSUME Init PROVE Walks
    OBVIOUS
  <2>1. Cooled /\ DOMAIN owed = Requests
    BY DEF Init, Cooled
  <2>2. ASSUME NEW r \in Requests PROVE Walked(r)
    <3>1. chain[r] = <<>> /\ at[r] = 1 /\ pc[r] = "arrive" /\ owed[r] = {} /\ answer[r] = "no"
      BY DEF Init
    <3>2. chain[r] \in Seq(Targets)
      BY <3>1
    <3> QED
      BY <3>1, <3>2 DEF Walked, Placed, Due, Settled, Busy
  <2> QED
    BY <2>1, <2>2 DEF Walks
<1>2. Typed /\ Walks /\ [Next]_vars => Walks'
  <2> SUFFICES ASSUME Typed, Walks, [Next]_vars PROVE Walks'
    OBVIOUS
  <2>1. Cooled'
    BY CooledNext
  <2>2. CASE ResetStats \/ UNCHANGED vars \/ \E u \in Upstreams : WindowPasses(u)
    <3>1. UNCHANGED <<pc, chain, at, outcome, answer, owed>>
      BY <2>2 DEF ResetStats, WindowPasses, vars, client
    <3>2. \A r \in Requests : Stays(r)
      BY <3>1 DEF Stays
    <3> QED
      BY <2>1, <3>1, <3>2, StaysKeeps DEF Walks
  <2>3. ASSUME NEW q \in Requests, Walk(q) \/ Relay(q) \/ EndBody(q) \/ ClientLeaves(q)
        PROVE  Walks'
    <3>1. DOMAIN owed' = Requests /\ \A r \in Requests : r # q => Walked(r)'
      BY <2>3, OthersWalkOn, StaysKeeps DEF Walks
    <3>2. Walked(q)'
      <4>1. CASE \/ Send(q) \/ CannotBuild(q) \/ NoResponse(q) \/ Response(q) \/ Withhold(q)
                 \/ Relay(q) \/ EndBody(q) \/ ClientLeaves(q)
        BY <4>1, AttemptStays, StaysKeeps DEF Walks
      <4> QED
        BY <2>3, <4>1, ResolveWalks, CooldownWalks, FallThroughWalks, BeginWalks, ReleaseWalks DEF Walk
    <3> QED
      BY <2>1, <3>1, <3>2 DEF Walks
  <2> QED
    BY <2>2, <2>3 DEF Next
<1> QED
  BY <1>1, <1>2, TypedHolds, PTL DEF Spec

\* Whatever the weights pick and whichever providers are cooling down, the pool answers, or
\* the last failure is reported, only after every enabled upstream ahead of the pool or
\* beside it was tried (orderTargets, applyForwardCooldown, tryForwardUpstream).
THEOREM EveryTargetIsTried == Spec => []NoTargetSkipped
<1>1. Walks => NoTargetSkipped
  BY DEF Walks, Walked, Settled, NoTargetSkipped
<1> QED
  BY <1>1, WalksHolds, PTL

(***************************************************************************)
(* Types                                                                   *)
(***************************************************************************)
Valued ==
  /\ reply \in [Requests -> Replies \cup {NoReply}]
  /\ \A r \in Requests : pc[r] = "body" <=> reply[r] # NoReply
  /\ outcome \in [Requests -> {"none", "retry", "surface", "canceled", "committed"}]
  /\ shown \in [Requests -> SUBSET Nat]
  /\ answer \in [Requests -> {"no", "complete", "failed", "cut", "abandoned", "pool"}]
  /\ gone \in [Requests -> BOOLEAN]

LEMMA ValuedHolds == Spec => []Valued
<1>1. Init => Valued
  BY DEF Init, Valued
<1>2. Typed /\ Valued /\ [Next]_vars => Valued'
  <2> SUFFICES ASSUME Typed, Valued, [Next]_vars PROVE Valued'
    OBVIOUS
  <2> USE DEF Valued, Typed, Goto, Ends, Returns, client
  <2>1. ASSUME NEW r \in Requests, Resolve(r) \/ Cooldown(r) \/ FallThrough(r) PROVE Valued'
    BY <2>1 DEF Resolve, Cooldown, FallThrough
  <2>2. ASSUME NEW r \in Requests, BeginAttempt(r) \/ Send(r) PROVE Valued'
    BY <2>2 DEF BeginAttempt, Send
  <2>3. ASSUME NEW r \in Requests, Response(r) PROVE Valued'
    <3>1. PICK a \in Replies : reply' = [reply EXCEPT ![r] = a]
      BY <2>3 DEF Response
    <3>2. a # NoReply
      BY NoReplyAssumption
    <3> QED
      BY <2>3, <3>1, <3>2 DEF Response
  <2>4. ASSUME NEW r \in Requests, CannotBuild(r) \/ NoResponse(r) \/ Withhold(r) PROVE Valued'
    BY <2>4 DEF CannotBuild, NoResponse, Withhold, Failed
  <2>5. ASSUME NEW r \in Requests PROVE Content(r) \in SUBSET Nat
    BY DEF Content
  <2>6. ASSUME NEW r \in Requests, Relay(r) PROVE Valued'
    BY <2>5, <2>6 DEF Relay
  <2>7. ASSUME NEW r \in Requests, EndBody(r) PROVE Valued'
    <3>1. PICK how \in {"complete", "failed", "cut", "abandoned"} : \E result : Commit(r, result, how)
      BY <2>7 DEF EndBody, RelayWhole, Truncated, TruncatedUnseen, RelayBreaks
    <3>2. shown' = shown \/ shown' = [shown EXCEPT ![r] = @ \cup Content(r)]
      BY <2>7 DEF EndBody, RelayWhole, Truncated, TruncatedUnseen, RelayBreaks
    <3>3. shown' \in [Requests -> SUBSET Nat]
      BY <2>5, <3>2
    <3>4. /\ reply' = [reply EXCEPT ![r] = NoReply] /\ outcome' = [outcome EXCEPT ![r] = "committed"]
          /\ pc' = [pc EXCEPT ![r] = "release"] /\ UNCHANGED gone
      BY <3>1 DEF Commit
    <3>5. answer' = [answer EXCEPT ![r] = how]
      BY <3>1 DEF Commit
    <3>6. answer' \in [Requests -> {"no", "complete", "failed", "cut", "abandoned", "pool"}]
      BY <3>5
    <3>7. \A q \in Requests : pc'[q] = "body" <=> reply'[q] # NoReply
      BY <3>4
    <3> QED
      BY <3>3, <3>4, <3>6, <3>7
  <2>8. ASSUME NEW r \in Requests, Release(r) PROVE Valued'
    BY <2>8 DEF Release
  <2>9. ASSUME NEW r \in Requests, ClientLeaves(r) PROVE Valued'
    BY <2>9 DEF ClientLeaves
  <2>10. CASE ResetStats \/ UNCHANGED vars \/ \E u \in Upstreams : WindowPasses(u)
    BY <2>10 DEF ResetStats, WindowPasses, vars
  <2> QED
    BY <2>1, <2>2, <2>3, <2>4, <2>6, <2>7, <2>8, <2>9, <2>10 DEF Next, Walk
<1> QED
  BY <1>1, <1>2, TypedHolds, PTL DEF Spec

\* Every variable keeps its type; above all, the walk never runs past its chain, which is never
\* empty, and a provider is cooled down only at the threshold (tryForwardUpstream, Record).
THEOREM TypeCorrect == Spec => []TypeOK
<1>1. Typed /\ Walks /\ Valued /\ AllBooked => TypeOK
  <2> SUFFICES ASSUME Typed, Walks, Valued, AllBooked PROVE TypeOK
    OBVIOUS
  <2>1. \A r \in Requests :
          pc[r] \in {"walk", "build", "send", "body", "release"} => at[r] \in DOMAIN chain[r]
    BY DEF Walks, Walked, Placed, Busy
  <2>2. \A r \in Requests : (pc[r] = "body") = (reply[r] # NoReply)
    BY DEF Valued
  <2>3. pc \in [Requests -> {"arrive", "cooldown", "walk", "build", "send", "body", "release", "done"}]
    BY DEF Typed, Busy
  <2> QED
    BY <2>1, <2>2, <2>3 DEF Typed, Walks, Cooled, Valued, AllBooked, TypeOK
<1> QED
  BY <1>1, TypedHolds, WalksHolds, ValuedHolds, AllBookedHolds, PTL

(***************************************************************************)
(* HistoryRepair: folds, which its stages are                              *)
(***************************************************************************)
\* Induction up to n, from nothing.
LEMMA UpFromZero ==
    ASSUME NEW n \in Nat, NEW T \in SUBSET (0 .. n), 0 \in T, \A k \in 1 .. n : k - 1 \in T => k \in T
    PROVE  T = 0 .. n
<1>1. \A k \in 1 .. n : (k = 1 \/ k - 1 \in T \cap (1 .. n)) => k \in T \cap (1 .. n)  OBVIOUS
<1>2. T \cap (1 .. n) = 1 .. n
  <2> DEFINE U == T \cap (1 .. n)
  <2>1. U \in SUBSET (1 .. n)  OBVIOUS
  <2>2. \A k \in 1 .. n : (k = 1 \/ k - 1 \in U) => k \in U  BY <1>1
  <2> HIDE DEF U
  <2>3. U = 1 .. n  BY <2>1, <2>2, UpTo
  <2>4. QED  BY <2>3 DEF U
<1>3. \A k \in 0 .. n : k = 0 \/ k \in 1 .. n  OBVIOUS
<1>4. \A k \in 0 .. n : k \in T  BY <1>2, <1>3
<1>5. QED  BY <1>4

\* A fold over n steps, whose step is the function G, has a value at each step.
Runs(f, b, n, G) == f = [k \in 0 .. n |-> IF k = 0 THEN b ELSE G[<<f[k - 1], k>>]]

\* So the function Fold chooses exists, with values in A.
LEMMA FoldRuns ==
    ASSUME NEW A, NEW b \in A, NEW n \in Nat, NEW G, \A k \in 1 .. n : \A a \in A : G[<<a, k>>] \in A
    PROVE  \E f \in [0 .. n -> A] : Runs(f, b, n, G)
<1> DEFINE T == {k \in 0 .. n : \E f \in [0 .. k -> A] : Runs(f, b, k, G)}
<1>1. 0 \in T
  <2> DEFINE f == [k \in 0 .. 0 |-> b]
  <2>1. f \in [0 .. 0 -> A] /\ Runs(f, b, 0, G)  BY DEF Runs
  <2>2. QED  BY <2>1
<1>2. ASSUME NEW k \in 1 .. n, NEW f \in [0 .. k - 1 -> A], Runs(f, b, k - 1, G)
      PROVE  \E g \in [0 .. k -> A] : Runs(g, b, k, G)
  <2> DEFINE last == G[<<f[k - 1], k>>]
             g == [i \in 0 .. k |-> IF i = k THEN last ELSE f[i]]
  <2>1. f[k - 1] \in A  OBVIOUS
  <2>2. last \in A  BY <2>1
  <2>3. \A i \in 0 .. k - 1 : f[i] = IF i = 0 THEN b ELSE G[<<f[i - 1], i>>]  BY <1>2 DEF Runs
  <2> HIDE DEF last
  <2>4. g \in [0 .. k -> A]  BY <2>2
  <2>5. ASSUME NEW i \in 0 .. k PROVE g[i] = IF i = 0 THEN b ELSE G[<<g[i - 1], i>>]
    <3>1. CASE i = k
      <4>1. g[k] = last /\ g[k - 1] = f[k - 1] /\ k # 0  OBVIOUS
      <4>2. QED  BY <3>1, <4>1 DEF last
    <3>2. CASE i # k
      <4>1. i \in 0 .. k - 1 /\ g[i] = f[i]  BY <3>2
      <4>2. i # 0 => i - 1 \in 0 .. k /\ i - 1 # k  BY <4>1
      <4>3. i # 0 => g[i - 1] = f[i - 1]  BY <4>2
      <4> HIDE DEF g
      <4>4. QED  BY <2>3, <4>1, <4>3
    <3>3. QED  BY <3>1, <3>2
  <2>6. Runs(g, b, k, G)  BY <2>5 DEF Runs
  <2>7. QED  BY <2>4, <2>6
<1>3. \A k \in 1 .. n : k - 1 \in T => k \in T  BY <1>2
<1>4. T \in SUBSET (0 .. n)  OBVIOUS
<1> HIDE DEF T
<1>5. T = 0 .. n  BY <1>1, <1>3, <1>4, UpFromZero
<1>6. n \in T  BY <1>5
<1>7. QED  BY <1>6 DEF T

(*****************************************************************************)
(* Turns                                                                     *)
(*****************************************************************************)
\* Identifiers, and what a turn may say.
Names == Ids \cup SearchIds
Words == Names \cup Texts \cup {"say", "polluted", "image", ".", "Hello", "Continue", "understood", "system",
                                "primed", "elided"}
ResultRows == [id : Names, real : BOOLEAN]
TurnRows == [user : BOOLEAN, text : SUBSET Words, results : Seq(ResultRows), images : BOOLEAN, uses : Seq(Names)]
\* A user makes no calls and an assistant answers none.
Proper == {m \in TurnRows : (m.user => m.uses = <<>>) /\ (~m.user => m.results = <<>>)}

\* prepareKiroConversation goes through the turns one by one.
LEMMA PreparedUnfolds ==
    ASSUME NEW s \in Seq(Proper)
    PROVE  \E f : /\ f[0] = <<>> /\ \A k \in 1 .. Len(s) : f[k] = Prepared(f[k - 1], s[k])
                  /\ Fold(Prepared, <<>>, s) = f[Len(s)]
<1> DEFINE P(f) == f = [k \in 0 .. Len(s) |-> IF k = 0 THEN <<>> ELSE Prepared(f[k - 1], s[k])]
           G == [p \in Seq(Proper) \X (1 .. Len(s)) |-> Prepared(p[1], s[p[2]])]
           h == CHOOSE f : P(f)
<1>1. \A a \in Seq(Proper), k \in 1 .. Len(s) : Prepared(a, s[k]) \in Seq(Proper)
  BY DEF Prepared
<1>2. \A a \in Seq(Proper), k \in 1 .. Len(s) : G[<<a, k>>] = Prepared(a, s[k])  OBVIOUS
<1>3. PICK f \in [0 .. Len(s) -> Seq(Proper)] : Runs(f, <<>>, Len(s), G)
  <2> HIDE DEF G
  <2>1. <<>> \in Seq(Proper) /\ Len(s) \in Nat  OBVIOUS
  <2>2. \A k \in 1 .. Len(s) : \A a \in Seq(Proper) : G[<<a, k>>] \in Seq(Proper)  BY <1>1, <1>2
  <2>3. QED  BY <2>1, <2>2, FoldRuns
<1>4. P(f)
  <2>1. \A k \in 0 .. Len(s) : f[k] = IF k = 0 THEN <<>> ELSE Prepared(f[k - 1], s[k])
    <3>1. ASSUME NEW k \in 0 .. Len(s), k # 0 PROVE G[<<f[k - 1], k>>] = Prepared(f[k - 1], s[k])
      <4>1. k - 1 \in 0 .. Len(s) /\ k \in 1 .. Len(s)  BY <3>1
      <4> HIDE DEF G
      <4>2. QED  BY <1>2, <4>1
    <3> HIDE DEF G
    <3>2. QED  BY <1>3, <3>1 DEF Runs
  <2>2. f = [k \in 0 .. Len(s) |-> f[k]]  BY <1>3
  <2>3. QED  BY <2>1, <2>2
<1>5. P(h)  BY <1>4
<1>6. Fold(Prepared, <<>>, s) = h[Len(s)]  BY DEF Fold
<1> HIDE DEF h
<1>7. QED  BY <1>5, <1>6

\* A turn is not empty; it tells of the result of a call.
Says(m) == m.text # {} \/ m.results # <<>>
ToldBy(m, id) == m.user /\ (id \in m.text \/ Result(id) \in Elements(m.results))
Heard(s, id) == \E i \in DOMAIN s : ToldBy(s[i], id)
CallsOf(s) == UNION {UseIds(s[i]) : i \in DOMAIN s}
CallsTo(s, k) == UNION {UseIds(s[i]) : i \in 1 .. k}
\* No identifier is used by two calls.
OnceIn(m) == \A a, b \in DOMAIN m.uses : m.uses[a] = m.uses[b] => a = b
Once(s) == \A i \in DOMAIN s : OnceIn(s[i]) /\ \A j \in DOMAIN s : i # j => UseIds(s[i]) \cap UseIds(s[j]) = {}
\* The first user turn says something, and so does one with images.
NoneBefore(s, i) == \A j \in 1 .. i - 1 : ~s[j].user
Speaking(s) == \A i \in DOMAIN s : s[i].user /\ (s[i].images \/ NoneBefore(s, i)) => Says(s[i])
\* The cleanup has nothing to do to the turn.
Neat(m) == ~Hollow(m) /\ (~m.user => "polluted" \notin m.text)

\* What a sequence is with one more element.
LEMMA AppendFacts ==
    ASSUME NEW T, NEW s \in Seq(T), NEW m \in T
    PROVE  /\ Append(s, m) \in Seq(T) /\ Len(Append(s, m)) = Len(s) + 1 /\ DOMAIN Append(s, m) = 1 .. Len(s) + 1
           /\ \A i \in DOMAIN s : i \in DOMAIN Append(s, m) /\ Append(s, m)[i] = s[i]
           /\ Append(s, m)[Len(s) + 1] = m /\ DOMAIN s = 1 .. Len(s) /\ Len(s) \in Nat
           /\ \A i \in DOMAIN Append(s, m) : i \in DOMAIN s \/ i = Len(s) + 1
OBVIOUS

\* What one more turn adds to the calls, to what is told, and to their being used once.
LEMMA AppendedTurn ==
    ASSUME NEW s \in Seq(Proper), NEW m \in Proper
    PROVE  /\ CallsOf(Append(s, m)) = CallsOf(s) \cup UseIds(m)
           /\ \A id : Heard(Append(s, m), id) <=> Heard(s, id) \/ ToldBy(m, id)
           /\ Once(s) /\ OnceIn(m) /\ CallsOf(s) \cap UseIds(m) = {} => Once(Append(s, m))
<1> DEFINE t == Append(s, m)
<1>1. /\ DOMAIN t = 1 .. Len(s) + 1 /\ \A i \in DOMAIN s : i \in DOMAIN t /\ t[i] = s[i]
      /\ t[Len(s) + 1] = m /\ Len(s) + 1 \in DOMAIN t
      /\ \A i \in DOMAIN t : i \in DOMAIN s \/ i = Len(s) + 1
    BY AppendFacts
<1> HIDE DEF t
<1>2. CallsOf(t) = CallsOf(s) \cup UseIds(m)
  <2>1. \A x : x \in CallsOf(t) <=> \E i \in DOMAIN t : x \in UseIds(t[i])  BY DEF CallsOf
  <2>2. \A x : x \in CallsOf(s) <=> \E i \in DOMAIN s : x \in UseIds(s[i])  BY DEF CallsOf
  <2>3. \A x : x \in CallsOf(t) <=> x \in CallsOf(s) \/ x \in UseIds(m)  BY <1>1, <2>1, <2>2
  <2>4. QED  BY <2>3
<1>3. \A id : Heard(t, id) <=> Heard(s, id) \/ ToldBy(m, id)  BY <1>1 DEF Heard
<1>4. ASSUME Once(s), OnceIn(m), CallsOf(s) \cap UseIds(m) = {} PROVE Once(t)
  <2>1. \A i \in DOMAIN s : UseIds(s[i]) \cap UseIds(m) = {}  BY <1>4 DEF CallsOf
  <2>2. QED  BY <1>1, <1>4, <2>1 DEF Once
<1>5. QED  BY <1>2, <1>3, <1>4 DEF t

\* The calls of the first k turns, one turn at a time,
LEMMA CallsToNext ==
    ASSUME NEW s \in Seq(Proper), NEW k \in 1 .. Len(s)
    PROVE  CallsTo(s, k) = CallsTo(s, k - 1) \cup UseIds(s[k])
<1>1. \A i \in 1 .. k : i \in 1 .. k - 1 \/ i = k  OBVIOUS
<1>2. \A i \in 1 .. k - 1 : i \in 1 .. k  OBVIOUS
<1>3. k \in 1 .. k  OBVIOUS
<1>4. \A x : x \in CallsTo(s, k) <=> x \in CallsTo(s, k - 1) \/ x \in UseIds(s[k])
    BY <1>1, <1>2, <1>3 DEF CallsTo
<1>5. QED  BY <1>4

\* and all of them.
LEMMA CallsToAll == ASSUME NEW s \in Seq(Proper) PROVE CallsTo(s, Len(s)) = CallsOf(s) /\ CallsTo(s, 0) = {}
<1>1. DOMAIN s = 1 .. Len(s) /\ 1 .. 0 = {}  OBVIOUS
<1>2. QED  BY <1>1 DEF CallsTo, CallsOf

\* A turn makes no call that was made before it.
LEMMA OnceNext ==
    ASSUME NEW s \in Seq(Proper), NEW k \in 1 .. Len(s), Once(s)
    PROVE  OnceIn(s[k]) /\ CallsTo(s, k - 1) \cap UseIds(s[k]) = {}
<1>1. \A i \in 1 .. k - 1 : i \in DOMAIN s /\ i # k  OBVIOUS
<1>2. k \in DOMAIN s  OBVIOUS
<1>3. QED  BY <1>1, <1>2 DEF Once, CallsTo

(*****************************************************************************)
(* Cleanup before the repair                                                 *)
(*****************************************************************************)
\* Scrubbing takes nothing from a turn but an assistant's polluted text.
LEMMA ScrubbedTurn ==
    ASSUME NEW m \in Proper
    PROVE  /\ Scrubbed(m) \in Proper /\ Scrubbed(m).user = m.user /\ Scrubbed(m).uses = m.uses
           /\ Scrubbed(m).results = m.results /\ Scrubbed(m).images = m.images
           /\ (m.user => Scrubbed(m) = m) /\ (~m.user => "polluted" \notin Scrubbed(m).text)
BY DEF Scrubbed, Proper, TurnRows

\* What the cleanup leaves of the first k turns.
CleanTo(s, k, out) ==
    /\ out \in Seq(Proper) /\ \A i \in DOMAIN out : ~Hollow(out[i]) /\ \E j \in DOMAIN s : out[i] = s[j]
    /\ CallsOf(out) = CallsTo(s, k) /\ (Once(s) => Once(out))
    /\ \A i \in 1 .. k : \A id : ToldBy(s[i], id) => Heard(out, id)
    /\ NoneBefore(s, k + 1) <=> \A i \in DOMAIN out : ~out[i].user
    /\ Speaking(s) => Speaking(out)

\* The next turn is kept, or loses nothing by going.
LEMMA CleanNext ==
    ASSUME NEW s \in Seq(Proper), NEW k \in 1 .. Len(s), NEW out, CleanTo(s, k - 1, out)
    PROVE  CleanTo(s, k, Prepared(out, s[k]))
<1> DEFINE m == s[k]
<1>0. m \in Proper /\ k \in DOMAIN s /\ Len(s) \in Nat /\ k - 1 + 1 = k  OBVIOUS
<1>1. CallsTo(s, k) = CallsTo(s, k - 1) \cup UseIds(m)  BY CallsToNext
<1>2. Once(s) => OnceIn(m) /\ CallsTo(s, k - 1) \cap UseIds(m) = {}  BY OnceNext
<1>3. \A i \in 1 .. k : i \in 1 .. k - 1 \/ i = k  OBVIOUS
<1>4. NoneBefore(s, k + 1) <=> NoneBefore(s, k) /\ ~m.user
  <2>1. \A i : i \in 1 .. k + 1 - 1 <=> i \in 1 .. k - 1 \/ i = k  OBVIOUS
  <2>2. QED  BY <2>1 DEF NoneBefore
<1> HIDE DEF m
<1>5. CASE Hollow(m) \/ Repeats(out, m)
  <2>1. Prepared(out, m) = out  BY <1>5 DEF Prepared
  <2>2. UseIds(m) = {}  
    <3>1. m.uses = <<>>  BY <1>0, <1>5 DEF Hollow, Repeats, Proper
    <3>2. QED  BY <3>1 DEF UseIds, Elements
  <2>3. ASSUME NEW id, ToldBy(m, id) PROVE Heard(out, id)
    <3>1. CASE Hollow(m)  BY <2>3, <3>1 DEF Hollow, ToldBy
    <3>2. CASE Repeats(out, m)
      <4>1. id \in m.text  BY <2>3, <3>2 DEF Repeats, ToldBy, Elements
      <4>2. Len(out) \in DOMAIN out  BY <3>2 DEF Repeats, CleanTo, Last
      <4>3. ToldBy(out[Len(out)], id)  BY <3>2, <4>1 DEF Repeats, ToldBy, Last
      <4>4. QED  BY <4>2, <4>3 DEF Heard
    <3>3. QED  BY <1>5, <3>1, <3>2
  <2>4. CallsTo(s, k) = CallsTo(s, k - 1)  BY <1>1, <2>2
  <2>5. NoneBefore(s, k + 1) <=> \A i \in DOMAIN out : ~out[i].user
    <3>1. CASE Hollow(m)  BY <1>0, <1>4, <3>1 DEF CleanTo, Hollow
    <3>2. CASE Repeats(out, m)
      <4>1. Len(out) \in DOMAIN out /\ out[Len(out)].user  BY <3>2 DEF Repeats, CleanTo, Last
      <4>2. QED  BY <1>0, <1>4, <3>2, <4>1 DEF CleanTo, Repeats
    <3>3. QED  BY <1>5, <3>1, <3>2
  <2>6. QED  BY <1>0, <1>3, <2>1, <2>3, <2>4, <2>5 DEF CleanTo, m
<1>6. CASE ~(Hollow(m) \/ Repeats(out, m))
  <2> DEFINE t == Append(out, m)
  <2>1. Prepared(out, m) = t  BY <1>6 DEF Prepared
  <2>2. /\ t \in Seq(Proper) /\ \A i \in DOMAIN out : i \in DOMAIN t /\ t[i] = out[i]
        /\ t[Len(out) + 1] = m /\ Len(out) + 1 \in DOMAIN t /\ DOMAIN out = 1 .. Len(out) /\ Len(out) \in Nat
        /\ \A i \in DOMAIN t : i \in DOMAIN out \/ i = Len(out) + 1
    BY <1>0, AppendFacts DEF CleanTo
  <2>3. /\ CallsOf(t) = CallsOf(out) \cup UseIds(m)
        /\ \A id : Heard(t, id) <=> Heard(out, id) \/ ToldBy(m, id)
        /\ Once(out) /\ OnceIn(m) /\ CallsOf(out) \cap UseIds(m) = {} => Once(t)
    BY <1>0, AppendedTurn DEF CleanTo
  <2> HIDE DEF t
  <2>4. CallsOf(t) = CallsTo(s, k) /\ (Once(s) => Once(t))  BY <1>1, <1>2, <2>3 DEF CleanTo
  <2>5. \A i \in DOMAIN t : ~Hollow(t[i]) /\ \E j \in DOMAIN s : t[i] = s[j]
    <3>1. m = s[k]  BY DEF m
    <3>2. QED  BY <1>0, <1>6, <2>2, <3>1 DEF CleanTo
  <2>6. \A i \in 1 .. k : \A id : ToldBy(s[i], id) => Heard(t, id)
    <3>1. m = s[k]  BY DEF m
    <3>2. QED  BY <1>3, <2>3, <3>1 DEF CleanTo
  <2>7. NoneBefore(s, k + 1) <=> \A i \in DOMAIN t : ~t[i].user  BY <1>0, <1>4, <2>2 DEF CleanTo
  <2>8. ASSUME Speaking(s) PROVE Speaking(t)
    <3>1. ASSUME NEW i \in DOMAIN t, t[i].user, t[i].images \/ NoneBefore(t, i) PROVE Says(t[i])
      <4>1. CASE i \in DOMAIN out
        <5>1. t[i] = out[i] /\ \A j \in 1 .. i - 1 : t[j] = out[j]  BY <2>2, <4>1
        <5>2. out[i].images \/ NoneBefore(out, i)  BY <3>1, <5>1 DEF NoneBefore
        <5>3. QED  BY <2>8, <3>1, <4>1, <5>1, <5>2 DEF CleanTo, Speaking
      <4>2. CASE i = Len(out) + 1
        <5>1. t[i] = m /\ m = s[k]  BY <2>2, <4>2 DEF m
        <5>2. CASE m.images  BY <1>0, <2>8, <3>1, <5>1, <5>2 DEF Speaking
        <5>3. CASE NoneBefore(t, i)
          <6>1. \A j \in DOMAIN out : ~out[j].user  BY <2>2, <4>2, <5>3 DEF NoneBefore
          <6>2. NoneBefore(s, k)  BY <1>0, <6>1 DEF CleanTo
          <6>3. QED  BY <1>0, <2>8, <3>1, <5>1, <6>2 DEF Speaking
        <5>4. QED  BY <3>1, <5>1, <5>2, <5>3
      <4>3. QED  BY <2>2, <4>1, <4>2
    <3>2. QED  BY <3>1 DEF Speaking
  <2>9. QED  BY <1>0, <2>1, <2>2, <2>4, <2>5, <2>6, <2>7, <2>8 DEF CleanTo, m
<1>7. QED  BY <1>5, <1>6 DEF m

Cleansed(m) == m \in Proper /\ Neat(m)

\* The cleanup loses no call and nothing that was answered.
LEMMA Cleaned ==
    ASSUME NEW s \in Seq(Proper)
    PROVE  LET t == prepareKiroConversation(s)
           IN  /\ t \in Seq(Proper) /\ \A i \in DOMAIN t : Neat(t[i])
               /\ CallsOf(t) = CallsOf(s) /\ (Once(s) => Once(t)) /\ (Speaking(s) => Speaking(t))
               /\ \A id : Heard(s, id) => Heard(t, id)
<1> DEFINE c == MapSeq(s, Scrubbed)
           t == prepareKiroConversation(s)
<1>1. DOMAIN c = DOMAIN s /\ Len(s) \in Nat /\ DOMAIN s = 1 .. Len(s) /\ \A i \in DOMAIN s : c[i] = Scrubbed(s[i]) /\ s[i] \in Proper
    BY DEF MapSeq
<1>a. \A i \in DOMAIN s : /\ c[i].uses = s[i].uses /\ c[i].user = s[i].user /\ c[i].results = s[i].results
                          /\ c[i].images = s[i].images /\ (s[i].user => c[i] = s[i])
                          /\ (~s[i].user => "polluted" \notin c[i].text)
  <2> TAKE i \in DOMAIN s
  <2>1. s[i] \in Proper /\ c[i] = Scrubbed(s[i])  BY <1>1
  <2> HIDE DEF c
  <2>2. QED  BY <2>1, ScrubbedTurn
<1>2. c \in Seq(Proper) /\ Len(c) = Len(s)
  <2>1. c = [i \in 1 .. Len(s) |-> Scrubbed(s[i])]  BY <1>1 DEF MapSeq
  <2>2. \A i \in 1 .. Len(s) : Scrubbed(s[i]) \in Proper  BY <1>1, ScrubbedTurn
  <2> HIDE DEF c
  <2>3. QED  BY <1>1, <2>1, <2>2
<1>3. t = Fold(Prepared, <<>>, c)  BY DEF prepareKiroConversation
<1> HIDE DEF c, t
<1>4. PICK f : /\ f[0] = <<>> /\ \A k \in 1 .. Len(c) : f[k] = Prepared(f[k - 1], c[k])
               /\ Fold(Prepared, <<>>, c) = f[Len(c)]
    BY <1>2, PreparedUnfolds
<1>5. CleanTo(c, 0, <<>>)
  <2>1. <<>> \in Seq(Proper) /\ DOMAIN <<>> = {} /\ 1 .. 0 = {} /\ 1 .. 0 + 1 - 1 = {}  OBVIOUS
  <2>2. CallsOf(<<>>) = {} /\ CallsTo(c, 0) = {}  BY <2>1 DEF CallsOf, CallsTo
  <2>3. QED  BY <2>1, <2>2 DEF CleanTo, Once, Speaking, NoneBefore
<1>6. CleanTo(c, Len(c), t)
  <2> DEFINE T == {k \in 0 .. Len(c) : CleanTo(c, k, f[k])}
  <2>1. T \in SUBSET (0 .. Len(c)) /\ Len(c) \in Nat  BY <1>2
  <2>2. 0 \in T  BY <1>4, <1>5, <1>2
  <2>3. ASSUME NEW k \in 1 .. Len(c), k - 1 \in T PROVE k \in T
    <3>1. CleanTo(c, k, Prepared(f[k - 1], c[k]))  BY <1>2, <2>3, CleanNext
    <3>2. QED  BY <1>4, <3>1
  <2> HIDE DEF T
  <2>4. T = 0 .. Len(c)  BY <2>1, <2>2, <2>3, UpFromZero
  <2>5. Len(c) \in T  BY <2>1, <2>4
  <2>6. QED  BY <1>3, <1>4, <2>5 DEF T
<1>7. CallsOf(c) = CallsOf(s) /\ (Once(s) => Once(c)) /\ (Speaking(s) => Speaking(c))
  <2>1. \A i \in DOMAIN s : c[i].user = s[i].user  BY <1>a
  <2>2. \A i \in DOMAIN s : UseIds(c[i]) = UseIds(s[i]) /\ (OnceIn(c[i]) <=> OnceIn(s[i]))
      BY <1>a DEF UseIds, OnceIn
  <2>3. CallsOf(c) = CallsOf(s)  BY <1>1, <2>2 DEF CallsOf
  <2>4. Once(s) => Once(c)  BY <1>1, <2>2 DEF Once
  <2>5. ASSUME Speaking(s), NEW i \in DOMAIN c, c[i].user, c[i].images \/ NoneBefore(c, i) PROVE Says(c[i])
    <3>1. i \in DOMAIN s /\ c[i] = s[i] /\ s[i].user  BY <1>1, <1>a, <2>5
    <3>2. NoneBefore(c, i) => NoneBefore(s, i)
      <4>1. \A j \in 1 .. i - 1 : j \in DOMAIN s  BY <1>1, <3>1
      <4>2. QED  BY <2>1, <4>1 DEF NoneBefore
    <3>3. QED  BY <2>5, <3>1, <3>2 DEF Speaking
  <2>6. QED  BY <2>3, <2>4, <2>5 DEF Speaking
<1>8. \A id : Heard(s, id) => Heard(t, id)
  <2>1. \A i \in DOMAIN s : \A id : ToldBy(s[i], id) => i \in 1 .. Len(c) /\ ToldBy(c[i], id)
      BY <1>1, <1>2, <1>a DEF ToldBy
  <2>2. QED  BY <1>6, <2>1 DEF CleanTo, Heard
<1>9. \A i \in DOMAIN t : Neat(t[i])
  <2>1. \A j \in DOMAIN c : ~c[j].user => "polluted" \notin c[j].text  BY <1>1, <1>a
  <2>2. QED  BY <1>6, <2>1 DEF CleanTo, Neat
<1>10. CallsTo(c, Len(c)) = CallsOf(c)  BY <1>2, CallsToAll
<1>11. QED  BY <1>6, <1>7, <1>8, <1>9, <1>10 DEF CleanTo, t

\* out has elements of the first k of s, in their order: the i-th is the g[i]-th.
Picks(out, s, k, g) ==
    /\ g \in [DOMAIN out -> 1 .. k] /\ \A a \in DOMAIN out : out[a] = s[g[a]]
    /\ \A a, b \in DOMAIN out : a < b => g[a] < g[b]
Takes(g, j) == \E a \in DOMAIN g : g[a] = j

\* The selection h takes the k-th as well as what g takes.
TakesToo(s, k, g, out, h) == Picks(out, s, k, h) /\ \A j : Takes(h, j) <=> Takes(g, j) \/ j = k

\* A selection of the first k - 1 is one of the first k, without the k-th or with it.
LEMMA PicksNext ==
    ASSUME NEW T, NEW s \in Seq(T), NEW k \in 1 .. Len(s), NEW out \in Seq(T), NEW g, Picks(out, s, k - 1, g)
    PROVE  Picks(out, s, k, g) /\ \E h : TakesToo(s, k, g, Append(out, s[k]), h)
<1> DEFINE m == s[k]
           t == Append(out, m)
           h == [a \in 1 .. Len(out) + 1 |-> IF a = Len(out) + 1 THEN k ELSE g[a]]
<1>0. m \in T  OBVIOUS
<1>1. /\ \A a \in DOMAIN out : a \in DOMAIN t /\ t[a] = out[a]
      /\ t[Len(out) + 1] = m /\ DOMAIN t = 1 .. Len(out) + 1 /\ DOMAIN out = 1 .. Len(out) /\ Len(out) \in Nat
    BY <1>0, AppendFacts
<1>2. g \in [DOMAIN out -> 1 .. k - 1] /\ 1 .. k - 1 \subseteq 1 .. k /\ k \in 1 .. k  BY DEF Picks
<1>3. Picks(out, s, k, g)  BY <1>2 DEF Picks
<1> HIDE DEF t
<1>4. /\ DOMAIN h = 1 .. Len(out) + 1 /\ h[Len(out) + 1] = k /\ Len(out) + 1 \in DOMAIN h
      /\ \A a \in DOMAIN out : a \in DOMAIN h /\ h[a] = g[a] /\ g[a] \in 1 .. k - 1
    BY <1>1, <1>2
<1>5. h \in [DOMAIN t -> 1 .. k]
  <2>1. \A a \in 1 .. Len(out) + 1 : h[a] \in 1 .. k  BY <1>1, <1>2, <1>4
  <2>2. QED  BY <1>1, <2>1
<1>6. \A a \in DOMAIN t : a \in DOMAIN out \/ a = Len(out) + 1  BY <1>1
<1> HIDE DEF h
<1>7. \A a \in DOMAIN t : t[a] = s[h[a]]  BY <1>1, <1>4, <1>6 DEF Picks, m
<1>8. \A a, b \in DOMAIN t : a < b => h[a] < h[b]
  <2> SUFFICES ASSUME NEW a \in DOMAIN t, NEW b \in DOMAIN t, a < b PROVE h[a] < h[b]  OBVIOUS
  <2>1. a \in DOMAIN out /\ g[a] \in 1 .. k - 1 /\ h[a] = g[a]  BY <1>1, <1>4, <1>6
  <2>2. CASE b \in DOMAIN out  BY <1>4, <2>1, <2>2 DEF Picks
  <2>3. CASE b = Len(out) + 1  BY <1>4, <2>1, <2>3
  <2>4. QED  BY <1>6, <2>2, <2>3
<1>9. Picks(t, s, k, h)  BY <1>5, <1>7, <1>8 DEF Picks
<1>10. \A j : Takes(h, j) <=> Takes(g, j) \/ j = k
  <2>1. DOMAIN g = DOMAIN out  BY <1>2
  <2>2. \A a \in DOMAIN h : a \in DOMAIN out \/ a = Len(out) + 1  BY <1>1, <1>4
  <2>3. QED  BY <1>4, <2>1, <2>2 DEF Takes
<1>11. TakesToo(s, k, g, t, h)  BY <1>9, <1>10 DEF TakesToo
<1>12. QED  BY <1>3, <1>11 DEF t, m

PickOne(s, S, out, k) == IF k \in S THEN Append(out, s[k]) ELSE out

\* At goes through the elements one by one.
LEMMA AtUnfolds ==
    ASSUME NEW T, NEW s \in Seq(T), NEW S
    PROVE  \E f : /\ f[0] = <<>> /\ \A k \in 1 .. Len(s) : f[k] = PickOne(s, S, f[k - 1], k)
                  /\ At(s, S) = f[Len(s)]
<1> DEFINE P(f) == f = [k \in 0 .. Len(s) |-> IF k = 0 THEN <<>> ELSE PickOne(s, S, f[k - 1], k)]
           G == [p \in Seq(T) \X (1 .. Len(s)) |-> PickOne(s, S, p[1], p[2])]
           h == CHOOSE f : P(f)
<1>1. \A a \in Seq(T), k \in 1 .. Len(s) : PickOne(s, S, a, k) \in Seq(T)
  BY DEF PickOne
<1>2. \A a \in Seq(T), k \in 1 .. Len(s) : G[<<a, k>>] = PickOne(s, S, a, k)  OBVIOUS
<1>3. PICK f \in [0 .. Len(s) -> Seq(T)] : Runs(f, <<>>, Len(s), G)
  <2> HIDE DEF G
  <2>1. <<>> \in Seq(T) /\ Len(s) \in Nat  OBVIOUS
  <2>2. \A k \in 1 .. Len(s) : \A a \in Seq(T) : G[<<a, k>>] \in Seq(T)  BY <1>1, <1>2
  <2>3. QED  BY <2>1, <2>2, FoldRuns
<1>4. P(f)
  <2>1. \A k \in 0 .. Len(s) : f[k] = IF k = 0 THEN <<>> ELSE PickOne(s, S, f[k - 1], k)
    <3>1. ASSUME NEW k \in 0 .. Len(s), k # 0 PROVE G[<<f[k - 1], k>>] = PickOne(s, S, f[k - 1], k)
      <4>1. k - 1 \in 0 .. Len(s) /\ k \in 1 .. Len(s)  BY <3>1
      <4> HIDE DEF G
      <4>2. QED  BY <1>2, <4>1
    <3> HIDE DEF G
    <3>2. QED  BY <1>3, <3>1 DEF Runs
  <2>2. f = [k \in 0 .. Len(s) |-> f[k]]  BY <1>3
  <2>3. QED  BY <2>1, <2>2
<1>5. P(h)  BY <1>4
<1>6. At(s, S) = h[Len(s)]
  <2>1. Len(Indices(s)) = Len(s) /\ \A k \in 1 .. Len(s) : Indices(s)[k] = k  BY DEF Indices
  <2> DEFINE Q(g) == g = [k \in 0 .. Len(Indices(s)) |->
                            IF k = 0 THEN <<>> ELSE (IF Indices(s)[k] \in S THEN Append(g[k - 1], s[Indices(s)[k]]) ELSE g[k - 1])]
  <2>2. At(s, S) = (CHOOSE g : Q(g))[Len(Indices(s))]  BY DEF At, Fold
  <2>3. \A g : Q(g) <=> P(g)
    <3> TAKE g
    <3>1. \A k \in 0 .. Len(s) : (IF k = 0 THEN <<>> ELSE (IF Indices(s)[k] \in S THEN Append(g[k - 1], s[Indices(s)[k]]) ELSE g[k - 1]))
                                = IF k = 0 THEN <<>> ELSE PickOne(s, S, g[k - 1], k)
      BY <2>1 DEF PickOne
    <3>2. QED  BY <2>1, <3>1
  <2> HIDE DEF P, Q
  <2>4. (CHOOSE g : Q(g)) = (CHOOSE g : P(g))  BY <2>3
  <2>5. QED  BY <2>1, <2>2, <2>4
<1> HIDE DEF h
<1>7. \A k \in 0 .. Len(s) : h[k] = IF k = 0 THEN <<>> ELSE PickOne(s, S, h[k - 1], k)  BY <1>5
<1>8. Len(s) \in Nat /\ \A k \in 1 .. Len(s) : k \in 0 .. Len(s) /\ k # 0  OBVIOUS
<1>9. h[0] = <<>> /\ \A k \in 1 .. Len(s) : h[k] = PickOne(s, S, h[k - 1], k)
  <2> HIDE DEF P
  <2>1. QED  BY <1>7, <1>8
<1> HIDE DEF P, G
<1>10. QED  BY <1>6, <1>9

\* A selection keeps what it is told to, in order.
LEMMA AtPicks ==
    ASSUME NEW T, NEW s \in Seq(T), NEW S
    PROVE  At(s, S) \in Seq(T) /\ \E g : /\ Picks(At(s, S), s, Len(s), g)
                                         /\ \A j \in 1 .. Len(s) : Takes(g, j) <=> j \in S
<1>1. PICK f : /\ f[0] = <<>> /\ \A k \in 1 .. Len(s) : f[k] = PickOne(s, S, f[k - 1], k)
               /\ At(s, S) = f[Len(s)]
    BY AtUnfolds
<1> DEFINE Good(k) == f[k] \in Seq(T) /\ \E g : Picks(f[k], s, k, g) /\ (\A j \in 1 .. k : Takes(g, j) <=> j \in S)
           U == {k \in 0 .. Len(s) : Good(k)}
<1>2. Good(0)
  <2>1. <<>> \in Seq(T) /\ DOMAIN <<>> = {} /\ 1 .. 0 = {}  OBVIOUS
  <2>2. Picks(<<>>, s, 0, <<>>)  BY <2>1 DEF Picks
  <2>3. QED  BY <1>1, <2>1, <2>2
<1>3. ASSUME NEW k \in 1 .. Len(s), Good(k - 1) PROVE Good(k)
  <2>1. PICK g : Picks(f[k - 1], s, k - 1, g) /\ (\A j \in 1 .. k - 1 : Takes(g, j) <=> j \in S)
    BY <1>3
  <2>2. f[k] = PickOne(s, S, f[k - 1], k) /\ f[k - 1] \in Seq(T)  BY <1>1, <1>3
  <2>3. \A j \in 1 .. k : j \in 1 .. k - 1 \/ j = k  OBVIOUS
  <2>4. ~Takes(g, k)  BY <2>1 DEF Takes, Picks
  <2>5. CASE k \notin S
    <3>1. f[k] = f[k - 1]  BY <2>2, <2>5 DEF PickOne
    <3>2. Picks(f[k - 1], s, k, g)  BY <2>1, <2>2, PicksNext
    <3>3. \A j \in 1 .. k : Takes(g, j) <=> j \in S  BY <2>1, <2>3, <2>4, <2>5
    <3>4. QED  BY <2>1, <2>2, <3>1, <3>2, <3>3
  <2>6. CASE k \in S
    <3>1. f[k] = Append(f[k - 1], s[k])  BY <2>2, <2>6 DEF PickOne
    <3>2. PICK h : Picks(Append(f[k - 1], s[k]), s, k, h) /\ \A j : Takes(h, j) <=> Takes(g, j) \/ j = k
      <4> DEFINE out == f[k - 1]
      <4>1. out \in Seq(T) /\ Picks(out, s, k - 1, g)  BY <2>1, <2>2
      <4> HIDE DEF Good, U, out
      <4>2. \E h : TakesToo(s, k, g, Append(out, s[k]), h)  BY <4>1, PicksNext
      <4>3. QED  BY <4>2 DEF out, TakesToo
    <3>3. \A j \in 1 .. k : Takes(h, j) <=> j \in S  BY <2>1, <2>3, <2>6, <3>2
    <3>4. f[k] \in Seq(T)  BY <2>2, <3>1
    <3>5. QED  BY <3>1, <3>2, <3>3, <3>4
  <2>7. QED  BY <2>5, <2>6
<1>4. U \in SUBSET (0 .. Len(s)) /\ 0 \in U /\ Len(s) \in Nat /\ \A k \in 1 .. Len(s) : k - 1 \in U => k \in U
  <2>1. 0 \in 0 .. Len(s) /\ \A k \in 1 .. Len(s) : k \in 0 .. Len(s)  OBVIOUS
  <2> HIDE DEF Good
  <2>2. QED  BY <1>2, <1>3, <2>1
<1> HIDE DEF U
<1>5. U = 0 .. Len(s)  BY <1>4, UpFromZero
<1>6. Good(Len(s))
  <2>1. Len(s) \in U  BY <1>4, <1>5
  <2> HIDE DEF Good
  <2>2. QED  BY <2>1 DEF U
<1>7. QED  BY <1>1, <1>6

\* All of it is what is left when nothing is left out.
LEMMA AtAll ==
    ASSUME NEW T, NEW s \in Seq(T), NEW S, \A k \in 1 .. Len(s) : k \in S
    PROVE  At(s, S) = s
<1>1. PICK f : /\ f[0] = <<>> /\ \A k \in 1 .. Len(s) : f[k] = PickOne(s, S, f[k - 1], k)
               /\ At(s, S) = f[Len(s)]
    BY AtUnfolds
<1> DEFINE U == {k \in 0 .. Len(s) : f[k] = SubSeq(s, 1, k)}
<1>2. 0 \in U
  <2>1. SubSeq(s, 1, 0) = <<>> /\ 0 \in 0 .. Len(s)  OBVIOUS
  <2>2. QED  BY <1>1, <2>1
<1>3. ASSUME NEW k \in 1 .. Len(s), k - 1 \in U PROVE k \in U
  <2>1. f[k] = Append(SubSeq(s, 1, k - 1), s[k])  BY <1>1, <1>3 DEF PickOne
  <2>2. Append(SubSeq(s, 1, k - 1), s[k]) = SubSeq(s, 1, k)  OBVIOUS
  <2>3. k \in 0 .. Len(s)  OBVIOUS
  <2>4. QED  BY <2>1, <2>2, <2>3
<1>4. U \in SUBSET (0 .. Len(s)) /\ Len(s) \in Nat  OBVIOUS
<1> HIDE DEF U
<1>5. U = 0 .. Len(s)  BY <1>2, <1>3, <1>4, UpFromZero
<1>6. Len(s) \in U  BY <1>4, <1>5
<1>7. SubSeq(s, 1, Len(s)) = s  OBVIOUS
<1>8. QED  BY <1>1, <1>6, <1>7 DEF U

AnswersOf(s) == UNION {ResultIds(s[i]) : i \in DOMAIN s}

\* The turn r answers the calls of one turn before it, and no other turn answers any of them.
PartnersAt(s, r, i, j) ==
    /\ i \in DOMAIN s /\ j \in DOMAIN s /\ i < j /\ s[j] = r /\ UseIds(s[i]) = ResultIds(r) /\ ResultIds(r) # {}
    /\ \A k \in DOMAIN s : k # j => ResultIds(s[k]) \cap ResultIds(r) = {}
Partners(s, r) == \E i, j \in DOMAIN s : PartnersAt(s, r, i, j)
EndsWith(s, a, r) == Len(s) >= 2 /\ s[Len(s) - 1] = a /\ s[Len(s)] = r

\* Only the empty sequence has no index.
LEMMA EmptyDomain == ASSUME NEW T, NEW s \in Seq(T) PROVE s = <<>> <=> DOMAIN s = {}
<1>1. ASSUME DOMAIN s = {} PROVE s = <<>>
  <2>1. Len(s) \in Nat /\ DOMAIN s = 1 .. Len(s)  OBVIOUS
  <2>2. Len(s) = 0
    <3>1. ~(1 <= Len(s))
      <4>1. 1 <= Len(s) => 1 \in 1 .. Len(s)  BY <2>1
      <4>2. QED  BY <1>1, <2>1, <4>1
    <3>2. QED  BY <2>1, <3>1
  <2>3. QED  BY <2>2
<1>2. DOMAIN <<>> = {}  OBVIOUS
<1>3. QED  BY <1>1, <1>2

\* A turn without calls, or results, names none.
LEMMA NoCalls == ASSUME NEW m \in Proper PROVE /\ m.uses = <<>> <=> UseIds(m) = {}
                                               /\ m.results = <<>> <=> ResultIds(m) = {}
<1>1. m.uses \in Seq(Names) /\ m.results \in Seq(ResultRows)  BY DEF Proper, TurnRows
<1>2. m.uses = <<>> <=> DOMAIN m.uses = {}  BY <1>1, EmptyDomain
<1>3. m.results = <<>> <=> DOMAIN m.results = {}  BY <1>1, EmptyDomain
<1>4. QED  BY <1>2, <1>3 DEF UseIds, ResultIds, Elements

\* What a selection of turns keeps: all calls, answers and pairs of the turns it takes.
LEMMA PickedTurns ==
    ASSUME NEW s \in Seq(Proper), NEW out \in Seq(Proper), NEW g, Picks(out, s, Len(s), g)
    PROVE  /\ Once(s) => Once(out)
           /\ AnswersOf(out) \subseteq AnswersOf(s)
           /\ (\A j \in DOMAIN s : UseIds(s[j]) # {} => Takes(g, j)) => CallsOf(out) = CallsOf(s)
           /\ (\A j \in DOMAIN s : (\E id : ToldBy(s[j], id)) => Takes(g, j)) => \A id : Heard(s, id) => Heard(out, id)
           /\ (\A j \in DOMAIN s : UseIds(s[j]) # {} \/ ResultIds(s[j]) # {} => Takes(g, j))
              => \A r : Partners(s, r) => Partners(out, r)
<1>1. /\ \A a \in DOMAIN out : g[a] \in DOMAIN s /\ out[a] = s[g[a]]
      /\ DOMAIN g = DOMAIN out /\ \A a, b \in DOMAIN out : g[a] = g[b] => a = b
  <2>1. g \in [DOMAIN out -> 1 .. Len(s)] /\ DOMAIN s = 1 .. Len(s) /\ DOMAIN out = 1 .. Len(out)
        /\ Len(s) \in Nat /\ Len(out) \in Nat
    BY DEF Picks
  <2>2. ASSUME NEW a \in DOMAIN out, NEW b \in DOMAIN out, g[a] = g[b] PROVE a = b
    <3>1. a \in Nat /\ b \in Nat /\ g[a] \in Nat /\ g[b] \in Nat  BY <2>1
    <3>2. ~(a < b) /\ ~(b < a)  BY <2>2, <3>1 DEF Picks
    <3>3. QED  BY <3>1, <3>2
  <2>3. QED  BY <2>1, <2>2 DEF Picks
<1>2. Once(s) => Once(out)  BY <1>1 DEF Once
<1>3. ASSUME \A j \in DOMAIN s : UseIds(s[j]) # {} => Takes(g, j) PROVE CallsOf(out) = CallsOf(s)
  <2>1. \A x : x \in CallsOf(out) <=> \E a \in DOMAIN out : x \in UseIds(out[a])  BY DEF CallsOf
  <2>2. \A x : x \in CallsOf(s) <=> \E a \in DOMAIN s : x \in UseIds(s[a])  BY DEF CallsOf
  <2>3. ASSUME NEW x, x \in CallsOf(s) PROVE x \in CallsOf(out)
    <3>1. PICK j \in DOMAIN s : x \in UseIds(s[j])  BY <2>2, <2>3
    <3>2. PICK a \in DOMAIN g : g[a] = j  BY <1>3, <3>1 DEF Takes
    <3>3. QED  BY <1>1, <2>1, <3>1, <3>2
  <2>4. \A x : x \in CallsOf(out) => x \in CallsOf(s)  BY <1>1, <2>1, <2>2
  <2>5. QED  BY <2>3, <2>4
<1>4. ASSUME \A j \in DOMAIN s : (\E id : ToldBy(s[j], id)) => Takes(g, j), NEW id, Heard(s, id) PROVE Heard(out, id)
  <2>1. PICK j \in DOMAIN s : ToldBy(s[j], id)  BY <1>4 DEF Heard
  <2>2. PICK a \in DOMAIN g : g[a] = j  BY <1>4, <2>1 DEF Takes
  <2>3. QED  BY <1>1, <2>1, <2>2 DEF Heard
<1>5. ASSUME \A j \in DOMAIN s : UseIds(s[j]) # {} \/ ResultIds(s[j]) # {} => Takes(g, j), NEW r, Partners(s, r)
      PROVE  Partners(out, r)
  <2>1. PICK i, j \in DOMAIN s : PartnersAt(s, r, i, j)  BY <1>5 DEF Partners
  <2>2. UseIds(s[i]) # {} /\ ResultIds(s[j]) # {}  BY <2>1 DEF PartnersAt
  <2>3. PICK a \in DOMAIN g : g[a] = i  BY <1>5, <2>2 DEF Takes
  <2>4. PICK b \in DOMAIN g : g[b] = j  BY <1>5, <2>2 DEF Takes
  <2>5. a < b
    <3>1. a \in Nat /\ b \in Nat /\ i \in Nat /\ j \in Nat /\ i < j  BY <1>1, <2>1 DEF PartnersAt
    <3>2. ~(b < a) /\ a # b
      <4>1. b < a => g[b] < g[a]  BY <1>1 DEF Picks
      <4>2. QED  BY <2>3, <2>4, <3>1, <4>1
    <3>3. QED  BY <3>1, <3>2
  <2>6. \A k \in DOMAIN out : k # b => ResultIds(out[k]) \cap ResultIds(r) = {}
    <3>1. \A k \in DOMAIN out : k # b => g[k] # j  BY <1>1, <2>4
    <3>2. QED  BY <1>1, <2>1, <3>1 DEF PartnersAt
  <2>7. PartnersAt(out, r, a, b)  BY <1>1, <2>1, <2>3, <2>4, <2>5, <2>6 DEF PartnersAt
  <2>8. QED  BY <1>1, <2>7 DEF Partners
<1>6. AnswersOf(out) \subseteq AnswersOf(s)  BY <1>1 DEF AnswersOf
<1>7. QED  BY <1>2, <1>3, <1>4, <1>5, <1>6

\* The last element is the last one that is taken.
LEMMA PickedLast ==
    ASSUME NEW T, NEW s \in Seq(T), NEW out \in Seq(T), NEW g, Picks(out, s, Len(s), g), s # <<>>, Takes(g, Len(s))
    PROVE  /\ out # <<>> /\ out[Len(out)] = s[Len(s)]
           /\ Len(s) >= 2 /\ Takes(g, Len(s) - 1) => Len(out) >= 2 /\ out[Len(out) - 1] = s[Len(s) - 1]
<1> DEFINE n == Len(s)
           l == Len(out)
<1>1. g \in [1 .. l -> 1 .. n] /\ l \in Nat /\ n \in Nat \ {0} /\ DOMAIN out = 1 .. l  BY DEF Picks
<1>2. \A a, b \in 1 .. l : a < b => g[a] < g[b]  BY <1>1 DEF Picks
<1>3. PICK a \in 1 .. l : g[a] = n  BY <1>1 DEF Takes
<1>4. \A b \in 1 .. l : g[b] \in 1 .. n  BY <1>1
<1> HIDE DEF n, l
<1>5. a = l
  <2>1. l \in 1 .. l  BY <1>1, <1>3
  <2>2. a < l => g[a] < g[l]  BY <1>2, <2>1
  <2>3. ~(a < l)  BY <1>1, <1>3, <1>4, <2>1, <2>2
  <2>4. QED  BY <1>1, <2>3
<1>6. l \in 1 .. l /\ out[l] = s[n]  BY <1>1, <1>3, <1>5 DEF Picks
<1>7. ASSUME n >= 2, Takes(g, n - 1) PROVE l >= 2 /\ out[l - 1] = s[n - 1]
  <2>1. PICK b \in 1 .. l : g[b] = n - 1  BY <1>1, <1>7 DEF Takes
  <2>2. b # l /\ b < l  BY <1>1, <1>3, <1>5, <2>1
  <2>3. l - 1 \in 1 .. l /\ l - 1 < l  BY <1>1, <2>2
  <2>4. g[l - 1] < n  BY <1>2, <1>3, <1>5, <1>6, <2>3
  <2>5. b < l - 1 => g[b] < g[l - 1]  BY <1>2, <2>3
  <2>6. b = l - 1
    <3>1. g[l - 1] \in 1 .. n  BY <1>4, <2>3
    <3>2. ~(b < l - 1)  BY <1>1, <1>7, <2>1, <2>4, <2>5, <3>1
    <3>3. QED  BY <1>1, <2>2, <3>2
  <2>7. QED  BY <1>1, <2>1, <2>3, <2>6 DEF Picks
<1>8. QED  BY <1>1, <1>6, <1>7 DEF n, l

\* The first element is the first of s, when that is taken.
LEMMA PickedFirst ==
    ASSUME NEW T, NEW s \in Seq(T), NEW out \in Seq(T), NEW g, Picks(out, s, Len(s), g), s # <<>>, Takes(g, 1)
    PROVE  out # <<>> /\ out[1] = s[1]
<1>1. g \in [1 .. Len(out) -> 1 .. Len(s)] /\ Len(out) \in Nat /\ Len(s) \in Nat /\ DOMAIN out = 1 .. Len(out)  BY DEF Picks
<1>2. PICK a \in 1 .. Len(out) : g[a] = 1  BY <1>1 DEF Takes
<1>3. 1 \in 1 .. Len(out) /\ g[1] \in 1 .. Len(s)  BY <1>1, <1>2
<1>4. 1 < a => g[1] < g[a]  BY <1>1, <1>3 DEF Picks
<1>5. a = 1  BY <1>1, <1>2, <1>3, <1>4
<1>6. QED  BY <1>1, <1>2, <1>3, <1>5 DEF Picks

\* The cleanup is a selection that takes every turn with calls or results.
LEMMA CleanedPicks ==
    ASSUME NEW c \in Seq(Proper), NEW out, out = Fold(Prepared, <<>>, c)
    PROVE  /\ out \in Seq(Proper)
           /\ \E g : /\ Picks(out, c, Len(c), g)
                     /\ \A j \in DOMAIN c : UseIds(c[j]) # {} \/ ResultIds(c[j]) # {} => Takes(g, j)
<1> DEFINE Wanted(k, g) == \A j \in 1 .. k : UseIds(c[j]) # {} \/ ResultIds(c[j]) # {} => Takes(g, j)
<1>1. PICK f : /\ f[0] = <<>> /\ \A k \in 1 .. Len(c) : f[k] = Prepared(f[k - 1], c[k])
               /\ Fold(Prepared, <<>>, c) = f[Len(c)]
    BY PreparedUnfolds
<1> DEFINE Good(k) == f[k] \in Seq(Proper) /\ \E g : Picks(f[k], c, k, g) /\ Wanted(k, g)
           U == {k \in 0 .. Len(c) : Good(k)}
<1>2. Good(0)
  <2>1. <<>> \in Seq(Proper) /\ DOMAIN <<>> = {} /\ 1 .. 0 = {}  OBVIOUS
  <2>2. Picks(<<>>, c, 0, <<>>)  BY <2>1 DEF Picks
  <2>3. QED  BY <1>1, <2>1, <2>2
<1>3. ASSUME NEW k \in 1 .. Len(c), Good(k - 1) PROVE Good(k)
  <2>1. PICK g : Picks(f[k - 1], c, k - 1, g) /\ Wanted(k - 1, g)  BY <1>3
  <2>2. f[k] = Prepared(f[k - 1], c[k]) /\ f[k - 1] \in Seq(Proper) /\ c[k] \in Proper  BY <1>1, <1>3
  <2>3. \A j \in 1 .. k : j \in 1 .. k - 1 \/ j = k  OBVIOUS
  <2> DEFINE out1 == f[k - 1]
  <2>4. out1 \in Seq(Proper) /\ Picks(out1, c, k - 1, g)  BY <2>1, <2>2
  <2>5. f[k] = Prepared(out1, c[k])  BY <2>2
  <2> HIDE DEF out1, Good
  <2>6. CASE Hollow(c[k]) \/ Repeats(out1, c[k])
    <3>1. f[k] = out1  BY <2>5, <2>6 DEF Prepared
    <3>2. Picks(out1, c, k, g)  BY <2>4, PicksNext
    <3>3. UseIds(c[k]) = {} /\ ResultIds(c[k]) = {}
      <4>1. c[k].uses = <<>> /\ c[k].results = <<>>  BY <2>2, <2>6 DEF Hollow, Repeats, Proper
      <4>2. QED  BY <2>2, <4>1, NoCalls
    <3>4. Wanted(k, g)  BY <2>1, <2>3, <3>3
    <3>5. QED  BY <2>4, <3>1, <3>2, <3>4 DEF Good
  <2>7. CASE ~(Hollow(c[k]) \/ Repeats(out1, c[k]))
    <3>1. f[k] = Append(out1, c[k])  BY <2>5, <2>7 DEF Prepared
    <3>2. PICK h : TakesToo(c, k, g, Append(out1, c[k]), h)  BY <2>4, PicksNext
    <3>3. Wanted(k, h)  BY <2>1, <2>3, <3>2 DEF TakesToo
    <3>4. f[k] \in Seq(Proper)  BY <2>2, <2>4, <3>1
    <3>5. QED  BY <3>1, <3>2, <3>3, <3>4 DEF Good, TakesToo
  <2>8. QED  BY <2>6, <2>7
<1>4. U \in SUBSET (0 .. Len(c)) /\ 0 \in U /\ Len(c) \in Nat /\ \A k \in 1 .. Len(c) : k - 1 \in U => k \in U
  <2>1. 0 \in 0 .. Len(c) /\ \A k \in 1 .. Len(c) : k \in 0 .. Len(c)  OBVIOUS
  <2> HIDE DEF Good
  <2>2. QED  BY <1>2, <1>3, <2>1
<1> HIDE DEF U
<1>5. U = 0 .. Len(c)  BY <1>4, UpFromZero
<1>6. Good(Len(c))
  <2>1. Len(c) \in U  BY <1>4, <1>5
  <2> HIDE DEF Good
  <2>2. QED  BY <2>1 DEF U
<1>7. DOMAIN c = 1 .. Len(c)  OBVIOUS
<1>8. QED  BY <1>1, <1>6, <1>7

\* The cleanup separates no pair, and leaves the last one last.
LEMMA CleanedPairs ==
    ASSUME NEW s \in Seq(Proper)
    PROVE  /\ \A r : Partners(s, r) => Partners(prepareKiroConversation(s), r)
           /\ AnswersOf(prepareKiroConversation(s)) \subseteq AnswersOf(s)
           /\ \A a, r : EndsWith(s, a, r) /\ a.uses # <<>> /\ r.results # <<>> /\ Scrubbed(a) = a
                        => EndsWith(prepareKiroConversation(s), a, r)
<1> DEFINE c == MapSeq(s, Scrubbed)
           t == prepareKiroConversation(s)
<1>1. DOMAIN c = DOMAIN s /\ Len(s) \in Nat /\ DOMAIN s = 1 .. Len(s) /\ \A i \in DOMAIN s : c[i] = Scrubbed(s[i]) /\ s[i] \in Proper
    BY DEF MapSeq
<1>2. c \in Seq(Proper) /\ Len(c) = Len(s)
  <2>1. c = [i \in 1 .. Len(s) |-> Scrubbed(s[i])]  BY <1>1 DEF MapSeq
  <2>2. \A i \in 1 .. Len(s) : Scrubbed(s[i]) \in Proper  BY <1>1, ScrubbedTurn
  <2> HIDE DEF c
  <2>3. QED  BY <1>1, <2>1, <2>2
<1>3. t = Fold(Prepared, <<>>, c)  BY DEF prepareKiroConversation
<1>4. ASSUME NEW i \in DOMAIN s
      PROVE  /\ UseIds(c[i]) = UseIds(s[i]) /\ ResultIds(c[i]) = ResultIds(s[i])
             /\ ResultIds(s[i]) # {} => c[i] = s[i]
  <2>1. s[i] \in Proper /\ c[i] = Scrubbed(s[i])  BY <1>1
  <2> HIDE DEF c
  <2>2. c[i].uses = s[i].uses /\ c[i].results = s[i].results /\ (s[i].user => c[i] = s[i])  BY <2>1, ScrubbedTurn
  <2>3. ResultIds(s[i]) # {} => s[i].user  BY <2>1, NoCalls DEF Proper
  <2>4. QED  BY <2>2, <2>3 DEF UseIds, ResultIds
<1> HIDE DEF c, t
<1>5. PICK g : /\ Picks(t, c, Len(c), g) /\ t \in Seq(Proper)
               /\ \A j \in DOMAIN c : UseIds(c[j]) # {} \/ ResultIds(c[j]) # {} => Takes(g, j)
    BY <1>2, <1>3, CleanedPicks
<1>6. ASSUME NEW r, Partners(s, r) PROVE Partners(t, r)
  <2>1. PICK i, j \in DOMAIN s : PartnersAt(s, r, i, j)  BY <1>6 DEF Partners
  <2>2. ResultIds(s[j]) # {}  BY <2>1 DEF PartnersAt
  <2>3. PartnersAt(c, r, i, j)  BY <1>1, <1>4, <2>1, <2>2 DEF PartnersAt
  <2>4. Partners(c, r)  BY <1>1, <2>3 DEF Partners
  <2>5. QED  BY <1>2, <1>5, <2>4, PickedTurns
<1>7. ASSUME NEW a, NEW r, EndsWith(s, a, r), a.uses # <<>>, r.results # <<>>, Scrubbed(a) = a
      PROVE  EndsWith(t, a, r)
  <2>1. Len(s) >= 2 /\ Len(s) \in DOMAIN s /\ Len(s) - 1 \in DOMAIN s  BY <1>1, <1>7 DEF EndsWith
  <2>2. s[Len(s) - 1] = a /\ s[Len(s)] = r /\ a \in Proper /\ r \in Proper  BY <1>1, <1>7, <2>1 DEF EndsWith
  <2>3. UseIds(a) # {} /\ ResultIds(r) # {}  BY <1>7, <2>2, NoCalls
  <2>4. c[Len(s)] = r /\ c[Len(s) - 1] = a  BY <1>1, <1>4, <1>7, <2>1, <2>2, <2>3
  <2>5. Takes(g, Len(c)) /\ Takes(g, Len(c) - 1)  BY <1>1, <1>2, <1>5, <2>1, <2>3, <2>4
  <2>6. c # <<>>  BY <1>2, <2>1
  <2>7. t[Len(t)] = c[Len(c)] /\ Len(t) >= 2 /\ t[Len(t) - 1] = c[Len(c) - 1]
    BY <1>2, <1>5, <2>1, <2>5, <2>6, PickedLast
  <2>8. QED  BY <1>2, <2>4, <2>7 DEF EndsWith
<1>8. AnswersOf(t) \subseteq AnswersOf(s)
  <2>1. AnswersOf(t) \subseteq AnswersOf(c)  BY <1>2, <1>5, PickedTurns
  <2>2. AnswersOf(c) \subseteq AnswersOf(s)  BY <1>1, <1>4 DEF AnswersOf
  <2>3. QED  BY <2>1, <2>2
<1>9. QED  BY <1>6, <1>7, <1>8 DEF t

(*****************************************************************************)
(* The first turn                                                            *)
(*****************************************************************************)
\* A filler is a user turn that says something.
LEMMA FillerTurn ==
    ASSUME NEW w \in {"Hello", "Continue", "system", "elided", "."}
    PROVE  Filler(w) \in Proper /\ Neat(Filler(w)) /\ Says(Filler(w)) /\ Filler(w).user /\ Filler(w).uses = <<>> /\ Filler(w).results = <<>>
BY DEF Filler, User, Proper, TurnRows, Words, Neat, Hollow, Says

Opens(s) == s # <<>> /\ s[1].user

\* With a user turn put first, when there was none, nothing is lost.
LEMMA Started ==
    ASSUME NEW s \in Seq(Proper), Speaking(s), \A i \in DOMAIN s : Neat(s[i]), Once(s)
    PROVE  LET t == ensureStartsWithUserTurn(s)
           IN  /\ t \in Seq(Proper) /\ Opens(t) /\ Speaking(t) /\ Once(t) /\ \A i \in DOMAIN t : Neat(t[i])
               /\ CallsOf(t) = CallsOf(s) /\ AnswersOf(t) \subseteq AnswersOf(s) /\ \A id : Heard(s, id) => Heard(t, id)
               /\ \A r : Partners(s, r) => Partners(t, r)
               /\ \A a, r : EndsWith(s, a, r) => EndsWith(t, a, r)
<1> DEFINE t == ensureStartsWithUserTurn(s)
           x == Filler("Hello")
<1>1. CASE s # <<>> /\ s[1].user  BY <1>1 DEF ensureStartsWithUserTurn, Opens
<1>2. CASE ~(s # <<>> /\ s[1].user)
  <2>1. t = <<x>> \o s  BY <1>2 DEF ensureStartsWithUserTurn
  <2>2. x \in Proper /\ Neat(x) /\ Says(x) /\ x.user /\ x.uses = <<>> /\ x.results = <<>>  BY FillerTurn
  <2> HIDE DEF t, x
  <2>3. /\ t \in Seq(Proper) /\ Len(t) = Len(s) + 1 /\ Len(s) \in Nat /\ t[1] = x /\ t # <<>>
        /\ DOMAIN t = 1 .. Len(s) + 1 /\ DOMAIN s = 1 .. Len(s)
        /\ \A i \in DOMAIN s : i + 1 \in DOMAIN t /\ t[i + 1] = s[i]
    BY <2>1, <2>2
  <2>4. \A i \in DOMAIN t : i = 1 \/ (i - 1 \in DOMAIN s /\ t[i] = s[i - 1])
    <3> TAKE i \in DOMAIN t
    <3>1. CASE i = 1  BY <3>1
    <3>2. CASE i # 1
      <4>1. i - 1 \in DOMAIN s /\ (i - 1) + 1 = i  BY <2>3, <3>2
      <4>2. QED  BY <2>3, <4>1
    <3>3. QED  BY <3>1, <3>2
  <2>5. UseIds(x) = {} /\ ResultIds(x) = {} /\ OnceIn(x)
    <3>1. UseIds(x) = {} /\ ResultIds(x) = {}  BY <2>2, NoCalls
    <3>2. DOMAIN x.uses = {}  BY <2>2
    <3>3. QED  BY <3>1, <3>2 DEF OnceIn
  <2>6. Speaking(t)
    <3>1. ASSUME NEW i \in DOMAIN t, t[i].user, t[i].images \/ NoneBefore(t, i) PROVE Says(t[i])
      <4>1. CASE i = 1  BY <2>2, <2>3, <4>1
      <4>2. CASE i # 1
        <5>1. i - 1 \in DOMAIN s /\ t[i] = s[i - 1]  BY <2>4, <4>2
        <5>2. ~NoneBefore(t, i)  BY <2>2, <2>3, <4>2, <5>1 DEF NoneBefore
        <5>3. QED  BY <3>1, <5>1, <5>2 DEF Speaking
      <4>3. QED  BY <4>1, <4>2
    <3>2. QED  BY <3>1 DEF Speaking
  <2>7. Once(t)
    <3>1. \A i \in DOMAIN t : OnceIn(t[i])  BY <2>3, <2>4, <2>5 DEF Once
    <3>2. ASSUME NEW i \in DOMAIN t, NEW j \in DOMAIN t, i # j PROVE UseIds(t[i]) \cap UseIds(t[j]) = {}
      <4>1. CASE i = 1 \/ j = 1  BY <2>3, <2>5, <4>1
      <4>2. CASE i # 1 /\ j # 1
        <5>1. i - 1 # j - 1  BY <2>3, <3>2
        <5>2. QED  BY <2>4, <4>2, <5>1 DEF Once
      <4>3. QED  BY <4>1, <4>2
    <3>3. QED  BY <3>1, <3>2 DEF Once
  <2>8. CallsOf(t) = CallsOf(s)
    <3>1. \A y : y \in CallsOf(t) <=> \E i \in DOMAIN t : y \in UseIds(t[i])  BY DEF CallsOf
    <3>2. \A y : y \in CallsOf(s) <=> \E i \in DOMAIN s : y \in UseIds(s[i])  BY DEF CallsOf
    <3>3. \A y : y \in CallsOf(t) <=> y \in CallsOf(s)  BY <2>3, <2>4, <2>5, <3>1, <3>2
    <3>4. QED  BY <3>3
  <2>9. \A id : Heard(s, id) => Heard(t, id)  BY <2>3 DEF Heard
  <2>10. ASSUME NEW r, Partners(s, r) PROVE Partners(t, r)
    <3>1. PICK i, j \in DOMAIN s : PartnersAt(s, r, i, j)  BY <2>10 DEF Partners
    <3>2. \A k \in DOMAIN t : k # j + 1 => ResultIds(t[k]) \cap ResultIds(r) = {}
      <4> TAKE k \in DOMAIN t
      <4>1. CASE k = 1  BY <2>3, <2>5, <4>1
      <4>2. CASE k # 1
        <5>1. k # j + 1 => k - 1 # j  BY <2>3, <3>1
        <5>2. QED  BY <2>4, <3>1, <4>2, <5>1 DEF PartnersAt
      <4>3. QED  BY <4>1, <4>2
    <3>3. i + 1 < j + 1  BY <2>3, <3>1 DEF PartnersAt
    <3>4. PartnersAt(t, r, i + 1, j + 1)  BY <2>3, <3>1, <3>2, <3>3 DEF PartnersAt
    <3>5. QED  BY <2>3, <3>4 DEF Partners
  <2>11. ASSUME NEW a, NEW r, EndsWith(s, a, r) PROVE EndsWith(t, a, r)
    <3>1. Len(s) \in DOMAIN s /\ Len(s) - 1 \in DOMAIN s /\ (Len(s) - 1) + 1 = Len(s)  BY <2>3, <2>11 DEF EndsWith
    <3>2. QED  BY <2>3, <2>11, <3>1 DEF EndsWith
  <2>12. \A i \in DOMAIN t : Neat(t[i])  BY <2>2, <2>3, <2>4
  <2>13. Opens(t)  BY <2>2, <2>3 DEF Opens
  <2>14. AnswersOf(t) \subseteq AnswersOf(s)  BY <2>3, <2>4, <2>5 DEF AnswersOf
  <2>15. QED  BY <2>3, <2>6, <2>7, <2>8, <2>9, <2>10, <2>11, <2>12, <2>13, <2>14 DEF t
<1>3. QED  BY <1>1, <1>2

\* Turns that are nothing to clean up.
Sound == {m \in Proper : Neat(m) /\ (m.user => Says(m))}

\* Sound turns are proper ones.
LEMMA SoundTurns == ASSUME NEW s \in Seq(Sound) PROVE s \in Seq(Proper) /\ \A i \in DOMAIN s : s[i] \in Proper /\ s[i] \in Sound
BY DEF Sound

\* The user turns that are dropped said nothing: what is left is sound.
LEMMA Dropped ==
    ASSUME NEW s \in Seq(Proper), Opens(s), Speaking(s), Once(s), \A i \in DOMAIN s : Neat(s[i])
    PROVE  LET t == dropContentlessUserTurns(s)
           IN  /\ t \in Seq(Sound) /\ Opens(t) /\ Once(t)
               /\ CallsOf(t) = CallsOf(s) /\ AnswersOf(t) \subseteq AnswersOf(s) /\ \A id : Heard(s, id) => Heard(t, id)
               /\ \A r : Partners(s, r) => Partners(t, r)
               /\ \A a, r : EndsWith(s, a, r) /\ a.uses # <<>> /\ r.results # <<>> => EndsWith(t, a, r)
<1> DEFINE S == {i \in DOMAIN s : LET m == s[i] IN
                    \/ ~m.user \/ m.text # {} \/ m.results # <<>> \/ m.images
                    \/ \A j \in 1 .. i - 1 : ~s[j].user}
           t == dropContentlessUserTurns(s)
<1>1. t = At(s, S)  BY DEF dropContentlessUserTurns
<1>2. \A i \in DOMAIN s : i \in S <=> ~s[i].user \/ s[i].text # {} \/ s[i].results # <<>> \/ s[i].images \/ NoneBefore(s, i)
    BY DEF NoneBefore
<1>3. DOMAIN s = 1 .. Len(s) /\ Len(s) \in Nat /\ \A i \in DOMAIN s : s[i] \in Proper  OBVIOUS
<1>4. 1 \in DOMAIN s /\ NoneBefore(s, 1) /\ s # <<>>
  <2>1. Len(s) # 0  BY <1>3 DEF Opens
  <2>2. QED  BY <1>3, <2>1 DEF NoneBefore, Opens
<1> HIDE DEF S, t
<1>5. PICK g : /\ Picks(t, s, Len(s), g) /\ t \in Seq(Proper) /\ \A j \in 1 .. Len(s) : Takes(g, j) <=> j \in S
    BY <1>1, AtPicks
<1>6. \A j \in DOMAIN s : (UseIds(s[j]) # {} \/ ResultIds(s[j]) # {} \/ \E id : ToldBy(s[j], id)) => Takes(g, j)
  <2> TAKE j \in DOMAIN s
  <2>1. UseIds(s[j]) # {} => ~s[j].user  BY <1>3, NoCalls DEF Proper
  <2>2. ResultIds(s[j]) # {} => s[j].results # <<>>  BY <1>3, NoCalls
  <2>3. (\E id : ToldBy(s[j], id)) => s[j].text # {} \/ s[j].results # <<>>  BY <1>3 DEF ToldBy, Elements
  <2>4. QED  BY <1>2, <1>3, <1>5, <2>1, <2>2, <2>3
<1>7. /\ Once(t) /\ CallsOf(t) = CallsOf(s) /\ AnswersOf(t) \subseteq AnswersOf(s) /\ \A id : Heard(s, id) => Heard(t, id)
      /\ \A r : Partners(s, r) => Partners(t, r)
    BY <1>5, <1>6, PickedTurns
<1>8. Opens(t)
  <2>1. Takes(g, 1)  BY <1>2, <1>3, <1>4, <1>5
  <2>2. t # <<>> /\ t[1] = s[1]  BY <1>4, <1>5, <2>1, PickedFirst
  <2>3. QED  BY <2>2 DEF Opens
<1>9. t \in Seq(Sound)
  <2>1. DOMAIN g = DOMAIN t /\ \A a \in DOMAIN t : g[a] \in DOMAIN s /\ t[a] = s[g[a]]  BY <1>3, <1>5 DEF Picks
  <2>2. ASSUME NEW a \in DOMAIN t PROVE t[a] \in Sound
    <3>1. Takes(g, g[a]) /\ g[a] \in S  BY <1>3, <1>5, <2>1 DEF Takes
    <3>2. s[g[a]].user => Says(s[g[a]])  BY <1>2, <2>1, <3>1 DEF Speaking, Says
    <3>3. QED  BY <1>3, <2>1, <3>2 DEF Sound
  <2>3. QED  BY <1>5, <2>2
<1>10. ASSUME NEW a, NEW r, EndsWith(s, a, r), a.uses # <<>>, r.results # <<>> PROVE EndsWith(t, a, r)
  <2>1. Len(s) \in DOMAIN s /\ Len(s) - 1 \in DOMAIN s  BY <1>3, <1>10 DEF EndsWith
  <2>2. s[Len(s) - 1] = a /\ s[Len(s)] = r /\ a \in Proper /\ r \in Proper /\ Len(s) >= 2  BY <1>3, <1>10, <2>1 DEF EndsWith
  <2>3. UseIds(a) # {} /\ ResultIds(r) # {}  BY <1>10, <2>2, NoCalls
  <2>4. Takes(g, Len(s)) /\ Takes(g, Len(s) - 1)  BY <1>6, <2>1, <2>2, <2>3
  <2>5. t[Len(t)] = s[Len(s)] /\ Len(t) >= 2 /\ t[Len(t) - 1] = s[Len(s) - 1]
    BY <1>4, <1>5, <2>2, <2>4, PickedLast
  <2>6. QED  BY <2>2, <2>5 DEF EndsWith
<1>11. QED  BY <1>7, <1>8, <1>9, <1>10 DEF t

\* Of sound turns none is dropped.
LEMMA NoneDropped == ASSUME NEW s \in Seq(Sound) PROVE dropContentlessUserTurns(s) = s
<1>1. \A k \in 1 .. Len(s) : k \in DOMAIN s /\ (s[k].user => s[k].text # {} \/ s[k].results # <<>>)
    BY DEF Sound, Says
<1>2. QED  BY <1>1, AtAll DEF dropContentlessUserTurns

(*****************************************************************************)
(* Results behind their calls                                                *)
(*****************************************************************************)
Homes(s, id) == {i \in DOMAIN s : s[i].user /\ id \in ResultIds(s[i])}

\* Home is a turn with a result for the call, if there is one.
LEMMA HomeTurn ==
    ASSUME NEW s \in Seq(Proper), NEW id
    PROVE  /\ Home(s, id) \in Nat /\ (Home(s, id) # 0 => Home(s, id) \in Homes(s, id))
           /\ (id # NoId /\ Homes(s, id) # {} => Home(s, id) # 0)
<1>1. CASE id = NoId \/ Homes(s, id) = {}  BY <1>1 DEF Home, Homes
<1>2. CASE ~(id = NoId \/ Homes(s, id) = {})
  <2>1. Homes(s, id) \in SUBSET Nat  BY DEF Homes
  <2>2. PICK m \in Homes(s, id) : \A k \in Homes(s, id) : m <= k  BY <1>2, <2>1, LeastNatural
  <2>3. Home(s, id) = CHOOSE i \in Homes(s, id) : \A j \in Homes(s, id) : i <= j  BY <1>2 DEF Home, Homes
  <2>4. Home(s, id) \in Homes(s, id)  BY <2>2, <2>3
  <2>5. \A k \in Homes(s, id) : k \in Nat /\ k # 0  BY DEF Homes
  <2>6. QED  BY <2>1, <2>4, <2>5
<1>3. QED  BY <1>1, <1>2

\* PullOne goes through the calls of a turn one by one.
LEMMA PullOneUnfolds ==
    ASSUME NEW s \in Seq(Proper), NEW i \in DOMAIN s, NEW o \in Seq(Nat), i \notin Elements(o)
    PROVE  \E f : /\ f[0] = Append(o, i)
                  /\ \A k \in 1 .. Len(s[i].uses) : f[k] = PullResult(f[k - 1], s, i, s[i].uses[k])
                  /\ PullOne(o, s, i) = f[Len(s[i].uses)]
<1> DEFINE u == s[i].uses
           b == Append(o, i)
           P(f) == f = [k \in 0 .. Len(u) |-> IF k = 0 THEN b ELSE PullResult(f[k - 1], s, i, u[k])]
           G == [p \in Seq(Nat) \X (1 .. Len(u)) |-> PullResult(p[1], s, i, u[p[2]])]
           h == CHOOSE f : P(f)
<1>0. u \in Seq(Names) /\ Len(u) \in Nat /\ b \in Seq(Nat)
  <2>1. s[i] \in Proper /\ i \in Nat  OBVIOUS
  <2>2. QED  BY <2>1 DEF Proper, TurnRows
<1> HIDE DEF u, b
<1>1. \A a \in Seq(Nat), k \in 1 .. Len(u) : PullResult(a, s, i, u[k]) \in Seq(Nat)
  <2> TAKE a \in Seq(Nat), k \in 1 .. Len(u)
  <2>1. Home(s, u[k]) \in Nat  BY HomeTurn
  <2>2. QED  BY <2>1 DEF PullResult
<1>2. \A a \in Seq(Nat), k \in 1 .. Len(u) : G[<<a, k>>] = PullResult(a, s, i, u[k])  OBVIOUS
<1>3. PICK f \in [0 .. Len(u) -> Seq(Nat)] : Runs(f, b, Len(u), G)
  <2> HIDE DEF G
  <2>1. \A k \in 1 .. Len(u) : \A a \in Seq(Nat) : G[<<a, k>>] \in Seq(Nat)  BY <1>1, <1>2
  <2>2. QED  BY <1>0, <2>1, FoldRuns
<1>4. P(f)
  <2>1. \A k \in 0 .. Len(u) : f[k] = IF k = 0 THEN b ELSE PullResult(f[k - 1], s, i, u[k])
    <3>1. ASSUME NEW k \in 0 .. Len(u), k # 0 PROVE G[<<f[k - 1], k>>] = PullResult(f[k - 1], s, i, u[k])
      <4>1. k - 1 \in 0 .. Len(u) /\ k \in 1 .. Len(u)  BY <1>0, <3>1
      <4> HIDE DEF G
      <4>2. QED  BY <1>2, <4>1
    <3> HIDE DEF G
    <3>2. QED  BY <1>3, <3>1 DEF Runs
  <2>2. f = [k \in 0 .. Len(u) |-> f[k]]  BY <1>3
  <2>3. QED  BY <2>1, <2>2
<1>5. P(h)  BY <1>4
<1>6. PullOne(o, s, i) = h[Len(u)]  BY DEF PullOne, Fold, u, b
<1> HIDE DEF h
<1>7. \A k \in 0 .. Len(u) : h[k] = IF k = 0 THEN b ELSE PullResult(h[k - 1], s, i, u[k])  BY <1>5
<1> HIDE DEF P, G
<1>8. h[0] = b /\ \A k \in 1 .. Len(u) : h[k] = PullResult(h[k - 1], s, i, u[k])  BY <1>0, <1>7
<1>9. QED  BY <1>6, <1>8 DEF u, b

\* p is o, the turn i, and then turns with results for i's calls; none of them twice.
Different(o) == \A a, b \in DOMAIN o : o[a] = o[b] => a = b
Grown(o, p, s, i) ==
    /\ p \in Seq(DOMAIN s) /\ Different(p) /\ Len(p) >= Len(o) + 1
    /\ \A a \in DOMAIN o : a \in DOMAIN p /\ p[a] = o[a]
    /\ p[Len(o) + 1] = i
    /\ \A a \in DOMAIN p : a \in DOMAIN o \/ a = Len(o) + 1 \/ \E id \in UseIds(s[i]) : p[a] \in Homes(s, id)

\* One more that was not there leaves them different.
LEMMA DifferentAppend ==
    ASSUME NEW o \in Seq(Nat), NEW i \in Nat, Different(o), i \notin Elements(o)
    PROVE  Different(Append(o, i))
<1>1. /\ \A a \in DOMAIN o : a \in DOMAIN Append(o, i) /\ Append(o, i)[a] = o[a]
      /\ Append(o, i)[Len(o) + 1] = i
      /\ \A a \in DOMAIN Append(o, i) : a \in DOMAIN o \/ a = Len(o) + 1
    BY AppendFacts
<1>2. \A a \in DOMAIN o : o[a] # i  BY DEF Elements
<1> DEFINE p == Append(o, i)
<1>3. /\ \A a \in DOMAIN o : p[a] = o[a]
      /\ p[Len(o) + 1] = i
      /\ \A a \in DOMAIN p : a \in DOMAIN o \/ a = Len(o) + 1  BY <1>1
<1> HIDE DEF p
<1>4. Different(p)  BY <1>2, <1>3 DEF Different
<1>5. QED  BY <1>4 DEF p

\* A result's turn is placed at most once.
LEMMA PullResultGrows ==
    ASSUME NEW s \in Seq(Proper), NEW i \in DOMAIN s, NEW o \in Seq(Nat), NEW p, Grown(o, p, s, i), NEW id \in UseIds(s[i])
    PROVE  Grown(o, PullResult(p, s, i, id), s, i)
<1> DEFINE h == Home(s, id)
           q == Append(p, h)
<1>1. CASE h \in {0, i + 1} \cup Elements(p)  BY <1>1 DEF PullResult
<1>2. CASE ~(h \in {0, i + 1} \cup Elements(p))
  <2>1. PullResult(p, s, i, id) = q  BY <1>2 DEF PullResult
  <2>2. h \in Homes(s, id) /\ h \in DOMAIN s  BY <1>2, HomeTurn DEF Homes
  <2>3. DOMAIN s \subseteq Nat /\ p \in Seq(DOMAIN s) /\ Len(o) \in Nat /\ Len(p) >= Len(o) + 1 /\ Different(p)
    BY DEF Grown
  <2>4. p \in Seq(Nat) /\ h \in Nat /\ h \notin Elements(p)  BY <1>2, <2>2, <2>3
  <2> HIDE DEF h
  <2>5. Different(q)  BY <2>3, <2>4, DifferentAppend
  <2>6. /\ q \in Seq(DOMAIN s) /\ Len(q) = Len(p) + 1 /\ Len(p) \in Nat /\ q[Len(p) + 1] = h /\ DOMAIN p = 1 .. Len(p)
        /\ \A a \in DOMAIN p : a \in DOMAIN q /\ q[a] = p[a]
        /\ \A a \in DOMAIN q : a \in DOMAIN p \/ a = Len(p) + 1
    BY <2>2, <2>3, AppendFacts
  <2> HIDE DEF q
  <2>7. Len(q) >= Len(o) + 1 /\ Len(o) + 1 \in DOMAIN p  BY <2>3, <2>6
  <2>8. \A a \in DOMAIN o : a \in DOMAIN q /\ q[a] = o[a]  BY <2>6 DEF Grown
  <2>9. q[Len(o) + 1] = i  BY <2>6, <2>7 DEF Grown
  <2>10. \A a \in DOMAIN q : a \in DOMAIN o \/ a = Len(o) + 1 \/ \E x \in UseIds(s[i]) : q[a] \in Homes(s, x)
    <3> TAKE a \in DOMAIN q
    <3>1. CASE a \in DOMAIN p  BY <2>6, <3>1 DEF Grown
    <3>2. CASE a = Len(p) + 1  BY <2>2, <2>6, <3>2
    <3>3. QED  BY <2>6, <3>1, <3>2
  <2>11. Grown(o, q, s, i)  BY <2>5, <2>6, <2>7, <2>8, <2>9, <2>10 DEF Grown
  <2>12. QED  BY <2>1, <2>11
<1>3. QED  BY <1>1, <1>2

\* A turn is placed, and behind it those with results for its calls.
LEMMA PullOneGrows ==
    ASSUME NEW s \in Seq(Proper), NEW i \in DOMAIN s, NEW o \in Seq(DOMAIN s), Different(o), i \notin Elements(o)
    PROVE  Grown(o, PullOne(o, s, i), s, i)
<1>1. DOMAIN s \subseteq Nat /\ o \in Seq(Nat) /\ i \in Nat /\ Len(o) \in Nat  OBVIOUS
<1>2. PICK f : /\ f[0] = Append(o, i)
               /\ \A k \in 1 .. Len(s[i].uses) : f[k] = PullResult(f[k - 1], s, i, s[i].uses[k])
               /\ PullOne(o, s, i) = f[Len(s[i].uses)]
    BY <1>1, PullOneUnfolds
<1> DEFINE u == s[i].uses
           U == {k \in 0 .. Len(u) : Grown(o, f[k], s, i)}
<1>3. u \in Seq(Names) /\ Len(u) \in Nat
  <2>1. s[i] \in Proper  OBVIOUS
  <2>2. QED  BY <2>1 DEF Proper, TurnRows
<1>4. \A k \in 1 .. Len(u) : u[k] \in UseIds(s[i])
  <2>1. DOMAIN u = 1 .. Len(u)  BY <1>3
  <2>2. QED  BY <2>1 DEF UseIds, Elements
<1>5. 0 \in U
  <2> DEFINE p == Append(o, i)
  <2>1. /\ p \in Seq(DOMAIN s) /\ Len(p) = Len(o) + 1 /\ p[Len(o) + 1] = i
        /\ \A a \in DOMAIN o : a \in DOMAIN p /\ p[a] = o[a]
        /\ \A a \in DOMAIN p : a \in DOMAIN o \/ a = Len(o) + 1
    BY AppendFacts
  <2>2. Different(p)  BY <1>1, DifferentAppend
  <2> HIDE DEF p
  <2>3. Len(p) >= Len(o) + 1  BY <1>1, <2>1
  <2>4. Grown(o, p, s, i)  BY <2>1, <2>2, <2>3 DEF Grown
  <2>5. 0 \in 0 .. Len(u)  BY <1>3
  <2>6. f[0] = p  BY <1>2 DEF p
  <2>7. QED  BY <2>4, <2>5, <2>6
<1>6. ASSUME NEW k \in 1 .. Len(u), k - 1 \in U PROVE k \in U
  <2>1. f[k] = PullResult(f[k - 1], s, i, u[k]) /\ Grown(o, f[k - 1], s, i)  BY <1>2, <1>6
  <2>2. Grown(o, f[k], s, i)  BY <1>1, <1>4, <2>1, PullResultGrows
  <2>3. k \in 0 .. Len(u)  BY <1>3
  <2>4. QED  BY <2>2, <2>3
<1>7. U \in SUBSET (0 .. Len(u))  OBVIOUS
<1> HIDE DEF u, U
<1>8. U = 0 .. Len(u)  BY <1>3, <1>5, <1>6, <1>7, UpFromZero
<1>9. Len(u) \in U  BY <1>3, <1>8
<1>10. QED  BY <1>2, <1>9 DEF U, u

\* A turn whose results stand behind it, or nowhere, is placed alone.
LEMMA PullNone ==
    ASSUME NEW s \in Seq(Proper), NEW i \in DOMAIN s, NEW o \in Seq(Nat), i \notin Elements(o),
           \A id \in UseIds(s[i]) : Home(s, id) \in {0, i + 1}
    PROVE  PullOne(o, s, i) = Append(o, i)
<1>2. PICK f : /\ f[0] = Append(o, i)
               /\ \A k \in 1 .. Len(s[i].uses) : f[k] = PullResult(f[k - 1], s, i, s[i].uses[k])
               /\ PullOne(o, s, i) = f[Len(s[i].uses)]
    BY PullOneUnfolds
<1> DEFINE u == s[i].uses
           U == {k \in 0 .. Len(u) : f[k] = Append(o, i)}
<1>3. u \in Seq(Names) /\ Len(u) \in Nat
  <2>1. s[i] \in Proper  OBVIOUS
  <2>2. QED  BY <2>1 DEF Proper, TurnRows
<1>4. \A k \in 1 .. Len(u) : u[k] \in UseIds(s[i])
  <2>1. DOMAIN u = 1 .. Len(u)  BY <1>3
  <2>2. QED  BY <2>1 DEF UseIds, Elements
<1>5. 0 \in U  BY <1>2, <1>3
<1>6. ASSUME NEW k \in 1 .. Len(u), k - 1 \in U PROVE k \in U
  <2>1. f[k] = PullResult(f[k - 1], s, i, u[k])  BY <1>2
  <2>2. f[k] = f[k - 1]  BY <1>4, <2>1 DEF PullResult
  <2>3. k \in 0 .. Len(u)  BY <1>3
  <2>4. QED  BY <1>6, <2>2, <2>3
<1>7. U \in SUBSET (0 .. Len(u))  OBVIOUS
<1> HIDE DEF u, U
<1>8. U = 0 .. Len(u)  BY <1>3, <1>5, <1>6, <1>7, UpFromZero
<1>9. Len(u) \in U  BY <1>3, <1>8
<1>10. QED  BY <1>2, <1>9 DEF U, u

\* A turn all of whose results are in one turn further on has that turn placed behind it.
LEMMA PullPartner ==
    ASSUME NEW s \in Seq(Proper), NEW i \in DOMAIN s, NEW o \in Seq(Nat), i \notin Elements(o), NEW j \in DOMAIN s,
           UseIds(s[i]) # {}, \A id \in UseIds(s[i]) : Home(s, id) = j, j # i, j # i + 1, j \notin Elements(o)
    PROVE  PullOne(o, s, i) = Append(Append(o, i), j)
<1>2. PICK f : /\ f[0] = Append(o, i)
               /\ \A k \in 1 .. Len(s[i].uses) : f[k] = PullResult(f[k - 1], s, i, s[i].uses[k])
               /\ PullOne(o, s, i) = f[Len(s[i].uses)]
    BY PullOneUnfolds
<1> DEFINE u == s[i].uses
           p == Append(o, i)
           q == Append(p, j)
           U == {k \in 0 .. Len(u) : k > 0 => f[k] = q}
<1>3. u \in Seq(Names) /\ Len(u) \in Nat /\ i \in Nat /\ j \in Nat /\ j # 0
  <2>1. s[i] \in Proper  OBVIOUS
  <2>2. QED  BY <2>1 DEF Proper, TurnRows
<1>4. \A k \in 1 .. Len(u) : u[k] \in UseIds(s[i])
  <2>1. DOMAIN u = 1 .. Len(u)  BY <1>3
  <2>2. QED  BY <2>1 DEF UseIds, Elements
<1>5. 0 \in U  BY <1>3
<1>6. j \notin Elements(p) /\ j \in Elements(q)
  <2>1. /\ \A a \in DOMAIN o : p[a] = o[a]
        /\ p[Len(o) + 1] = i
        /\ \A a \in DOMAIN p : a \in DOMAIN o \/ a = Len(o) + 1
        /\ p \in Seq(Nat)
    BY <1>3, AppendFacts
  <2>2. j \notin Elements(p)  BY <2>1 DEF Elements
  <2> HIDE DEF p
  <2>3. q[Len(p) + 1] = j /\ Len(p) + 1 \in DOMAIN q  BY <1>3, <2>1
  <2>4. QED  BY <2>2, <2>3 DEF Elements
<1>7. ASSUME NEW k \in 1 .. Len(u), k - 1 \in U PROVE k \in U
  <2>1. f[k] = PullResult(f[k - 1], s, i, u[k])  BY <1>2
  <2>2. Home(s, u[k]) = j  BY <1>4
  <2>3. k \in 0 .. Len(u)  BY <1>3
  <2>4. CASE k = 1
    <3>1. f[k - 1] = p  BY <1>2, <2>4
    <3> HIDE DEF p
    <3>2. f[k] = q  BY <1>3, <1>6, <2>1, <2>2, <3>1 DEF PullResult
    <3>3. QED  BY <2>3, <3>2
  <2>5. CASE k # 1
    <3>0. k - 1 > 0  BY <1>3, <2>5
    <3>1. f[k - 1] = q  BY <1>7, <3>0
    <3> HIDE DEF p, q
    <3>2. f[k] = q  BY <1>6, <2>1, <2>2, <3>1 DEF PullResult
    <3>3. QED  BY <2>3, <3>2
  <2>6. QED  BY <2>4, <2>5
<1>8. U \in SUBSET (0 .. Len(u))  OBVIOUS
<1>9. Len(u) > 0
  <2>1. u # <<>>
    <3>1. s[i] \in Proper  OBVIOUS
    <3>2. QED  BY <3>1, NoCalls
  <2>2. QED  BY <1>3, <2>1
<1> HIDE DEF u, U
<1>10. U = 0 .. Len(u)  BY <1>3, <1>5, <1>7, <1>8, UpFromZero
<1>11. Len(u) \in U  BY <1>3, <1>10
<1>12. f[Len(u)] = q  BY <1>9, <1>11 DEF U
<1>13. QED  BY <1>2, <1>12 DEF u

\* The orders pullToolResultsAfterTheirCalls may place turns in, none twice.
Orders(s) == {o \in Seq(DOMAIN s) : Different(o)}

\* pullToolResultsAfterTheirCalls goes through the turns one by one.
LEMMA PullsUnfold ==
    ASSUME NEW s \in Seq(Proper)
    PROVE  \E f : /\ f[0] = <<>> /\ \A k \in 1 .. Len(s) : f[k] = PullOne(f[k - 1], s, k)
                  /\ pullToolResultsAfterTheirCalls(s) = MapSeq(f[Len(s)], LAMBDA i : s[i])
<1> DEFINE A == Orders(s)
           P(f) == f = [k \in 0 .. Len(s) |-> IF k = 0 THEN <<>> ELSE PullOne(f[k - 1], s, k)]
           G == [p \in A \X (1 .. Len(s)) |-> PullOne(p[1], s, p[2])]
           h == CHOOSE f : P(f)
<1>0. DOMAIN s = 1 .. Len(s) /\ Len(s) \in Nat  OBVIOUS
<1>1. \A a \in A, k \in 1 .. Len(s) : PullOne(a, s, k) \in A
  <2> TAKE a \in A, k \in 1 .. Len(s)
  <2>1. a \in Seq(DOMAIN s) /\ Different(a) /\ k \in DOMAIN s  BY <1>0 DEF Orders
  <2>2. CASE k \in Elements(a)  BY <2>2 DEF PullOne
  <2>3. CASE k \notin Elements(a)
    <3>1. Grown(a, PullOne(a, s, k), s, k)  BY <2>1, <2>3, PullOneGrows
    <3>2. QED  BY <3>1 DEF Grown, Orders
  <2>4. QED  BY <2>2, <2>3
<1>2. \A a \in A, k \in 1 .. Len(s) : G[<<a, k>>] = PullOne(a, s, k)  OBVIOUS
<1>3. PICK f \in [0 .. Len(s) -> A] : Runs(f, <<>>, Len(s), G)
  <2> HIDE DEF G
  <2>1. <<>> \in A /\ Len(s) \in Nat  BY DEF Different, Orders
  <2> HIDE DEF A
  <2>2. \A k \in 1 .. Len(s) : \A a \in A : G[<<a, k>>] \in A  BY <1>1, <1>2
  <2>3. QED  BY <2>1, <2>2, FoldRuns
<1> HIDE DEF A
<1>4. P(f)
  <2>1. \A k \in 0 .. Len(s) : f[k] = IF k = 0 THEN <<>> ELSE PullOne(f[k - 1], s, k)
    <3>1. ASSUME NEW k \in 0 .. Len(s), k # 0 PROVE G[<<f[k - 1], k>>] = PullOne(f[k - 1], s, k)
      <4>1. k - 1 \in 0 .. Len(s) /\ k \in 1 .. Len(s)  BY <3>1
      <4> HIDE DEF G
      <4>2. QED  BY <1>2, <4>1
    <3> HIDE DEF G
    <3>2. QED  BY <1>3, <3>1 DEF Runs
  <2>2. f = [k \in 0 .. Len(s) |-> f[k]]  BY <1>3
  <2>3. QED  BY <2>1, <2>2
<1>5. P(h)  BY <1>4
<1>6. pullToolResultsAfterTheirCalls(s) = MapSeq(h[Len(s)], LAMBDA i : s[i])
  <2>1. Len(Indices(s)) = Len(s) /\ \A k \in 1 .. Len(s) : Indices(s)[k] = k  BY DEF Indices
  <2> DEFINE Q(g) == g = [k \in 0 .. Len(Indices(s)) |->
                            IF k = 0 THEN <<>> ELSE PullOne(g[k - 1], s, Indices(s)[k])]
  <2>2. pullToolResultsAfterTheirCalls(s) = MapSeq((CHOOSE g : Q(g))[Len(Indices(s))], LAMBDA i : s[i])
    BY DEF pullToolResultsAfterTheirCalls, Fold
  <2>3. \A g : Q(g) <=> P(g)
    <3> TAKE g
    <3>1. \A k \in 0 .. Len(s) : (IF k = 0 THEN <<>> ELSE PullOne(g[k - 1], s, Indices(s)[k]))
                                = IF k = 0 THEN <<>> ELSE PullOne(g[k - 1], s, k)
      BY <2>1
    <3>2. QED  BY <2>1, <3>1
  <2> HIDE DEF P, Q
  <2>4. (CHOOSE g : Q(g)) = (CHOOSE g : P(g))  BY <2>3
  <2>5. QED  BY <2>1, <2>2, <2>4
<1> HIDE DEF h
<1>7. \A k \in 0 .. Len(s) : h[k] = IF k = 0 THEN <<>> ELSE PullOne(h[k - 1], s, k)  BY <1>5
<1>8. Len(s) \in Nat /\ \A k \in 1 .. Len(s) : k \in 0 .. Len(s) /\ k # 0  OBVIOUS
<1>9. h[0] = <<>> /\ \A k \in 1 .. Len(s) : h[k] = PullOne(h[k - 1], s, k)
  <2> HIDE DEF P
  <2>1. QED  BY <1>7, <1>8
<1> HIDE DEF P, G
<1>10. QED  BY <1>6, <1>9

\* The turns i and j answer to each other and to nobody else.
Mated(s, i, j) ==
    /\ i < j /\ UseIds(s[i]) = ResultIds(s[j]) /\ ResultIds(s[j]) # {}
    /\ \A k \in DOMAIN s : k # j => ResultIds(s[k]) \cap ResultIds(s[j]) = {}
\* j is placed right behind i, or will be: it stands there and nobody drew it.
Behind(o, i, j) == \E a \in DOMAIN o : a + 1 \in DOMAIN o /\ o[a] = i /\ o[a + 1] = j
PairTo(s, k, o, i, j) ==
    \/ Behind(o, i, j)
    \/ i = k /\ j = k + 1 /\ o # <<>> /\ o[Len(o)] = k /\ j \notin Elements(o)
\* Turns behind the k-th are placed only for results of calls before it.
Drawn(s, k, o) == \A j \in Elements(o) : j <= k \/ \E i \in 1 .. k : \E id \in UseIds(s[i]) : j \in Homes(s, id)
\* The first k turns are placed, and every pair among them is together.
Ordered(s, k, o) ==
    /\ o \in Orders(s) /\ 1 .. k \subseteq Elements(o) /\ Drawn(s, k, o)
    /\ k >= 1 => o # <<>> /\ o[1] = 1
    /\ \A i, j \in DOMAIN s : Mated(s, i, j) /\ i <= k => PairTo(s, k, o, i, j)

\* A mated turn is the home of the results of each of the calls.
LEMMA MatedTurns ==
    ASSUME NEW s \in Seq(Proper), NEW i \in DOMAIN s, NEW j \in DOMAIN s, Mated(s, i, j), NoId \notin Names
    PROVE  /\ ~s[i].user /\ s[j].user /\ UseIds(s[i]) # {} /\ UseIds(s[j]) = {} /\ ResultIds(s[i]) = {}
           /\ \A id \in UseIds(s[i]) : Homes(s, id) = {j} /\ Home(s, id) = j
<1>1. s[i] \in Proper /\ s[j] \in Proper  OBVIOUS
<1>2. s[i].uses # <<>> /\ s[j].results # <<>>  BY <1>1, NoCalls DEF Mated
<1>3. ~s[i].user /\ s[j].user /\ s[j].uses = <<>> /\ s[i].results = <<>>  BY <1>1, <1>2 DEF Proper
<1>4. UseIds(s[i]) # {} /\ UseIds(s[j]) = {} /\ ResultIds(s[i]) = {}  BY <1>1, <1>2, <1>3, NoCalls
<1>5. ASSUME NEW id \in UseIds(s[i]) PROVE Homes(s, id) = {j} /\ Home(s, id) = j
  <2>1. \A k \in DOMAIN s : k \in Homes(s, id) <=> k = j  BY <1>3, <1>5 DEF Homes, Mated
  <2>2. Homes(s, id) = {j}  BY <2>1 DEF Homes
  <2>3. id # NoId
    <3>1. s[i].uses \in Seq(Names)  BY <1>1 DEF Proper, TurnRows
    <3>2. id \in Names  BY <1>5, <3>1 DEF UseIds, Elements
    <3>3. QED  BY <3>2
  <2>4. Home(s, id) \in Homes(s, id)  BY <2>2, <2>3, HomeTurn
  <2>5. QED  BY <2>2, <2>4
<1>6. QED  BY <1>3, <1>4, <1>5

\* No earlier turn draws either of two mated turns.
LEMMA NotDrawn ==
    ASSUME NEW s \in Seq(Proper), Once(s), NEW k \in DOMAIN s, NEW o, Drawn(s, k - 1, o), NoId \notin Names,
           NEW j \in DOMAIN s, Mated(s, k, j)
    PROVE  k \notin Elements(o) /\ j \notin Elements(o)
<1>0. k \in Nat /\ j \in Nat /\ k < j /\ DOMAIN s = 1 .. Len(s) /\ Len(s) \in Nat  BY DEF Mated
<1>1. ~s[k].user /\ UseIds(s[k]) = ResultIds(s[j])  BY MatedTurns DEF Mated
<1>2. ASSUME k \in Elements(o) PROVE FALSE
  <2>1. PICK i \in 1 .. k - 1 : \E id \in UseIds(s[i]) : k \in Homes(s, id)  BY <1>0, <1>2 DEF Drawn
  <2>2. QED  BY <1>1, <2>1 DEF Homes
<1>3. ASSUME j \in Elements(o) PROVE FALSE
  <2>1. PICK i \in 1 .. k - 1 : \E id \in UseIds(s[i]) : j \in Homes(s, id)  BY <1>0, <1>3 DEF Drawn
  <2>2. PICK id \in UseIds(s[i]) : j \in Homes(s, id)  BY <2>1
  <2>3. id \in UseIds(s[k]) /\ i \in DOMAIN s /\ i # k  BY <1>0, <1>1, <2>2 DEF Homes
  <2>4. QED  BY <2>2, <2>3 DEF Once
<1>4. QED  BY <1>2, <1>3

\* The next turn is placed where it belongs.
LEMMA OrderedNext ==
    ASSUME NEW s \in Seq(Proper), Once(s), NoId \notin Names, NEW k \in 1 .. Len(s), NEW o, Ordered(s, k - 1, o)
    PROVE  Ordered(s, k, PullOne(o, s, k))
<1>0. DOMAIN s = 1 .. Len(s) /\ Len(s) \in Nat /\ k \in Nat /\ k \in DOMAIN s /\ DOMAIN s \subseteq Nat  OBVIOUS
<1>1. o \in Seq(DOMAIN s) /\ Different(o) /\ o \in Seq(Nat) /\ Len(o) \in Nat /\ DOMAIN o = 1 .. Len(o)
  <2>1. o \in Seq(DOMAIN s) /\ Different(o)  BY DEF Ordered, Orders
  <2>2. QED  BY <1>0, <2>1
<1> DEFINE p == PullOne(o, s, k)
<1>2. \A i \in 1 .. k : i \in 1 .. k - 1 \/ i = k  BY <1>0
<1>3. CASE k \in Elements(o)
  <2>1. p = o  BY <1>3 DEF PullOne
  <2>2. 1 .. k \subseteq Elements(o)  BY <1>2, <1>3 DEF Ordered
  <2>3. Drawn(s, k, o)
    <3>1. \A j \in Elements(o) : j \in Nat  BY <1>1 DEF Elements
    <3>2. \A j \in Elements(o) : j <= k - 1 => j <= k  BY <1>0, <3>1
    <3>3. 1 .. k - 1 \subseteq 1 .. k  BY <1>0
    <3>4. QED  BY <3>2, <3>3 DEF Ordered, Drawn
  <2>4. o # <<>> /\ o[1] = 1
    <3>1. k >= 2
      <4>1. CASE k = 1
        <5>1. Drawn(s, 0, o)  BY <4>1 DEF Ordered
        <5>2. \A i \in 1 .. 0 : FALSE  OBVIOUS
        <5>3. \A j \in Elements(o) : j <= 0  BY <5>1, <5>2 DEF Drawn
        <5>4. QED  BY <1>3, <4>1, <5>3
      <4>2. QED  BY <1>0, <4>1
    <3>2. k - 1 >= 1  BY <1>0, <3>1
    <3>3. QED  BY <3>2 DEF Ordered
  <2>5. ASSUME NEW i \in DOMAIN s, NEW j \in DOMAIN s, Mated(s, i, j), i <= k PROVE PairTo(s, k, o, i, j)
    <3>1. i # k
      <4>1. Drawn(s, k - 1, o)  BY DEF Ordered
      <4>2. QED  BY <1>0, <1>3, <2>5, <4>1, NotDrawn
    <3>2. i <= k - 1  BY <1>0, <2>5, <3>1
    <3>3. PairTo(s, k - 1, o, i, j)  BY <2>5, <3>2 DEF Ordered
    <3>4. ~(j = (k - 1) + 1 /\ j \notin Elements(o))  BY <1>0, <1>3
    <3>5. QED  BY <3>3, <3>4 DEF PairTo
  <2>6. QED  BY <2>1, <2>2, <2>3, <2>4, <2>5 DEF Ordered
<1>4. CASE k \notin Elements(o)
  <2>1. Grown(o, p, s, k)  BY <1>0, <1>1, <1>4, PullOneGrows
  <2> HIDE DEF p
  <2>2. /\ p \in Seq(DOMAIN s) /\ Different(p) /\ Len(p) \in Nat /\ Len(p) >= Len(o) + 1 /\ DOMAIN p = 1 .. Len(p)
        /\ \A a \in DOMAIN o : a \in DOMAIN p /\ p[a] = o[a]
        /\ p[Len(o) + 1] = k /\ Len(o) + 1 \in DOMAIN p /\ p # <<>>
    <3>1. /\ p \in Seq(DOMAIN s) /\ Different(p) /\ Len(p) >= Len(o) + 1
          /\ \A a \in DOMAIN o : a \in DOMAIN p /\ p[a] = o[a]
          /\ p[Len(o) + 1] = k
      BY <2>1 DEF Grown
    <3>2. Len(p) \in Nat /\ DOMAIN p = 1 .. Len(p)  BY <3>1
    <3>3. Len(o) + 1 \in DOMAIN p  BY <1>1, <3>1, <3>2
    <3>4. p # <<>>  BY <3>3
    <3>5. QED  BY <3>1, <3>2, <3>3, <3>4
  <2>3. 1 .. k \subseteq Elements(p)
    <3>1. Elements(o) \subseteq Elements(p) /\ k \in Elements(p)  BY <2>2 DEF Elements
    <3>2. QED  BY <1>2, <3>1 DEF Ordered
  <2>4. Drawn(s, k, p)
    <3> SUFFICES ASSUME NEW j \in Elements(p)
                 PROVE  j <= k \/ \E i \in 1 .. k : \E id \in UseIds(s[i]) : j \in Homes(s, id)
      BY DEF Drawn
    <3>1. PICK a \in DOMAIN p : p[a] = j  BY DEF Elements
    <3>2. CASE a \in DOMAIN o
      <4>1. j \in Elements(o) /\ j \in Nat  BY <1>1, <2>2, <3>1, <3>2 DEF Elements
      <4>2. j <= k - 1 => j <= k  BY <1>0, <4>1
      <4>3. 1 .. k - 1 \subseteq 1 .. k  BY <1>0
      <4>4. QED  BY <4>1, <4>2, <4>3 DEF Ordered, Drawn
    <3>3. CASE a = Len(o) + 1  BY <1>0, <2>2, <3>1, <3>3
    <3>4. CASE \E id \in UseIds(s[k]) : p[a] \in Homes(s, id)
      <4>1. k \in 1 .. k  BY <1>0
      <4>2. QED  BY <3>1, <3>4, <4>1
    <3>5. QED  BY <2>1, <3>1, <3>2, <3>3, <3>4 DEF Grown
  <2>5. p[1] = 1
    <3>1. CASE k = 1
      <4>1. o = <<>>
        <5>1. Drawn(s, 0, o)  BY <3>1 DEF Ordered
        <5>2. \A i \in 1 .. 0 : FALSE  OBVIOUS
        <5>3. \A j \in Elements(o) : j <= 0  BY <5>1, <5>2 DEF Drawn
        <5>4. \A j \in Elements(o) : j \in DOMAIN s  BY <1>1 DEF Elements
        <5>5. \A j \in DOMAIN s : ~(j <= 0)  BY <1>0
        <5>6. Elements(o) = {}  BY <5>3, <5>4, <5>5
        <5>7. DOMAIN o = {}  BY <5>6 DEF Elements
        <5>8. QED  BY <1>1, <5>7, EmptyDomain
      <4>2. Len(o) = 0  BY <4>1
      <4>3. QED  BY <2>2, <3>1, <4>2
    <3>2. CASE k # 1
      <4>1. k - 1 >= 1  BY <1>0, <3>2
      <4>2. o # <<>> /\ o[1] = 1  BY <4>1 DEF Ordered
      <4>3. 1 \in DOMAIN o  BY <1>1, <4>2
      <4>4. QED  BY <2>2, <4>2, <4>3
    <3>3. QED  BY <3>1, <3>2
  <2>6. ASSUME NEW i \in DOMAIN s, NEW j \in DOMAIN s, Mated(s, i, j), i <= k PROVE PairTo(s, k, p, i, j)
    <3>1. CASE i # k
      <4>1. i <= k - 1  BY <1>0, <2>6, <3>1
      <4>2. PairTo(s, k - 1, o, i, j)  BY <2>6, <4>1 DEF Ordered
      <4>3. CASE Behind(o, i, j)
        <5>1. Behind(p, i, j)  BY <2>2, <4>3 DEF Behind
        <5>2. QED  BY <5>1 DEF PairTo
      <4>4. CASE i = k - 1 /\ j = (k - 1) + 1 /\ o # <<>> /\ o[Len(o)] = k - 1
        <5>1. Len(o) \in DOMAIN o /\ j = k  BY <1>0, <1>1, <4>4
        <5>2. p[Len(o)] = i /\ p[Len(o) + 1] = j /\ Len(o) \in DOMAIN p  BY <2>2, <4>4, <5>1
        <5>3. Behind(p, i, j)  BY <2>2, <5>2 DEF Behind
        <5>4. QED  BY <5>3 DEF PairTo
      <4>5. QED  BY <4>2, <4>3, <4>4 DEF PairTo
    <3>2. CASE i = k
      <4>1. j \notin Elements(o)
        <5>1. Drawn(s, k - 1, o)  BY DEF Ordered
        <5>2. QED  BY <1>0, <2>6, <3>2, <5>1, NotDrawn
      <4>2. UseIds(s[k]) # {} /\ \A id \in UseIds(s[k]) : Home(s, id) = j  BY <2>6, <3>2, MatedTurns
      <4>3. j # k /\ j \in Nat  BY <1>0, <2>6, <3>2 DEF Mated
      <4>4. CASE j = k + 1
        <5>1. p = Append(o, k)  BY <1>0, <1>1, <1>4, <4>2, <4>4, PullNone DEF p
        <5>2. Len(p) = Len(o) + 1 /\ \A a \in DOMAIN p : p[a] = k \/ (a \in DOMAIN o /\ p[a] = o[a])
          BY <1>0, <1>1, <5>1, AppendFacts
        <5>3. j \notin Elements(p)  BY <4>1, <4>3, <5>2 DEF Elements
        <5>4. p[Len(p)] = k  BY <2>2, <5>2
        <5>5. QED  BY <2>2, <3>2, <4>4, <5>3, <5>4 DEF PairTo
      <4>5. CASE j # k + 1
        <5>1. p = Append(Append(o, k), j)  BY <1>0, <1>1, <1>4, <4>1, <4>2, <4>3, <4>5, PullPartner DEF p
        <5>2. Append(o, k) \in Seq(Nat) /\ Len(Append(o, k)) = Len(o) + 1  BY <1>0, <1>1, AppendFacts
        <5>3. p[Len(o) + 2] = j /\ Len(o) + 2 \in DOMAIN p /\ Len(o) + 2 = (Len(o) + 1) + 1
          BY <1>1, <4>3, <5>1, <5>2
        <5>4. Behind(p, k, j)  BY <2>2, <5>3 DEF Behind
        <5>5. QED  BY <3>2, <5>4 DEF PairTo
      <4>6. QED  BY <4>4, <4>5
    <3>3. QED  BY <3>1, <3>2
  <2>7. QED  BY <2>2, <2>3, <2>4, <2>5, <2>6 DEF Ordered, Orders, p
<1>5. QED  BY <1>3, <1>4

\* The turn r stands right behind the calls it alone answers.
Adjacent(s, r) == \E a \in DOMAIN s : a + 1 \in DOMAIN s /\ PartnersAt(s, r, a, a + 1)

\* An order that places every turn loses nothing.
LEMMA Reordered ==
    ASSUME NEW s \in Seq(Sound), NEW o \in Orders(s), DOMAIN s \subseteq Elements(o), NEW p,
           p = [a \in DOMAIN o |-> s[o[a]]]
    PROVE  /\ p \in Seq(Sound) /\ Len(p) = Len(o) /\ DOMAIN p = DOMAIN o /\ \A a \in DOMAIN o : p[a] = s[o[a]]
           /\ Once(s) => Once(p)
           /\ CallsOf(p) = CallsOf(s) /\ AnswersOf(p) \subseteq AnswersOf(s) /\ \A id : Heard(s, id) => Heard(p, id)
           /\ \A i, j \in DOMAIN s : Mated(s, i, j) /\ Behind(o, i, j) => Adjacent(p, s[j])
<1>1. o \in Seq(DOMAIN s) /\ Different(o) /\ DOMAIN o = 1 .. Len(o) /\ Len(o) \in Nat  BY DEF Orders
<1>2. \A a \in DOMAIN o : o[a] \in DOMAIN s /\ s[o[a]] \in Sound  BY <1>1
<1>3. p = [a \in 1 .. Len(o) |-> s[o[a]]]  BY <1>1
<1>4. p \in Seq(Sound) /\ Len(p) = Len(o) /\ DOMAIN p = DOMAIN o /\ \A a \in DOMAIN o : p[a] = s[o[a]]
    BY <1>1, <1>2, <1>3
<1>5. \A j \in DOMAIN s : \E a \in DOMAIN o : o[a] = j  BY DEF Elements
<1>6. ASSUME Once(s) PROVE Once(p)
  <2>1. \A a, b \in DOMAIN o : a # b => o[a] # o[b]  BY <1>1 DEF Different
  <2>2. QED  BY <1>2, <1>4, <1>6, <2>1 DEF Once
<1>7. CallsOf(p) = CallsOf(s)
  <2>1. \A x : x \in CallsOf(p) <=> \E a \in DOMAIN p : x \in UseIds(p[a])  BY DEF CallsOf
  <2>2. \A x : x \in CallsOf(s) <=> \E a \in DOMAIN s : x \in UseIds(s[a])  BY DEF CallsOf
  <2>3. \A x : x \in CallsOf(p) <=> x \in CallsOf(s)  BY <1>2, <1>4, <1>5, <2>1, <2>2
  <2>4. QED  BY <2>3
<1>8. AnswersOf(p) \subseteq AnswersOf(s)  BY <1>2, <1>4 DEF AnswersOf
<1>9. ASSUME NEW id, Heard(s, id) PROVE Heard(p, id)
  <2>1. PICK j \in DOMAIN s : ToldBy(s[j], id)  BY <1>9 DEF Heard
  <2>2. PICK a \in DOMAIN o : o[a] = j  BY <1>5
  <2>3. QED  BY <1>4, <2>1, <2>2 DEF Heard
<1>10. ASSUME NEW i \in DOMAIN s, NEW j \in DOMAIN s, Mated(s, i, j), Behind(o, i, j) PROVE Adjacent(p, s[j])
  <2>1. PICK a \in DOMAIN o : a + 1 \in DOMAIN o /\ o[a] = i /\ o[a + 1] = j  BY <1>10 DEF Behind
  <2>2. \A k \in DOMAIN p : k # a + 1 => o[k] # j  BY <1>1, <1>4, <2>1 DEF Different
  <2>3. \A k \in DOMAIN p : k # a + 1 => ResultIds(p[k]) \cap ResultIds(s[j]) = {}
    BY <1>2, <1>4, <1>10, <2>2 DEF Mated
  <2>4. a < a + 1  BY <1>1
  <2>5. PartnersAt(p, s[j], a, a + 1)  BY <1>4, <1>10, <2>1, <2>3, <2>4 DEF PartnersAt, Mated
  <2>6. QED  BY <1>4, <2>1, <2>5 DEF Adjacent
<1>11. QED  BY <1>4, <1>6, <1>7, <1>8, <1>9, <1>10

\* The last turn answers the one before it, and no other does.
EndPair(s, a, r) == EndsWith(s, a, r) /\ PartnersAt(s, r, Len(s) - 1, Len(s))

\* The last turn, if it is paired at all, is paired with the one before it.
LEMMA EndPartners ==
    ASSUME NEW s \in Seq(Proper), Once(s), NEW a, NEW r, EndsWith(s, a, r), Partners(s, r), UseIds(a) = ResultIds(r)
    PROVE  EndPair(s, a, r)
<1>1. PICK i, j \in DOMAIN s : PartnersAt(s, r, i, j)  BY DEF Partners
<1>2. /\ Len(s) \in DOMAIN s /\ Len(s) - 1 \in DOMAIN s /\ s[Len(s) - 1] = a /\ s[Len(s)] = r
      /\ Len(s) \in Nat
    BY DEF EndsWith
<1>3. j = Len(s)  BY <1>1, <1>2 DEF PartnersAt
<1>4. i = Len(s) - 1
  <2>1. UseIds(s[i]) = UseIds(s[Len(s) - 1]) /\ UseIds(s[i]) # {}  BY <1>1, <1>2 DEF PartnersAt
  <2>2. UseIds(s[i]) \cap UseIds(s[Len(s) - 1]) # {}  BY <2>1
  <2>3. QED  BY <1>1, <1>2, <2>2 DEF Once
<1>5. QED  BY <1>1, <1>3, <1>4 DEF EndPair

\* Pulling the results up separates no pair: it brings together the ones that were apart.
LEMMA Pulled ==
    ASSUME NEW s \in Seq(Sound), Opens(s), Once(s), NoId \notin Names
    PROVE  LET t == pullToolResultsAfterTheirCalls(s)
           IN  /\ t \in Seq(Sound) /\ Opens(t) /\ Once(t)
               /\ CallsOf(t) = CallsOf(s) /\ AnswersOf(t) \subseteq AnswersOf(s) /\ \A id : Heard(s, id) => Heard(t, id)
               /\ \A r : Partners(s, r) => Adjacent(t, r)
               /\ \A a, r : EndPair(s, a, r) => EndPair(t, a, r)
<1> DEFINE t == pullToolResultsAfterTheirCalls(s)
           n == Len(s)
<1>0. s \in Seq(Proper) /\ DOMAIN s = 1 .. n /\ n \in Nat /\ n >= 1
  <2>1. s \in Seq(Proper) /\ DOMAIN s = 1 .. n /\ n \in Nat  BY SoundTurns
  <2>2. n # 0  BY DEF Opens
  <2>3. QED  BY <2>1, <2>2
<1>1. PICK f : /\ f[0] = <<>> /\ \A k \in 1 .. n : f[k] = PullOne(f[k - 1], s, k)
               /\ t = MapSeq(f[n], LAMBDA i : s[i])
    BY <1>0, PullsUnfold
<1> HIDE DEF n, t
<1> DEFINE U == {k \in 0 .. n : Ordered(s, k, f[k])}
<1>2. 0 \in U
  <2>1. <<>> \in Orders(s) /\ Elements(<<>>) = {} /\ 1 .. 0 = {}  BY DEF Orders, Different, Elements
  <2>2. ASSUME NEW i \in DOMAIN s PROVE ~(i <= 0)  BY <1>0
  <2>3. Ordered(s, 0, <<>>)  BY <2>1, <2>2 DEF Ordered, Drawn
  <2>4. 0 \in 0 .. n  BY <1>0
  <2>5. QED  BY <1>1, <2>3, <2>4
<1>3. ASSUME NEW k \in 1 .. n, k - 1 \in U PROVE k \in U
  <2>1. f[k] = PullOne(f[k - 1], s, k) /\ Ordered(s, k - 1, f[k - 1]) /\ k \in 1 .. Len(s)  BY <1>1, <1>3 DEF n
  <2>2. Ordered(s, k, f[k])  BY <1>0, <2>1, OrderedNext
  <2>3. k \in 0 .. n  BY <1>0
  <2>4. QED  BY <2>2, <2>3
<1>4. U \in SUBSET (0 .. n)  OBVIOUS
<1> HIDE DEF U
<1>5. U = 0 .. n  BY <1>0, <1>2, <1>3, <1>4, UpFromZero
<1>6. \A k \in 0 .. n : Ordered(s, k, f[k])  BY <1>5 DEF U
<1> DEFINE o == f[n]
<1>7. /\ o \in Orders(s) /\ DOMAIN s \subseteq Elements(o) /\ o # <<>> /\ o[1] = 1 /\ t = [a \in DOMAIN o |-> s[o[a]]]
      /\ \A i, j \in DOMAIN s : Mated(s, i, j) => PairTo(s, n, o, i, j)
  <2>1. n \in 0 .. n /\ \A i \in DOMAIN s : i <= n  BY <1>0
  <2>2. Ordered(s, n, o)  BY <1>6, <2>1
  <2>3. t = [a \in DOMAIN o |-> s[o[a]]]  BY <1>1 DEF MapSeq
  <2>4. QED  BY <1>0, <2>1, <2>2, <2>3 DEF Ordered
<1> HIDE DEF o
<1>8. /\ t \in Seq(Sound) /\ Len(t) = Len(o) /\ DOMAIN t = DOMAIN o /\ \A a \in DOMAIN o : t[a] = s[o[a]]
      /\ Once(t) /\ CallsOf(t) = CallsOf(s) /\ AnswersOf(t) \subseteq AnswersOf(s) /\ \A id : Heard(s, id) => Heard(t, id)
      /\ \A i, j \in DOMAIN s : Mated(s, i, j) /\ Behind(o, i, j) => Adjacent(t, s[j])
    BY <1>7, Reordered
<1>9. Opens(t)
  <2>1. o \in Seq(DOMAIN s)  BY <1>7 DEF Orders
  <2>2. 1 \in DOMAIN o  BY <1>7, <2>1
  <2>3. t[1] = s[1] /\ 1 \in DOMAIN t  BY <1>7, <1>8, <2>2
  <2>5. t # <<>>  BY <2>3
  <2>4. QED  BY <2>3, <2>5 DEF Opens
<1>10. ASSUME NEW r, Partners(s, r) PROVE Adjacent(t, r)
  <2>1. PICK i, j \in DOMAIN s : PartnersAt(s, r, i, j)  BY <1>10 DEF Partners
  <2>2. Mated(s, i, j) /\ s[j] = r  BY <2>1 DEF PartnersAt, Mated
  <2>3. PairTo(s, n, o, i, j) /\ j # n + 1  BY <1>0, <1>7, <2>2
  <2>4. Behind(o, i, j)  BY <2>3 DEF PairTo
  <2>5. QED  BY <1>8, <2>2, <2>4
<1>11. ASSUME NEW a, NEW r, EndPair(s, a, r) PROVE EndPair(t, a, r)
  <2>1. n >= 2 /\ n - 1 \in DOMAIN s /\ n \in DOMAIN s /\ s[n - 1] = a /\ s[n] = r /\ PartnersAt(s, r, n - 1, n)
    BY <1>0, <1>11 DEF EndPair, EndsWith, n
  <2>2. Mated(s, n - 1, n)  BY <2>1 DEF PartnersAt, Mated
  <2>3. UseIds(s[n]) = {} /\ \A id \in UseIds(s[n - 1]) : Home(s, id) = n  BY <1>0, <2>1, <2>2, MatedTurns
  <2> DEFINE e == f[n - 2]
             g == f[n - 1]
  <2>4. Ordered(s, n - 2, e) /\ f[n - 1] = PullOne(e, s, n - 1) /\ f[n] = PullOne(g, s, n)
    <3>1. n - 2 \in 0 .. n /\ n - 1 \in 1 .. n /\ n \in 1 .. n /\ n - 2 = (n - 1) - 1  BY <1>0, <2>1
    <3>2. QED  BY <1>1, <1>6, <3>1
  <2> HIDE DEF e, g
  <2>5. e \in Seq(DOMAIN s) /\ e \in Seq(Nat) /\ Len(e) \in Nat
    <3>1. e \in Seq(DOMAIN s) /\ DOMAIN s \subseteq Nat  BY <1>0, <2>4 DEF Ordered, Orders
    <3>2. QED  BY <3>1
  <2>6. n - 1 \notin Elements(e) /\ n \notin Elements(e)
    <3>1. Drawn(s, (n - 1) - 1, e)
      <4>1. (n - 1) - 1 = n - 2  BY <1>0
      <4>2. QED  BY <2>4, <4>1 DEF Ordered
    <3>2. QED  BY <1>0, <2>1, <2>2, <3>1, NotDrawn
  <2>7. g = Append(e, n - 1)
    <3>1. \A id \in UseIds(s[n - 1]) : Home(s, id) \in {0, (n - 1) + 1}  BY <1>0, <2>3
    <3>2. PullOne(e, s, n - 1) = Append(e, n - 1)  BY <1>0, <2>1, <2>5, <2>6, <3>1, PullNone
    <3>3. QED  BY <2>4, <3>2 DEF g
  <2>8. n - 1 \in Nat /\ n \in Nat  BY <1>0, <2>1
  <2>9. g \in Seq(Nat) /\ Len(g) = Len(e) + 1 /\ g[Len(e) + 1] = n - 1 /\ n \notin Elements(g)
    <3>1. /\ g \in Seq(Nat) /\ Len(g) = Len(e) + 1 /\ g[Len(e) + 1] = n - 1
          /\ \A b \in DOMAIN g : b \in DOMAIN e \/ b = Len(e) + 1
          /\ \A b \in DOMAIN e : g[b] = e[b]
      BY <2>5, <2>7, <2>8, AppendFacts
    <3>2. n \notin Elements(g)
      <4>1. n # n - 1  BY <1>0
      <4>2. QED  BY <2>6, <3>1, <4>1 DEF Elements
    <3>3. QED  BY <3>1, <3>2
  <2>10. o = Append(g, n)
    <3>1. \A id \in UseIds(s[n]) : Home(s, id) \in {0, n + 1}  BY <2>3
    <3>2. PullOne(g, s, n) = Append(g, n)  BY <1>0, <2>1, <2>9, <3>1, PullNone
    <3>3. QED  BY <2>4, <3>2 DEF o
  <2>11. Len(o) = Len(e) + 2 /\ o[Len(e) + 1] = n - 1 /\ o[Len(e) + 2] = n /\ DOMAIN o = 1 .. Len(e) + 2
    BY <2>5, <2>8, <2>9, <2>10
  <2>12. /\ Len(t) - 1 = Len(e) + 1 /\ Len(t) = Len(e) + 2 /\ Len(t) >= 2
         /\ Len(e) + 1 \in DOMAIN o /\ Len(e) + 2 \in DOMAIN o
    BY <1>8, <2>5, <2>11
  <2>13. EndsWith(t, a, r)  BY <1>8, <2>1, <2>11, <2>12 DEF EndsWith
  <2>14. Adjacent(t, r)  BY <1>0, <1>10, <2>1 DEF Partners
  <2>15. Partners(t, r)  BY <2>14 DEF Adjacent, Partners
  <2>16. t \in Seq(Proper) /\ UseIds(a) = ResultIds(r)  BY <1>8, <2>1, SoundTurns DEF PartnersAt
  <2>17. QED  BY <1>8, <2>13, <2>15, <2>16, EndPartners
<1>12. QED  BY <1>8, <1>9, <1>10, <1>11 DEF t

(*****************************************************************************)
(* Results that answer the turn before                                       *)
(*****************************************************************************)
Distinct(m) == \A a, b \in DOMAIN m.results : m.results[a].id = m.results[b].id => a = b

\* What becomes of a turn that may answer the calls W.
Answering(m, W) ==
    LET kept == FirstFor(m.results, W)
    IN  IF ~m.user \/ m.results = <<>> \/ kept = DOMAIN m.results THEN m
        ELSE [m EXCEPT !.text = @ \cup Narrated(m.results, kept), !.results = At(m.results, kept)]

AnsweringOnly(m, W, t) ==
    /\ t \in Sound /\ t.user = m.user /\ t.uses = m.uses
    /\ ResultIds(t) \subseteq W /\ Elements(t.results) \subseteq Elements(m.results) /\ Distinct(t)
    /\ \A id : ToldBy(m, id) => ToldBy(t, id)
    /\ ResultIds(m) = W => ResultIds(t) = W
    /\ Distinct(m) /\ ResultIds(m) \subseteq W => t = m

\* Each wanted identifier keeps its first result, and what is not kept is told.
LEMMA AnsweringTurn ==
    ASSUME NEW m \in Sound, NEW W, NoId \notin Names
    PROVE  AnsweringOnly(m, W, Answering(m, W))
<1> DEFINE rs == m.results
           kept == FirstFor(rs, W)
           N == Narrated(rs, kept)
           t == [m EXCEPT !.text = @ \cup N, !.results = At(rs, kept)]
<1>0. m \in Proper /\ m \in TurnRows /\ rs \in Seq(ResultRows) /\ DOMAIN rs = 1 .. Len(rs) /\ Len(rs) \in Nat
  <2>1. m \in Proper /\ m \in TurnRows  BY DEF Sound, Proper
  <2>2. rs \in Seq(ResultRows)  BY <2>1 DEF TurnRows
  <2>3. QED  BY <2>1, <2>2
<1>1. \A a \in DOMAIN rs : rs[a] \in ResultRows /\ rs[a].id \in Names /\ rs[a].id # NoId
  <2>1. \A a \in DOMAIN rs : rs[a] \in ResultRows  BY <1>0
  <2>2. QED  BY <2>1 DEF ResultRows
<1>2. kept \subseteq DOMAIN rs /\ \A a \in kept : rs[a].id \in W  BY DEF FirstFor
<1>3. \A a, b \in kept : rs[a].id = rs[b].id => a = b
  <2> SUFFICES ASSUME NEW a \in kept, NEW b \in kept, rs[a].id = rs[b].id PROVE a = b  OBVIOUS
  <2>1. a \in Nat /\ b \in Nat /\ a >= 1 /\ b >= 1  BY <1>0, <1>2
  <2>2. ~(a < b)
    <3>1. a < b => a \in 1 .. b - 1  BY <2>1
    <3>2. QED  BY <3>1 DEF FirstFor
  <2>3. ~(b < a)
    <3>1. b < a => b \in 1 .. a - 1  BY <2>1
    <3>2. QED  BY <3>1 DEF FirstFor
  <2>4. QED  BY <2>1, <2>2, <2>3
\* Each wanted identifier is kept where it is found first.
<1>4. ASSUME NEW x, x \in ResultIds(m), x \in W PROVE \E a \in kept : rs[a].id = x
  <2> DEFINE places == {a \in DOMAIN rs : rs[a].id = x}
  <2>1. places # {} /\ places \in SUBSET Nat /\ x # NoId
    <3>1. PICK a \in DOMAIN rs : rs[a].id = x  BY <1>4 DEF ResultIds, Elements
    <3>2. QED  BY <1>0, <1>1, <3>1
  <2>2. PICK a \in places : \A b \in places : a <= b
    <3> HIDE DEF places
    <3>1. QED  BY <2>1, LeastNatural
  <2>3. \A b \in 1 .. a - 1 : rs[b].id # x
    <3> SUFFICES ASSUME NEW b \in 1 .. a - 1, rs[b].id = x PROVE FALSE  OBVIOUS
    <3>1. b \in DOMAIN rs /\ ~(a <= b)  BY <1>0
    <3>2. QED  BY <2>2, <3>1
  <2>4. a \in kept  BY <1>4, <2>1, <2>3 DEF FirstFor
  <2>5. QED  BY <2>4
<1>5. CASE ~m.user \/ m.results = <<>> \/ kept = DOMAIN m.results
  <2>1. Answering(m, W) = m  BY <1>5 DEF Answering
  <2>2. kept = DOMAIN rs
    <3>1. CASE ~m.user \/ m.results = <<>>
      <4>1. m.results = <<>>  BY <1>0, <3>1 DEF Proper
      <4>2. DOMAIN rs = {}  BY <4>1
      <4>3. QED  BY <1>2, <4>2
    <3>2. QED  BY <1>5, <3>1
  <2>3. ResultIds(m) \subseteq W  BY <1>2, <2>2 DEF ResultIds, Elements
  <2>4. Distinct(m)  BY <1>3, <2>2 DEF Distinct
  <2>5. QED  BY <2>1, <2>3, <2>4 DEF AnsweringOnly
<1>6. CASE ~(~m.user \/ m.results = <<>> \/ kept = DOMAIN m.results)
  <2>1. Answering(m, W) = t  BY <1>6 DEF Answering
  <2>2. PICK g : /\ Picks(At(rs, kept), rs, Len(rs), g) /\ At(rs, kept) \in Seq(ResultRows)
                 /\ \A j \in 1 .. Len(rs) : Takes(g, j) <=> j \in kept
    <3> HIDE DEF kept, rs
    <3>1. QED  BY <1>0, AtPicks
  <2>3. /\ t.text = m.text \cup N /\ t.results = At(rs, kept) /\ t.user = m.user /\ t.uses = m.uses
        /\ t.images = m.images /\ t \in [user : {m.user}, text : {m.text \cup N}, results : {At(rs, kept)},
                                         images : {m.images}, uses : {m.uses}]
    BY <1>0 DEF TurnRows
  <2>4. N \subseteq Names /\ N # {}
    <3>1. \E a \in DOMAIN rs : a \notin kept  BY <1>2, <1>6
    <3>2. QED  BY <1>1, <3>1 DEF Narrated
  <2> DEFINE new == At(rs, kept)
  <2>5. /\ DOMAIN g = DOMAIN new /\ \A b \in DOMAIN new : g[b] \in kept /\ new[b] = rs[g[b]]
        /\ \A a \in kept : \E b \in DOMAIN new : g[b] = a
        /\ \A a, b \in DOMAIN new : g[a] = g[b] => a = b
    <3> HIDE DEF new, kept, rs
    <3>1. Picks(new, rs, Len(rs), g) /\ new \in Seq(ResultRows) /\ \A j \in 1 .. Len(rs) : Takes(g, j) <=> j \in kept
      BY <2>2 DEF new
    <3>2. /\ DOMAIN g = DOMAIN new /\ \A b \in DOMAIN new : g[b] \in 1 .. Len(rs) /\ new[b] = rs[g[b]]
          /\ \A a, b \in DOMAIN new : a < b => g[a] < g[b]
      BY <3>1 DEF Picks
    <3>3. \A b \in DOMAIN new : g[b] \in kept  BY <3>1, <3>2 DEF Takes
    <3>4. \A a \in kept : \E b \in DOMAIN new : g[b] = a
      <4>1. \A a \in kept : Takes(g, a)  BY <1>0, <1>2, <3>1
      <4>2. QED  BY <3>2, <4>1 DEF Takes
    <3>5. ASSUME NEW a \in DOMAIN new, NEW b \in DOMAIN new, g[a] = g[b] PROVE a = b
      <4>1. a \in Nat /\ b \in Nat /\ g[a] \in Nat  BY <3>1, <3>2
      <4>2. ~(a < b) /\ ~(b < a)  BY <3>2, <3>5, <4>1
      <4>3. QED  BY <4>1, <4>2
    <3>6. QED  BY <3>2, <3>3, <3>4, <3>5
  <2>6. new \in Seq(ResultRows)  BY <2>2
  <2> HIDE DEF t, new
  <2>7. t.results = new  BY <2>3 DEF new
  <2>8. t \in Sound
    <3>1. t \in TurnRows
      <4>1. m.text \in SUBSET Words /\ m.user \in BOOLEAN /\ m.images \in BOOLEAN /\ m.uses \in Seq(Names)
        BY <1>0 DEF TurnRows
      <4>2. m.text \cup N \in SUBSET Words  BY <2>4, <4>1 DEF Words
      <4> HIDE DEF N
      <4>3. QED  BY <2>3, <2>6, <4>1, <4>2 DEF TurnRows, new
    <3>2. t \in Proper  BY <1>0, <1>6, <2>3, <3>1 DEF Proper
    <3>3. t.user /\ Says(t)  BY <1>6, <2>3, <2>4 DEF Says
    <3>4. Neat(t)  BY <3>3 DEF Neat, Hollow
    <3>5. QED  BY <3>2, <3>3, <3>4 DEF Sound
  <2>9. ResultIds(t) \subseteq W /\ Elements(t.results) \subseteq Elements(rs)
    BY <1>2, <2>5, <2>7 DEF ResultIds, Elements
  <2>10. Distinct(t)  BY <1>3, <2>5, <2>7 DEF Distinct
  <2>11. ASSUME NEW id, ToldBy(m, id) PROVE ToldBy(t, id)
    <3>1. CASE id \in m.text  BY <1>6, <2>3, <3>1 DEF ToldBy
    <3>2. CASE Result(id) \in Elements(rs)
      <4>1. PICK a \in DOMAIN rs : rs[a] = Result(id)  BY <3>2 DEF Elements
      <4>2. CASE a \in kept
        <5>1. PICK b \in DOMAIN new : g[b] = a  BY <2>5, <4>2
        <5>2. Result(id) \in Elements(t.results)  BY <2>5, <2>7, <4>1, <5>1 DEF Elements
        <5>3. QED  BY <1>6, <2>3, <5>2 DEF ToldBy
      <4>3. CASE a \notin kept
        <5>1. id \in N
          <6>1. rs[a].id = id  BY <4>1 DEF Result
          <6>2. QED  BY <4>3, <6>1 DEF Narrated
        <5>2. QED  BY <1>6, <2>3, <5>1 DEF ToldBy
      <4>4. QED  BY <4>2, <4>3
    <3>3. QED  BY <2>11, <3>1, <3>2 DEF ToldBy
  <2>12. ASSUME ResultIds(m) = W PROVE ResultIds(t) = W
    <3>1. ASSUME NEW x, x \in W PROVE x \in ResultIds(t)
      <4>1. PICK a \in kept : rs[a].id = x  BY <1>4, <2>12, <3>1
      <4>2. PICK b \in DOMAIN new : g[b] = a  BY <2>5
      <4>3. t.results[b].id = x /\ b \in DOMAIN t.results  BY <2>5, <2>7, <4>1, <4>2
      <4>4. QED  BY <4>3 DEF ResultIds, Elements
    <3>2. QED  BY <2>9, <3>1
  <2>13. ASSUME Distinct(m), ResultIds(m) \subseteq W PROVE t = m
    <3>1. \A a \in DOMAIN rs : a \in kept
      <4> TAKE a \in DOMAIN rs
      <4>1. rs[a].id \in ResultIds(m)  BY DEF ResultIds, Elements
      <4>2. PICK b \in kept : rs[b].id = rs[a].id  BY <1>4, <2>13, <4>1
      <4>3. a = b  BY <1>2, <2>13, <4>2 DEF Distinct
      <4>4. QED  BY <4>3
    <3>2. kept = DOMAIN rs  BY <1>2, <3>1
    <3>3. QED  BY <1>6, <3>2
  <2>14. QED  BY <2>1, <2>3, <2>8, <2>9, <2>10, <2>11, <2>12, <2>13 DEF AnsweringOnly
<1>7. QED  BY <1>5, <1>6

\* FilterOne is that, for the calls of the turn before.
LEMMA FilterOneTurn ==
    ASSUME NEW s \in Seq(Sound), NEW i \in DOMAIN s, NoId \notin Names
    PROVE  FilterOne(s, i) = <<Answering(s[i], CallsAt(s, i - 1))>>
<1> DEFINE m == s[i]
           W == CallsAt(s, i - 1)
           kept == FirstFor(m.results, W)
           t == [m EXCEPT !.text = @ \cup Narrated(m.results, kept), !.results = At(m.results, kept)]
<1>1. CASE ~m.user \/ m.results = <<>> \/ kept = DOMAIN m.results  BY <1>1 DEF FilterOne, Answering
<1>2. CASE ~(~m.user \/ m.results = <<>> \/ kept = DOMAIN m.results)
  <2>1. Answering(m, W) = t  BY <1>2 DEF Answering
  <2>2. Answering(m, W) \in Sound /\ Answering(m, W).user
    <3>1. m \in Sound  OBVIOUS
    <3> HIDE DEF m, W
    <3>2. AnsweringOnly(m, W, Answering(m, W))  BY <3>1, AnsweringTurn
    <3>3. QED  BY <1>2, <3>2 DEF AnsweringOnly
  <2>3. ~(t.text = {} /\ t.results = <<>> /\ ~t.images)
    <3> HIDE DEF t
    <3>1. QED  BY <2>1, <2>2 DEF Sound, Says
  <2>4. FilterOne(s, i) = <<t>>  BY <1>2, <2>3 DEF FilterOne
  <2>5. QED  BY <2>1, <2>4
<1>3. QED  BY <1>1, <1>2

\* filterOrphanToolResults goes through the turns one by one, and drops none.
LEMMA FilterTurns ==
    ASSUME NEW s \in Seq(Sound), NoId \notin Names
    PROVE  filterOrphanToolResults(s) = [i \in 1 .. Len(s) |-> Answering(s[i], CallsAt(s, i - 1))]
<1> DEFINE A == Seq(Sound)
           n == Len(s)
           F(i) == Answering(s[i], CallsAt(s, i - 1))
           P(f) == f = [k \in 0 .. n |-> IF k = 0 THEN <<>> ELSE f[k - 1] \o FilterOne(s, k)]
           G == [p \in A \X (1 .. n) |-> p[1] \o FilterOne(s, p[2])]
           h == CHOOSE f : P(f)
<1>0. n \in Nat /\ DOMAIN s = 1 .. n  OBVIOUS
<1>1. \A k \in 1 .. n : FilterOne(s, k) = <<F(k)>> /\ F(k) \in Sound
  <2> TAKE k \in 1 .. n
  <2>1. FilterOne(s, k) = <<F(k)>>  BY <1>0, FilterOneTurn
  <2>2. s[k] \in Sound  OBVIOUS
  <2>3. AnsweringOnly(s[k], CallsAt(s, k - 1), F(k))  BY <2>2, AnsweringTurn
  <2>4. QED  BY <2>1, <2>3 DEF AnsweringOnly
<1> HIDE DEF n, F
<1>2. \A a \in A, k \in 1 .. n : G[<<a, k>>] = a \o FilterOne(s, k)  OBVIOUS
<1>3. PICK f \in [0 .. n -> A] : Runs(f, <<>>, n, G)
  <2> HIDE DEF G
  <2>1. <<>> \in A /\ n \in Nat  BY <1>0
  <2>2. ASSUME NEW k \in 1 .. n, NEW a \in A PROVE G[<<a, k>>] \in A
    <3>1. a \o <<F(k)>> \in A  BY <1>1
    <3>2. G[<<a, k>>] = a \o FilterOne(s, k)  BY <1>2
    <3>3. FilterOne(s, k) = <<F(k)>>  BY <1>1
    <3> HIDE DEF A
    <3>4. QED  BY <3>1, <3>2, <3>3
  <2> HIDE DEF A
  <2>3. QED  BY <2>1, <2>2, FoldRuns
<1>4. P(f)
  <2>1. \A k \in 0 .. n : f[k] = IF k = 0 THEN <<>> ELSE f[k - 1] \o FilterOne(s, k)
    <3>1. ASSUME NEW k \in 0 .. n, k # 0 PROVE G[<<f[k - 1], k>>] = f[k - 1] \o FilterOne(s, k)
      <4>1. k - 1 \in 0 .. n /\ k \in 1 .. n  BY <1>0, <3>1
      <4> HIDE DEF G, A
      <4>2. f[k - 1] \in A  BY <1>3, <4>1
      <4>3. QED  BY <1>2, <4>1, <4>2
    <3> HIDE DEF G, A
    <3>2. QED  BY <1>3, <3>1 DEF Runs
  <2>2. f = [k \in 0 .. n |-> f[k]]  BY <1>3
  <2> HIDE DEF A, G
  <2>3. QED  BY <2>1, <2>2
<1>5. P(h)  BY <1>4
<1>6. filterOrphanToolResults(s) = h[n]
  <2>1. Len(Indices(s)) = n /\ \A k \in 1 .. n : Indices(s)[k] = k  BY DEF Indices, n
  <2> DEFINE Q(g) == g = [k \in 0 .. Len(Indices(s)) |->
                            IF k = 0 THEN <<>> ELSE g[k - 1] \o FilterOne(s, Indices(s)[k])]
  <2>2. filterOrphanToolResults(s) = (CHOOSE g : Q(g))[Len(Indices(s))]
    BY DEF filterOrphanToolResults, Fold
  <2>3. \A g : Q(g) <=> P(g)
    <3> TAKE g
    <3>1. \A k \in 0 .. n : (IF k = 0 THEN <<>> ELSE g[k - 1] \o FilterOne(s, Indices(s)[k]))
                                = IF k = 0 THEN <<>> ELSE g[k - 1] \o FilterOne(s, k)
      BY <2>1
    <3>2. QED  BY <2>1, <3>1
  <2> HIDE DEF P, Q
  <2>4. (CHOOSE g : Q(g)) = (CHOOSE g : P(g))  BY <2>3
  <2>5. QED  BY <2>1, <2>2, <2>4
<1> HIDE DEF h
<1>7. \A k \in 0 .. n : h[k] = IF k = 0 THEN <<>> ELSE h[k - 1] \o FilterOne(s, k)  BY <1>5
<1> DEFINE U == {k \in 0 .. n : h[k] = [i \in 1 .. k |-> F(i)]}
<1>8. 0 \in U
  <2>1. h[0] = <<>> /\ [i \in 1 .. 0 |-> F(i)] = <<>>  BY <1>0, <1>7
  <2>2. 0 \in 0 .. n  BY <1>0
  <2> HIDE DEF P
  <2>3. QED  BY <2>1, <2>2
<1>9. ASSUME NEW k \in 1 .. n, k - 1 \in U PROVE k \in U
  <2>0. k \in 0 .. n /\ k # 0 /\ k \in Nat /\ k - 1 \in Nat  BY <1>0
  <2>1. h[k] = h[k - 1] \o <<F(k)>>
    <3> HIDE DEF P, U
    <3>1. QED  BY <1>1, <1>7, <2>0
  <2>2. h[k - 1] = [i \in 1 .. k - 1 |-> F(i)]  BY <1>9
  <2>3. \A i \in 1 .. k : F(i) \in Sound
    <3>1. 1 .. k \subseteq 1 .. n  BY <1>0
    <3>2. QED  BY <1>1, <3>1
  <2>4. [i \in 1 .. k - 1 |-> F(i)] \o <<F(k)>> = [i \in 1 .. k |-> F(i)]
    <3> DEFINE x == [i \in 1 .. k - 1 |-> F(i)]
               y == [i \in 1 .. k |-> F(i)]
    <3>1. 1 .. k - 1 \subseteq 1 .. k /\ k \in 1 .. k  BY <2>0
    <3>2. x \in Seq(Sound) /\ y \in Seq(Sound) /\ Len(x) = k - 1 /\ Len(y) = k  BY <2>0, <2>3, <3>1
    <3>3. \A i \in 1 .. k : i \in 1 .. k - 1 \/ i = k  BY <2>0
    <3>4. \A i \in 1 .. k : (x \o <<F(k)>>)[i] = y[i]  BY <2>0, <2>3, <3>2, <3>3
    <3>5. x \o <<F(k)>> \in Seq(Sound) /\ Len(x \o <<F(k)>>) = k  BY <2>0, <2>3, <3>1, <3>2
    <3> HIDE DEF x, y
    <3>6. x \o <<F(k)>> = y  BY <3>2, <3>4, <3>5
    <3>7. QED  BY <3>6 DEF x, y
  <2> HIDE DEF P
  <2>5. QED  BY <2>0, <2>1, <2>2, <2>4
<1>10. U \in SUBSET (0 .. n)  OBVIOUS
<1> HIDE DEF U, P
<1>11. U = 0 .. n  BY <1>0, <1>8, <1>9, <1>10, UpFromZero
<1>12. n \in U  BY <1>0, <1>11
<1>13. QED  BY <1>6, <1>12 DEF U, F, n

\* No turn has an orphan, or two results for one call.
NoOrphans(s) == \A i \in DOMAIN s : Distinct(s[i]) /\ ResultIds(s[i]) \subseteq CallsAt(s, i - 1)

\* The turn after a answers its calls W with results of their own.
Real(r) == Elements(r.results) = {Result(id) : id \in ResultIds(r)}
HeldAt(s, W, a) ==
    /\ a \in DOMAIN s /\ a + 1 \in DOMAIN s /\ UseIds(s[a]) = W /\ W # {}
    /\ Elements(s[a + 1].results) = {Result(id) : id \in W}
Held(s, W) == \E a \in DOMAIN s : HeldAt(s, W, a)
HeldLast(s, W) == Len(s) >= 2 /\ HeldAt(s, W, Len(s) - 1)

\* No orphan is left, and whole pairs stay whole.
LEMMA Filtered ==
    ASSUME NEW s \in Seq(Sound), Opens(s), Once(s), NoId \notin Names
    PROVE  LET t == filterOrphanToolResults(s)
           IN  /\ t \in Seq(Sound) /\ Opens(t) /\ Once(t) /\ NoOrphans(t)
               /\ CallsOf(t) = CallsOf(s) /\ AnswersOf(t) \subseteq AnswersOf(s) /\ \A id : Heard(s, id) => Heard(t, id)
               /\ \A r : Adjacent(s, r) /\ Real(r) => Held(t, ResultIds(r))
               /\ \A a, r : EndPair(s, a, r) /\ Real(r) => HeldLast(t, ResultIds(r))
               /\ NoOrphans(s) => t = s
<1> DEFINE t == filterOrphanToolResults(s)
           n == Len(s)
           W(i) == CallsAt(s, i - 1)
<1>0. DOMAIN s = 1 .. n /\ n \in Nat  OBVIOUS
<1>1. t = [i \in 1 .. n |-> Answering(s[i], W(i))]  BY FilterTurns
<1>2. ASSUME NEW i \in 1 .. n PROVE AnsweringOnly(s[i], W(i), Answering(s[i], W(i)))
  <2>1. s[i] \in Sound  OBVIOUS
  <2> HIDE DEF W
  <2>2. QED  BY <2>1, AnsweringTurn
<1> HIDE DEF t, n
<1>3. t \in Seq(Sound) /\ DOMAIN t = 1 .. n /\ Len(t) = n
  <2>1. \A i \in 1 .. n : Answering(s[i], W(i)) \in Sound  BY <1>2 DEF AnsweringOnly
  <2> HIDE DEF W
  <2>2. QED  BY <1>0, <1>1, <2>1
<1>4. \A i \in 1 .. n : AnsweringOnly(s[i], W(i), t[i])  BY <1>1, <1>2
<1>5. \A i \in DOMAIN s : /\ t[i].user = s[i].user /\ t[i].uses = s[i].uses /\ UseIds(t[i]) = UseIds(s[i])
                          /\ ResultIds(t[i]) \subseteq ResultIds(s[i])
    BY <1>0, <1>4 DEF AnsweringOnly, UseIds, ResultIds
<1>6. \A i \in DOMAIN s : CallsAt(t, i - 1) = CallsAt(s, i - 1)
  <2> TAKE i \in DOMAIN s
  <2>1. i - 1 > 0 => i - 1 \in DOMAIN s  BY <1>0
  <2>2. QED  BY <1>5, <2>1 DEF CallsAt
<1>7. Opens(t)
  <2>1. n # 0  BY DEF Opens, n
  <2>2. 1 \in DOMAIN s  BY <1>0, <2>1
  <2>3. t[1].user /\ t # <<>>  BY <1>0, <1>3, <1>5, <2>1, <2>2 DEF Opens
  <2>4. QED  BY <2>3 DEF Opens
<1>8. Once(t)  BY <1>0, <1>3, <1>5 DEF Once, OnceIn
<1>9. NoOrphans(t)  BY <1>0, <1>3, <1>4, <1>6 DEF NoOrphans, AnsweringOnly
<1>10. CallsOf(t) = CallsOf(s)
  <2>1. \A x : x \in CallsOf(t) <=> \E i \in DOMAIN t : x \in UseIds(t[i])  BY DEF CallsOf
  <2>2. \A x : x \in CallsOf(s) <=> \E i \in DOMAIN s : x \in UseIds(s[i])  BY DEF CallsOf
  <2>3. \A x : x \in CallsOf(t) <=> x \in CallsOf(s)  BY <1>0, <1>3, <1>5, <2>1, <2>2
  <2>4. QED  BY <2>3
<1>11. AnswersOf(t) \subseteq AnswersOf(s)  BY <1>0, <1>3, <1>5 DEF AnswersOf
<1>12. \A id : Heard(s, id) => Heard(t, id)  BY <1>0, <1>3, <1>4 DEF Heard, AnsweringOnly
<1>13. ASSUME NEW r, NEW a \in DOMAIN s, a + 1 \in DOMAIN s, PartnersAt(s, r, a, a + 1), Real(r)
       PROVE  HeldAt(t, ResultIds(r), a)
  <2>1. W(a + 1) = UseIds(s[a])
    <3>1. (a + 1) - 1 = a /\ a > 0  BY <1>0
    <3>2. QED  BY <3>1 DEF CallsAt
  <2>2. ResultIds(s[a + 1]) = W(a + 1) /\ s[a + 1] = r /\ ResultIds(r) # {}  BY <1>13, <2>1 DEF PartnersAt
  <2>3. ResultIds(t[a + 1]) = ResultIds(r) /\ Elements(t[a + 1].results) \subseteq Elements(r.results)
    BY <1>0, <1>4, <1>13, <2>2 DEF AnsweringOnly
  <2>4. \A x \in Elements(r.results) : x = Result(x.id)  BY <1>13 DEF Real, Result
  <2>5. Elements(t[a + 1].results) = {Result(id) : id \in ResultIds(r)}
    <3>1. \A x \in Elements(t[a + 1].results) : x \in {Result(id) : id \in ResultIds(r)}
      BY <1>13, <2>3 DEF Real
    <3>2. ASSUME NEW id \in ResultIds(r) PROVE Result(id) \in Elements(t[a + 1].results)
      <4>1. PICK x \in Elements(t[a + 1].results) : x.id = id  BY <2>3, <3>2 DEF ResultIds
      <4>2. QED  BY <2>3, <2>4, <4>1
    <3>3. QED  BY <3>1, <3>2
  <2>6. UseIds(t[a]) = ResultIds(r)  BY <1>5, <2>1, <2>2
  <2>7. QED  BY <1>0, <1>3, <1>13, <2>2, <2>5, <2>6 DEF HeldAt
<1>14. ASSUME NEW r, Adjacent(s, r), Real(r) PROVE Held(t, ResultIds(r))
  <2>1. PICK a \in DOMAIN s : a + 1 \in DOMAIN s /\ PartnersAt(s, r, a, a + 1)  BY <1>14 DEF Adjacent
  <2>2. HeldAt(t, ResultIds(r), a)  BY <1>13, <1>14, <2>1
  <2>3. QED  BY <1>0, <1>3, <2>2 DEF Held
<1>15. ASSUME NEW a, NEW r, EndPair(s, a, r), Real(r) PROVE HeldLast(t, ResultIds(r))
  <2>1. n >= 2 /\ PartnersAt(s, r, n - 1, n)  BY <1>15 DEF EndPair, EndsWith, n
  <2>2. n - 1 \in DOMAIN s /\ (n - 1) + 1 \in DOMAIN s /\ (n - 1) + 1 = n  BY <1>0, <2>1
  <2>3. HeldAt(t, ResultIds(r), n - 1)  BY <1>13, <1>15, <2>1, <2>2
  <2>4. QED  BY <1>3, <2>1, <2>3 DEF HeldLast
<1>16. ASSUME NoOrphans(s) PROVE t = s
  <2>1. \A i \in 1 .. n : t[i] = s[i]  BY <1>0, <1>4, <1>16 DEF AnsweringOnly, NoOrphans
  <2>2. s \in Seq(Sound) /\ Len(s) = n  BY DEF n
  <2>3. QED  BY <1>3, <2>1, <2>2
<1>17. QED  BY <1>3, <1>7, <1>8, <1>9, <1>10, <1>11, <1>12, <1>14, <1>15, <1>16 DEF t

(*****************************************************************************)
(* Placeholders for what is missing                                          *)
(*****************************************************************************)
\* A results turn that answers the calls and tells what r told.
Completed(x, uses, r) ==
    /\ x \in Sound /\ x.user /\ x.uses = <<>> /\ UseIds(x) = {} /\ Distinct(x) /\ ResultIds(x) = Elements(uses)
    /\ \A id : ToldBy(r, id) => ToldBy(x, id)

\* A call with an identifier is called by it.
LEMMA UsesAreNamed ==
    ASSUME NEW uses \in Seq(Names), NoId \notin Names
    PROVE  /\ DOMAIN uses = 1 .. Len(uses) /\ \A i \in DOMAIN uses : uses[i] \in Names /\ Called(uses, i) = uses[i]
           /\ Elements(uses) \subseteq Names
<1>1. DOMAIN uses = 1 .. Len(uses) /\ \A i \in DOMAIN uses : uses[i] \in Names  OBVIOUS
<1>2. \A i \in DOMAIN uses : uses[i] # NoId  BY <1>1
<1>3. QED  BY <1>1, <1>2 DEF Called, Elements

\* A turn of placeholders answers every call.
LEMMA SyntheticTurn ==
    ASSUME NEW m \in Sound, m.uses # <<>>, OnceIn(m), NoId \notin Names
    PROVE  \A r : (~\E id : ToldBy(r, id)) => Completed(syntheticToolResultTurn(m.uses), m.uses, r)
<1> DEFINE uses == m.uses
           x == syntheticToolResultTurn(uses)
           rs == [i \in DOMAIN uses |-> Missing(Called(uses, i))]
<1>1. uses \in Seq(Names) /\ Len(uses) \in Nat  BY DEF Sound, Proper, TurnRows
<1>2. DOMAIN uses = 1 .. Len(uses) /\ \A i \in DOMAIN uses : uses[i] \in Names /\ Called(uses, i) = uses[i]
    BY <1>1, UsesAreNamed
<1>3. x = [user |-> TRUE, text |-> {}, results |-> rs, images |-> FALSE, uses |-> <<>>]
    BY DEF syntheticToolResultTurn, User
<1>4. rs \in Seq(ResultRows) /\ DOMAIN rs = DOMAIN uses /\ \A i \in DOMAIN uses : rs[i].id = uses[i]
  <2>1. \A i \in DOMAIN uses : Missing(Called(uses, i)) \in ResultRows /\ Missing(Called(uses, i)).id = uses[i]
    BY <1>2 DEF Missing, ResultRows
  <2>2. rs = [i \in 1 .. Len(uses) |-> Missing(Called(uses, i))]  BY <1>2
  <2>3. rs \in Seq(ResultRows)  BY <1>1, <1>2, <2>1, <2>2
  <2>4. QED  BY <2>1, <2>3
<1> HIDE DEF x, rs
<1>5. uses # <<>>  OBVIOUS
<1>6. rs # <<>>
  <2>1. DOMAIN uses # {}  BY <1>1, <1>5, EmptyDomain
  <2>2. QED  BY <1>4, <2>1, EmptyDomain
<1>7. x \in Sound /\ x.user /\ x.uses = <<>> /\ x.results = rs
  <2>1. x.user /\ x.uses = <<>> /\ x.results = rs  BY <1>3
  <2>2. x \in TurnRows  BY <1>3, <1>4 DEF TurnRows
  <2>3. Says(x) /\ Neat(x)  BY <1>6, <2>1 DEF Says, Neat, Hollow
  <2>4. QED  BY <2>1, <2>2, <2>3 DEF Sound, Proper
<1>8. ResultIds(x) = Elements(uses)
  <2>1. \A y : y \in ResultIds(x) <=> \E i \in DOMAIN rs : rs[i].id = y  BY <1>7 DEF ResultIds, Elements
  <2>2. \A y : y \in Elements(uses) <=> \E i \in DOMAIN uses : uses[i] = y  BY DEF Elements
  <2>3. \A y : y \in ResultIds(x) <=> y \in Elements(uses)  BY <1>4, <2>1, <2>2
  <2>4. QED  BY <2>3
<1>9. Distinct(x)  BY <1>4, <1>7 DEF Distinct, OnceIn
<1>10. UseIds(x) = {}  BY <1>7, NoCalls DEF Sound
<1>11. QED  BY <1>7, <1>8, <1>9, <1>10 DEF Completed, x

\* A topped up turn answers every call and tells what it told.
LEMMA ToppedTurn ==
    ASSUME NEW m \in Sound, m.uses # <<>>, OnceIn(m), NoId \notin Names,
           NEW r \in Sound, r.user, Distinct(r), ResultIds(r) \subseteq UseIds(m)
    PROVE  Completed(topUpToolResultTurn(r, m.uses), m.uses, r)
<1> DEFINE uses == m.uses
           kept == FirstFor(r.results, Elements(uses))
           Existing(id) == {r.results[i] : i \in {j \in kept : r.results[j].id = id}}
           Row(id) == IF Existing(id) = {} THEN Missing(id) ELSE CHOOSE y \in Existing(id) : TRUE
           rs == [i \in DOMAIN uses |-> Row(Called(uses, i))]
           x == topUpToolResultTurn(r, uses)
<1>1. uses \in Seq(Names) /\ Len(uses) \in Nat /\ uses # <<>>  BY DEF Sound, Proper, TurnRows
<1>2. DOMAIN uses = 1 .. Len(uses) /\ \A i \in DOMAIN uses : uses[i] \in Names /\ Called(uses, i) = uses[i]
    BY <1>1, UsesAreNamed
<1>3. r.results \in Seq(ResultRows) /\ r \in TurnRows  BY DEF Sound, Proper, TurnRows
<1>4. kept = DOMAIN r.results
  <2>1. \A i \in DOMAIN r.results : r.results[i] \in ResultRows /\ i \in Nat  BY <1>3
  <2>2. \A i \in DOMAIN r.results : r.results[i].id \in Elements(uses) /\ r.results[i].id # NoId
    BY <2>1 DEF ResultIds, UseIds, Elements, ResultRows
  <2>3. ASSUME NEW i \in DOMAIN r.results, NEW j \in 1 .. i - 1 PROVE r.results[j].id # r.results[i].id
    <3>1. j \in DOMAIN r.results /\ j # i  BY <1>3, <2>3
    <3>2. QED  BY <3>1 DEF Distinct
  <2>4. QED  BY <2>2, <2>3 DEF FirstFor
<1>5. x = [r EXCEPT !.text = @ \cup Narrated(r.results, kept), !.results = rs]  BY DEF topUpToolResultTurn
<1>6. Narrated(r.results, kept) = {}  BY <1>4 DEF Narrated
<1>7. \A id : Existing(id) # {} => Row(id) \in Elements(r.results) /\ Row(id).id = id
  <2> TAKE id
  <2> HAVE Existing(id) # {}
  <2>1. Row(id) \in Existing(id)  OBVIOUS
  <2>2. QED  BY <1>4, <2>1 DEF Elements
<1>8. \A id \in Names : Row(id) \in ResultRows /\ Row(id).id = id
  <2> TAKE id \in Names
  <2>1. CASE Existing(id) = {}  BY <2>1 DEF Missing, ResultRows
  <2>2. CASE Existing(id) # {}
    <3>1. Row(id) \in Elements(r.results) /\ Row(id).id = id  BY <1>7, <2>2
    <3>2. Elements(r.results) \subseteq ResultRows  BY <1>3 DEF Elements
    <3>3. QED  BY <3>1, <3>2
  <2>3. QED  BY <2>1, <2>2
<1>9. \A id : Result(id) \in Elements(r.results) => Row(id) = Result(id)
  <2> TAKE id
  <2> HAVE Result(id) \in Elements(r.results)
  <2>1. PICK i \in DOMAIN r.results : r.results[i] = Result(id)  BY DEF Elements
  <2>2. r.results[i].id = id  BY <2>1 DEF Result
  <2>3. r.results[i] \in Existing(id)  BY <1>4, <2>2
  <2>8. Existing(id) # {}  BY <2>3
  <2> HIDE DEF Row, Existing
  <2>9. Row(id) \in Elements(r.results) /\ Row(id).id = id  BY <1>7, <2>8
  <2>4. PICK j \in DOMAIN r.results : r.results[j] = Row(id)  BY <2>9 DEF Elements
  <2>5. r.results[j].id = id  BY <2>4, <2>9
  <2>6. j = i  BY <2>2, <2>5 DEF Distinct
  <2>7. QED  BY <2>1, <2>4, <2>6
<1> HIDE DEF Row
<1>10. rs \in Seq(ResultRows) /\ DOMAIN rs = DOMAIN uses /\ \A i \in DOMAIN uses : rs[i] = Row(uses[i]) /\ rs[i].id = uses[i]
  <2>1. \A i \in DOMAIN uses : Row(Called(uses, i)) \in ResultRows /\ Row(Called(uses, i)) = Row(uses[i])
                               /\ Row(Called(uses, i)).id = uses[i]
    BY <1>2, <1>8
  <2>2. rs = [i \in 1 .. Len(uses) |-> Row(Called(uses, i))]  BY <1>2
  <2>3. rs \in Seq(ResultRows)  BY <1>1, <1>2, <2>1, <2>2
  <2>4. QED  BY <2>1, <2>3
<1> HIDE DEF rs, kept, x
<1>11. x = [r EXCEPT !.text = r.text, !.results = rs]  BY <1>5, <1>6
<1>12. /\ x.user /\ x.uses = r.uses /\ x.results = rs /\ x.text = r.text /\ x.images = r.images /\ x \in TurnRows
       /\ r.uses = <<>>
  <2>1. r \in TurnRows /\ r.uses = <<>>  BY DEF Sound, Proper
  <2>2. QED  BY <1>10, <1>11, <2>1 DEF TurnRows
<1>13. rs # <<>>
  <2>1. DOMAIN uses # {}  BY <1>1, EmptyDomain
  <2>2. QED  BY <1>10, <2>1, EmptyDomain
<1>14. x \in Sound
  <2>1. Says(x) /\ Neat(x)  BY <1>12, <1>13 DEF Says, Neat, Hollow
  <2>2. QED  BY <1>12, <2>1 DEF Sound, Proper
<1>15. ResultIds(x) = Elements(uses)
  <2>1. \A y : y \in ResultIds(x) <=> \E i \in DOMAIN rs : rs[i].id = y  BY <1>12 DEF ResultIds, Elements
  <2>2. \A y : y \in Elements(uses) <=> \E i \in DOMAIN uses : uses[i] = y  BY DEF Elements
  <2>3. \A y : y \in ResultIds(x) <=> y \in Elements(uses)  BY <1>10, <2>1, <2>2
  <2>4. QED  BY <2>3
<1>16. Distinct(x)  BY <1>10, <1>12 DEF Distinct, OnceIn
<1>17. UseIds(x) = {}  BY <1>12, <1>14, NoCalls DEF Sound
<1>18. ASSUME NEW id, ToldBy(r, id) PROVE ToldBy(x, id)
  <2>1. CASE id \in r.text  BY <1>12, <2>1 DEF ToldBy
  <2>2. CASE Result(id) \in Elements(r.results)
    <3>1. Row(id) = Result(id)  BY <1>9, <2>2
    <3>2. Result(id).id = id  BY DEF Result
    <3>3. id \in Elements(uses)  BY <2>2, <3>2 DEF ResultIds, UseIds
    <3>4. PICK i \in DOMAIN uses : uses[i] = id  BY <3>3 DEF Elements
    <3>5. rs[i] = Result(id) /\ i \in DOMAIN rs  BY <1>10, <3>1, <3>4
    <3>6. QED  BY <1>12, <3>5 DEF ToldBy, Elements
  <2>3. QED  BY <1>18, <2>1, <2>2 DEF ToldBy
<1>19. QED  BY <1>12, <1>14, <1>15, <1>16, <1>17, <1>18 DEF Completed, x

\* The states of backfillMissingToolResults' loop.
Backs == [out : Seq(Sound), skip : Nat]
BackAs(b, out, skip) == b \in Backs /\ b.out = out /\ b.skip = skip
Topped(b, out, skip, uses, r) == \E x : Completed(x, uses, r) /\ BackAs(b, Append(out, x), skip)

\* What becomes of the turn i: it was emitted, its calls are answered, or no or not every result follows it.
Backfilled(s, i, acc, b) ==
    LET out == Append(acc.out, s[i])
    IN  \/ i = acc.skip /\ b = acc
        \/ /\ i # acc.skip /\ (UseIds(s[i]) = {} \/ (i < Len(s) /\ UseIds(s[i]) = ResultIds(s[i + 1])))
           /\ BackAs(b, out, 0)
        \/ /\ i # acc.skip /\ UseIds(s[i]) # {} /\ (i < Len(s) => ResultIds(s[i + 1]) = {})
           /\ Topped(b, out, 0, s[i].uses, s[i])
        \/ /\ i # acc.skip /\ UseIds(s[i]) # {} /\ i < Len(s) /\ ResultIds(s[i + 1]) # {}
           /\ UseIds(s[i]) # ResultIds(s[i + 1])
           /\ Topped(b, out, i + 1, s[i].uses, s[i + 1])

\* BackfillOne does one of these.
LEMMA BackfillCases ==
    ASSUME NEW s \in Seq(Sound), NoOrphans(s), Once(s), NoId \notin Names, NEW i \in DOMAIN s, NEW acc \in Backs
    PROVE  Backfilled(s, i, acc, BackfillOne(acc, s, i))
<1> DEFINE m == s[i]
           out == Append(acc.out, m)
           b == BackfillOne(acc, s, i)
           near == i < Len(s) /\ s[i + 1].user /\ s[i + 1].results # <<>>
<1>0. DOMAIN s = 1 .. Len(s) /\ Len(s) \in Nat /\ i \in Nat /\ m \in Sound /\ m \in Proper /\ acc.out \in Seq(Sound)
    BY DEF Backs, Sound
<1>1. out \in Seq(Sound) /\ \A x \in Sound : Append(out, x) \in Seq(Sound) /\ out \o <<x>> = Append(out, x)
    BY <1>0
<1>2. out \o <<>> = out  BY <1>1
<1>3. i < Len(s) => i + 1 \in DOMAIN s /\ s[i + 1] \in Sound /\ s[i + 1] \in Proper  BY <1>0 DEF Sound
<1>4. m.uses = <<>> <=> UseIds(m) = {}  BY <1>0, NoCalls
<1>5. m.user => m.uses = <<>>  BY <1>0 DEF Proper
<1>6. near <=> i < Len(s) /\ ResultIds(s[i + 1]) # {}
  <2>1. i < Len(s) => (s[i + 1].results = <<>> <=> ResultIds(s[i + 1]) = {})  BY <1>3, NoCalls
  <2>2. i < Len(s) => (s[i + 1].results # <<>> => s[i + 1].user)  BY <1>3 DEF Proper
  <2>3. QED  BY <2>1, <2>2
<1>7. \A o \in Seq(Sound), k \in Nat : BackAs([out |-> o, skip |-> k], o, k)  BY DEF Backs, BackAs
<1>8. OnceIn(m)  BY DEF Once
<1> DEFINE N == m.user \/ m.uses = <<>>
           Y == toolUsesMatchResults(m, s[i + 1])
<1> HIDE DEF out
<1>9. b = IF i = acc.skip THEN acc
          ELSE IF N THEN [out |-> out \o <<>>, skip |-> 0]
          ELSE IF ~near THEN [out |-> out \o <<syntheticToolResultTurn(m.uses)>>, skip |-> 0]
          ELSE IF Y THEN [out |-> out \o <<>>, skip |-> 0]
          ELSE IF AnsweredElsewhere(s, i) THEN [out |-> out \o <<syntheticToolResultTurn(m.uses)>>, skip |-> 0]
          ELSE [out |-> out \o <<topUpToolResultTurn(s[i + 1], m.uses)>>, skip |-> i + 1]
  <2>1. CASE i = acc.skip
    <3>1. i = acc.skip /\ ~(i # acc.skip /\ (m.user \/ m.uses = <<>>)) /\ ~(i # acc.skip /\ m.uses # <<>> /\ ~near)
      BY <2>1
    <3>2. b = acc  BY <3>1 DEF BackfillOne
    <3>3. QED  BY <2>1, <3>2
  <2>2. CASE i # acc.skip /\ N
    <3>1. ~(i = acc.skip) /\ (i # acc.skip /\ (m.user \/ m.uses = <<>>)) /\ ~(i # acc.skip /\ m.uses # <<>> /\ ~near)
      BY <1>5, <2>2
    <3>2. b = [out |-> out \o <<>>, skip |-> 0]  BY <3>1 DEF BackfillOne, out
    <3>3. QED  BY <2>2, <3>2
  <2>3. CASE i # acc.skip /\ ~N /\ ~near
    <3>1. ~(i = acc.skip) /\ ~(i # acc.skip /\ (m.user \/ m.uses = <<>>)) /\ (i # acc.skip /\ m.uses # <<>> /\ ~near)
      BY <2>3
    <3>2. b = [out |-> out \o <<syntheticToolResultTurn(m.uses)>>, skip |-> 0]  BY <3>1 DEF BackfillOne, out
    <3>3. QED  BY <2>3, <3>2
  <2>4. CASE i # acc.skip /\ ~N /\ near
    <3>1. ~(i = acc.skip) /\ ~(i # acc.skip /\ (m.user \/ m.uses = <<>>)) /\ ~(i # acc.skip /\ m.uses # <<>> /\ ~near)
      BY <2>4
    <3>2. CASE Y  BY <2>4, <3>1, <3>2 DEF BackfillOne, out
    <3>3. CASE ~Y /\ AnsweredElsewhere(s, i)  BY <2>4, <3>1, <3>3 DEF BackfillOne, out
    <3>4. CASE ~Y /\ ~AnsweredElsewhere(s, i)  BY <2>4, <3>1, <3>4 DEF BackfillOne, out
    <3>5. QED  BY <3>2, <3>3, <3>4
  <2>5. QED  BY <2>1, <2>2, <2>3, <2>4
<1> HIDE DEF b, N, near, Y
<1>10. CASE i = acc.skip  BY <1>9, <1>10 DEF Backfilled, b
<1>11. CASE i # acc.skip /\ N
  <2>1. BackAs(b, out, 0)  BY <1>1, <1>2, <1>7, <1>9, <1>11
  <2>2. UseIds(m) = {}  BY <1>4, <1>5, <1>11 DEF N
  <2>3. QED  BY <1>11, <2>1, <2>2 DEF Backfilled, out, b
<1>12. CASE i # acc.skip /\ ~N /\ ~near
  <2> DEFINE x == syntheticToolResultTurn(m.uses)
  <2>1. Completed(x, m.uses, m)
    <3>1. ~\E id : ToldBy(m, id)  BY <1>12 DEF ToldBy, N
    <3>2. m.uses # <<>>  BY <1>12 DEF N
    <3> HIDE DEF m
    <3>3. QED  BY <1>0, <1>8, <3>1, <3>2, SyntheticTurn
  <2>2. x \in Sound  BY <2>1 DEF Completed
  <2> HIDE DEF x
  <2>3. BackAs(b, Append(out, x), 0)  BY <1>1, <1>7, <1>9, <1>12, <2>2 DEF x
  <2>4. UseIds(m) # {} /\ (i < Len(s) => ResultIds(s[i + 1]) = {})  BY <1>4, <1>6, <1>12 DEF N
  <2>5. Topped(b, out, 0, m.uses, m)  BY <2>1, <2>3 DEF Topped
  <2>6. QED  BY <1>12, <2>4, <2>5 DEF Backfilled, out, b
<1>13. CASE i # acc.skip /\ ~N /\ near /\ Y
  <2>1. BackAs(b, out, 0)  BY <1>1, <1>2, <1>7, <1>9, <1>13
  <2>2. i < Len(s) /\ UseIds(m) = ResultIds(s[i + 1])  BY <1>6, <1>13 DEF N, Y, toolUsesMatchResults
  <2>3. QED  BY <1>13, <2>1, <2>2 DEF Backfilled, out, b
<1>14. CASE i # acc.skip /\ ~N /\ near /\ ~Y
  <2> DEFINE r == s[i + 1]
             x == topUpToolResultTurn(r, m.uses)
  <2>1. i < Len(s) /\ ResultIds(r) # {} /\ m.uses # <<>> /\ UseIds(m) # ResultIds(r)
    BY <1>6, <1>14 DEF N, Y, toolUsesMatchResults
  <2>2. ResultIds(r) \subseteq UseIds(m) /\ Distinct(r)
    <3>1. (i + 1) - 1 = i /\ i > 0  BY <1>0
    <3>2. QED  BY <1>3, <2>1, <3>1 DEF NoOrphans, CallsAt
  <2>3. ~AnsweredElsewhere(s, i)
    <3> SUFFICES ASSUME NEW j \in DOMAIN s \ {i}, s[j].uses # <<>>, toolUsesMatchResults(s[j], s[i + 1]) PROVE FALSE
      BY DEF AnsweredElsewhere
    <3>1. UseIds(s[j]) = ResultIds(r)  BY DEF toolUsesMatchResults
    <3>2. UseIds(s[j]) \cap UseIds(s[i]) = {}  BY DEF Once
    <3>3. QED  BY <2>1, <2>2, <3>1, <3>2
  <2>4. Completed(x, m.uses, r)
    <3>1. r \in Sound /\ r.user  BY <1>3, <2>1, <1>14 DEF near
    <3> HIDE DEF m, r
    <3>2. QED  BY <1>0, <1>8, <2>1, <2>2, <3>1, ToppedTurn
  <2>5. x \in Sound  BY <2>4 DEF Completed
  <2> HIDE DEF x
  <2>6. BackAs(b, Append(out, x), i + 1)
    <3>1. i + 1 \in Nat  BY <1>0
    <3>2. QED  BY <1>1, <1>7, <1>9, <1>14, <2>3, <2>5, <3>1 DEF x
  <2>7. Topped(b, out, i + 1, m.uses, r)  BY <2>4, <2>6 DEF Topped
  <2>8. UseIds(m) # {}  BY <1>4, <2>1
  <2>9. QED  BY <1>14, <2>1, <2>7, <2>8 DEF Backfilled, out, b
<1>15. QED  BY <1>10, <1>11, <1>12, <1>13, <1>14 DEF b

\* backfillMissingToolResults goes through the turns one by one.
LEMMA BackfillUnfolds ==
    ASSUME NEW s \in Seq(Sound), NoOrphans(s), Once(s), NoId \notin Names
    PROVE  \E f : /\ f[0] = [out |-> <<>>, skip |-> 0]
                  /\ \A k \in 0 .. Len(s) : f[k] \in Backs
                  /\ \A k \in 1 .. Len(s) : Backfilled(s, k, f[k - 1], f[k])
                  /\ backfillMissingToolResults(s) = f[Len(s)].out
<1> DEFINE A == Backs
           n == Len(s)
           z == [out |-> <<>>, skip |-> 0]
           P(f) == f = [k \in 0 .. n |-> IF k = 0 THEN z ELSE BackfillOne(f[k - 1], s, k)]
           G == [p \in A \X (1 .. n) |-> BackfillOne(p[1], s, p[2])]
           h == CHOOSE f : P(f)
<1>0. n \in Nat /\ DOMAIN s = 1 .. n /\ z \in A  BY DEF Backs
<1>1. \A a \in A, k \in 1 .. n : Backfilled(s, k, a, BackfillOne(a, s, k)) /\ BackfillOne(a, s, k) \in A
  <2> TAKE a \in A, k \in 1 .. n
  <2>1. Backfilled(s, k, a, BackfillOne(a, s, k))  BY <1>0, BackfillCases
  <2>2. QED  BY <2>1 DEF Backfilled, BackAs, Topped
<1> HIDE DEF n, z
<1>2. \A a \in A, k \in 1 .. n : G[<<a, k>>] = BackfillOne(a, s, k)  OBVIOUS
<1>3. PICK f \in [0 .. n -> A] : Runs(f, z, n, G)
  <2> HIDE DEF G
  <2>1. \A k \in 1 .. n : \A a \in A : G[<<a, k>>] \in A  BY <1>1, <1>2
  <2> HIDE DEF A
  <2>2. QED  BY <1>0, <2>1, FoldRuns
<1>4. P(f)
  <2>1. \A k \in 0 .. n : f[k] = IF k = 0 THEN z ELSE BackfillOne(f[k - 1], s, k)
    <3>1. ASSUME NEW k \in 0 .. n, k # 0 PROVE G[<<f[k - 1], k>>] = BackfillOne(f[k - 1], s, k)
      <4>1. k - 1 \in 0 .. n /\ k \in 1 .. n  BY <1>0, <3>1
      <4> HIDE DEF G, A
      <4>2. f[k - 1] \in A  BY <1>3, <4>1
      <4>3. QED  BY <1>2, <4>1, <4>2
    <3> HIDE DEF G, A
    <3>2. QED  BY <1>3, <3>1 DEF Runs
  <2>2. f = [k \in 0 .. n |-> f[k]]  BY <1>3
  <2> HIDE DEF A, G
  <2>3. QED  BY <2>1, <2>2
<1>5. P(h)  BY <1>4
<1>6. backfillMissingToolResults(s) = h[n].out
  <2>1. Len(Indices(s)) = n /\ \A k \in 1 .. n : Indices(s)[k] = k  BY DEF Indices, n
  <2> DEFINE Q(g) == g = [k \in 0 .. Len(Indices(s)) |->
                            IF k = 0 THEN z ELSE BackfillOne(g[k - 1], s, Indices(s)[k])]
  <2>2. backfillMissingToolResults(s) = (CHOOSE g : Q(g))[Len(Indices(s))].out
    BY DEF backfillMissingToolResults, Fold, z
  <2>3. \A g : Q(g) <=> P(g)
    <3> TAKE g
    <3>1. \A k \in 0 .. n : (IF k = 0 THEN z ELSE BackfillOne(g[k - 1], s, Indices(s)[k]))
                                = IF k = 0 THEN z ELSE BackfillOne(g[k - 1], s, k)
      BY <2>1
    <3>2. QED  BY <2>1, <3>1
  <2> HIDE DEF P, Q
  <2>4. (CHOOSE g : Q(g)) = (CHOOSE g : P(g))  BY <2>3
  <2>5. QED  BY <2>1, <2>2, <2>4
<1> HIDE DEF h
<1>7. \A k \in 0 .. n : h[k] = IF k = 0 THEN z ELSE BackfillOne(h[k - 1], s, k)  BY <1>5
<1> HIDE DEF P
<1> DEFINE U == {k \in 0 .. n : h[k] \in A}
<1>8. 0 \in 0 .. n /\ \A k \in 1 .. n : k \in 0 .. n /\ k # 0 /\ k - 1 \in 0 .. n  BY <1>0
<1> HIDE DEF A
<1>9. 0 \in U /\ h[0] = z  BY <1>0, <1>7, <1>8
<1>10. ASSUME NEW k \in 1 .. n, k - 1 \in U PROVE k \in U  BY <1>1, <1>7, <1>8, <1>10
<1>11. U \in SUBSET (0 .. n)  OBVIOUS
<1> HIDE DEF U
<1>12. U = 0 .. n  BY <1>0, <1>9, <1>10, <1>11, UpFromZero
<1>13. \A k \in 0 .. n : h[k] \in A  BY <1>12 DEF U
<1>14. \A k \in 1 .. n : Backfilled(s, k, h[k - 1], h[k])  BY <1>1, <1>7, <1>8, <1>13
<1> HIDE DEF G
<1>15. QED  BY <1>6, <1>9, <1>13, <1>14 DEF A, n, z

\* Every turn answers the calls before it, each once and no other.
Paired(s) == \A i \in DOMAIN s : Distinct(s[i]) /\ ResultIds(s[i]) = CallsAt(s, i - 1)
Pend(s) == IF s = <<>> THEN {} ELSE UseIds(s[Len(s)])
RealFor(m, W) == Elements(m.results) = {Result(id) : id \in W}

\* A turn that answers what is pending can follow.
LEMMA PairedAppend ==
    ASSUME NEW s \in Seq(Sound), Paired(s), NEW m \in Sound, Distinct(m), ResultIds(m) = Pend(s)
    PROVE  LET t == Append(s, m)
           IN  /\ t \in Seq(Sound) /\ Paired(t) /\ Pend(t) = UseIds(m) /\ t[Len(t)] = m /\ t # <<>>
               /\ (s # <<>> => t[1] = s[1]) /\ (s = <<>> => t[1] = m)
               /\ \A W : Held(s, W) => Held(t, W)
               /\ s # <<>> /\ UseIds(m) = {} /\ Pend(s) # {} /\ RealFor(m, Pend(s))
                  => HeldLast(t, Pend(s)) /\ Held(t, Pend(s))
<1> DEFINE t == Append(s, m)
           n == Len(s)
<1>1. /\ t \in Seq(Sound) /\ Len(t) = n + 1 /\ DOMAIN t = 1 .. n + 1 /\ t[n + 1] = m /\ DOMAIN s = 1 .. n /\ n \in Nat
      /\ \A i \in DOMAIN s : i \in DOMAIN t /\ t[i] = s[i]
      /\ \A i \in DOMAIN t : i \in DOMAIN s \/ i = n + 1
    BY AppendFacts
<1>2. t # <<>> /\ (s # <<>> <=> n # 0)
  <2>1. 1 \in DOMAIN t  BY <1>1
  <2>2. t # <<>>
    <3> HIDE DEF t
    <3>1. QED  BY <2>1
  <2>3. QED  BY <2>2
<1> HIDE DEF t, n
<1>3. Pend(t) = UseIds(m) /\ t[Len(t)] = m  BY <1>1, <1>2 DEF Pend
<1>4. \A i \in DOMAIN s : CallsAt(t, i - 1) = CallsAt(s, i - 1)
  <2> TAKE i \in DOMAIN s
  <2>1. i - 1 > 0 => i - 1 \in DOMAIN s  BY <1>1
  <2>2. QED  BY <1>1, <2>1 DEF CallsAt
<1>5. CallsAt(t, (n + 1) - 1) = Pend(s)
  <2>1. (n + 1) - 1 = n  BY <1>1
  <2>2. CASE n = 0  BY <1>2, <2>1, <2>2 DEF CallsAt, Pend
  <2>3. CASE n # 0
    <3>1. n > 0 /\ n \in DOMAIN s /\ s # <<>>  BY <1>1, <1>2, <2>3
    <3>2. QED  BY <1>1, <2>1, <3>1 DEF CallsAt, Pend, n
  <2>4. QED  BY <2>2, <2>3
<1>6. Paired(t)  BY <1>1, <1>4, <1>5 DEF Paired
<1>7. (s # <<>> => t[1] = s[1]) /\ (s = <<>> => t[1] = m)
  <2>1. s # <<>> => 1 \in DOMAIN s  BY <1>1, <1>2
  <2>2. s = <<>> => n + 1 = 1  BY <1>2
  <2>3. QED  BY <1>1, <2>1, <2>2
<1>8. ASSUME NEW W, Held(s, W) PROVE Held(t, W)
  <2>1. PICK a \in DOMAIN s : HeldAt(s, W, a)  BY <1>8 DEF Held
  <2>2. HeldAt(t, W, a)  BY <1>1, <2>1 DEF HeldAt
  <2>3. QED  BY <1>1, <2>2 DEF Held
<1>9. ASSUME s # <<>>, Pend(s) # {}, RealFor(m, Pend(s)) PROVE HeldLast(t, Pend(s)) /\ Held(t, Pend(s))
  <2>1. n \in DOMAIN s /\ Len(t) - 1 = n /\ Len(t) >= 2 /\ n + 1 \in DOMAIN t  BY <1>1, <1>2, <1>9
  <2>2. UseIds(t[n]) = Pend(s)  BY <1>1, <1>9, <2>1 DEF Pend, n
  <2>3. HeldAt(t, Pend(s), n)  BY <1>1, <1>9, <2>1, <2>2 DEF HeldAt, RealFor
  <2>4. QED  BY <1>1, <2>1, <2>3 DEF HeldLast, Held
<1>10. QED  BY <1>1, <1>2, <1>3, <1>6, <1>7, <1>8, <1>9 DEF t

\* The conversation so far, the turns up to k backfilled.
Emitted(s, k, out) ==
    /\ out \in Seq(Sound) /\ Paired(out) /\ Once(out) /\ CallsOf(out) = CallsTo(s, k)
    /\ AnswersOf(out) \subseteq AnswersOf(s) \cup CallsOf(s)
    /\ (out = <<>> <=> k = 0) /\ (k >= 1 => out[1] = s[1])
    /\ \A i \in 1 .. k : \A id : ToldBy(s[i], id) => Heard(out, id)
    /\ \A W : \A a \in DOMAIN s : HeldAt(s, W, a) /\ a + 1 <= k => Held(out, W)
\* What the next turn has to answer: nothing when it was already emitted.
Ahead(s, k, acc) ==
    /\ Pend(acc.out) = IF k < Len(s) /\ acc.skip # k + 1 THEN ResultIds(s[k + 1]) ELSE {}
    /\ acc.skip = k + 1 => /\ k >= 1 /\ k < Len(s) /\ UseIds(s[k + 1]) = {} /\ UseIds(s[k]) # ResultIds(s[k + 1])
                           /\ \A id : ToldBy(s[k + 1], id) => Heard(acc.out, id)
    /\ k >= 1 /\ k < Len(s) /\ UseIds(s[k]) = ResultIds(s[k + 1]) /\ UseIds(s[k]) # {}
       => acc.skip # k + 1 /\ acc.out[Len(acc.out)] = s[k]
Mended(s, k, acc) == acc \in Backs /\ acc.skip <= k + 1 /\ Emitted(s, k, acc.out) /\ Ahead(s, k, acc)

\* The next turn is emitted, when it answers what is pending.
LEMMA EmittedNext ==
    ASSUME NEW s \in Seq(Sound), Once(s), NEW k \in 1 .. Len(s), NEW out, Emitted(s, k - 1, out), ResultIds(s[k]) = Pend(out),
           Distinct(s[k]),
           k > 1 /\ UseIds(s[k - 1]) = ResultIds(s[k]) /\ UseIds(s[k - 1]) # {} => out[Len(out)] = s[k - 1]
    PROVE  Emitted(s, k, Append(out, s[k])) /\ Pend(Append(out, s[k])) = UseIds(s[k])
           /\ Append(out, s[k])[Len(Append(out, s[k]))] = s[k]
<1> DEFINE m == s[k]
           t == Append(out, m)
<1>0. /\ out \in Seq(Sound) /\ out \in Seq(Proper) /\ s \in Seq(Proper) /\ m \in Sound /\ m \in Proper
      /\ DOMAIN s = 1 .. Len(s) /\ Len(s) \in Nat /\ k \in DOMAIN s /\ k \in Nat /\ Paired(out)
    BY SoundTurns DEF Emitted
<1>1. /\ t \in Seq(Sound) /\ Paired(t) /\ Pend(t) = UseIds(m) /\ t[Len(t)] = m /\ t # <<>>
      /\ (out # <<>> => t[1] = out[1]) /\ (out = <<>> => t[1] = m)
      /\ \A W : Held(out, W) => Held(t, W)
      /\ out # <<>> /\ UseIds(m) = {} /\ Pend(out) # {} /\ RealFor(m, Pend(out))
         => HeldLast(t, Pend(out)) /\ Held(t, Pend(out))
    BY <1>0, PairedAppend
<1>2. /\ CallsOf(t) = CallsOf(out) \cup UseIds(m)
      /\ \A id : Heard(t, id) <=> Heard(out, id) \/ ToldBy(m, id)
      /\ Once(out) /\ OnceIn(m) /\ CallsOf(out) \cap UseIds(m) = {} => Once(t)
    BY <1>0, AppendedTurn
<1>3. OnceIn(m) /\ CallsTo(s, k - 1) \cap UseIds(m) = {} /\ CallsTo(s, k) = CallsTo(s, k - 1) \cup UseIds(m)
    BY <1>0, OnceNext, CallsToNext
<1>4. AnswersOf(t) \subseteq AnswersOf(s) \cup CallsOf(s)
  <2>1. \A i \in DOMAIN t : (i \in DOMAIN out /\ t[i] = out[i]) \/ t[i] = m  BY <1>0, AppendFacts
  <2>2. \A i \in DOMAIN t : ResultIds(t[i]) \subseteq AnswersOf(out) \/ ResultIds(t[i]) \subseteq AnswersOf(s)
    BY <1>0, <2>1 DEF AnswersOf
  <2>3. QED  BY <2>2 DEF Emitted, AnswersOf
<1> HIDE DEF t
<1>5. t[1] = s[1]
  <2>1. CASE k = 1
    <3>1. out = <<>>
      <4>1. k - 1 = 0  BY <2>1
      <4>2. QED  BY <4>1 DEF Emitted
    <3>2. QED  BY <1>1, <2>1, <3>1
  <2>2. CASE k # 1
    <3>1. k - 1 >= 1 /\ k - 1 # 0  BY <1>0, <2>2
    <3>2. out # <<>> /\ out[1] = s[1]  BY <3>1 DEF Emitted
    <3>3. QED  BY <1>1, <3>2
  <2>3. QED  BY <2>1, <2>2
<1>6. \A i \in 1 .. k : \A id : ToldBy(s[i], id) => Heard(t, id)
  <2>1. \A i \in 1 .. k : i \in 1 .. k - 1 \/ i = k  BY <1>0
  <2>2. QED  BY <1>2, <2>1 DEF Emitted
<1>7. ASSUME NEW W, NEW a \in DOMAIN s, HeldAt(s, W, a), a + 1 <= k PROVE Held(t, W)
  <2>1. CASE a + 1 <= k - 1  BY <1>1, <1>7, <2>1 DEF Emitted
  <2>2. CASE ~(a + 1 <= k - 1)
    <3>1. a = k - 1 /\ k > 1 /\ a + 1 = k  BY <1>0, <1>7, <2>2
    <3>2. UseIds(s[k - 1]) = W /\ W # {} /\ RealFor(m, W)  BY <1>7, <3>1 DEF HeldAt, RealFor
    <3>3. ResultIds(m) = W
      <4>1. \A x : x \in ResultIds(m) <=> \E y \in Elements(m.results) : y.id = x  BY DEF ResultIds
      <4>2. \A id : Result(id).id = id  BY DEF Result
      <4>3. \A x : x \in ResultIds(m) <=> x \in W  BY <3>2, <4>1, <4>2 DEF RealFor
      <4>4. QED  BY <4>3
    <3>4. Pend(out) = W /\ out # <<>>
      <4>1. Pend(out) = W  BY <3>3
      <4>2. QED  BY <3>2, <4>1 DEF Pend
    <3>5. UseIds(m) = {}
      <4>1. m.results # <<>>  BY <1>0, <3>2, <3>3, NoCalls
      <4>2. m.uses = <<>>  BY <1>0, <4>1 DEF Proper
      <4>3. QED  BY <1>0, <4>2, NoCalls
    <3>6. QED  BY <1>1, <3>2, <3>4, <3>5
  <2>3. QED  BY <2>1, <2>2
<1>8. Emitted(s, k, t)
  <2>3. t # <<>> /\ k # 0  BY <1>0, <1>1
  <2>1. Once(t) /\ CallsOf(t) = CallsTo(s, k)  BY <1>2, <1>3 DEF Emitted
  <2>2. QED  BY <1>1, <1>4, <1>5, <1>6, <1>7, <2>1, <2>3 DEF Emitted
<1>9. QED  BY <1>1, <1>8 DEF t

\* The results of a held pair are those of its calls.
LEMMA HeldResults ==
    ASSUME NEW s, NEW W, NEW a, HeldAt(s, W, a)
    PROVE  ResultIds(s[a + 1]) = W /\ UseIds(s[a]) = W
<1>1. \A x : x \in ResultIds(s[a + 1]) <=> \E y \in Elements(s[a + 1].results) : y.id = x  BY DEF ResultIds
<1>2. \A id : Result(id).id = id  BY DEF Result
<1>3. \A x : x \in ResultIds(s[a + 1]) <=> x \in W  BY <1>1, <1>2 DEF HeldAt
<1>4. QED  BY <1>3 DEF HeldAt

\* Behind a turn without calls there are no results.
LEMMA NoCallsNoResults ==
    ASSUME NEW s \in Seq(Sound), NoOrphans(s), NEW k \in DOMAIN s, UseIds(s[k]) = {}, k < Len(s)
    PROVE  ResultIds(s[k + 1]) = {}
<1>1. k + 1 \in DOMAIN s /\ (k + 1) - 1 = k /\ k > 0  OBVIOUS
<1>2. QED  BY <1>1 DEF NoOrphans, CallsAt

\* A turn without calls that answers what is pending.
LEMMA EmittedExtra ==
    ASSUME NEW s \in Seq(Sound), NEW k \in Nat, k # 0, NEW o, Emitted(s, k, o),
           NEW x \in Sound, x.uses = <<>>, Distinct(x), ResultIds(x) = Pend(o), ResultIds(x) \subseteq CallsOf(s)
    PROVE  /\ Emitted(s, k, Append(o, x)) /\ Pend(Append(o, x)) = {}
           /\ \A id : ToldBy(x, id) => Heard(Append(o, x), id)
<1> DEFINE t == Append(o, x)
<1>0. o \in Seq(Sound) /\ o \in Seq(Proper) /\ x \in Sound /\ x \in Proper /\ Paired(o)
  <2>1. o \in Seq(Sound) /\ x \in Sound /\ Paired(o)  BY DEF Emitted
  <2>2. QED  BY <2>1, SoundTurns DEF Sound
<1>1. UseIds(x) = {} /\ OnceIn(x)
  <2>1. UseIds(x) = {}  BY <1>0, NoCalls
  <2>2. OnceIn(x)  BY DEF OnceIn
  <2>3. QED  BY <2>1, <2>2
<1>2. /\ t \in Seq(Sound) /\ Paired(t) /\ Pend(t) = UseIds(x) /\ t # <<>>
      /\ (o # <<>> => t[1] = o[1])
      /\ \A W : Held(o, W) => Held(t, W)
    BY <1>0, <1>1, PairedAppend
<1>3. /\ CallsOf(t) = CallsOf(o) \cup UseIds(x)
      /\ \A id : Heard(t, id) <=> Heard(o, id) \/ ToldBy(x, id)
      /\ Once(o) /\ OnceIn(x) /\ CallsOf(o) \cap UseIds(x) = {} => Once(t)
    BY <1>0, AppendedTurn
<1>4. AnswersOf(t) \subseteq AnswersOf(s) \cup CallsOf(s)
  <2>1. \A i \in DOMAIN t : (i \in DOMAIN o /\ t[i] = o[i]) \/ t[i] = x  BY <1>0, AppendFacts
  <2>2. \A i \in DOMAIN t : ResultIds(t[i]) \subseteq AnswersOf(o) \/ ResultIds(t[i]) \subseteq CallsOf(s)
    BY <2>1 DEF AnswersOf
  <2>3. QED  BY <2>2 DEF Emitted, AnswersOf
<1> HIDE DEF t
<1>5. Emitted(s, k, t)
  <2>1. o # <<>>  BY <1>0 DEF Emitted
  <2>2. CallsOf(t) = CallsTo(s, k) /\ Once(t)  BY <1>1, <1>3 DEF Emitted
  <2>3. \A i \in 1 .. k : \A id : ToldBy(s[i], id) => Heard(t, id)  BY <1>3 DEF Emitted
  <2>4. \A W : \A a \in DOMAIN s : HeldAt(s, W, a) /\ a + 1 <= k => Held(t, W)  BY <1>2 DEF Emitted
  <2>5. k >= 1 => t[1] = s[1]  BY <1>2, <2>1 DEF Emitted
  <2>6. QED  BY <1>0, <1>2, <1>4, <2>2, <2>3, <2>4, <2>5 DEF Emitted
<1>6. \A id : ToldBy(x, id) => Heard(t, id)  BY <1>3
<1>7. QED  BY <1>1, <1>2, <1>5, <1>6 DEF t

\* A completed turn answers the calls that were just emitted.
LEMMA EmittedTopped ==
    ASSUME NEW s \in Seq(Sound), NEW k \in DOMAIN s, NEW o, Emitted(s, k, o), Pend(o) = UseIds(s[k]),
           NEW x, NEW r, Completed(x, s[k].uses, r)
    PROVE  /\ Emitted(s, k, Append(o, x)) /\ Pend(Append(o, x)) = {}
           /\ \A id : ToldBy(r, id) => Heard(Append(o, x), id)
<1>1. x \in Sound /\ x.uses = <<>> /\ Distinct(x)  BY DEF Completed
<1>2. ResultIds(x) = Pend(o)  BY DEF Completed, UseIds
<1>3. UseIds(s[k]) \subseteq CallsOf(s)  BY DEF CallsOf
<1>4. k \in Nat /\ k # 0  OBVIOUS
<1>5. /\ Emitted(s, k, Append(o, x)) /\ Pend(Append(o, x)) = {}
      /\ \A id : ToldBy(x, id) => Heard(Append(o, x), id)
    BY <1>1, <1>2, <1>3, <1>4, EmittedExtra
<1>6. QED  BY <1>5 DEF Completed

\* Whatever becomes of the next turn, the calls emitted so far are answered.
LEMMA MendedNext ==
    ASSUME NEW s \in Seq(Sound), NoOrphans(s), Once(s), NEW k \in 1 .. Len(s), NEW acc,
           Mended(s, k - 1, acc), NEW b, Backfilled(s, k, acc, b)
    PROVE  Mended(s, k, b)
<1> DEFINE m == s[k]
           n == Len(s)
           out == Append(acc.out, m)
<1>0. /\ DOMAIN s = 1 .. n /\ n \in Nat /\ k \in Nat /\ k \in DOMAIN s /\ k >= 1 /\ k - 1 < n /\ (k - 1) + 1 = k
      /\ m \in Sound /\ m \in Proper /\ s \in Seq(Proper)
  <2>1. s \in Seq(Proper)  BY SoundTurns
  <2>2. QED  BY <2>1
<1>1. acc \in Backs /\ acc.skip \in Nat /\ acc.skip <= k /\ Emitted(s, k - 1, acc.out) /\ Ahead(s, k - 1, acc)
    BY <1>0 DEF Mended, Backs
<1>2. \A j \in Nat : j <= k => j <= k + 1 /\ j # k + 1  BY <1>0
<1>3. CASE k = acc.skip
  <2>1. b = acc  BY <1>0, <1>3 DEF Backfilled, BackAs, Topped
  <2>2. /\ k - 1 >= 1 /\ UseIds(m) = {} /\ UseIds(s[k - 1]) # ResultIds(m) /\ \A id : ToldBy(m, id) => Heard(acc.out, id)
        /\ Pend(acc.out) = {}
    BY <1>0, <1>1, <1>3 DEF Ahead
  <2>3. Emitted(s, k, acc.out)
    <3>1. CallsTo(s, k) = CallsTo(s, k - 1)
      <4>1. CallsTo(s, k) = CallsTo(s, k - 1) \cup UseIds(m)  BY <1>0, CallsToNext
      <4>2. QED  BY <2>2, <4>1
    <3>2. k - 1 # 0 /\ k # 0  BY <1>0, <2>2
    <3>3. acc.out # <<>> /\ acc.out[1] = s[1]  BY <1>1, <2>2, <3>2 DEF Emitted
    <3>4. \A i \in 1 .. k : \A id : ToldBy(s[i], id) => Heard(acc.out, id)
      <4>1. \A i \in 1 .. k : i \in 1 .. k - 1 \/ i = k  BY <1>0
      <4>2. QED  BY <1>1, <2>2, <4>1 DEF Emitted
    <3>5. ASSUME NEW W, NEW a \in DOMAIN s, HeldAt(s, W, a), a + 1 <= k PROVE Held(acc.out, W)
      <4>1. CASE a + 1 <= k - 1  BY <1>1, <3>5, <4>1 DEF Emitted
      <4>2. CASE ~(a + 1 <= k - 1)
        <5>1. a = k - 1 /\ a + 1 = k  BY <1>0, <3>5, <4>2
        <5>2. ResultIds(m) = W /\ UseIds(s[k - 1]) = W  BY <3>5, <5>1, HeldResults
        <5>3. QED  BY <2>2, <5>2
      <4>3. QED  BY <4>1, <4>2
    <3>6. QED  BY <1>1, <3>1, <3>2, <3>3, <3>4, <3>5 DEF Emitted
  <2>4. Ahead(s, k, acc)
    <3>1. acc.skip # k + 1  BY <1>1, <1>2
    <3>2. k < n => ResultIds(s[k + 1]) = {}  BY <1>0, <2>2, NoCallsNoResults
    <3>3. QED  BY <2>2, <3>1, <3>2 DEF Ahead
  <2>5. QED  BY <1>1, <1>2, <2>1, <2>3, <2>4 DEF Mended
<1>4. CASE k # acc.skip
  <2>1. Pend(acc.out) = ResultIds(m)  BY <1>0, <1>1, <1>4 DEF Ahead
  <2>2. Distinct(m)  BY <1>0 DEF NoOrphans
  <2>3. k > 1 /\ UseIds(s[k - 1]) = ResultIds(m) /\ UseIds(s[k - 1]) # {} => acc.out[Len(acc.out)] = s[k - 1]
    <3>1. k > 1 => k - 1 >= 1  BY <1>0
    <3>2. QED  BY <1>0, <1>1, <3>1 DEF Ahead
  <2>4. Emitted(s, k, out) /\ Pend(out) = UseIds(m) /\ out[Len(out)] = m
    BY <1>0, <1>1, <2>1, <2>2, <2>3, EmittedNext
  <2> HIDE DEF out
  <2>5. k < n /\ UseIds(m) = {} => ResultIds(s[k + 1]) = {}  BY <1>0, NoCallsNoResults
  <2>6. 0 <= k + 1 /\ 0 # k + 1 /\ k + 1 <= k + 1  BY <1>0
  <2>7. CASE (UseIds(m) = {} \/ (k < n /\ UseIds(m) = ResultIds(s[k + 1]))) /\ BackAs(b, out, 0)
    <3>1. b.out = out /\ b.skip = 0 /\ b \in Backs  BY <2>7 DEF BackAs
    <3>2. UseIds(m) = IF k < n THEN ResultIds(s[k + 1]) ELSE {}
      <4>1. CASE UseIds(m) = {}  BY <2>5, <4>1
      <4>2. CASE k < n /\ UseIds(m) = ResultIds(s[k + 1])  BY <4>2
      <4>3. QED  BY <2>7, <4>1, <4>2
    <3>3. Ahead(s, k, b)  BY <2>4, <2>6, <3>1, <3>2 DEF Ahead
    <3>4. QED  BY <2>4, <2>6, <3>1, <3>3 DEF Mended
  <2>8. CASE UseIds(m) # {} /\ (k < n => ResultIds(s[k + 1]) = {}) /\ Topped(b, out, 0, m.uses, m)
    <3>1. PICK x : Completed(x, m.uses, m) /\ BackAs(b, Append(out, x), 0)  BY <2>8 DEF Topped
    <3>2. b.out = Append(out, x) /\ b.skip = 0 /\ b \in Backs  BY <3>1 DEF BackAs
    <3>3. Emitted(s, k, b.out) /\ Pend(b.out) = {}  BY <1>0, <2>4, <3>1, <3>2, EmittedTopped
    <3>4. Ahead(s, k, b)  BY <2>6, <2>8, <3>2, <3>3 DEF Ahead
    <3>5. QED  BY <2>6, <3>2, <3>3, <3>4 DEF Mended
  <2>9. CASE /\ UseIds(m) # {} /\ k < n /\ ResultIds(s[k + 1]) # {} /\ UseIds(m) # ResultIds(s[k + 1])
             /\ Topped(b, out, k + 1, m.uses, s[k + 1])
    <3>1. PICK x : Completed(x, m.uses, s[k + 1]) /\ BackAs(b, Append(out, x), k + 1)  BY <2>9 DEF Topped
    <3>2. b.out = Append(out, x) /\ b.skip = k + 1 /\ b \in Backs  BY <3>1 DEF BackAs
    <3>3. /\ Emitted(s, k, b.out) /\ Pend(b.out) = {} /\ \A id : ToldBy(s[k + 1], id) => Heard(b.out, id)
      BY <1>0, <2>4, <3>1, <3>2, EmittedTopped
    <3>4. UseIds(s[k + 1]) = {}
      <4>1. k + 1 \in DOMAIN s /\ s[k + 1] \in Proper  BY <1>0, <2>9
      <4>2. s[k + 1].results # <<>>  BY <2>9, <4>1, NoCalls
      <4>3. s[k + 1].uses = <<>>  BY <4>1, <4>2 DEF Proper
      <4>4. QED  BY <4>1, <4>3, NoCalls
    <3>5. Ahead(s, k, b)  BY <1>0, <2>9, <3>2, <3>3, <3>4 DEF Ahead
    <3>6. QED  BY <2>6, <3>2, <3>3, <3>5 DEF Mended
  <2>10. QED  BY <1>4, <2>7, <2>8, <2>9 DEF Backfilled, out, n
<1>5. QED  BY <1>3, <1>4

\* In a paired conversation the next turn answers what this one called.
LEMMA PairedNext ==
    ASSUME NEW s \in Seq(Sound), Paired(s), NEW k \in DOMAIN s
    PROVE  /\ k < Len(s) => ResultIds(s[k + 1]) = UseIds(s[k])
           /\ k = Len(s) => Pend(s) = UseIds(s[k])
<1>0. DOMAIN s = 1 .. Len(s) /\ Len(s) \in Nat  OBVIOUS
<1>1. ASSUME k < Len(s) PROVE ResultIds(s[k + 1]) = UseIds(s[k])
  <2>1. k + 1 \in DOMAIN s /\ (k + 1) - 1 = k /\ k > 0  BY <1>0, <1>1
  <2>2. QED  BY <2>1 DEF Paired, CallsAt
<1>2. s # <<>>  OBVIOUS
<1>3. QED  BY <1>1, <1>2 DEF Pend

\* Every call is answered, and nothing that was answered is touched.
LEMMA Backfills ==
    ASSUME NEW s \in Seq(Sound), Opens(s), NoOrphans(s), Once(s), NoId \notin Names
    PROVE  LET t == backfillMissingToolResults(s)
           IN  /\ t \in Seq(Sound) /\ Opens(t) /\ Once(t) /\ Paired(t) /\ Pend(t) = {}
               /\ CallsOf(t) = CallsOf(s) /\ AnswersOf(t) \subseteq AnswersOf(s) \cup CallsOf(s)
               /\ \A id : Heard(s, id) => Heard(t, id)
               /\ \A W : Held(s, W) => Held(t, W)
               /\ \A W : HeldLast(s, W) => HeldLast(t, W)
               /\ Paired(s) /\ Pend(s) = {} => t = s
<1> DEFINE t == backfillMissingToolResults(s)
           n == Len(s)
<1>0. DOMAIN s = 1 .. n /\ n \in Nat /\ n >= 1 /\ s \in Seq(Proper)
  <2>1. n # 0  BY DEF Opens
  <2>2. s \in Seq(Proper)  BY SoundTurns
  <2>3. QED  BY <2>1, <2>2
<1>1. PICK f : /\ f[0] = [out |-> <<>>, skip |-> 0]
               /\ \A k \in 0 .. n : f[k] \in Backs
               /\ \A k \in 1 .. n : Backfilled(s, k, f[k - 1], f[k])
               /\ t = f[n].out
    BY BackfillUnfolds
<1> HIDE DEF t
<1> DEFINE U == {k \in 0 .. n : Mended(s, k, f[k])}
<1>2. 0 \in U
  <2> DEFINE z == [out |-> <<>>, skip |-> 0]
  <2>1. z \in Backs /\ z.out = <<>> /\ z.skip = 0  BY DEF Backs
  <2> HIDE DEF z
  <2>2. Emitted(s, 0, <<>>)
    <3>1. CallsTo(s, 0) = {}  BY <1>0, CallsToAll
    <3>2. <<>> \in Seq(Sound) /\ DOMAIN <<>> = {} /\ \A i \in 1 .. 0 : FALSE  OBVIOUS
    <3>3. ASSUME NEW a \in DOMAIN s PROVE ~(a + 1 <= 0)  BY <1>0
    <3>4. CallsOf(<<>>) = {} /\ AnswersOf(<<>>) = {}  BY <3>2 DEF CallsOf, AnswersOf
    <3>5. Once(<<>>) /\ Paired(<<>>)  BY <3>2 DEF Once, Paired
    <3>6. (<<>> = <<>> <=> 0 = 0) /\ ~(0 >= 1)  OBVIOUS
    <3>7. \A i \in 1 .. 0 : \A id : ToldBy(s[i], id) => Heard(<<>>, id)  BY <3>2
    <3>8. \A W : \A a \in DOMAIN s : HeldAt(s, W, a) /\ a + 1 <= 0 => Held(<<>>, W)  BY <3>3
    <3>9. CallsOf(<<>>) = CallsTo(s, 0) /\ AnswersOf(<<>>) \subseteq AnswersOf(s) \cup CallsOf(s)  BY <3>1, <3>4
    <3> DEFINE e == <<>>
    <3>10. e \in Seq(Sound)  BY <3>2
    <3> HIDE DEF e
    <3>11. /\ Paired(e) /\ Once(e) /\ CallsOf(e) = CallsTo(s, 0) /\ AnswersOf(e) \subseteq AnswersOf(s) \cup CallsOf(s)
           /\ (e = <<>> <=> 0 = 0)
           /\ \A i \in 1 .. 0 : \A id : ToldBy(s[i], id) => Heard(e, id)
           /\ \A W : \A a \in DOMAIN s : HeldAt(s, W, a) /\ a + 1 <= 0 => Held(e, W)
      BY <3>5, <3>6, <3>7, <3>8, <3>9 DEF e
    <3>12. Emitted(s, 0, e)  BY <3>6, <3>10, <3>11 DEF Emitted
    <3>13. QED  BY <3>12 DEF e
  <2>3. Ahead(s, 0, z)
    <3>1. ResultIds(s[1]) = {}
      <4>1. 1 \in DOMAIN s /\ ~(1 - 1 > 0)  BY <1>0
      <4>2. QED  BY <4>1 DEF NoOrphans, CallsAt
    <3>2. 0 + 1 = 1 /\ ~(0 >= 1) /\ 0 # 1  OBVIOUS
    <3>3. Pend(<<>>) = {}  BY DEF Pend
    <3>4. QED  BY <2>1, <3>1, <3>2, <3>3 DEF Ahead
  <2>4. Mended(s, 0, z)  BY <2>1, <2>2, <2>3 DEF Mended
  <2>5. 0 \in 0 .. n  BY <1>0
  <2>6. QED  BY <1>1, <2>4, <2>5 DEF z
<1>3. ASSUME NEW k \in 1 .. n, k - 1 \in U PROVE k \in U
  <2>1. Mended(s, k - 1, f[k - 1]) /\ Backfilled(s, k, f[k - 1], f[k])  BY <1>1, <1>3
  <2>2. Mended(s, k, f[k])  BY <2>1, MendedNext
  <2>3. k \in 0 .. n  BY <1>0
  <2>4. QED  BY <2>2, <2>3
<1>4. U \in SUBSET (0 .. n)  OBVIOUS
<1> HIDE DEF U
<1>5. U = 0 .. n  BY <1>0, <1>2, <1>3, <1>4, UpFromZero
<1>6. \A k \in 0 .. n : Mended(s, k, f[k])  BY <1>5 DEF U
<1>7. Emitted(s, n, t) /\ Pend(t) = {}
  <2>1. n \in 0 .. n /\ ~(n < n)  BY <1>0
  <2>2. Mended(s, n, f[n])  BY <1>6, <2>1
  <2>3. QED  BY <1>1, <2>1, <2>2 DEF Mended, Ahead
<1>8. CallsTo(s, n) = CallsOf(s)  BY <1>0, CallsToAll
<1>9. Opens(t)
  <2>1. t # <<>> /\ t[1] = s[1]  BY <1>0, <1>7 DEF Emitted
  <2>2. QED  BY <2>1 DEF Opens
<1>10. \A id : Heard(s, id) => Heard(t, id)  BY <1>0, <1>7 DEF Emitted, Heard
<1>11. ASSUME NEW W, Held(s, W) PROVE Held(t, W)
  <2>1. PICK a \in DOMAIN s : HeldAt(s, W, a)  BY <1>11 DEF Held
  <2>2. a + 1 <= n  BY <1>0, <2>1 DEF HeldAt
  <2>3. QED  BY <1>7, <2>1, <2>2 DEF Emitted
<1>12. ASSUME NEW W, HeldLast(s, W) PROVE HeldLast(t, W)
  <2> DEFINE out == f[n - 1].out
  <2>1. n >= 2 /\ HeldAt(s, W, n - 1)  BY <1>12 DEF HeldLast
  <2>2. n - 1 \in 0 .. n /\ n \in 1 .. n /\ n - 1 >= 1 /\ n - 1 < n /\ (n - 1) + 1 = n /\ n - 1 # 0  BY <1>0, <2>1
  <2>3. ResultIds(s[n]) = W /\ UseIds(s[n - 1]) = W /\ W # {} /\ RealFor(s[n], W)
    BY <2>1, <2>2, HeldResults DEF HeldAt, RealFor
  <2>4. Mended(s, n - 1, f[n - 1]) /\ Backfilled(s, n, f[n - 1], f[n])  BY <1>1, <1>6, <2>2
  <2>5. f[n - 1].skip # n /\ out[Len(out)] = s[n - 1] /\ Pend(out) = W /\ out # <<>> /\ out \in Seq(Sound) /\ Paired(out)
    <3>1. Ahead(s, n - 1, f[n - 1]) /\ Emitted(s, n - 1, out)  BY <2>4 DEF Mended
    <3>2. f[n - 1].skip # n /\ out[Len(out)] = s[n - 1]  BY <2>2, <2>3, <3>1 DEF Ahead
    <3>3. Pend(out) = W  BY <2>2, <2>3, <3>1, <3>2 DEF Ahead
    <3>4. QED  BY <2>2, <3>1, <3>2, <3>3 DEF Emitted
  <2>6. s[n] \in Sound /\ UseIds(s[n]) = {} /\ Distinct(s[n])
    <3>1. s[n] \in Sound /\ s[n] \in Proper /\ n \in DOMAIN s  BY <1>0, <2>2
    <3>2. s[n].results # <<>>  BY <2>3, <3>1, NoCalls
    <3>3. s[n].uses = <<>>  BY <3>1, <3>2 DEF Proper
    <3>4. QED  BY <3>1, <3>3, NoCalls DEF NoOrphans
  <2>7. t = Append(out, s[n])  BY <1>1, <2>4, <2>5, <2>6 DEF Backfilled, BackAs
  <2> HIDE DEF out
  <2>8. HeldLast(Append(out, s[n]), Pend(out))  BY <2>3, <2>5, <2>6, PairedAppend
  <2>9. QED  BY <2>5, <2>7, <2>8
<1>13. ASSUME Paired(s), Pend(s) = {} PROVE t = s
  <2> DEFINE V == {k \in 0 .. n : f[k].out = SubSeq(s, 1, k) /\ f[k].skip = 0}
  <2>1. 0 \in V
    <3>1. SubSeq(s, 1, 0) = <<>> /\ 0 \in 0 .. n  BY <1>0
    <3>2. f[0].out = <<>> /\ f[0].skip = 0  BY <1>1
    <3> HIDE DEF n
    <3>3. QED  BY <3>1, <3>2
  <2>2. ASSUME NEW k \in 1 .. n, k - 1 \in V PROVE k \in V
    <3>1. Backfilled(s, k, f[k - 1], f[k]) /\ f[k - 1].out = SubSeq(s, 1, k - 1) /\ f[k - 1].skip = 0
      BY <1>1, <2>2
    <3> HIDE DEF V
    <3>2. k \in DOMAIN s /\ k # 0 /\ k \in 0 .. n /\ (k < n \/ k = n)
      <4> HIDE DEF n
      <4>1. QED  BY <1>0
    <3>3. (k < n => ResultIds(s[k + 1]) = UseIds(s[k])) /\ (k = n => UseIds(s[k]) = {})
      BY <1>13, <3>2, PairedNext
    <3>4. ~(UseIds(s[k]) # {} /\ (k < n => ResultIds(s[k + 1]) = {}))  BY <3>2, <3>3
    <3>5. ~(k < n /\ UseIds(s[k]) # ResultIds(s[k + 1]))  BY <3>3
    <3>6. f[k].out = Append(f[k - 1].out, s[k]) /\ f[k].skip = 0
      BY <3>1, <3>2, <3>4, <3>5 DEF Backfilled, BackAs
    <3>7. Append(SubSeq(s, 1, k - 1), s[k]) = SubSeq(s, 1, k)  BY <1>0
    <3>8. QED  BY <3>1, <3>2, <3>6, <3>7 DEF V
  <2>3. V \in SUBSET (0 .. n)  OBVIOUS
  <2> HIDE DEF V
  <2>4. V = 0 .. n  BY <1>0, <2>1, <2>2, <2>3, UpFromZero
  <2>5. n \in V  BY <1>0, <2>4
  <2>6. SubSeq(s, 1, n) = s  OBVIOUS
  <2>7. QED  BY <1>1, <2>5, <2>6 DEF V
<1>14. QED  BY <1>7, <1>8, <1>9, <1>10, <1>11, <1>12, <1>13 DEF Emitted, t

(*****************************************************************************)
(* Fillers between turns of one role                                         *)
(*****************************************************************************)
Alternates(s) == \A i \in DOMAIN s : i + 1 \in DOMAIN s => s[i].user # s[i + 1].user

\* A turn of the other role can follow.
LEMMA AlternatesAppend ==
    ASSUME NEW s \in Seq(Sound), NEW m \in Sound, Alternates(s), s # <<>> => s[Len(s)].user # m.user
    PROVE  Alternates(Append(s, m))
<1> DEFINE t == Append(s, m)
           n == Len(s)
<1>1. /\ DOMAIN t = 1 .. n + 1 /\ t[n + 1] = m /\ DOMAIN s = 1 .. n /\ n \in Nat
      /\ \A i \in DOMAIN s : i \in DOMAIN t /\ t[i] = s[i]
    BY AppendFacts
<1>2. n # 0 => s # <<>>  OBVIOUS
<1> HIDE DEF t, n
<1> SUFFICES ASSUME NEW i \in DOMAIN t, i + 1 \in DOMAIN t PROVE t[i].user # t[i + 1].user
  BY DEF Alternates, t
<1>3. i \in DOMAIN s  BY <1>1
<1>4. CASE i + 1 \in DOMAIN s  BY <1>1, <1>3, <1>4 DEF Alternates
<1>5. CASE i + 1 \notin DOMAIN s
  <2>1. i = n /\ i + 1 = n + 1 /\ n # 0  BY <1>1, <1>3, <1>5
  <2>2. QED  BY <1>1, <1>2, <1>3, <2>1 DEF n
<1>6. QED  BY <1>4, <1>5

\* The assistant's filler is a sound turn,
LEMMA UnderstoodTurn ==
    LET x == Assistant({"understood"}, <<>>)
    IN  x \in Sound /\ ~x.user /\ x.uses = <<>> /\ x.results = <<>>
<1> DEFINE x == Assistant({"understood"}, <<>>)
<1>1. x \in TurnRows /\ ~x.user /\ x.uses = <<>> /\ x.results = <<>> /\ x.text = {"understood"}
  BY DEF Assistant, TurnRows, Words
<1>2. {"understood"} # {} /\ {"understood"} # {"."} /\ "polluted" \notin {"understood"}  OBVIOUS
<1> HIDE DEF x
<1>3. Neat(x)  BY <1>1, <1>2 DEF Neat, Hollow
<1>4. QED  BY <1>1, <1>3 DEF Sound, Proper, x

\* and so is the user's.
LEMMA FillerSound ==
    ASSUME NEW w \in {"Hello", "Continue", "system", "elided", "."}
    PROVE  Filler(w) \in Sound /\ Filler(w).user /\ Filler(w).uses = <<>> /\ Filler(w).results = <<>>
BY FillerTurn DEF Sound

\* The turn that goes in between.
LEMMA BetweenTurns ==
    ASSUME NEW p \in Sound, NEW m \in Sound
    PROVE  /\ p.user # m.user => Between(p, m) = <<>>
           /\ p.user = m.user => \E x \in Sound : /\ Between(p, m) = <<x>> /\ x.user # p.user
                                                  /\ x.uses = <<>> /\ x.results = <<>>
<1>1. p.user \in BOOLEAN /\ m.user \in BOOLEAN  BY DEF Sound, Proper, TurnRows
<1>2. CASE p.user # m.user  BY <1>2 DEF Between
<1>3. CASE p.user = m.user /\ m.user  BY <1>3, UnderstoodTurn DEF Between
<1>4. CASE p.user = m.user /\ ~m.user
  <2>1. Filler("Continue") \in Sound /\ Filler("Continue").user /\ Filler("Continue").uses = <<>>
        /\ Filler("Continue").results = <<>>
    BY FillerSound
  <2>2. QED  BY <1>4, <2>1 DEF Between
<1>5. QED  BY <1>1, <1>2, <1>3, <1>4

\* What is filled in.
Fills(out, m, b) ==
    \/ (out = <<>> \/ out[Len(out)].user # m.user) /\ b = Append(out, m)
    \/ /\ out # <<>> /\ out[Len(out)].user = m.user
       /\ \E x \in Sound : x.user # m.user /\ x.uses = <<>> /\ x.results = <<>> /\ b = Append(Append(out, x), m)

\* Filled does one of these.
LEMMA FilledCases ==
    ASSUME NEW out \in Seq(Sound), NEW m \in Sound
    PROVE  Fills(out, m, Filled(out, m)) /\ Filled(out, m) \in Seq(Sound)
<1>1. CASE out = <<>>
  <2>1. Filled(out, m) = Append(out, m)  BY <1>1 DEF Filled
  <2>2. Append(out, m) \in Seq(Sound)  OBVIOUS
  <2>3. Fills(out, m, Append(out, m))  BY <1>1 DEF Fills
  <2>4. QED  BY <2>1, <2>2, <2>3
<1>2. CASE out # <<>>
  <2> DEFINE p == out[Len(out)]
  <2>1. p \in Sound /\ Last(out) = p  BY <1>2 DEF Last
  <2>2. Filled(out, m) = (out \o Between(p, m)) \o <<m>>  BY <1>2, <2>1 DEF Filled
  <2> HIDE DEF p
  <2>3. CASE p.user # m.user
    <3>1. Between(p, m) = <<>>  BY <2>1, <2>3, BetweenTurns
    <3>2. (out \o <<>>) \o <<m>> = Append(out, m) /\ Append(out, m) \in Seq(Sound)  OBVIOUS
    <3>3. QED  BY <2>2, <2>3, <3>1, <3>2 DEF Fills, p
  <2>4. CASE p.user = m.user
    <3>1. PICK x \in Sound : Between(p, m) = <<x>> /\ x.user # p.user /\ x.uses = <<>> /\ x.results = <<>>
      BY <2>1, <2>4, BetweenTurns
    <3>2. (out \o <<x>>) \o <<m>> = Append(Append(out, x), m) /\ Append(Append(out, x), m) \in Seq(Sound)  OBVIOUS
    <3>3. QED  BY <1>2, <2>2, <2>4, <3>1, <3>2 DEF Fills, p
  <2>5. QED  BY <2>3, <2>4
<1>3. QED  BY <1>1, <1>2

\* insertFillerBetweenSameRoleTurns goes through the turns one by one.
LEMMA FillUnfolds ==
    ASSUME NEW s \in Seq(Sound)
    PROVE  \E f : /\ f[0] = <<>> /\ \A k \in 0 .. Len(s) : f[k] \in Seq(Sound)
                  /\ \A k \in 1 .. Len(s) : Fills(f[k - 1], s[k], f[k])
                  /\ insertFillerBetweenSameRoleTurns(s) = f[Len(s)]
<1> DEFINE A == Seq(Sound)
           n == Len(s)
           P(f) == f = [k \in 0 .. n |-> IF k = 0 THEN <<>> ELSE Filled(f[k - 1], s[k])]
           G == [p \in A \X (1 .. n) |-> Filled(p[1], s[p[2]])]
           h == CHOOSE f : P(f)
<1>0. n \in Nat /\ \A k \in 1 .. n : s[k] \in Sound  OBVIOUS
<1>1. \A a \in A, k \in 1 .. n : Fills(a, s[k], Filled(a, s[k])) /\ Filled(a, s[k]) \in A
  BY <1>0, FilledCases
<1> HIDE DEF n
<1>2. \A a \in A, k \in 1 .. n : G[<<a, k>>] = Filled(a, s[k])  OBVIOUS
<1>3. PICK f \in [0 .. n -> A] : Runs(f, <<>>, n, G)
  <2> HIDE DEF G
  <2>1. \A k \in 1 .. n : \A a \in A : G[<<a, k>>] \in A  BY <1>1, <1>2
  <2>2. <<>> \in A  OBVIOUS
  <2> HIDE DEF A
  <2>3. QED  BY <1>0, <2>1, <2>2, FoldRuns
<1>4. P(f)
  <2>1. \A k \in 0 .. n : f[k] = IF k = 0 THEN <<>> ELSE Filled(f[k - 1], s[k])
    <3>1. ASSUME NEW k \in 0 .. n, k # 0 PROVE G[<<f[k - 1], k>>] = Filled(f[k - 1], s[k])
      <4>1. k - 1 \in 0 .. n /\ k \in 1 .. n  BY <1>0, <3>1
      <4> HIDE DEF G, A
      <4>2. f[k - 1] \in A  BY <1>3, <4>1
      <4>3. QED  BY <1>2, <4>1, <4>2
    <3> HIDE DEF G, A
    <3>2. QED  BY <1>3, <3>1 DEF Runs
  <2>2. f = [k \in 0 .. n |-> f[k]]  BY <1>3
  <2> HIDE DEF A, G
  <2>3. QED  BY <2>1, <2>2
<1>5. P(h)  BY <1>4
<1>6. insertFillerBetweenSameRoleTurns(s) = h[n]  BY DEF insertFillerBetweenSameRoleTurns, Fold, n
<1> HIDE DEF h
<1>7. \A k \in 0 .. n : h[k] = IF k = 0 THEN <<>> ELSE Filled(h[k - 1], s[k])  BY <1>5
<1> HIDE DEF P
<1> DEFINE U == {k \in 0 .. n : h[k] \in A}
<1>8. 0 \in 0 .. n /\ \A k \in 1 .. n : k \in 0 .. n /\ k # 0 /\ k - 1 \in 0 .. n  BY <1>0
<1>9. 0 \in U /\ h[0] = <<>>
  <2>1. <<>> \in A  OBVIOUS
  <2> HIDE DEF A
  <2>2. QED  BY <1>7, <1>8, <2>1
<1> HIDE DEF A
<1>10. ASSUME NEW k \in 1 .. n, k - 1 \in U PROVE k \in U  BY <1>1, <1>7, <1>8, <1>10
<1>11. U \in SUBSET (0 .. n)  OBVIOUS
<1> HIDE DEF U
<1>12. U = 0 .. n  BY <1>0, <1>9, <1>10, <1>11, UpFromZero
<1>13. \A k \in 0 .. n : h[k] \in A  BY <1>12 DEF U
<1>14. \A k \in 1 .. n : Fills(h[k - 1], s[k], h[k])  BY <1>1, <1>7, <1>8, <1>13
<1> HIDE DEF G
<1>15. QED  BY <1>6, <1>9, <1>13, <1>14 DEF A, n

\* The first k turns with fillers between those of one role.
Spaced(s, k, out) == Emitted(s, k, out) /\ Alternates(out) /\ (k >= 1 => out[Len(out)] = s[k])

\* The next turn is spaced from the one before it.
LEMMA SpacedNext ==
    ASSUME NEW s \in Seq(Sound), Paired(s), Once(s), NEW k \in 1 .. Len(s), NEW out, Spaced(s, k - 1, out),
           NEW b, Fills(out, s[k], b)
    PROVE  Spaced(s, k, b)
<1> DEFINE m == s[k]
<1>0. /\ DOMAIN s = 1 .. Len(s) /\ Len(s) \in Nat /\ k \in DOMAIN s /\ k \in Nat /\ k >= 1 /\ k - 1 \in Nat
      /\ m \in Sound /\ m \in Proper /\ out \in Seq(Sound) /\ Emitted(s, k - 1, out) /\ Alternates(out) /\ Distinct(m)
  <2>1. out \in Seq(Sound) /\ Emitted(s, k - 1, out) /\ Alternates(out)  BY DEF Spaced, Emitted
  <2>2. k \in DOMAIN s  OBVIOUS
  <2>3. QED  BY <2>1, <2>2 DEF Sound, Paired
<1>1. out # <<>> <=> k # 1
  <2>1. k # 1 <=> k - 1 # 0  BY <1>0
  <2>2. QED  BY <1>0, <2>1 DEF Emitted
<1>2. k # 1 => k - 1 \in DOMAIN s /\ s[k - 1] \in Proper /\ out[Len(out)] = s[k - 1] /\ Pend(out) = UseIds(s[k - 1])
  <2>1. k # 1 => k - 1 >= 1 /\ k - 1 \in DOMAIN s /\ s[k - 1] \in Sound  BY <1>0
  <2>2. QED  BY <1>1, <2>1 DEF Spaced, Pend, Sound
<1>3. ResultIds(m) = Pend(out)
  <2>1. ResultIds(m) = CallsAt(s, k - 1)  BY <1>0 DEF Paired
  <2>2. CASE k = 1  BY <1>1, <2>1, <2>2 DEF CallsAt, Pend
  <2>3. CASE k # 1
    <3>1. k - 1 > 0  BY <1>0, <2>3
    <3>2. QED  BY <1>2, <2>1, <2>3, <3>1 DEF CallsAt
  <2>4. QED  BY <2>2, <2>3
<1>4. CASE (out = <<>> \/ out[Len(out)].user # m.user) /\ b = Append(out, m)
  <2>1. k > 1 /\ UseIds(s[k - 1]) = ResultIds(m) /\ UseIds(s[k - 1]) # {} => out[Len(out)] = s[k - 1]
    BY <1>0, <1>2
  <2>2. Emitted(s, k, b) /\ b[Len(b)] = m  BY <1>0, <1>3, <1>4, <2>1, EmittedNext
  <2>3. Alternates(b)  BY <1>0, <1>4, AlternatesAppend
  <2>4. QED  BY <2>2, <2>3 DEF Spaced
<1>5. CASE /\ out # <<>> /\ out[Len(out)].user = m.user
           /\ \E x \in Sound : x.user # m.user /\ x.uses = <<>> /\ x.results = <<>> /\ b = Append(Append(out, x), m)
  <2>1. PICK x \in Sound : x.user # m.user /\ x.uses = <<>> /\ x.results = <<>> /\ b = Append(Append(out, x), m)
    BY <1>5
  <2>2. k # 1 /\ out # <<>> /\ s[k - 1] \in Proper /\ out[Len(out)] = s[k - 1] /\ Pend(out) = UseIds(s[k - 1])
        /\ k - 1 # 0
    BY <1>0, <1>1, <1>2, <1>5
  <2>3. Pend(out) = {}
    <3>1. CASE m.user
      <4>1. s[k - 1].uses = <<>>  BY <1>5, <2>2, <3>1 DEF Proper
      <4>2. QED  BY <2>2, <4>1, NoCalls
    <3>2. CASE ~m.user
      <4>1. m.results = <<>>  BY <1>0, <3>2 DEF Proper
      <4>2. QED  BY <1>0, <1>3, <4>1, NoCalls
    <3>3. QED  BY <3>1, <3>2
  <2>4. Distinct(x) /\ ResultIds(x) = {}  BY <2>1 DEF Distinct, ResultIds, Elements
  <2> DEFINE o == Append(out, x)
  <2>5. Emitted(s, k - 1, o) /\ Pend(o) = {}  BY <1>0, <2>1, <2>2, <2>3, <2>4, EmittedExtra
  <2>6. Alternates(o) /\ o \in Seq(Sound) /\ o[Len(o)] = x
    <3>1. out[Len(out)].user # x.user  BY <1>5, <2>1
    <3>2. QED  BY <1>0, <3>1, AlternatesAppend
  <2> HIDE DEF o
  <2>7. b = Append(o, m)  BY <2>1 DEF o
  <2>8. Emitted(s, k, b) /\ b[Len(b)] = m
    <3>1. UseIds(s[k - 1]) = {}  BY <2>2, <2>3
    <3>2. ResultIds(s[k]) = Pend(o)  BY <1>3, <2>3, <2>5
    <3>3. k > 1 /\ UseIds(s[k - 1]) = ResultIds(s[k]) /\ UseIds(s[k - 1]) # {} => o[Len(o)] = s[k - 1]  BY <3>1
    <3>4. QED  BY <1>0, <2>5, <2>7, <3>2, <3>3, EmittedNext
  <2>9. Alternates(b)  BY <1>0, <2>1, <2>6, <2>7, AlternatesAppend
  <2>10. QED  BY <2>8, <2>9 DEF Spaced
<1>6. QED  BY <1>4, <1>5 DEF Fills

\* Roles alternate, and what is paired stays so.
LEMMA Spaces ==
    ASSUME NEW s \in Seq(Sound), Opens(s), Paired(s), Once(s), Pend(s) = {}
    PROVE  LET t == insertFillerBetweenSameRoleTurns(s)
           IN  /\ t \in Seq(Sound) /\ Opens(t) /\ Once(t) /\ Paired(t) /\ Pend(t) = {} /\ Alternates(t)
               /\ CallsOf(t) = CallsOf(s) /\ AnswersOf(t) \subseteq AnswersOf(s) \cup CallsOf(s)
               /\ \A id : Heard(s, id) => Heard(t, id)
               /\ \A W : Held(s, W) => Held(t, W)
               /\ \A W : HeldLast(s, W) => HeldLast(t, W)
               /\ (s[Len(s)].user <=> t[Len(t)].user)
               /\ Alternates(s) => t = s
<1> DEFINE t == insertFillerBetweenSameRoleTurns(s)
           n == Len(s)
<1>0. DOMAIN s = 1 .. n /\ n \in Nat /\ n >= 1 /\ s \in Seq(Proper) /\ s # <<>>
  <2>1. n # 0  BY DEF Opens
  <2>2. s \in Seq(Proper)  BY SoundTurns
  <2>3. QED  BY <2>1, <2>2
<1>1. PICK f : /\ f[0] = <<>> /\ \A k \in 0 .. n : f[k] \in Seq(Sound)
               /\ \A k \in 1 .. n : Fills(f[k - 1], s[k], f[k])
               /\ t = f[n]
    BY FillUnfolds
<1> HIDE DEF t
<1> DEFINE U == {k \in 0 .. n : Spaced(s, k, f[k])}
<1>2. 0 \in U
  <2> DEFINE e == <<>>
  <2>1. CallsTo(s, 0) = {}  BY <1>0, CallsToAll
  <2>2. e \in Seq(Sound) /\ DOMAIN e = {} /\ \A i \in 1 .. 0 : FALSE  OBVIOUS
  <2>3. ASSUME NEW a \in DOMAIN s PROVE ~(a + 1 <= 0)  BY <1>0
  <2>4. (e = <<>> <=> 0 = 0) /\ ~(0 >= 1)  OBVIOUS
  <2> HIDE DEF e
  <2>5. CallsOf(e) = {} /\ AnswersOf(e) = {}  BY <2>2 DEF CallsOf, AnswersOf
  <2>6. Once(e) /\ Paired(e) /\ Alternates(e)  BY <2>2 DEF Once, Paired, Alternates
  <2>7. \A i \in 1 .. 0 : \A id : ToldBy(s[i], id) => Heard(e, id)  BY <2>2
  <2>8. \A W : \A a \in DOMAIN s : HeldAt(s, W, a) /\ a + 1 <= 0 => Held(e, W)  BY <2>3
  <2>9. CallsOf(e) = CallsTo(s, 0) /\ AnswersOf(e) \subseteq AnswersOf(s) \cup CallsOf(s)  BY <2>1, <2>5
  <2>10. Emitted(s, 0, e)  BY <2>2, <2>4, <2>6, <2>7, <2>8, <2>9 DEF Emitted
  <2>11. Spaced(s, 0, e)  BY <2>4, <2>6, <2>10 DEF Spaced
  <2>12. 0 \in 0 .. n  BY <1>0
  <2>13. f[0] = e  BY <1>1 DEF e
  <2>14. QED  BY <2>11, <2>12, <2>13
<1>3. ASSUME NEW k \in 1 .. n, k - 1 \in U PROVE k \in U
  <2>1. Spaced(s, k - 1, f[k - 1]) /\ Fills(f[k - 1], s[k], f[k])  BY <1>1, <1>3
  <2>2. Spaced(s, k, f[k])  BY <2>1, SpacedNext
  <2>3. k \in 0 .. n  BY <1>0
  <2>4. QED  BY <2>2, <2>3
<1>4. U \in SUBSET (0 .. n)  OBVIOUS
<1> HIDE DEF U
<1>5. U = 0 .. n  BY <1>0, <1>2, <1>3, <1>4, UpFromZero
<1>6. \A k \in 0 .. n : Spaced(s, k, f[k])  BY <1>5 DEF U
<1>7. Emitted(s, n, t) /\ Alternates(t) /\ t[Len(t)] = s[n]
  <2>1. n \in 0 .. n  BY <1>0
  <2>2. Spaced(s, n, f[n])  BY <1>6, <2>1
  <2>3. QED  BY <1>0, <1>1, <2>2 DEF Spaced
<1>8. CallsTo(s, n) = CallsOf(s)  BY <1>0, CallsToAll
<1>9. Opens(t) /\ Pend(t) = {}
  <2>1. t # <<>> /\ t[1] = s[1]  BY <1>0, <1>7 DEF Emitted
  <2>2. Pend(s) = UseIds(s[n])  BY <1>0 DEF Pend
  <2>3. QED  BY <1>7, <2>1, <2>2 DEF Opens, Pend
<1>10. \A id : Heard(s, id) => Heard(t, id)  BY <1>0, <1>7 DEF Emitted, Heard
<1>11. ASSUME NEW W, Held(s, W) PROVE Held(t, W)
  <2>1. PICK a \in DOMAIN s : HeldAt(s, W, a)  BY <1>11 DEF Held
  <2>2. a + 1 <= n  BY <1>0, <2>1 DEF HeldAt
  <2>3. QED  BY <1>7, <2>1, <2>2 DEF Emitted
<1>12. ASSUME NEW W, HeldLast(s, W) PROVE HeldLast(t, W)
  <2> DEFINE out == f[n - 1]
  <2>1. n >= 2 /\ HeldAt(s, W, n - 1)  BY <1>12 DEF HeldLast
  <2>2. n - 1 \in 0 .. n /\ n \in 1 .. n /\ n - 1 >= 1 /\ n - 1 < n /\ (n - 1) + 1 = n /\ n - 1 # 0 /\ n - 1 \in DOMAIN s
        /\ n \in DOMAIN s
    BY <1>0, <2>1
  <2>3. ResultIds(s[n]) = W /\ UseIds(s[n - 1]) = W /\ W # {} /\ RealFor(s[n], W)
    BY <2>1, <2>2, HeldResults DEF HeldAt, RealFor
  <2>4. Spaced(s, n - 1, out) /\ Fills(out, s[n], t)  BY <1>1, <1>6, <2>2
  <2> HIDE DEF out
  <2>5. out[Len(out)] = s[n - 1] /\ out # <<>> /\ out \in Seq(Sound) /\ Paired(out) /\ Pend(out) = W
    <3>1. out[Len(out)] = s[n - 1] /\ out # <<>> /\ out \in Seq(Sound) /\ Paired(out)
      BY <2>2, <2>4 DEF Spaced, Emitted
    <3>2. QED  BY <2>3, <3>1 DEF Pend
  <2>6. s[n] \in Sound /\ s[n] \in Proper /\ s[n - 1] \in Proper /\ Distinct(s[n])  BY <1>0, <2>2 DEF Paired
  <2>7. s[n].user /\ UseIds(s[n]) = {} /\ ~s[n - 1].user
    <3>1. s[n].results # <<>> /\ s[n - 1].uses # <<>>  BY <2>3, <2>6, NoCalls
    <3>2. s[n].user /\ s[n].uses = <<>> /\ ~s[n - 1].user  BY <2>6, <3>1 DEF Proper
    <3>3. QED  BY <2>6, <3>2, NoCalls
  <2>8. t = Append(out, s[n])  BY <2>4, <2>5, <2>7 DEF Fills
  <2>9. ResultIds(s[n]) = Pend(out) /\ RealFor(s[n], Pend(out)) /\ Pend(out) # {}  BY <2>3, <2>5
  <2>10. HeldLast(Append(out, s[n]), Pend(out))  BY <2>5, <2>6, <2>7, <2>9, PairedAppend
  <2>11. QED  BY <2>5, <2>8, <2>10
<1>13. ASSUME Alternates(s) PROVE t = s
  <2> DEFINE V == {k \in 0 .. n : f[k] = SubSeq(s, 1, k)}
  <2>1. 0 \in V
    <3>1. SubSeq(s, 1, 0) = <<>> /\ 0 \in 0 .. n  BY <1>0
    <3>2. f[0] = <<>>  BY <1>1
    <3> HIDE DEF n
    <3>3. QED  BY <3>1, <3>2
  <2>2. ASSUME NEW k \in 1 .. n, k - 1 \in V PROVE k \in V
    <3>1. Fills(f[k - 1], s[k], f[k]) /\ Spaced(s, k - 1, f[k - 1]) /\ f[k - 1] = SubSeq(s, 1, k - 1)
      <4>1. k - 1 \in 0 .. n  BY <1>0
      <4>2. QED  BY <1>1, <1>6, <2>2, <4>1
    <3> HIDE DEF V
    <3>2. k \in DOMAIN s /\ k \in Nat /\ k \in 0 .. n
      <4> HIDE DEF n
      <4>1. QED  BY <1>0
    <3>3. ~(f[k - 1] # <<>> /\ f[k - 1][Len(f[k - 1])].user = s[k].user)
      <4> SUFFICES ASSUME f[k - 1] # <<>>, f[k - 1][Len(f[k - 1])].user = s[k].user PROVE FALSE  OBVIOUS
      <4>1. k - 1 # 0  BY <3>1 DEF Spaced, Emitted
      <4>2. k - 1 >= 1 /\ k - 1 \in DOMAIN s /\ (k - 1) + 1 = k  BY <1>0, <3>2, <4>1
      <4>3. s[k - 1].user = s[k].user  BY <3>1, <4>2 DEF Spaced
      <4>4. QED  BY <1>13, <3>2, <4>2, <4>3 DEF Alternates
    <3>4. f[k] = Append(f[k - 1], s[k])  BY <3>1, <3>3 DEF Fills
    <3>5. Append(SubSeq(s, 1, k - 1), s[k]) = SubSeq(s, 1, k)  BY <1>0
    <3>6. QED  BY <3>1, <3>2, <3>4, <3>5 DEF V
  <2>3. V \in SUBSET (0 .. n)  OBVIOUS
  <2> HIDE DEF V
  <2>4. V = 0 .. n  BY <1>0, <2>1, <2>2, <2>3, UpFromZero
  <2>5. n \in V  BY <1>0, <2>4
  <2>6. SubSeq(s, 1, n) = s  OBVIOUS
  <2>7. QED  BY <1>1, <2>5, <2>6 DEF V
<1>14. QED  BY <1>7, <1>8, <1>9, <1>10, <1>11, <1>12, <1>13 DEF Emitted, t

(*****************************************************************************)
(* What the upstream accepts                                                 *)
(*****************************************************************************)
\* Roles alternate from a user turn to a user turn, and every turn answers the calls before it.
Valid(v) == v \in Seq(Sound) /\ Opens(v) /\ Alternates(v) /\ Paired(v) /\ Once(v) /\ v[Len(v)].user

\* A sequence is a set when no element is there twice.
LEMMA IsSetOnce ==
    ASSUME NEW T, NEW s \in Seq(T)
    PROVE  IsSet(s) <=> \A a, b \in DOMAIN s : s[a] = s[b] => a = b
<1> DEFINE S == 1 .. Len(s)
           E == Elements(s)
<1>1. DOMAIN s = S /\ Len(s) \in Nat  OBVIOUS
<1>2. IsFiniteSet(S) /\ Cardinality(S) = Len(s)
  <2>1. 1 \in Int /\ Len(s) \in Int  BY <1>1
  <2>2. IsFiniteSet(S) /\ Cardinality(S) = IF 1 > Len(s) THEN 0 ELSE Len(s) - 1 + 1  BY <2>1, FS_Interval
  <2>3. (IF 1 > Len(s) THEN 0 ELSE Len(s) - 1 + 1) = Len(s)  BY <1>1
  <2>4. QED  BY <2>2, <2>3
<1>3. s \in Surjection(S, E)
  <2>1. s = [i \in S |-> s[i]] /\ \A i \in S : s[i] \in E  BY <1>1 DEF Elements
  <2>2. s \in [S -> E]  BY <2>1
  <2>3. \A e \in E : \E i \in S : s[i] = e  BY <1>1 DEF Elements
  <2>4. QED  BY <2>2, <2>3 DEF Surjection
<1> HIDE DEF S, E
<1>4. Cardinality(E) = Cardinality(S) <=> s \in Injection(S, E)  BY <1>2, <1>3, FS_Surjection
<1>5. s \in Injection(S, E) <=> \A a, b \in S : s[a] = s[b] => a = b
  <2>1. s \in [S -> E]  BY <1>3 DEF Surjection
  <2>2. QED  BY <2>1 DEF Injection, IsInjective
<1>6. QED  BY <1>1, <1>2, <1>4, <1>5 DEF IsSet, E

\* Two neighbours of a valid conversation: the second answers the first.
LEMMA ValidTurns ==
    ASSUME NEW v, Valid(v), NEW i \in DOMAIN v
    PROVE  /\ v[i] \in Sound /\ v[i] \in Proper /\ Distinct(v[i]) /\ OnceIn(v[i])
           /\ i < Len(v) => /\ i + 1 \in DOMAIN v /\ v[i + 1] \in Proper /\ v[i].user # v[i + 1].user
                            /\ ResultIds(v[i + 1]) = UseIds(v[i])
<1>1. v \in Seq(Sound) /\ Paired(v) /\ Alternates(v) /\ Once(v)  BY DEF Valid
<1>2. DOMAIN v = 1 .. Len(v) /\ Len(v) \in Nat  BY <1>1
<1>3. v[i] \in Sound /\ v[i] \in Proper /\ Distinct(v[i]) /\ OnceIn(v[i])  BY <1>1 DEF Sound, Paired, Once
<1>4. ASSUME i < Len(v) PROVE i + 1 \in DOMAIN v /\ v[i + 1] \in Proper  BY <1>1, <1>2, <1>4 DEF Sound
<1>5. i < Len(v) => ResultIds(v[i + 1]) = UseIds(v[i])  BY <1>1, PairedNext
<1>6. QED  BY <1>1, <1>3, <1>4, <1>5 DEF Alternates

\* The validator finds nothing in a valid conversation.
THEOREM ValidIsAccepted ==
    ASSUME NEW v, Valid(v), NoId \notin Names
    PROVE  validateKiroConversation(v) = {}
<1> DEFINE n == Len(v)
           Following(i) == v[i + 1]
           Broken(i) == ~v[i].user /\ v[i].uses # <<>> /\ (~Following(i).user \/ ~toolUsesMatchResults(v[i], Following(i)))
           Unused(i) == ~v[i].user /\ v[i].uses = <<>> /\ Following(i).user /\ Following(i).results # <<>>
           Orphaned(i) == /\ v[i].uses # <<>> /\ Following(i).results # <<>>
                          /\ \/ ~(ResultIds(Following(i)) \subseteq UseIds(v[i]) \ {NoId})
                             \/ ~IsSet(MapSeq(Following(i).results, LAMBDA r : r.id))
<1>0. v \in Seq(Sound) /\ DOMAIN v = 1 .. n /\ n \in Nat /\ n # 0 /\ v[1].user /\ v[n].user
    BY DEF Valid, Opens
<1>1. ~(n = 0 \/ ~v[1].user) /\ ~(n = 0 \/ ~v[n].user)  BY <1>0
<1>2. ASSUME NEW i \in 1 .. n - 1
      PROVE  v[i].user # Following(i).user /\ ~Broken(i) /\ ~Unused(i) /\ ~Orphaned(i)
  <2>1. i \in DOMAIN v /\ i < n  BY <1>0
  <2>2. /\ v[i] \in Proper /\ Following(i) \in Proper /\ v[i].user # Following(i).user
        /\ ResultIds(Following(i)) = UseIds(v[i]) /\ i + 1 \in DOMAIN v
    BY <2>1, ValidTurns
  <2>3. Distinct(Following(i))  BY <2>2, ValidTurns
  <2>4. v[i].user \in BOOLEAN /\ Following(i).user \in BOOLEAN  BY <2>2 DEF Proper, TurnRows
  <2> HIDE DEF Following
  <2>5. ~Broken(i)  BY <2>2, <2>4 DEF toolUsesMatchResults
  <2>6. ~Unused(i)
    <3>1. v[i].uses = <<>> => Following(i).results = <<>>  BY <2>2, NoCalls
    <3>2. QED  BY <3>1
  <2>7. ~Orphaned(i)
    <3> DEFINE rs == Following(i).results
               ids == MapSeq(rs, LAMBDA r : r.id)
    <3>1. rs \in Seq(ResultRows) /\ v[i].uses \in Seq(Names)  BY <2>2 DEF Proper, TurnRows
    <3>2. UseIds(v[i]) \subseteq Names  BY <3>1 DEF UseIds, Elements
    <3>3. ResultIds(Following(i)) \subseteq UseIds(v[i]) \ {NoId}  BY <2>2, <3>2
    <3>4. ids = [a \in DOMAIN rs |-> rs[a].id]  BY DEF MapSeq
    <3> HIDE DEF rs, ids
    <3>5. \A a \in DOMAIN rs : rs[a].id \in Names
      <4>1. \A a \in DOMAIN rs : rs[a] \in ResultRows  BY <3>1
      <4>2. QED  BY <4>1 DEF ResultRows
    <3>6. ids \in Seq(Names)
      <4>1. ids = [a \in 1 .. Len(rs) |-> rs[a].id] /\ DOMAIN rs = 1 .. Len(rs) /\ Len(rs) \in Nat  BY <3>1, <3>4
      <4>2. \A a \in 1 .. Len(rs) : rs[a].id \in Names  BY <3>5, <4>1
      <4>3. QED  BY <4>1, <4>2
    <3>7. \A a, b \in DOMAIN ids : ids[a] = ids[b] => a = b  BY <2>3, <3>4 DEF Distinct, rs
    <3>8. IsSet(ids)  BY <3>6, <3>7, IsSetOnce
    <3>9. QED  BY <3>3, <3>8 DEF ids, rs
  <2>8. QED  BY <2>2, <2>5, <2>6, <2>7
<1>3. ASSUME NEW i \in 1 .. n PROVE ~(v[i].user /\ v[i].text = {} /\ v[i].results = <<>>)
  <2>1. v[i] \in Sound  BY <1>0
  <2>2. QED  BY <2>1 DEF Sound, Says
<1>4. validateKiroConversation(v) =
        {rule \in {"start", "end", "alternate", "pair", "unused", "orphan", "empty"} :
            CASE rule = "start" -> n = 0 \/ ~v[1].user
              [] rule = "end" -> n = 0 \/ ~v[n].user
              [] rule = "alternate" -> \E i \in 1 .. n - 1 : v[i].user = Following(i).user
              [] rule = "pair" -> \E i \in 1 .. n - 1 : Broken(i)
              [] rule = "unused" -> \E i \in 1 .. n - 1 : Unused(i)
              [] rule = "orphan" -> \E i \in 1 .. n - 1 : Orphaned(i)
              [] rule = "empty" -> \E i \in 1 .. n : v[i].user /\ v[i].text = {} /\ v[i].results = <<>>}
  BY DEF validateKiroConversation
<1> HIDE DEF n, Following, Broken, Unused, Orphaned
<1> DEFINE B(rule) == CASE rule = "start" -> n = 0 \/ ~v[1].user
              [] rule = "end" -> n = 0 \/ ~v[n].user
              [] rule = "alternate" -> \E i \in 1 .. n - 1 : v[i].user = Following(i).user
              [] rule = "pair" -> \E i \in 1 .. n - 1 : Broken(i)
              [] rule = "unused" -> \E i \in 1 .. n - 1 : Unused(i)
              [] rule = "orphan" -> \E i \in 1 .. n - 1 : Orphaned(i)
              [] rule = "empty" -> \E i \in 1 .. n : v[i].user /\ v[i].text = {} /\ v[i].results = <<>>
<1>5. ~B("start")  BY <1>1
<1>6. ~B("end")  BY <1>1
<1>7. ~B("alternate")  BY <1>2
<1>8. ~B("pair")  BY <1>2
<1>9. ~B("unused")  BY <1>2
<1>10. ~B("orphan")  BY <1>2
<1>11. ~B("empty")  BY <1>3
<1> HIDE DEF B
<1>12. validateKiroConversation(v) = {rule \in {"start", "end", "alternate", "pair", "unused", "orphan", "empty"} : B(rule)}
  BY <1>4 DEF B
<1>13. QED  BY <1>5, <1>6, <1>7, <1>8, <1>9, <1>10, <1>11, <1>12

\* With a user turn put last, when there was none, nothing is lost and the conversation is valid.
LEMMA Ended ==
    ASSUME NEW s \in Seq(Sound), Opens(s), Paired(s), Once(s), Pend(s) = {}, Alternates(s)
    PROVE  LET t == ensureEndsWithUserTurn(s)
           IN  /\ Valid(t)
               /\ CallsOf(t) = CallsOf(s) /\ AnswersOf(t) \subseteq AnswersOf(s)
               /\ \A id : Heard(s, id) => Heard(t, id)
               /\ \A W : Held(s, W) => Held(t, W)
               /\ \A W : HeldLast(s, W) => HeldLast(t, W)
               /\ s[Len(s)].user => t = s
<1> DEFINE t == ensureEndsWithUserTurn(s)
           n == Len(s)
           x == Filler("Continue")
<1>0. s # <<>> /\ Last(s) = s[n] /\ n \in Nat /\ n # 0 /\ DOMAIN s = 1 .. n /\ s \in Seq(Proper)
  <2>1. s # <<>> /\ s \in Seq(Proper)  BY SoundTurns DEF Opens
  <2>2. QED  BY <2>1 DEF Last
<1>1. CASE s[n].user
  <2>1. t = s
    <3>1. ~(s = <<>>) /\ (s # <<>> /\ Last(s).user)  BY <1>0, <1>1
    <3>2. QED  BY <3>1 DEF ensureEndsWithUserTurn
  <2> HIDE DEF t
  <2>2. Valid(s)  BY <1>1 DEF Valid
  <2>3. QED  BY <2>1, <2>2 DEF t
<1>2. CASE ~s[n].user
  <2>1. t = Append(s, x)
    <3>1. ~(s = <<>>) /\ ~(s # <<>> /\ Last(s).user)  BY <1>0, <1>2
    <3>2. QED  BY <3>1 DEF ensureEndsWithUserTurn
  <2>2. x \in Sound /\ x \in Proper /\ x.user /\ x.uses = <<>> /\ x.results = <<>>  BY FillerSound DEF Sound
  <2>3. UseIds(x) = {} /\ ResultIds(x) = {} /\ OnceIn(x) /\ Distinct(x)
    <3>1. UseIds(x) = {} /\ ResultIds(x) = {}  BY <2>2, NoCalls
    <3>2. OnceIn(x) /\ Distinct(x)  BY <2>2 DEF OnceIn, Distinct
    <3>3. QED  BY <3>1, <3>2
  <2> HIDE DEF t, x
  <2>4. /\ t \in Seq(Sound) /\ Paired(t) /\ t[Len(t)] = x /\ t # <<>> /\ t[1] = s[1]
        /\ \A W : Held(s, W) => Held(t, W)
    BY <1>0, <2>1, <2>2, <2>3, PairedAppend
  <2>5. /\ CallsOf(t) = CallsOf(s) \cup UseIds(x)
        /\ \A id : Heard(t, id) <=> Heard(s, id) \/ ToldBy(x, id)
        /\ Once(s) /\ OnceIn(x) /\ CallsOf(s) \cap UseIds(x) = {} => Once(t)
    BY <1>0, <2>1, <2>2, AppendedTurn
  <2>6. Alternates(t)  BY <1>2, <2>1, <2>2, AlternatesAppend
  <2>7. AnswersOf(t) \subseteq AnswersOf(s)
    <3>1. \A i \in DOMAIN t : (i \in DOMAIN s /\ t[i] = s[i]) \/ t[i] = x  BY <2>1, <2>2, AppendFacts
    <3>2. QED  BY <2>3, <3>1 DEF AnswersOf
  <2>8. ASSUME NEW W PROVE ~HeldLast(s, W)
    <3> SUFFICES ASSUME HeldLast(s, W) PROVE FALSE  OBVIOUS
    <3>1. n >= 2 /\ HeldAt(s, W, n - 1) /\ (n - 1) + 1 = n /\ n \in DOMAIN s  BY <1>0 DEF HeldLast
    <3>2. ResultIds(s[n]) # {}  BY <3>1, HeldResults DEF HeldAt
    <3>3. s[n] \in Proper  BY <1>0, <3>1
    <3>4. s[n].results # <<>>  BY <3>2, <3>3, NoCalls
    <3>5. QED  BY <1>2, <3>3, <3>4 DEF Proper
  <2>9. Valid(t)  BY <2>2, <2>3, <2>4, <2>5, <2>6 DEF Valid, Opens
  <2>10. QED  BY <1>2, <2>3, <2>4, <2>5, <2>7, <2>8, <2>9 DEF t
<1>3. QED  BY <1>1, <1>2

\* What the whole repair makes of a conversation.
THEOREM RepairedConversation ==
    ASSUME NEW s \in Seq(Proper), Once(s), Speaking(s), NoId \notin Names
    PROVE  LET v == repairKiroConversation(prepareKiroConversation(s))
           IN  /\ Valid(v)
               /\ CallsOf(v) = CallsOf(s) /\ AnswersOf(v) \subseteq AnswersOf(s) \cup CallsOf(s)
               /\ \A id : Heard(s, id) => Heard(v, id)
               /\ \A r : Partners(s, r) /\ Real(r) => Held(v, ResultIds(r))
               /\ \A a, r : /\ EndsWith(s, a, r) /\ Partners(s, r) /\ Real(r) /\ UseIds(a) = ResultIds(r)
                            /\ a.uses # <<>> /\ r.results # <<>> /\ Scrubbed(a) = a
                            => HeldLast(v, ResultIds(r))
<1> DEFINE p == prepareKiroConversation(s)
           b == ensureStartsWithUserTurn(p)
           d == dropContentlessUserTurns(b)
           u == pullToolResultsAfterTheirCalls(d)
           o == filterOrphanToolResults(u)
           k == backfillMissingToolResults(o)
           m == insertFillerBetweenSameRoleTurns(k)
           v == ensureEndsWithUserTurn(m)
           C == CallsOf(s)
           R == AnswersOf(s)
<1>0. repairKiroConversation(p) = v  BY DEF repairKiroConversation
<1>1. /\ p \in Seq(Proper) /\ Once(p) /\ Speaking(p) /\ CallsOf(p) = C /\ AnswersOf(p) \subseteq R
      /\ (\A i \in DOMAIN p : Neat(p[i])) /\ \A id : Heard(s, id) => Heard(p, id)
      /\ \A r : Partners(s, r) => Partners(p, r)
      /\ \A a, r : EndsWith(s, a, r) /\ a.uses # <<>> /\ r.results # <<>> /\ Scrubbed(a) = a => EndsWith(p, a, r)
  BY Cleaned, CleanedPairs
<1> HIDE DEF p
<1>2. /\ b \in Seq(Proper) /\ Opens(b) /\ Once(b) /\ Speaking(b) /\ CallsOf(b) = CallsOf(p)
      /\ AnswersOf(b) \subseteq AnswersOf(p)
      /\ (\A i \in DOMAIN b : Neat(b[i])) /\ \A id : Heard(p, id) => Heard(b, id)
      /\ \A r : Partners(p, r) => Partners(b, r)
      /\ \A a, r : EndsWith(p, a, r) => EndsWith(b, a, r)
  BY <1>1, Started
<1> HIDE DEF b
<1>3. /\ d \in Seq(Sound) /\ Opens(d) /\ Once(d) /\ CallsOf(d) = CallsOf(b) /\ AnswersOf(d) \subseteq AnswersOf(b)
      /\ \A id : Heard(b, id) => Heard(d, id)
      /\ \A r : Partners(b, r) => Partners(d, r)
      /\ \A a, r : EndsWith(b, a, r) /\ a.uses # <<>> /\ r.results # <<>> => EndsWith(d, a, r)
  BY <1>2, Dropped
<1> HIDE DEF d
<1>4. /\ u \in Seq(Sound) /\ Opens(u) /\ Once(u) /\ CallsOf(u) = CallsOf(d) /\ AnswersOf(u) \subseteq AnswersOf(d)
      /\ \A id : Heard(d, id) => Heard(u, id)
      /\ \A r : Partners(d, r) => Adjacent(u, r)
      /\ \A a, r : EndPair(d, a, r) => EndPair(u, a, r)
  BY <1>3, Pulled
<1> HIDE DEF u
<1>5. /\ o \in Seq(Sound) /\ Opens(o) /\ Once(o) /\ NoOrphans(o) /\ CallsOf(o) = CallsOf(u)
      /\ AnswersOf(o) \subseteq AnswersOf(u) /\ \A id : Heard(u, id) => Heard(o, id)
      /\ \A r : Adjacent(u, r) /\ Real(r) => Held(o, ResultIds(r))
      /\ \A a, r : EndPair(u, a, r) /\ Real(r) => HeldLast(o, ResultIds(r))
  BY <1>4, Filtered
<1> HIDE DEF o
<1>6. /\ k \in Seq(Sound) /\ Opens(k) /\ Once(k) /\ Paired(k) /\ Pend(k) = {} /\ CallsOf(k) = CallsOf(o)
      /\ AnswersOf(k) \subseteq AnswersOf(o) \cup CallsOf(o) /\ \A id : Heard(o, id) => Heard(k, id)
      /\ \A W : Held(o, W) => Held(k, W)
      /\ \A W : HeldLast(o, W) => HeldLast(k, W)
  BY <1>5, Backfills
<1> HIDE DEF k
<1>7. /\ m \in Seq(Sound) /\ Opens(m) /\ Once(m) /\ Paired(m) /\ Pend(m) = {} /\ Alternates(m)
      /\ CallsOf(m) = CallsOf(k) /\ AnswersOf(m) \subseteq AnswersOf(k) \cup CallsOf(k)
      /\ \A id : Heard(k, id) => Heard(m, id)
      /\ \A W : Held(k, W) => Held(m, W)
      /\ \A W : HeldLast(k, W) => HeldLast(m, W)
  BY <1>6, Spaces
<1> HIDE DEF m
<1>8. /\ Valid(v) /\ CallsOf(v) = CallsOf(m) /\ AnswersOf(v) \subseteq AnswersOf(m)
      /\ \A id : Heard(m, id) => Heard(v, id)
      /\ \A W : Held(m, W) => Held(v, W)
      /\ \A W : HeldLast(m, W) => HeldLast(v, W)
  BY <1>7, Ended
<1> HIDE DEF v, C, R
<1>9. CallsOf(v) = C /\ AnswersOf(v) \subseteq R \cup C
  BY <1>1, <1>2, <1>3, <1>4, <1>5, <1>6, <1>7, <1>8
<1>10. ASSUME NEW id, Heard(s, id) PROVE Heard(v, id)
  BY <1>1, <1>2, <1>3, <1>4, <1>5, <1>6, <1>7, <1>8, <1>10
<1>11. ASSUME NEW r, Partners(s, r), Real(r) PROVE Held(v, ResultIds(r))
  BY <1>1, <1>2, <1>3, <1>4, <1>5, <1>6, <1>7, <1>8, <1>11
<1>12. ASSUME NEW a, NEW r, EndsWith(s, a, r), Partners(s, r), Real(r), UseIds(a) = ResultIds(r),
              a.uses # <<>>, r.results # <<>>, Scrubbed(a) = a
       PROVE  HeldLast(v, ResultIds(r))
  <2>1. EndsWith(d, a, r) /\ Partners(d, r)  BY <1>1, <1>2, <1>3, <1>12
  <2>2. d \in Seq(Proper)  BY <1>3, SoundTurns
  <2>3. EndPair(d, a, r)  BY <1>3, <1>12, <2>1, <2>2, EndPartners
  <2>4. QED  BY <1>4, <1>5, <1>6, <1>7, <1>8, <1>12, <2>3
<1>13. QED  BY <1>0, <1>8, <1>9, <1>10, <1>11, <1>12 DEF p, C, R

(*****************************************************************************)
(* What is repaired stays as it is                                           *)
(*****************************************************************************)
\* Sound turns that alternate are not cleaned up,
LEMMA NothingToClean ==
    ASSUME NEW s \in Seq(Sound), Alternates(s)
    PROVE  prepareKiroConversation(s) = s
<1> DEFINE n == Len(s)
           c == MapSeq(s, Scrubbed)
<1>0. n \in Nat /\ DOMAIN s = 1 .. n  OBVIOUS
<1>1. \A i \in DOMAIN s : s[i] \in Sound /\ s[i] \in Proper  BY SoundTurns
<1>2. c = s
  <2>1. ASSUME NEW i \in DOMAIN s PROVE Scrubbed(s[i]) = s[i]
    <3> DEFINE m == s[i]
    <3>1. m \in Proper /\ Neat(m)  BY <1>1 DEF Sound
    <3> HIDE DEF m
    <3>2. CASE m.user  BY <3>1, <3>2, ScrubbedTurn DEF m
    <3>3. CASE ~m.user
      <4>1. m.text \ {"polluted"} = m.text  BY <3>1, <3>3 DEF Neat
      <4>2. [m EXCEPT !.text = m.text] = m  BY <3>1 DEF Proper, TurnRows
      <4>3. Scrubbed(m) = [m EXCEPT !.text = m.text]  BY <3>3, <4>1 DEF Scrubbed
      <4>4. QED  BY <4>2, <4>3 DEF m
    <3>4. QED  BY <3>2, <3>3 DEF m
  <2>2. c = [i \in DOMAIN s |-> s[i]]  BY <2>1 DEF MapSeq
  <2>3. QED  BY <1>0, <2>2
<1>3. prepareKiroConversation(s) = Fold(Prepared, <<>>, s)  BY <1>2 DEF prepareKiroConversation
<1>4. PICK f : /\ f[0] = <<>> /\ \A k \in 1 .. n : f[k] = Prepared(f[k - 1], s[k])
               /\ Fold(Prepared, <<>>, s) = f[n]
  BY SoundTurns, PreparedUnfolds
<1> DEFINE V == {k \in 0 .. n : f[k] = SubSeq(s, 1, k)}
<1>5. 0 \in V
  <2>1. SubSeq(s, 1, 0) = <<>> /\ 0 \in 0 .. n  BY <1>0
  <2> HIDE DEF n
  <2>2. QED  BY <1>4, <2>1
<1>6. ASSUME NEW k \in 1 .. n, k - 1 \in V PROVE k \in V
  <2> DEFINE out == f[k - 1]
  <2>1. out = SubSeq(s, 1, k - 1) /\ f[k] = Prepared(out, s[k])  BY <1>4, <1>6
  <2> HIDE DEF V, out
  <2>2. k \in DOMAIN s /\ k \in Nat /\ k \in 0 .. n
    <3> HIDE DEF n
    <3>1. QED  BY <1>0
  <2>3. ~Hollow(s[k])  BY <1>1, <2>2 DEF Sound, Neat
  <2>4. ~Repeats(out, s[k])
    <3> SUFFICES ASSUME Repeats(out, s[k]) PROVE FALSE  OBVIOUS
    <3>1. s[k].user /\ out # <<>> /\ Last(out).user  BY DEF Repeats
    <3>2. k - 1 # 0  BY <2>1, <3>1
    <3>3. k - 1 \in DOMAIN s /\ (k - 1) + 1 = k  BY <1>0, <2>2, <3>2
    <3>4. Len(out) = k - 1 /\ out[k - 1] = s[k - 1]  BY <1>0, <2>1, <2>2, <3>2
    <3>5. s[k - 1].user  BY <3>1, <3>4 DEF Last
    <3>6. s[k].user # s[k - 1].user  BY <2>2, <3>3 DEF Alternates
    <3>7. s[k].user \in BOOLEAN /\ s[k - 1].user \in BOOLEAN  BY <1>1, <2>2, <3>3 DEF Proper, TurnRows
    <3>8. QED  BY <3>1, <3>5, <3>6, <3>7
  <2>5. f[k] = Append(out, s[k])  BY <2>1, <2>3, <2>4 DEF Prepared
  <2>6. Append(SubSeq(s, 1, k - 1), s[k]) = SubSeq(s, 1, k)  BY <1>0
  <2>7. QED  BY <2>1, <2>2, <2>5, <2>6 DEF V
<1>7. V \in SUBSET (0 .. n)  OBVIOUS
<1> HIDE DEF V
<1>8. V = 0 .. n  BY <1>0, <1>5, <1>6, <1>7, UpFromZero
<1>9. n \in V  BY <1>0, <1>8
<1>10. SubSeq(s, 1, n) = s  OBVIOUS
<1>11. QED  BY <1>3, <1>4, <1>9, <1>10 DEF V

\* and paired ones are in order.
LEMMA NothingToPull ==
    ASSUME NEW s \in Seq(Sound), Paired(s), Once(s)
    PROVE  pullToolResultsAfterTheirCalls(s) = s
<1> DEFINE n == Len(s)
           count(k) == [a \in 1 .. k |-> a]
<1>0. n \in Nat /\ DOMAIN s = 1 .. n /\ s \in Seq(Proper)  BY SoundTurns
<1>1. PICK f : /\ f[0] = <<>> /\ \A k \in 1 .. n : f[k] = PullOne(f[k - 1], s, k)
               /\ pullToolResultsAfterTheirCalls(s) = MapSeq(f[n], LAMBDA i : s[i])
  BY <1>0, PullsUnfold
<1>2. ASSUME NEW k \in 1 .. n, NEW id \in UseIds(s[k]) PROVE Home(s, id) \in {0, k + 1}
  <2> DEFINE h == Home(s, id)
  <2> SUFFICES ASSUME h # 0 PROVE h = k + 1  OBVIOUS
  <2>1. h \in Homes(s, id)  BY <1>0, HomeTurn
  <2> HIDE DEF h
  <2>2. h \in DOMAIN s /\ id \in ResultIds(s[h])  BY <2>1 DEF Homes
  <2>3. id \in CallsAt(s, h - 1)  BY <2>2 DEF Paired
  <2>4. h - 1 > 0 /\ id \in UseIds(s[h - 1])  BY <2>3 DEF CallsAt
  <2>5. h - 1 \in DOMAIN s /\ k \in DOMAIN s  BY <1>0, <2>2, <2>4
  <2>6. UseIds(s[h - 1]) \cap UseIds(s[k]) # {}  BY <2>4
  <2>7. h - 1 = k  BY <2>5, <2>6 DEF Once
  <2>8. QED  BY <1>0, <2>2, <2>7
<1> DEFINE V == {k \in 0 .. n : f[k] = count(k)}
<1>3. 0 \in V
  <2>1. count(0) = <<>> /\ 0 \in 0 .. n  BY <1>0
  <2>2. QED  BY <1>1, <2>1
<1>4. ASSUME NEW k \in 1 .. n, k - 1 \in V PROVE k \in V
  <2> DEFINE out == f[k - 1]
  <2>1. out = count(k - 1) /\ f[k] = PullOne(out, s, k)  BY <1>1, <1>4
  <2> HIDE DEF V, out
  <2>2. k \in DOMAIN s /\ k \in Nat /\ k \in 0 .. n
    <3> HIDE DEF n
    <3>1. QED  BY <1>0
  <2>3. out \in Seq(Nat) /\ k \notin Elements(out)
    <3>1. k - 1 \in Nat  BY <2>2
    <3>2. out = [a \in 1 .. k - 1 |-> a]  BY <2>1
    <3>3. QED  BY <2>2, <3>1, <3>2 DEF Elements
  <2>4. f[k] = Append(out, k)  BY <1>0, <1>2, <2>1, <2>2, <2>3, PullNone
  <2>5. Append(count(k - 1), k) = count(k)  BY <2>2
  <2>6. QED  BY <2>1, <2>2, <2>4, <2>5 DEF V
<1>5. V \in SUBSET (0 .. n)  OBVIOUS
<1> HIDE DEF V
<1>6. V = 0 .. n  BY <1>0, <1>3, <1>4, <1>5, UpFromZero
<1>7. n \in V  BY <1>0, <1>6
<1>8. f[n] = [a \in DOMAIN s |-> a]  BY <1>0, <1>7 DEF V
<1>9. MapSeq(f[n], LAMBDA i : s[i]) = [a \in DOMAIN s |-> s[a]]  BY <1>8 DEF MapSeq
<1>10. QED  BY <1>0, <1>1, <1>9

\* A conversation the upstream accepts is left as it is.
THEOREM ValidStays ==
    ASSUME NEW s, Valid(s), NoId \notin Names
    PROVE  repairKiroConversation(prepareKiroConversation(s)) = s
<1>0. s \in Seq(Sound) /\ Opens(s) /\ Alternates(s) /\ Paired(s) /\ Once(s) /\ s[Len(s)].user  BY DEF Valid
<1>1. prepareKiroConversation(s) = s  BY <1>0, NothingToClean
<1>2. ensureStartsWithUserTurn(s) = s  BY <1>0 DEF Opens, ensureStartsWithUserTurn
<1>3. dropContentlessUserTurns(s) = s  BY <1>0, NoneDropped
<1>4. pullToolResultsAfterTheirCalls(s) = s  BY <1>0, NothingToPull
<1>5. NoOrphans(s)  BY <1>0 DEF NoOrphans, Paired
<1>6. filterOrphanToolResults(s) = s  BY <1>0, <1>5, Filtered
<1>7. Pend(s) = {}
  <2>1. s # <<>> /\ Len(s) \in DOMAIN s /\ s \in Seq(Proper)
    <3>1. s # <<>> /\ s \in Seq(Proper)  BY <1>0, SoundTurns DEF Opens
    <3>2. QED  BY <3>1
  <2>2. s[Len(s)] \in Proper  BY <2>1
  <2>3. s[Len(s)].uses = <<>>  BY <1>0, <2>2 DEF Proper
  <2>4. QED  BY <2>1, <2>2, <2>3, NoCalls DEF Pend
<1>8. backfillMissingToolResults(s) = s  BY <1>0, <1>5, <1>7, Backfills
<1>9. insertFillerBetweenSameRoleTurns(s) = s  BY <1>0, <1>7, Spaces
<1>10. ensureEndsWithUserTurn(s) = s  BY <1>0, <1>7, Ended
<1>11. QED  BY <1>1, <1>2, <1>3, <1>4, <1>6, <1>8, <1>9, <1>10 DEF repairKiroConversation

(*****************************************************************************)
(* The payload                                                               *)
(*****************************************************************************)
\* A sequence is its front and its last.
LEMMA FrontLast ==
    ASSUME NEW T, NEW v \in Seq(T), v # <<>>
    PROVE  /\ Front(v) \in Seq(T) /\ Last(v) \in T /\ Last(v) = v[Len(v)] /\ Append(Front(v), Last(v)) = v
           /\ Len(v) \in DOMAIN v /\ Len(Front(v)) = Len(v) - 1 /\ \A i \in 1 .. Len(v) - 1 : Front(v)[i] = v[i]
<1>1. Len(v) \in Nat /\ Len(v) # 0 /\ DOMAIN v = 1 .. Len(v)  OBVIOUS
<1>2. Front(v) = SubSeq(v, 1, Len(v) - 1) /\ Last(v) = v[Len(v)]  BY DEF Front, Last
<1>3. Front(v) \in Seq(T) /\ Len(Front(v)) = Len(v) - 1 /\ \A i \in 1 .. Len(v) - 1 : Front(v)[i] = v[i]
  BY <1>1, <1>2
<1>4. Append(Front(v), v[Len(v)]) = v
  <2> DEFINE f == Front(v)
             w == Append(f, v[Len(v)])
             n == Len(v)
  <2>1. f \in Seq(T) /\ v[n] \in T /\ Len(f) = n - 1 /\ n \in Nat  BY <1>1, <1>3
  <2> HIDE DEF f, n
  <2>2. w \in Seq(T) /\ Len(w) = n - 1 + 1 /\ w[n - 1 + 1] = v[n] /\ \A i \in DOMAIN f : w[i] = f[i]
    BY <2>1, AppendFacts DEF n
  <2>3. Len(w) = n /\ w[n] = v[n] /\ DOMAIN f = 1 .. n - 1
    <3>1. n - 1 + 1 = n  BY <2>1
    <3>2. QED  BY <2>1, <2>2, <3>1
  <2> HIDE DEF w
  <2>4. ASSUME NEW i \in 1 .. n PROVE w[i] = v[i]
    <3>1. CASE i = n  BY <2>3, <3>1
    <3>2. CASE i # n
      <4>1. i \in 1 .. n - 1  BY <2>1, <3>2
      <4>2. QED  BY <1>3, <2>2, <2>3, <4>1 DEF f, n
    <3>3. QED  BY <3>1, <3>2
  <2>5. w = v
    <3>1. DOMAIN w = 1 .. n /\ DOMAIN v = 1 .. n  BY <1>1, <2>2, <2>3 DEF n
    <3>2. QED  BY <2>2, <2>3, <2>4, <3>1 DEF n
  <2>6. QED  BY <2>5 DEF w, f, n
<1>5. QED  BY <1>1, <1>2, <1>3, <1>4

\* A payload whose conversation can be repaired, and one the upstream accepts.
Fresh(p) == p.history \in Seq(Proper) /\ p.current \in Proper /\ Once(Merged(p)) /\ Speaking(Merged(p))
Acceptable(p) ==
    /\ p.history \in Seq(Proper) /\ p.current \in Proper /\ Valid(Merged(p))
    /\ Traffic(Merged(p)) => p.tools # {}
    /\ repairKiroPayload(p) = p

\* The turns of a merged payload are those of its history and the current one.
LEMMA MergedTurns ==
    ASSUME NEW p, p.history \in Seq(Proper), p.current \in Proper
    PROVE  /\ Merged(p) \in Seq(Proper) /\ Len(Merged(p)) = Len(p.history) + 1 /\ Merged(p)[Len(Merged(p))] = p.current
           /\ Len(p.history) \in Nat /\ DOMAIN p.history = 1 .. Len(p.history) /\ DOMAIN Merged(p) = 1 .. Len(p.history) + 1
           /\ \A i \in DOMAIN p.history : i \in DOMAIN Merged(p) /\ Merged(p)[i] = p.history[i]
           /\ (p.history # <<>> => Last(p.history) = Merged(p)[Len(Merged(p)) - 1])
<1>1. /\ Merged(p) \in Seq(Proper) /\ Len(Merged(p)) = Len(p.history) + 1 /\ Merged(p)[Len(p.history) + 1] = p.current
      /\ Len(p.history) \in Nat /\ DOMAIN p.history = 1 .. Len(p.history) /\ DOMAIN Merged(p) = 1 .. Len(p.history) + 1
      /\ \A i \in DOMAIN p.history : i \in DOMAIN Merged(p) /\ Merged(p)[i] = p.history[i]
  BY AppendFacts DEF Merged
<1>2. ASSUME p.history # <<>> PROVE Last(p.history) = Merged(p)[Len(Merged(p)) - 1]
  <2>1. Len(p.history) \in DOMAIN p.history  BY <1>2
  <2>2. Len(Merged(p)) - 1 = Len(p.history)  BY <1>1
  <2>3. QED  BY <1>1, <2>1, <2>2 DEF Last
<1>3. QED  BY <1>1, <1>2

\* A repaired payload holds the repaired conversation, is accepted, and is its own repair.
LEMMA PayloadRepaired ==
    ASSUME NEW p, Fresh(p), NoId \notin Names
    PROVE  LET q == repairKiroPayload(p)
           IN  /\ Merged(q) = repairKiroConversation(prepareKiroConversation(Merged(p)))
               /\ Acceptable(q)
<1> DEFINE M == Merged(p)
           v == repairKiroConversation(prepareKiroConversation(M))
           q == repairKiroPayload(p)
<1>0. M \in Seq(Proper) /\ Once(M) /\ Speaking(M)  BY MergedTurns DEF Fresh
<1>1. q = [history |-> Front(v), current |-> Spoken(Last(v)),
           tools |-> IF p.tools # {} THEN p.tools ELSE synthesizeToolSpecsFor(v)]
  BY DEF repairKiroPayload
<1> HIDE DEF M
<1>2. Valid(v)  BY <1>0, RepairedConversation
<1> HIDE DEF v
<1>3. v \in Seq(Sound) /\ v # <<>> /\ v \in Seq(Proper) /\ v[Len(v)].user
  <2>1. v \in Seq(Sound) /\ v # <<>> /\ v[Len(v)].user  BY <1>2 DEF Valid, Opens
  <2>2. QED  BY <2>1, SoundTurns
<1>4. /\ Front(v) \in Seq(Proper) /\ Last(v) \in Sound /\ Last(v) = v[Len(v)] /\ Append(Front(v), Last(v)) = v
  BY <1>3, FrontLast
<1>5. Spoken(Last(v)) = Last(v)  BY <1>3, <1>4 DEF Spoken, Sound, Says
<1>6. q.history = Front(v) /\ q.current = Last(v) /\ q.tools = IF p.tools # {} THEN p.tools ELSE synthesizeToolSpecsFor(v)
  BY <1>1, <1>5
<1>7. Merged(q) = v  BY <1>4, <1>6 DEF Merged
<1>8. Traffic(v) => q.tools # {}
  <2>1. Traffic(v) => synthesizeToolSpecsFor(v) # {}  BY DEF synthesizeToolSpecsFor
  <2>2. QED  BY <1>6, <2>1
<1>9. repairKiroPayload(q) = q
  <2>1. repairKiroConversation(prepareKiroConversation(Merged(q))) = v  BY <1>2, <1>7, ValidStays
  <2>2. repairKiroPayload(q) = [history |-> Front(v), current |-> Spoken(Last(v)),
                                tools |-> IF q.tools # {} THEN q.tools ELSE synthesizeToolSpecsFor(v)]
    BY <2>1 DEF repairKiroPayload
  <2>3. (IF q.tools # {} THEN q.tools ELSE synthesizeToolSpecsFor(v)) = IF p.tools # {} THEN p.tools ELSE synthesizeToolSpecsFor(v)
    BY <1>6
  <2>4. QED  BY <1>1, <2>2, <2>3
<1>10. q.history \in Seq(Proper) /\ q.current \in Proper  BY <1>4, <1>6 DEF Sound
<1> HIDE DEF q
<1>11. Acceptable(q)  BY <1>2, <1>7, <1>8, <1>9, <1>10 DEF Acceptable
<1>12. QED  BY <1>7, <1>11 DEF q, v, M

(*****************************************************************************)
(* What a round searched for                                                 *)
(*****************************************************************************)
\* The last turn answers the one before it with results of its own, and no other turn does.
EndsAnswered(s) ==
    \E a, r : /\ EndsWith(s, a, r) /\ Partners(s, r) /\ Real(r) /\ UseIds(a) = ResultIds(r)
              /\ a.uses # <<>> /\ r.results # <<>> /\ Scrubbed(a) = a
LastHeld(s) == \E W : HeldLast(s, W)

\* The repair keeps the answers of the last turn's calls.
LEMMA AnswersHeld ==
    ASSUME NEW p, Fresh(p), EndsAnswered(Merged(p)), NoId \notin Names
    PROVE  LastHeld(Merged(repairKiroPayload(p)))
<1> DEFINE v == Merged(repairKiroPayload(p))
           s == Merged(p)
<1>1. v = repairKiroConversation(prepareKiroConversation(s))  BY PayloadRepaired
<1>2. s \in Seq(Proper) /\ Once(s) /\ Speaking(s)  BY MergedTurns DEF Fresh
<1> HIDE DEF v, s
<1>3. PICK a, r : /\ EndsWith(s, a, r) /\ Partners(s, r) /\ Real(r) /\ UseIds(a) = ResultIds(r)
                  /\ a.uses # <<>> /\ r.results # <<>> /\ Scrubbed(a) = a
  BY DEF EndsAnswered, s
<1>4. HeldLast(v, ResultIds(r))  BY <1>1, <1>2, <1>3, RepairedConversation
<1>5. QED  BY <1>4 DEF LastHeld, v

(*****************************************************************************)
(* Conversations made of parts of another one                                *)
(*****************************************************************************)
\* Turns with the same calls and results.
Alike(x, m) == x.user = m.user /\ x.uses = m.uses /\ x.results = m.results
\* g says which turn of s each turn of t is; 0 is a turn of no consequence.
From(s, t, g) ==
    /\ g \in [DOMAIN t -> 0 .. Len(s)]
    /\ \A a \in DOMAIN t : g[a] = 0 => UseIds(t[a]) = {} /\ ResultIds(t[a]) = {}
    /\ \A a \in DOMAIN t : g[a] # 0 => Alike(t[a], s[g[a]])
    /\ \A a, b \in DOMAIN t : a < b /\ g[a] # 0 /\ g[b] # 0 => g[a] < g[b]
\* t has the turns R of s, in their order.
PartOf(s, t, R) == R \subseteq DOMAIN s /\ \E g : From(s, t, g) /\ \A j \in DOMAIN s : Takes(g, j) <=> j \in R

\* The elements of two sequences joined.
LEMMA JoinedSeq ==
    ASSUME NEW T, NEW x \in Seq(T), NEW y \in Seq(T)
    PROVE  /\ x \o y \in Seq(T) /\ Len(x \o y) = Len(x) + Len(y) /\ DOMAIN (x \o y) = 1 .. Len(x) + Len(y)
           /\ Len(x) \in Nat /\ Len(y) \in Nat
           /\ \A a \in 1 .. Len(x) : (x \o y)[a] = x[a]
           /\ \A a \in Len(x) + 1 .. Len(x) + Len(y) : a - Len(x) \in DOMAIN y /\ (x \o y)[a] = y[a - Len(x)]
OBVIOUS

\* Two parts, one behind the other, are a part.
LEMMA PartJoin ==
    ASSUME NEW s \in Seq(Proper), NEW x \in Seq(Proper), NEW y \in Seq(Proper), NEW R, NEW W,
           PartOf(s, x, R), PartOf(s, y, W), \A i \in R, j \in W : i < j
    PROVE  PartOf(s, x \o y, R \cup W)
<1> DEFINE z == x \o y
           n == Len(x)
           k == Len(y)
<1>0. /\ z \in Seq(Proper) /\ DOMAIN z = 1 .. n + k /\ n \in Nat /\ k \in Nat /\ DOMAIN x = 1 .. n /\ DOMAIN y = 1 .. k
      /\ \A a \in 1 .. n : z[a] = x[a]
      /\ \A a \in n + 1 .. n + k : a - n \in DOMAIN y /\ z[a] = y[a - n]
  BY JoinedSeq
<1>1. PICK f : From(s, x, f) /\ \A j \in DOMAIN s : Takes(f, j) <=> j \in R  BY DEF PartOf
<1>2. PICK h : From(s, y, h) /\ \A j \in DOMAIN s : Takes(h, j) <=> j \in W  BY DEF PartOf
<1>3. /\ f \in [1 .. n -> 0 .. Len(s)] /\ h \in [1 .. k -> 0 .. Len(s)] /\ DOMAIN s = 1 .. Len(s) /\ Len(s) \in Nat
      /\ DOMAIN f = 1 .. n /\ DOMAIN h = 1 .. k
  BY <1>0, <1>1, <1>2 DEF From
<1> HIDE DEF z, n, k
<1> DEFINE g == [a \in 1 .. n + k |-> IF a <= n THEN f[a] ELSE h[a - n]]
<1>4. /\ \A a \in 1 .. n : a \in DOMAIN z /\ g[a] = f[a] /\ z[a] = x[a] /\ a \in DOMAIN x
      /\ \A a \in n + 1 .. n + k : a \in DOMAIN z /\ g[a] = h[a - n] /\ z[a] = y[a - n] /\ a - n \in DOMAIN y
      /\ DOMAIN g = 1 .. n + k
  BY <1>0
<1>5. \A a \in 1 .. n + k : a \in 1 .. n \/ a \in n + 1 .. n + k  BY <1>0
<1>6. g \in [DOMAIN z -> 0 .. Len(s)]
  <2>1. \A a \in 1 .. n + k : g[a] \in 0 .. Len(s)  BY <1>0, <1>3, <1>4, <1>5
  <2>2. QED  BY <1>0, <2>1
<1> HIDE DEF g
<1>7. ASSUME NEW a \in DOMAIN z
      PROVE  /\ g[a] = 0 => UseIds(z[a]) = {} /\ ResultIds(z[a]) = {}
             /\ g[a] # 0 => Alike(z[a], s[g[a]])
  <2>1. CASE a \in 1 .. n  BY <1>1, <1>4, <2>1 DEF From
  <2>2. CASE a \in n + 1 .. n + k  BY <1>2, <1>4, <2>2 DEF From
  <2>3. QED  BY <1>0, <1>5, <2>1, <2>2
<1>8. ASSUME NEW a \in DOMAIN z, NEW b \in DOMAIN z, a < b, g[a] # 0, g[b] # 0 PROVE g[a] < g[b]
  <2>1. CASE a \in 1 .. n /\ b \in 1 .. n  BY <1>1, <1>4, <1>8, <2>1 DEF From
  <2>2. CASE a \in n + 1 .. n + k /\ b \in n + 1 .. n + k
    <3>1. a - n < b - n  BY <1>0, <1>8, <2>2
    <3>2. QED  BY <1>2, <1>4, <1>8, <2>2, <3>1 DEF From
  <2>3. CASE a \in 1 .. n /\ b \in n + 1 .. n + k
    <3>1. Takes(f, g[a]) /\ Takes(h, g[b])  BY <1>0, <1>3, <1>4, <2>3 DEF Takes
    <3>2. g[a] \in DOMAIN s /\ g[b] \in DOMAIN s  BY <1>3, <1>6, <1>8
    <3>3. QED  BY <1>1, <1>2, <3>1, <3>2
  <2>4. CASE a \in n + 1 .. n + k /\ b \in 1 .. n  BY <1>0, <1>8, <2>4
  <2>5. QED  BY <1>0, <1>5, <2>1, <2>2, <2>3, <2>4
<1>9. ASSUME NEW j \in DOMAIN s PROVE Takes(g, j) <=> j \in R \cup W
  <2>1. Takes(f, j) => Takes(g, j)
    <3>1. \A a \in 1 .. n : a \in 1 .. n + k  BY <1>0
    <3>2. QED  BY <1>3, <1>4, <3>1 DEF Takes
  <2>2. Takes(h, j) => Takes(g, j)
    <3> SUFFICES ASSUME NEW a \in 1 .. k, h[a] = j PROVE Takes(g, j)  BY <1>3 DEF Takes
    <3>1. a + n \in n + 1 .. n + k /\ a + n - n = a /\ a + n \in 1 .. n + k  BY <1>0
    <3>2. \A b \in n + 1 .. n + k : g[b] = h[b - n]  BY <1>4
    <3>3. PICK b : b = a + n  OBVIOUS
    <3>4. b \in n + 1 .. n + k /\ b - n = a /\ b \in 1 .. n + k  BY <1>0, <3>3
    <3>5. g[b] = j  BY <3>2, <3>4
    <3>6. QED  BY <1>4, <3>4, <3>5 DEF Takes
  <2>3. Takes(g, j) => Takes(f, j) \/ Takes(h, j)
    <3> SUFFICES ASSUME NEW a \in DOMAIN g, g[a] = j PROVE Takes(f, j) \/ Takes(h, j)  BY DEF Takes
    <3>1. CASE a \in 1 .. n  BY <1>3, <1>4, <3>1 DEF Takes
    <3>2. CASE a \in n + 1 .. n + k  BY <1>0, <1>3, <1>4, <3>2 DEF Takes
    <3>3. QED  BY <1>4, <1>5, <3>1, <3>2
  <2>4. QED  BY <1>1, <1>2, <2>1, <2>2, <2>3
<1>10. From(s, z, g)  BY <1>6, <1>7, <1>8 DEF From
<1>11. R \cup W \subseteq DOMAIN s  BY DEF PartOf
<1>12. QED  BY <1>9, <1>10, <1>11 DEF PartOf, z

\* Turns without calls and results are the part without turns.
LEMMA PartNone ==
    ASSUME NEW s \in Seq(Proper), NEW x \in Seq(Proper), \A a \in DOMAIN x : x[a].uses = <<>> /\ x[a].results = <<>>
    PROVE  PartOf(s, x, {})
<1> DEFINE g == [a \in DOMAIN x |-> 0]
<1>1. \A a \in DOMAIN x : UseIds(x[a]) = {} /\ ResultIds(x[a]) = {}  BY NoCalls
<1>2. From(s, x, g)  BY <1>1 DEF From
<1>3. \A j \in DOMAIN s : j # 0 /\ ~Takes(g, j)  BY DEF Takes
<1> HIDE DEF g
<1>4. QED  BY <1>2, <1>3 DEF PartOf

\* The turns of x are those of s behind the first n.
Behinds(s, x, n) == n \in Nat /\ \A i \in DOMAIN x : n + i \in DOMAIN s /\ Alike(x[i], s[n + i])

\* A selection of them is a part,
LEMMA PartPicked ==
    ASSUME NEW s \in Seq(Proper), NEW x \in Seq(Proper), NEW n, Behinds(s, x, n), NEW S
    PROVE  At(x, S) \in Seq(Proper) /\ PartOf(s, At(x, S), {n + i : i \in DOMAIN x \cap S})
<1> DEFINE t == At(x, S)
           R == {n + i : i \in DOMAIN x \cap S}
<1>0. DOMAIN x = 1 .. Len(x) /\ Len(x) \in Nat /\ DOMAIN s = 1 .. Len(s) /\ Len(s) \in Nat /\ n \in Nat  BY DEF Behinds
<1>1. t \in Seq(Proper) /\ \E h : Picks(t, x, Len(x), h) /\ \A j \in 1 .. Len(x) : Takes(h, j) <=> j \in S  BY AtPicks
<1>2. PICK h : Picks(t, x, Len(x), h) /\ \A j \in 1 .. Len(x) : Takes(h, j) <=> j \in S  BY <1>1
<1> HIDE DEF t
<1>3. /\ h \in [DOMAIN t -> 1 .. Len(x)] /\ \A a \in DOMAIN t : t[a] = x[h[a]]
      /\ \A a, b \in DOMAIN t : a < b => h[a] < h[b]
  BY <1>2 DEF Picks
<1> DEFINE g == [a \in DOMAIN t |-> n + h[a]]
<1>4. \A a \in DOMAIN t : h[a] \in DOMAIN x /\ n + h[a] \in DOMAIN s /\ Alike(x[h[a]], s[n + h[a]])
  BY <1>0, <1>3 DEF Behinds
<1>5. From(s, t, g)
  <2>1. g \in [DOMAIN t -> 0 .. Len(s)] /\ \A a \in DOMAIN t : g[a] # 0 /\ Alike(t[a], s[g[a]])
    BY <1>0, <1>3, <1>4
  <2>2. \A a, b \in DOMAIN t : a < b => g[a] < g[b]  BY <1>0, <1>3
  <2> HIDE DEF g
  <2>3. QED  BY <2>1, <2>2 DEF From
<1>6. ASSUME NEW j \in DOMAIN s PROVE Takes(g, j) <=> j \in R
  <2>1. Takes(g, j) <=> \E a \in DOMAIN t : n + h[a] = j  BY DEF Takes
  <2>2. ASSUME NEW a \in DOMAIN t, n + h[a] = j PROVE j \in R
    <3>1. Takes(h, h[a]) /\ h[a] \in 1 .. Len(x)  BY <1>3 DEF Takes
    <3>2. h[a] \in S  BY <1>2, <3>1
    <3>3. QED  BY <1>4, <2>2, <3>2
  <2>3. ASSUME NEW i \in DOMAIN x \cap S, n + i = j PROVE \E a \in DOMAIN t : n + h[a] = j
    <3>1. Takes(h, i)  BY <1>0, <1>2, <2>3
    <3>2. PICK a \in DOMAIN t : h[a] = i  BY <1>3, <3>1 DEF Takes
    <3>3. QED  BY <2>3, <3>2
  <2> HIDE DEF g
  <2>4. QED  BY <2>1, <2>2, <2>3
<1>7. R \subseteq DOMAIN s  BY DEF Behinds
<1> HIDE DEF g, R
<1>8. PartOf(s, t, R)  BY <1>5, <1>6, <1>7 DEF PartOf
<1>9. QED  BY <1>1, <1>8 DEF t, R

\* and all of them are.
LEMMA PartWhole ==
    ASSUME NEW s \in Seq(Proper), NEW x \in Seq(Proper), NEW n, Behinds(s, x, n)
    PROVE  PartOf(s, x, n + 1 .. n + Len(x))
<1>1. At(x, DOMAIN x) = x  BY AtAll
<1>2. PartOf(s, At(x, DOMAIN x), {n + i : i \in DOMAIN x \cap DOMAIN x})  BY PartPicked
<1>3. {n + i : i \in DOMAIN x \cap DOMAIN x} = n + 1 .. n + Len(x)
  <2>1. n \in Nat /\ Len(x) \in Nat /\ DOMAIN x = 1 .. Len(x)  BY DEF Behinds
  <2>2. ASSUME NEW j \in n + 1 .. n + Len(x) PROVE \E i \in DOMAIN x \cap DOMAIN x : j = n + i
    <3>1. j - n \in DOMAIN x /\ j = n + (j - n)  BY <2>1
    <3>2. QED  BY <3>1
  <2>3. \A i \in DOMAIN x \cap DOMAIN x : n + i \in n + 1 .. n + Len(x)  BY <2>1
  <2>4. \A j : j \in {n + i : i \in DOMAIN x \cap DOMAIN x} <=> j \in n + 1 .. n + Len(x)  BY <2>2, <2>3
  <2>5. QED  BY <2>4
<1>4. QED  BY <1>1, <1>2, <1>3

\* What a conversation made of turns of another has of its calls and results.
LEMMA PartFacts ==
    ASSUME NEW s \in Seq(Proper), NEW t \in Seq(Proper), NEW R, PartOf(s, t, R)
    PROVE  /\ Once(s) => Once(t)
           /\ CallsOf(t) = UNION {UseIds(s[j]) : j \in R} /\ CallsOf(t) \subseteq CallsOf(s)
           /\ AnswersOf(t) \subseteq AnswersOf(s)
           /\ \A j \in R : s[j].user => \A id : Result(id) \in Elements(s[j].results) => Heard(t, id)
           /\ \A i, j \in R : Mated(s, i, j) => \E r : Partners(t, r) /\ r.results = s[j].results
<1>1. PICK g : From(s, t, g) /\ \A j \in DOMAIN s : Takes(g, j) <=> j \in R  BY DEF PartOf
<1>2. /\ g \in [DOMAIN t -> 0 .. Len(s)] /\ DOMAIN g = DOMAIN t /\ DOMAIN s = 1 .. Len(s) /\ Len(s) \in Nat
      /\ R \subseteq DOMAIN s
  BY <1>1 DEF From, PartOf
<1>3. ASSUME NEW a \in DOMAIN t
      PROVE  /\ g[a] = 0 => UseIds(t[a]) = {} /\ ResultIds(t[a]) = {}
             /\ g[a] # 0 => /\ g[a] \in R /\ g[a] \in DOMAIN s /\ UseIds(t[a]) = UseIds(s[g[a]])
                            /\ ResultIds(t[a]) = ResultIds(s[g[a]]) /\ Alike(t[a], s[g[a]])
  <2>1. g[a] = 0 => UseIds(t[a]) = {} /\ ResultIds(t[a]) = {}  BY <1>1 DEF From
  <2>2. ASSUME g[a] # 0 PROVE g[a] \in R /\ g[a] \in DOMAIN s /\ Alike(t[a], s[g[a]])
    <3>1. g[a] \in DOMAIN s  BY <1>2, <2>2
    <3>2. Takes(g, g[a])  BY <1>2 DEF Takes
    <3>3. QED  BY <1>1, <2>2, <3>1, <3>2 DEF From
  <2>3. Alike(t[a], s[g[a]]) => UseIds(t[a]) = UseIds(s[g[a]]) /\ ResultIds(t[a]) = ResultIds(s[g[a]])
    BY DEF Alike, UseIds, ResultIds
  <2>4. QED  BY <2>1, <2>2, <2>3
<1>4. ASSUME NEW j \in R PROVE \E a \in DOMAIN t : g[a] = j /\ g[a] # 0 /\ j \in DOMAIN s
  <2>1. j \in DOMAIN s /\ Takes(g, j)  BY <1>1, <1>2
  <2>2. PICK a \in DOMAIN g : g[a] = j  BY <2>1 DEF Takes
  <2>3. QED  BY <1>2, <2>1, <2>2
<1>5. ASSUME NEW a \in DOMAIN t, NEW b \in DOMAIN t, a # b, g[a] # 0, g[b] # 0 PROVE g[a] # g[b]
  <2>1. a \in Nat /\ b \in Nat /\ (a < b \/ b < a)  BY <1>5
  <2>2. CASE a < b
    <3>1. g[a] < g[b]  BY <1>1, <1>5, <2>2 DEF From
    <3>2. QED  BY <1>2, <3>1
  <2>3. CASE b < a
    <3>1. g[b] < g[a]  BY <1>1, <1>5, <2>3 DEF From
    <3>2. QED  BY <1>2, <3>1
  <2>4. QED  BY <2>1, <2>2, <2>3
<1>6. ASSUME Once(s) PROVE Once(t)
  <2> SUFFICES ASSUME NEW a \in DOMAIN t
               PROVE  OnceIn(t[a]) /\ \A b \in DOMAIN t : a # b => UseIds(t[a]) \cap UseIds(t[b]) = {}
    BY DEF Once
  <2>1. CASE g[a] = 0
    <3>1. t[a] \in Proper /\ UseIds(t[a]) = {}  BY <1>3, <2>1
    <3>2. t[a].uses = <<>>  BY <3>1, NoCalls
    <3>3. QED  BY <3>1, <3>2 DEF OnceIn
  <2>2. CASE g[a] # 0
    <3>1. g[a] \in DOMAIN s /\ t[a].uses = s[g[a]].uses /\ UseIds(t[a]) = UseIds(s[g[a]])  BY <1>3, <2>2 DEF Alike
    <3>2. OnceIn(t[a])  BY <1>6, <3>1 DEF Once, OnceIn
    <3>3. ASSUME NEW b \in DOMAIN t, a # b PROVE UseIds(t[a]) \cap UseIds(t[b]) = {}
      <4>1. CASE g[b] = 0  BY <1>3, <4>1
      <4>2. CASE g[b] # 0
        <5>1. g[a] # g[b]  BY <1>5, <2>2, <3>3, <4>2
        <5>2. g[b] \in DOMAIN s /\ UseIds(t[b]) = UseIds(s[g[b]])  BY <1>3, <4>2
        <5>3. QED  BY <1>6, <3>1, <5>1, <5>2 DEF Once
      <4>3. QED  BY <4>1, <4>2
    <3>4. QED  BY <3>2, <3>3
  <2>3. QED  BY <2>1, <2>2
<1>7. CallsOf(t) = UNION {UseIds(s[j]) : j \in R}
  <2>1. \A id : id \in CallsOf(t) <=> \E a \in DOMAIN t : id \in UseIds(t[a])  BY DEF CallsOf
  <2>2. \A id : id \in UNION {UseIds(s[j]) : j \in R} <=> \E j \in R : id \in UseIds(s[j])  OBVIOUS
  <2>3. \A id : (\E a \in DOMAIN t : id \in UseIds(t[a])) => \E j \in R : id \in UseIds(s[j])  BY <1>3
  <2>4. \A id : (\E j \in R : id \in UseIds(s[j])) => \E a \in DOMAIN t : id \in UseIds(t[a])  BY <1>3, <1>4
  <2>5. \A id : id \in CallsOf(t) <=> id \in UNION {UseIds(s[j]) : j \in R}  BY <2>1, <2>2, <2>3, <2>4
  <2>6. QED  BY <2>5
<1>8. CallsOf(t) \subseteq CallsOf(s)  BY <1>2, <1>7 DEF CallsOf
<1>9. AnswersOf(t) \subseteq AnswersOf(s)
  <2>1. \A a \in DOMAIN t : ResultIds(t[a]) = {} \/ \E j \in DOMAIN s : ResultIds(t[a]) = ResultIds(s[j])  BY <1>3
  <2>2. QED  BY <2>1 DEF AnswersOf
<1>10. ASSUME NEW j \in R, s[j].user, NEW id, Result(id) \in Elements(s[j].results) PROVE Heard(t, id)
  <2>1. PICK a \in DOMAIN t : g[a] = j /\ g[a] # 0  BY <1>4
  <2>2. Alike(t[a], s[j])  BY <1>3, <2>1
  <2>3. ToldBy(t[a], id)  BY <1>10, <2>2 DEF Alike, ToldBy
  <2>4. QED  BY <2>3 DEF Heard
<1>11. ASSUME NEW i \in R, NEW j \in R, Mated(s, i, j) PROVE \E r : Partners(t, r) /\ r.results = s[j].results
  <2>1. PICK a \in DOMAIN t : g[a] = i /\ g[a] # 0  BY <1>4
  <2>2. PICK b \in DOMAIN t : g[b] = j /\ g[b] # 0  BY <1>4
  <2>3. i < j /\ UseIds(s[i]) = ResultIds(s[j]) /\ ResultIds(s[j]) # {}  BY <1>11 DEF Mated
  <2>4. a < b
    <3>1. a \in Nat /\ b \in Nat /\ i \in Nat /\ j \in Nat  BY <1>2, <2>1, <2>2
    <3>2. a = b => i = j  BY <2>1, <2>2
    <3>3. b < a => j < i  BY <1>1, <2>1, <2>2 DEF From
    <3>4. QED  BY <2>3, <3>1, <3>2, <3>3
  <2>5. UseIds(t[a]) = UseIds(s[i]) /\ ResultIds(t[b]) = ResultIds(s[j]) /\ t[b].results = s[j].results
    BY <1>3, <2>1, <2>2 DEF Alike
  <2>6. ASSUME NEW k \in DOMAIN t, k # b PROVE ResultIds(t[k]) \cap ResultIds(t[b]) = {}
    <3>1. CASE g[k] = 0  BY <1>3, <3>1
    <3>2. CASE g[k] # 0
      <4>1. g[k] # j /\ g[k] \in DOMAIN s /\ ResultIds(t[k]) = ResultIds(s[g[k]])  BY <1>3, <1>5, <2>2, <2>6, <3>2
      <4>2. ResultIds(s[g[k]]) \cap ResultIds(s[j]) = {}  BY <1>11, <4>1 DEF Mated
      <4>3. QED  BY <2>5, <4>1, <4>2
    <3>3. QED  BY <3>1, <3>2
  <2>7. PartnersAt(t, t[b], a, b)  BY <2>3, <2>4, <2>5, <2>6 DEF PartnersAt
  <2>8. Partners(t, t[b])  BY <2>7 DEF Partners
  <2>9. QED  BY <2>5, <2>8
<1>12. QED  BY <1>6, <1>7, <1>8, <1>9, <1>10, <1>11

(*****************************************************************************)
(* What truncation leaves                                                    *)
(*****************************************************************************)
PayloadRows == [history : Seq(Proper), current : Proper, tools : SUBSET {"client", "web_search", "declared"}]
FewEnough == MinRecent \in Nat /\ MinRecent >= 2

\* A sound turn has nothing to scrub,
LEMMA ScrubbedStays == ASSUME NEW m \in Sound PROVE Scrubbed(m) = m
<1>1. m \in Proper /\ Neat(m)  BY DEF Sound
<1>2. CASE m.user  BY <1>1, <1>2, ScrubbedTurn
<1>3. CASE ~m.user
  <2>1. m.text \ {"polluted"} = m.text  BY <1>1, <1>3 DEF Neat
  <2>2. [m EXCEPT !.text = m.text] = m  BY <1>1 DEF Proper, TurnRows
  <2>3. Scrubbed(m) = [m EXCEPT !.text = m.text]  BY <1>3, <2>1 DEF Scrubbed
  <2>4. QED  BY <2>2, <2>3
<1>4. QED  BY <1>2, <1>3

\* and sound turns speak.
LEMMA SoundSpeak == ASSUME NEW s \in Seq(Sound) PROVE Speaking(s)
BY DEF Speaking, Sound

\* The current message when it had to be cut.
Shorter(m) == IF m.text = {} THEN m ELSE [m EXCEPT !.text = {"."}]

\* A shortened text is still a text.
LEMMA ShorterTurn ==
    ASSUME NEW m \in Sound, m.user
    PROVE  Shorter(m) \in Sound /\ Alike(Shorter(m), m) /\ Alike(m, m)
<1>1. m \in TurnRows /\ m \in Proper /\ Says(m)  BY DEF Sound, Proper
<1>2. CASE m.text = {}  BY <1>2 DEF Shorter, Alike
<1>3. CASE m.text # {}
  <2> DEFINE x == [m EXCEPT !.text = {"."}]
  <2>1. x \in TurnRows /\ x.user = m.user /\ x.uses = m.uses /\ x.results = m.results /\ x.text = {"."}
    BY <1>1 DEF TurnRows, Words
  <2>2. Shorter(m) = x  BY <1>3 DEF Shorter
  <2> HIDE DEF x
  <2>3. x \in Proper  BY <1>1, <2>1 DEF Proper
  <2>4. QED  BY <2>1, <2>2, <2>3 DEF Sound, Says, Neat, Hollow, Alike
<1>4. QED  BY <1>2, <1>3

\* The first m elements,
LEMMA HeadOf ==
    ASSUME NEW T, NEW s \in Seq(T), NEW m \in 0 .. Len(s)
    PROVE  LET y == SubSeq(s, 1, m)
           IN  y \in Seq(T) /\ Len(y) = m /\ DOMAIN y = 1 .. m /\ \A i \in 1 .. m : y[i] = s[i]
OBVIOUS

\* the others,
LEMMA TailOf ==
    ASSUME NEW T, NEW s \in Seq(T), NEW m \in 0 .. Len(s)
    PROVE  LET y == SubSeq(s, m + 1, Len(s))
           IN  /\ y \in Seq(T) /\ Len(y) = Len(s) - m /\ DOMAIN y = 1 .. Len(s) - m
               /\ \A i \in DOMAIN y : y[i] = s[m + i] /\ m + i \in 1 .. Len(s)
<1> DEFINE y == SubSeq(s, m + 1, Len(s))
<1>1. y \in Seq(T) /\ Len(y) = Len(s) - m /\ DOMAIN y = 1 .. Len(s) - m  OBVIOUS
<1>2. ASSUME NEW i \in 1 .. Len(s) - m PROVE y[i] = s[m + i] /\ m + i \in 1 .. Len(s)
  <2>1. m + i \in 1 .. Len(s) /\ (m + 1) + i - 1 = m + i  OBVIOUS
  <2>2. y[i] = s[(m + 1) + i - 1]  OBVIOUS
  <2>3. QED  BY <2>1, <2>2
<1> HIDE DEF y
<1>3. QED  BY <1>1, <1>2 DEF y

\* and the last of the others.
LEMMA TailOfTail ==
    ASSUME NEW T, NEW s \in Seq(T), NEW x \in 0 .. Len(s), NEW k \in 0 .. Len(s) - x, NEW y, y = SubSeq(s, x + 1, Len(s))
    PROVE  Len(y) = Len(s) - x /\ SubSeq(y, k + 1, Len(y)) = SubSeq(s, x + k + 1, Len(s))
<1> DEFINE n == Len(s)
           l == SubSeq(y, k + 1, Len(y))
           r == SubSeq(s, (x + k) + 1, n)
<1>0. n \in Nat /\ x \in 0 .. n /\ k \in 0 .. n - x  OBVIOUS
<1>1. y \in Seq(T) /\ Len(y) = n - x /\ DOMAIN y = 1 .. n - x /\ \A i \in DOMAIN y : y[i] = s[x + i]  BY TailOf
<1>2. k \in 0 .. Len(y) /\ x + k \in 0 .. n  BY <1>0, <1>1
<1>3. l \in Seq(T) /\ Len(l) = Len(y) - k /\ \A i \in DOMAIN l : l[i] = y[k + i] /\ k + i \in 1 .. Len(y)
  BY <1>1, <1>2, TailOf
<1>4. r \in Seq(T) /\ Len(r) = n - (x + k) /\ \A i \in DOMAIN r : r[i] = s[(x + k) + i]
  BY <1>2, TailOf
<1> HIDE DEF n, l, r
<1>5. Len(y) - k = n - (x + k) /\ x + k + 1 = (x + k) + 1  BY <1>0, <1>1
<1>6. DOMAIN l = 1 .. Len(l) /\ DOMAIN r = 1 .. Len(r) /\ Len(l) = Len(r)  BY <1>3, <1>4, <1>5
<1>7. ASSUME NEW i \in DOMAIN l PROVE l[i] = r[i]
  <2>1. l[i] = y[k + i] /\ k + i \in DOMAIN y  BY <1>1, <1>3
  <2>2. y[k + i] = s[x + (k + i)]  BY <1>1, <2>1
  <2>3. r[i] = s[(x + k) + i]  BY <1>4, <1>6
  <2>4. x + (k + i) = (x + k) + i  BY <1>0, <1>6
  <2>5. QED  BY <2>1, <2>2, <2>3, <2>4
<1>8. l = r
  <2>1. PICK c : c = Len(l)  OBVIOUS
  <2>2. l \in Seq(T) /\ r \in Seq(T) /\ Len(l) = c /\ Len(r) = c /\ \A i \in 1 .. c : l[i] = r[i]
    BY <1>3, <1>4, <1>6, <1>7, <2>1
  <2>3. QED  BY <2>2
<1>9. QED  BY <1>1, <1>5, <1>8 DEF n, l, r

\* The payload that is left when the oldest k of the turns behind the first x are elided.
Elided(p, x, k, q) ==
    LET y == SubSeq(p.history, x + k + 1, Len(p.history))
    IN  /\ q \in PayloadRows /\ q.tools = p.tools /\ q.current \in {p.current, Shorter(p.current)}
        /\ q.history = SubSeq(p.history, 1, x) \o (IF k > 0 THEN <<Filler("elided")>> ELSE <<>>) \o dropLeadingAssistant(y)

\* Truncation elides some of the oldest turns, and leaves two at least when it does.
LEMMA CutDown ==
    ASSUME NEW p \in PayloadRows, p.history \in Seq(Sound), p.current \in Sound, p.current.user,
           NEW primes \in BOOLEAN, NEW q \in Truncations(p, primes), FewEnough
    PROVE  \E x, k \in 0 .. Len(p.history) :
              /\ Elided(p, x, k, q) /\ x + k <= Len(p.history)
              /\ k = 0 \/ Len(p.history) - (x + k) >= 2
              /\ ~primes => x = 0
<1> DEFINE h == p.history
           n == Len(h)
           priming == IF primes /\ n >= 2 THEN SubSeq(h, 1, 2) ELSE <<>>
           rest == SubSeq(h, Len(priming) + 1, n)
           Keeping(k) == priming \o (IF k > 0 THEN <<Filler("elided")>> ELSE <<>>)
                              \o dropLeadingAssistant(SubSeq(rest, k + 1, Len(rest)))
           cuts == {k \in 0 .. Len(rest) : Len(rest) - k >= MinRecent \/ k = 0}
<1>0. h \in Seq(Sound) /\ n \in Nat /\ DOMAIN h = 1 .. n  OBVIOUS
<1>1. PICK k \in cuts : q = [p EXCEPT !.history = Keeping(k)] \/ q = [p EXCEPT !.history = Keeping(k), !.current = Shorter(p.current)]
  BY DEF Truncations, Shorter
<1>2. PICK x \in 0 .. n : priming = SubSeq(h, 1, x) /\ Len(priming) = x /\ (~primes => x = 0)
  <2>1. CASE primes /\ n >= 2
    <3>1. 2 \in 0 .. n  BY <1>0, <2>1
    <3>2. Len(SubSeq(h, 1, 2)) = 2  BY <1>0, <3>1, HeadOf
    <3>3. priming = SubSeq(h, 1, 2)  BY <2>1
    <3> HIDE DEF h, n, priming
    <3>4. QED  BY <2>1, <3>1, <3>2, <3>3
  <2>2. CASE ~(primes /\ n >= 2)
    <3>1. SubSeq(h, 1, 0) = <<>> /\ 0 \in 0 .. n /\ Len(SubSeq(h, 1, 0)) = 0  BY <1>0
    <3>2. priming = <<>>  BY <2>2
    <3>3. priming = SubSeq(h, 1, 0) /\ Len(priming) = 0  BY <3>1, <3>2
    <3> HIDE DEF h, n, priming
    <3>4. QED  BY <3>1, <3>3
  <2>3. QED  BY <2>1, <2>2
<1> HIDE DEF priming
<1>3. Len(rest) = n - x
  <2>1. rest = SubSeq(h, x + 1, n)  BY <1>2
  <2>2. QED  BY <1>0, <2>1, TailOf
<1>4. k \in 0 .. n - x /\ (n - x - k >= MinRecent \/ k = 0) /\ k \in Nat
  <2>1. k \in 0 .. Len(rest) /\ (Len(rest) - k >= MinRecent \/ k = 0)  BY <1>1
  <2> HIDE DEF rest, h, n
  <2>2. k \in 0 .. n - x /\ (n - x - k >= MinRecent \/ k = 0)  BY <1>3, <2>1
  <2>3. QED  BY <2>2
<1>5. SubSeq(rest, k + 1, Len(rest)) = SubSeq(h, x + k + 1, n)
  <2>1. rest = SubSeq(h, x + 1, n)  BY <1>2
  <2> HIDE DEF rest
  <2>2. QED  BY <1>0, <1>2, <1>4, <2>1, TailOfTail
<1>6. Keeping(k) = SubSeq(h, 1, x) \o (IF k > 0 THEN <<Filler("elided")>> ELSE <<>>) \o dropLeadingAssistant(SubSeq(h, x + k + 1, n))
  BY <1>2, <1>5
<1>7. Keeping(k) \in Seq(Proper)
  <2>1. SubSeq(h, 1, x) \in Seq(Sound)  BY <1>0, <1>2, HeadOf
  <2>2. SubSeq(h, x + k + 1, n) \in Seq(Sound)
    <3>1. x + k \in 0 .. n  BY <1>0, <1>2, <1>4
    <3>2. SubSeq(h, (x + k) + 1, n) \in Seq(Sound)  BY <1>0, <3>1, TailOf
    <3>3. QED  BY <3>2
  <2>3. dropLeadingAssistant(SubSeq(h, x + k + 1, n)) \in Seq(Sound)  BY <2>2, AtPicks DEF dropLeadingAssistant
  <2>4. (IF k > 0 THEN <<Filler("elided")>> ELSE <<>>) \in Seq(Sound)  BY FillerSound
  <2> HIDE DEF h, n, Keeping
  <2>5. Keeping(k) \in Seq(Sound)  BY <1>6, <2>1, <2>3, <2>4
  <2>6. QED  BY <2>5 DEF Sound
<1> HIDE DEF Keeping, cuts, rest
<1>8. q \in PayloadRows /\ q.tools = p.tools /\ q.history = Keeping(k) /\ q.current \in {p.current, Shorter(p.current)}
  <2>1. Shorter(p.current) \in Proper /\ p.current \in Proper  BY ShorterTurn DEF Sound
  <2>2. QED  BY <1>1, <1>7, <2>1 DEF PayloadRows
<1>9. Elided(p, x, k, q)  BY <1>6, <1>8 DEF Elided
<1> HIDE DEF h, n
<1>10. x \in 0 .. n /\ k \in 0 .. n /\ x + k <= n /\ (k = 0 \/ n - (x + k) >= 2)
  BY <1>0, <1>2, <1>4 DEF FewEnough
<1>11. QED  BY <1>2, <1>9, <1>10 DEF h, n

\* What is left of a valid conversation is sound and ends as it did.
LEMMA ElidedTurns ==
    ASSUME NEW p \in PayloadRows, Valid(Merged(p)), NEW x \in 0 .. Len(p.history), NEW k \in 0 .. Len(p.history),
           x + k <= Len(p.history), NEW q, Elided(p, x, k, q)
    PROVE  /\ Merged(q) \in Seq(Sound)
           /\ \E R : /\ PartOf(Merged(p), Merged(q), R) /\ Len(p.history) + 1 \in R
                     /\ \A i \in 1 .. Len(p.history) : \A j \in 1 .. i :
                           j > x + k /\ Merged(p)[j].user => i \in R
           /\ \A i \in x + k + 1 .. Len(p.history) : p.history[i].user /\ p.history # <<>>
                 => q.history # <<>> /\ Last(q.history) = Last(p.history)
<1> DEFINE h == p.history
           n == Len(h)
           s == Merged(p)
           c == q.current
           P == SubSeq(h, 1, x)
           E == IF k > 0 THEN <<Filler("elided")>> ELSE <<>>
           y == SubSeq(h, x + k + 1, n)
           S == {i \in DOMAIN y : \E j \in 1 .. i : y[j].user}
           D == At(y, S)
<1>0. /\ s \in Seq(Sound) /\ s \in Seq(Proper) /\ Len(s) = n + 1 /\ s[n + 1] = p.current /\ n \in Nat /\ DOMAIN h = 1 .. n
      /\ DOMAIN s = 1 .. n + 1 /\ \A i \in 1 .. n : s[i] = h[i]
  BY MergedTurns DEF Valid, PayloadRows
<1>1. h \in Seq(Sound)
  <2>1. \A i \in 1 .. n : h[i] \in Sound  BY <1>0
  <2>2. h \in Seq(Proper)  BY DEF PayloadRows
  <2>3. QED  BY <1>0, <2>1, <2>2
<1>2. c \in Sound /\ Alike(c, s[n + 1])
  <2>1. s[n + 1] \in Sound /\ s[n + 1].user  BY <1>0 DEF Valid
  <2>2. c \in {s[n + 1], Shorter(s[n + 1])}  BY <1>0 DEF Elided
  <2>3. QED  BY <2>1, <2>2, ShorterTurn
<1>3. q.history = P \o E \o D  BY DEF Elided, dropLeadingAssistant
<1>4. P \in Seq(Sound) /\ Len(P) = x /\ DOMAIN P = 1 .. x /\ \A i \in 1 .. x : P[i] = s[i]
  BY <1>0, <1>1
<1>5. y \in Seq(Sound) /\ Len(y) = n - (x + k) /\ DOMAIN y = 1 .. n - (x + k) /\ \A i \in DOMAIN y : y[i] = s[x + k + i]
  <2>1. y \in Seq(Sound) /\ Len(y) = n - (x + k) /\ DOMAIN y = 1 .. n - (x + k)  BY <1>0, <1>1
  <2>2. ASSUME NEW i \in DOMAIN y PROVE y[i] = s[x + k + i]
    <3>1. x + k + i \in 1 .. n /\ y[i] = h[x + k + i]  BY <1>0, <1>1
    <3>2. QED  BY <1>0, <3>1
  <2>3. QED  BY <2>1, <2>2
<1>6. E \in Seq(Sound) /\ E \in Seq(Proper) /\ \A a \in DOMAIN E : E[a].uses = <<>> /\ E[a].results = <<>>
  <2>1. Filler("elided") \in Sound /\ Filler("elided").uses = <<>> /\ Filler("elided").results = <<>>  BY FillerSound
  <2> DEFINE f == Filler("elided")
  <2> HIDE DEF f
  <2>2. <<f>> \in Seq(Sound) /\ \A a \in DOMAIN <<f>> : <<f>>[a] = f  BY <2>1 DEF f
  <2>3. E \in Seq(Sound) /\ \A a \in DOMAIN E : E[a].uses = <<>> /\ E[a].results = <<>>
    <3>1. CASE k > 0  BY <2>1, <2>2, <3>1 DEF f
    <3>2. CASE ~(k > 0)
      <4>1. E = <<>>  BY <3>2
      <4>2. <<>> \in Seq(Sound) /\ DOMAIN <<>> = {}  OBVIOUS
      <4>3. QED  BY <4>1, <4>2
    <3>3. QED  BY <3>1, <3>2
  <2> HIDE DEF E
  <2>4. E \in Seq(Proper)  BY <2>3 DEF Sound
  <2>5. QED  BY <2>3, <2>4
<1> HIDE DEF P, E, y, s, c
<1>7. D \in Seq(Sound)  BY <1>5, AtPicks
<1>8. PartOf(s, P, 1 .. x)
  <2>1. Behinds(s, P, 0)
    <3>1. \A i \in DOMAIN P : 0 + i \in DOMAIN s /\ Alike(P[i], s[0 + i])  BY <1>0, <1>4 DEF Alike
    <3>2. QED  BY <3>1 DEF Behinds
  <2>2. P \in Seq(Proper)  BY <1>4 DEF Sound
  <2>3. PartOf(s, P, 0 + 1 .. 0 + Len(P))  BY <1>0, <2>1, <2>2, PartWhole
  <2>4. QED  BY <1>4, <2>3
<1>9. PartOf(s, E, {})  BY <1>0, <1>6, PartNone
<1> DEFINE Z == {(x + k) + i : i \in DOMAIN y \cap S}
<1>10. PartOf(s, D, Z) /\ D \in Seq(Proper)
  <2>1. Behinds(s, y, x + k)
    <3>1. \A i \in DOMAIN y : (x + k) + i \in DOMAIN s /\ Alike(y[i], s[(x + k) + i])  BY <1>0, <1>5 DEF Alike
    <3>2. QED  BY <3>1 DEF Behinds
  <2>2. y \in Seq(Proper)  BY <1>5 DEF Sound
  <2> HIDE DEF S
  <2>3. QED  BY <1>0, <2>1, <2>2, PartPicked
<1>11. PartOf(s, <<c>>, {n + 1})
  <2>1. <<c>> \in Seq(Proper) /\ Len(<<c>>) = 1  BY <1>2 DEF Sound
  <2>2. Behinds(s, <<c>>, n)
    <3>1. \A i \in DOMAIN <<c>> : n + i \in DOMAIN s /\ Alike(<<c>>[i], s[n + i])  BY <1>0, <1>2
    <3>2. QED  BY <1>0, <3>1 DEF Behinds
  <2>3. PartOf(s, <<c>>, n + 1 .. n + Len(<<c>>))  BY <1>0, <2>1, <2>2, PartWhole
  <2>4. n + 1 .. n + Len(<<c>>) = {n + 1}  BY <1>0, <2>1
  <2>5. QED  BY <2>3, <2>4
<1>12. \A j \in Z : x < j /\ j < n + 1  BY <1>0, <1>5
<1>13. \A i \in DOMAIN y : (\E j \in 1 .. i : y[j].user) => (x + k) + i \in Z  OBVIOUS
<1>14. \A i \in DOMAIN y : (\E j \in 1 .. i : y[j].user) => i \in S  OBVIOUS
<1> HIDE DEF D, S, Z
<1>15. Merged(q) = ((P \o E) \o D) \o <<c>>
  <2> DEFINE z == (P \o E) \o D
  <2>1. Merged(q) = Append(z, c)  BY <1>3 DEF Merged, c
  <2>2. z \in Seq(Sound)  BY <1>4, <1>6, <1>7
  <2> HIDE DEF z
  <2>3. Append(z, c) = z \o <<c>>  BY <1>2, <2>2
  <2>4. QED  BY <2>1, <2>3 DEF z
<1>16. Merged(q) \in Seq(Sound)  BY <1>2, <1>4, <1>6, <1>7, <1>15
<1> DEFINE R == ((1 .. x \cup {}) \cup Z) \cup {n + 1}
<1>17. PartOf(s, ((P \o E) \o D) \o <<c>>, R)
  <2>1. P \in Seq(Proper) /\ P \o E \in Seq(Proper) /\ (P \o E) \o D \in Seq(Proper) /\ <<c>> \in Seq(Proper)
    BY <1>2, <1>4, <1>6, <1>10 DEF Sound
  <2>2. PartOf(s, P \o E, 1 .. x \cup {})  BY <1>0, <1>6, <1>8, <1>9, <2>1, PartJoin
  <2>3. ASSUME NEW i \in 1 .. x \cup {}, NEW j \in Z PROVE i < j
    <3>1. i \in 1 .. x /\ x < j /\ x \in Nat /\ j \in Nat
      <4>1. j \in DOMAIN s  BY <1>10 DEF PartOf
      <4>2. QED  BY <1>0, <1>12, <4>1
    <3>2. QED  BY <3>1
  <2>4. PartOf(s, (P \o E) \o D, (1 .. x \cup {}) \cup Z)  BY <1>0, <1>10, <2>1, <2>2, <2>3, PartJoin
  <2>5. \A i \in (1 .. x \cup {}) \cup Z, j \in {n + 1} : i < j  BY <1>0, <1>12
  <2>6. QED  BY <1>0, <1>11, <2>1, <2>4, <2>5, PartJoin
<1>18. ASSUME NEW i \in 1 .. n, NEW j \in 1 .. i, j > x + k, s[j].user PROVE i \in R
  <2>1. i - (x + k) \in DOMAIN y /\ j - (x + k) \in 1 .. i - (x + k) /\ (x + k) + (i - (x + k)) = i
        /\ (x + k) + (j - (x + k)) = j /\ j - (x + k) \in DOMAIN y
    BY <1>0, <1>5, <1>18
  <2>2. y[j - (x + k)] = s[j]  BY <1>5, <2>1
  <2>3. (x + k) + (i - (x + k)) \in Z  BY <1>13, <1>18, <2>1, <2>2
  <2>4. QED  BY <2>1, <2>3
<1>19. ASSUME NEW i \in x + k + 1 .. n, h[i].user, h # <<>> PROVE q.history # <<>> /\ Last(q.history) = Last(h)
  <2> DEFINE m == Len(y)
  <2>1. i - (x + k) \in 1 .. m /\ m \in DOMAIN y /\ i - (x + k) \in DOMAIN y /\ (x + k) + (i - (x + k)) = i
        /\ (x + k) + m = n /\ y # <<>> /\ i \in 1 .. n /\ n \in 1 .. n /\ m \in 1 .. m
    <3> HIDE DEF h, n, m
    <3>1. m = n - (x + k) /\ n \in Nat /\ i \in x + k + 1 .. n /\ DOMAIN y = 1 .. m /\ x \in 0 .. n /\ k \in 0 .. n
      BY <1>0, <1>5 DEF m, h, n
    <3>2. i - (x + k) \in 1 .. m /\ m \in 1 .. m /\ (x + k) + m = n /\ i \in 1 .. n /\ n \in 1 .. n
          /\ (x + k) + (i - (x + k)) = i
      BY <3>1
    <3>3. y # <<>>  BY <1>5, <3>1, <3>2
    <3>4. QED  BY <3>1, <3>2, <3>3
  <2>2. y[i - (x + k)].user  BY <1>0, <1>5, <1>19, <2>1
  <2>3. m \in S  BY <1>14, <2>1, <2>2
  <2>4. PICK g : Picks(D, y, m, g) /\ \A j \in 1 .. m : Takes(g, j) <=> j \in S  BY <1>5, AtPicks DEF D
  <2>5. D # <<>> /\ D[Len(D)] = y[m]  BY <1>5, <1>7, <2>1, <2>3, <2>4, PickedLast
  <2>6. y[m] = s[n] /\ s[n] = h[n] /\ Last(h) = h[n]
    <3>1. y[m] = s[(x + k) + m]  BY <1>5, <2>1
    <3>2. QED  BY <1>0, <2>1, <3>1 DEF Last
  <2>7. (P \o E) \in Seq(Sound) /\ D \in Seq(Sound) /\ Len(D) \in Nat /\ Len(D) # 0  BY <1>4, <1>6, <1>7, <2>5
  <2>8. LET z == (P \o E) \o D IN z # <<>> /\ z[Len(z)] = D[Len(D)]
    <3> DEFINE o == P \o E
    <3> HIDE DEF o
    <3>1. Len(o \o D) = Len(o) + Len(D) /\ Len(o) + Len(D) \in Len(o) + 1 .. Len(o) + Len(D)
          /\ (Len(o) + Len(D)) - Len(o) = Len(D) /\ o \o D \in Seq(Sound) /\ Len(o \o D) # 0
      BY <2>7 DEF o
    <3>2. (o \o D)[Len(o) + Len(D)] = D[(Len(o) + Len(D)) - Len(o)]  BY <2>7, <3>1, JoinedSeq DEF o
    <3>3. QED  BY <3>1, <3>2 DEF o
  <2>9. QED  BY <1>3, <2>5, <2>6, <2>8 DEF Last
<1> HIDE DEF h, n
<1>20. n + 1 \in R  OBVIOUS
<1> HIDE DEF R
<1>21. \E W : /\ PartOf(s, Merged(q), W) /\ n + 1 \in W
              /\ \A i \in 1 .. n : \A j \in 1 .. i : j > x + k /\ s[j].user => i \in W
  BY <1>15, <1>17, <1>18, <1>20
<1>22. QED  BY <1>16, <1>19, <1>21 DEF h, n, s

\* The last two turns of a conversation that ends with answers are mated.
LEMMA HeldMated ==
    ASSUME NEW s, Valid(s), NEW W, HeldLast(s, W)
    PROVE  /\ Len(s) \in DOMAIN s /\ Len(s) - 1 \in DOMAIN s /\ Mated(s, Len(s) - 1, Len(s)) /\ W # {}
           /\ UseIds(s[Len(s) - 1]) = W /\ ResultIds(s[Len(s)]) = W
           /\ Elements(s[Len(s)].results) = {Result(id) : id \in W}
<1> DEFINE n == Len(s)
<1>0. s \in Seq(Sound) /\ Paired(s) /\ Once(s) /\ n \in Nat /\ DOMAIN s = 1 .. n  BY DEF Valid
<1>1. n >= 2 /\ HeldAt(s, W, n - 1) /\ n - 1 + 1 = n  BY <1>0 DEF HeldLast
<1>2. /\ n - 1 \in DOMAIN s /\ n \in DOMAIN s /\ UseIds(s[n - 1]) = W /\ W # {} /\ ResultIds(s[n]) = W
      /\ Elements(s[n].results) = {Result(id) : id \in W}
  BY <1>1, HeldResults DEF HeldAt
<1> HIDE DEF n
<1>3. ASSUME NEW k \in DOMAIN s, k # n PROVE ResultIds(s[k]) \cap ResultIds(s[n]) = {}
  <2>1. ResultIds(s[k]) = CallsAt(s, k - 1)  BY <1>0 DEF Paired
  <2>2. CASE k - 1 > 0
    <3>1. k - 1 \in DOMAIN s /\ k - 1 # n - 1  BY <1>0, <1>3, <2>2
    <3>2. UseIds(s[k - 1]) \cap UseIds(s[n - 1]) = {}  BY <1>0, <1>2, <3>1 DEF Once
    <3>3. QED  BY <1>2, <2>1, <2>2, <3>2 DEF CallsAt
  <2>3. CASE ~(k - 1 > 0)  BY <2>1, <2>3 DEF CallsAt
  <2>4. QED  BY <2>2, <2>3
<1>4. n - 1 < n  BY <1>0
<1>5. Mated(s, n - 1, n)  BY <1>2, <1>3, <1>4 DEF Mated
<1>6. QED  BY <1>2, <1>5 DEF n

\* A conversation that ends with the same two turns ends with answers too.
LEMMA StillAnswered ==
    ASSUME NEW s, Valid(s), NEW W, HeldLast(s, W), NEW t \in Seq(Sound), Len(t) >= 2, t[Len(t) - 1] = s[Len(s) - 1],
           Alike(t[Len(t)], s[Len(s)]), \E r : Partners(t, r) /\ r.results = s[Len(s)].results
    PROVE  EndsAnswered(t)
<1> DEFINE n == Len(s)
           m == Len(t)
           a == t[m - 1]
           c == t[m]
<1>1. /\ W # {} /\ UseIds(s[n - 1]) = W /\ ResultIds(s[n]) = W /\ Elements(s[n].results) = {Result(id) : id \in W}
  BY HeldMated
<1>2. m \in DOMAIN t /\ m - 1 \in DOMAIN t /\ a \in Sound  OBVIOUS
<1>3. c.results = s[n].results /\ UseIds(a) = W  BY <1>1 DEF Alike
<1> HIDE DEF n, m
<1>4. ResultIds(c) = W /\ Elements(c.results) = {Result(id) : id \in W}  BY <1>1, <1>3 DEF ResultIds
<1>5. PICK r : Partners(t, r) /\ r.results = s[n].results  BY DEF n
<1>6. PICK i, j \in DOMAIN t : PartnersAt(t, r, i, j)  BY <1>5 DEF Partners
<1>7. ResultIds(r) = W  BY <1>1, <1>5 DEF ResultIds
<1>8. r = c
  <2>1. t[j] = r /\ \A k \in DOMAIN t : k # j => ResultIds(t[k]) \cap ResultIds(r) = {}  BY <1>6 DEF PartnersAt
  <2>2. m = j  BY <1>1, <1>2, <1>4, <1>7, <2>1
  <2>3. QED  BY <2>1, <2>2
<1>9. Real(c)  BY <1>4 DEF Real
<1>10. a.uses # <<>> /\ c.results # <<>>
  <2>1. a.uses = <<>> => UseIds(a) = {}  BY DEF UseIds, Elements
  <2>2. c.results = <<>> => ResultIds(c) = {}  BY DEF ResultIds, Elements
  <2>3. QED  BY <1>1, <1>3, <1>4, <2>1, <2>2
<1>11. Scrubbed(a) = a  BY <1>2, ScrubbedStays
<1>12. EndsWith(t, a, c)  BY DEF EndsWith, m
<1> HIDE DEF a, c
<1>13. QED  BY <1>3, <1>4, <1>5, <1>8, <1>9, <1>10, <1>11, <1>12 DEF EndsAnswered

\* A truncated payload can be repaired, and its last pair is whole.
LEMMA TruncateKeeps ==
    ASSUME NEW p \in PayloadRows, Valid(Merged(p)), NEW primes \in BOOLEAN, NEW q \in {p} \cup Truncations(p, primes), FewEnough
    PROVE  /\ q \in PayloadRows /\ Fresh(q)
           /\ CallsOf(Merged(q)) \subseteq CallsOf(Merged(p)) /\ AnswersOf(Merged(q)) \subseteq AnswersOf(Merged(p))
           /\ ~primes /\ LastHeld(Merged(p)) => EndsAnswered(Merged(q))
<1> DEFINE s == Merged(p)
           h == p.history
           n == Len(h)
<1>0. /\ s \in Seq(Sound) /\ s \in Seq(Proper) /\ Len(s) = n + 1 /\ s[n + 1] = p.current /\ n \in Nat /\ DOMAIN h = 1 .. n
      /\ DOMAIN s = 1 .. n + 1 /\ \A i \in 1 .. n : s[i] = h[i]
  BY MergedTurns DEF Valid, PayloadRows
<1>1. Once(s) /\ Opens(s) /\ Alternates(s) /\ p.current \in Sound /\ p.current.user /\ h \in Seq(Sound)
  <2>1. \A i \in 1 .. n : h[i] \in Sound  BY <1>0
  <2>2. h \in Seq(Proper)  BY DEF PayloadRows
  <2>3. s[n + 1] \in Sound /\ s[n + 1].user  BY <1>0 DEF Valid
  <2>4. h \in Seq(Sound)  BY <1>0, <2>1, <2>2
  <2>5. QED  BY <1>0, <2>3, <2>4 DEF Valid
<1> HIDE DEF s
<1>2. CASE q = p
  <2>1. Speaking(s)  BY <1>0, SoundSpeak
  <2>2. Fresh(p)  BY <1>1, <2>1 DEF Fresh, PayloadRows, s
  <2>3. ASSUME LastHeld(s) PROVE EndsAnswered(s)
    <3>1. PICK W : HeldLast(s, W)  BY <2>3 DEF LastHeld
    <3>2. /\ Len(s) \in DOMAIN s /\ Len(s) - 1 \in DOMAIN s /\ Mated(s, Len(s) - 1, Len(s))  BY <3>1, HeldMated DEF s
    <3>3. PartnersAt(s, s[Len(s)], Len(s) - 1, Len(s))  BY <3>2 DEF Mated, PartnersAt
    <3>4. Partners(s, s[Len(s)])  BY <3>2, <3>3 DEF Partners
    <3>5. Valid(s) /\ Len(s) >= 2 /\ Alike(s[Len(s)], s[Len(s)])  BY <1>0, <3>2 DEF s, Alike
    <3>6. QED  BY <1>0, <3>1, <3>4, <3>5, StillAnswered
  <2>4. QED  BY <1>2, <2>2, <2>3 DEF s
<1>3. CASE q \in Truncations(p, primes)
  <2>1. PICK x \in 0 .. n, k \in 0 .. n : /\ Elided(p, x, k, q) /\ x + k <= n /\ (k = 0 \/ n - (x + k) >= 2)
                                          /\ (~primes => x = 0)
    BY <1>1, <1>3, CutDown
  <2> DEFINE t == Merged(q)
  <2>2. q \in PayloadRows  BY <2>1 DEF Elided
  <2>3. t \in Seq(Sound) /\ t \in Seq(Proper)  BY <2>1, <2>2, ElidedTurns, MergedTurns DEF PayloadRows
  <2>4. PICK R : /\ PartOf(s, t, R) /\ n + 1 \in R
                 /\ \A i \in 1 .. n : \A j \in 1 .. i : j > x + k /\ s[j].user => i \in R
    BY <2>1, ElidedTurns DEF s
  <2>5. \A i \in x + k + 1 .. n : h[i].user /\ h # <<>> => q.history # <<>> /\ Last(q.history) = Last(h)
    BY <2>1, ElidedTurns
  <2> HIDE DEF t
  <2>6. /\ Once(t) /\ CallsOf(t) \subseteq CallsOf(s) /\ AnswersOf(t) \subseteq AnswersOf(s)
        /\ \A i, j \in R : Mated(s, i, j) => \E r : Partners(t, r) /\ r.results = s[j].results
    BY <1>0, <1>1, <2>3, <2>4, PartFacts
  <2>7. Fresh(q)
    <3>1. Speaking(t)  BY <2>3, SoundSpeak
    <3>2. QED  BY <2>2, <2>6, <3>1 DEF Fresh, PayloadRows, t
  <2>8. ASSUME ~primes, NEW W, HeldLast(s, W) PROVE EndsAnswered(t)
    <3>1. /\ n + 1 \in DOMAIN s /\ n \in DOMAIN s /\ Mated(s, n, n + 1) /\ n \in 1 .. n /\ n + 1 - 1 = n
          /\ UseIds(s[n]) # {}
      <4>1. n + 1 - 1 = n /\ Len(s) = n + 1  BY <1>0
      <4>2. n + 1 \in DOMAIN s /\ n \in DOMAIN s /\ Mated(s, n, n + 1) /\ UseIds(s[n]) # {}  BY <2>8, <4>1, HeldMated DEF s
      <4>3. QED  BY <1>0, <4>1, <4>2
    <3>2. x = 0 /\ x + k = k /\ k \in Nat  BY <2>1, <2>8
    <3>3. \E j \in 1 .. n : j > k /\ s[j].user
      <4>1. CASE k = 0  BY <1>0, <1>1, <3>1, <4>1 DEF Opens
      <4>2. CASE k # 0
        <5>1. n - 1 \in 1 .. n /\ n - 1 > k /\ n - 1 + 1 = n /\ n - 1 \in DOMAIN s  BY <1>0, <2>1, <3>1, <3>2, <4>2
        <5>2. s[n] \in Proper /\ s[n - 1] \in Proper /\ s[n - 1].user # s[n].user
          <6>1. s[n] \in Proper /\ s[n - 1] \in Proper  BY <1>0, <3>1, <5>1
          <6>2. s[n - 1].user # s[n - 1 + 1].user
            <7>1. n - 1 + 1 \in DOMAIN s  BY <3>1, <5>1
            <7>2. QED  BY <1>1, <5>1, <7>1 DEF Alternates
          <6>3. QED  BY <5>1, <6>1, <6>2
        <5>3. ~s[n].user  BY <3>1, <5>2, NoCalls DEF Proper
        <5>4. s[n - 1].user  BY <5>2, <5>3 DEF Proper, TurnRows
        <5>5. QED  BY <5>1, <5>4
      <4>3. QED  BY <4>1, <4>2
    <3>4. PICK j \in 1 .. n : j > k /\ s[j].user  BY <3>3
    <3>5. n \in R  BY <2>4, <3>1, <3>2, <3>4
    <3>6. h # <<>> /\ q.history # <<>> /\ Last(q.history) = Last(h)
      <4>1. j \in x + k + 1 .. n /\ h[j].user /\ h # <<>>  BY <1>0, <3>1, <3>2, <3>4
      <4>2. QED  BY <2>5, <4>1
    <3>7. Last(q.history) = t[Len(t) - 1] /\ t[Len(t)] = q.current /\ Len(t) = Len(q.history) + 1 /\ Len(q.history) \in Nat
      BY <2>2, <3>6, MergedTurns DEF t, PayloadRows
    <3>8. Last(h) = s[n]  BY <1>0, <3>1 DEF Last
    <3>9. Len(t) >= 2 /\ t[Len(t) - 1] = s[Len(s) - 1]
      <4>1. Len(q.history) # 0
        <5>1. q.history \in Seq(Proper)  BY <2>2 DEF PayloadRows
        <5>2. QED  BY <3>6, <5>1
      <4>2. Len(t) >= 2  BY <3>7, <4>1
      <4>3. Len(s) - 1 = n  BY <1>0
      <4>4. QED  BY <3>6, <3>7, <3>8, <4>2, <4>3
    <3>10. Alike(t[Len(t)], s[Len(s)])
      <4>1. q.current \in {p.current, Shorter(p.current)}  BY <2>1 DEF Elided
      <4>2. Alike(q.current, p.current)  BY <1>1, <4>1, ShorterTurn
      <4>3. QED  BY <1>0, <3>7, <4>2
    <3>11. \E r : Partners(t, r) /\ r.results = s[Len(s)].results  BY <1>0, <2>4, <2>6, <3>1, <3>5
    <3>12. Valid(s)  BY DEF s
    <3>13. QED  BY <2>3, <2>8, <3>9, <3>10, <3>11, <3>12, StillAnswered
  <2>9. ~primes /\ LastHeld(s) => EndsAnswered(t)  BY <2>8 DEF LastHeld
  <2>10. QED  BY <2>2, <2>6, <2>7, <2>9 DEF s, t
<1>4. QED  BY <1>2, <1>3

(*****************************************************************************)
(* The next round                                                            *)
(*****************************************************************************)
\* The payload of the next round can be repaired, and ends with what was searched for.
LEMMA Advanced ==
    ASSUME NEW p \in PayloadRows, Valid(Merged(p)), NEW uses \in Seq(SearchIds), uses # <<>>, IsSet(uses),
           Elements(uses) \cap (CallsOf(Merged(p)) \cup AnswersOf(Merged(p))) = {}
    PROVE  LET q == advancePayload(p, uses)
           IN  /\ q \in PayloadRows /\ Fresh(q) /\ EndsAnswered(Merged(q))
               /\ CallsOf(Merged(q)) \subseteq CallsOf(Merged(p)) \cup Elements(uses)
               /\ AnswersOf(Merged(q)) \subseteq AnswersOf(Merged(p)) \cup Elements(uses)
<1> DEFINE q == advancePayload(p, uses)
           s == Merged(p)
           A == Assistant({}, uses)
           b == User({}, [i \in DOMAIN uses |-> Result(uses[i])], FALSE)
           t == Append(Append(s, A), b)
           n == Len(s)
           U == Elements(uses)
<1>0. s \in Seq(Sound) /\ s \in Seq(Proper) /\ n \in Nat /\ DOMAIN s = 1 .. n /\ Once(s)
  BY MergedTurns DEF Valid, PayloadRows
<1>1. q = [history |-> p.history \o <<p.current, A>>, current |-> b, tools |-> p.tools]
  BY DEF advancePayload, MapSeq
<1>2. uses \in Seq(Names) /\ DOMAIN uses = 1 .. Len(uses) /\ Len(uses) \in Nat /\ U # {} /\ \A i \in DOMAIN uses : uses[i] \in Names
  <2>1. uses \in Seq(Names) /\ DOMAIN uses = 1 .. Len(uses) /\ Len(uses) \in Nat /\ Len(uses) # 0  BY DEF Names
  <2>2. uses[1] \in U  BY <2>1 DEF Elements
  <2>3. QED  BY <2>1, <2>2
<1>3. A \in Sound /\ ~A.user /\ A.uses = uses /\ A.results = <<>>
  <2>1. <<>> \in Seq(ResultRows)  OBVIOUS
  <2>2. A.user = FALSE /\ A.text = {} /\ A.results = <<>> /\ A.images = FALSE /\ A.uses = uses  BY DEF Assistant
  <2>3. A \in TurnRows  BY <1>2, <2>1 DEF Assistant, TurnRows
  <2> HIDE DEF A
  <2>4. A \in Proper /\ Neat(A)  BY <2>2, <2>3 DEF Proper, Neat, Hollow
  <2>5. QED  BY <2>2, <2>4 DEF Sound
<1>4. b \in Sound /\ b.user /\ b.uses = <<>> /\ b.results = [i \in DOMAIN uses |-> Result(uses[i])]
  <2> DEFINE rs == [i \in DOMAIN uses |-> Result(uses[i])]
             e == <<>>
  <2>1. \A i \in DOMAIN uses : Result(uses[i]) \in ResultRows  BY <1>2 DEF Result, ResultRows
  <2>2. rs \in Seq(ResultRows) /\ rs # <<>>
    <3>1. rs = [i \in 1 .. Len(uses) |-> Result(uses[i])]  BY <1>2
    <3>2. rs \in Seq(ResultRows)
      <4>1. \A i \in 1 .. Len(uses) : Result(uses[i]) \in ResultRows  BY <1>2, <2>1
      <4>2. QED  BY <1>2, <3>1, <4>1
    <3>3. DOMAIN rs # {}
      <4>1. U # {}  BY <1>2
      <4>2. DOMAIN uses # {}  BY <4>1 DEF Elements
      <4>3. DOMAIN rs = DOMAIN uses  OBVIOUS
      <4>4. QED  BY <4>2, <4>3
    <3> HIDE DEF rs
    <3>4. QED  BY <3>2, <3>3, EmptyDomain
  <2>3. e \in Seq(Names)  OBVIOUS
  <2>4. b.user = TRUE /\ b.text = {} /\ b.results = rs /\ b.images = FALSE /\ b.uses = e  BY DEF User
  <2>5. b = [user |-> TRUE, text |-> {}, results |-> rs, images |-> FALSE, uses |-> e]  BY DEF User
  <2> HIDE DEF b, rs, e
  <2>6. b \in TurnRows  BY <2>2, <2>3, <2>5 DEF TurnRows
  <2>7. b \in Proper  BY <2>4, <2>6 DEF Proper, e
  <2>8. QED  BY <2>2, <2>4, <2>7 DEF Sound, Says, Neat, Hollow, rs, e
<1>5. UseIds(A) = U /\ UseIds(b) = {} /\ ResultIds(A) = {}
  <2>1. A \in Proper /\ b \in Proper  BY <1>3, <1>4 DEF Sound
  <2>2. UseIds(b) = {} /\ ResultIds(A) = {}  BY <1>3, <1>4, <2>1, NoCalls
  <2>3. QED  BY <1>3, <2>2 DEF UseIds
<1> HIDE DEF A
<1>6. Elements(b.results) = {Result(id) : id \in U} /\ ResultIds(b) = U
  <2>1. Elements(b.results) = {Result(uses[i]) : i \in DOMAIN uses}
    <3> DEFINE rs == [i \in DOMAIN uses |-> Result(uses[i])]
    <3>1. Elements(rs) = {rs[i] : i \in DOMAIN rs}  BY DEF Elements
    <3>2. DOMAIN rs = DOMAIN uses /\ \A i \in DOMAIN uses : rs[i] = Result(uses[i])  OBVIOUS
    <3>3. b.results = rs  BY <1>4
    <3> HIDE DEF rs, b
    <3>4. {rs[i] : i \in DOMAIN rs} = {Result(uses[i]) : i \in DOMAIN uses}  BY <3>2
    <3>5. QED  BY <3>1, <3>3, <3>4
  <2> HIDE DEF b
  <2>2. {Result(uses[i]) : i \in DOMAIN uses} = {Result(id) : id \in U}  BY DEF Elements
  <2>3. ResultIds(b) = {r.id : r \in {Result(id) : id \in U}}  BY <2>1, <2>2 DEF ResultIds
  <2>4. \A id : Result(id).id = id  BY DEF Result
  <2> HIDE DEF U
  <2>5. \A id : id \in {r.id : r \in {Result(x) : x \in U}} <=> id \in U  BY <2>4
  <2>6. QED  BY <2>1, <2>2, <2>3, <2>5
<1> HIDE DEF b
<1>7. Merged(q) = t
  <2>1. p.history \in Seq(Proper) /\ p.current \in Proper /\ A \in Proper /\ b \in Proper
    BY <1>3, <1>4 DEF PayloadRows, Sound
  <2>2. q.history = p.history \o <<p.current, A>> /\ q.current = b  BY <1>1
  <2> HIDE DEF q
  <2>3. p.history \o <<p.current, A>> = Append(Append(p.history, p.current), A)
    <3> DEFINE l == p.history \o <<p.current, A>>
               r == Append(Append(p.history, p.current), A)
               m == Len(p.history)
               d == <<p.current, A>>
    <3>0. m \in Nat /\ d \in Seq(Proper) /\ Len(d) = 2 /\ d[1] = p.current /\ d[2] = A  BY <2>1
    <3> HIDE DEF d
    <3>1. l \in Seq(Proper) /\ Len(l) = m + 2 /\ (\A i \in 1 .. m : l[i] = p.history[i])
          /\ \A i \in m + 1 .. m + 2 : l[i] = d[i - m]
      BY <2>1, <3>0, JoinedSeq DEF d
    <3>2. m + 1 \in m + 1 .. m + 2 /\ m + 2 \in m + 1 .. m + 2 /\ m + 1 - m = 1 /\ m + 2 - m = 2  BY <3>0
    <3>3. l[m + 1] = p.current /\ l[m + 2] = A  BY <3>0, <3>1, <3>2
    <3>4. r \in Seq(Proper) /\ Len(r) = m + 2 /\ (\A i \in 1 .. m : r[i] = p.history[i]) /\ r[m + 1] = p.current /\ r[m + 2] = A
      BY <2>1, <3>0
    <3> HIDE DEF l, r, m
    <3>5. \A i \in 1 .. m + 2 : i \in 1 .. m \/ i = m + 1 \/ i = m + 2  BY <3>0
    <3>6. \A i \in 1 .. m + 2 : l[i] = r[i]  BY <3>1, <3>3, <3>4, <3>5
    <3>7. l = r  BY <3>0, <3>1, <3>4, <3>6
    <3>8. QED  BY <3>7 DEF l, r
  <2>4. QED  BY <2>2, <2>3 DEF Merged
<1> HIDE DEF q
<1> DEFINE u == Append(s, A)
<1>8. A \in Proper /\ b \in Proper /\ u \in Seq(Proper) /\ u \in Seq(Sound) /\ t \in Seq(Proper) /\ t \in Seq(Sound)
  <2>1. A \in Proper /\ b \in Proper  BY <1>3, <1>4 DEF Sound
  <2> HIDE DEF s
  <2>2. QED  BY <1>0, <1>3, <1>4, <2>1
<1>9. OnceIn(A) /\ OnceIn(b)
  <2>1. \A i, j \in DOMAIN uses : uses[i] = uses[j] => i = j  BY IsSetOnce
  <2>2. QED  BY <1>3, <1>4, <2>1 DEF OnceIn
<1>10. CallsOf(u) = CallsOf(s) \cup U /\ Once(u)
  <2>1. CallsOf(s) \cap UseIds(A) = {}  BY <1>5
  <2> HIDE DEF s, U
  <2>2. QED  BY <1>0, <1>5, <1>8, <1>9, <2>1, AppendedTurn
<1> HIDE DEF u
<1>11. t = Append(u, b)  BY DEF u
<1>12. CallsOf(t) = CallsOf(s) \cup U /\ Once(t)
  <2>1. CallsOf(u) \cap UseIds(b) = {}  BY <1>5
  <2> HIDE DEF s, U, t
  <2>2. QED  BY <1>5, <1>8, <1>9, <1>10, <1>11, <2>1, AppendedTurn
<1>13. /\ Len(t) = n + 2 /\ DOMAIN t = 1 .. n + 2 /\ t[n + 1] = A /\ t[n + 2] = b /\ \A i \in 1 .. n : t[i] = s[i]
  <2>1. Len(u) = n + 1 /\ u[n + 1] = A /\ \A i \in 1 .. n : u[i] = s[i]  BY <1>0, <1>8, AppendFacts DEF u
  <2> HIDE DEF t, n, s
  <2>2. Len(t) = Len(u) + 1 /\ DOMAIN t = 1 .. Len(u) + 1 /\ t[Len(u) + 1] = b /\ \A i \in 1 .. Len(u) : t[i] = u[i]
    <3>1. DOMAIN u = 1 .. Len(u)  BY <1>8
    <3>2. QED  BY <1>8, <1>11, <3>1, AppendFacts
  <2>3. n + 1 + 1 = n + 2 /\ n + 1 \in 1 .. n + 1 /\ \A i \in 1 .. n : i \in 1 .. n + 1  BY <1>0
  <2>4. QED  BY <2>1, <2>2, <2>3
<1> HIDE DEF t, s, U, n
<1>14. \A i \in DOMAIN t : i \in 1 .. n \/ i = n + 1 \/ i = n + 2  BY <1>0, <1>13
<1>15. ASSUME NEW i \in DOMAIN t, i # n + 2 PROVE ResultIds(t[i]) \subseteq AnswersOf(s) /\ ResultIds(t[i]) \cap U = {}
  <2>1. CASE i \in 1 .. n
    <3>1. ResultIds(s[i]) \subseteq AnswersOf(s)  BY <1>0, <2>1 DEF AnswersOf
    <3>2. AnswersOf(s) \cap U = {}  BY DEF s, U
    <3>3. QED  BY <1>13, <2>1, <3>1, <3>2
  <2>2. CASE i = n + 1  BY <1>5, <1>13, <2>2
  <2>3. QED  BY <1>14, <1>15, <2>1, <2>2
<1>16. AnswersOf(t) \subseteq AnswersOf(s) \cup U
  <2>1. \A i \in DOMAIN t : ResultIds(t[i]) \subseteq AnswersOf(s) \cup U  BY <1>6, <1>13, <1>15
  <2> HIDE DEF AnswersOf
  <2>2. \A id \in AnswersOf(t) : \E i \in DOMAIN t : id \in ResultIds(t[i])  BY DEF AnswersOf
  <2>3. QED  BY <2>1, <2>2
<1>17. Partners(t, b)
  <2>1. n + 1 \in DOMAIN t /\ n + 2 \in DOMAIN t /\ n + 1 < n + 2  BY <1>0, <1>13
  <2>2. PartnersAt(t, b, n + 1, n + 2)  BY <1>2, <1>5, <1>6, <1>13, <1>15, <2>1 DEF PartnersAt
  <2>3. QED  BY <2>1, <2>2 DEF Partners
<1>18. EndsAnswered(t)
  <2>1. EndsWith(t, A, b)  BY <1>0, <1>13 DEF EndsWith
  <2>2. Real(b) /\ UseIds(A) = ResultIds(b)  BY <1>5, <1>6 DEF Real
  <2>3. A.uses # <<>> /\ b.results # <<>>
    <3>1. b.results = <<>> => ResultIds(b) = {}  BY <1>8, NoCalls
    <3>2. QED  BY <1>2, <1>3, <1>6, <3>1
  <2>4. Scrubbed(A) = A  BY <1>3, ScrubbedStays
  <2>5. QED  BY <1>17, <2>1, <2>2, <2>3, <2>4 DEF EndsAnswered
<1>19. q \in PayloadRows
  <2>1. p.history \o <<p.current, A>> \in Seq(Proper)  BY <1>8 DEF PayloadRows
  <2>2. QED  BY <1>1, <1>8, <2>1 DEF PayloadRows
<1>20. Fresh(q)
  <2>1. Speaking(t)  BY <1>8, SoundSpeak
  <2>2. QED  BY <1>7, <1>12, <1>19, <2>1 DEF Fresh, PayloadRows
<1>21. QED  BY <1>7, <1>12, <1>16, <1>18, <1>19, <1>20 DEF q, s, U

(*****************************************************************************)
(* The client's request                                                      *)
(*****************************************************************************)
\* The first user message says or shows something, and results are real ones.
Starts(s) == \A i \in DOMAIN s : s[i].user /\ NoneBefore(s, i) => Says(s[i]) \/ s[i].images
Written(s) == s \in Seq(Proper) /\ Once(s) /\ Starts(s) /\ \A i \in DOMAIN s : Real(s[i])
\* A user turn that shows something also says something.
Showing == {m \in Proper : m.user /\ m.images => Says(m)}

\* A normalized turn says something if it shows something,
LEMMA NormalizedTurn ==
    ASSUME NEW m \in Proper
    PROVE  /\ Normalized(m) \in Showing /\ Alike(Normalized(m), m)
           /\ Says(m) \/ m.images => Says(Normalized(m))
<1>1. m \in TurnRows  BY DEF Proper
<1>2. CASE m.text = {} /\ m.images
  <2> DEFINE x == [m EXCEPT !.text = {"image"}]
  <2>1. x \in TurnRows /\ x.user = m.user /\ x.uses = m.uses /\ x.results = m.results /\ x.text = {"image"}
    BY <1>1 DEF TurnRows, Words
  <2>2. Normalized(m) = x  BY <1>2 DEF Normalized
  <2> HIDE DEF x
  <2>3. x \in Proper /\ Says(x)  BY <2>1 DEF Proper, Says
  <2>4. QED  BY <2>1, <2>2, <2>3 DEF Showing, Alike
<1>3. CASE ~(m.text = {} /\ m.images)
  <2>1. Normalized(m) = m  BY <1>3 DEF Normalized
  <2>2. m.images => Says(m)  BY <1>3 DEF Says
  <2>3. QED  BY <2>1, <2>2 DEF Showing, Alike
<1>4. QED  BY <1>2, <1>3

\* and a spoken one says something.
LEMMA SpokenTurn ==
    ASSUME NEW m \in Proper
    PROVE  Spoken(m) \in Showing /\ Alike(Spoken(m), m) /\ Says(Spoken(m))
<1>1. m \in TurnRows  BY DEF Proper
<1>2. CASE m.text # {} \/ m.results # <<>>
  <2>1. Spoken(m) = m /\ Says(m)  BY <1>2 DEF Spoken, Says
  <2>2. QED  BY <2>1 DEF Showing, Alike
<1>3. CASE ~(m.text # {} \/ m.results # <<>>)
  <2> DEFINE x == [m EXCEPT !.text = IF m.images THEN {"image"} ELSE {"."}]
  <2>1. x \in TurnRows /\ x.user = m.user /\ x.uses = m.uses /\ x.results = m.results /\ x.text # {}
    BY <1>1 DEF TurnRows, Words
  <2>2. Spoken(m) = x  BY <1>3 DEF Spoken
  <2> HIDE DEF x
  <2>3. x \in Proper /\ Says(x)  BY <2>1 DEF Proper, Says
  <2>4. QED  BY <2>1, <2>2, <2>3 DEF Showing, Alike
<1>4. QED  BY <1>2, <1>3

\* The two turns of the priming pair.
LEMMA FillerShown ==
    /\ Filler("system") \in Showing /\ Filler("system").user /\ Says(Filler("system"))
    /\ Filler("system").uses = <<>> /\ Filler("system").results = <<>>
    /\ LET x == Assistant({"primed"}, <<>>) IN x \in Showing /\ ~x.user /\ x.uses = <<>> /\ x.results = <<>>
<1> DEFINE x == Assistant({"primed"}, <<>>)
           e == <<>>
<1>1. /\ Filler("system") \in Showing /\ Filler("system").user /\ Says(Filler("system"))
      /\ Filler("system").uses = <<>> /\ Filler("system").results = <<>>
  BY FillerTurn DEF Showing
<1>2. x = [user |-> FALSE, text |-> {"primed"}, results |-> e, images |-> FALSE, uses |-> e]  BY DEF Assistant
<1>3. e \in Seq(Names) /\ e \in Seq(ResultRows)  OBVIOUS
<1> HIDE DEF x, e
<1>4. x \in TurnRows /\ ~x.user /\ x.uses = e /\ x.results = e  BY <1>2, <1>3 DEF TurnRows, Words
<1>5. x \in Showing  BY <1>4 DEF Showing, Proper, e
<1>6. QED  BY <1>1, <1>4, <1>5 DEF x, e

\* They make no calls, and the first is a user turn.
LEMMA PrimingTurns ==
    ASSUME primed \in BOOLEAN
    PROVE  /\ Priming \in Seq(Showing) /\ \A a \in DOMAIN Priming : Priming[a].uses = <<>> /\ Priming[a].results = <<>>
           /\ Priming # <<>> => Priming[1].user /\ Says(Priming[1])
<1> DEFINE f == Filler("system")
           x == Assistant({"primed"}, <<>>)
<1>1. f \in Showing /\ f.user /\ Says(f) /\ f.uses = <<>> /\ f.results = <<>>
  BY FillerShown
<1>2. x \in Showing /\ x.uses = <<>> /\ x.results = <<>>  BY FillerShown
<1>3. Priming = IF primed THEN <<f, x>> ELSE <<>>  BY DEF Priming
<1> HIDE DEF f, x
<1>4. CASE primed
  <2>1. Priming = <<f, x>>  BY <1>3, <1>4
  <2>2. QED  BY <1>1, <1>2, <2>1
<1>5. CASE ~primed
  <2>1. Priming = <<>>  BY <1>3, <1>5
  <2>2. <<>> \in Seq(Showing) /\ DOMAIN <<>> = {}  OBVIOUS
  <2>3. QED  BY <2>1, <2>2
<1>6. QED  BY <1>4, <1>5

\* Turns speak whose first one does.
LEMMA SpeakingFirst ==
    ASSUME NEW t \in Seq(Showing), t # <<>>, t[1].user, Says(t[1])
    PROVE  Speaking(t)
<1> SUFFICES ASSUME NEW i \in DOMAIN t, t[i].user, t[i].images \/ NoneBefore(t, i) PROVE Says(t[i])  BY DEF Speaking
<1>1. t[i] \in Showing /\ i \in Nat /\ i >= 1  OBVIOUS
<1>2. CASE t[i].images  BY <1>1, <1>2 DEF Showing
<1>3. CASE NoneBefore(t, i)
  <2>1. i = 1
    <3> SUFFICES ASSUME i # 1 PROVE FALSE  OBVIOUS
    <3>1. 1 \in 1 .. i - 1  BY <1>1
    <3>2. QED  BY <1>3, <3>1 DEF NoneBefore
  <2>2. QED  BY <2>1
<1>4. QED  BY <1>2, <1>3

\* What is left without the leading assistant turns starts with the first user turn.
LEMMA LedTurns ==
    ASSUME NEW T, NEW s \in Seq(T), dropLeadingAssistant(s) # <<>>
    PROVE  \E j \in DOMAIN s : s[j].user /\ NoneBefore(s, j) /\ dropLeadingAssistant(s)[1] = s[j]
<1> DEFINE S == {i \in DOMAIN s : \E j \in 1 .. i : s[j].user}
           d == At(s, S)
<1>0. dropLeadingAssistant(s) = d  BY DEF dropLeadingAssistant
<1>1. d \in Seq(T) /\ \E g : Picks(d, s, Len(s), g) /\ \A j \in 1 .. Len(s) : Takes(g, j) <=> j \in S  BY AtPicks
<1>2. PICK g : Picks(d, s, Len(s), g) /\ \A j \in 1 .. Len(s) : Takes(g, j) <=> j \in S  BY <1>1
<1>3. DOMAIN s = 1 .. Len(s) /\ Len(s) \in Nat  OBVIOUS
<1>4. \A j \in 1 .. Len(s) : (\E k \in 1 .. j : s[k].user) <=> Takes(g, j)  BY <1>2, <1>3
<1> HIDE DEF d, S
<1>5. 1 \in DOMAIN d
  <2>1. d # <<>>  BY <1>0
  <2>2. QED  BY <1>1, <2>1
<1>6. /\ g \in [DOMAIN d -> 1 .. Len(s)] /\ d[1] = s[g[1]] /\ g[1] \in DOMAIN s /\ g[1] \in Nat
      /\ \A a, b \in DOMAIN d : a < b => g[a] < g[b]
  BY <1>2, <1>3, <1>5 DEF Picks
<1>7. ASSUME NEW j \in DOMAIN s, s[j].user PROVE ~(j < g[1])
  <2>1. Takes(g, j)  BY <1>3, <1>4, <1>7
  <2>2. PICK a \in DOMAIN d : g[a] = j  BY <1>6, <2>1 DEF Takes
  <2>3. a \in Nat /\ (a = 1 \/ 1 < a)  BY <1>1
  <2>4. 1 < a => g[1] < g[a]  BY <1>5, <1>6
  <2>5. QED  BY <1>3, <1>6, <2>2, <2>3, <2>4
<1>8. s[g[1]].user
  <2>1. Takes(g, g[1])  BY <1>5, <1>6 DEF Takes
  <2>2. PICK k \in 1 .. g[1] : s[k].user  BY <1>3, <1>4, <1>6, <2>1
  <2>3. k \in DOMAIN s /\ k \in Nat  BY <1>3, <1>6
  <2>4. k = g[1]  BY <1>6, <1>7, <2>2, <2>3
  <2>5. QED  BY <2>2, <2>4
<1>9. NoneBefore(s, g[1])
  <2> SUFFICES ASSUME NEW j \in 1 .. g[1] - 1, s[j].user PROVE FALSE  BY DEF NoneBefore
  <2>1. j \in DOMAIN s /\ j < g[1]  BY <1>3, <1>6
  <2>2. QED  BY <1>7, <2>1
<1>10. QED  BY <1>0, <1>6, <1>8, <1>9

\* A request's turns are all of them from its first user message on.
LEMMA ClaudeTurns ==
    ASSUME NEW s, Written(s), s # <<>>, Last(s).user, primed \in BOOLEAN
    PROVE  LET c == ClaudeToKiro(s)
           IN  /\ c.history \in Seq(Proper) /\ c.current \in Proper /\ Speaking(Merged(c))
               /\ PartOf(s, Merged(c), {j \in DOMAIN s : \E k \in 1 .. j : s[k].user})
<1> DEFINE n == Len(s)
           N == [i \in DOMAIN Front(s) |-> Normalized(Front(s)[i])]
           S == {i \in DOMAIN N : \E j \in 1 .. i : N[j].user}
           D == At(N, S)
           P == Priming
           c == Spoken(Last(s))
           q == ClaudeToKiro(s)
           R == {j \in DOMAIN s : \E k \in 1 .. j : s[k].user}
<1>0. /\ s \in Seq(Proper) /\ Starts(s) /\ n \in Nat /\ DOMAIN s = 1 .. n /\ n \in DOMAIN s /\ n # 0
  BY DEF Written
<1>1. /\ Front(s) \in Seq(Proper) /\ Last(s) \in Proper /\ Last(s) = s[n] /\ Len(Front(s)) = n - 1
      /\ (\A i \in 1 .. n - 1 : Front(s)[i] = s[i]) /\ DOMAIN Front(s) = 1 .. n - 1
  <2>1. /\ Front(s) \in Seq(Proper) /\ Last(s) \in Proper /\ Last(s) = s[n] /\ Len(Front(s)) = n - 1
        /\ \A i \in 1 .. n - 1 : Front(s)[i] = s[i]
    BY <1>0, FrontLast
  <2> DEFINE w == Front(s)
  <2>2. w \in Seq(Proper) /\ Len(w) = n - 1  BY <2>1
  <2> HIDE DEF w, n
  <2>3. DOMAIN w = 1 .. n - 1  BY <2>2
  <2>4. QED  BY <2>1, <2>3 DEF w, n
<1>2. N \in Seq(Showing) /\ N \in Seq(Proper) /\ DOMAIN N = 1 .. n - 1 /\ \A i \in 1 .. n - 1 : N[i] = Normalized(s[i])
  <2>1. \A i \in 1 .. n - 1 : N[i] = Normalized(s[i]) /\ s[i] \in Proper  BY <1>0, <1>1
  <2>2. DOMAIN N = 1 .. n - 1 /\ n - 1 \in Nat  BY <1>0, <1>1
  <2>3. \A i \in 1 .. n - 1 : N[i] \in Showing  BY <2>1, NormalizedTurn
  <2>4. N \in Seq(Showing)
    <3>1. N = [i \in 1 .. n - 1 |-> N[i]]  BY <2>2
    <3> HIDE DEF N, n
    <3>2. QED  BY <2>2, <2>3, <3>1
  <2> HIDE DEF N
  <2>5. QED  BY <2>1, <2>2, <2>4 DEF Showing
<1>3. c \in Showing /\ c \in Proper /\ Says(c) /\ Alike(c, s[n]) /\ c.user
  <2>1. c \in Showing /\ Says(c) /\ Alike(c, s[n])  BY <1>1, SpokenTurn
  <2>2. QED  BY <1>1, <2>1 DEF Showing, Alike
<1>4. P \in Seq(Showing) /\ P \in Seq(Proper) /\ (\A a \in DOMAIN P : P[a].uses = <<>> /\ P[a].results = <<>>)
      /\ (P # <<>> => P[1].user /\ Says(P[1]))
  BY PrimingTurns DEF Showing
<1>5. q.history = P \o D /\ q.current = c
  BY DEF ClaudeToKiro, MapSeq, dropLeadingAssistant
<1> HIDE DEF N, c, P
<1>6. Behinds(s, N, 0)
  <2>1. ASSUME NEW i \in DOMAIN N PROVE 0 + i \in DOMAIN s /\ Alike(N[i], s[0 + i])
    <3>1. i \in DOMAIN s /\ 0 + i = i /\ N[i] = Normalized(s[i])  BY <1>0, <1>2
    <3>2. QED  BY <1>0, <3>1, NormalizedTurn
  <2>2. QED  BY <2>1 DEF Behinds
<1>7. D \in Seq(Proper) /\ PartOf(s, D, {0 + i : i \in DOMAIN N \cap S})  BY <1>0, <1>2, <1>6, PartPicked
<1>8. D \in Seq(Showing)  BY <1>2, AtPicks
<1>9. PartOf(s, P, {})  BY <1>0, <1>4, PartNone
<1>10. PartOf(s, <<c>>, {n})
  <2>1. <<c>> \in Seq(Proper) /\ Len(<<c>>) = 1  BY <1>3
  <2>2. Behinds(s, <<c>>, n - 1)
    <3>1. \A i \in DOMAIN <<c>> : n - 1 + i \in DOMAIN s /\ Alike(<<c>>[i], s[n - 1 + i])  BY <1>0, <1>3
    <3>2. QED  BY <1>0, <3>1 DEF Behinds
  <2>3. PartOf(s, <<c>>, n - 1 + 1 .. n - 1 + Len(<<c>>))  BY <1>0, <2>1, <2>2, PartWhole
  <2>4. n - 1 + 1 .. n - 1 + Len(<<c>>) = {n}  BY <1>0, <2>1
  <2>5. QED  BY <2>3, <2>4
<1>11. {0 + i : i \in DOMAIN N \cap S} = {j \in 1 .. n - 1 : \E k \in 1 .. j : s[k].user}
  <2>1. \A i \in DOMAIN N \cap S : 0 + i = i  BY <1>2
  <2>2. {0 + i : i \in DOMAIN N \cap S} = DOMAIN N \cap S  BY <2>1
  <2>3. ASSUME NEW i \in DOMAIN N PROVE i \in S <=> \E k \in 1 .. i : s[k].user
    <3>1. ASSUME NEW k \in 1 .. i PROVE N[k].user <=> s[k].user
      <4>1. k \in 1 .. n - 1 /\ k \in DOMAIN s  BY <1>0, <1>2
      <4>2. N[k] = Normalized(s[k]) /\ s[k] \in Proper  BY <1>0, <1>2, <4>1
      <4>3. QED  BY <4>2, NormalizedTurn DEF Alike
    <3>2. i \in S <=> \E k \in 1 .. i : N[k].user  OBVIOUS
    <3>3. QED  BY <3>1, <3>2
  <2> HIDE DEF S
  <2>4. QED  BY <1>2, <2>2, <2>3
<1> DEFINE Z == {j \in 1 .. n - 1 : \E k \in 1 .. j : s[k].user}
<1>12. ({} \cup Z) \cup {n} = R
  <2>1. s[n].user /\ n \in 1 .. n  BY <1>0, <1>1
  <2>2. \A j \in 1 .. n : j = n \/ j \in 1 .. n - 1
    <3>1. n \in Nat  BY <1>0
    <3> HIDE DEF n
    <3>2. QED  BY <3>1
  <2>3. \A j \in 1 .. n - 1 : j \in 1 .. n  BY <1>0
  <2>4. \A j : j \in Z <=> j \in 1 .. n - 1 /\ \E k \in 1 .. j : s[k].user  OBVIOUS
  <2>5. \A j : j \in R <=> j \in 1 .. n /\ \E k \in 1 .. j : s[k].user  BY <1>0
  <2> HIDE DEF Z, R
  <2>6. \A j : j \in ({} \cup Z) \cup {n} <=> j \in R  BY <2>1, <2>2, <2>3, <2>4, <2>5
  <2>7. QED  BY <2>6
<1>13. D = dropLeadingAssistant(N)  BY DEF dropLeadingAssistant
<1> HIDE DEF D, S
<1>14. PartOf(s, (P \o D) \o <<c>>, R)
  <2>1. PartOf(s, D, Z)  BY <1>7, <1>11
  <2>2. \A i \in {} \cup Z, j \in {n} : i < j  BY <1>0
  <2> HIDE DEF Z, R
  <2>3. PartOf(s, P \o D, {} \cup Z)  BY <1>0, <1>4, <1>7, <1>9, <2>1, PartJoin
  <2>4. P \o D \in Seq(Proper) /\ <<c>> \in Seq(Proper)  BY <1>3, <1>4, <1>7
  <2>5. PartOf(s, (P \o D) \o <<c>>, ({} \cup Z) \cup {n})  BY <1>0, <1>10, <2>2, <2>3, <2>4, PartJoin
  <2>6. QED  BY <1>12, <2>5
<1> HIDE DEF R, Z
<1>15. Merged(q) = (P \o D) \o <<c>>
  <2>1. Merged(q) = Append(P \o D, c)  BY <1>5 DEF Merged
  <2>2. P \o D \in Seq(Proper)  BY <1>4, <1>7
  <2> DEFINE z == P \o D
  <2> HIDE DEF z
  <2>3. Append(z, c) = z \o <<c>>  BY <1>3, <2>2 DEF z
  <2>4. QED  BY <2>1, <2>3 DEF z
<1> DEFINE t == (P \o D) \o <<c>>
<1>16. t \in Seq(Showing)  BY <1>3, <1>4, <1>8
<1>17. t # <<>> /\ t[1].user /\ Says(t[1])
  <2>1. CASE P # <<>>
    <3>1. 1 \in 1 .. Len(P) /\ 1 \in 1 .. Len(P \o D) /\ P \o D \in Seq(Showing)  BY <1>4, <1>8, <2>1
    <3>2. (P \o D)[1] = P[1]  BY <1>4, <1>8, <3>1, JoinedSeq
    <3>3. t[1] = (P \o D)[1] /\ Len(t) # 0
      <4>1. <<c>> \in Seq(Showing)  BY <1>3
      <4>2. t[1] = (P \o D)[1]  BY <3>1, <4>1, JoinedSeq
      <4>3. Len(t) = Len(P \o D) + Len(<<c>>) /\ Len(P \o D) \in Nat  BY <3>1, <4>1, JoinedSeq
      <4>4. QED  BY <3>1, <4>2, <4>3
    <3>4. QED  BY <1>4, <1>16, <2>1, <3>2, <3>3
  <2>2. CASE P = <<>> /\ D # <<>>
    <3>1. P \o D = D  BY <1>8, <2>2
    <3>2. t = D \o <<c>>  BY <3>1
    <3>3. 1 \in 1 .. Len(D)  BY <1>8, <2>2
    <3>4. t[1] = D[1] /\ t # <<>>
      <4>1. <<c>> \in Seq(Showing)  BY <1>3
      <4>2. t[1] = D[1] /\ Len(t) = Len(D) + Len(<<c>>) /\ Len(D) \in Nat  BY <1>8, <3>2, <3>3, <4>1, JoinedSeq
      <4>3. QED  BY <3>3, <4>2
    <3>5. PICK j \in DOMAIN N : N[j].user /\ NoneBefore(N, j) /\ D[1] = N[j]  BY <1>2, <1>13, <2>2, LedTurns
    <3>6. j \in DOMAIN s /\ N[j] = Normalized(s[j]) /\ s[j] \in Proper  BY <1>0, <1>2
    <3>7. NoneBefore(s, j)
      <4> SUFFICES ASSUME NEW k \in 1 .. j - 1 PROVE ~s[k].user  BY DEF NoneBefore
      <4>1. k \in 1 .. n - 1 /\ k \in DOMAIN s  BY <1>0, <1>2
      <4>2. ~N[k].user /\ N[k] = Normalized(s[k]) /\ s[k] \in Proper  BY <1>0, <1>2, <3>5, <4>1 DEF NoneBefore
      <4>3. QED  BY <4>2, NormalizedTurn DEF Alike
    <3>8. s[j].user  BY <3>5, <3>6, NormalizedTurn DEF Alike
    <3>9. Says(s[j]) \/ s[j].images  BY <1>0, <3>6, <3>7, <3>8 DEF Starts
    <3>10. Says(N[j])  BY <3>6, <3>9, NormalizedTurn
    <3>11. QED  BY <3>4, <3>5, <3>10
  <2>3. CASE P = <<>> /\ D = <<>>
    <3>1. t = <<c>>  BY <1>3, <2>3
    <3>2. QED  BY <1>3, <3>1
  <2>4. QED  BY <2>1, <2>2, <2>3
<1> HIDE DEF t
<1>18. Speaking(t)  BY <1>16, <1>17, SpeakingFirst
<1>19. q.history \in Seq(Proper) /\ q.current \in Proper  BY <1>3, <1>4, <1>5, <1>7
<1>20. QED  BY <1>14, <1>15, <1>18, <1>19 DEF q, t, R

(*****************************************************************************)
(* Runs of tool messages                                                     *)
(*****************************************************************************)
AnswersTo(s, k) == UNION {ResultIds(s[i]) : i \in 1 .. k}
\* What the first k messages are gathered into.
Gathered(s, k, out) ==
    /\ Written(out) /\ CallsOf(out) = CallsTo(s, k) /\ AnswersOf(out) = AnswersTo(s, k)
    /\ (\E i \in 1 .. k : s[i].user) => \E i \in DOMAIN out : out[i].user
    /\ k # 0 => out # <<>> /\ out[Len(out)].user = s[k].user

\* The answers of the first k messages, one at a time,
LEMMA AnswersToNext ==
    ASSUME NEW s \in Seq(Proper), NEW k \in 1 .. Len(s)
    PROVE  AnswersTo(s, k) = AnswersTo(s, k - 1) \cup ResultIds(s[k])
<1>1. \A i \in 1 .. k : i \in 1 .. k - 1 \/ i = k  OBVIOUS
<1>2. \A i \in 1 .. k - 1 : i \in 1 .. k  OBVIOUS
<1>3. k \in 1 .. k  OBVIOUS
<1>4. \A x : x \in AnswersTo(s, k) <=> x \in AnswersTo(s, k - 1) \/ x \in ResultIds(s[k])
  BY <1>1, <1>2, <1>3 DEF AnswersTo
<1>5. QED  BY <1>4

\* and all of them.
LEMMA AnswersToAll == ASSUME NEW s \in Seq(Proper) PROVE AnswersTo(s, Len(s)) = AnswersOf(s) /\ AnswersTo(s, 0) = {}
<1>1. DOMAIN s = 1 .. Len(s) /\ 1 .. 0 = {}  OBVIOUS
<1>2. QED  BY <1>1 DEF AnswersTo, AnswersOf

\* The elements of two sequences joined are those of both.
LEMMA JoinedElements ==
    ASSUME NEW T, NEW x \in Seq(T), NEW y \in Seq(T)
    PROVE  Elements(x \o y) = Elements(x) \cup Elements(y)
<1> DEFINE z == x \o y
<1>1. /\ DOMAIN z = 1 .. Len(x) + Len(y) /\ Len(x) \in Nat /\ Len(y) \in Nat
      /\ \A a \in 1 .. Len(x) : z[a] = x[a]
      /\ \A a \in Len(x) + 1 .. Len(x) + Len(y) : a - Len(x) \in DOMAIN y /\ z[a] = y[a - Len(x)]
  BY JoinedSeq
<1>2. DOMAIN x = 1 .. Len(x) /\ DOMAIN y = 1 .. Len(y)  OBVIOUS
<1> HIDE DEF z
<1>3. ASSUME NEW a \in DOMAIN z PROVE z[a] \in Elements(x) \cup Elements(y)
  <2>1. a \in 1 .. Len(x) \/ a \in Len(x) + 1 .. Len(x) + Len(y)  BY <1>1
  <2>2. QED  BY <1>1, <1>2, <2>1 DEF Elements
<1>4. ASSUME NEW a \in DOMAIN x PROVE \E c \in DOMAIN z : z[c] = x[a]
  <2>1. a \in 1 .. Len(x) /\ a \in DOMAIN z  BY <1>1, <1>2
  <2>2. QED  BY <1>1, <2>1
<1>5. ASSUME NEW b \in DOMAIN y PROVE \E c \in DOMAIN z : z[c] = y[b]
  <2>1. PICK c : c = Len(x) + b  OBVIOUS
  <2>2. c \in Len(x) + 1 .. Len(x) + Len(y) /\ c \in DOMAIN z /\ c - Len(x) = b  BY <1>1, <1>2, <2>1
  <2>3. QED  BY <1>1, <2>2
<1>6. \A v : v \in Elements(z) <=> v \in Elements(x) \cup Elements(y)  BY <1>3, <1>4, <1>5 DEF Elements
<1>7. QED  BY <1>6 DEF z

\* Two tool messages joined are one turn with the results of both.
LEMMA JoinedTurn ==
    ASSUME NEW a \in Proper, NEW m \in Proper, Tool(a), Tool(m), NEW x,
           x = [a EXCEPT !.results = @ \o m.results, !.images = @ \/ m.images]
    PROVE  /\ x \in Proper /\ x.user /\ x.uses = a.uses /\ UseIds(m) = {} /\ Says(x)
           /\ Real(a) /\ Real(m) => Real(x)
           /\ ResultIds(x) = ResultIds(a) \cup ResultIds(m)
<1>1. /\ a \in TurnRows /\ m \in TurnRows /\ a.user /\ m.user /\ m.uses = <<>> /\ a.uses = <<>> /\ a.results # <<>>
      /\ a.results \in Seq(ResultRows) /\ m.results \in Seq(ResultRows)
  BY DEF Tool, Proper, TurnRows
<1> DEFINE w == a.results \o m.results
<1>2. w \in Seq(ResultRows) /\ w # <<>>
  <2>1. Len(a.results) \in Nat /\ Len(a.results) # 0 /\ Len(m.results) \in Nat  BY <1>1
  <2>2. w \in Seq(ResultRows) /\ Len(w) = Len(a.results) + Len(m.results)  BY <1>1, JoinedSeq
  <2> HIDE DEF w
  <2>3. w = <<>> => Len(w) = 0  OBVIOUS
  <2> DEFINE b == Len(a.results)
             d == Len(m.results)
  <2>4. b \in Nat /\ b # 0 /\ d \in Nat /\ Len(w) = b + d  BY <2>1, <2>2
  <2> HIDE DEF b, d
  <2>5. Len(w) # 0  BY <2>4
  <2>6. QED  BY <2>2, <2>3, <2>5
<1>3. Elements(w) = Elements(a.results) \cup Elements(m.results)  BY <1>1, JoinedElements
<1> HIDE DEF w
<1>4. x = [a EXCEPT !.results = w, !.images = a.images \/ m.images]  BY DEF w
<1>5. /\ x.user /\ x.uses = a.uses /\ x.results = w /\ x.text = a.text /\ x.images = (a.images \/ m.images)
      /\ DOMAIN x = DOMAIN a
  BY <1>1, <1>4 DEF TurnRows
<1>6. x \in TurnRows
  <2>1. (a.images \/ m.images) \in BOOLEAN  OBVIOUS
  <2>2. QED  BY <1>1, <1>2, <1>4, <2>1 DEF TurnRows
<1>7. x \in Proper /\ Says(x)  BY <1>1, <1>2, <1>5, <1>6 DEF Proper, Says
<1>8. UseIds(m) = {}  BY <1>1, NoCalls
<1>9. ResultIds(x) = ResultIds(a) \cup ResultIds(m)
  <2>1. \A v : v \in ResultIds(x) <=> v \in ResultIds(a) \/ v \in ResultIds(m)  BY <1>3, <1>5 DEF ResultIds
  <2>2. QED  BY <2>1
<1>10. ASSUME Real(a), Real(m) PROVE Real(x)
  <2>1. \A v : v \in Elements(x.results) <=> v \in Elements(a.results) \/ v \in Elements(m.results)  BY <1>3, <1>5
  <2>2. \A v : v \in Elements(a.results) <=> \E id \in ResultIds(a) : v = Result(id)  BY <1>10 DEF Real
  <2>3. \A v : v \in Elements(m.results) <=> \E id \in ResultIds(m) : v = Result(id)  BY <1>10 DEF Real
  <2>4. \A v : v \in Elements(x.results) <=> v \in {Result(id) : id \in ResultIds(x)}  BY <1>9, <2>1, <2>2, <2>3
  <2>5. QED  BY <2>4 DEF Real
<1>11. QED  BY <1>5, <1>7, <1>8, <1>9, <1>10

\* The message goes behind the others.
LEMMA GatheredNew ==
    ASSUME NEW s \in Seq(Proper), Written(s), NEW k \in 1 .. Len(s), NEW out, Gathered(s, k - 1, out)
    PROVE  Gathered(s, k, Append(out, s[k]))
<1> DEFINE m == s[k]
           t == Append(out, m)
           n == Len(out)
<1>0. /\ out \in Seq(Proper) /\ Once(out) /\ Starts(out) /\ (\A i \in DOMAIN out : Real(out[i]))
      /\ CallsOf(out) = CallsTo(s, k - 1) /\ AnswersOf(out) = AnswersTo(s, k - 1)
      /\ ((\E i \in 1 .. k - 1 : s[i].user) => \E i \in DOMAIN out : out[i].user)
  BY DEF Gathered, Written
<1>1. k \in DOMAIN s /\ k \in Nat /\ k # 0 /\ m \in Proper /\ Real(m)  BY DEF Written
<1>2. /\ t \in Seq(Proper) /\ Len(t) = n + 1 /\ DOMAIN t = 1 .. n + 1 /\ n \in Nat /\ DOMAIN out = 1 .. n
      /\ (\A i \in DOMAIN out : i \in DOMAIN t /\ t[i] = out[i]) /\ t[n + 1] = m /\ n + 1 \in DOMAIN t
      /\ \A i \in DOMAIN t : i \in DOMAIN out \/ i = n + 1
  BY <1>0, <1>1, AppendFacts
<1>3. CallsOf(t) = CallsTo(s, k) /\ Once(t)
  <2>1. OnceIn(m) /\ CallsTo(s, k - 1) \cap UseIds(m) = {} /\ CallsTo(s, k) = CallsTo(s, k - 1) \cup UseIds(m)
    BY OnceNext, CallsToNext DEF Written
  <2>2. QED  BY <1>0, <1>1, <2>1, AppendedTurn
<1> HIDE DEF t, n
<1>4. AnswersOf(t) = AnswersTo(s, k)
  <2>1. \A v : v \in AnswersOf(t) <=> \E i \in DOMAIN t : v \in ResultIds(t[i])  BY DEF AnswersOf
  <2>2. \A v : v \in AnswersOf(out) <=> \E i \in DOMAIN out : v \in ResultIds(out[i])  BY DEF AnswersOf
  <2>3. \A v : v \in AnswersOf(t) <=> v \in AnswersOf(out) \/ v \in ResultIds(m)  BY <1>2, <2>1, <2>2
  <2>4. AnswersTo(s, k) = AnswersTo(s, k - 1) \cup ResultIds(m)  BY AnswersToNext
  <2>5. QED  BY <1>0, <2>3, <2>4
<1>5. Starts(t)
  <2> SUFFICES ASSUME NEW i \in DOMAIN t, t[i].user, NoneBefore(t, i) PROVE Says(t[i]) \/ t[i].images  BY DEF Starts
  <2>1. \A j \in 1 .. i - 1 : j \in DOMAIN out /\ t[j] = out[j]
    <3> SUFFICES ASSUME NEW j \in 1 .. i - 1 PROVE j \in DOMAIN out /\ t[j] = out[j]  OBVIOUS
    <3>1. j \in DOMAIN out  BY <1>2
    <3>2. QED  BY <1>2, <3>1
  <2>2. CASE i \in DOMAIN out
    <3>1. NoneBefore(out, i)  BY <2>1 DEF NoneBefore
    <3>2. QED  BY <1>0, <1>2, <2>2, <3>1 DEF Starts
  <2>3. CASE i = n + 1
    <3>1. \A j \in DOMAIN out : j \in 1 .. i - 1  BY <1>2, <2>3
    <3>2. \A j \in DOMAIN out : ~out[j].user  BY <2>1, <3>1 DEF NoneBefore
    <3>3. NoneBefore(s, k)  BY <1>0, <3>2 DEF NoneBefore
    <3>4. m.user  BY <1>2, <2>3
    <3>5. QED  BY <1>1, <1>2, <2>3, <3>3, <3>4 DEF Written, Starts
  <2>4. QED  BY <1>2, <2>2, <2>3
<1>6. \A i \in DOMAIN t : Real(t[i])  BY <1>0, <1>1, <1>2
<1>7. (\E i \in 1 .. k : s[i].user) => \E i \in DOMAIN t : t[i].user
  <2>1. \A i \in 1 .. k : i \in 1 .. k - 1 \/ i = k  BY <1>1
  <2>2. QED  BY <1>0, <1>2, <2>1
<1>8. t # <<>> /\ t[Len(t)].user = m.user
  <2>1. t = <<>> => Len(t) = 0  OBVIOUS
  <2>2. QED  BY <1>2, <2>1
<1>9. QED  BY <1>2, <1>3, <1>4, <1>5, <1>6, <1>7, <1>8 DEF Gathered, Written, t

\* The message's results go with those before it.
LEMMA GatheredMore ==
    ASSUME NEW s \in Seq(Proper), Written(s), NEW k \in 1 .. Len(s), NEW out, Gathered(s, k - 1, out),
           out # <<>>, Tool(s[k]), Tool(Last(out)), NEW x,
           x = [Last(out) EXCEPT !.results = @ \o s[k].results, !.images = @ \/ s[k].images]
    PROVE  Gathered(s, k, Append(Front(out), x))
<1> DEFINE m == s[k]
           t == Append(Front(out), x)
           n == Len(out)
<1>0. /\ out \in Seq(Proper) /\ Once(out) /\ Starts(out) /\ (\A i \in DOMAIN out : Real(out[i]))
      /\ CallsOf(out) = CallsTo(s, k - 1) /\ AnswersOf(out) = AnswersTo(s, k - 1)
      /\ ((\E i \in 1 .. k - 1 : s[i].user) => \E i \in DOMAIN out : out[i].user)
  BY DEF Gathered, Written
<1>1. k \in DOMAIN s /\ k \in Nat /\ k # 0 /\ m \in Proper /\ Real(m) /\ m.user  BY DEF Written, Tool
<1>2. Front(out) \in Seq(Proper) /\ Last(out) \in Proper /\ Last(out) = out[n] /\ n \in DOMAIN out
      /\ Len(Front(out)) = n - 1 /\ \A i \in 1 .. n - 1 : Front(out)[i] = out[i]
  BY <1>0, FrontLast
<1>3. /\ x \in Proper /\ x.user /\ x.uses = out[n].uses /\ UseIds(m) = {} /\ Says(x) /\ Real(x)
      /\ ResultIds(x) = ResultIds(out[n]) \cup ResultIds(m)
  <2> DEFINE a == Last(out)
  <2>1. a \in Proper /\ Tool(a) /\ Real(a) /\ a = out[n]  BY <1>0, <1>2
  <2>2. x = [a EXCEPT !.results = @ \o m.results, !.images = @ \/ m.images]  OBVIOUS
  <2>3. Tool(m) /\ Real(m) /\ m \in Proper  BY <1>1
  <2> HIDE DEF a, m, n
  <2>4. /\ x \in Proper /\ x.user /\ x.uses = a.uses /\ UseIds(m) = {} /\ Says(x)
        /\ Real(a) /\ Real(m) => Real(x)
        /\ ResultIds(x) = ResultIds(a) \cup ResultIds(m)
    BY <2>1, <2>2, <2>3, JoinedTurn
  <2>5. QED  BY <2>1, <2>3, <2>4
<1>4. n \in Nat /\ n # 0 /\ DOMAIN out = 1 .. n /\ out[n].user
  <2>1. DOMAIN out = 1 .. n /\ n \in Nat  BY <1>0
  <2>2. QED  BY <1>2, <2>1 DEF Tool
<1>5. /\ t \in Seq(Proper) /\ Len(t) = n /\ DOMAIN t = 1 .. n /\ t[n] = x /\ \A i \in 1 .. n - 1 : t[i] = out[i]
  <2> DEFINE f == Front(out)
  <2>1. f \in Seq(Proper) /\ Len(f) = n - 1 /\ \A i \in 1 .. n - 1 : f[i] = out[i]  BY <1>2
  <2> HIDE DEF f, n
  <2>2. /\ Append(f, x) \in Seq(Proper) /\ Len(Append(f, x)) = n - 1 + 1 /\ DOMAIN Append(f, x) = 1 .. n - 1 + 1
        /\ Append(f, x)[n - 1 + 1] = x /\ DOMAIN f = 1 .. n - 1 /\ \A i \in DOMAIN f : Append(f, x)[i] = f[i]
    BY <1>3, <2>1, AppendFacts
  <2>3. n - 1 + 1 = n  BY <1>4
  <2>4. QED  BY <2>1, <2>2, <2>3 DEF f
<1> HIDE DEF t, n
<1>6. \A i \in 1 .. n : i = n \/ i \in 1 .. n - 1  BY <1>4
<1>7. \A i \in 1 .. n : /\ t[i].uses = out[i].uses /\ UseIds(t[i]) = UseIds(out[i]) /\ t[i].user = out[i].user
                        /\ i # n => t[i] = out[i]
  <2>1. UseIds(x) = UseIds(out[n])  BY <1>3 DEF UseIds
  <2>2. QED  BY <1>3, <1>4, <1>5, <1>6, <2>1
<1>8. CallsOf(t) = CallsTo(s, k)
  <2>1. CallsOf(t) = CallsOf(out)
    <3>1. \A v : v \in CallsOf(t) <=> \E i \in 1 .. n : v \in UseIds(t[i])  BY <1>5 DEF CallsOf
    <3>2. \A v : v \in CallsOf(out) <=> \E i \in 1 .. n : v \in UseIds(out[i])  BY <1>4 DEF CallsOf
    <3>3. \A v : v \in CallsOf(t) <=> v \in CallsOf(out)  BY <1>7, <3>1, <3>2
    <3>4. QED  BY <3>3
  <2>2. CallsTo(s, k) = CallsTo(s, k - 1) \cup UseIds(m)  BY CallsToNext
  <2>3. QED  BY <1>0, <1>3, <2>1, <2>2
<1>9. Once(t)  BY <1>0, <1>4, <1>5, <1>7 DEF Once, OnceIn
<1>10. AnswersOf(t) = AnswersTo(s, k)
  <2>1. \A v : v \in AnswersOf(t) <=> \E i \in 1 .. n : v \in ResultIds(t[i])  BY <1>5 DEF AnswersOf
  <2>2. \A v : v \in AnswersOf(out) <=> \E i \in 1 .. n : v \in ResultIds(out[i])  BY <1>4 DEF AnswersOf
  <2>3. n \in 1 .. n /\ \A i \in 1 .. n - 1 : i \in 1 .. n  BY <1>4
  <2>4. \A v : v \in AnswersOf(t) <=> v \in AnswersOf(out) \/ v \in ResultIds(m)
    BY <1>3, <1>5, <1>6, <2>1, <2>2, <2>3
  <2>5. AnswersTo(s, k) = AnswersTo(s, k - 1) \cup ResultIds(m)  BY AnswersToNext
  <2>6. QED  BY <1>0, <2>4, <2>5
<1>11. Starts(t)
  <2> SUFFICES ASSUME NEW i \in 1 .. n, t[i].user, NoneBefore(t, i) PROVE Says(t[i]) \/ t[i].images
    BY <1>5 DEF Starts
  <2>1. CASE i = n  BY <1>3, <1>5, <2>1
  <2>2. CASE i # n
    <3>1. \A j \in 1 .. i - 1 : j \in 1 .. n  BY <1>4
    <3>2. NoneBefore(out, i)  BY <1>7, <3>1 DEF NoneBefore
    <3>3. QED  BY <1>0, <1>4, <1>7, <2>2, <3>2 DEF Starts
  <2>3. QED  BY <2>1, <2>2
<1>12. \A i \in DOMAIN t : Real(t[i])  BY <1>0, <1>3, <1>4, <1>5, <1>6
<1>13. \E i \in DOMAIN t : t[i].user
  <2>1. n \in DOMAIN t /\ t[n].user  BY <1>3, <1>4, <1>5
  <2>2. QED  BY <2>1
<1>14. t # <<>> /\ t[Len(t)].user = m.user
  <2>1. t = <<>> => Len(t) = 0  OBVIOUS
  <2>2. QED  BY <1>1, <1>3, <1>4, <1>5, <2>1
<1>15. QED  BY <1>5, <1>8, <1>9, <1>10, <1>11, <1>12, <1>13, <1>14 DEF Gathered, Written, t

\* Joined does one or the other.
LEMMA GatheredNext ==
    ASSUME NEW s \in Seq(Proper), Written(s), NEW k \in 1 .. Len(s), NEW out, Gathered(s, k - 1, out)
    PROVE  Gathered(s, k, Joined(out, s[k]))
<1>1. CASE out # <<>> /\ Tool(s[k]) /\ Tool(Last(out))
  <2> DEFINE x == [Last(out) EXCEPT !.results = @ \o s[k].results, !.images = @ \/ s[k].images]
  <2>1. Joined(out, s[k]) = Append(Front(out), x)  BY <1>1 DEF Joined
  <2>2. PICK y : y = x  OBVIOUS
  <2> HIDE DEF x
  <2>3. y = [Last(out) EXCEPT !.results = @ \o s[k].results, !.images = @ \/ s[k].images]  BY <2>2 DEF x
  <2>4. Gathered(s, k, Append(Front(out), y))  BY <1>1, <2>3, GatheredMore
  <2>5. QED  BY <2>1, <2>2, <2>4
<1>2. CASE ~(out # <<>> /\ Tool(s[k]) /\ Tool(Last(out)))
  <2>1. Joined(out, s[k]) = Append(out, s[k])  BY <1>2 DEF Joined
  <2>2. QED  BY <2>1, GatheredNew
<1>3. QED  BY <1>1, <1>2

\* What is joined is made of proper turns.
LEMMA JoinedProper == ASSUME NEW a \in Seq(Proper), NEW m \in Proper PROVE Joined(a, m) \in Seq(Proper)
<1>1. CASE a # <<>> /\ Tool(m) /\ Tool(Last(a))
  <2> DEFINE l == Last(a)
             x == [l EXCEPT !.results = @ \o m.results, !.images = @ \/ m.images]
  <2>1. Front(a) \in Seq(Proper) /\ l \in Proper /\ Tool(l)  BY <1>1, FrontLast
  <2>2. Joined(a, m) = Append(Front(a), x)  BY <1>1 DEF Joined
  <2>3. PICK y : y = x  OBVIOUS
  <2> HIDE DEF l
  <2>4. y = [l EXCEPT !.results = @ \o m.results, !.images = @ \/ m.images]  BY <2>3
  <2> HIDE DEF x
  <2>5. y \in Proper  BY <1>1, <2>1, <2>4, JoinedTurn
  <2>6. QED  BY <2>1, <2>2, <2>3, <2>5
<1>2. CASE ~(a # <<>> /\ Tool(m) /\ Tool(Last(a)))
  <2>1. Joined(a, m) = Append(a, m)  BY <1>2 DEF Joined
  <2>2. QED  BY <2>1
<1>3. QED  BY <1>1, <1>2

\* ToolRuns goes through the messages one by one.
LEMMA JoinsUnfold ==
    ASSUME NEW s \in Seq(Proper)
    PROVE  \E f : /\ f[0] = <<>> /\ \A k \in 1 .. Len(s) : f[k] = Joined(f[k - 1], s[k])
                  /\ Fold(Joined, <<>>, s) = f[Len(s)]
<1> DEFINE P(f) == f = [k \in 0 .. Len(s) |-> IF k = 0 THEN <<>> ELSE Joined(f[k - 1], s[k])]
           G == [p \in Seq(Proper) \X (1 .. Len(s)) |-> Joined(p[1], s[p[2]])]
           h == CHOOSE f : P(f)
<1>1. \A a \in Seq(Proper), k \in 1 .. Len(s) : Joined(a, s[k]) \in Seq(Proper)  BY JoinedProper
<1>2. \A a \in Seq(Proper), k \in 1 .. Len(s) : G[<<a, k>>] = Joined(a, s[k])  OBVIOUS
<1>3. PICK f \in [0 .. Len(s) -> Seq(Proper)] : Runs(f, <<>>, Len(s), G)
  <2> HIDE DEF G
  <2>1. <<>> \in Seq(Proper) /\ Len(s) \in Nat  OBVIOUS
  <2>2. \A k \in 1 .. Len(s) : \A a \in Seq(Proper) : G[<<a, k>>] \in Seq(Proper)  BY <1>1, <1>2
  <2>3. QED  BY <2>1, <2>2, FoldRuns
<1>4. P(f)
  <2>1. \A k \in 0 .. Len(s) : f[k] = IF k = 0 THEN <<>> ELSE Joined(f[k - 1], s[k])
    <3>1. ASSUME NEW k \in 0 .. Len(s), k # 0 PROVE G[<<f[k - 1], k>>] = Joined(f[k - 1], s[k])
      <4>1. k - 1 \in 0 .. Len(s) /\ k \in 1 .. Len(s)  BY <3>1
      <4> HIDE DEF G
      <4>2. QED  BY <1>2, <4>1
    <3> HIDE DEF G
    <3>2. QED  BY <1>3, <3>1 DEF Runs
  <2>2. f = [k \in 0 .. Len(s) |-> f[k]]  BY <1>3
  <2>3. QED  BY <2>1, <2>2
<1>5. P(h)  BY <1>4
<1>6. Fold(Joined, <<>>, s) = h[Len(s)]  BY DEF Fold
<1> HIDE DEF h
<1>7. QED  BY <1>5, <1>6

\* Nothing is lost by gathering.
LEMMA GatheredAll ==
    ASSUME NEW s, Written(s)
    PROVE  Gathered(s, Len(s), Fold(Joined, <<>>, s))
<1> DEFINE n == Len(s)
<1>0. s \in Seq(Proper) /\ n \in Nat  BY DEF Written
<1>1. PICK f : /\ f[0] = <<>> /\ \A k \in 1 .. n : f[k] = Joined(f[k - 1], s[k])
               /\ Fold(Joined, <<>>, s) = f[n]
  BY <1>0, JoinsUnfold
<1> DEFINE U == {k \in 0 .. n : Gathered(s, k, f[k])}
<1>2. 0 \in U
  <2> DEFINE e == <<>>
  <2>1. CallsTo(s, 0) = {} /\ AnswersTo(s, 0) = {}  BY <1>0, CallsToAll, AnswersToAll
  <2>2. e \in Seq(Proper) /\ DOMAIN e = {} /\ \A i \in 1 .. 0 : FALSE  OBVIOUS
  <2>3. f[0] = e  BY <1>1
  <2> HIDE DEF e
  <2>4. CallsOf(e) = {} /\ AnswersOf(e) = {}  BY <2>2 DEF CallsOf, AnswersOf
  <2>5. Written(e)  BY <2>2 DEF Written, Once, Starts
  <2>6. Gathered(s, 0, e)  BY <2>1, <2>2, <2>4, <2>5 DEF Gathered
  <2>7. 0 \in 0 .. n  BY <1>0
  <2>8. QED  BY <2>3, <2>6, <2>7
<1>3. ASSUME NEW k \in 1 .. n, k - 1 \in U PROVE k \in U
  <2>1. Gathered(s, k - 1, f[k - 1]) /\ f[k] = Joined(f[k - 1], s[k])  BY <1>1, <1>3
  <2>2. Gathered(s, k, f[k])  BY <1>0, <2>1, GatheredNext
  <2>3. k \in 0 .. n  BY <1>0
  <2>4. QED  BY <2>2, <2>3
<1>4. U \in SUBSET (0 .. n)  OBVIOUS
<1> HIDE DEF U
<1>5. U = 0 .. n  BY <1>0, <1>2, <1>3, <1>4, UpFromZero
<1>6. n \in U  BY <1>0, <1>5
<1>7. QED  BY <1>1, <1>6 DEF U

\* The turns of a request with tool messages.
Turned(s, t) ==
    /\ t \in Seq(Showing) /\ t # <<>> /\ Once(t) /\ CallsOf(t) = CallsOf(s) /\ AnswersOf(t) = AnswersOf(s)
    /\ \A i \in DOMAIN t : Real(t[i])
    /\ \A i \in DOMAIN t : t[i].user /\ NoneBefore(t, i) => Says(t[i])
    /\ t[Len(t)].user = s[Len(s)].user

\* ToolRuns loses no call and no result, and the first user turn says something.
LEMMA ToolRunTurns ==
    ASSUME NEW s, Written(s), s # <<>>
    PROVE  Turned(s, ToolRuns(s))
<1> DEFINE o == Fold(Joined, <<>>, s)
           n == Len(o)
           t == ToolRuns(s)
<1>0. s \in Seq(Proper) /\ Len(s) \in Nat /\ Len(s) # 0  BY DEF Written
<1>1. /\ Written(o) /\ CallsOf(o) = CallsOf(s) /\ AnswersOf(o) = AnswersOf(s) /\ o # <<>>
      /\ o[Len(o)].user = s[Len(s)].user
  <2>1. Gathered(s, Len(s), o)  BY GatheredAll
  <2> HIDE DEF o
  <2>2. QED  BY <1>0, <2>1, CallsToAll, AnswersToAll DEF Gathered
<1>2. t = [i \in DOMAIN o |-> IF Tool(o[i]) THEN o[i] ELSE Normalized(o[i])]  BY DEF ToolRuns, MapSeq
<1> HIDE DEF o, t
<1>3. /\ o \in Seq(Proper) /\ Once(o) /\ Starts(o) /\ (\A i \in DOMAIN o : Real(o[i])) /\ DOMAIN o = 1 .. n /\ n \in Nat
      /\ n # 0
  BY <1>1 DEF Written
<1>4. ASSUME NEW i \in DOMAIN o
      PROVE  t[i] \in Showing /\ Alike(t[i], o[i]) /\ (Says(o[i]) \/ o[i].images => Says(t[i]))
  <2>1. o[i] \in Proper  BY <1>3
  <2>2. CASE Tool(o[i])
    <3>1. t[i] = o[i] /\ Says(o[i])  BY <1>2, <2>2 DEF Tool, Says
    <3>2. QED  BY <2>1, <3>1 DEF Showing, Alike
  <2>3. CASE ~Tool(o[i])
    <3>1. t[i] = Normalized(o[i])  BY <1>2, <2>3
    <3>2. QED  BY <2>1, <3>1, NormalizedTurn
  <2>4. QED  BY <2>2, <2>3
<1>5. t \in Seq(Showing) /\ DOMAIN t = 1 .. n /\ Len(t) = n /\ t # <<>>
  <2>1. DOMAIN t = 1 .. n  BY <1>2, <1>3
  <2>2. t = [i \in 1 .. n |-> t[i]]  BY <1>2, <1>3
  <2> HIDE DEF n
  <2>3. t \in Seq(Showing) /\ Len(t) = n  BY <1>3, <1>4, <2>1, <2>2
  <2>4. QED  BY <1>3, <2>1, <2>3
<1> HIDE DEF n
<1>6. \A i \in 1 .. n : /\ t[i].uses = o[i].uses /\ UseIds(t[i]) = UseIds(o[i]) /\ t[i].user = o[i].user
                        /\ ResultIds(t[i]) = ResultIds(o[i]) /\ t[i].results = o[i].results
  BY <1>3, <1>4 DEF Alike, UseIds, ResultIds
<1>7. CallsOf(t) = CallsOf(o)
  <2>1. \A v : v \in CallsOf(t) <=> \E i \in 1 .. n : v \in UseIds(t[i])  BY <1>5 DEF CallsOf
  <2>2. \A v : v \in CallsOf(o) <=> \E i \in 1 .. n : v \in UseIds(o[i])  BY <1>3 DEF CallsOf
  <2>3. \A v : v \in CallsOf(t) <=> v \in CallsOf(o)  BY <1>6, <2>1, <2>2
  <2>4. QED  BY <2>3
<1>8. AnswersOf(t) = AnswersOf(o)
  <2>1. \A v : v \in AnswersOf(t) <=> \E i \in 1 .. n : v \in ResultIds(t[i])  BY <1>5 DEF AnswersOf
  <2>2. \A v : v \in AnswersOf(o) <=> \E i \in 1 .. n : v \in ResultIds(o[i])  BY <1>3 DEF AnswersOf
  <2>3. \A v : v \in AnswersOf(t) <=> v \in AnswersOf(o)  BY <1>6, <2>1, <2>2
  <2>4. QED  BY <2>3
<1>9. Once(t)  BY <1>3, <1>5, <1>6 DEF Once, OnceIn
<1>10. \A i \in DOMAIN t : Real(t[i])  BY <1>3, <1>5, <1>6 DEF Real
<1>11. ASSUME NEW i \in 1 .. n, t[i].user, NoneBefore(t, i) PROVE Says(t[i])
  <2>1. \A j \in 1 .. i - 1 : j \in 1 .. n  BY <1>3
  <2>2. NoneBefore(o, i)  BY <1>6, <1>11, <2>1 DEF NoneBefore
  <2>3. QED  BY <1>3, <1>4, <1>6, <1>11, <2>2 DEF Starts
<1>12. t[Len(t)].user = s[Len(s)].user
  <2>1. n \in 1 .. n /\ Len(o) = n  BY <1>3 DEF n
  <2>2. QED  BY <1>1, <1>5, <1>6, <2>1
<1>13. QED  BY <1>1, <1>5, <1>7, <1>8, <1>9, <1>10, <1>11, <1>12 DEF Turned, t

\* A request's turns are all of them.
LEMMA OpenAITurns ==
    ASSUME NEW s, Written(s), s # <<>>, s[Len(s)].user, primed \in BOOLEAN
    PROVE  LET c == OpenAIToKiro(s)
               t == ToolRuns(s)
           IN  /\ c.history \in Seq(Proper) /\ c.current \in Proper /\ Speaking(Merged(c))
               /\ PartOf(t, Merged(c), DOMAIN t)
<1> DEFINE t == ToolRuns(s)
           n == Len(t)
           F == Front(t)
           P == Priming
           c == Spoken(Last(t))
           q == OpenAIToKiro(s)
<1>1. Turned(s, t)  BY ToolRunTurns
<1>2. q.history = P \o F /\ q.current = c  BY DEF OpenAIToKiro
<1> HIDE DEF t
<1>3. /\ t \in Seq(Showing) /\ t # <<>> /\ t[n].user /\ \A i \in DOMAIN t : t[i].user /\ NoneBefore(t, i) => Says(t[i])
  BY <1>1 DEF Turned
<1>4. t \in Seq(Proper) /\ n \in Nat /\ n # 0 /\ DOMAIN t = 1 .. n  BY <1>3 DEF Showing
<1>5. /\ F \in Seq(Showing) /\ F \in Seq(Proper) /\ Last(t) \in Proper /\ Last(t) = t[n] /\ Len(F) = n - 1
      /\ (\A i \in 1 .. n - 1 : F[i] = t[i])
  BY <1>3, <1>4, FrontLast
<1>6. c \in Showing /\ c \in Proper /\ Says(c) /\ Alike(c, t[n]) /\ c.user
  <2>1. c \in Showing /\ Says(c) /\ Alike(c, t[n])  BY <1>5, SpokenTurn
  <2>2. QED  BY <1>3, <2>1 DEF Showing, Alike
<1>7. P \in Seq(Showing) /\ P \in Seq(Proper) /\ (\A a \in DOMAIN P : P[a].uses = <<>> /\ P[a].results = <<>>)
      /\ (P # <<>> => P[1].user /\ Says(P[1]))
  BY PrimingTurns DEF Showing
<1> HIDE DEF F, c, P, n, q
<1>8. DOMAIN F = 1 .. n - 1 /\ n - 1 \in Nat  BY <1>4, <1>5
<1> DEFINE e == <<c>>
<1>9. e \in Seq(Showing) /\ e \in Seq(Proper) /\ Len(e) = 1 /\ DOMAIN e = {1} /\ e[1] = c  BY <1>6
<1> HIDE DEF e
<1>10. PartOf(t, F, 1 .. n - 1)
  <2>1. Behinds(t, F, 0)
    <3>1. ASSUME NEW i \in DOMAIN F PROVE 0 + i \in DOMAIN t /\ Alike(F[i], t[0 + i])
      <4>1. 0 + i = i /\ i \in DOMAIN t /\ F[i] = t[i]  BY <1>4, <1>5, <1>8
      <4>2. QED  BY <4>1 DEF Alike
    <3>2. QED  BY <3>1 DEF Behinds
  <2>2. PartOf(t, F, 0 + 1 .. 0 + Len(F))  BY <1>4, <1>5, <2>1, PartWhole
  <2>3. 0 + 1 .. 0 + Len(F) = 1 .. n - 1  BY <1>5, <1>8
  <2>4. QED  BY <2>2, <2>3
<1>11. PartOf(t, e, {n})
  <2>1. Behinds(t, e, n - 1)
    <3>1. ASSUME NEW i \in DOMAIN e PROVE n - 1 + i \in DOMAIN t /\ Alike(e[i], t[n - 1 + i])
      <4>1. i = 1 /\ n - 1 + i = n /\ n \in DOMAIN t  BY <1>4, <1>9
      <4>2. QED  BY <1>6, <1>9, <4>1
    <3>2. QED  BY <1>8, <3>1 DEF Behinds
  <2>2. PartOf(t, e, n - 1 + 1 .. n - 1 + Len(e))  BY <1>4, <1>9, <2>1, PartWhole
  <2>3. n - 1 + 1 .. n - 1 + Len(e) = {n}  BY <1>4, <1>9
  <2>4. QED  BY <2>2, <2>3
<1> DEFINE X == 1 .. n - 1
           v == (P \o F) \o e
<1>12. PartOf(t, v, DOMAIN t)
  <2>1. PartOf(t, P, {})  BY <1>4, <1>7, PartNone
  <2>2. \A i \in {} \cup X, j \in {n} : i < j  BY <1>4
  <2>3. ({} \cup X) \cup {n} = DOMAIN t  BY <1>4
  <2>4. PartOf(t, F, X)  BY <1>10
  <2> HIDE DEF X
  <2>5. PartOf(t, P \o F, {} \cup X)  BY <1>4, <1>5, <1>7, <2>1, <2>4, PartJoin
  <2>6. P \o F \in Seq(Proper)  BY <1>5, <1>7
  <2>7. PartOf(t, v, ({} \cup X) \cup {n})  BY <1>4, <1>9, <1>11, <2>2, <2>5, <2>6, PartJoin
  <2>8. QED  BY <2>3, <2>7
<1>13. Merged(q) = v
  <2>1. Merged(q) = Append(P \o F, c)  BY <1>2 DEF Merged
  <2>2. P \o F \in Seq(Proper)  BY <1>5, <1>7
  <2> DEFINE z == P \o F
  <2> HIDE DEF z
  <2>3. Append(z, c) = z \o <<c>>  BY <1>6, <2>2 DEF z
  <2>4. QED  BY <2>1, <2>3 DEF z, e
<1>14. Speaking(v)
  <2>1. CASE P # <<>>
    <3>1. 1 \in 1 .. Len(P) /\ 1 \in 1 .. Len(P \o F) /\ P \o F \in Seq(Showing)
      <4>1. Len(P) \in Nat /\ Len(P) # 0  BY <1>7, <2>1
      <4>2. Len(P \o F) = Len(P) + Len(F) /\ P \o F \in Seq(Showing) /\ Len(F) \in Nat  BY <1>5, <1>7, JoinedSeq
      <4>3. QED  BY <4>1, <4>2
    <3>2. (P \o F)[1] = P[1]  BY <1>5, <1>7, <3>1, JoinedSeq
    <3>3. v[1] = (P \o F)[1] /\ v \in Seq(Showing) /\ Len(v) = Len(P \o F) + Len(e) /\ Len(P \o F) \in Nat
      <4> DEFINE z == P \o F
      <4>1. z \in Seq(Showing) /\ 1 \in 1 .. Len(z)  BY <3>1
      <4> HIDE DEF z
      <4>2. z \o e \in Seq(Showing) /\ Len(z \o e) = Len(z) + Len(e) /\ Len(z) \in Nat  BY <1>9, <4>1, JoinedSeq
      <4>3. (z \o e)[1] = z[1]  BY <1>9, <4>1, JoinedSeq
      <4>4. QED  BY <4>2, <4>3 DEF z
    <3>4. v # <<>>
      <4>1. Len(v) # 0  BY <1>9, <3>3
      <4>2. v = <<>> => Len(v) = 0  OBVIOUS
      <4>3. QED  BY <4>1, <4>2
    <3> HIDE DEF v
    <3>5. v[1].user /\ Says(v[1])  BY <1>7, <2>1, <3>2, <3>3
    <3>6. QED  BY <3>3, <3>4, <3>5, SpeakingFirst
  <2>2. CASE P = <<>>
    <3>1. P \o F = F  BY <1>5, <2>2
    <3>2. v = F \o e  BY <3>1
    <3>3. /\ v \in Seq(Showing) /\ DOMAIN v = 1 .. n /\ (\A i \in 1 .. n - 1 : v[i] = F[i]) /\ v[n] = c
      <4>0. F \in Seq(Showing) /\ e \in Seq(Showing)  BY <1>5, <1>9
      <4> HIDE DEF v, X
      <4>5. F \o e \in Seq(Showing) /\ DOMAIN (F \o e) = 1 .. Len(F) + Len(e)  BY <4>0, JoinedSeq
      <4>6. \A i \in 1 .. Len(F) : (F \o e)[i] = F[i]  BY <4>0, JoinedSeq
      <4>7. \A a \in Len(F) + 1 .. Len(F) + Len(e) : (F \o e)[a] = e[a - Len(F)]  BY <4>0, JoinedSeq
      <4> DEFINE w == F \o e
      <4> HIDE DEF w
      <4>2. n - 1 + 1 = n /\ n \in n - 1 + 1 .. n - 1 + 1 /\ n - (n - 1) = 1  BY <1>4
      <4>3. w \in Seq(Showing) /\ DOMAIN w = 1 .. n /\ (\A i \in 1 .. n - 1 : w[i] = F[i]) /\ w[n] = e[1]
        BY <1>5, <1>9, <4>5, <4>6, <4>7, <4>2 DEF w
      <4>4. QED  BY <1>9, <3>2, <4>3 DEF w
    <3> HIDE DEF v
    <3>4. \A i \in 1 .. n : v[i].user = t[i].user /\ (i # n => v[i] = t[i])
      <4>1. \A i \in 1 .. n : i = n \/ i \in 1 .. n - 1  BY <1>4
      <4>2. v[n].user = t[n].user  BY <1>6, <3>3 DEF Alike
      <4>3. \A i \in 1 .. n - 1 : v[i] = t[i]  BY <1>5, <3>3
      <4>4. QED  BY <4>1, <4>2, <4>3
    <3> SUFFICES ASSUME NEW i \in DOMAIN v, v[i].user, v[i].images \/ NoneBefore(v, i) PROVE Says(v[i])  BY DEF Speaking
    <3>5. v[i] \in Showing /\ i \in 1 .. n
      <4>1. v \in Seq(Showing)  BY <3>3
      <4>2. v[i] \in Showing  BY <4>1
      <4>3. i \in 1 .. n  BY <3>3
      <4>4. QED  BY <4>2, <4>3
    <3>6. CASE v[i].images  BY <3>5, <3>6 DEF Showing
    <3>7. CASE i = n  BY <1>6, <3>3, <3>7
    <3>8. CASE NoneBefore(v, i) /\ i # n
      <4>1. \A j \in 1 .. i - 1 : j \in 1 .. n  BY <1>4, <3>5
      <4>2. NoneBefore(t, i)  BY <3>4, <3>8, <4>1 DEF NoneBefore
      <4>3. QED  BY <1>3, <1>4, <3>4, <3>5, <3>8, <4>2
    <3>9. QED  BY <3>6, <3>7, <3>8
  <2>3. QED  BY <2>1, <2>2
<1>15. q.history \in Seq(Proper) /\ q.current \in Proper  BY <1>2, <1>5, <1>6, <1>7
<1>16. QED  BY <1>12, <1>13, <1>14, <1>15 DEF q, t

(*****************************************************************************)
(* What the client sent                                                      *)
(*****************************************************************************)
\* The calls of a request that reach the upstream, and its turns.
SentBy(a, s) == UNION {UseIds(s[i]) : i \in {j \in DOMAIN s : a = "openai" \/ \E k \in 1 .. j : s[k].user}}
TurnsOf(a, s) == IF a = "claude" THEN s ELSE ToolRuns(s)
\* A results turn for exactly one turn's calls.
WholePair(w, sent, i, j) ==
    /\ i < j /\ w[i].uses # <<>> /\ UseIds(w[i]) \subseteq sent
    /\ w[j].results # <<>> /\ UseIds(w[i]) = ResultIds(w[j])
    /\ \A k \in DOMAIN w \ {j} : ResultIds(w[k]) \cap ResultIds(w[j]) = {}
\* What the conversion keeps of it, and what the repair keeps.
Conveyed(a, s, t) ==
    /\ SentBy(a, s) = CallsOf(t)
    /\ \A i \in DOMAIN s : \A id \in ResultIds(s[i]) : Heard(t, id)
    /\ \A i, j \in DOMAIN TurnsOf(a, s) :
          WholePair(TurnsOf(a, s), SentBy(a, s), i, j)
          => \E r : Partners(t, r) /\ Real(r) /\ ResultIds(r) = UseIds(TurnsOf(a, s)[i])
Retained(a, s, t) ==
    /\ SentBy(a, s) = CallsOf(t)
    /\ \A i \in DOMAIN s : \A id \in ResultIds(s[i]) : Heard(t, id)
    /\ \A i, j \in DOMAIN TurnsOf(a, s) :
          WholePair(TurnsOf(a, s), SentBy(a, s), i, j)
          => \E m \in Elements(t) : m.user /\ {Result(id) : id \in UseIds(TurnsOf(a, s)[i])} = Elements(m.results)

\* One more message of the client's.
LEMMA WrittenNext ==
    ASSUME NEW s, Written(s), NEW m \in Proper, Real(m), OnceIn(m), CallsOf(s) \cap UseIds(m) = {},
           m.user /\ (\A i \in DOMAIN s : ~s[i].user) => Says(m) \/ m.images
    PROVE  /\ Written(Append(s, m)) /\ CallsOf(Append(s, m)) = CallsOf(s) \cup UseIds(m)
           /\ AnswersOf(Append(s, m)) = AnswersOf(s) \cup ResultIds(m)
<1> DEFINE t == Append(s, m)
           n == Len(s)
<1>0. s \in Seq(Proper) /\ Once(s) /\ Starts(s) /\ \A i \in DOMAIN s : Real(s[i])  BY DEF Written
<1>1. /\ t \in Seq(Proper) /\ Len(t) = n + 1 /\ DOMAIN t = 1 .. n + 1 /\ n \in Nat /\ DOMAIN s = 1 .. n
      /\ (\A i \in DOMAIN s : i \in DOMAIN t /\ t[i] = s[i]) /\ t[n + 1] = m /\ n + 1 \in DOMAIN t
      /\ \A i \in DOMAIN t : i \in DOMAIN s \/ i = n + 1
  BY <1>0, AppendFacts
<1>2. CallsOf(t) = CallsOf(s) \cup UseIds(m) /\ Once(t)  BY <1>0, AppendedTurn
<1> HIDE DEF t, n
<1>3. AnswersOf(t) = AnswersOf(s) \cup ResultIds(m)
  <2>1. \A v : v \in AnswersOf(t) <=> \E i \in DOMAIN t : v \in ResultIds(t[i])  BY DEF AnswersOf
  <2>2. \A v : v \in AnswersOf(s) <=> \E i \in DOMAIN s : v \in ResultIds(s[i])  BY DEF AnswersOf
  <2>3. \A v : v \in AnswersOf(t) <=> v \in AnswersOf(s) \/ v \in ResultIds(m)  BY <1>1, <2>1, <2>2
  <2>4. QED  BY <2>3
<1>4. Starts(t)
  <2> SUFFICES ASSUME NEW i \in DOMAIN t, t[i].user, NoneBefore(t, i) PROVE Says(t[i]) \/ t[i].images  BY DEF Starts
  <2>1. \A j \in 1 .. i - 1 : j \in DOMAIN s /\ t[j] = s[j]
    <3> SUFFICES ASSUME NEW j \in 1 .. i - 1 PROVE j \in DOMAIN s /\ t[j] = s[j]  OBVIOUS
    <3>1. j \in DOMAIN s  BY <1>1
    <3>2. QED  BY <1>1, <3>1
  <2>2. CASE i \in DOMAIN s
    <3>1. NoneBefore(s, i)  BY <2>1 DEF NoneBefore
    <3>2. QED  BY <1>0, <1>1, <2>2, <3>1 DEF Starts
  <2>3. CASE i = n + 1
    <3>1. \A j \in DOMAIN s : j \in 1 .. i - 1  BY <1>1, <2>3
    <3>2. \A j \in DOMAIN s : ~s[j].user  BY <2>1, <3>1 DEF NoneBefore
    <3>3. QED  BY <1>1, <2>3, <3>2
  <2>4. QED  BY <1>1, <2>2, <2>3
<1>5. \A i \in DOMAIN t : Real(t[i])  BY <1>0, <1>1
<1>6. QED  BY <1>1, <1>2, <1>3, <1>4, <1>5 DEF Written, t

\* ClaudeToKiro keeps every call, result and whole pair behind the first user message,
LEMMA ClaudeConveys ==
    ASSUME NEW s, Written(s), s # <<>>, Last(s).user, primed \in BOOLEAN
    PROVE  LET t == Merged(ClaudeToKiro(s))
           IN  Once(t) /\ CallsOf(t) \subseteq CallsOf(s) /\ AnswersOf(t) \subseteq AnswersOf(s) /\ Conveyed("claude", s, t)
<1> DEFINE t == Merged(ClaudeToKiro(s))
           R == {j \in DOMAIN s : \E k \in 1 .. j : s[k].user}
           a == "claude"
<1>0. s \in Seq(Proper) /\ Once(s) /\ (\A i \in DOMAIN s : Real(s[i]))  BY DEF Written
<1>1. PartOf(s, t, R) /\ t \in Seq(Proper)  BY ClaudeTurns, MergedTurns
<1> HIDE DEF t
<1>2. SentBy(a, s) = UNION {UseIds(s[j]) : j \in R} /\ TurnsOf(a, s) = s  BY DEF SentBy, TurnsOf
<1>3. \A j \in DOMAIN s : j \in R <=> \E k \in 1 .. j : s[k].user  OBVIOUS
<1> HIDE DEF R, a
<1>4. /\ Once(t) /\ CallsOf(t) = UNION {UseIds(s[j]) : j \in R} /\ CallsOf(t) \subseteq CallsOf(s)
      /\ AnswersOf(t) \subseteq AnswersOf(s)
      /\ \A j \in R : s[j].user => \A id : Result(id) \in Elements(s[j].results) => Heard(t, id)
  BY <1>0, <1>1, PartFacts
<1>5. \A i, j \in R : Mated(s, i, j) => \E r : Partners(t, r) /\ r.results = s[j].results  BY <1>0, <1>1, PartFacts
<1>6. ASSUME NEW i \in DOMAIN s, NEW id \in ResultIds(s[i]) PROVE Heard(t, id)
  <2>1. s[i] \in Proper /\ i \in 1 .. i /\ s[i].results # <<>>
    <3>1. s[i] \in Proper /\ i \in 1 .. i  BY <1>0
    <3>2. QED  BY <1>6, <3>1, NoCalls
  <2>2. s[i].user  BY <2>1 DEF Proper
  <2>3. i \in R  BY <1>3, <2>1, <2>2
  <2>4. Result(id) \in Elements(s[i].results)  BY <1>0, <1>6 DEF Real
  <2>5. QED  BY <1>4, <2>2, <2>3, <2>4
<1>7. ASSUME NEW i \in DOMAIN s, NEW j \in DOMAIN s, WholePair(s, SentBy(a, s), i, j)
      PROVE  \E r : Partners(t, r) /\ Real(r) /\ ResultIds(r) = UseIds(s[i])
  <2>1. /\ i < j /\ UseIds(s[i]) \subseteq SentBy(a, s) /\ UseIds(s[i]) = ResultIds(s[j]) /\ s[i].uses # <<>>
        /\ s[j].results # <<>> /\ \A k \in DOMAIN s \ {j} : ResultIds(s[k]) \cap ResultIds(s[j]) = {}
    BY <1>7 DEF WholePair
  <2>2. UseIds(s[i]) # {}  BY <1>0, <2>1, NoCalls
  <2>3. i \in R
    <3>1. PICK u : u \in UseIds(s[i])  BY <2>2
    <3>2. u \in UNION {UseIds(s[k]) : k \in R}  BY <1>2, <2>1, <3>1
    <3>3. PICK k \in R : u \in UseIds(s[k])  BY <3>2
    <3>4. k \in DOMAIN s  BY <1>1 DEF PartOf
    <3>5. k = i  BY <1>0, <3>1, <3>3, <3>4 DEF Once
    <3>6. QED  BY <3>5
  <2>4. j \in R
    <3>1. PICK k \in 1 .. i : s[k].user  BY <1>3, <2>3
    <3>2. k \in 1 .. j  BY <1>0, <2>1
    <3>3. QED  BY <1>3, <3>1, <3>2
  <2>5. Mated(s, i, j)  BY <2>1, <2>2 DEF Mated
  <2>6. PICK r : Partners(t, r) /\ r.results = s[j].results  BY <1>5, <2>3, <2>4, <2>5
  <2>7. ResultIds(r) = ResultIds(s[j]) /\ Real(r)  BY <1>0, <2>6 DEF ResultIds, Real
  <2>8. QED  BY <2>1, <2>6, <2>7
<1>8. Conveyed(a, s, t)  BY <1>2, <1>4, <1>6, <1>7 DEF Conveyed
<1>9. QED  BY <1>4, <1>8 DEF a, t

\* and OpenAIToKiro every one.
LEMMA OpenAIConveys ==
    ASSUME NEW s, Written(s), s # <<>>, Last(s).user, primed \in BOOLEAN
    PROVE  LET t == Merged(OpenAIToKiro(s))
           IN  Once(t) /\ CallsOf(t) \subseteq CallsOf(s) /\ AnswersOf(t) \subseteq AnswersOf(s) /\ Conveyed("openai", s, t)
<1> DEFINE t == Merged(OpenAIToKiro(s))
           w == ToolRuns(s)
           R == DOMAIN w
           a == "openai"
<1>0. s \in Seq(Proper) /\ Last(s) = s[Len(s)]  BY DEF Written, Last
<1>1. PartOf(w, t, R) /\ t \in Seq(Proper)  BY <1>0, OpenAITurns, MergedTurns
<1>2. Turned(s, w)  BY ToolRunTurns
<1> HIDE DEF t
<1>3. SentBy(a, s) = CallsOf(s) /\ TurnsOf(a, s) = w
  <2>1. a = "openai" /\ a # "claude"  OBVIOUS
  <2>2. \A v : v \in SentBy(a, s) <=> \E i \in DOMAIN s : v \in UseIds(s[i])  BY <2>1 DEF SentBy
  <2>3. \A v : v \in CallsOf(s) <=> \E i \in DOMAIN s : v \in UseIds(s[i])  BY DEF CallsOf
  <2>4. TurnsOf(a, s) = w  BY <2>1 DEF TurnsOf
  <2> HIDE DEF a, w
  <2>5. QED  BY <2>2, <2>3, <2>4
<1> HIDE DEF w, a
<1>4. /\ w \in Seq(Proper) /\ Once(w) /\ CallsOf(w) = CallsOf(s) /\ AnswersOf(w) = AnswersOf(s)
      /\ \A i \in DOMAIN w : Real(w[i])
  BY <1>2 DEF Turned, Showing
<1>5. /\ Once(t) /\ CallsOf(t) = UNION {UseIds(w[j]) : j \in R} /\ AnswersOf(t) \subseteq AnswersOf(w)
      /\ \A j \in R : w[j].user => \A id : Result(id) \in Elements(w[j].results) => Heard(t, id)
  BY <1>1, <1>4, PartFacts
<1>6. \A i, j \in R : Mated(w, i, j) => \E r : Partners(t, r) /\ r.results = w[j].results  BY <1>1, <1>4, PartFacts
<1>7. CallsOf(t) = CallsOf(s)  BY <1>4, <1>5 DEF CallsOf
<1>8. ASSUME NEW i \in DOMAIN s, NEW id \in ResultIds(s[i]) PROVE Heard(t, id)
  <2>1. id \in AnswersOf(w)  BY <1>4, <1>8 DEF AnswersOf
  <2>2. PICK j \in DOMAIN w : id \in ResultIds(w[j])  BY <2>1 DEF AnswersOf
  <2>3. w[j] \in Proper  BY <1>4
  <2>4. w[j].user  BY <2>2, <2>3, NoCalls DEF Proper
  <2>5. Result(id) \in Elements(w[j].results)  BY <1>4, <2>2 DEF Real
  <2>6. QED  BY <1>5, <2>4, <2>5
<1>9. ASSUME NEW i \in DOMAIN w, NEW j \in DOMAIN w, WholePair(w, SentBy(a, s), i, j)
      PROVE  \E r : Partners(t, r) /\ Real(r) /\ ResultIds(r) = UseIds(w[i])
  <2>1. /\ i < j /\ UseIds(w[i]) = ResultIds(w[j]) /\ w[i].uses # <<>>
        /\ \A k \in DOMAIN w \ {j} : ResultIds(w[k]) \cap ResultIds(w[j]) = {}
    BY <1>9 DEF WholePair
  <2>2. UseIds(w[i]) # {}  BY <1>4, <2>1, NoCalls
  <2>3. Mated(w, i, j)  BY <2>1, <2>2 DEF Mated
  <2>4. PICK r : Partners(t, r) /\ r.results = w[j].results  BY <1>6, <2>3
  <2>5. ResultIds(r) = ResultIds(w[j]) /\ Real(r)  BY <1>4, <2>4 DEF ResultIds, Real
  <2>6. QED  BY <2>1, <2>4, <2>5
<1>10. Conveyed(a, s, t)  BY <1>3, <1>7, <1>8, <1>9 DEF Conveyed
<1>11. QED  BY <1>4, <1>5, <1>7, <1>10 DEF a, t

\* So the payload of a request can be repaired.
LEMMA ConvertConveys ==
    ASSUME NEW s, Written(s), s # <<>>, Last(s).user, primed \in BOOLEAN, NEW a \in {"claude", "openai"}, NEW p,
           LET c == IF a = "claude" THEN ClaudeToKiro(s) ELSE OpenAIToKiro(s)
           IN  p.history = c.history /\ p.current = c.current
    PROVE  /\ p.history \in Seq(Proper) /\ p.current \in Proper /\ Fresh(p)
           /\ CallsOf(Merged(p)) \subseteq CallsOf(s) /\ AnswersOf(Merged(p)) \subseteq AnswersOf(s)
           /\ Conveyed(a, s, Merged(p))
<1> DEFINE c == IF a = "claude" THEN ClaudeToKiro(s) ELSE OpenAIToKiro(s)
<1>1. c.history \in Seq(Proper) /\ c.current \in Proper /\ Speaking(Merged(c))
  <2>1. Last(s) = s[Len(s)]  BY DEF Last
  <2>2. QED  BY <2>1, ClaudeTurns, OpenAITurns
<1>2. /\ Once(Merged(c)) /\ CallsOf(Merged(c)) \subseteq CallsOf(s) /\ AnswersOf(Merged(c)) \subseteq AnswersOf(s)
      /\ Conveyed(a, s, Merged(c))
  BY ClaudeConveys, OpenAIConveys
<1>3. p.history = c.history /\ p.current = c.current  OBVIOUS
<1> HIDE DEF c
<1>4. Merged(p) = Merged(c)  BY <1>3 DEF Merged
<1>5. QED  BY <1>1, <1>2, <1>3, <1>4 DEF Fresh

\* The repair keeps what was conveyed.
LEMMA RepairKeeps ==
    ASSUME NEW p, Fresh(p), NoId \notin Names, NEW a, NEW s, Conveyed(a, s, Merged(p))
    PROVE  Retained(a, s, Merged(repairKiroPayload(p)))
<1> DEFINE M == Merged(p)
           v == repairKiroConversation(prepareKiroConversation(M))
           w == TurnsOf(a, s)
<1>0. M \in Seq(Proper) /\ Once(M) /\ Speaking(M)  BY MergedTurns DEF Fresh
<1>1. Merged(repairKiroPayload(p)) = v  BY PayloadRepaired
<1>2. /\ SentBy(a, s) = CallsOf(M) /\ \A i \in DOMAIN s : \A id \in ResultIds(s[i]) : Heard(M, id)
  BY DEF Conveyed
<1>3. \A i, j \in DOMAIN w : WholePair(w, SentBy(a, s), i, j)
          => \E r : Partners(M, r) /\ Real(r) /\ ResultIds(r) = UseIds(w[i])
  BY DEF Conveyed
<1> HIDE DEF M, w
<1>4. /\ Valid(v) /\ CallsOf(v) = CallsOf(M) /\ (\A id : Heard(M, id) => Heard(v, id))
      /\ \A r : Partners(M, r) /\ Real(r) => Held(v, ResultIds(r))
  BY <1>0, RepairedConversation
<1> HIDE DEF v
<1>5. v \in Seq(Proper)  BY <1>4, SoundTurns DEF Valid
<1>6. ASSUME NEW i \in DOMAIN w, NEW j \in DOMAIN w, WholePair(w, SentBy(a, s), i, j)
      PROVE  \E m \in Elements(v) : m.user /\ {Result(id) : id \in UseIds(w[i])} = Elements(m.results)
  <2>1. PICK r : Partners(M, r) /\ Real(r) /\ ResultIds(r) = UseIds(w[i])  BY <1>3, <1>6
  <2>2. PICK b \in DOMAIN v : HeldAt(v, UseIds(w[i]), b)  BY <1>4, <2>1 DEF Held
  <2>3. /\ b + 1 \in DOMAIN v /\ UseIds(w[i]) # {} /\ Elements(v[b + 1].results) = {Result(id) : id \in UseIds(w[i])}
    BY <2>2 DEF HeldAt
  <2>4. v[b + 1] \in Proper /\ v[b + 1] \in Elements(v)  BY <1>5, <2>3 DEF Elements
  <2>5. ResultIds(v[b + 1]) # {}
    <3>1. PICK u : u \in UseIds(w[i])  BY <2>3
    <3>2. Result(u) \in Elements(v[b + 1].results)  BY <2>3, <3>1
    <3>3. QED  BY <3>2 DEF ResultIds
  <2>6. v[b + 1].user  BY <2>4, <2>5, NoCalls DEF Proper
  <2>7. QED  BY <2>3, <2>4, <2>6
<1>7. Retained(a, s, v)  BY <1>2, <1>4, <1>6 DEF Retained, w
<1>8. QED  BY <1>1, <1>7

(*****************************************************************************)
(* Every payload                                                             *)
(*****************************************************************************)
\* The client names its calls, each by a name of its own, and somebody speaks first.
Orderly == \A m \in Mixes : m \cap {"blank", "reused", "bare"} = {}

\* What holds of a payload p where the request s was converted, r rounds of searches q ago.
Sane(st, r, p, q, a, s) ==
    /\ st = "asking" => r = 0
    /\ st \in {"converted", "cut"} => Fresh(p) /\ (r > 0 => EndsAnswered(Merged(p)))
    /\ st \in {"repaired", "ready"} => Acceptable(p) /\ (r > 0 => LastHeld(Merged(p)))
    /\ st \in {"converted", "repaired", "cut", "ready"}
       => CallsOf(Merged(p)) \cup AnswersOf(Merged(p)) \subseteq Ids \cup Elements(q)
    /\ st = "converted" /\ r = 0 => Conveyed(a, s, Merged(p))
    /\ st = "repaired" /\ r = 0 => Retained(a, s, Merged(p))

\* The inductive invariant.
RepairInv ==
    /\ mix \in Mixes /\ api \in {"claude", "openai"} /\ primed \in BOOLEAN /\ rounded \in Nat
    /\ asked \in Seq(SearchIds)
    /\ Written(messages) /\ CallsOf(messages) \cup AnswersOf(messages) \subseteq Ids
    /\ payload \in PayloadRows
    /\ Sane(latest, rounded, payload, asked, api, messages)

\* The lists of an action are sequences.
LEMMA ListRows ==
    ASSUME NEW S, NEW u \in Lists(S)
    PROVE  u \in Seq(S)
<1>1. PICK n \in 0 .. MaxParts : u \in [1 .. n -> S]  BY DEF Lists
<1>2. n \in Nat  OBVIOUS
<1>3. QED  BY <1>1, <1>2

\* A client's results are real ones.
LEMMA ResultsReal ==
    ASSUME NEW u \in Seq(Names), NEW m, m.results = [i \in DOMAIN u |-> Result(u[i])]
    PROVE  m.results \in Seq(ResultRows) /\ Real(m) /\ ResultIds(m) = Elements(u) /\ (u # <<>> => m.results # <<>>)
<1> DEFINE w == [i \in DOMAIN u |-> Result(u[i])]
           n == Len(u)
<1>1. n \in Nat /\ DOMAIN u = 1 .. n /\ \A i \in 1 .. n : u[i] \in Names  OBVIOUS
<1>2. DOMAIN w = 1 .. n /\ \A i \in 1 .. n : w[i] = Result(u[i]) /\ w[i] \in ResultRows /\ w[i].id = u[i]
  BY <1>1 DEF Result, ResultRows
<1>3. w \in Seq(ResultRows) /\ Len(w) = n
  <2>1. w = [i \in 1 .. n |-> w[i]]  BY <1>1
  <2> HIDE DEF w, n
  <2>2. QED  BY <1>1, <1>2, <2>1
<1>4. m.results = w  OBVIOUS
<1> HIDE DEF w, n
<1>5. \A v : v \in ResultIds(m) <=> \E i \in 1 .. n : v = u[i]
  <2>1. \A v : v \in ResultIds(m) <=> \E i \in 1 .. n : v = w[i].id
    <3>1. Elements(m.results) = {w[i] : i \in 1 .. n}  BY <1>2, <1>4 DEF Elements
    <3>2. \A v : v \in ResultIds(m) <=> \E r \in Elements(m.results) : v = r.id  BY DEF ResultIds
    <3> HIDE DEF n
    <3>3. QED  BY <3>1, <3>2
  <2>2. QED  BY <1>2, <2>1
<1>6. ResultIds(m) = Elements(u)
  <2>1. \A v : v \in Elements(u) <=> \E i \in 1 .. n : v = u[i]  BY <1>1 DEF Elements
  <2>2. QED  BY <1>5, <2>1
<1>7. Real(m)
  <2>1. \A v : v \in Elements(m.results) <=> \E i \in 1 .. n : v = Result(u[i])  BY <1>2, <1>4 DEF Elements
  <2>2. \A v : v \in {Result(id) : id \in ResultIds(m)} <=> \E i \in 1 .. n : v = Result(u[i])  BY <1>5
  <2>3. QED  BY <2>1, <2>2 DEF Real
<1>8. u # <<>> => w # <<>>
  <2>1. w = <<>> => Len(w) = 0  OBVIOUS
  <2>2. n = 0 => u = <<>>  BY DEF n
  <2>3. QED  BY <1>3, <2>1, <2>2
<1>9. QED  BY <1>3, <1>4, <1>6, <1>7, <1>8

\* A user message keeps the request in order, given that somebody speaks first;
LEMMA UserWrites ==
    ASSUME Orderly, mix \in Mixes, Written(messages), CallsOf(messages) \cup AnswersOf(messages) \subseteq Ids, WriteUser
    PROVE  (Written(messages) /\ CallsOf(messages) \cup AnswersOf(messages) \subseteq Ids)'
<1>1. "blank" \notin mix /\ "bare" \notin mix  BY DEF Orderly
<1>2. KnownIds = Ids  BY <1>1 DEF KnownIds, Allowed
<1>3. PICK text \in UserTexts, ids \in Lists(Ids), images \in BOOLEAN :
         /\ text # {} \/ ids # <<>> \/ images \/ Opened
         /\ messages' = Append(messages, User(text, [i \in DOMAIN ids |-> Result(ids[i])], images))
  BY <1>1, <1>2 DEF WriteUser, Allowed, MapSeq
<1>4. ids \in Seq(Ids)  BY ListRows
<1>5. ids \in Seq(Names)  BY <1>4 DEF Names
<1>6. text \in SUBSET Words  BY DEF UserTexts, Words
<1> DEFINE e == <<>>
<1>7. e \in Seq(Names) /\ Elements(e) = {}  BY DEF Elements
<1> DEFINE m == User(text, [i \in DOMAIN ids |-> Result(ids[i])], images)
<1>8. /\ m = [user |-> TRUE, text |-> text, results |-> m.results, images |-> images, uses |-> e]
      /\ m.results = [i \in DOMAIN ids |-> Result(ids[i])] /\ m.uses = e /\ m.user /\ m.text = text /\ m.images = images
  BY DEF User
<1> HIDE DEF m
<1>9. m.results \in Seq(ResultRows) /\ Real(m) /\ ResultIds(m) = Elements(ids) /\ (ids # <<>> => m.results # <<>>)
  BY <1>5, <1>8, ResultsReal
<1>10. m \in Proper /\ UseIds(m) = {} /\ OnceIn(m)
  <2> HIDE DEF e
  <2>1. m \in TurnRows  BY <1>6, <1>7, <1>8, <1>9 DEF TurnRows
  <2>2. UseIds(m) = {}  BY <1>7, <1>8 DEF UseIds
  <2>3. DOMAIN e = {}  BY DEF e
  <2>4. m \in Proper  BY <1>8, <2>1 DEF Proper, e
  <2>5. QED  BY <1>8, <2>2, <2>3, <2>4 DEF OnceIn
<1>11. m.user /\ (\A i \in DOMAIN messages : ~messages[i].user) => Says(m) \/ m.images
  BY <1>3, <1>8, <1>9 DEF Says, Opened
<1>12. CallsOf(messages) \cap UseIds(m) = {}  BY <1>10
<1>13. Written(Append(messages, m)) /\ CallsOf(Append(messages, m)) = CallsOf(messages) \cup UseIds(m)
       /\ AnswersOf(Append(messages, m)) = AnswersOf(messages) \cup ResultIds(m)
  BY <1>9, <1>10, <1>11, <1>12, WrittenNext
<1>14. ResultIds(m) \subseteq Ids  BY <1>4, <1>9 DEF Elements
<1>15. messages' = Append(messages, m)  BY <1>3 DEF m
<1>16. Written(messages') /\ CallsOf(messages') \cup AnswersOf(messages') \subseteq Ids  BY <1>10, <1>13, <1>14, <1>15
<1>17. QED  BY <1>16 DEF Written, CallsOf, AnswersOf

\* so does an assistant message, given that its calls have names of their own.
LEMMA AssistantWrites ==
    ASSUME Orderly, mix \in Mixes, Written(messages), CallsOf(messages) \cup AnswersOf(messages) \subseteq Ids, WriteAssistant
    PROVE  (Written(messages) /\ CallsOf(messages) \cup AnswersOf(messages) \subseteq Ids)'
<1>1. "blank" \notin mix /\ "reused" \notin mix /\ NoId \notin Ids  BY PayloadAssumption DEF Orderly
<1>2. KnownIds = Ids  BY <1>1 DEF KnownIds, Allowed
<1>3. PICK text \in AssistantTexts, uses \in FreshUses : messages' = Append(messages, Assistant(text, uses))
  BY DEF WriteAssistant
<1>4. uses \in Lists(Ids) /\ IsSet(uses) /\ Elements(uses) \cap CallIds \subseteq {NoId}
  BY <1>1, <1>2 DEF FreshUses, Allowed
<1>5. uses \in Seq(Ids)  BY <1>4, ListRows
<1>6. uses \in Seq(Names)  BY <1>5 DEF Names
<1>7. text \in SUBSET Words  BY DEF AssistantTexts, Words
<1> DEFINE e == <<>>
           m == Assistant(text, uses)
<1>8. e \in Seq(ResultRows) /\ Elements(e) = {}  BY DEF Elements
<1>9. /\ m = [user |-> FALSE, text |-> text, results |-> e, images |-> FALSE, uses |-> uses]
      /\ m.results = e /\ m.uses = uses /\ ~m.user
  BY DEF Assistant
<1> HIDE DEF m, e
<1>10. m \in TurnRows  BY <1>6, <1>7, <1>8, <1>9 DEF TurnRows
<1>11. m \in Proper  BY <1>9, <1>10 DEF Proper, e
<1>12. ResultIds(m) = {} /\ UseIds(m) = Elements(uses)  BY <1>8, <1>9 DEF ResultIds, UseIds
<1>13. Real(m)  BY <1>8, <1>9, <1>12 DEF Real
<1>14. OnceIn(m)  BY <1>4, <1>5, <1>9, IsSetOnce DEF OnceIn
<1>15. Elements(uses) \subseteq Ids  BY <1>5 DEF Elements
<1>16. CallsOf(messages) \cap UseIds(m) = {}
  <2>1. CallIds = CallsOf(messages)  BY DEF CallIds, CallsOf
  <2>2. QED  BY <1>1, <1>4, <1>12, <1>15, <2>1
<1>17. m.user /\ (\A i \in DOMAIN messages : ~messages[i].user) => Says(m) \/ m.images  BY <1>9
<1>18. Written(Append(messages, m)) /\ CallsOf(Append(messages, m)) = CallsOf(messages) \cup UseIds(m)
       /\ AnswersOf(Append(messages, m)) = AnswersOf(messages) \cup ResultIds(m)
  BY <1>11, <1>13, <1>14, <1>16, <1>17, WrittenNext
<1>19. messages' = Append(messages, m)  BY <1>3 DEF m
<1>20. Written(messages') /\ CallsOf(messages') \cup AnswersOf(messages') \subseteq Ids  BY <1>12, <1>15, <1>18, <1>19
<1>21. QED  BY <1>20 DEF Written, CallsOf, AnswersOf

\* Nothing was written.
LEMMA RepairInit == ASSUME PayloadInit PROVE RepairInv
<1> DEFINE e == <<>>
           f == Filler(".")
<1>1. /\ e \in Seq(Proper) /\ e \in Seq(SearchIds) /\ DOMAIN e = {}  OBVIOUS
<1>2. f \in Proper  BY FillerSound DEF Sound
<1>3. /\ mix \in Mixes /\ api \in {"claude", "openai"} /\ primed \in BOOLEAN /\ messages = e /\ latest = "asking"
      /\ asked = e /\ rounded = 0 /\ payload = [history |-> e, current |-> f, tools |-> {}]
  BY DEF PayloadInit
<1> HIDE DEF e, f
<1>4. payload \in PayloadRows  BY <1>1, <1>2, <1>3 DEF PayloadRows
<1>5. Written(messages) /\ CallsOf(messages) = {} /\ AnswersOf(messages) = {}
  BY <1>1, <1>3 DEF Written, Once, Starts, CallsOf, AnswersOf
<1>6. Sane(latest, rounded, payload, asked, api, messages)  BY <1>3 DEF Sane
<1>7. QED  BY <1>1, <1>3, <1>4, <1>5, <1>6 DEF RepairInv

\* The conversion leaves a payload that can be repaired, with all the client's calls and results.
LEMMA ConvertStep == ASSUME RepairInv, Convert PROVE RepairInv'
<1>1. /\ mix \in Mixes /\ api \in {"claude", "openai"} /\ primed \in BOOLEAN /\ rounded \in Nat /\ asked \in Seq(SearchIds)
      /\ Written(messages) /\ CallsOf(messages) \cup AnswersOf(messages) \subseteq Ids
  BY DEF RepairInv
<1> DEFINE c == IF api = "claude" THEN ClaudeToKiro(messages) ELSE OpenAIToKiro(messages)
           Declared == SUBSET {"client", "web_search", "declared"}
<1>2. PICK tools \in Declared : payload' = [history |-> c.history, current |-> c.current, tools |-> tools]
  BY DEF Convert
<1> DEFINE p == payload'
<1>3. p.history = c.history /\ p.current = c.current /\ p.tools \in Declared
      /\ p = [history |-> p.history, current |-> p.current, tools |-> p.tools]
  BY <1>2
<1>4. latest' = "converted" /\ messages # <<>> /\ Last(messages).user
      /\ UNCHANGED <<mix, api, messages, primed, asked, rounded>>
  BY DEF Convert, RequestShape
<1> HIDE DEF p
<1>5. /\ p.history \in Seq(Proper) /\ p.current \in Proper /\ Fresh(p)
      /\ CallsOf(Merged(p)) \subseteq CallsOf(messages) /\ AnswersOf(Merged(p)) \subseteq AnswersOf(messages)
      /\ Conveyed(api, messages, Merged(p))
  BY <1>1, <1>3, <1>4, ConvertConveys
<1> HIDE DEF c
<1>6. p \in PayloadRows  BY <1>3, <1>5 DEF PayloadRows
<1>7. Sane("converted", 0, p, asked, api, messages)  BY <1>1, <1>5 DEF Sane
<1>8. rounded = 0  BY DEF Convert, RepairInv, Sane
<1>9. QED  BY <1>1, <1>4, <1>6, <1>7, <1>8 DEF RepairInv, p

\* The repair leaves one the upstream accepts.
LEMMA RepairStep == ASSUME RepairInv, Repair PROVE RepairInv'
<1>1. /\ mix \in Mixes /\ api \in {"claude", "openai"} /\ primed \in BOOLEAN /\ rounded \in Nat /\ asked \in Seq(SearchIds)
      /\ Written(messages) /\ CallsOf(messages) \cup AnswersOf(messages) \subseteq Ids
      /\ payload \in PayloadRows /\ Sane(latest, rounded, payload, asked, api, messages)
  BY DEF RepairInv
<1>2. latest \in {"converted", "cut"} /\ payload' = repairKiroPayload(payload)
      /\ latest' = (IF latest = "cut" THEN "ready" ELSE "repaired")
      /\ UNCHANGED <<mix, api, messages, primed, asked, rounded>>
  BY DEF Repair
<1>3. NoId \notin Names  BY PayloadAssumption DEF Names
<1>4. /\ Fresh(payload) /\ (rounded > 0 => EndsAnswered(Merged(payload)))
      /\ CallsOf(Merged(payload)) \cup AnswersOf(Merged(payload)) \subseteq Ids \cup Elements(asked)
      /\ (latest = "converted" /\ rounded = 0 => Conveyed(api, messages, Merged(payload)))
  BY <1>1, <1>2 DEF Sane
<1> DEFINE q == repairKiroPayload(payload)
           M == Merged(payload)
           N == Merged(q)
<1>5. Acceptable(q) /\ N = repairKiroConversation(prepareKiroConversation(M))  BY <1>3, <1>4, PayloadRepaired
<1>6. CallsOf(N) = CallsOf(M) /\ AnswersOf(N) \subseteq AnswersOf(M) \cup CallsOf(M)
  <2>1. M \in Seq(Proper) /\ Once(M) /\ Speaking(M)  BY <1>4, MergedTurns DEF Fresh
  <2> HIDE DEF M, N
  <2>2. QED  BY <1>3, <1>5, <2>1, RepairedConversation
<1>7. rounded > 0 => LastHeld(N)  BY <1>3, <1>4, AnswersHeld
<1>8. latest = "converted" /\ rounded = 0 => Retained(api, messages, N)  BY <1>3, <1>4, RepairKeeps
<1>9. q \in PayloadRows
  <2>1. q.history \in Seq(Proper) /\ q.current \in Proper  BY <1>5 DEF Acceptable
  <2>2. /\ q.tools \in SUBSET {"client", "web_search", "declared"}
        /\ q = [history |-> q.history, current |-> q.current, tools |-> q.tools]
    <3>1. payload.tools \in SUBSET {"client", "web_search", "declared"}  BY <1>1 DEF PayloadRows
    <3>2. \A s : synthesizeToolSpecsFor(s) \in SUBSET {"client", "web_search", "declared"}  BY DEF synthesizeToolSpecsFor
    <3>3. QED  BY <3>1, <3>2 DEF repairKiroPayload
  <2> HIDE DEF q
  <2>3. QED  BY <2>1, <2>2 DEF PayloadRows
<1> HIDE DEF M, N, q
<1>10. CallsOf(N) \cup AnswersOf(N) \subseteq Ids \cup Elements(asked)  BY <1>4, <1>6 DEF M
<1>11. Sane(latest', rounded, q, asked, api, messages)
  <2>1. CASE latest = "cut"
    <3>1. latest' = "ready"  BY <1>2, <2>1
    <3>2. Sane("ready", rounded, q, asked, api, messages)  BY <1>5, <1>7, <1>10 DEF Sane, N
    <3>3. QED  BY <3>1, <3>2
  <2>2. CASE latest = "converted"
    <3>1. latest' = "repaired"  BY <1>2, <2>2
    <3>2. Sane("repaired", rounded, q, asked, api, messages)  BY <1>5, <1>7, <1>8, <1>10, <2>2 DEF Sane, N
    <3>3. QED  BY <3>1, <3>2
  <2>3. QED  BY <1>2, <2>1, <2>2
<1>12. payload' = q  BY <1>2 DEF q
<1>13. QED  BY <1>1, <1>2, <1>9, <1>11, <1>12 DEF RepairInv

\* Truncation leaves one that can be repaired again, and the answers of the last round.
LEMMA TruncateStep == ASSUME RepairInv, Truncate PROVE RepairInv'
<1>1. /\ mix \in Mixes /\ api \in {"claude", "openai"} /\ primed \in BOOLEAN /\ rounded \in Nat /\ asked \in Seq(SearchIds)
      /\ Written(messages) /\ CallsOf(messages) \cup AnswersOf(messages) \subseteq Ids
      /\ payload \in PayloadRows /\ Sane(latest, rounded, payload, asked, api, messages)
  BY DEF RepairInv
<1>2. latest = "repaired" /\ latest' = "cut" /\ UNCHANGED <<mix, api, messages, primed, asked, rounded>>  BY DEF Truncate
<1> DEFINE primes == primed /\ rounded = 0
<1>3. primes \in BOOLEAN /\ (rounded > 0 => ~primes)  BY <1>1
<1>4. payload' \in {payload} \cup Truncations(payload, primes)  BY DEF Truncate
<1>5. PICK q : q = payload'  OBVIOUS
<1> HIDE DEF primes
<1>6. /\ Acceptable(payload) /\ (rounded > 0 => LastHeld(Merged(payload)))
      /\ CallsOf(Merged(payload)) \cup AnswersOf(Merged(payload)) \subseteq Ids \cup Elements(asked)
  BY <1>1, <1>2 DEF Sane
<1>7. Valid(Merged(payload)) /\ FewEnough  BY <1>6, PayloadAssumption DEF Acceptable, FewEnough
<1>8. /\ q \in PayloadRows /\ Fresh(q)
      /\ CallsOf(Merged(q)) \subseteq CallsOf(Merged(payload)) /\ AnswersOf(Merged(q)) \subseteq AnswersOf(Merged(payload))
      /\ ~primes /\ LastHeld(Merged(payload)) => EndsAnswered(Merged(q))
  BY <1>1, <1>3, <1>4, <1>5, <1>7, TruncateKeeps
<1>9. Sane("cut", rounded, q, asked, api, messages)  BY <1>3, <1>6, <1>8 DEF Sane
<1>10. QED  BY <1>1, <1>2, <1>5, <1>8, <1>9 DEF RepairInv

\* So does the next round: the searches have identifiers of their own.
LEMMA AdvanceStep == ASSUME RepairInv, Advance PROVE RepairInv'
<1>1. /\ mix \in Mixes /\ api \in {"claude", "openai"} /\ primed \in BOOLEAN /\ rounded \in Nat /\ asked \in Seq(SearchIds)
      /\ Written(messages) /\ CallsOf(messages) \cup AnswersOf(messages) \subseteq Ids
      /\ payload \in PayloadRows /\ Sane(latest, rounded, payload, asked, api, messages)
  BY DEF RepairInv
<1>2. latest = "ready" /\ latest' = "converted" /\ rounded' = rounded + 1 /\ UNCHANGED <<mix, api, messages, primed>>  BY DEF Advance
<1>3. PICK uses \in Lists(SearchIds \ {asked[i] : i \in DOMAIN asked}) :
         uses # <<>> /\ IsSet(uses) /\ payload' = advancePayload(payload, uses) /\ asked' = asked \o uses
  BY DEF Advance
<1>4. uses \in Seq(SearchIds \ Elements(asked))  BY <1>3, ListRows DEF Elements
<1>5. uses \in Seq(SearchIds) /\ Elements(uses) \subseteq SearchIds /\ Elements(uses) \cap Elements(asked) = {}
  <2> DEFINE X == SearchIds \ Elements(asked)
  <2>1. \A i \in DOMAIN uses : uses[i] \in X  BY <1>4
  <2>2. X \subseteq SearchIds /\ X \cap Elements(asked) = {}  OBVIOUS
  <2>3. uses \in Seq(X)  BY <1>4
  <2> HIDE DEF X
  <2>4. uses \in Seq(SearchIds)  BY <2>2, <2>3
  <2>5. Elements(uses) \subseteq X  BY <2>1 DEF Elements
  <2>6. QED  BY <2>2, <2>4, <2>5
<1> DEFINE M == Merged(payload)
           q == advancePayload(payload, uses)
           N == Merged(q)
<1>6. Valid(M) /\ CallsOf(M) \cup AnswersOf(M) \subseteq Ids \cup Elements(asked)  BY <1>1, <1>2 DEF Sane, Acceptable
<1>7. Elements(uses) \cap (CallsOf(M) \cup AnswersOf(M)) = {}
  <2>1. Ids \cap SearchIds = {}  BY PayloadAssumption
  <2> HIDE DEF M
  <2>2. QED  BY <1>5, <1>6, <2>1
<1>8. /\ q \in PayloadRows /\ Fresh(q) /\ EndsAnswered(N)
      /\ CallsOf(N) \subseteq CallsOf(M) \cup Elements(uses)
      /\ AnswersOf(N) \subseteq AnswersOf(M) \cup Elements(uses)
  BY <1>1, <1>3, <1>5, <1>6, <1>7, Advanced
<1> HIDE DEF M, N, q
<1>9. asked' \in Seq(SearchIds) /\ Elements(asked') = Elements(asked) \cup Elements(uses)
  BY <1>1, <1>3, <1>5, JoinedElements
<1>10. CallsOf(N) \cup AnswersOf(N) \subseteq Ids \cup Elements(asked')  BY <1>6, <1>8, <1>9
<1>11. rounded + 1 \in Nat /\ rounded + 1 # 0  BY <1>1
<1>12. Sane("converted", rounded + 1, q, asked', api, messages)  BY <1>8, <1>10, <1>11 DEF Sane, N
<1>13. payload' = q  BY <1>3 DEF q
<1>14. QED  BY <1>1, <1>2, <1>8, <1>9, <1>11, <1>12, <1>13 DEF RepairInv

\* RepairInv is inductive.
LEMMA PayloadStep == ASSUME Orderly, RepairInv, [PayloadNext]_payloadVars PROVE RepairInv'
<1>1. CASE Write
  <2>1. /\ mix \in Mixes /\ Written(messages) /\ CallsOf(messages) \cup AnswersOf(messages) \subseteq Ids  BY DEF RepairInv
  <2>2. (Written(messages) /\ CallsOf(messages) \cup AnswersOf(messages) \subseteq Ids)'
    BY <1>1, <2>1, UserWrites, AssistantWrites DEF Write
  <2>3. latest = "asking" /\ UNCHANGED <<mix, api, primed, latest, payload, asked, rounded>>  BY <1>1 DEF Write
  <2>4. rounded = 0  BY <2>3 DEF RepairInv, Sane
  <2>5. Sane("asking", 0, payload, asked, api, messages')  BY DEF Sane
  <2>6. Written(messages') /\ CallsOf(messages') \cup AnswersOf(messages') \subseteq Ids  BY <2>2 DEF Written, CallsOf, AnswersOf
  <2>7. QED  BY <2>2, <2>3, <2>4, <2>5, <2>6 DEF RepairInv
<1>2. CASE Convert  BY <1>2, ConvertStep
<1>3. CASE Repair  BY <1>3, RepairStep
<1>4. CASE Truncate  BY <1>4, TruncateStep
<1>5. CASE Advance  BY <1>5, AdvanceStep
<1>6. CASE stripWebSearchTools
  <2>1. /\ payload \in PayloadRows /\ latest' = "final" /\ payload' = [payload EXCEPT !.tools = @ \ {"web_search"}]
        /\ UNCHANGED <<mix, api, messages, primed, asked, rounded>>
    BY <1>6 DEF stripWebSearchTools, RepairInv
  <2>2. payload' \in PayloadRows  BY <2>1 DEF PayloadRows
  <2>3. \A p : Sane("final", rounded, p, asked, api, messages)  BY DEF Sane
  <2>4. QED  BY <2>1, <2>2, <2>3 DEF RepairInv
<1>7. CASE UNCHANGED payloadVars  BY <1>7 DEF payloadVars, RepairInv
<1>8. QED  BY <1>1, <1>2, <1>3, <1>4, <1>5, <1>6, <1>7 DEF PayloadNext

\* What was repaired breaks no rule, is its own repair, declares tools and ends with the answers,
LEMMA SoundPayload ==
    ASSUME RepairInv
    PROVE  RepairLeavesNoViolation /\ RepairIsStable /\ ToolsAreDeclared /\ AnswersReachTheModel
<1>1. payload \in PayloadRows /\ Sane(latest, rounded, payload, asked, api, messages) /\ NoId \notin Names
  BY PayloadAssumption DEF RepairInv, Names
<1>2. ASSUME latest \in {"repaired", "ready"}
      PROVE  Acceptable(payload) /\ (rounded > 0 => LastHeld(Merged(payload)))
  BY <1>1, <1>2 DEF Sane
<1>3. RepairLeavesNoViolation  BY <1>1, <1>2, ValidIsAccepted DEF RepairLeavesNoViolation, Acceptable
<1>4. RepairIsStable  BY <1>2 DEF RepairIsStable, Acceptable
<1>5. ToolsAreDeclared  BY <1>2 DEF ToolsAreDeclared, Acceptable
<1>6. AnswersReachTheModel
  <2> SUFFICES ASSUME latest \in {"repaired", "ready"}, rounded > 0
               PROVE  /\ Last(payload.history).uses # <<>>
                      /\ Elements(payload.current.results) = {Result(id) : id \in UseIds(Last(payload.history))}
    BY DEF AnswersReachTheModel
  <2> DEFINE s == Merged(payload)
             n == Len(s)
  <2>1. Valid(s) /\ LastHeld(s) /\ payload.history \in Seq(Proper) /\ payload.current \in Proper  BY <1>2 DEF Acceptable
  <2>2. PICK W : HeldLast(s, W)  BY <2>1 DEF LastHeld
  <2>3. /\ n \in DOMAIN s /\ n - 1 \in DOMAIN s /\ W # {} /\ UseIds(s[n - 1]) = W
        /\ Elements(s[n].results) = {Result(id) : id \in W}
    BY <2>1, <2>2, HeldMated
  <2>4. /\ s \in Seq(Proper) /\ s[n] = payload.current /\ n = Len(payload.history) + 1
        /\ (payload.history # <<>> => Last(payload.history) = s[n - 1])
    BY <2>1, MergedTurns
  <2>5. payload.history # <<>>
    <3>1. n >= 2  BY <2>2 DEF HeldLast
    <3>2. payload.history = <<>> => Len(payload.history) = 0  OBVIOUS
    <3> HIDE DEF n
    <3>3. QED  BY <2>4, <3>1, <3>2
  <2> HIDE DEF s, n
  <2>6. s[n - 1] \in Proper  BY <2>3, <2>4
  <2>7. Last(payload.history).uses # <<>>  BY <2>3, <2>4, <2>5, <2>6, NoCalls
  <2>8. QED  BY <2>3, <2>4, <2>5, <2>7
<1>7. QED  BY <1>3, <1>4, <1>5, <1>6

\* and has every call, result and whole pair of the client.
LEMMA WholePayload ==
    ASSUME RepairInv
    PROVE  NothingIsLost /\ WholePairsStay
<1> SUFFICES ASSUME latest = "repaired", rounded = 0
             PROVE  NothingIsLost /\ WholePairsStay
  BY DEF NothingIsLost, WholePairsStay
<1> DEFINE s == Merged(payload)
           w == TurnsOf(api, messages)
           sent == SentBy(api, messages)
<1>1. Retained(api, messages, s)  BY DEF RepairInv, Sane
<1>2. /\ sent = CallsOf(s) /\ \A i \in DOMAIN messages : \A id \in ResultIds(messages[i]) : Heard(s, id)
  BY <1>1 DEF Retained
<1>3. \A i, j \in DOMAIN w :
          WholePair(w, sent, i, j)
          => \E m \in Elements(s) : m.user /\ {Result(id) : id \in UseIds(w[i])} = Elements(m.results)
  BY <1>1 DEF Retained
<1>4. Sent = sent  BY DEF Sent, SentBy
<1>5. w = IF api = "claude" THEN messages ELSE ToolRuns(messages)  BY DEF TurnsOf
<1> HIDE DEF s, w, sent
<1>6. NothingIsLost
  <2>1. UNION {UseIds(m) : m \in Elements(s)} = CallsOf(s)
    <3>1. \A v : v \in CallsOf(s) <=> \E i \in DOMAIN s : v \in UseIds(s[i])  BY DEF CallsOf
    <3>2. \A v : v \in UNION {UseIds(m) : m \in Elements(s)} <=> \E m \in Elements(s) : v \in UseIds(m)  OBVIOUS
    <3>3. \A v : (\E m \in Elements(s) : v \in UseIds(m)) <=> \E i \in DOMAIN s : v \in UseIds(s[i])  BY DEF Elements
    <3>4. \A v : v \in UNION {UseIds(m) : m \in Elements(s)} <=> v \in CallsOf(s)  BY <3>1, <3>2, <3>3
    <3>5. QED  BY <3>4
  <2>2. \A id : Heard(s, id) => \E m \in Elements(s) : m.user /\ (id \in m.text \/ Result(id) \in Elements(m.results))
    BY DEF Heard, ToldBy, Elements
  <2>3. \A i \in DOMAIN messages : \A id \in ResultIds(messages[i]) :
           \E m \in Elements(s) : m.user /\ (id \in m.text \/ Result(id) \in Elements(m.results))
    BY <1>2, <2>2
  <2>4. QED  BY <1>2, <1>4, <2>1, <2>3 DEF NothingIsLost, s
<1>7. WholePairsStay
  <2>1. ASSUME NEW i \in DOMAIN w, NEW j \in DOMAIN w,
               /\ i < j /\ w[i].uses # <<>> /\ UseIds(w[i]) \subseteq Sent
               /\ w[j].results # <<>> /\ UseIds(w[i]) = ResultIds(w[j])
               /\ \A k \in DOMAIN w \ {j} : ResultIds(w[k]) \cap ResultIds(w[j]) = {}
        PROVE  \E m \in Elements(s) : m.user /\ {Result(id) : id \in UseIds(w[i])} = Elements(m.results)
    <3>1. WholePair(w, sent, i, j)  BY <1>4, <2>1 DEF WholePair
    <3>2. QED  BY <1>3, <3>1
  <2>2. QED  BY <1>5, <2>1 DEF WholePairsStay, s
<1>8. QED  BY <1>6, <1>7

\* kiro_history_repair.go and the rounds after it, for any request whose client names its calls and
\* whose first user message says something: a repaired payload breaks no rule of the upstream, repairing
\* it again changes nothing, and no call, result or pair of the client's is lost by it.
THEOREM PayloadsAreSound ==
    ASSUME Orderly
    PROVE  PayloadSpec => []PayloadIsSound
<1>1. PayloadInit => RepairInv  BY RepairInit
<1>2. RepairInv /\ [PayloadNext]_payloadVars => RepairInv'  BY PayloadStep
<1>3. RepairInv => PayloadIsSound  BY SoundPayload, WholePayload DEF PayloadIsSound, PayloadIsWhole
<1>4. QED  BY <1>1, <1>2, <1>3, PTL DEF PayloadSpec
================================================================================
