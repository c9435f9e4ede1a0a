------------------------------ MODULE TurnProofs ------------------------------
(***************************************************************************)
(* A turn of a conversation, for any accounts, queries, providers and      *)
(* bounds.  A request implements ClientStream, a rotation blames nobody    *)
(* for a truncated stream, and an answer told as complete is whole.  The   *)
(* web searches of a turn are each answered or shown, paid once and within *)
(* what the request and the month may spend.  The client of the Responses  *)
(* endpoint sees one well-formed response.                                 *)
(***************************************************************************)
EXTENDS ChatExecutor, TurnParts, FilterProofs, SequenceTheorems

(***************************************************************************)
(* The shape of a request                                                  *)
(***************************************************************************)
\* The loops' counters: once an account is selected the place is a call.
Counters ==
  /\ tries \in 0 .. MaxAccountAttempts  /\ retries \in 0 .. MaxStreamRetries
  /\ endpoint \in 1 .. Endpoints        /\ attempt \in 1 .. MaxStreamAttempts
  /\ pc \notin {"select", "done"} => tries # 0

\* The response is open until the request is done, and an error is returned
\* only from a call.
Phases ==
  /\ ended = "no" <=> pc # "done"
  /\ err # "none" => pc \in {"failed", "done"}

\* What the guard protects: nothing is shown before it is committed, it is not
\* committed while an account is chosen or a stream asked for, and everything
\* shown or held belongs to the stream in progress.
Guarded ==
  /\ ~committed => shown = {} \/ pc = "done"
  /\ pc \in {"select", "token", "request"} => ~committed
  /\ pc = "request" => held = {}
  /\ pc = "stream" /\ ~HasOutput(stream) => ~committed /\ held = {}
  /\ pc \in {"stream", "measure"} => held \subseteq {Call} /\ shown \subseteq {Call}

StreamTyped ==
  stream \in [text : BOOLEAN, reasoning : BOOLEAN, tool : BOOLEAN,
             stop : {"none", "plain", "explains"}]

Shape == StreamTyped /\ Counters /\ Phases /\ Guarded

LEMMA PlaceIsCall ==
  ASSUME Counters, pc \notin {"select", "done"}
  PROVE  Call \in Calls
BY DEF Counters, Call, Calls

\* Shape is inductive.
LEMMA ShapeInit == Init => Shape
BY BoundsAssumption DEF Init, Shape, StreamTyped, Counters, Phases, Guarded, Nothing,
                            HasOutput

LEMMA StreamTypedNext == StreamTyped /\ [Next]_vars => StreamTyped'
<1> SUFFICES ASSUME StreamTyped, [Next]_vars PROVE StreamTyped'
  OBVIOUS
<1> USE DEF StreamTyped
<1>1. CASE Run
  BY <1>1 DEF Run, SelectAccount, LeaveBetween, Exhausted, TokenFails, BeginAttempt,
              LeaveDuring, Rotate, FailCommitted
<1>2. CASE KiroCall
  <2>1. stream' = stream \/ stream' = Nothing
    BY <1>2 DEF KiroCall, Accepted, Refused, StreamBreaks, StreamEnds
  <2>2. Nothing \in [text : BOOLEAN, reasoning : BOOLEAN, tool : BOOLEAN,
                    stop : {"none", "plain", "explains"}]
    BY DEF Nothing
  <2>3. QED
    BY <2>1, <2>2
<1>3. CASE Events
  BY <1>3 DEF Events, OnText, OnReasoning, OnToolUse, OnStopReason, Receive
<1>4. CASE Retry
  BY <1>4 DEF Retry, Complete, RetryTruncated, GiveUpTruncated
<1>5. CASE Disconnect \/ Finished \/ UNCHANGED vars
  BY <1>5 DEF Disconnect, Finished, vars
<1>6. QED
  BY <1>1, <1>2, <1>3, <1>4, <1>5 DEF Next

LEMMA CountersNext == Counters /\ [Next]_vars => Counters'
<1> SUFFICES ASSUME Counters, [Next]_vars PROVE Counters'
  OBVIOUS
<1> USE BoundsAssumption DEF Counters, place, client, health, Goto
<1>1. CASE Run
  BY <1>1 DEF Run, SelectAccount, LeaveBetween, Exhausted, TokenFails, Exclude,
              BeginAttempt, LeaveDuring, Rotate, FailCommitted
<1>2. CASE KiroCall
  BY <1>2 DEF KiroCall, Accepted, Refused, StreamBreaks, StreamEnds, FailWith,
              NextEndpoint
<1>3. CASE Events
  BY <1>3 DEF Events, OnText, OnReasoning, OnToolUse, OnStopReason, Receive
<1>4. CASE Retry
  BY <1>4 DEF Retry, Complete, RetryTruncated, GiveUpTruncated, FailWith
<1>5. CASE Disconnect \/ Finished \/ UNCHANGED vars
  BY <1>5 DEF Disconnect, Finished, vars
<1>6. QED
  BY <1>1, <1>2, <1>3, <1>4, <1>5 DEF Next

LEMMA PhasesNext == Phases /\ [Next]_vars => Phases'
<1> SUFFICES ASSUME Phases, [Next]_vars PROVE Phases'
  OBVIOUS
<1> USE DEF Phases, client, Goto
<1>1. CASE Run
  BY <1>1 DEF Run, SelectAccount, LeaveBetween, Exhausted, TokenFails, Exclude,
              BeginAttempt, LeaveDuring, Rotate, FailCommitted
<1>2. CASE KiroCall
  BY <1>2 DEF KiroCall, Accepted, Refused, StreamBreaks, StreamEnds, FailWith,
              NextEndpoint
<1>3. CASE Events
  BY <1>3 DEF Events, OnText, OnReasoning, OnToolUse, OnStopReason, Receive
<1>4. CASE Retry
  BY <1>4 DEF Retry, Complete, RetryTruncated, GiveUpTruncated, FailWith
<1>5. CASE Disconnect \/ Finished \/ UNCHANGED vars
  BY <1>5 DEF Disconnect, Finished, vars
<1>6. QED
  BY <1>1, <1>2, <1>3, <1>4, <1>5 DEF Next

LEMMA GuardedNext == StreamTyped /\ Guarded /\ [Next]_vars => Guarded'
<1> SUFFICES ASSUME StreamTyped, Guarded, [Next]_vars PROVE Guarded'
  OBVIOUS
<1> USE DEF Guarded, client, place, Goto, Call
<1>1. CASE Run
  BY <1>1 DEF Run, SelectAccount, LeaveBetween, Exhausted, TokenFails, Exclude,
              BeginAttempt, LeaveDuring, Rotate, FailCommitted
<1>2. CASE KiroCall
  BY <1>2 DEF KiroCall, Accepted, Refused, StreamBreaks, StreamEnds, FailWith,
              NextEndpoint, HasOutput, Nothing
<1>3. CASE Events
  <2>1. pc = "stream" /\ pc' = "stream" /\ Call' = Call
    BY <1>3 DEF Events, OnText, OnReasoning, OnToolUse, OnStopReason, Receive
  <2>2. Flush \/ Hold \/ UNCHANGED <<held, shown, committed>>
    BY <1>3 DEF Events, OnText, OnReasoning, OnToolUse, OnStopReason, RenderText,
                RenderReasoning, RenderTool
  <2>3. HasOutput(stream') \/ (OnStopReason /\ HasOutput(stream') = HasOutput(stream))
    BY <1>3 DEF Events, OnText, OnReasoning, OnToolUse, OnStopReason, Receive,
                HasOutput, StreamTyped
  <2>4. OnStopReason => UNCHANGED <<held, shown, committed>>
    BY DEF OnStopReason
  <2>5. (held' \subseteq {Call} /\ shown' \subseteq {Call}) /\ (~committed' => shown' = {})
    BY <2>1, <2>2 DEF Flush, Hold
  <2>6. QED
    BY <2>1, <2>3, <2>4, <2>5 DEF HasOutput
<1>4. CASE Retry
  BY <1>4 DEF Retry, Complete, RetryTruncated, GiveUpTruncated, FailWith, Reset
<1>5. CASE Disconnect \/ Finished \/ UNCHANGED vars
  BY <1>5 DEF Disconnect, Finished, vars, HasOutput
<1>6. QED
  BY <1>1, <1>2, <1>3, <1>4, <1>5 DEF Next

LEMMA ShapeHolds == Spec => []Shape
BY ShapeInit, StreamTypedNext, CountersNext, PhasesNext, GuardedNext, PTL
   DEF Spec, Shape

(***************************************************************************)
(* A request implements ClientStream                                       *)
(***************************************************************************)
\* A step of the request is a step of the response, or leaves it alone.
LEMMA StepRefines ==
  ASSUME Shape, [Next]_vars
  PROVE  [Response!Next]_<<shown, ended>>
<1> USE DEF client, Goto, Response!Next
<1>1. CASE LeaveBetween \/ LeaveDuring
  BY <1>1 DEF LeaveBetween, LeaveDuring, Response!Abandon, Shape, Phases
<1>2. CASE Exhausted
  BY <1>2 DEF Exhausted, Response!Refuse, Response!Fail, Shape, Phases, Guarded
<1>3. CASE FailCommitted
  BY <1>3 DEF FailCommitted, Response!Fail, Shape, Phases
<1>4. CASE SelectAccount \/ TokenFails \/ BeginAttempt \/ Rotate
  BY <1>4 DEF SelectAccount, TokenFails, BeginAttempt, Rotate
<1>5. CASE KiroCall
  BY <1>5 DEF KiroCall, Accepted, Refused, StreamBreaks, StreamEnds
<1>6. CASE Events
  <2>1. ended = "no" /\ UNCHANGED ended /\ pc = "stream"
    BY <1>6 DEF Events, OnText, OnReasoning, OnToolUse, OnStopReason, Receive,
                Shape, Phases
  <2>2. shown' = shown \/ shown' = shown \cup held \cup {Call}
    BY <1>6 DEF Events, OnText, OnReasoning, OnToolUse, OnStopReason, RenderText,
                RenderReasoning, RenderTool, Flush, Hold
  <2>3. Call \in Calls /\ shown \subseteq {Call} /\ held \subseteq {Call}
    BY <2>1, PlaceIsCall DEF Shape, Guarded
  <2>4. shown' = shown \/ shown' = {Call}
    BY <2>2, <2>3
  <2>5. QED
    BY <2>1, <2>3, <2>4 DEF Response!Deliver, Response!FromOneStream
<1>7. CASE Complete
  <2>1. Call \in Calls /\ shown \subseteq {Call} /\ held \subseteq {Call}
    BY <1>7, PlaceIsCall DEF Complete, Shape, Guarded
  <2>2. shown' = {Call} /\ ended' = "complete" /\ ended = "no"
    BY <1>7, <2>1 DEF Complete, Shape, Phases
  <2>3. QED
    BY <2>1, <2>2 DEF Response!Complete, Response!FromOneStream
<1>8. CASE RetryTruncated \/ GiveUpTruncated
  BY <1>8 DEF RetryTruncated, GiveUpTruncated
<1>9. CASE Disconnect \/ Finished \/ UNCHANGED vars
  BY <1>9 DEF Disconnect, Finished, vars
<1>10. QED
  BY <1>1, <1>2, <1>3, <1>4, <1>5, <1>6, <1>7, <1>8, <1>9 DEF Next, Run, Retry

\* The client of a request sees one upstream stream and one end, for every
\* number of accounts, endpoints and retries (streamGuard, ChatExecutor.Run).
THEOREM OneStreamReachesTheClient == Spec => ImplementsClientStream
<1>1. Init => Response!Init
  BY DEF Init, Response!Init
<1>2. Shape /\ [Next]_vars => [Response!Next]_<<shown, ended>>
  BY StepRefines
<1>3. QED
  BY <1>1, <1>2, ShapeHolds, PTL DEF Spec, ImplementsClientStream, Response!Spec

(***************************************************************************)
(* Blame                                                                   *)
(***************************************************************************)
\* A truncated stream that makes the request rotate leaves the account's errors
\* and bans alone (attemptRotateWithoutBlame).
THEOREM RotationIsBlameless == Spec => RotatesWithoutBlame
<1>1. ASSUME Phases, [Next]_vars, err = "truncated", ~committed
      PROVE  UNCHANGED health
  <2>1. CASE Rotate
    BY <1>1, <2>1 DEF Rotate
  <2>2. CASE Run /\ ~Rotate
    BY <1>1, <2>2 DEF Run, SelectAccount, LeaveBetween, Exhausted, TokenFails,
                      BeginAttempt, LeaveDuring, FailCommitted, Phases
  <2>3. CASE KiroCall \/ Events \/ Retry
    BY <1>1, <2>3 DEF KiroCall, Accepted, Refused, StreamBreaks, StreamEnds, Events,
                      OnText, OnReasoning, OnToolUse, OnStopReason, Receive, Retry,
                      Complete, RetryTruncated, GiveUpTruncated, Phases
  <2>4. CASE Disconnect \/ Finished \/ UNCHANGED vars
    BY <2>4 DEF Disconnect, Finished, vars
  <2>5. QED
    BY <1>1, <2>1, <2>2, <2>3, <2>4 DEF Next
<1>2. Shape /\ [Next]_vars => [err = "truncated" /\ ~committed => UNCHANGED health]_vars
  BY <1>1 DEF Shape
<1>3. QED
  BY <1>2, ShapeHolds, PTL DEF Spec, RotatesWithoutBlame

(***************************************************************************)
(* Types                                                                   *)
(***************************************************************************)
\* An account is at work from its selection on, so that what is excluded, blamed and banned are
\* accounts.
Chosen == pc \notin {"select", "done"} => account \in Accounts

Typed == TypeOK /\ Chosen

LEMMA TypedInit == Init => Typed
<1> SUFFICES ASSUME Init PROVE Typed
  OBVIOUS
<1>1. Counters /\ StreamTyped
  BY ShapeInit DEF Shape
<1>2. acc = stream
  BY DEF Init
<1>3. /\ blamed \subseteq Accounts /\ banned \subseteq Accounts
      /\ excluded = {} /\ account = None /\ err = "none" /\ lastErr = "none"
      /\ pc = "select" /\ protocol \in Protocols
      /\ held = {} /\ committed = FALSE /\ shown = {} /\ ended = "no" /\ gone = FALSE
  BY DEF Init
<1>4. QED
  BY <1>1, <1>2, <1>3 DEF Typed, TypeOK, Chosen, Counters, StreamTyped

LEMMA BlameTyped ==
  ASSUME blamed \subseteq Accounts, banned \subseteq Accounts, NEW a \in Accounts, NEW e,
         HandleAccountFailure(a, e)
  PROVE  blamed' \subseteq Accounts /\ banned' \subseteq Accounts
BY DEF HandleAccountFailure

LEMMA TypedNext == Shape /\ Typed /\ [Next]_vars => Typed'
<1> SUFFICES ASSUME Shape, Typed, [Next]_vars PROVE Typed'
  OBVIOUS
<1> USE DEF Typed, TypeOK, Chosen
<1>1. Counters' /\ StreamTyped'
  BY CountersNext, StreamTypedNext DEF Shape
<1>2. CASE SelectAccount \/ LeaveBetween \/ Exhausted \/ LeaveDuring
  BY <1>1, <1>2, AccountsAssumption
     DEF SelectAccount, LeaveBetween, Exhausted, LeaveDuring, client, health, place, Goto, Usable, Counters
<1>3. CASE TokenFails \/ Rotate \/ FailCommitted
  <2>1. /\ blamed' \subseteq Accounts /\ banned' \subseteq Accounts
        /\ pc \in {"token", "failed"} /\ account \in Accounts
    BY <1>3, BlameTyped DEF TokenFails, Rotate, FailCommitted, health
  <2>2. excluded' \subseteq Accounts /\ lastErr' \in Errors \cup {"none"} /\ err' \in Errors \cup {"none"}
    BY <1>3, <2>1 DEF TokenFails, Rotate, FailCommitted, Exclude, Errors
  <2>3. pc' \in {"select", "done"}
    BY <1>3 DEF TokenFails, Rotate, FailCommitted, Exclude, Goto
  <2>4. /\ UNCHANGED <<protocol, account, acc, stream, held, shown, committed, gone>>
        /\ ended' \in {ended, "failed"}
    BY <1>3 DEF TokenFails, Rotate, FailCommitted, client
  <2>5. QED
    BY <1>1, <2>1, <2>2, <2>3, <2>4 DEF Counters
<1>4. CASE BeginAttempt
  BY <1>1, <1>4 DEF BeginAttempt, health, Goto, Nothing, Counters
<1>5. CASE KiroCall
  <2>1. /\ pc' \in {"request", "stream", "measure", "failed"}
        /\ pc \in {"request", "stream"} /\ err' \in Errors \cup {"none"}
    BY <1>5 DEF KiroCall, Accepted, Refused, StreamBreaks, StreamEnds, FailWith, NextEndpoint, Errors, Goto
  <2>2. UNCHANGED <<protocol, account, excluded, lastErr, acc, held, shown, committed, ended, gone, blamed,
  banned>>
    BY <1>5 DEF KiroCall, Accepted, Refused, StreamBreaks, StreamEnds, client, health
  <2>3. QED
    BY <1>1, <2>1, <2>2 DEF Counters, StreamTyped
<1>6. CASE Events
  <2>1. Call \in Calls
    BY <1>6, PlaceIsCall DEF Events, OnText, OnReasoning, OnToolUse, OnStopReason, Receive, Shape
  <2>2. Flush \/ Hold \/ UNCHANGED <<held, shown, committed>>
    BY <1>6 DEF Events, OnText, OnReasoning, OnToolUse, OnStopReason, RenderText, RenderReasoning,
       RenderTool
  <2>3. held' \subseteq Calls /\ shown' \subseteq Calls /\ committed' \in BOOLEAN
    BY <2>1, <2>2 DEF Flush, Hold
  <2>4. acc' \in [text : BOOLEAN, reasoning : BOOLEAN, tool : BOOLEAN, stop : {"none", "plain", "explains"}]
    BY <1>6 DEF Events, OnText, OnReasoning, OnToolUse, OnStopReason, Receive
  <2>5. UNCHANGED <<protocol, pc, account, excluded, err, lastErr, ended, gone, blamed, banned>>
    BY <1>6 DEF Events, OnText, OnReasoning, OnToolUse, OnStopReason, Receive, health
  <2>6. QED
    BY <1>1, <2>3, <2>4, <2>5 DEF Counters, StreamTyped
<1>7. CASE Complete
  <2>1. Call \in Calls /\ pc = "measure"
    BY <1>7, PlaceIsCall DEF Complete, Shape
  <2>2. QED
    BY <1>1, <1>7, <2>1 DEF Complete, Goto, Counters, StreamTyped
<1>8. CASE RetryTruncated \/ GiveUpTruncated
  <2>1. /\ pc' \in {"request", "failed"} /\ pc = "measure"
        /\ err' \in Errors \cup {"none"}
        /\ (acc' = acc \/ acc' = Nothing)
        /\ (held' = held \/ held' = {})
    BY <1>8 DEF RetryTruncated, GiveUpTruncated, FailWith, Reset, Errors, Goto, client
  <2>2. UNCHANGED <<protocol, account, excluded, lastErr, shown, committed, ended, gone, blamed, banned>>
    BY <1>8 DEF RetryTruncated, GiveUpTruncated, client, health
  <2>3. acc' \in [text : BOOLEAN, reasoning : BOOLEAN, tool : BOOLEAN, stop : {"none", "plain", "explains"}]
    <3>1. Nothing \in [text : BOOLEAN, reasoning : BOOLEAN, tool : BOOLEAN, stop : {"none", "plain", "explains"}]
      BY DEF Nothing
    <3>2. acc \in [text : BOOLEAN, reasoning : BOOLEAN, tool : BOOLEAN, stop : {"none", "plain", "explains"}]
      OBVIOUS
    <3>3. QED
      BY <2>1, <3>1, <3>2
  <2>4. held' \subseteq Calls
    BY <2>1
  <2>5. QED
    BY <1>1, <2>1, <2>2, <2>3, <2>4 DEF Counters, StreamTyped
<1>9. CASE Disconnect \/ Finished \/ UNCHANGED vars
  BY <1>9 DEF Disconnect, Finished, vars, client, health, place
<1>10. QED
  BY <1>2, <1>3, <1>4, <1>5, <1>6, <1>7, <1>8, <1>9 DEF Next, Run, Retry

\* A request's variables keep their types, its loops their bounds, and what is held, shown, blamed
\* and banned are streams and accounts there are.
THEOREM TypeCorrect == Spec => []TypeOK
<1>1. Typed => TypeOK
  BY DEF Typed
<1>2. QED
  BY <1>1, TypedInit, TypedNext, ShapeHolds, PTL DEF Spec

(***************************************************************************)
(* Whole answers                                                           *)
(***************************************************************************)
\* What the handler judges an answer by is what the last stream delivered, as long as streams name
\* their stop reason last: a stream repeated inside the call had delivered nothing.
Faithful ==
  /\ pc = "request" => acc = Nothing
  /\ pc \in {"stream", "measure"} => acc = stream
  /\ pc = "stream" /\ ~HasOutput(stream) => stream = Nothing

LEMMA FaithfulNext ==
  ASSUME ~EarlyStop, Shape, Faithful, [Next]_vars
  PROVE  Faithful'
<1> USE DEF Faithful, Goto
<1>1. CASE Run
  BY <1>1 DEF Run, SelectAccount, LeaveBetween, Exhausted, TokenFails, Exclude, BeginAttempt, LeaveDuring,
              Rotate, FailCommitted
<1>2. CASE KiroCall
  BY <1>2 DEF KiroCall, Accepted, Refused, StreamBreaks, StreamEnds, FailWith, NextEndpoint, Nothing
<1>3. CASE Events
  <2>1. pc = "stream" /\ pc' = "stream" /\ acc' = stream'
    BY <1>3 DEF Events, OnText, OnReasoning, OnToolUse, OnStopReason, Receive
  <2>2. HasOutput(stream')
    BY <1>3 DEF Events, OnText, OnReasoning, OnToolUse, OnStopReason, Receive, HasOutput, Shape, StreamTyped
  <2>3. QED
    BY <2>1, <2>2 DEF HasOutput
<1>4. CASE Retry
  BY <1>4 DEF Retry, Complete, RetryTruncated, GiveUpTruncated, FailWith, Reset
<1>5. CASE Disconnect \/ Finished \/ UNCHANGED vars
  BY <1>5 DEF Disconnect, Finished, vars, HasOutput
<1>6. QED
  BY <1>1, <1>2, <1>3, <1>4, <1>5 DEF Next

\* However often a stream is repeated, on one endpoint, on the next or by the integrity retry, an
\* answer told as complete is one the upstream sent whole, provided that a stream names its stop
\* reason after some output.
THEOREM CompleteAnswersAreWhole ==
  ASSUME ~EarlyStop
  PROVE  Spec => CompleteIsWhole
<1>1. Init => Faithful
  BY DEF Init, Faithful
<1>2. Shape /\ Faithful /\ [Next]_vars => Faithful'
  BY FaithfulNext
<1>3. ASSUME Shape, Faithful, [Next]_vars, ended = "no", ended' = "complete" PROVE Whole(stream)
  <2>1. Complete
    BY <1>3 DEF Next, Run, KiroCall, Events, Retry, SelectAccount, LeaveBetween, Exhausted, TokenFails,
         BeginAttempt, LeaveDuring, Rotate, FailCommitted, Accepted, Refused, StreamBreaks, StreamEnds,
         OnText, OnReasoning, OnToolUse, OnStopReason, Receive, RetryTruncated, GiveUpTruncated,
         Disconnect, Finished, vars, client
  <2>2. QED
    BY <1>3, <2>1 DEF Complete, Faithful
<1>4. Shape /\ Faithful /\ [Next]_vars => [ended = "no" /\ ended' = "complete" => Whole(stream)]_vars
  BY <1>3
<1>5. QED
  BY <1>1, <1>2, <1>4, ShapeHolds, PTL DEF Spec, CompleteIsWhole

\* The cardinalities and sums the components are written with are those of the library.
LEMMA SameSizes ==
    \A S : /\ Talk!Cardinality(S) = Cardinality(S) /\ Loop!Cardinality(S) = Cardinality(S)
           /\ Lookup!Cardinality(S) = Cardinality(S) /\ Responses!Cardinality(S) = Cardinality(S)
BY DEF Cardinality, Talk!Cardinality, Loop!Cardinality, Lookup!Cardinality, Responses!Cardinality

LEMMA SameSums ==
    \A f, S : /\ Talk!SumFunctionOnSet(f, S) = SumFunctionOnSet(f, S)
              /\ Loop!SumFunctionOnSet(f, S) = SumFunctionOnSet(f, S)
BY DEF SumFunctionOnSet, FoldFunctionOnSet, MapThenFoldSet,
       Talk!SumFunctionOnSet, Talk!FoldFunctionOnSet, Talk!MapThenFoldSet,
       Loop!SumFunctionOnSet, Loop!FoldFunctionOnSet, Loop!MapThenFoldSet


(***************************************************************************)
(* The conversation runner                                                 *)
(*                                                                         *)
(* Of a round's tool uses one is searched for every query that is neither  *)
(* known nor already searched for. A query is therefore paid once, what is *)
(* known never outgrows the tool uses counted, and an answer kept under    *)
(* its query reaches every use that asks it.                               *)
(***************************************************************************)
\* Finitely many queries, none of them empty or the name of nothing; the configured limits are numbers.
Askable == /\ IsFiniteSet(Queries) /\ Empty \notin Queries /\ Talk!None \notin Queries
           /\ MaxRounds \in Nat \ {0} /\ SearchCap \in Nat /\ RoundUses \in Nat /\ Parallel \in Int

States  == {"waiting", "running", "sent", "answered", "failed", "skipped"}
Charged == {"sent", "answered", "failed"}
Uses    == [id : Nat \X Nat, query : Queries \cup {Empty}]
Answers == [id : Nat \X Nat, about : Queries \cup {Empty, Talk!Budget}]
AnsweredRounds == {t \in [uses : Seq(Uses), answers : Seq(Answers)] :
    /\ Len(t.answers) = Len(t.uses)
    /\ \A i \in 1 .. Len(t.uses) : t.answers[i] = Talk!Answer(t.uses[i], t.uses[i].query)
                                   \/ t.answers[i] = Talk!Answer(t.uses[i], Talk!Budget)}

Known  == {q \in Queries : cache[q] # Talk!None}
Bought == {q \in Queries : paid[q] = 1}

\* Where the request stands, and what it has used of its budget.
Counted ==
    /\ policy.searches \in Nat /\ calls \in Nat /\ rounds \in Nat
    /\ stage \in {"call", "search", "final", "done"}
    /\ firstErr \in {Talk!None, "search", "context"}
    /\ outcome \in {Talk!None, "canceled", "upstream", "answered", "mixed", "search", "context", "crash"}
    /\ firstErr = "context" => away
    /\ outcome = "context" => away
    /\ calls <= policy.searches /\ rounds <= MaxRounds + 1
    /\ stage = "call" => rounds < MaxRounds
    /\ stage \in {"search", "final"} => rounds <= MaxRounds

\* A round's searches: tool uses of the round, one for each query that is not known.
Scheduled ==
    /\ uses \in Seq(Uses)
    /\ work \in [DOMAIN work -> States] /\ DOMAIN work \subseteq 1 .. Len(uses)
    /\ stage = "search" =>
          /\ calls + Len(uses) <= policy.searches
          /\ \A i \in DOMAIN work : Talk!Query(i) # Empty =>
                /\ cache[Talk!Query(i)] = Talk!None
                /\ \A j \in DOMAIN work : Talk!Query(j) = Talk!Query(i) => j = i
          /\ \A i \in 1 .. Len(uses) : Talk!Query(i) # Empty /\ cache[Talk!Query(i)] = Talk!None =>
                \E j \in DOMAIN work : Talk!Query(j) = Talk!Query(i)

\* What stops a search is an error told, or the client's leaving.
Blamed == stage = "search" => \A i \in DOMAIN work : /\ work[i] = "failed" => firstErr # Talk!None
                                                     /\ work[i] = "skipped" => away \/ firstErr # Talk!None

\* What was paid is known, or was sent for in this round.
PaidOnce ==
    /\ paid \in [Queries -> {0, 1}] /\ cache \in [Queries -> Queries \cup {Talk!None, "nothing"}]
    /\ stage \in {"call", "final"} => Bought \subseteq Known
    /\ stage \in {"call", "final", "search"} => Cardinality(Known) <= calls
    /\ stage = "search" => \A q \in Bought :
          q \in Known \/ \E i \in DOMAIN work : Talk!Query(i) = q /\ work[i] \in Charged
    /\ stage = "done" => Cardinality(Bought) <= policy.searches

InSlots == Cardinality(Talk!Running) <= (IF Parallel <= 0 THEN 1 ELSE Parallel)

\* Until the client leaves, what is kept of a query is its own answer, and every use has one.
Answered == ~away => /\ turns \in Seq(AnsweredRounds)
                     /\ stage # "done" => \A q \in Queries : cache[q] \in {Talk!None, q}

Conversing == Counted /\ Scheduled /\ Blamed /\ PaidOnce /\ InSlots /\ Answered

----------------------------------------------------------------------------
\* A search of the round goes on.
Moves(i, s) ==
    /\ i \in DOMAIN work /\ stage = "search" /\ s \in States /\ work' = [work EXCEPT ![i] = s]
    /\ UNCHANGED <<policy, stage, rounds, calls, turns, uses, cache, away, outcome>>
    /\ IF s = "failed" THEN firstErr' = IF firstErr # Talk!None THEN firstErr ELSE IF away THEN "context" ELSE "search"
                       ELSE UNCHANGED firstErr
    /\ s = "skipped" => away \/ firstErr # Talk!None
    /\ IF s = "sent" THEN /\ work[i] = "running" /\ Talk!Query(i) # Empty
                          /\ paid' = [paid EXCEPT ![Talk!Query(i)] = @ + 1]
                     ELSE /\ UNCHANGED paid
                          /\ work[i] \in Charged => s \in Charged
    /\ s \in {"running", "sent"} => work[i] \in {"running", "sent"} \/ Cardinality(Talk!Running) < Talk!Limit

LEMMA SearchesMove ==
    ASSUME NEW i \in DOMAIN work,
           Talk!Start(i) \/ Talk!Reject(i) \/ Talk!Search(i) \/ Talk!Found(i) \/ Talk!Fails(i)
    PROVE  \E s : Moves(i, s)
<1>1. CASE Talk!Start(i)
  <2> DEFINE s == IF Talk!Stopped THEN "skipped" ELSE "running"
  <2>1. Moves(i, s)  BY <1>1, SameSizes DEF Talk!Start, Talk!Set, Talk!Stopped, Moves, States, Charged
  <2>2. QED  BY <2>1
<1>2. CASE Talk!Reject(i)
  <2>1. Moves(i, "answered")  BY <1>2 DEF Talk!Reject, Talk!Set, Moves, States, Charged
  <2>2. QED  BY <2>1
<1>3. CASE Talk!Search(i)
  <2>1. Moves(i, "sent")  BY <1>3 DEF Talk!Search, Talk!Set, Moves, States, Charged
  <2>2. QED  BY <2>1
<1>4. CASE Talk!Found(i)
  <2>1. Moves(i, "answered")  BY <1>4 DEF Talk!Found, Talk!Set, Moves, States, Charged
  <2>2. QED  BY <2>1
<1>5. CASE Talk!Fails(i)
  <2>1. Moves(i, "failed")
      BY <1>5 DEF Talk!Fails, Talk!Set, Talk!FirstErr, Talk!Stopped, Moves, States, Charged
  <2>2. QED  BY <2>1
<1>6. QED  BY <1>1, <1>2, <1>3, <1>4, <1>5

LEMMA WorkIsFinite ==
    ASSUME Scheduled
    PROVE  /\ Len(uses) \in Nat /\ IsFiniteSet(DOMAIN work) /\ Cardinality(DOMAIN work) \in Nat
           /\ Cardinality(DOMAIN work) <= Len(uses)
           /\ IsFiniteSet(Talk!Running) /\ Cardinality(Talk!Running) \in Nat
<1> DEFINE n == Len(uses)
<1>1. n \in Nat /\ DOMAIN work \subseteq 1 .. n  BY DEF Scheduled
<1> HIDE DEF n
<1>2. IsFiniteSet(1 .. n) /\ Cardinality(1 .. n) = n  BY <1>1, FS_Interval
<1>3. IsFiniteSet(DOMAIN work) /\ Cardinality(DOMAIN work) \in Nat /\ Cardinality(DOMAIN work) <= n
    BY <1>1, <1>2, FS_Subset, FS_CardinalityType
<1>4. Talk!Running \subseteq DOMAIN work  BY DEF Talk!Running
<1>5. IsFiniteSet(Talk!Running) /\ Cardinality(Talk!Running) \in Nat
    BY <1>3, <1>4, FS_Subset, FS_CardinalityType
<1>6. QED  BY <1>1, <1>3, <1>5 DEF n

\* A round makes no more queries known than it has tool uses.
LEMMA RoundFits ==
    ASSUME Askable, Scheduled, NEW K, K \subseteq Known \cup {Talk!Query(i) : i \in DOMAIN work},
           K \subseteq Queries,
           Cardinality(Known) <= calls, calls \in Nat
    PROVE  Cardinality(K) <= calls + Len(uses)
<1> DEFINE Q == {Talk!Query(i) : i \in DOMAIN work}
           f == [i \in DOMAIN work |-> Talk!Query(i)]
<1>1. f \in Surjection(DOMAIN work, Q)  BY DEF Surjection
<1>2. IsFiniteSet(Q) /\ Cardinality(Q) <= Cardinality(DOMAIN work)
  <2> HIDE DEF f, Q
  <2> QED  BY <1>1, WorkIsFinite, FS_Surjection
<1>3. IsFiniteSet(Known) /\ Cardinality(Known) \in Nat
    BY FS_Subset, FS_CardinalityType DEF Known, Askable
<1> HIDE DEF Q
<1>4. Cardinality(Q) \in Nat  BY <1>2, FS_CardinalityType
<1>5. IsFiniteSet(Known \cup Q) /\ Cardinality(Known \cup Q) <= Cardinality(Known) + Cardinality(Q)
  <2> DEFINE A == Known
  <2>1. IsFiniteSet(A) /\ Cardinality(A) \in Nat  BY <1>3
  <2> HIDE DEF A
  <2>2. A \cap Q \subseteq Q  OBVIOUS
  <2>3. Cardinality(A \cap Q) \in Nat
      BY <1>2, <2>2, FS_Subset, FS_CardinalityType
  <2>4. IsFiniteSet(A \cup Q) /\ Cardinality(A \cup Q) = Cardinality(A) + Cardinality(Q) - Cardinality(A \cap Q)
      BY <1>2, <2>1, FS_Union
  <2>5. Cardinality(A \cup Q) <= Cardinality(A) + Cardinality(Q)
    <3> DEFINE a == Cardinality(A)
               b == Cardinality(Q)
               c == Cardinality(A \cap Q)
               d == Cardinality(A \cup Q)
    <3>1. a \in Nat /\ b \in Nat /\ c \in Nat /\ d = a + b - c  BY <1>4, <2>1, <2>3, <2>4
    <3> HIDE DEF a, b, c, d
    <3>2. d <= a + b  BY <3>1
    <3>3. QED  BY <3>2 DEF a, b, d
  <2>6. QED  BY <2>4, <2>5 DEF A
<1>6. Cardinality(K) <= Cardinality(Known \cup Q) /\ Cardinality(K) \in Nat /\ Cardinality(Known \cup Q) \in Nat
    BY <1>5, FS_Subset, FS_CardinalityType DEF Q
<1>7. QED
  <2> DEFINE a == Cardinality(K)
             b == Cardinality(Known \cup Q)
             c == Cardinality(Known)
             d == Cardinality(Q)
             e == Cardinality(DOMAIN work)
             l == Len(uses)
  <2>1. a <= b /\ b <= c + d /\ c <= calls /\ d <= e /\ e <= l
      BY <1>2, <1>5, <1>6, WorkIsFinite
  <2>2. a \in Nat /\ b \in Nat /\ c \in Nat /\ d \in Nat /\ e \in Nat /\ l \in Nat
      BY <1>3, <1>4, <1>6, WorkIsFinite
  <2> HIDE DEF a, b, c, d, e, l
  <2>3. a <= calls + l  BY <2>1, <2>2
  <2>4. QED  BY <2>3 DEF a, l

LEMMA RoundPays ==
    ASSUME Askable, Counted, Scheduled, PaidOnce, stage = "search"
    PROVE  Cardinality(Bought) <= policy.searches
<1>1. Bought \subseteq Known \cup {Talk!Query(i) : i \in DOMAIN work} /\ Bought \subseteq Queries
    BY DEF PaidOnce, Bought
<1>2. Cardinality(Bought) <= calls + Len(uses)  BY <1>1, RoundFits DEF PaidOnce, Counted
<1>3. IsFiniteSet(Bought) /\ Cardinality(Bought) \in Nat
    BY FS_Subset, FS_CardinalityType DEF Bought, Askable
<1>4. Len(uses) \in Nat  BY WorkIsFinite
<1>5. QED  BY <1>2, <1>3, <1>4 DEF Scheduled, Counted

\* A search that goes on keeps all this.
LEMMA MovesKeep == ASSUME Askable, Conversing, NEW i, NEW s, Moves(i, s) PROVE Conversing'
<1> DEFINE W == DOMAIN work
<1>0. /\ Counted /\ Scheduled /\ Blamed /\ PaidOnce /\ InSlots /\ Answered  BY DEF Conversing
<1>1. /\ work \in [W -> States] /\ i \in W /\ s \in States /\ work' = [work EXCEPT ![i] = s]
      /\ UNCHANGED <<policy, stage, rounds, calls, turns, uses, cache, away, outcome>> /\ stage = "search"
    BY <1>0 DEF Moves, Scheduled
<1>2. DOMAIN work' = W /\ work' \in [W -> States] /\ work'[i] = s /\ \A j \in W : j # i => work'[j] = work[j]
  <2> HIDE DEF W
  <2> QED  BY <1>1
<1>3. \A j : Talk!Query(j)' = Talk!Query(j)  BY <1>1 DEF Talk!Query
<1>4. Counted'  BY <1>0, <1>1 DEF Moves, Counted
<1>5. Scheduled'  BY <1>0, <1>1, <1>2 DEF Scheduled, Talk!Query
<1>6. Blamed'
  <2> SUFFICES ASSUME NEW j \in W
               PROVE  /\ work'[j] = "failed" => firstErr' # Talk!None
                      /\ work'[j] = "skipped" => away \/ firstErr' # Talk!None
      BY <1>1, <1>2 DEF Blamed
  <2>1. firstErr # Talk!None => firstErr' # Talk!None  BY DEF Moves
  <2>2. CASE j = i  BY <1>2, <2>1, <2>2 DEF Moves, Talk!None
  <2>3. CASE j # i  BY <1>0, <1>1, <1>2, <2>1, <2>3 DEF Blamed
  <2>4. QED  BY <2>2, <2>3
<1>7. PaidOnce'
  <2>1. Known' = Known  BY <1>1 DEF Known
  <2>2. CASE s # "sent"
    <3>1. UNCHANGED paid /\ (work[i] \in Charged => s \in Charged)  BY <2>2 DEF Moves
    <3>2. Bought' = Bought  BY <3>1 DEF Bought
    <3>3. \A j \in W : work[j] \in Charged => work'[j] \in Charged  BY <1>2, <3>1
    <3>4. QED  BY <1>0, <1>1, <1>2, <1>3, <2>1, <3>1, <3>2, <3>3 DEF PaidOnce
  <2>3. CASE s = "sent"
    <3> DEFINE q == Talk!Query(i)
    <3>1. work[i] = "running" /\ q # Empty /\ paid' = [paid EXCEPT ![q] = @ + 1]  BY <2>3 DEF Moves
    <3>2. q \in Queries
      <4>1. i \in 1 .. Len(uses)  BY <1>0, <1>1 DEF Scheduled
      <4>2. uses[i] \in Uses  BY <1>0, <4>1 DEF Scheduled
      <4>3. QED  BY <3>1, <4>2 DEF Uses, Talk!Query
    <3>3. q \notin Bought
      <4>1. cache[q] = Talk!None /\ \A j \in W : Talk!Query(j) = q => j = i
          BY <1>0, <1>1, <3>1 DEF Scheduled
      <4>2. q \notin Known  BY <4>1 DEF Known
      <4>3. QED  BY <1>0, <1>1, <3>1, <4>1, <4>2 DEF PaidOnce, Charged
    <3> HIDE DEF q
    <3>4. paid \in [Queries -> {0, 1}] /\ paid[q] = 0  BY <1>0, <3>2, <3>3 DEF PaidOnce, Bought
    <3>5. paid' \in [Queries -> {0, 1}] /\ Bought' = Bought \cup {q}
        BY <3>1, <3>2, <3>4 DEF Bought
    <3>6. \A j \in W : work[j] \in Charged => work'[j] \in Charged  BY <1>2, <2>3 DEF Charged
    <3>7. ASSUME NEW p \in Bought'
          PROVE p \in Known \/ \E j \in W : Talk!Query(j) = p /\ work'[j] \in Charged
      <4>1. CASE p = q  BY <1>1, <1>2, <2>3, <4>1 DEF q, Charged
      <4>2. CASE p \in Bought  BY <1>0, <1>1, <3>6, <4>2 DEF PaidOnce
      <4>3. QED  BY <3>5, <4>1, <4>2
    <3>8. QED  BY <1>0, <1>1, <1>2, <1>3, <2>1, <3>5, <3>7 DEF PaidOnce
  <2>4. QED  BY <2>2, <2>3
<1>8. InSlots'
  <2> DEFINE k == IF Parallel <= 0 THEN 1 ELSE Parallel
  <2>1. /\ IsFiniteSet(Talk!Running) /\ Cardinality(Talk!Running) \in Nat /\ Cardinality(W) \in Nat
      BY <1>0, WorkIsFinite
  <2>2. k \in Nat /\ Talk!Limit <= k /\ Talk!Limit \in Nat
      BY <2>1, SameSizes DEF Talk!Limit, Talk!Least, Askable
  <2>3. CASE work[i] \in {"running", "sent"} \/ s \notin {"running", "sent"}
    <3>1. Talk!Running' \subseteq Talk!Running  BY <1>1, <1>2, <2>3 DEF Talk!Running
    <3>2. Cardinality(Talk!Running') <= Cardinality(Talk!Running) /\ Cardinality(Talk!Running') \in Nat
        BY <2>1, <3>1, FS_Subset, FS_CardinalityType
    <3>3. QED  BY <1>0, <2>1, <2>2, <3>2 DEF InSlots
  <2>4. CASE Cardinality(Talk!Running) < Talk!Limit
    <3>1. Talk!Running' \subseteq Talk!Running \cup {i}  BY <1>1, <1>2 DEF Talk!Running
    <3>2. IsFiniteSet(Talk!Running \cup {i}) /\ Cardinality(Talk!Running \cup {i}) <= Cardinality(Talk!Running) + 1
          /\ Cardinality(Talk!Running \cup {i}) \in Nat
      <4> DEFINE R == Talk!Running
      <4>1. IsFiniteSet(R) /\ Cardinality(R) \in Nat  BY <2>1
      <4> HIDE DEF R
      <4>2. IsFiniteSet(R \cup {i}) /\ Cardinality(R \cup {i}) <= Cardinality(R) + 1
        <5>1. CASE i \in R
          <6>1. R \cup {i} = R  BY <5>1
          <6>2. QED  BY <4>1, <6>1
        <5>2. CASE i \notin R
          <6>1. IsFiniteSet(R \cup {i}) /\ Cardinality(R \cup {i}) = Cardinality(R) + 1
              BY <4>1, <5>2, FS_AddElement
          <6>2. QED  BY <4>1, <6>1
        <5>3. QED  BY <5>1, <5>2
      <4>3. Cardinality(R \cup {i}) \in Nat  BY <4>2, FS_CardinalityType
      <4>4. QED  BY <4>2, <4>3 DEF R
    <3>3. Cardinality(Talk!Running') <= Cardinality(Talk!Running \cup {i}) /\ Cardinality(Talk!Running') \in Nat
        BY <3>1, <3>2, FS_Subset, FS_CardinalityType
    <3>4. Cardinality(Talk!Running') <= k
      <4> HIDE DEF k
      <4> QED  BY <2>1, <2>2, <2>4, <3>2, <3>3
    <3>5. QED  BY <3>4 DEF InSlots
  <2>5. QED  BY <2>3, <2>4 DEF Moves
<1>9. Answered'  BY <1>0, <1>1 DEF Answered
<1>10. QED  BY <1>4, <1>5, <1>6, <1>7, <1>8, <1>9 DEF Conversing

LEMMA StartsConversing == ASSUME Askable, Talk!Init PROVE Conversing
<1>1. PICK asked \in 0 .. SearchCap + 1, p \in Availability : policy = [searches |-> Talk!Effective(asked), provider |-> p]
    BY DEF Talk!Init
<1>2. policy.searches \in Nat  BY <1>1 DEF Talk!Effective, Askable
<1>3. Counted  BY <1>2 DEF Talk!Init, Counted, Askable, Talk!None
<1>4. DOMAIN work = {} /\ Len(uses) = 0  BY DEF Talk!Init
<1>5. Scheduled
  <2>1. work \in [DOMAIN work -> States] /\ uses \in Seq(Uses)  BY <1>4 DEF Talk!Init
  <2>2. QED  BY <1>4, <2>1 DEF Scheduled, Talk!Init
<1>6. Blamed  BY DEF Blamed, Talk!Init
<1>7. Known = {} /\ Bought = {} /\ Talk!Running = {}  BY <1>4 DEF Talk!Init, Known, Bought, Talk!Running
<1>8. Cardinality({}) = 0  BY FS_EmptySet
<1>9. PaidOnce  BY <1>7, <1>8 DEF PaidOnce, Talk!Init
<1>10. InSlots  BY <1>7, <1>8 DEF InSlots, Askable
<1>11. Answered  BY DEF Answered, Talk!Init, Talk!None
<1>12. QED  BY <1>3, <1>5, <1>6, <1>9, <1>10, <1>11 DEF Conversing

\* What a request bought is within what it may buy, wherever it stands.
LEMMA BoughtFits ==
    ASSUME Askable, Conversing PROVE Cardinality(Bought) <= policy.searches
<1>0. Counted /\ Scheduled /\ PaidOnce  BY DEF Conversing
<1>1. CASE stage = "search"  BY <1>0, <1>1, RoundPays
<1>2. CASE stage \in {"call", "final"}
  <2>1. Bought \subseteq Known /\ Cardinality(Known) <= calls  BY <1>0, <1>2 DEF PaidOnce
  <2>2. IsFiniteSet(Known)  BY FS_Subset DEF Known, Askable
  <2>3. Cardinality(Bought) <= Cardinality(Known) /\ Cardinality(Bought) \in Nat /\ Cardinality(Known) \in Nat
      BY <2>1, <2>2, FS_Subset, FS_CardinalityType
  <2>4. QED
    <3> DEFINE a == Cardinality(Bought)
               b == Cardinality(Known)
    <3> HIDE DEF a, b
    <3>1. a \in Nat /\ b \in Nat /\ a <= b /\ b <= calls  BY <2>1, <2>3 DEF a, b
    <3>2. a <= policy.searches  BY <1>0, <3>1 DEF Counted
    <3>3. QED  BY <3>2 DEF a
<1>3. CASE stage = "done"  BY <1>0, <1>3 DEF PaidOnce
<1>4. QED  BY <1>0, <1>1, <1>2, <1>3 DEF Counted

\* A request that ends.
LEMMA EndKeeps ==
    ASSUME Askable, Conversing, stage # "done", stage' = "done",
           UNCHANGED <<policy, calls, turns, firstErr, away, paid>>,
           cache' \in [Queries -> Queries \cup {Talk!None, "nothing"}],
           \/ UNCHANGED <<uses, work>>
           \/ uses' = <<>> /\ work' = <<>>,
           rounds' = rounds \/ (Talk!Due /\ rounds' = rounds + 1),
           outcome' \in {"canceled", "upstream", "answered", "mixed", "search", "context", "crash"},
           outcome' = "context" => away
    PROVE  Conversing'
<1>0. /\ Counted /\ Scheduled /\ Blamed /\ PaidOnce /\ InSlots /\ Answered  BY DEF Conversing
<1>1. Counted'  BY <1>0 DEF Counted, Talk!Due, Askable
<1>2. Scheduled'
  <2>1. CASE UNCHANGED <<uses, work>>  BY <1>0, <2>1 DEF Scheduled
  <2>2. CASE uses' = <<>> /\ work' = <<>>
    <3>1. DOMAIN work' = {} /\ uses' \in Seq(Uses) /\ work' \in [DOMAIN work' -> States]  BY <2>2
    <3>2. QED  BY <3>1 DEF Scheduled
  <2>3. QED  BY <2>1, <2>2
<1>3. Blamed'  BY DEF Blamed
<1>4. PaidOnce'
  <2>1. Bought' = Bought  BY DEF Bought
  <2>2. Cardinality(Bought) <= policy.searches  BY BoughtFits
  <2>3. QED  BY <1>0, <2>1, <2>2 DEF PaidOnce
<1>5. InSlots'
  <2>1. CASE UNCHANGED <<uses, work>>  BY <1>0, <2>1 DEF InSlots, Talk!Running
  <2>2. CASE work' = <<>>
    <3>1. Talk!Running' = {}  BY <2>2 DEF Talk!Running
    <3>2. QED  BY <3>1, FS_EmptySet DEF InSlots, Askable
  <2>3. QED  BY <2>1, <2>2
<1>6. Answered'  BY <1>0 DEF Answered
<1>7. QED  BY <1>1, <1>2, <1>3, <1>4, <1>5, <1>6 DEF Conversing

LEMMA LeavingKeeps == ASSUME Askable, Conversing, Talk!ClientLeaves PROVE Conversing'
<1>0. /\ Counted /\ Scheduled /\ Blamed /\ PaidOnce /\ InSlots /\ Answered  BY DEF Conversing
<1>1. UNCHANGED <<policy, stage, rounds, calls, turns, uses, work, cache, firstErr, paid, outcome>> /\ away' = TRUE
    BY DEF Talk!ClientLeaves
<1>2. Counted'  BY <1>0, <1>1 DEF Counted
<1>3. Scheduled'  BY <1>0, <1>1 DEF Scheduled, Talk!Query
<1>4. Blamed'  BY <1>0, <1>1 DEF Blamed
<1>5. PaidOnce'  BY <1>0, <1>1 DEF PaidOnce, Known, Bought, Talk!Query
<1>6. InSlots'  BY <1>0, <1>1 DEF InSlots, Talk!Running
<1>7. Answered'  BY <1>1 DEF Answered
<1>8. QED  BY <1>2, <1>3, <1>4, <1>5, <1>6, <1>7 DEF Conversing

\* A turn whose uses have each been answered is one more of the conversation.
LEMMA TurnsGrow ==
    ASSUME NEW us \in Seq(Uses), NEW as, as \in [DOMAIN us -> Answers],
           \A i \in DOMAIN us : as[i] = Talk!Answer(us[i], us[i].query) \/ as[i] = Talk!Answer(us[i], Talk!Budget),
           turns \in Seq(AnsweredRounds), Talk!Advance(us, as)
    PROVE  turns' \in Seq(AnsweredRounds)
<1> DEFINE t == [uses |-> us, answers |-> as]
<1>1. DOMAIN us = 1 .. Len(us) /\ Len(us) \in Nat  OBVIOUS
<1>2. as \in Seq(Answers) /\ Len(as) = Len(us)
  <2> DEFINE n == Len(us)
  <2>1. n \in Nat /\ as \in [1 .. n -> Answers]  BY <1>1
  <2> HIDE DEF n
  <2>2. as \in Seq(Answers)  BY <2>1, SeqDef
  <2>3. Len(as) = n  BY <2>1, <2>2, LenProperties
  <2>4. QED  BY <2>2, <2>3 DEF n
<1>3. t \in AnsweredRounds
  <2>1. t \in [uses : Seq(Uses), answers : Seq(Answers)]  BY <1>2
  <2>2. Len(t.answers) = Len(t.uses)  BY <1>2
  <2>3. \A i \in 1 .. Len(t.uses) : t.answers[i] = Talk!Answer(t.uses[i], t.uses[i].query)
                                    \/ t.answers[i] = Talk!Answer(t.uses[i], Talk!Budget)
      BY <1>1
  <2>4. QED  BY <2>1, <2>2, <2>3 DEF AnsweredRounds
<1>4. turns' = Append(turns, t)  BY DEF Talk!Advance
<1> HIDE DEF t
<1>5. QED  BY <1>3, <1>4

LEMMA RunsOneEach ==
    ASSUME Askable, NEW us \in Seq(Uses), NEW i \in DOMAIN us, us[i].query # Empty,
           cache[us[i].query] = Talk!None
    PROVE  \E j \in Talk!ToRun(us) : us[j].query = us[i].query
<1> DEFINE q == us[i].query
           T == {j \in DOMAIN us : us[j].query = q}
<1>1. DOMAIN us \in SUBSET Nat  OBVIOUS
<1>2. T \in SUBSET Nat /\ i \in T  BY <1>1
<1>3. \E m \in T : \A k \in T : m <= k
  <2> HIDE DEF T
  <2> QED  BY <1>2, LeastNatural
<1>4. PICK m \in T : \A k \in T : m <= k  BY <1>3
<1>5. \A j \in 1 .. m - 1 : us[j].query # q
  <2> SUFFICES ASSUME NEW j \in 1 .. m - 1, us[j].query = q PROVE FALSE
      OBVIOUS
  <2>1. m \in 1 .. Len(us) /\ Len(us) \in Nat  BY <1>4
  <2>2. j \in 1 .. Len(us)  BY <2>1
  <2>3. j \in T  BY <2>2
  <2>4. QED  BY <1>4, <2>1, <2>3
<1>6. m \in Talk!ToRun(us)  BY <1>4, <1>5 DEF Talk!ToRun, Talk!Keyed
<1>7. QED  BY <1>4, <1>6

LEMMA AskedUses ==
    ASSUME Askable, Counted, NEW us \in Talk!Asked
    PROVE  us \in Seq(Uses)
<1>1. PICK n \in 1 .. RoundUses :
          us \in {[i \in 1 .. n |-> [id |-> <<rounds, i>>, query |-> f[i]]] : f \in [1 .. n -> Queries \cup {Empty}]}
    BY DEF Talk!Asked
<1>2. PICK f \in [1 .. n -> Queries \cup {Empty}] : us = [i \in 1 .. n |-> [id |-> <<rounds, i>>, query |-> f[i]]]
    BY <1>1
<1>3. n \in Nat /\ rounds \in Nat  BY <1>1 DEF Askable, Counted
<1>4. \A i \in 1 .. n : [id |-> <<rounds, i>>, query |-> f[i]] \in Uses  BY <1>2, <1>3 DEF Uses
<1>5. us \in [1 .. n -> Uses]
  <2> DEFINE u(i) == [id |-> <<rounds, i>>, query |-> f[i]]
  <2>1. us = [i \in 1 .. n |-> u(i)] /\ \A i \in 1 .. n : u(i) \in Uses  BY <1>2, <1>4
  <2> HIDE DEF u
  <2>2. QED  BY <2>1
<1>6. QED  BY <1>3, <1>5

LEMMA RoundKeeps == ASSUME Askable, Conversing, Talk!SearchRound PROVE Conversing'
<1>0. /\ Counted /\ Scheduled /\ Blamed /\ PaidOnce /\ InSlots /\ Answered  BY DEF Conversing
<1>1. PICK us \in Talk!Asked :
          \/ /\ Talk!OverBudget(Len(us)) /\ stage' = "final"
             /\ Talk!Advance(us, [i \in DOMAIN us |-> Talk!Answer(us[i], Talk!Budget)])
             /\ UNCHANGED <<uses, work>>
          \/ /\ ~Talk!OverBudget(Len(us)) /\ stage' = "search" /\ uses' = us
             /\ work' = [i \in Talk!ToRun(us) |-> "waiting"]
             /\ UNCHANGED turns
    BY DEF Talk!SearchRound
<1>2. /\ stage = "call" /\ rounds' = rounds + 1 /\ UNCHANGED <<policy, calls, cache, firstErr, away, paid, outcome>>
    BY DEF Talk!SearchRound
<1>3. us \in Seq(Uses) /\ Len(us) \in Nat /\ DOMAIN us = 1 .. Len(us)  BY <1>0, AskedUses
<1>4. stage' \in {"final", "search"}  BY <1>1
<1>5. Counted'  BY <1>0, <1>2, <1>4 DEF Counted, Askable
<1>6. CASE /\ Talk!OverBudget(Len(us)) /\ stage' = "final"
           /\ Talk!Advance(us, [i \in DOMAIN us |-> Talk!Answer(us[i], Talk!Budget)])
           /\ UNCHANGED <<uses, work>>
  <2>1. Scheduled' /\ Blamed' /\ InSlots'  BY <1>0, <1>6 DEF Scheduled, Blamed, InSlots, Talk!Running
  <2>2. Bought' = Bought /\ Known' = Known  BY <1>2 DEF Known, Bought
  <2>3. PaidOnce'  BY <1>0, <1>2, <1>6, <2>2 DEF PaidOnce
  <2>4. Answered'
    <3> SUFFICES ASSUME ~away PROVE turns' \in Seq(AnsweredRounds)
        BY <1>0, <1>2 DEF Answered
    <3> DEFINE as == [i \in DOMAIN us |-> Talk!Answer(us[i], Talk!Budget)]
    <3>1. \A i \in DOMAIN us : Talk!Answer(us[i], Talk!Budget) \in Answers
      <4>1. TAKE i \in DOMAIN us
      <4>2. us[i] \in Uses  BY <1>3
      <4>3. us[i].id \in Nat \X Nat  BY <4>2 DEF Uses
      <4>4. QED  BY <4>3 DEF Talk!Answer, Answers
    <3>2. as \in [DOMAIN us -> Answers] /\ \A i \in DOMAIN us : as[i] = Talk!Answer(us[i], Talk!Budget)
        BY <3>1
    <3>3. Talk!Advance(us, as)  BY <1>6
    <3>4. turns \in Seq(AnsweredRounds)  BY <1>0 DEF Answered
    <3> HIDE DEF as
    <3>5. QED  BY <1>3, <3>2, <3>3, <3>4, TurnsGrow
  <2>5. QED  BY <1>5, <2>1, <2>3, <2>4 DEF Conversing
<1>7. CASE /\ ~Talk!OverBudget(Len(us)) /\ stage' = "search" /\ uses' = us
           /\ work' = [i \in Talk!ToRun(us) |-> "waiting"]
           /\ UNCHANGED turns
  <2>1. Talk!ToRun(us) \subseteq DOMAIN us  BY DEF Talk!ToRun
  <2>2. DOMAIN work' = Talk!ToRun(us) /\ \A i \in Talk!ToRun(us) : work'[i] = "waiting"  BY <1>7
  <2>3. work' \in [DOMAIN work' -> States]
    <3> DEFINE R == Talk!ToRun(us)
    <3>1. work' = [i \in R |-> "waiting"]  BY <1>7
    <3> HIDE DEF R
    <3>2. QED  BY <3>1 DEF States
  <2>4. \A i : Talk!Query(i)' = us[i].query  BY <1>7 DEF Talk!Query
  <2>5. calls + Len(us) <= policy.searches  BY <1>0, <1>3, <1>7 DEF Talk!OverBudget, Counted
  <2>6. ASSUME NEW i \in Talk!ToRun(us), us[i].query # Empty
        PROVE  cache[us[i].query] = Talk!None /\ \A j \in Talk!ToRun(us) : us[j].query = us[i].query => j = i
    <3>1. cache[us[i].query] = Talk!None  BY <2>6 DEF Talk!ToRun, Talk!Keyed
    <3>2. ASSUME NEW j \in Talk!ToRun(us), us[j].query = us[i].query PROVE j = i
      <4>1. i \in 1 .. Len(us) /\ j \in 1 .. Len(us)  BY <1>3, <2>1
      <4>2. \A k \in 1 .. i - 1 : us[k].query # us[i].query  BY <2>6 DEF Talk!ToRun, Talk!Keyed
      <4>3. \A k \in 1 .. j - 1 : us[k].query # us[j].query  BY <2>6, <3>2 DEF Talk!ToRun, Talk!Keyed
      <4>4. j \notin 1 .. i - 1 /\ i \notin 1 .. j - 1  BY <3>2, <4>2, <4>3
      <4>5. QED  BY <1>3, <4>1, <4>4
    <3>3. QED  BY <3>1, <3>2
  <2>7. \A i \in DOMAIN us : us[i].query # Empty /\ cache[us[i].query] = Talk!None =>
            \E j \in Talk!ToRun(us) : us[j].query = us[i].query
      BY <1>3, RunsOneEach
  <2>8. Scheduled'  BY <1>2, <1>3, <1>7, <2>1, <2>2, <2>3, <2>4, <2>5, <2>6, <2>7 DEF Scheduled
  <2>9. Blamed'  BY <2>2 DEF Blamed
  <2>10. Bought' = Bought /\ Known' = Known  BY <1>2 DEF Known, Bought
  <2>11. PaidOnce'  BY <1>0, <1>2, <1>7, <2>10 DEF PaidOnce
  <2>12. Talk!Running' = {}  BY <2>2 DEF Talk!Running
  <2>13. InSlots'  BY <2>12, FS_EmptySet DEF InSlots, Askable
  <2>14. Answered'  BY <1>0, <1>2, <1>7 DEF Answered
  <2>15. QED  BY <1>5, <2>8, <2>9, <2>11, <2>13, <2>14 DEF Conversing
<1>8. QED  BY <1>1, <1>6, <1>7

\* The answers of a round come out under the queries they are about.
LEMMA FoldsAnswers ==
    ASSUME Askable, Scheduled, PaidOnce, stage = "search", NEW q \in Queries
    PROVE  /\ \A i \in DOMAIN work : Talk!Query(i) = q => /\ Talk!Folded[q] \in {q, "nothing"} /\ Talk!Folded[q] # Talk!None
                                                          /\ (\A j \in DOMAIN work : work[j] = "answered") => Talk!Folded[q] = q
           /\ (\A i \in DOMAIN work : Talk!Query(i) # q) => Talk!Folded[q] = cache[q]
<1> DEFINE c == CHOOSE i \in DOMAIN work : Talk!Query(i) = q
<1>1. Talk!Folded[q] = IF \E i \in DOMAIN work : Talk!Query(i) = q THEN Talk!Left(c) ELSE cache[q]
    BY DEF Talk!Folded
<1>2. q # Talk!None  BY DEF Askable
<1>3. ASSUME NEW i \in DOMAIN work, Talk!Query(i) = q
      PROVE  /\ Talk!Folded[q] \in {q, "nothing"} /\ Talk!Folded[q] # Talk!None
             /\ (\A j \in DOMAIN work : work[j] = "answered") => Talk!Folded[q] = q
  <2>1. c \in DOMAIN work /\ Talk!Query(c) = q  BY <1>3
  <2> HIDE DEF c
  <2>2. Talk!Folded[q] = Talk!Left(c)  BY <1>1, <1>3
  <2>3. QED  BY <1>2, <2>1, <2>2 DEF Talk!Left, Talk!None
<1>4. QED  BY <1>1, <1>3

LEMMA FoldIsACache ==
    ASSUME Askable, Scheduled, PaidOnce, stage = "search"
    PROVE  Talk!Folded \in [Queries -> Queries \cup {Talk!None, "nothing"}]
<1>1. \A q \in Queries : Talk!Folded[q] \in Queries \cup {Talk!None, "nothing"}
  <2>1. TAKE q \in Queries
  <2>2. CASE \E i \in DOMAIN work : Talk!Query(i) = q  BY <2>2, FoldsAnswers
  <2>3. CASE \A i \in DOMAIN work : Talk!Query(i) # q
    <3>1. Talk!Folded[q] = cache[q]  BY <2>3, FoldsAnswers
    <3>2. QED  BY <3>1 DEF PaidOnce
  <2>4. QED  BY <2>2, <2>3
<1>2. DOMAIN Talk!Folded = Queries /\ Talk!Folded = [q \in Queries |-> Talk!Folded[q]]  BY DEF Talk!Folded
<1> DEFINE f == Talk!Folded
<1>3. f = [q \in Queries |-> f[q]] /\ \A q \in Queries : f[q] \in Queries \cup {Talk!None, "nothing"}
    BY <1>1, <1>2
<1> HIDE DEF f
<1>4. f \in [Queries -> Queries \cup {Talk!None, "nothing"}]  BY <1>3
<1>5. QED  BY <1>4 DEF f

LEMMA AssembleKeeps == ASSUME Askable, Conversing, Talk!Assemble PROVE Conversing'
<1>0. /\ Counted /\ Scheduled /\ Blamed /\ PaidOnce /\ InSlots /\ Answered  BY DEF Conversing
<1>1. /\ stage = "search" /\ \A i \in DOMAIN work : work[i] \in {"answered", "failed", "skipped"}
      /\ uses' = <<>> /\ work' = <<>> /\ UNCHANGED <<policy, rounds, firstErr, away, paid>>
    BY DEF Talk!Assemble
<1>2. CASE firstErr # Talk!None /\ Talk!End(firstErr) /\ UNCHANGED <<calls, turns, cache>>
  <2>1. stage' = "done" /\ outcome' = firstErr  BY <1>2 DEF Talk!End
  <2>2. firstErr \in {"search", "context"} /\ (firstErr = "context" => away)  BY <1>0, <1>2 DEF Counted
  <2>3. cache' \in [Queries -> Queries \cup {Talk!None, "nothing"}]  BY <1>0, <1>2 DEF PaidOnce
  <2>4. QED  BY <1>1, <1>2, <2>1, <2>2, <2>3, EndKeeps
<1>3. CASE /\ firstErr = Talk!None /\ Talk!Missing /\ Talk!End("search")
           /\ cache' = Talk!Folded /\ UNCHANGED <<calls, turns>>
  <2>1. stage' = "done" /\ outcome' = "search"  BY <1>3 DEF Talk!End
  <2>2. cache' \in [Queries -> Queries \cup {Talk!None, "nothing"}]  BY <1>0, <1>1, <1>3, FoldIsACache
  <2>3. QED  BY <1>1, <1>3, <2>1, <2>2, EndKeeps
<1>4. CASE /\ firstErr = Talk!None /\ ~Talk!Missing
           /\ cache' = Talk!Folded /\ calls' = calls + Len(uses)
           /\ Talk!Advance(uses, [i \in DOMAIN uses |-> Talk!Assembled(i)])
           /\ stage' = IF rounds < MaxRounds THEN "call" ELSE "final"
           /\ UNCHANGED outcome
  <2>1. Len(uses) \in Nat /\ uses \in Seq(Uses) /\ DOMAIN uses = 1 .. Len(uses)  BY <1>0 DEF Scheduled
  <2>2. calls + Len(uses) <= policy.searches  BY <1>0, <1>1 DEF Scheduled
  <2>3. Counted'  BY <1>0, <1>1, <1>4, <2>1, <2>2 DEF Counted, Askable
  <2>4. DOMAIN work' = {} /\ stage' \in {"call", "final"}  BY <1>1, <1>4
  <2>5. Scheduled'
    <3>1. uses' \in Seq(Uses) /\ work' \in [DOMAIN work' -> States]  BY <1>1, <2>4
    <3>2. QED  BY <2>4, <3>1 DEF Scheduled
  <2>6. Blamed'  BY <2>4 DEF Blamed
  <2>7. Talk!Running' = {}  BY <2>4 DEF Talk!Running
  <2>8. InSlots'  BY <2>7, FS_EmptySet DEF InSlots, Askable
  <2>9. cache' \in [Queries -> Queries \cup {Talk!None, "nothing"}]  BY <1>0, <1>1, <1>4, FoldIsACache
  <2>10. \A q \in Queries : \/ \E i \in DOMAIN work : Talk!Query(i) = q /\ cache'[q] # Talk!None
                            \/ (\A i \in DOMAIN work : Talk!Query(i) # q) /\ cache'[q] = cache[q]
      BY <1>0, <1>1, <1>4, FoldsAnswers
  <2>11. PaidOnce'
    <3>1. Known' = {q \in Queries : cache'[q] # Talk!None} /\ Bought' = Bought  BY <1>1 DEF Known, Bought
    <3>2. Known' \subseteq Known \cup {Talk!Query(i) : i \in DOMAIN work} /\ Known' \subseteq Queries
        BY <2>10, <3>1 DEF Known
    <3>3. Cardinality(Known') <= calls + Len(uses)
      <4> DEFINE K == Known'
      <4>1. K \subseteq Known \cup {Talk!Query(i) : i \in DOMAIN work} /\ K \subseteq Queries  BY <3>2
      <4> HIDE DEF K
      <4>2. Cardinality(K) <= calls + Len(uses)  BY <1>0, <1>1, <4>1, RoundFits DEF PaidOnce, Counted
      <4>3. QED  BY <4>2 DEF K
    <3>4. Bought \subseteq Known'
      <4> SUFFICES ASSUME NEW q \in Bought PROVE cache'[q] # Talk!None
          BY <3>1 DEF Bought
      <4>1. q \in Queries /\ (q \in Known \/ \E i \in DOMAIN work : Talk!Query(i) = q)
          BY <1>0, <1>1 DEF PaidOnce, Bought
      <4>2. QED  BY <2>10, <4>1 DEF Known
    <3>5. QED  BY <1>0, <1>1, <1>4, <2>4, <2>9, <3>1, <3>3, <3>4 DEF PaidOnce
  <2>12. Answered'
    <3> SUFFICES ASSUME ~away
                 PROVE  turns' \in Seq(AnsweredRounds) /\ \A q \in Queries : cache'[q] \in {Talk!None, q}
        BY <1>1 DEF Answered
    <3>1. \A i \in DOMAIN work : work[i] = "answered"  BY <1>0, <1>1, <1>4 DEF Blamed
    <3>2. turns \in Seq(AnsweredRounds) /\ \A q \in Queries : cache[q] \in {Talk!None, q}
        BY <1>0, <1>1 DEF Answered
    <3>3. ASSUME NEW q \in Queries
          PROVE  /\ Talk!Folded[q] \in {Talk!None, q}
                 /\ cache[q] # Talk!None => Talk!Folded[q] = q
                 /\ (\E i \in DOMAIN work : Talk!Query(i) = q) => Talk!Folded[q] = q
      <4>1. CASE \E i \in DOMAIN work : Talk!Query(i) = q
        <5>1. Talk!Folded[q] = q  BY <1>0, <1>1, <3>1, <4>1, FoldsAnswers
        <5>2. QED  BY <5>1
      <4>2. CASE \A i \in DOMAIN work : Talk!Query(i) # q
        <5>1. Talk!Folded[q] = cache[q]  BY <1>0, <1>1, <4>2, FoldsAnswers
        <5>2. QED  BY <3>2, <4>2, <5>1
      <4>3. QED  BY <4>1, <4>2
    <3> DEFINE as == [i \in DOMAIN uses |-> Talk!Assembled(i)]
    <3>4. ASSUME NEW i \in DOMAIN uses
          PROVE  Talk!Assembled(i) = Talk!Answer(uses[i], uses[i].query) /\ Talk!Assembled(i) \in Answers
      <4>1. uses[i] \in Uses  BY <2>1
      <4>2. uses[i].id \in Nat \X Nat /\ uses[i].query \in Queries \cup {Empty}  BY <4>1 DEF Uses
      <4>3. Talk!Answer(uses[i], uses[i].query) \in Answers  BY <4>2 DEF Talk!Answer, Answers
      <4>4. CASE Talk!Fresh(i)  BY <4>3, <4>4 DEF Talk!Assembled
      <4>5. CASE ~Talk!Fresh(i)
        <5> DEFINE q == uses[i].query
        <5>1. q # Empty  BY <1>4, <4>5 DEF Talk!Missing, Talk!Keyed
        <5>2. q \in Queries /\ Talk!Query(i) = q  BY <4>2, <5>1 DEF Talk!Query
        <5>3. cache[q] # Talk!None \/ \E j \in DOMAIN work : Talk!Query(j) = q
            BY <1>0, <1>1, <2>1, <5>1, <5>2 DEF Scheduled
        <5>4. Talk!Folded[q] = q  BY <3>3, <5>2, <5>3
        <5>5. QED  BY <4>3, <4>5, <5>4 DEF Talk!Assembled, Talk!Addressee
      <4>6. QED  BY <4>4, <4>5
    <3>5. /\ as \in [DOMAIN uses -> Answers]
          /\ \A i \in DOMAIN uses : as[i] = Talk!Answer(uses[i], uses[i].query)
      <4> DEFINE a(i) == Talk!Assembled(i)
      <4>1. as = [i \in DOMAIN uses |-> a(i)] /\ \A i \in DOMAIN uses : a(i) \in Answers  BY <3>4
      <4>2. \A i \in DOMAIN uses : as[i] = Talk!Answer(uses[i], uses[i].query)  BY <3>4
      <4> HIDE DEF a, as
      <4>3. QED  BY <4>1, <4>2
    <3>6. Talk!Advance(uses, as)  BY <1>4
    <3> HIDE DEF as
    <3>7. turns' \in Seq(AnsweredRounds)  BY <2>1, <3>2, <3>5, <3>6, TurnsGrow
    <3>8. QED  BY <1>4, <3>3, <3>7
  <2>13. QED  BY <2>3, <2>5, <2>6, <2>8, <2>11, <2>12 DEF Conversing
<1>5. QED  BY <1>2, <1>3, <1>4 DEF Talk!Assemble

LEMMA ConversationGoes ==
    ASSUME Askable PROVE Talk!Init /\ [][Talk!Next]_(Talk!vars) => []Conversing
<1>1. Talk!Init => Conversing  BY StartsConversing
<1>2. Conversing /\ [Talk!Next]_(Talk!vars) => Conversing'
  <2> SUFFICES ASSUME Conversing, [Talk!Next]_(Talk!vars) PROVE Conversing'
      OBVIOUS
  <2>0. Counted /\ PaidOnce  BY DEF Conversing
  <2>1. cache \in [Queries -> Queries \cup {Talk!None, "nothing"}]  BY <2>0 DEF PaidOnce
  <2>2. ASSUME Talk!Canceled
        PROVE Conversing'  BY <2>1, <2>2, EndKeeps DEF Talk!Canceled, Talk!Due, Talk!End
  <2>3. ASSUME Talk!RoundFails
        PROVE Conversing'  BY <2>1, <2>3, EndKeeps DEF Talk!RoundFails, Talk!Due, Talk!End
  <2>4. ASSUME Talk!FinalRound
        PROVE Conversing'  BY <2>1, <2>4, EndKeeps DEF Talk!FinalRound, Talk!Due, Talk!End
  <2>5. ASSUME Talk!MixedRound
        PROVE Conversing'  BY <2>1, <2>5, EndKeeps DEF Talk!MixedRound, Talk!Due, Talk!End
  <2>6. ASSUME Talk!SearchRound PROVE Conversing'  BY <2>6, RoundKeeps
  <2>7. ASSUME Talk!Assemble PROVE Conversing'  BY <2>7, AssembleKeeps
  <2>8. ASSUME NEW i \in DOMAIN work, Talk!Panic(i)
        PROVE Conversing'  BY <2>1, <2>8, EndKeeps DEF Talk!Panic, Talk!End
  <2>9. ASSUME NEW i \in DOMAIN work, Talk!Start(i) \/ Talk!Reject(i) \/ Talk!Search(i) \/ Talk!Found(i) \/ Talk!Fails(i)
        PROVE Conversing'
    <3>1. PICK s : Moves(i, s)  BY <2>9, SearchesMove
    <3>2. QED  BY <3>1, MovesKeep
  <2>10. ASSUME Talk!ClientLeaves PROVE Conversing'  BY <2>10, LeavingKeeps
  <2>11. ASSUME UNCHANGED Talk!vars PROVE Conversing'
    <3>1. UNCHANGED <<policy, stage, rounds, calls, turns, uses, work, cache, firstErr, away, paid,
    outcome>>
        BY <2>11 DEF Talk!vars
    <3>2. Counted'  BY <2>0, <3>1 DEF Counted
    <3>3. Scheduled'  BY <3>1 DEF Conversing, Scheduled, Talk!Query
    <3>4. Blamed'  BY <3>1 DEF Conversing, Blamed
    <3>5. PaidOnce'  BY <2>0, <3>1 DEF PaidOnce, Known, Bought, Talk!Query
    <3>6. InSlots'  BY <3>1 DEF Conversing, InSlots, Talk!Running
    <3>7. Answered'  BY <3>1 DEF Conversing, Answered
    <3>8. QED  BY <3>2, <3>3, <3>4, <3>5, <3>6, <3>7 DEF Conversing
  <2>12. QED
      BY <2>2, <2>3, <2>4, <2>5, <2>6, <2>7, <2>8, <2>9, <2>10, <2>11 DEF Talk!Next, Talk!Step
<1>3. QED  BY <1>1, <1>2, PTL

\* The invariant says what the properties ask.
LEMMA ConversingIsSound ==
    ASSUME Askable, Conversing PROVE Talk!EveryUseAnswered /\ Talk!WithinBudget /\ Talk!CauseIsReported
<1>0. /\ Counted /\ Scheduled /\ Blamed /\ PaidOnce /\ InSlots /\ Answered  BY DEF Conversing
<1>1. Talk!EveryUseAnswered
  <2> SUFFICES ASSUME ~away, NEW t \in DOMAIN turns
               PROVE  /\ Len(turns[t].answers) = Len(turns[t].uses)
                      /\ \A i \in DOMAIN turns[t].uses :
                            turns[t].answers[i] \in
                                {Talk!Answer(turns[t].uses[i], about) : about \in {turns[t].uses[i].query, Talk!Budget}}
      BY DEF Talk!EveryUseAnswered
  <2> DEFINE r == turns[t]
  <2>1. r \in AnsweredRounds  BY <1>0 DEF Answered
  <2> HIDE DEF r
  <2>2. r.uses \in Seq(Uses) /\ Len(r.answers) = Len(r.uses)
        /\ \A i \in 1 .. Len(r.uses) : r.answers[i] = Talk!Answer(r.uses[i], r.uses[i].query)
                                       \/ r.answers[i] = Talk!Answer(r.uses[i], Talk!Budget)
      BY <2>1 DEF AnsweredRounds
  <2>3. DOMAIN r.uses = 1 .. Len(r.uses)  BY <2>2
  <2>4. \A i \in DOMAIN r.uses :
            r.answers[i] \in {Talk!Answer(r.uses[i], about) : about \in {r.uses[i].query, Talk!Budget}}
      BY <2>2, <2>3
  <2>5. QED  BY <2>2, <2>4 DEF r
<1>2. Talk!WithinBudget
  <2>1. paid \in [Queries -> {0, 1}] /\ IsFiniteSet(Queries)  BY <1>0 DEF PaidOnce, Askable
  <2>2. Talk!Total = Cardinality(Bought)  BY <2>1, SameSums, SumCounts DEF Talk!Total, Bought
  <2>3. Talk!Total <= policy.searches  BY <2>2, BoughtFits
  <2>4. \A q \in Queries : paid[q] <= 1  BY <2>1
  <2>5. QED  BY <1>0, <2>3, <2>4, SameSizes DEF Talk!WithinBudget, Counted, InSlots
<1>3. Talk!CauseIsReported  BY <1>0 DEF Talk!CauseIsReported, Counted, Talk!AccountFailure
<1>4. QED  BY <1>1, <1>2, <1>3

\* Of what is about to be sent to the upstream every tool use of every round has its own answer in its
\* place, as long as the client is there: runRound and executeAll, whatever the order of the parallel
\* searches, the duplicates in a round and the answers kept from earlier rounds.
THEOREM UsesAreAnswered ==
    ASSUME Askable PROVE Talk!Init /\ [][Talk!Next]_(Talk!vars) => []Talk!EveryUseAnswered
<1>1. Conversing => Talk!EveryUseAnswered  BY ConversingIsSound
<1>2. QED  BY <1>1, ConversationGoes, PTL

\* No query is paid twice in a request; the searches of all its rounds stay within what the request
\* may make, the rounds within the configured number and the finalizing one, the searches under way
\* within the slots.
THEOREM BudgetIsKept ==
    ASSUME Askable PROVE Talk!Init /\ [][Talk!Next]_(Talk!vars) => []Talk!WithinBudget
<1>1. Conversing => Talk!WithinBudget  BY ConversingIsSound
<1>2. QED  BY <1>1, ConversationGoes, PTL

\* classifyRunError: what stopped a request is told as what it was.
THEOREM CauseIsTold ==
    ASSUME Askable PROVE Talk!Init /\ [][Talk!Next]_(Talk!vars) => []Talk!CauseIsReported
<1>1. Conversing => Talk!CauseIsReported  BY ConversingIsSound
<1>2. QED  BY <1>1, ConversationGoes, PTL

(***************************************************************************)
(* The web search loop                                                     *)
(*                                                                         *)
(* What the upstream issued and the client was not shown yet are the tool  *)
(* uses of the round under way; those spent and those of the round still   *)
(* to be searched for fit what the request may use; and nothing is billed  *)
(* before the answer.                                                      *)
(***************************************************************************)
\* Finitely many accounts, none of them the key or nobody.
Billable == IsFiniteSet(Pool) /\ Loop!Key \notin Pool /\ Loop!None \notin Pool /\ MaxLoop \in Nat \ {0}

RoundTools == Seq({"web", "client"})

\* The uses spent and those of the round that are still searched for fit the request's.
Searching == /\ \A i \in 1 .. Len(tools) : tools[i] = "web"
             /\ next <= Len(tools) + 1 /\ count + (Len(tools) + 1 - next) <= maxUses
             /\ round < maxUses

Rounds ==
    /\ maxUses \in Nat /\ round \in Nat /\ count \in Nat /\ next \in Nat \ {0} /\ tools \in RoundTools
    /\ step \in {"call", "search", "flush", "done"}
    /\ count <= maxUses /\ round <= maxUses /\ result # "fellThrough"
    /\ step = "search" => Searching

LEMMA WebsOfAll ==
    ASSUME NEW us \in RoundTools, \A i \in 1 .. Len(us) : us[i] = "web"
    PROVE  Cardinality(Loop!Webs(us)) = Len(us)
<1>1. Loop!Webs(us) = 1 .. Len(us) /\ Len(us) \in Nat  BY DEF Loop!Webs, RoundTools
<1> DEFINE n == Len(us)
<1> HIDE DEF n
<1>2. n \in Nat => Cardinality(1 .. n) = n  BY FS_Interval
<1>3. QED  BY <1>1, <1>2 DEF n

LEMMA RoundsHold == ASSUME Billable PROVE Loop!Spec => []Rounds
<1>1. Loop!Init => Rounds
  <2> SUFFICES ASSUME Loop!Init PROVE Rounds  OBVIOUS
  <2>1. maxUses \in Nat  BY DEF Loop!Init, Loop!MaxUses, Billable
  <2>2. tools \in RoundTools
    <3>1. tools = <<"web">> \/ tools = << >>  BY DEF Loop!Init
    <3>2. <<"web">> \in RoundTools /\ << >> \in RoundTools  BY DEF RoundTools
    <3>3. QED  BY <3>1, <3>2
  <2>3. QED  BY <2>1, <2>2 DEF Loop!Init, Rounds, Loop!None
<1>2. Rounds /\ [Loop!Next]_(Loop!vars) => Rounds'
  <2> SUFFICES ASSUME Rounds, [Loop!Next]_(Loop!vars) PROVE Rounds'  OBVIOUS
  <2> USE DEF Rounds
  <2>1. CASE UNCHANGED Loop!vars  BY <2>1 DEF Loop!vars, Searching
  <2>2. CASE Loop!UpstreamFails \/ Loop!McpFails
      BY <2>2 DEF Loop!UpstreamFails, Loop!McpFails, Loop!LeaveOut, Searching
  <2>3. CASE Loop!GivesUp \/ Loop!ClientLeaves  BY <2>3 DEF Loop!GivesUp, Loop!ClientLeaves, Loop!End
  <2>4. CASE Loop!RoundAnswers
    <3>0. PICK n \in 0 .. MaxTools : \E us \in [1 .. n -> {"web", "client"}] :
             /\ tools' = us /\ issued' = issued \o Loop!Place(us, DOMAIN us)
             /\ step' = IF Loop!ShouldSearchRound(us) /\ Loop!FitsBudget(us) THEN "search" ELSE "flush"
        BY <2>4 DEF Loop!RoundAnswers
    <3>1. PICK us \in [1 .. n -> {"web", "client"}] :
             /\ tools' = us /\ next' = 1
             /\ step' = IF Loop!ShouldSearchRound(us) /\ Loop!FitsBudget(us) THEN "search" ELSE "flush"
             /\ UNCHANGED <<maxUses, round, count, result>>
        BY <2>4, <3>0 DEF Loop!RoundAnswers
    <3>2. us \in RoundTools
      <4>1. n \in Nat  OBVIOUS
      <4>2. QED  BY <4>1 DEF RoundTools
    <3>3. CASE Loop!ShouldSearchRound(us) /\ Loop!FitsBudget(us)
      <4>1. \A i \in 1 .. Len(us) : us[i] = "web"  BY <3>2, <3>3 DEF Loop!ShouldSearchRound, RoundTools
      <4>2. count + Len(us) <= maxUses /\ round < maxUses
          BY <3>2, <3>3, <4>1, WebsOfAll, SameSizes DEF Loop!FitsBudget, Loop!ShouldSearchRound
      <4>3. Len(us) \in Nat  BY <3>2 DEF RoundTools
      <4>4. Searching'
        <5> HIDE DEF Rounds
        <5>1. count \in Nat /\ maxUses \in Nat /\ round \in Nat  BY DEF Rounds
        <5>2. QED  BY <3>1, <4>1, <4>2, <4>3, <5>1 DEF Searching
      <4>5. QED  BY <3>1, <3>2, <3>3, <4>4
    <3>4. CASE ~(Loop!ShouldSearchRound(us) /\ Loop!FitsBudget(us))  BY <3>1, <3>2, <3>4
    <3>5. QED  BY <3>3, <3>4
  <2>5. CASE Loop!Search
    <3>1. Len(tools) \in Nat  BY DEF RoundTools
    <3>2. QED  BY <2>5, <3>1 DEF Loop!Search, Loop!Wanted, Searching
  <2>6. CASE Loop!SearchRoundEnds
    <3>1. Len(tools) \in Nat  BY DEF RoundTools
    <3>2. QED  BY <2>6, <3>1 DEF Loop!SearchRoundEnds, Loop!End, Searching
  <2>7. CASE Loop!PassesBy \/ Loop!Stops
    <3>1. Len(tools) \in Nat  BY DEF RoundTools
    <3>2. QED  BY <2>7, <3>1 DEF Loop!PassesBy, Loop!Stops
  <2>8. CASE Loop!Flush  BY <2>8 DEF Loop!Flush, Loop!End
  <2>9. QED  BY <2>2, <2>3, <2>4, <2>5, <2>6, <2>7, <2>8, <2>1 DEF Loop!Next
<1>3. QED  BY <1>1, <1>2, PTL DEF Loop!Spec

\* No request searches more often than its uses allow, however its rounds split them, and the loop does
\* not end behind its last round (websearch_loop.go: shouldSearchRound, the search budget).
THEOREM SearchesKeepWithinTheUses == ASSUME Billable PROVE Loop!Spec => []Loop!UsesAreKept
<1>1. Rounds => Loop!UsesAreKept  BY DEF Rounds, Loop!UsesAreKept
<1>2. QED  BY <1>1, RoundsHold, PTL

----------------------------------------------------------------------------
\* The uses of a round, numbered.
Placed(r, us) == [i \in 1 .. Cardinality(DOMAIN us) |->
                     <<r, CHOOSE k \in DOMAIN us : Cardinality({j \in DOMAIN us : j <= k}) = i>>]

LEMMA PlacedIs == \A us : Loop!Place(us, DOMAIN us) = Placed(round, us)
BY DEF Loop!Place, Placed, Cardinality, Loop!Cardinality

\* What the upstream issued and the client was not shown yet are the uses of the round.
Presented ==
    /\ tools \in RoundTools
    /\ result = "answered" => step = "done"
    /\ kind = "mixed" => /\ step = "call" => issued = presented
                         /\ step \in {"search", "flush"} => issued = presented \o Placed(round, tools)
                         /\ result = "answered" => issued = presented

\* Every tool use the upstream issued is shown, once and in order (buildFlushContent, appendSearchRound).
THEOREM EveryUseIsShown == ASSUME Billable PROVE Loop!Spec => []Loop!NothingSwallowed
<1>1. Loop!Init => Presented
  <2> SUFFICES ASSUME Loop!Init PROVE Presented  OBVIOUS
  <2>1. tools = <<"web">> \/ tools = << >>  BY DEF Loop!Init
  <2>2. <<"web">> \in RoundTools /\ << >> \in RoundTools  BY DEF RoundTools
  <2>3. QED  BY <2>1, <2>2 DEF Loop!Init, Presented, Loop!None
<1>2. Presented /\ [Loop!Next]_(Loop!vars) => Presented'
  <2> SUFFICES ASSUME Presented, [Loop!Next]_(Loop!vars) PROVE Presented'  OBVIOUS
  <2> USE DEF Presented
  <2>1. CASE UNCHANGED Loop!vars  BY <2>1 DEF Loop!vars
  <2>2. CASE Loop!UpstreamFails \/ Loop!McpFails
      BY <2>2 DEF Loop!UpstreamFails, Loop!McpFails, Loop!LeaveOut
  <2>3. CASE Loop!GivesUp \/ Loop!ClientLeaves
      BY <2>3 DEF Loop!GivesUp, Loop!ClientLeaves, Loop!End, Loop!Wanted
  <2>4. CASE Loop!RoundAnswers
    <3>0. PICK n \in 0 .. MaxTools : \E us \in [1 .. n -> {"web", "client"}] :
             /\ tools' = us /\ issued' = issued \o Loop!Place(us, DOMAIN us)
             /\ step' = IF Loop!ShouldSearchRound(us) /\ Loop!FitsBudget(us) THEN "search" ELSE "flush"
        BY <2>4 DEF Loop!RoundAnswers
    <3>1. PICK us \in [1 .. n -> {"web", "client"}] :
             /\ tools' = us /\ issued' = issued \o Loop!Place(us, DOMAIN us)
             /\ step' \in {"search", "flush"} /\ step = "call"
             /\ UNCHANGED <<kind, round, presented, result>>
        BY <2>4, <3>0 DEF Loop!RoundAnswers
    <3>2. us \in RoundTools
      <4>1. n \in Nat  OBVIOUS
      <4>2. QED  BY <4>1 DEF RoundTools
    <3>3. issued' = issued \o Placed(round', tools')  BY <3>1, PlacedIs
    <3>4. tools' \in RoundTools /\ result' # "answered" /\ step' # "call"  BY <3>1, <3>2
    <3>5. kind' = "mixed" => issued' = presented' \o Placed(round', tools')  BY <3>1, <3>3
    <3>6. QED  BY <3>4, <3>5
  <2>5. CASE Loop!Search  BY <2>5 DEF Loop!Search, Loop!Wanted
  <2>6. CASE Loop!SearchRoundEnds  BY <2>6, PlacedIs DEF Loop!SearchRoundEnds, Loop!End
  <2>7. CASE Loop!PassesBy \/ Loop!Stops  BY <2>7 DEF Loop!PassesBy, Loop!Stops
  <2>8. CASE Loop!Flush  BY <2>8, PlacedIs DEF Loop!Flush, Loop!Flushed, Loop!End
  <2>9. QED  BY <2>2, <2>3, <2>4, <2>5, <2>6, <2>7, <2>8, <2>1 DEF Loop!Next
<1>3. Presented => Loop!NothingSwallowed  BY DEF Presented, Loop!NothingSwallowed
<1>4. QED  BY <1>1, <1>2, <1>3, PTL DEF Loop!Spec

----------------------------------------------------------------------------
\* Nothing is billed before the answer, and then all that was spent to the key and the last account.
Charging ==
    /\ spent \in [Pool -> Nat] /\ last \in Pool \cup {Loop!None}
    /\ result = "answered" => step = "done"
    /\ result # "answered" => billed = [x \in Pool \cup {Loop!Key} |-> 0]
    /\ result = "answered" =>
          billed = [x \in Pool \cup {Loop!Key} |-> IF x \in {last, Loop!Key} THEN Loop!TotalCredits ELSE 0]

LEMMA ChargedOnce == ASSUME Billable, Charging PROVE Loop!CreditsAreBilled
<1> SUFFICES ASSUME result = "answered"
             PROVE  /\ billed[Loop!Key] = Loop!TotalCredits
                    /\ last # Loop!None => SumFunctionOnSet(billed, Pool) = Loop!TotalCredits
    BY SameSums DEF Loop!CreditsAreBilled, Loop!TotalCredits
<1>1. Loop!TotalCredits \in Nat  BY SameSums, SumIsNatural DEF Charging, Billable, Loop!TotalCredits
<1>2. billed = [x \in Pool \cup {Loop!Key} |-> IF x \in {last, Loop!Key} THEN Loop!TotalCredits ELSE 0]
    BY DEF Charging
<1>3. billed[Loop!Key] = Loop!TotalCredits  BY <1>2
<1>4. ASSUME last # Loop!None PROVE SumFunctionOnSet(billed, Pool) = Loop!TotalCredits
  <2>1. last \in Pool  BY <1>4 DEF Charging
  <2>2. \A x \in Pool : billed[x] = IF x = last THEN Loop!TotalCredits ELSE 0
      BY <1>2 DEF Billable
  <2> HIDE DEF Loop!TotalCredits
  <2>3. QED  BY <1>1, <2>1, <2>2, SameSums, SumOfOne DEF Billable
<1>5. QED  BY <1>3, <1>4

\* What a request cost is charged once to its key and once to the account of its last round.
THEOREM WhatIsSpentIsBilled == ASSUME Billable PROVE Loop!Spec => []Loop!CreditsAreBilled
<1>1. Loop!Init => Charging
  <2> SUFFICES ASSUME Loop!Init PROVE Charging  OBVIOUS
  <2>1. QED  BY DEF Loop!Init, Charging, Loop!None
<1>2. Charging /\ [Loop!Next]_(Loop!vars) => Charging'
  <2> SUFFICES ASSUME Charging, [Loop!Next]_(Loop!vars) PROVE Charging'  OBVIOUS
  <2> USE DEF Charging
  <2>1. CASE UNCHANGED Loop!vars  BY <2>1 DEF Loop!vars, Loop!TotalCredits
  <2>2. CASE Loop!UpstreamFails \/ Loop!McpFails
      BY <2>2 DEF Loop!UpstreamFails, Loop!McpFails, Loop!LeaveOut, Loop!TotalCredits
  <2>3. CASE Loop!GivesUp \/ Loop!ClientLeaves
      BY <2>3 DEF Loop!GivesUp, Loop!ClientLeaves, Loop!End, Loop!Wanted
  <2>4. CASE Loop!RoundAnswers
    <3>1. PICK a \in Pool : last' = a /\ spent' = [spent EXCEPT ![a] = @ + 1]
        BY <2>4 DEF Loop!RoundAnswers
    <3>2. spent' \in [Pool -> Nat]  BY <3>1
    <3>3. UNCHANGED <<billed, result>> /\ step = "call"  BY <2>4 DEF Loop!RoundAnswers
    <3>4. QED  BY <3>1, <3>2, <3>3
  <2>5. CASE Loop!Search  BY <2>5 DEF Loop!Search, Loop!Wanted
  <2>6. CASE Loop!SearchRoundEnds  BY <2>6 DEF Loop!SearchRoundEnds, Loop!End
  <2>7. CASE Loop!PassesBy \/ Loop!Stops  BY <2>7 DEF Loop!PassesBy, Loop!Stops
  <2>8. CASE Loop!Flush
    <3>1. result' = "answered" /\ step' = "done" /\ result # "answered" /\ UNCHANGED <<spent, last>>
        BY <2>8 DEF Loop!Flush, Loop!End
    <3>2. Loop!TotalCredits \in Nat  BY SameSums, SumIsNatural DEF Billable, Loop!TotalCredits
    <3>3. billed' = [x \in Pool \cup {Loop!Key} |-> billed[x] + IF x \in {last, Loop!Key} THEN Loop!TotalCredits ELSE 0]
        BY <2>8 DEF Loop!Flush
    <3>4. \A x \in Pool \cup {Loop!Key} : billed[x] = 0  BY <3>1
    <3>5. Loop!TotalCredits' = Loop!TotalCredits  BY <3>1 DEF Loop!TotalCredits
    <3>6. billed' = [x \in Pool \cup {Loop!Key} |-> IF x \in {last', Loop!Key} THEN Loop!TotalCredits' ELSE 0]
      <4> HIDE DEF Loop!TotalCredits
      <4> QED  BY <3>1, <3>2, <3>3, <3>4, <3>5
    <3>7. QED  BY <3>1, <3>6
  <2>9. QED  BY <2>2, <2>3, <2>4, <2>5, <2>6, <2>7, <2>8, <2>1 DEF Loop!Next
<1>3. Charging => Loop!CreditsAreBilled  BY ChargedOnce
<1>4. QED  BY <1>1, <1>2, <1>3, PTL DEF Loop!Spec

(***************************************************************************)
(* The month's credits                                                     *)
(*                                                                         *)
(* What a month was charged is what is booked for it and what the searches *)
(* owe that are past their call; a search passes the gate only while less  *)
(* than the limit is booked. Between the gate and the booking there are at *)
(* most as many credits as there are searches at once.                     *)
(***************************************************************************)
\* Nothing is asked behind a paid provider.
PaidLast == \A i \in Nat : i <= Len(Lookup!Order) /\ Lookup!Order[i] \in Paid => ~(i + 1 <= Len(Lookup!Order))

\* Searches at once are finitely many, a paid search costs something, a month has some credit,
\* and the gate is in force.
Budgeted == /\ IsFiniteSet(Searchers) /\ Cost \in Nat \ {0} /\ MonthLimit \in Nat \ {0} /\ MaxMonth \in Nat \ {0}
            /\ AllowPaid = FALSE /\ PaidLast

Budgets == [month : Nat, spent : Nat]
SearchPlaces == {"idle", "route", "gated", "call", "book", "write", "rename", "keep"}
LastSeen  == {Lookup!None, "good", "empty", "poor", "error"}
SearchRows == [at : SearchPlaces, key : Keys \cup {Lookup!None}, i : Nat, attempt : Nat, first : Nat,
               last : LastSeen, credits : {0, Cost}, snap : Budgets,
               told : {Lookup!None, "answered", "timeout", "unconfigured", "failed"}]

\* Searches past the gate that may still be charged, and those charged that are not booked.
Gated == {s \in Searchers : search[s].at = "gated" \/ (search[s].at = "call" /\ Lookup!Order[search[s].i] \in Paid)}
Owing == {s \in Searchers : search[s].at \in {"route", "book"} /\ search[s].credits # 0}

MonthBound == MonthLimit - 1 + Cost * Cardinality(Searchers)

LookupTyped ==
    /\ month \in 1 .. MaxMonth /\ budget \in Budgets /\ bill \in [1 .. MaxMonth -> Nat]
    /\ search \in [Searchers -> SearchRows]

RowOK(s) == LET r == search[s] IN
    /\ r.at \in {"route", "gated", "call"} => r.i # 0
    /\ r.at = "gated" => r.i <= Len(Lookup!Order) /\ Lookup!Order[r.i] \in Paid
    /\ r.at = "call" => r.i <= Len(Lookup!Order) /\ r.first # 0
    /\ r.at \in {"gated", "call"} => r.credits = 0
    /\ r.at = "route" /\ r.credits # 0 => ~(r.i <= Len(Lookup!Order)) /\ r.first # 0 /\ r.last # "error"

Accounted ==
    /\ LookupTyped /\ \A s \in Searchers : RowOK(s)
    /\ \A m \in 1 .. MaxMonth : (m > month => bill[m] = 0) /\ (m < month => bill[m] <= MonthBound)
    /\ bill[month] <= Lookup!Rolled.spent + Cost * Cardinality(Owing)
    /\ bill[month] + Cost * Cardinality(Gated) <= MonthBound

LEMMA SearcherSets ==
    ASSUME Budgeted, NEW S, S \subseteq Searchers
    PROVE  /\ IsFiniteSet(S) /\ Cardinality(S) \in Nat /\ Cardinality(S) <= Cardinality(Searchers)
           /\ \A s \in Searchers \ S : Cardinality(S \cup {s}) = Cardinality(S) + 1
           /\ \A s \in S : Cardinality(S \ {s}) = Cardinality(S) - 1
<1>1. IsFiniteSet(S) /\ Cardinality(S) \in Nat /\ Cardinality(S) <= Cardinality(Searchers)
    BY FS_Subset, FS_CardinalityType DEF Budgeted
<1>2. QED  BY <1>1, FS_AddElement, FS_RemoveElement

LEMMA DisjointFit ==
    ASSUME Budgeted, NEW S, NEW T, S \subseteq Searchers, T \subseteq Searchers, S \cap T = {}
    PROVE  Cardinality(S) + Cardinality(T) <= Cardinality(Searchers)
<1>1. Cardinality(S \cup T) = Cardinality(S) + Cardinality(T) - Cardinality(S \cap T)
    BY SearcherSets, FS_Union
<1>2. Cardinality(S \cap T) = 0  BY FS_EmptySet
<1>3. Cardinality(S \cup T) <= Cardinality(Searchers)  BY SearcherSets
<1>4. Cardinality(S) \in Nat /\ Cardinality(T) \in Nat  BY SearcherSets
<1>5. QED  BY <1>1, <1>2, <1>3, <1>4

LEMMA Costs ==
    ASSUME Budgeted, NEW n \in Nat
    PROVE  /\ Cost * n \in Nat /\ Cost * (n + 1) = Cost * n + Cost
           /\ \A m \in Nat : m <= n => Cost * m <= Cost * n
<1>1. Cost \in Nat  BY DEF Budgeted
<1>2. Cost * n \in Nat /\ Cost * (n + 1) = Cost * n + Cost  BY <1>1
<1>3. ASSUME NEW m \in Nat, m <= n PROVE Cost * m <= Cost * n
  <2>1. n = m + (n - m) /\ n - m \in Nat  BY <1>3
  <2>2. Cost * n = Cost * m + Cost * (n - m)  BY <1>1, <2>1
  <2>3. Cost * (n - m) \in Nat /\ Cost * m \in Nat  BY <1>1, <2>1
  <2>4. QED  BY <2>2, <2>3
<1>4. QED  BY <1>2, <1>3

LEMMA Edge ==
    ASSUME Budgeted
    PROVE  /\ MonthBound \in Int /\ Cardinality(Searchers) \in Nat
           /\ \A n \in Nat : n <= Cardinality(Searchers) => Cost * n <= MonthBound
<1>1. Cardinality(Searchers) \in Nat /\ MonthLimit \in Nat \ {0} /\ Cost \in Nat
    BY FS_CardinalityType DEF Budgeted
<1>2. Cost * Cardinality(Searchers) \in Nat  BY <1>1
<1>3. ASSUME NEW n \in Nat, n <= Cardinality(Searchers) PROVE Cost * n <= MonthBound
  <2>1. Cost * n <= Cost * Cardinality(Searchers) /\ Cost * n \in Nat  BY <1>1, <1>3, Costs
  <2>2. QED  BY <1>1, <1>2, <2>1 DEF MonthBound
<1>4. QED  BY <1>1, <1>2, <1>3 DEF MonthBound

LEMMA AtLeastZero == ASSUME Budgeted PROVE Cost * 0 = 0 /\ 0 <= MonthBound
<1>1. Cost \in Nat  BY DEF Budgeted
<1>2. Cost * 0 = 0  BY <1>1
<1>3. 0 <= Cardinality(Searchers)  BY Edge
<1>4. QED  BY <1>2, <1>3, Edge

LEMMA RolledTyped ==
    ASSUME Budgeted, LookupTyped
    PROVE  Lookup!Rolled \in Budgets /\ Lookup!Rolled.month = month
BY DEF LookupTyped, Lookup!Rolled, Lookup!Count, Budgets, Budgeted

\* A step of one search leaves the others where they are.
LEMMA OneSearch ==
    ASSUME Budgeted, Accounted, NEW s \in Searchers, NEW x \in SearchRows, Lookup!Put(s, x), RowOK(s)'
    PROVE  /\ search' \in [Searchers -> SearchRows] /\ search'[s] = x
           /\ \A q \in Searchers : RowOK(q)'
           /\ \A q \in Searchers \ {s} : (q \in Gated' <=> q \in Gated) /\ (q \in Owing' <=> q \in Owing)
<1>1. search' \in [Searchers -> SearchRows] /\ search'[s] = x /\ \A q \in Searchers \ {s} : search'[q] = search[q]
    BY DEF Accounted, LookupTyped, Lookup!Put
<1>2. \A q \in Searchers \ {s} : RowOK(q)'
    BY <1>1 DEF Accounted, RowOK
<1>3. \A q \in Searchers \ {s} : (q \in Gated' <=> q \in Gated) /\ (q \in Owing' <=> q \in Owing)
    BY <1>1 DEF Gated, Owing
<1>4. QED  BY <1>1, <1>2, <1>3

LEMMA OwingAside == Gated \subseteq Searchers /\ Owing \subseteq Searchers /\ Gated \cap Owing = {}
BY DEF Gated, Owing

LEMMA OwingAfter == Gated' \subseteq Searchers /\ Owing' \subseteq Searchers
BY DEF Gated, Owing

\* A step that passes no gate, charges nothing and books nothing.
LEMMA QuietlyKeeps ==
    ASSUME Budgeted, Accounted, NEW s \in Searchers, NEW x \in SearchRows, Lookup!Put(s, x), RowOK(s)',
           UNCHANGED <<bill, month>>,
           budget' \in Budgets, Lookup!Rolled' = Lookup!Rolled, s \in Gated' => s \in Gated, s \in Owing' <=> s \in Owing
    PROVE  Accounted'
<1>1. /\ search' \in [Searchers -> SearchRows] /\ \A q \in Searchers : RowOK(q)'
      /\ \A q \in Searchers \ {s} : (q \in Gated' <=> q \in Gated) /\ (q \in Owing' <=> q \in Owing)
    BY OneSearch
<1>2. LookupTyped'  BY <1>1 DEF Accounted, LookupTyped
<1>3. Gated' \subseteq Gated /\ Owing' = Owing  BY <1>1, OwingAside, OwingAfter
<1>4. Cost * Cardinality(Gated') <= Cost * Cardinality(Gated)
  <2>1. Cardinality(Gated') <= Cardinality(Gated) /\ Cardinality(Gated) \in Nat /\ Cardinality(Gated') \in Nat
      BY <1>3, OwingAside, SearcherSets, FS_Subset
  <2>2. QED  BY <2>1, Costs
<1>5. bill[month] + Cost * Cardinality(Gated') <= MonthBound
  <2>1. Cost * Cardinality(Gated') \in Nat /\ Cost * Cardinality(Gated) \in Nat
      BY OwingAside, OwingAfter, SearcherSets, Costs
  <2>2. bill[month] + Cost * Cardinality(Gated) <= MonthBound /\ bill[month] \in Nat
      BY DEF Accounted, LookupTyped
  <2>3. MonthBound \in Int  BY Edge
  <2>4. QED  BY <1>4, <2>1, <2>2, <2>3
<1>6. QED  BY <1>1, <1>2, <1>3, <1>5 DEF Accounted, MonthBound

\* The gate: less than the limit is booked, and what is charged beyond that is owed by others.
LEMMA PassGate ==
    ASSUME Budgeted, Accounted, NEW s \in Searchers, NEW x \in SearchRows, Lookup!Put(s, x), RowOK(s)',
           UNCHANGED <<bill, month>>,
           budget' \in Budgets, Lookup!Rolled' = Lookup!Rolled, s \notin Gated, s \notin Owing, s \notin Owing',
           Lookup!Rolled.spent < MonthLimit
    PROVE  Accounted'
<1>1. /\ search' \in [Searchers -> SearchRows] /\ \A q \in Searchers : RowOK(q)'
      /\ \A q \in Searchers \ {s} : (q \in Gated' <=> q \in Gated) /\ (q \in Owing' <=> q \in Owing)
    BY OneSearch
<1>2. LookupTyped'  BY <1>1 DEF Accounted, LookupTyped
<1>3. Gated' \subseteq Gated \cup {s} /\ Owing' = Owing  BY <1>1, OwingAside, OwingAfter
<1> DEFINE g == Cardinality(Gated') o == Cardinality(Owing) n == Cardinality(Searchers)
<1>4. g + o <= n /\ g \in Nat /\ o \in Nat /\ n \in Nat
  <2>1. Gated' \cap Owing = {}  BY <1>3, OwingAside
  <2>2. g + o <= n  BY <2>1, OwingAside, OwingAfter, DisjointFit
  <2>3. g \in Nat /\ o \in Nat  BY OwingAside, OwingAfter, SearcherSets
  <2>4. n \in Nat  BY FS_CardinalityType DEF Budgeted
  <2>5. QED  BY <2>2, <2>3, <2>4
<1>5. bill[month] + Cost * g <= MonthBound
  <2>1. bill[month] <= Lookup!Rolled.spent + Cost * o /\ bill[month] \in Nat  BY DEF Accounted, LookupTyped
  <2>2. Lookup!Rolled.spent \in Nat /\ Lookup!Rolled.spent <= MonthLimit - 1 /\ MonthLimit \in Nat /\ Cost \in Nat
    <3>1. Lookup!Rolled.spent \in Nat  BY RolledTyped DEF Accounted, Budgets
    <3>2. QED  BY <3>1 DEF Budgeted
  <2> HIDE DEF g, o, n
  <2>3. Cost * g + Cost * o = Cost * (g + o) /\ Cost * g \in Nat /\ Cost * o \in Nat  BY <1>4, <2>2
  <2>4. g + o \in Nat  BY <1>4
  <2>5. Cost * (g + o) <= Cost * n /\ Cost * n \in Nat  BY <1>4, <2>4, Costs
  <2>6. bill[month] + Cost * g <= (MonthLimit - 1) + Cost * n  BY <2>1, <2>2, <2>3, <2>5
  <2>7. QED  BY <2>6 DEF MonthBound, n
<1>6. QED  BY <1>1, <1>2, <1>3, <1>5 DEF Accounted, MonthBound

\* A paid answer: charged at once, owed until it is booked.
LEMMA ChargeKeeps ==
    ASSUME Budgeted, Accounted, NEW s \in Searchers, NEW x \in SearchRows, Lookup!Put(s, x), RowOK(s)',
           UNCHANGED <<budget, month>>,
           bill' = [bill EXCEPT ![month] = @ + Cost], s \in Gated, s \notin Gated', s \in Owing', s \notin Owing
    PROVE  Accounted'
<1>1. /\ search' \in [Searchers -> SearchRows] /\ \A q \in Searchers : RowOK(q)'
      /\ \A q \in Searchers \ {s} : (q \in Gated' <=> q \in Gated) /\ (q \in Owing' <=> q \in Owing)
    BY OneSearch
<1>b. /\ bill \in [1 .. MaxMonth -> Nat] /\ month \in 1 .. MaxMonth /\ Cost \in Nat /\ bill[month] \in Nat
      /\ bill'[month] = bill[month] + Cost /\ \A m \in 1 .. MaxMonth : m # month => bill'[m] = bill[m]
      /\ bill' \in [1 .. MaxMonth -> Nat]
    BY DEF Accounted, LookupTyped, Budgeted
<1>2. LookupTyped'  BY <1>1, <1>b DEF Accounted, LookupTyped
<1>3. Gated' = Gated \ {s} /\ Owing' = Owing \cup {s}  BY <1>1, OwingAside, OwingAfter
<1> DEFINE g == Cardinality(Gated) o == Cardinality(Owing) h == Cardinality(Gated') p == Cardinality(Owing')
<1>4. g \in Nat /\ o \in Nat /\ h \in Nat /\ p = o + 1 /\ g = h + 1
  <2>1. Cardinality(Owing \cup {s}) = Cardinality(Owing) + 1 /\ Cardinality(Gated \ {s}) = Cardinality(Gated) - 1
      BY OwingAside, SearcherSets
  <2>2. g \in Nat /\ o \in Nat /\ h \in Nat  BY OwingAside, OwingAfter, SearcherSets
  <2>3. QED  BY <1>3, <2>1, <2>2
<1>5. Lookup!Rolled' = Lookup!Rolled  BY DEF Lookup!Rolled, Lookup!Count
<1>6. bill'[month] <= Lookup!Rolled.spent + Cost * p
  <2>1. bill[month] <= Lookup!Rolled.spent + Cost * o /\ Lookup!Rolled.spent \in Nat
      BY RolledTyped DEF Accounted, Budgets
  <2> HIDE DEF o, p
  <2>2. Cost * p = Cost * o + Cost /\ Cost * o \in Nat  BY <1>4, Costs
  <2>3. QED  BY <1>b, <2>1, <2>2
<1>7. bill'[month] + Cost * h <= MonthBound
  <2>1. bill[month] + Cost * g <= MonthBound /\ MonthBound \in Int
    <3>1. Cardinality(Searchers) \in Nat /\ MonthLimit \in Nat  BY FS_CardinalityType DEF Budgeted
    <3>2. QED  BY <1>b, <3>1 DEF Accounted, MonthBound
  <2> HIDE DEF g, h
  <2>2. Cost * g = Cost * h + Cost /\ Cost * h \in Nat  BY <1>4, Costs
  <2>3. QED  BY <1>b, <2>1, <2>2
<1>8. \A m \in 1 .. MaxMonth : (m > month => bill'[m] = 0) /\ (m < month => bill'[m] <= MonthBound)
    BY <1>b DEF Accounted
<1>9. QED  BY <1>1, <1>2, <1>5, <1>6, <1>7, <1>8 DEF Accounted, MonthBound

\* What is owed is booked.
LEMMA BookingKeeps ==
    ASSUME Budgeted, Accounted, NEW s \in Searchers, NEW x \in SearchRows, Lookup!Put(s, x), RowOK(s)',
           UNCHANGED <<bill, month>>,
           budget' = Lookup!Count(month, Lookup!Rolled.spent + Cost), s \notin Gated', s \in Owing, s \notin Owing'
    PROVE  Accounted'
<1>1. /\ search' \in [Searchers -> SearchRows] /\ \A q \in Searchers : RowOK(q)'
      /\ \A q \in Searchers \ {s} : (q \in Gated' <=> q \in Gated) /\ (q \in Owing' <=> q \in Owing)
    BY OneSearch
<1>b. /\ bill[month] \in Nat /\ Cost \in Nat /\ Lookup!Rolled.spent \in Nat /\ budget' \in Budgets
      /\ Lookup!Rolled' = Lookup!Count(month, Lookup!Rolled.spent + Cost)
      /\ Lookup!Rolled'.spent = Lookup!Rolled.spent + Cost
  <2>1. Lookup!Rolled.spent \in Nat /\ month \in Nat /\ Cost \in Nat /\ bill[month] \in Nat
      BY RolledTyped DEF Accounted, LookupTyped, Budgets, Budgeted
  <2>2. budget' \in Budgets /\ budget'.month = month /\ budget'.spent = Lookup!Rolled.spent + Cost
      BY <2>1 DEF Lookup!Count, Budgets
  <2>3. Lookup!Rolled' = budget'  BY <2>2 DEF Lookup!Rolled
  <2>4. QED  BY <2>1, <2>2, <2>3
<1>2. LookupTyped'  BY <1>1, <1>b DEF Accounted, LookupTyped
<1>3. Gated' = Gated /\ Owing' = Owing \ {s}
  <2>1. s \notin Gated  BY OwingAside
  <2>2. QED  BY <1>1, <2>1, OwingAside, OwingAfter
<1> DEFINE o == Cardinality(Owing) p == Cardinality(Owing')
<1>4. o = p + 1 /\ p \in Nat
  <2>1. Cardinality(Owing \ {s}) = Cardinality(Owing) - 1  BY OwingAside, SearcherSets
  <2>2. o \in Nat /\ p \in Nat  BY OwingAside, OwingAfter, SearcherSets
  <2>3. QED  BY <1>3, <2>1, <2>2
<1>6. bill[month] <= Lookup!Rolled'.spent + Cost * p
  <2>1. bill[month] <= Lookup!Rolled.spent + Cost * o  BY DEF Accounted
  <2> HIDE DEF o, p
  <2>2. Cost * o = Cost * p + Cost /\ Cost * p \in Nat  BY <1>4, Costs
  <2>3. QED  BY <1>b, <2>1, <2>2
<1>9. QED  BY <1>1, <1>2, <1>3, <1>6 DEF Accounted, MonthBound

LEMMA IdleRow ==
    ASSUME NEW told \in {Lookup!None, "answered", "timeout", "unconfigured", "failed"}
    PROVE  Lookup!Ended(told) \in SearchRows /\ Lookup!Ended(told).at = "idle"
BY DEF Lookup!Ended, Lookup!Idle, SearchRows, SearchPlaces, LastSeen, Budgets

\* A row that neither holds credits nor may still be charged.
LEMMA SettledKeeps ==
    ASSUME Budgeted, Accounted, NEW s \in Searchers, NEW x \in SearchRows, Lookup!Put(s, x),
           UNCHANGED <<budget, bill, month>>,
           s \notin Owing, x.at \notin {"route", "gated", "call", "book"}
    PROVE  Accounted'
<1>1. search' \in [Searchers -> SearchRows] /\ search'[s] = x  BY DEF Accounted, LookupTyped, Lookup!Put
<1>2. RowOK(s)' /\ s \notin Gated' /\ s \notin Owing'  BY <1>1 DEF RowOK, Gated, Owing
<1>3. Lookup!Rolled' = Lookup!Rolled /\ budget' \in Budgets
    BY DEF Lookup!Rolled, Lookup!Count, Accounted, LookupTyped
<1>4. QED  BY <1>2, <1>3, QuietlyKeeps

LEMMA BeginKeeps == ASSUME Budgeted, Accounted, NEW s \in Searchers, Lookup!Begin(s) PROVE Accounted'
<1>1. PICK k \in Keys :
          Lookup!Put(s, IF Lookup!Hit(k) THEN Lookup!Ended("answered")
                        ELSE [Lookup!Idle EXCEPT !.at = "route", !.key = k, !.i = 1])
    BY DEF Lookup!Begin
<1>2. search[s].at = "idle" /\ UNCHANGED <<budget, bill, month>>  BY DEF Lookup!Begin
<1>3. s \notin Owing  BY <1>2 DEF Owing
<1>4. CASE Lookup!Hit(k)
  <2>1. Lookup!Put(s, Lookup!Ended("answered"))  BY <1>1, <1>4
  <2>2. Lookup!Ended("answered") \in SearchRows /\ Lookup!Ended("answered").at = "idle"  BY IdleRow
  <2>3. QED  BY <1>2, <1>3, <2>1, <2>2, SettledKeeps
<1>5. CASE ~Lookup!Hit(k)
  <2> DEFINE x == [Lookup!Idle EXCEPT !.at = "route", !.key = k, !.i = 1]
  <2>1. x \in SearchRows /\ x.at = "route" /\ x.i = 1 /\ x.credits = 0
      BY DEF Lookup!Idle, SearchRows, SearchPlaces, LastSeen, Budgets
  <2>2. Lookup!Put(s, x)  BY <1>1, <1>5
  <2> HIDE DEF x
  <2>3. search'[s] = x  BY <2>2 DEF Accounted, LookupTyped, Lookup!Put
  <2>4. RowOK(s)' /\ s \notin Gated' /\ s \notin Owing'  BY <2>1, <2>3 DEF RowOK, Gated, Owing
  <2>5. Lookup!Rolled' = Lookup!Rolled /\ budget' \in Budgets
      BY <1>2 DEF Lookup!Rolled, Lookup!Count, Accounted, LookupTyped
  <2>6. QED  BY <1>2, <1>3, <2>1, <2>2, <2>4, <2>5, QuietlyKeeps
<1>6. QED  BY <1>4, <1>5

LEMMA RolledOver ==
    ASSUME Budgeted, Accounted, budget' = Lookup!Rolled, UNCHANGED month
    PROVE  budget' \in Budgets /\ Lookup!Rolled' = Lookup!Rolled
<1>1. Lookup!Rolled \in Budgets /\ Lookup!Rolled.month = month  BY RolledTyped DEF Accounted
<1>2. QED  BY <1>1 DEF Lookup!Rolled

LEMMA PaidGateKeeps == ASSUME Budgeted, Accounted, NEW s \in Searchers, Lookup!PaidGate(s) PROVE Accounted'
<1>1. /\ search[s].at = "route" /\ search[s] \in SearchRows
      /\ search[s].i <= Len(Lookup!Order) /\ Lookup!Order[search[s].i] \in Paid
      /\ search[s].credits = 0 /\ search[s].i # 0
    BY DEF Lookup!PaidGate, Accounted, LookupTyped, RowOK
<1>2. UNCHANGED <<bill, month>> /\ budget' = Lookup!Rolled  BY DEF Lookup!PaidGate
<1>3. budget' \in Budgets /\ Lookup!Rolled' = Lookup!Rolled  BY <1>2, RolledOver
<1>4. s \notin Owing /\ s \notin Gated  BY <1>1 DEF Owing, Gated
<1>5. CASE Lookup!Allow
  <2> DEFINE x == [search[s] EXCEPT !.at = "gated"]
  <2>1. x \in SearchRows /\ x.at = "gated" /\ x.i = search[s].i /\ x.credits = 0
      BY <1>1 DEF SearchRows, SearchPlaces
  <2>2. Lookup!Put(s, x)  BY <1>5 DEF Lookup!PaidGate
  <2> HIDE DEF x
  <2>3. search'[s] = x  BY <2>2 DEF Accounted, LookupTyped, Lookup!Put
  <2>4. RowOK(s)' /\ s \notin Owing'  BY <1>1, <2>1, <2>3 DEF RowOK, Owing
  <2>5. QED  BY <1>2, <1>3, <1>4, <1>5, <2>1, <2>2, <2>4, PassGate DEF Lookup!Allow
<1>6. CASE ~Lookup!Allow
  <2> DEFINE x == [search[s] EXCEPT !.i = @ + 1]
  <2>1. x \in SearchRows /\ x.at = "route" /\ x.i # 0 /\ x.credits = 0
      BY <1>1 DEF SearchRows
  <2>2. Lookup!Put(s, x)  BY <1>6 DEF Lookup!PaidGate, Lookup!Skip
  <2> HIDE DEF x
  <2>3. search'[s] = x  BY <2>2 DEF Accounted, LookupTyped, Lookup!Put
  <2>4. RowOK(s)' /\ s \notin Owing' /\ s \notin Gated'  BY <2>1, <2>3 DEF RowOK, Owing, Gated
  <2>5. QED  BY <1>2, <1>3, <1>4, <2>1, <2>2, <2>4, QuietlyKeeps
<1>7. QED  BY <1>5, <1>6

LEMMA BudgetStays ==
    ASSUME Budgeted, Accounted, UNCHANGED <<budget, month>>
    PROVE  budget' \in Budgets /\ Lookup!Rolled' = Lookup!Rolled
BY DEF Lookup!Rolled, Lookup!Count, Accounted, LookupTyped

LEMMA ChooseKeeps == ASSUME Budgeted, Accounted, NEW s \in Searchers, Lookup!Choose(s) PROVE Accounted'
<1>1. /\ search[s] \in SearchRows /\ search[s].credits = 0
      /\ search[s].i # 0 /\ search[s].i <= Len(Lookup!Order) /\ search[s].i \in Nat
      /\ search[s].at = "gated" \/ (search[s].at = "route" /\ Lookup!Order[search[s].i] \notin Paid)
    <2>1. search[s] \in SearchRows /\ RowOK(s)  BY DEF Accounted, LookupTyped
    <2>2. CASE search[s].at = "gated"  BY <2>1, <2>2 DEF RowOK, SearchRows
    <2>3. CASE /\ search[s].at = "route" /\ search[s].i <= Len(Lookup!Order)
               /\ Lookup!Order[search[s].i] \notin Paid \/ AllowPaid
        BY <2>1, <2>3 DEF RowOK, SearchRows, Budgeted
    <2>4. QED  BY <2>2, <2>3 DEF Lookup!Choose
<1>2. UNCHANGED <<budget, bill, month>>  BY DEF Lookup!Choose
<1>3. budget' \in Budgets /\ Lookup!Rolled' = Lookup!Rolled  BY <1>2, BudgetStays
<1>4. s \notin Owing  BY <1>1 DEF Owing
<1>5. CASE Lookup!State(Lookup!Order[search[s].i]) = "unhealthy" /\ Lookup!HasHealthyAfter(search[s].i)
  <2> DEFINE n == search[s].i + 1
             x == [search[s] EXCEPT !.at = "route", !.i = n]
  <2>0. n \in Nat /\ n # 0  BY <1>1
  <2>2. Lookup!Put(s, x)  BY <1>5 DEF Lookup!Choose
  <2> HIDE DEF n
  <2>1. x \in SearchRows /\ x.at = "route" /\ x.i # 0 /\ x.credits = 0
      BY <1>1, <2>0 DEF SearchRows, SearchPlaces
  <2> HIDE DEF x
  <2>3. search'[s] = x  BY <2>2 DEF Accounted, LookupTyped, Lookup!Put
  <2>4. RowOK(s)' /\ s \notin Owing' /\ s \notin Gated'  BY <2>1, <2>3 DEF RowOK, Owing, Gated
  <2>5. QED  BY <1>2, <1>3, <1>4, <2>1, <2>2, <2>4, QuietlyKeeps
<1>6. CASE ~(Lookup!State(Lookup!Order[search[s].i]) = "unhealthy" /\ Lookup!HasHealthyAfter(search[s].i))
  <2> DEFINE f == IF search[s].first = 0 THEN search[s].i ELSE search[s].first
             x == [search[s] EXCEPT !.at = "call", !.attempt = 0, !.first = f]
  <2>0. f \in Nat /\ f # 0  BY <1>1 DEF SearchRows
  <2>2. Lookup!Put(s, x)  BY <1>6 DEF Lookup!Choose
  <2> HIDE DEF f
  <2>1. x \in SearchRows /\ x.at = "call" /\ x.i = search[s].i /\ x.credits = 0 /\ x.first # 0
      BY <1>1, <2>0 DEF SearchRows, SearchPlaces
  <2> HIDE DEF x
  <2>3. search'[s] = x  BY <2>2 DEF Accounted, LookupTyped, Lookup!Put
  <2>4. RowOK(s)' /\ s \notin Owing'  BY <1>1, <2>1, <2>3 DEF RowOK, Owing
  <2>5. s \in Gated' => s \in Gated  BY <1>1, <2>1, <2>3 DEF Gated
  <2>6. QED  BY <1>2, <1>3, <1>4, <2>1, <2>2, <2>4, <2>5, QuietlyKeeps
<1>7. QED  BY <1>5, <1>6

LEMMA AnswersKeeps == ASSUME Budgeted, Accounted, NEW s \in Searchers, Lookup!Answers(s) PROVE Accounted'
<1> DEFINE r == search[s]  p == Lookup!Order[search[s].i]  c == IF p \in Paid THEN Cost ELSE 0
<1>1. r \in SearchRows /\ r.at = "call" /\ r.i <= Len(Lookup!Order) /\ r.i # 0 /\ r.first # 0 /\ r.i \in Nat
    BY DEF Lookup!Answers, Accounted, LookupTyped, RowOK, SearchRows
<1>2. UNCHANGED <<budget, month>> /\ bill' = (IF p \in Paid THEN [bill EXCEPT ![month] = @ + Cost] ELSE bill)
    BY DEF Lookup!Answers, Lookup!Charge
<1>3. budget' \in Budgets /\ Lookup!Rolled' = Lookup!Rolled  BY <1>2, BudgetStays
<1>4. s \notin Owing  BY <1>1 DEF Owing
<1>5. c \in {0, Cost}  OBVIOUS
<1> DEFINE n == r.i + 1
           y == [r EXCEPT !.at = "book", !.credits = c, !.last = "good"]
           z(l) == [r EXCEPT !.at = "route", !.i = n, !.credits = c, !.last = l]
<1>6. \E x : Lookup!Put(s, x) /\ (x = y \/ x = z("empty") \/ x = z("poor"))
    BY DEF Lookup!Answers
<1>n. n \in Nat /\ n = r.i + 1  BY <1>1
<1> HIDE DEF c, n
<1>7. /\ y \in SearchRows /\ y.at = "book" /\ y.credits = c
      /\ \A l \in {"empty", "poor"} : z(l) \in SearchRows /\ z(l).at = "route" /\ z(l).credits = c /\ z(l).i = r.i + 1
                                      /\ z(l).first # 0 /\ z(l).last # "error"
  <2>1. y \in SearchRows /\ y.at = "book" /\ y.credits = c
      BY <1>1, <1>5 DEF SearchRows, SearchPlaces, LastSeen
  <2>2. ASSUME NEW l \in {"empty", "poor"}
        PROVE  /\ z(l) \in SearchRows /\ z(l).at = "route" /\ z(l).credits = c /\ z(l).i = n
               /\ z(l).first # 0 /\ z(l).last # "error"
      BY <1>1, <1>5, <1>n DEF SearchRows, SearchPlaces, LastSeen
  <2>3. QED  BY <2>1, <2>2, <1>n
<1> HIDE DEF y, z, r
<1>8. PICK x \in SearchRows : /\ Lookup!Put(s, x) /\ x.credits = c
                              /\ x.at = "book" \/ (x.at = "route" /\ x.i = r.i + 1 /\ x.first # 0 /\ x.last # "error")
    BY <1>6, <1>7
<1>9. search'[s] = x  BY <1>8 DEF Accounted, LookupTyped, Lookup!Put
<1>10. s \notin Gated'  BY <1>8, <1>9 DEF Gated
<1>11. CASE p \in Paid
  <2>1. c = Cost /\ Cost # 0  BY <1>11 DEF c, Budgeted
  <2>2. ~(r.i + 1 <= Len(Lookup!Order))  BY <1>1, <1>11 DEF Budgeted, PaidLast, r
  <2>3. RowOK(s)' /\ s \in Owing'  BY <1>1, <1>8, <1>9, <2>1, <2>2 DEF RowOK, Owing
  <2>4. s \in Gated  BY <1>1, <1>11 DEF Gated, r
  <2>5. bill' = [bill EXCEPT ![month] = @ + Cost]  BY <1>2, <1>11
  <2>6. QED  BY <1>2, <1>4, <1>8, <1>10, <2>3, <2>4, <2>5, ChargeKeeps
<1>12. CASE p \notin Paid
  <2>1. c = 0  BY <1>12 DEF c
  <2>2. RowOK(s)' /\ s \notin Owing'  BY <1>1, <1>8, <1>9, <2>1 DEF RowOK, Owing
  <2>3. bill' = bill  BY <1>2, <1>12
  <2>4. QED  BY <1>2, <1>3, <1>4, <1>8, <1>10, <2>2, <2>3, QuietlyKeeps
<1>13. QED  BY <1>11, <1>12

LEMMA FailsKeeps == ASSUME Budgeted, Accounted, NEW s \in Searchers, Lookup!Fails(s) PROVE Accounted'
<1>0. search[s] \in SearchRows  BY DEF Accounted, LookupTyped
<1>1. search[s] \in SearchRows /\ search[s].at = "call" /\ search[s].i \in Nat
    BY <1>0 DEF Lookup!Fails, SearchRows
<1>2. UNCHANGED <<budget, bill, month>>  BY DEF Lookup!Fails
<1>3. budget' \in Budgets /\ Lookup!Rolled' = Lookup!Rolled  BY <1>2, BudgetStays
<1>4. s \notin Owing  BY <1>1 DEF Owing
<1> DEFINE n == search[s].i + 1
           x == [search[s] EXCEPT !.at = "route", !.i = n, !.credits = 0, !.last = "error"]
<1>n. n \in Nat /\ n # 0  BY <1>1
<1>6. Lookup!Put(s, x)  BY DEF Lookup!Fails
<1> HIDE DEF n
<1>5. x \in SearchRows /\ x.at = "route" /\ x.i # 0 /\ x.credits = 0
    BY <1>1, <1>n DEF SearchRows, SearchPlaces, LastSeen
<1> HIDE DEF x
<1>7. search'[s] = x  BY <1>6 DEF Accounted, LookupTyped, Lookup!Put
<1>8. RowOK(s)' /\ s \notin Owing' /\ s \notin Gated'  BY <1>5, <1>7 DEF RowOK, Owing, Gated
<1>9. QED  BY <1>2, <1>3, <1>4, <1>5, <1>6, <1>8, QuietlyKeeps

LEMMA RetriesKeeps == ASSUME Budgeted, Accounted, NEW s \in Searchers, Lookup!Retries(s) PROVE Accounted'
<1>1. search[s] \in SearchRows /\ search[s].at = "call" /\ search[s].attempt \in Nat /\ RowOK(s)
    BY DEF Lookup!Retries, Accounted, LookupTyped, SearchRows
<1>2. UNCHANGED <<budget, bill, month>>  BY DEF Lookup!Retries
<1>3. budget' \in Budgets /\ Lookup!Rolled' = Lookup!Rolled  BY <1>2, BudgetStays
<1>4. s \notin Owing  BY <1>1 DEF Owing
<1> DEFINE x == [search[s] EXCEPT !.attempt = @ + 1]
<1>5. x \in SearchRows /\ x.at = "call" /\ x.i = search[s].i /\ x.credits = search[s].credits /\ x.first = search[s].first
    BY <1>1 DEF SearchRows
<1>6. Lookup!Put(s, x)  BY DEF Lookup!Retries
<1> HIDE DEF x
<1>7. search'[s] = x  BY <1>6 DEF Accounted, LookupTyped, Lookup!Put
<1>8. RowOK(s)' /\ s \notin Owing' /\ (s \in Gated' => s \in Gated)
    BY <1>1, <1>5, <1>7 DEF RowOK, Owing, Gated
<1>9. QED  BY <1>2, <1>3, <1>4, <1>5, <1>6, <1>8, QuietlyKeeps

LEMMA ExpiresKeeps == ASSUME Budgeted, Accounted, NEW s \in Searchers, Lookup!Expires(s) PROVE Accounted'
<1>1. s \notin Owing  BY DEF Lookup!Expires, Accounted, RowOK, Owing
<1>2. Lookup!Put(s, Lookup!Ended("timeout")) /\ UNCHANGED <<budget, bill, month>>  BY DEF Lookup!Expires
<1>3. Lookup!Ended("timeout") \in SearchRows /\ Lookup!Ended("timeout").at = "idle"  BY IdleRow
<1>4. QED  BY <1>1, <1>2, <1>3, SettledKeeps

LEMMA ExhaustedKeeps ==
    ASSUME Budgeted, Accounted, NEW s \in Searchers, Lookup!Exhausted(s)
    PROVE  Accounted'
<1>1. search[s] \in SearchRows /\ search[s].at = "route" /\ RowOK(s)
    BY DEF Lookup!Exhausted, Accounted, LookupTyped
<1>2. UNCHANGED <<budget, bill, month>>  BY DEF Lookup!Exhausted
<1>3. budget' \in Budgets /\ Lookup!Rolled' = Lookup!Rolled  BY <1>2, BudgetStays
<1>4. CASE search[s].first = 0 \/ search[s].last = "error"
  <2>1. s \notin Owing  BY <1>1, <1>4 DEF Owing, RowOK
  <2>2. Lookup!Put(s, Lookup!Ended("unconfigured")) \/ Lookup!Put(s, Lookup!Ended("failed"))
      BY <1>4 DEF Lookup!Exhausted
  <2>3. /\ Lookup!Ended("unconfigured") \in SearchRows /\ Lookup!Ended("unconfigured").at = "idle"
        /\ Lookup!Ended("failed") \in SearchRows /\ Lookup!Ended("failed").at = "idle"
      BY IdleRow
  <2>4. QED  BY <1>2, <2>1, <2>2, <2>3, SettledKeeps
<1>5. CASE ~(search[s].first = 0 \/ search[s].last = "error")
  <2> DEFINE x == [search[s] EXCEPT !.at = "book"]
  <2>1. x \in SearchRows /\ x.at = "book" /\ x.credits = search[s].credits
      BY <1>1 DEF SearchRows, SearchPlaces
  <2>2. Lookup!Put(s, x)  BY <1>5 DEF Lookup!Exhausted
  <2> HIDE DEF x
  <2>3. search'[s] = x  BY <2>2 DEF Accounted, LookupTyped, Lookup!Put
  <2>4. RowOK(s)' /\ s \notin Gated' /\ (s \in Owing' <=> s \in Owing)
      BY <1>1, <2>1, <2>3 DEF RowOK, Owing, Gated
  <2>5. QED  BY <1>2, <1>3, <2>1, <2>2, <2>4, QuietlyKeeps
<1>6. QED  BY <1>4, <1>5

LEMMA BookKeeps == ASSUME Budgeted, Accounted, NEW s \in Searchers, Lookup!Book(s) PROVE Accounted'
<1>1. search[s] \in SearchRows /\ search[s].at = "book"  BY DEF Lookup!Book, Accounted, LookupTyped
<1>2. UNCHANGED <<bill, month>>  BY DEF Lookup!Book
<1>3. CASE search[s].credits = 0
  <2> DEFINE x == [search[s] EXCEPT !.at = "keep"]
  <2>1. x \in SearchRows /\ x.at = "keep"  BY <1>1 DEF SearchRows, SearchPlaces
  <2>2. Lookup!Put(s, x) /\ UNCHANGED budget  BY <1>3 DEF Lookup!Book
  <2>3. s \notin Owing  BY <1>3 DEF Owing
  <2> HIDE DEF x
  <2>4. QED  BY <1>2, <2>1, <2>2, <2>3, SettledKeeps
<1>4. CASE search[s].credits # 0
  <2> DEFINE b == Lookup!Count(month, Lookup!Rolled.spent + search[s].credits)
             x == [search[s] EXCEPT !.at = "write", !.snap = b]
  <2>1. Lookup!Put(s, x) /\ budget' = b  BY <1>4 DEF Lookup!Book
  <2>2. search[s].credits = Cost  BY <1>1, <1>4 DEF SearchRows
  <2>3. budget' = Lookup!Count(month, Lookup!Rolled.spent + Cost)  BY <2>1, <2>2
  <2>4. b \in Budgets
    <3>1. Lookup!Rolled.spent \in Nat /\ month \in Nat /\ Cost \in Nat
        BY RolledTyped DEF Accounted, LookupTyped, Budgets, Budgeted
    <3>2. QED  BY <2>2, <3>1 DEF Lookup!Count, Budgets
  <2> HIDE DEF b
  <2>5. x \in SearchRows /\ x.at = "write"  BY <1>1, <2>4 DEF SearchRows, SearchPlaces
  <2> HIDE DEF x
  <2>6. search'[s] = x  BY <2>1, <2>5 DEF Accounted, LookupTyped, Lookup!Put
  <2>7. RowOK(s)' /\ s \notin Gated' /\ s \notin Owing' /\ s \in Owing
      BY <1>1, <1>4, <2>5, <2>6 DEF RowOK, Owing, Gated
  <2>8. QED  BY <1>2, <2>1, <2>3, <2>5, <2>7, BookingKeeps
<1>5. QED  BY <1>3, <1>4

\* The bookings' way to the disk, and the end of a search.
LEMMA SavesKeep ==
    ASSUME Budgeted, Accounted, NEW s \in Searchers,
           Lookup!WriteTemp(s) \/ Lookup!Rename(s) \/ Lookup!Keep(s) PROVE Accounted'
<1>1. /\ UNCHANGED <<budget, bill, month>> /\ search[s] \in SearchRows /\ search[s].at \in {"write", "rename", "keep"}
      /\ \E a \in {"rename", "keep"} :
            Lookup!Put(s, [search[s] EXCEPT !.at = a]) \/ Lookup!Put(s, Lookup!Ended("answered"))
    BY DEF Lookup!WriteTemp, Lookup!Rename, Lookup!Keep, Accounted, LookupTyped
<1>2. s \notin Owing  BY <1>1 DEF Owing
<1>3. PICK a \in {"rename", "keep"} :
          Lookup!Put(s, [search[s] EXCEPT !.at = a]) \/ Lookup!Put(s, Lookup!Ended("answered"))
    BY <1>1
<1>4. [search[s] EXCEPT !.at = a] \in SearchRows /\ [search[s] EXCEPT !.at = a].at \in {"rename", "keep"}
    BY <1>1 DEF SearchRows, SearchPlaces
<1>5. Lookup!Ended("answered") \in SearchRows /\ Lookup!Ended("answered").at = "idle"  BY IdleRow
<1>6. QED  BY <1>1, <1>2, <1>3, <1>4, <1>5, SettledKeeps

LEMMA NextMonthKeeps == ASSUME Budgeted, Accounted, Lookup!NextMonth PROVE Accounted'
<1>1. /\ month' = month + 1 /\ month \in Nat /\ month' \in 1 .. MaxMonth /\ UNCHANGED <<bill, budget, search>>
      /\ MaxMonth \in Nat \ {0}
    BY DEF Lookup!NextMonth, Accounted, LookupTyped, Budgeted
<1>2. LookupTyped' /\ \A s \in Searchers : RowOK(s)'  BY <1>1 DEF Accounted, LookupTyped, RowOK
<1>3. Gated' = Gated /\ Owing' = Owing  BY <1>1 DEF Gated, Owing
<1>4. Cardinality(Gated) \in Nat /\ Cardinality(Owing) \in Nat /\ Cardinality(Gated) <= Cardinality(Searchers)
    BY OwingAside, SearcherSets
<1>5. bill[month] \in Nat /\ bill[month] <= MonthBound
  <2>1. bill[month] \in Nat /\ bill[month] + Cost * Cardinality(Gated) <= MonthBound
      BY DEF Accounted, LookupTyped
  <2>2. Cost * Cardinality(Gated) \in Nat /\ MonthBound \in Int  BY <1>4, Costs, Edge
  <2>3. QED  BY <2>1, <2>2
<1>6. bill'[month'] = 0  BY <1>1 DEF Accounted, LookupTyped
<1>7. \A m \in 1 .. MaxMonth : (m > month' => bill'[m] = 0) /\ (m < month' => bill'[m] <= MonthBound)
  <2>1. ASSUME NEW m \in 1 .. MaxMonth
        PROVE (m > month' => bill'[m] = 0) /\ (m < month' => bill'[m] <= MonthBound)
    <3>1. (m > month => bill[m] = 0) /\ (m < month => bill[m] <= MonthBound)  BY DEF Accounted
    <3>2. QED  BY <1>1, <1>5, <3>1
  <2>2. QED  BY <2>1
<1>8. bill'[month'] <= Lookup!Rolled'.spent + Cost * Cardinality(Owing')
  <2>1. Lookup!Rolled'.spent \in Nat
    <3>1. Lookup!Rolled' = IF budget.month = month + 1 THEN budget ELSE Lookup!Count(month + 1, 0)
        BY <1>1 DEF Lookup!Rolled
    <3>2. budget.spent \in Nat /\ Lookup!Count(month + 1, 0).spent = 0
        BY DEF Accounted, LookupTyped, Budgets, Lookup!Count
    <3>3. QED  BY <3>1, <3>2
  <2>2. Cost * Cardinality(Owing') \in Nat  BY <1>3, <1>4, Costs
  <2>3. QED  BY <1>6, <2>1, <2>2
<1>9. bill'[month'] + Cost * Cardinality(Gated') <= MonthBound
  <2>1. Cost * Cardinality(Gated) <= MonthBound /\ Cost * Cardinality(Gated) \in Nat  BY <1>4, Edge, Costs
  <2>2. QED  BY <1>3, <1>6, <2>1
<1>10. QED  BY <1>2, <1>7, <1>8, <1>9 DEF Accounted, MonthBound

LEMMA UntouchedKeeps ==
    ASSUME Budgeted, Accounted, UNCHANGED <<bill, budget, search, month>>
    PROVE  Accounted'
<1>1. LookupTyped' /\ \A s \in Searchers : RowOK(s)'  BY DEF Accounted, LookupTyped, RowOK
<1>2. Gated' = Gated /\ Owing' = Owing /\ Lookup!Rolled' = Lookup!Rolled
    BY DEF Gated, Owing, Lookup!Rolled, Lookup!Count
<1>3. QED  BY <1>1, <1>2 DEF Accounted, MonthBound

LEMMA AccountedInit == ASSUME Budgeted, Lookup!Init PROVE Accounted
<1>1. /\ month = 1 /\ budget = Lookup!Count(1, 0) /\ bill = [m \in 1 .. MaxMonth |-> 0]
      /\ search = [s \in Searchers |-> Lookup!Idle] /\ MaxMonth \in Nat \ {0}
    BY DEF Lookup!Init, Budgeted
<1>2. Lookup!Idle \in SearchRows /\ Lookup!Idle.at = "idle"
    BY DEF Lookup!Idle, SearchRows, SearchPlaces, LastSeen, Budgets
<1>3. LookupTyped  BY <1>1, <1>2 DEF LookupTyped, Budgets, Lookup!Count
<1>4. \A s \in Searchers : RowOK(s)  BY <1>1, <1>2 DEF RowOK
<1>5. Gated = {} /\ Owing = {}  BY <1>1, <1>2 DEF Gated, Owing
<1>6. Cardinality({}) = 0  BY FS_EmptySet
<1>7. Lookup!Rolled.spent = 0  BY <1>1 DEF Lookup!Rolled, Lookup!Count
<1>8. bill[month] = 0  BY <1>1
<1>9. Cost * 0 = 0 /\ 0 <= MonthBound  BY AtLeastZero
<1>10. \A m \in 1 .. MaxMonth : (m > month => bill[m] = 0) /\ (m < month => bill[m] <= MonthBound)  BY <1>1
<1>11. bill[month] <= Lookup!Rolled.spent + Cost * Cardinality(Owing)  BY <1>5, <1>6, <1>7, <1>8, <1>9
<1>12. bill[month] + Cost * Cardinality(Gated) <= MonthBound  BY <1>5, <1>6, <1>8, <1>9
<1>13. QED  BY <1>3, <1>4, <1>10, <1>11, <1>12 DEF Accounted

LEMMA AccountedBounds == ASSUME Budgeted, Accounted PROVE \A m \in 1 .. MaxMonth : bill[m] <= MonthBound
<1>1. bill[month] <= MonthBound
  <2>1. bill[month] \in Nat /\ bill[month] + Cost * Cardinality(Gated) <= MonthBound
      BY DEF Accounted, LookupTyped
  <2>2. Cost * Cardinality(Gated) \in Nat /\ MonthBound \in Int  BY OwingAside, SearcherSets, Costs, Edge
  <2>3. QED  BY <2>1, <2>2
<1>2. ASSUME NEW m \in 1 .. MaxMonth PROVE bill[m] <= MonthBound
  <2>1. month \in Nat /\ m \in Nat /\ bill[m] \in Nat /\ MaxMonth \in Nat
      BY DEF Accounted, LookupTyped, Budgeted
  <2>2. CASE m > month
    <3>1. bill[m] = 0  BY <2>2 DEF Accounted
    <3>2. QED  BY <3>1, AtLeastZero
  <2>3. CASE m < month  BY <2>3 DEF Accounted
  <2>4. CASE m = month  BY <1>1, <2>4
  <2>5. QED  BY <2>1, <2>2, <2>3, <2>4
<1>3. QED  BY <1>2

LEMMA RunKeeps ==
    ASSUME Budgeted, kills \in Nat, kills = 0 => Accounted, [Lookup!Next]_(Lookup!vars)
    PROVE  kills' \in Nat /\ (kills' = 0 => Accounted')
<1>1. CASE kills # 0
  <2>1. kills' = kills \/ kills' = kills + 1
    <3>1. CASE Lookup!Restart  BY <3>1 DEF Lookup!Restart
    <3>2. CASE Lookup!Tick \/ Lookup!NextMonth \/ UNCHANGED Lookup!vars
        BY <3>2 DEF Lookup!Tick, Lookup!NextMonth, Lookup!vars
    <3>3. ASSUME NEW s \in Searchers,
                 \/ Lookup!Begin(s) \/ Lookup!PaidGate(s) \/ Lookup!Choose(s) \/ Lookup!Answers(s)
                 \/ Lookup!Fails(s) \/ Lookup!Retries(s) \/ Lookup!Expires(s)
                 \/ Lookup!Exhausted(s) \/ Lookup!Book(s) \/ Lookup!WriteTemp(s) \/ Lookup!Rename(s)
                 \/ Lookup!Keep(s)
          PROVE  kills' = kills
        BY <3>3 DEF Lookup!Begin, Lookup!PaidGate, Lookup!Choose, Lookup!Answers, Lookup!Fails,
           Lookup!Retries, Lookup!Expires, Lookup!Exhausted, Lookup!Book, Lookup!WriteTemp, Lookup!Rename,
           Lookup!Keep
    <3>4. QED  BY <3>1, <3>2, <3>3 DEF Lookup!Next
  <2>2. QED  BY <1>1, <2>1
<1>2. CASE kills = 0
  <2>1. Accounted  BY <1>2
  <2>2. CASE Lookup!Restart  BY <1>2, <2>2 DEF Lookup!Restart
  <2>3. CASE Lookup!Tick \/ UNCHANGED Lookup!vars
    <3>1. UNCHANGED <<bill, budget, search, month, kills>>  BY <2>3 DEF Lookup!Tick, Lookup!vars
    <3>2. QED  BY <2>1, <3>1, UntouchedKeeps
  <2>4. CASE Lookup!NextMonth  BY <2>1, <2>4, NextMonthKeeps DEF Lookup!NextMonth
  <2>5. ASSUME NEW s \in Searchers,
               \/ Lookup!Begin(s) \/ Lookup!PaidGate(s) \/ Lookup!Choose(s) \/ Lookup!Answers(s)
               \/ Lookup!Fails(s) \/ Lookup!Retries(s) \/ Lookup!Expires(s)
               \/ Lookup!Exhausted(s) \/ Lookup!Book(s) \/ Lookup!WriteTemp(s) \/ Lookup!Rename(s)
               \/ Lookup!Keep(s)
        PROVE  kills' \in Nat /\ (kills' = 0 => Accounted')
    <3>1. kills' = kills
        BY <2>5 DEF Lookup!Begin, Lookup!PaidGate, Lookup!Choose, Lookup!Answers, Lookup!Fails,
           Lookup!Retries, Lookup!Expires, Lookup!Exhausted, Lookup!Book, Lookup!WriteTemp, Lookup!Rename,
           Lookup!Keep
    <3>2. Accounted'
        BY <2>1, <2>5, BeginKeeps, PaidGateKeeps, ChooseKeeps, AnswersKeeps, FailsKeeps, RetriesKeeps,
           ExpiresKeeps,
           ExhaustedKeeps, BookKeeps, SavesKeep
    <3>3. QED  BY <3>1, <3>2
  <2>6. QED  BY <2>2, <2>3, <2>4, <2>5 DEF Lookup!Next
<1>3. QED  BY <1>1, <1>2

\* The paid provider is left alone once the month's credits are spent (tavily_budget.go: allow, record,
\* load): the gate is asked before a call and the credits are booked after it, by any number of searches
\* at once and across the end of a month, and each of them may be past the gate when the limit is
\* reached, but none twice.  Nothing may be asked behind a paid provider, as nothing is in the default
\* order, SearXNG and then Tavily: only what the last provider cost is booked (search_orchestrator.go,
\* recordTavilyCredits), so that the credits of one asked earlier, whose poor answer another provider's
\* error or the deadline follows, would be spent unseen.
THEOREM CreditsAreBounded == ASSUME Budgeted PROVE Lookup!Spec => []Lookup!SpendBounded
<1> DEFINE I == kills \in Nat /\ (kills = 0 => Accounted)
<1>1. Lookup!Init => I  BY AccountedInit DEF Lookup!Init
<1>2. I /\ [Lookup!Next]_(Lookup!vars) => I'  BY RunKeeps
<1>3. I => Lookup!SpendBounded  BY AccountedBounds, SameSizes DEF Lookup!SpendBounded, MonthBound
<1>4. QED  BY <1>1, <1>2, <1>3, PTL DEF Lookup!Spec

(***************************************************************************)
(* The events of the Responses endpoint                                    *)
(*                                                                         *)
(* The items opened and closed are followed through the sequence of        *)
(* events: the cursor names the one that is open, and whatever was shown   *)
(* belongs to the last account and the last call to it.                    *)
(***************************************************************************)
Names  == {"msg", "fc", "response"}
Kinds  == {"added", "delta", "done", "completed", "failed"}
ItemEvents == [ev : Kinds, index : Nat, id : Names \X Nat \X Nat]

\* The properties of a sequence of events, for whatever sequence.
Earlier(s, n, ev)    == {m \in 1 .. n - 1 : s[m].ev = ev}
Count(s, n, ev)  == Cardinality(Earlier(s, n, ev))
LastAdded(s, n)       == CHOOSE m \in Earlier(s, n, "added") : \A k \in Earlier(s, n, "added") : k <= m
InPlace(s, n)    ==
    /\ s[n].ev = "added" => Count(s, n, "added") = Count(s, n, "done") /\ s[n].index = Count(s, n, "added")
    /\ s[n].ev \in {"delta", "done"} => /\ Count(s, n, "added") = Count(s, n, "done") + 1
                                        /\ s[n].index = s[LastAdded(s, n)].index
                                        /\ s[n].id = s[LastAdded(s, n)].id
    /\ s[n].ev = "completed" => Count(s, n, "added") = Count(s, n, "done")
    /\ s[n].ev \in {"completed", "failed"} => n = Len(s)
Tidy(s) == s \in Seq(ItemEvents) /\ \A n \in 1 .. Len(s) : InPlace(s, n)

\* What may come next: an item, or more of the one that is open.
Unfinished(s)  == \A n \in 1 .. Len(s) : s[n].ev \notin {"completed", "failed"}
Shut(s, k)     == /\ Tidy(s) /\ Unfinished(s)
                  /\ Count(s, Len(s) + 1, "added") = k /\ Count(s, Len(s) + 1, "done") = k
Open(s, k, id) == /\ Tidy(s) /\ Unfinished(s)
                  /\ Count(s, Len(s) + 1, "added") = k + 1 /\ Count(s, Len(s) + 1, "done") = k
                  /\ s[LastAdded(s, Len(s) + 1)].index = k /\ s[LastAdded(s, Len(s) + 1)].id = id

LEMMA Adding ==
    ASSUME NEW s \in Seq(ItemEvents), NEW e \in ItemEvents, NEW ev
    PROVE  LET t == Append(s, e) IN
           /\ t \in Seq(ItemEvents) /\ Len(t) = Len(s) + 1 /\ t[Len(s) + 1] = e
           /\ \A n \in 1 .. Len(s) : t[n] = s[n]
           /\ \A n \in 1 .. Len(s) + 1 : Earlier(t, n, ev) = Earlier(s, n, ev)
           /\ e.ev # ev => Earlier(t, Len(s) + 2, ev) = Earlier(s, Len(s) + 1, ev)
           /\ e.ev = ev => Earlier(t, Len(s) + 2, ev) = Earlier(s, Len(s) + 1, ev) \cup {Len(s) + 1}
<1> DEFINE t == Append(s, e)
<1>1. /\ t \in Seq(ItemEvents) /\ Len(t) = Len(s) + 1 /\ t[Len(s) + 1] = e /\ Len(s) \in Nat
      /\ \A n \in 1 .. Len(s) : t[n] = s[n]
    OBVIOUS
<1> HIDE DEF t
<1>2. \A n \in 1 .. Len(s) + 1 : Earlier(t, n, ev) = Earlier(s, n, ev)
    BY <1>1 DEF Earlier
<1>3. e.ev # ev => Earlier(t, Len(s) + 2, ev) = Earlier(s, Len(s) + 1, ev)
    BY <1>1 DEF Earlier
<1>4. e.ev = ev => Earlier(t, Len(s) + 2, ev) = Earlier(s, Len(s) + 1, ev) \cup {Len(s) + 1}
    BY <1>1 DEF Earlier
<1>5. QED  BY <1>1, <1>2, <1>3, <1>4 DEF t

LEMMA BefFinite ==
    ASSUME NEW s, NEW n \in Nat, NEW ev
    PROVE  /\ Earlier(s, n + 1, ev) \subseteq 1 .. n /\ n + 1 \notin Earlier(s, n + 1, ev)
           /\ IsFiniteSet(Earlier(s, n + 1, ev)) /\ Count(s, n + 1, ev) \in Nat
<1>1. Earlier(s, n + 1, ev) \subseteq 1 .. n  BY DEF Earlier
<1>2. IsFiniteSet(1 .. n)  BY FS_Interval
<1>3. IsFiniteSet(Earlier(s, n + 1, ev))  BY <1>1, <1>2, FS_Subset
<1>4. n + 1 \notin 1 .. n  OBVIOUS
<1>5. QED  BY <1>1, <1>3, <1>4, FS_CardinalityType DEF Count

LEMMA Counting ==
    ASSUME NEW s \in Seq(ItemEvents), NEW e \in ItemEvents, NEW ev
    PROVE  /\ \A n \in 1 .. Len(s) + 1 : Count(Append(s, e), n, ev) = Count(s, n, ev)
           /\ Count(s, Len(s) + 1, ev) \in Nat
           /\ Count(Append(s, e), Len(s) + 2, ev) = Count(s, Len(s) + 1, ev) + (IF e.ev = ev THEN 1 ELSE 0)
<1> DEFINE t == Append(s, e) B == Earlier(s, Len(s) + 1, ev)
<1>0. Len(s) \in Nat  OBVIOUS
<1>1. IsFiniteSet(B) /\ Cardinality(B) \in Nat /\ Len(s) + 1 \notin B
    BY <1>0, BefFinite DEF Count
<1>2. Cardinality(B \cup {Len(s) + 1}) = Cardinality(B) + 1  BY <1>1, FS_AddElement
<1>a. /\ \A n \in 1 .. Len(s) + 1 : Earlier(t, n, ev) = Earlier(s, n, ev)
      /\ e.ev # ev => Earlier(t, Len(s) + 2, ev) = B
      /\ e.ev = ev => Earlier(t, Len(s) + 2, ev) = B \cup {Len(s) + 1}
    BY Adding
<1> HIDE DEF t, B
<1>3. \A n \in 1 .. Len(s) + 1 : Count(t, n, ev) = Count(s, n, ev)
    BY <1>a DEF Count
<1>4. Count(s, Len(s) + 1, ev) = Cardinality(B)  BY DEF Count, B
<1>6. CASE e.ev = ev
  <2>1. Count(t, Len(s) + 2, ev) = Cardinality(B) + 1  BY <1>6, <1>a, <1>2 DEF Count
  <2>2. QED  BY <1>1, <1>3, <1>4, <1>6, <2>1 DEF t
<1>7. CASE e.ev # ev
  <2>1. Count(t, Len(s) + 2, ev) = Cardinality(B)  BY <1>7, <1>a DEF Count
  <2>2. QED  BY <1>1, <1>3, <1>4, <1>7, <2>1 DEF t
<1>8. QED  BY <1>6, <1>7

LEMMA LatestAdded ==
    ASSUME NEW s \in Seq(ItemEvents), NEW e \in ItemEvents
    PROVE  /\ \A n \in 1 .. Len(s) + 1 : LastAdded(Append(s, e), n) = LastAdded(s, n)
           /\ e.ev # "added" => LastAdded(Append(s, e), Len(s) + 2) = LastAdded(s, Len(s) + 1)
           /\ e.ev = "added" => LastAdded(Append(s, e), Len(s) + 2) = Len(s) + 1
<1> DEFINE t == Append(s, e) B == Earlier(s, Len(s) + 1, "added")
<1>0. Len(s) \in Nat  OBVIOUS
<1>a. /\ \A n \in 1 .. Len(s) + 1 : Earlier(t, n, "added") = Earlier(s, n, "added")
      /\ e.ev # "added" => Earlier(t, Len(s) + 2, "added") = B
      /\ e.ev = "added" => Earlier(t, Len(s) + 2, "added") = B \cup {Len(s) + 1}
    BY Adding
<1>b. B \subseteq 1 .. Len(s)  BY <1>0, BefFinite
<1> HIDE DEF t
<1>1. \A n \in 1 .. Len(s) + 1 : LastAdded(t, n) = LastAdded(s, n)  BY <1>a DEF LastAdded
<1>2. CASE e.ev # "added"  BY <1>1, <1>a, <1>2 DEF LastAdded, t
<1>3. CASE e.ev = "added"
  <2> DEFINE C == B \cup {Len(s) + 1}
  <2>2. \A k \in C : k \in Int /\ k <= Len(s) + 1  BY <1>0, <1>b
  <2>3. Len(s) + 1 \in C  OBVIOUS
  <2>c. Earlier(t, Len(s) + 2, "added") = C  BY <1>a, <1>3
  <2> HIDE DEF C
  <2>4. \A m \in C : (\A k \in C : k <= m) => m = Len(s) + 1  BY <1>0, <2>2, <2>3
  <2>5. (CHOOSE m \in C : \A k \in C : k <= m) = Len(s) + 1  BY <2>2, <2>3, <2>4
  <2>6. LastAdded(t, Len(s) + 2) = Len(s) + 1  BY <2>c, <2>5 DEF LastAdded
  <2>7. QED  BY <1>1, <1>3, <2>6 DEF t
<1>4. QED  BY <1>2, <1>3

LEMMA LastIn ==
    ASSUME NEW s, NEW n \in Nat, Count(s, n + 1, "added") # 0
    PROVE  LastAdded(s, n + 1) \in 1 .. n
<1> DEFINE B == Earlier(s, n + 1, "added") T == {n - m : m \in B}
<1>1. B \subseteq 1 .. n  BY BefFinite
<1>2. B # {}  BY FS_EmptySet DEF Count
<1> HIDE DEF B
<1>3. T \in SUBSET Nat /\ T # {}
  <2>1. \A m \in B : n - m \in Nat  BY <1>1
  <2>2. QED  BY <1>2, <2>1
<1>4. PICK l \in T : \A k \in T : l <= k  BY <1>3, LeastNatural
<1>5. PICK m \in B : l = n - m  BY <1>4
<1>6. \A k \in B : k <= m
  <2>1. ASSUME NEW k \in B PROVE k <= m
    <3>1. n - k \in T /\ k \in Nat /\ m \in Nat  BY <1>1
    <3>2. n - m <= n - k  BY <1>4, <1>5, <3>1
    <3>3. QED  BY <3>1, <3>2
  <2>2. QED  BY <2>1
<1>7. LastAdded(s, n + 1) \in B  BY <1>6 DEF LastAdded, B
<1>8. QED  BY <1>1, <1>7

\* One more event: the places before it are what they were.
LEMMA PlacesStay ==
    ASSUME NEW s \in Seq(ItemEvents), NEW e \in ItemEvents, NEW n \in 1 .. Len(s), InPlace(s, n), Unfinished(s)
    PROVE  InPlace(Append(s, e), n)
<1> DEFINE t == Append(s, e)
<1>0. Len(s) \in Nat /\ n \in Nat /\ n - 1 \in Nat /\ n \in 1 .. Len(s) + 1  OBVIOUS
<1>1. t[n] = s[n] /\ \A m \in 1 .. Len(s) : t[m] = s[m]  BY Adding
<1>2. /\ Count(t, n, "added") = Count(s, n, "added") /\ Count(t, n, "done") = Count(s, n, "done")
      /\ LastAdded(t, n) = LastAdded(s, n)
    BY <1>0, Counting, LatestAdded
<1>3. s[n].ev \in {"delta", "done"} => t[LastAdded(t, n)] = s[LastAdded(s, n)]
  <2>1. SUFFICES ASSUME s[n].ev \in {"delta", "done"} PROVE LastAdded(s, n) \in 1 .. Len(s)
      BY <1>1, <1>2
  <2>2. Count(s, n, "added") = Count(s, n, "done") + 1  BY <2>1 DEF InPlace
  <2>3. Count(s, (n - 1) + 1, "done") \in Nat /\ (n - 1) + 1 = n  BY <1>0, BefFinite
  <2>4. Count(s, n, "added") # 0  BY <2>2, <2>3
  <2>5. LastAdded(s, n) \in 1 .. n - 1  BY <1>0, <2>3, <2>4, LastIn
  <2>6. QED  BY <1>0, <2>5
<1>4. s[n].ev \notin {"completed", "failed"}  BY DEF Unfinished
<1> HIDE DEF t
<1>5. InPlace(t, n)  BY <1>1, <1>2, <1>3, <1>4 DEF InPlace
<1>6. QED  BY <1>5 DEF t

LEMMA Appended ==
    ASSUME NEW s \in Seq(ItemEvents), NEW e \in ItemEvents, Tidy(s), Unfinished(s),
           InPlace(Append(s, e), Len(s) + 1)
    PROVE  /\ Tidy(Append(s, e))
           /\ e.ev \notin {"completed", "failed"} => Unfinished(Append(s, e))
<1> DEFINE t == Append(s, e)
<1>0. Len(s) \in Nat /\ Len(t) = Len(s) + 1 /\ t \in Seq(ItemEvents) /\ t[Len(s) + 1] = e
      /\ \A n \in 1 .. Len(s) : t[n] = s[n]
    BY Adding
<1>1. \A n \in 1 .. Len(s) : InPlace(t, n)  BY PlacesStay DEF Tidy
<1> HIDE DEF t
<1>2. \A n \in 1 .. Len(t) : n = Len(s) + 1 \/ n \in 1 .. Len(s)  BY <1>0
<1>3. InPlace(t, Len(s) + 1)  BY DEF t
<1>4. Tidy(t)  BY <1>0, <1>1, <1>2, <1>3 DEF Tidy
<1>5. e.ev \notin {"completed", "failed"} => Unfinished(t)  BY <1>0, <1>2 DEF Unfinished
<1>6. QED  BY <1>4, <1>5 DEF t

LEMMA AddItem == ASSUME NEW s, NEW k \in Nat, Shut(s, k), NEW e \in ItemEvents, e.ev = "added", e.index = k
    PROVE  Open(Append(s, e), k, e.id)
<1> DEFINE t == Append(s, e)
<1>0. /\ s \in Seq(ItemEvents) /\ Len(s) \in Nat /\ Len(t) = Len(s) + 1 /\ t[Len(s) + 1] = e
      /\ Len(s) + 1 \in 1 .. Len(s) + 1 /\ Len(t) + 1 = Len(s) + 2
    BY Adding DEF Shut, Tidy
<1>1. /\ Count(t, Len(s) + 1, "added") = k /\ Count(t, Len(s) + 1, "done") = k
      /\ Count(t, Len(s) + 2, "added") = k + 1 /\ Count(t, Len(s) + 2, "done") = k
      /\ LastAdded(t, Len(s) + 2) = Len(s) + 1
    BY <1>0, Counting, LatestAdded DEF Shut
<1> HIDE DEF t
<1>2. InPlace(t, Len(s) + 1)  BY <1>0, <1>1 DEF InPlace
<1>3. Tidy(t) /\ Unfinished(t)  BY <1>0, <1>2, Appended DEF Shut, t
<1>4. QED  BY <1>0, <1>1, <1>3 DEF Open, t

LEMMA AddDelta ==
    ASSUME NEW s, NEW k \in Nat, NEW id, Open(s, k, id), NEW e \in ItemEvents, e.ev = "delta", e.index = k,
           e.id = id
    PROVE  Open(Append(s, e), k, id)
<1> DEFINE t == Append(s, e)
<1>0. /\ s \in Seq(ItemEvents) /\ Len(s) \in Nat /\ Len(t) = Len(s) + 1 /\ t[Len(s) + 1] = e
      /\ Len(s) + 1 \in 1 .. Len(s) + 1 /\ Len(t) + 1 = Len(s) + 2
      /\ \A n \in 1 .. Len(s) : t[n] = s[n]
    BY Adding DEF Open, Tidy
<1>1. /\ Count(t, Len(s) + 1, "added") = k + 1 /\ Count(t, Len(s) + 1, "done") = k
      /\ Count(t, Len(s) + 2, "added") = k + 1 /\ Count(t, Len(s) + 2, "done") = k
      /\ LastAdded(t, Len(s) + 2) = LastAdded(s, Len(s) + 1)
      /\ LastAdded(t, Len(s) + 1) = LastAdded(s, Len(s) + 1)
    BY <1>0, Counting, LatestAdded DEF Open
<1>2. LastAdded(s, Len(s) + 1) \in 1 .. Len(s)
  <2>1. Count(s, Len(s) + 1, "added") # 0  BY DEF Open
  <2>2. QED  BY <1>0, <2>1, LastIn
<1> HIDE DEF t
<1>3. t[LastAdded(s, Len(s) + 1)] = s[LastAdded(s, Len(s) + 1)]  BY <1>0, <1>2
<1>4. InPlace(t, Len(s) + 1)  BY <1>0, <1>1, <1>3 DEF InPlace, Open
<1>5. Tidy(t) /\ Unfinished(t)  BY <1>0, <1>4, Appended DEF Open, t
<1>6. QED  BY <1>0, <1>1, <1>3, <1>5 DEF Open, t

LEMMA AddDone ==
    ASSUME NEW s, NEW k \in Nat, NEW id, Open(s, k, id), NEW e \in ItemEvents, e.ev = "done", e.index = k,
           e.id = id
    PROVE  Shut(Append(s, e), k + 1)
<1> DEFINE t == Append(s, e)
<1>0. /\ s \in Seq(ItemEvents) /\ Len(s) \in Nat /\ Len(t) = Len(s) + 1 /\ t[Len(s) + 1] = e
      /\ Len(s) + 1 \in 1 .. Len(s) + 1 /\ Len(t) + 1 = Len(s) + 2
      /\ \A n \in 1 .. Len(s) : t[n] = s[n]
    BY Adding DEF Open, Tidy
<1>1. /\ Count(t, Len(s) + 1, "added") = k + 1 /\ Count(t, Len(s) + 1, "done") = k
      /\ Count(t, Len(s) + 2, "added") = k + 1 /\ Count(t, Len(s) + 2, "done") = k + 1
      /\ LastAdded(t, Len(s) + 1) = LastAdded(s, Len(s) + 1)
    BY <1>0, Counting, LatestAdded DEF Open
<1>2. LastAdded(s, Len(s) + 1) \in 1 .. Len(s)
  <2>1. Count(s, Len(s) + 1, "added") # 0  BY DEF Open
  <2>2. QED  BY <1>0, <2>1, LastIn
<1> HIDE DEF t
<1>3. t[LastAdded(s, Len(s) + 1)] = s[LastAdded(s, Len(s) + 1)]  BY <1>0, <1>2
<1>4. InPlace(t, Len(s) + 1)  BY <1>0, <1>1, <1>3 DEF InPlace, Open
<1>5. Tidy(t) /\ Unfinished(t)  BY <1>0, <1>4, Appended DEF Open, t
<1>6. QED  BY <1>0, <1>1, <1>3, <1>5 DEF Shut, t

\* The end of the response: told of as completed with every item closed, as failed at any time.
LEMMA AddFinal ==
    ASSUME NEW s \in Seq(ItemEvents), Tidy(s), Unfinished(s), NEW e \in ItemEvents,
           \/ e.ev = "failed"
           \/ e.ev = "completed" /\ \E k \in Nat : Shut(s, k)
    PROVE  Tidy(Append(s, e))
<1> DEFINE t == Append(s, e)
<1>0. /\ Len(s) \in Nat /\ Len(t) = Len(s) + 1 /\ t[Len(s) + 1] = e /\ Len(s) + 1 \in 1 .. Len(s) + 1
    BY Adding
<1>1. e.ev = "completed" => Count(t, Len(s) + 1, "added") = Count(t, Len(s) + 1, "done")
    BY <1>0, Counting DEF Shut
<1> HIDE DEF t
<1>2. InPlace(t, Len(s) + 1)  BY <1>0, <1>1 DEF InPlace
<1>3. QED  BY <1>2, Appended DEF t

LEMMA NothingShown == Shut(<< >>, 0)
<1>1. << >> \in Seq(ItemEvents) /\ Len(<< >>) = 0 /\ 1 .. Len(<< >>) = {}  OBVIOUS
<1>2. \A ev : Earlier(<< >>, 1, ev) = {}  BY DEF Earlier
<1>3. QED  BY <1>1, <1>2, FS_EmptySet DEF Shut, Tidy, Unfinished, Count

\* A tool call: added, told and done at once.
LEMMA AddCall ==
    ASSUME NEW s, NEW k \in Nat, Shut(s, k), NEW a \in ItemEvents, NEW d \in ItemEvents,
           NEW f \in ItemEvents,
           a.ev = "added", d.ev = "delta", f.ev = "done", a.index = k, d.index = k, f.index = k,
           d.id = a.id, f.id = a.id
    PROVE  Shut(Append(Append(Append(s, a), d), f), k + 1)
<1>1. Open(Append(s, a), k, a.id)  BY AddItem
<1>2. Open(Append(Append(s, a), d), k, a.id)  BY <1>1, AddDelta
<1>3. QED  BY <1>2, AddDone

----------------------------------------------------------------------------
\* The response as it stands.
ResponseTyped ==
    /\ mode \in {"stream", "buffered"} /\ standing \in Responses!Phases /\ nth \in Nat /\ retry \in Nat
    /\ cursor \in [started : BOOLEAN, index : Nat] /\ guarded \in BOOLEAN
    /\ received \in [text : Nat, tools : Nat, reasoning : BOOLEAN, stop : {"none", "end", "explains"}]
    /\ counted \in [ok : Nat, failed : Nat, blamed : SUBSET Nat]

Buffered == mode = "buffered" => sent = << >> /\ ~guarded

\* What an item is of: the message of this account's attempt, or a tool call of this call to it.
Shown(s, a, r) == \A n \in 1 .. Len(s) :
    s[n].ev \in {"added", "delta", "done"} => s[n].id \in {<<"msg", a, 0>>, <<"fc", a, r>>}

Serving == mode = "stream" /\ standing \in {"pick", "call", "judge"}
Cursor == Serving =>
    /\ IF cursor.started THEN Open(sent, cursor.index, <<"msg", nth, 0>>) ELSE Shut(sent, cursor.index)
    /\ ~guarded => sent = << >> /\ cursor = Responses!Start
    /\ standing = "pick" => ~guarded
    /\ standing = "call" /\ guarded => received # Responses!NoAcc

Closing == mode = "stream" /\ standing \in {"save", "tell"} => \E k \in Nat : Shut(sent, k)

Tallied ==
    /\ standing \in {"pick", "call", "judge"} => counted.ok = 0 /\ counted.failed = 0
    /\ standing \in {"save", "tell"} => counted.ok = 1 /\ counted.failed = 0
    /\ standing = "done" => /\ counted.ok + counted.failed <= 1
                            /\ sent # << >> => (counted.ok = 1 <=> sent[Len(sent)].ev = "completed")

Served == ResponseTyped /\ Buffered /\ Tidy(sent) /\ Shown(sent, nth, retry) /\ Cursor /\ Closing /\ Tallied

LEMMA ShowOne ==
    ASSUME NEW s \in Seq(ItemEvents), NEW a, NEW r, Shown(s, a, r), NEW e \in ItemEvents,
           e.id = <<"msg", a, 0>> \/ e.id = <<"fc", a, r>> \/ e.ev \in {"completed", "failed"}
    PROVE  Shown(Append(s, e), a, r) /\ Append(s, e) \in Seq(ItemEvents)
<1> DEFINE t == Append(s, e)
<1>0. Len(s) \in Nat /\ Len(t) = Len(s) + 1 /\ t[Len(s) + 1] = e /\ \A n \in 1 .. Len(s) : t[n] = s[n]
    BY Adding
<1> HIDE DEF t
<1>1. \A n \in 1 .. Len(t) : n = Len(s) + 1 \/ n \in 1 .. Len(s)  BY <1>0
<1>2. Shown(t, a, r)  BY <1>0, <1>1 DEF Shown
<1>3. QED  BY <1>2 DEF t

LEMMA EventTyped ==
    ASSUME ResponseTyped, NEW what \in {"msg", "fc"}, NEW ev \in Kinds
    PROVE  /\ Responses!Event(ev, what) \in ItemEvents /\ Responses!Event(ev, what).ev = ev
           /\ Responses!Event(ev, what).index = cursor.index
           /\ Responses!Event(ev, what).id = <<what, nth, retry>>
           /\ Responses!Message(ev) \in ItemEvents /\ Responses!Message(ev).ev = ev
           /\ Responses!Message(ev).index = cursor.index
           /\ Responses!Message(ev).id = <<"msg", nth, 0>>
           /\ Responses!Final(ev) \in ItemEvents /\ Responses!Final(ev).ev = ev
           /\ Responses!Shift(Responses!Event(ev, what)) \in ItemEvents
           /\ Responses!Shift(Responses!Event(ev, what)).ev = ev
           /\ Responses!Shift(Responses!Event(ev, what)).index = cursor.index + 1
           /\ Responses!Shift(Responses!Event(ev, what)).id = <<what, nth, retry>>
<1>1. cursor.index \in Nat /\ nth \in Nat /\ retry \in Nat  BY DEF ResponseTyped
<1>2. /\ <<what, nth, retry>> \in Names \X Nat \X Nat /\ <<"msg", nth, 0>> \in Names \X Nat \X Nat
      /\ <<"msg", nth, retry>> \in Names \X Nat \X Nat /\ <<"response", nth, retry>> \in Names \X Nat \X Nat
    BY <1>1 DEF Names
<1> DEFINE i == <<what, nth, retry>> j == <<"msg", nth, 0>> l == <<"msg", nth, retry>>
           f == <<"response", nth, retry>>
<1>3. /\ Responses!Event(ev, what) = [ev |-> ev, index |-> cursor.index, id |-> i]
      /\ Responses!Message(ev) = [ev |-> ev, index |-> cursor.index, id |-> j]
      /\ Responses!Final(ev) = [ev |-> ev, index |-> 0, id |-> f]
      /\ Responses!Shift(Responses!Event(ev, what)) = [ev |-> ev, index |-> cursor.index + 1, id |-> i]
  <2>1. Responses!Event(ev, what) = [ev |-> ev, index |-> cursor.index, id |-> i]  BY DEF Responses!Event
  <2>2. Responses!Event(ev, "msg") = [ev |-> ev, index |-> cursor.index, id |-> l]  BY DEF Responses!Event
  <2>3. Responses!Final(ev) = [ev |-> ev, index |-> 0, id |-> f]  BY DEF Responses!Final
  <2>6. cursor.index + 1 \in Nat  BY <1>1
  <2> HIDE DEF i, j, l, f
  <2>4. Responses!Message(ev) = [ev |-> ev, index |-> cursor.index, id |-> j]
      BY <2>2 DEF Responses!Message, j
  <2>5. Responses!Shift(Responses!Event(ev, what)) = [ev |-> ev, index |-> cursor.index + 1, id |-> i]
      BY <2>1 DEF Responses!Shift
  <2>7. QED  BY <2>1, <2>3, <2>4, <2>5
<1>4. cursor.index + 1 \in Nat  BY <1>1
<1> HIDE DEF i, j, f
<1>5. i \in Names \X Nat \X Nat /\ j \in Names \X Nat \X Nat /\ f \in Names \X Nat \X Nat
    BY <1>2 DEF i, j, f
<1>6. QED  BY <1>1, <1>3, <1>4, <1>5 DEF ItemEvents, i, j

LEMMA InitServed == ASSUME Responses!Init PROVE Served
<1>1. sent = << >> /\ Shut(sent, 0) /\ Tidy(sent)  BY NothingShown DEF Responses!Init, Shut
<1>2. Shown(sent, nth, retry)  BY <1>1 DEF Shown
<1>3. QED
    BY <1>1, <1>2 DEF Responses!Init, Served, ResponseTyped, Buffered, Cursor, Serving, Closing, Tallied,
                             Responses!Phases, Responses!NoAcc, Responses!NoCount, Responses!Start

\* Nothing is shown by a step that sends nothing.
LEMMA TextServed == ASSUME Served, Responses!OnText PROVE Served'
<1> DEFINE a == Responses!Message("added") d == Responses!Message("delta")
<1>0. /\ ResponseTyped /\ standing = "call" /\ received.stop = "none" /\ received' = [received EXCEPT !.text = @ + 1]
      /\ cursor' = [cursor EXCEPT !.started = TRUE] /\ guarded' = (guarded \/ mode = "stream")
      /\ UNCHANGED <<mode, standing, nth, retry, counted, stored>>
    BY DEF Served, Responses!OnText, Responses!More, Responses!Commit
<1>1. ResponseTyped' /\ cursor'.started /\ cursor'.index = cursor.index /\ received' # Responses!NoAcc
  <2>1. received'.text = received.text + 1 /\ received.text \in Nat  BY <1>0 DEF ResponseTyped
  <2>2. received' # Responses!NoAcc  BY <2>1 DEF Responses!NoAcc
  <2>3. cursor'.started = TRUE /\ cursor'.index = cursor.index /\ cursor' \in [started : BOOLEAN, index : Nat]
      BY <1>0 DEF ResponseTyped
  <2>4. received' \in [text : Nat, tools : Nat, reasoning : BOOLEAN, stop : {"none", "end", "explains"}]
      BY <1>0 DEF ResponseTyped
  <2>5. QED  BY <1>0, <2>2, <2>3, <2>4 DEF ResponseTyped
<1>2. Tallied'  BY <1>0 DEF Served, Tallied
<1>3. CASE mode = "buffered"
  <2>1. sent = << >> /\ sent' = sent /\ ~guarded /\ ~guarded'
      BY <1>0, <1>3 DEF Served, Buffered, Responses!OnText, Responses!Send
  <2>2. QED  BY <1>0, <1>1, <1>2, <1>3, <2>1 DEF Served, Buffered, Cursor, Serving, Closing, Shown
<1>4. CASE mode = "stream"
  <2>0. /\ a \in ItemEvents /\ a.ev = "added" /\ a.index = cursor.index
        /\ d \in ItemEvents /\ d.ev = "delta" /\ d.index = cursor.index
        /\ a.id = <<"msg", nth, 0>> /\ d.id = <<"msg", nth, 0>>
      BY <1>0, EventTyped DEF Kinds
  <2>k. cursor.index \in Nat /\ sent \in Seq(ItemEvents) /\ Shown(sent, nth, retry)
      BY <1>0 DEF ResponseTyped, Served, Tidy
  <2> HIDE DEF a, d
  <2>1. /\ Open(sent', cursor.index, <<"msg", nth, 0>>) /\ Shown(sent', nth, retry)
    <3>1. CASE cursor.started
      <4>1. sent' = sent \o (<< >> \o <<d>>)  BY <1>4, <3>1 DEF Responses!OnText, Responses!Send, d
      <4>2. sent' = Append(sent, d)  BY <2>0, <2>k, <4>1
      <4>3. Open(sent, cursor.index, <<"msg", nth, 0>>)  BY <1>0, <1>4, <3>1 DEF Served, Cursor, Serving
      <4>4. QED  BY <2>0, <2>k, <4>2, <4>3, AddDelta, ShowOne
    <3>2. CASE ~cursor.started
      <4>1. sent' = sent \o (<<a>> \o <<d>>)  BY <1>4, <3>2 DEF Responses!OnText, Responses!Send, a, d
      <4>2. sent' = Append(Append(sent, a), d)  BY <2>0, <2>k, <4>1
      <4>3. Shut(sent, cursor.index)  BY <1>0, <1>4, <3>2 DEF Served, Cursor, Serving
      <4>4. Open(Append(sent, a), cursor.index, <<"msg", nth, 0>>) /\ Shown(Append(sent, a), nth, retry)
          BY <2>0, <2>k, <4>3, AddItem, ShowOne
      <4>5. Append(sent, a) \in Seq(ItemEvents)  BY <2>0, <2>k
      <4>6. QED  BY <2>0, <2>k, <4>2, <4>4, <4>5, AddDelta, ShowOne
    <3>3. QED  BY <3>1, <3>2
  <2>2. Tidy(sent')  BY <2>1 DEF Open
  <2>3. QED  BY <1>0, <1>1, <1>2, <1>4, <2>1, <2>2 DEF Served, Buffered, Cursor, Serving, Closing
<1>5. QED  BY <1>0, <1>3, <1>4 DEF ResponseTyped

LEMMA ToolServed == ASSUME Served, Responses!OnToolUse PROVE Served'
<1> DEFINE m == Responses!Message("done")
           a == Responses!Event("added", "fc")
           d == Responses!Event("delta", "fc")
           f == Responses!Event("done", "fc")
           call == <<a, d, f>> after == [n \in 1 .. 3 |-> Responses!Shift(call[n])]
           k == cursor.index
<1>0. /\ ResponseTyped /\ standing = "call" /\ received.stop = "none" /\ received' = [received EXCEPT !.tools = @ + 1]
      /\ cursor' = [started |-> FALSE, index |-> k + (IF cursor.started THEN 2 ELSE 1)]
      /\ guarded' = (guarded \/ mode = "stream")
      /\ UNCHANGED <<mode, standing, nth, retry, counted, stored>>
    BY DEF Served, Responses!OnToolUse, Responses!More, Responses!Commit
<1>1. ResponseTyped' /\ ~cursor'.started /\ received' # Responses!NoAcc
  <2>1. received'.tools = received.tools + 1 /\ received.tools \in Nat  BY <1>0 DEF ResponseTyped
  <2>2. received' # Responses!NoAcc  BY <2>1 DEF Responses!NoAcc
  <2>3. cursor' \in [started : BOOLEAN, index : Nat] /\ ~cursor'.started
    <3>1. k + (IF cursor.started THEN 2 ELSE 1) \in Nat  BY <1>0 DEF ResponseTyped
    <3>2. QED  BY <1>0, <3>1
  <2>4. QED  BY <1>0, <2>2, <2>3 DEF ResponseTyped
<1>2. Tallied'  BY <1>0 DEF Served, Tallied
<1>3. CASE mode = "buffered"
  <2>1. sent = << >> /\ sent' = sent /\ ~guarded /\ ~guarded'
      BY <1>0, <1>3 DEF Served, Buffered, Responses!OnToolUse, Responses!Send
  <2>2. QED  BY <1>0, <1>1, <1>2, <1>3, <2>1 DEF Served, Buffered, Cursor, Serving, Closing, Shown
<1>4. CASE mode = "stream"
  <2>0. /\ a \in ItemEvents /\ d \in ItemEvents /\ f \in ItemEvents /\ m \in ItemEvents
        /\ a.ev = "added" /\ d.ev = "delta" /\ f.ev = "done" /\ m.ev = "done"
        /\ a.index = k /\ d.index = k /\ f.index = k /\ m.index = k
        /\ a.id = <<"fc", nth, retry>> /\ d.id = a.id /\ f.id = a.id /\ m.id = <<"msg", nth, 0>>
      BY <1>0, EventTyped DEF Kinds
  <2>s. /\ Responses!Shift(a) \in ItemEvents /\ Responses!Shift(d) \in ItemEvents /\ Responses!Shift(f) \in ItemEvents
        /\ Responses!Shift(a).ev = "added" /\ Responses!Shift(d).ev = "delta"
        /\ Responses!Shift(f).ev = "done"
        /\ Responses!Shift(a).index = k + 1 /\ Responses!Shift(d).index = k + 1
        /\ Responses!Shift(f).index = k + 1
        /\ Responses!Shift(a).id = a.id /\ Responses!Shift(d).id = a.id /\ Responses!Shift(f).id = a.id
      BY <1>0, <2>0, EventTyped DEF Kinds
  <2>k. k \in Nat /\ sent \in Seq(ItemEvents) /\ Shown(sent, nth, retry)
      BY <1>0 DEF ResponseTyped, Served, Tidy
  <2> HIDE DEF m, a, d, f
  <2>1. /\ Shut(sent', cursor'.index) /\ Shown(sent', nth, retry)
    <3>1. CASE ~cursor.started
      <4>1. sent' = sent \o (<< >> \o <<a, d, f>>)
          BY <1>4, <3>1 DEF Responses!OnToolUse, Responses!Send, a, d, f
      <4>2. sent' = Append(Append(Append(sent, a), d), f)  BY <2>0, <2>k, <4>1
      <4>3. Shut(sent, k)  BY <1>0, <1>4, <3>1 DEF Served, Cursor, Serving
      <4>4. Shut(sent', k + 1)  BY <2>0, <2>k, <4>2, <4>3, AddCall
      <4>5. cursor'.index = k + 1  BY <1>0, <3>1
      <4>6. Shown(Append(sent, a), nth, retry) /\ Append(sent, a) \in Seq(ItemEvents)
          BY <2>0, <2>k, ShowOne
      <4>7. Shown(Append(Append(sent, a), d), nth, retry) /\ Append(Append(sent, a), d) \in Seq(ItemEvents)
          BY <2>0, <4>6, ShowOne
      <4>8. Shown(sent', nth, retry)  BY <2>0, <4>2, <4>7, ShowOne
      <4>9. QED  BY <4>4, <4>5, <4>8
    <3>2. CASE cursor.started
      <4> DEFINE x == Responses!Shift(a) y == Responses!Shift(d) z == Responses!Shift(f)
      <4>1. sent' = sent \o (<<m>> \o [n \in 1 .. 3 |-> Responses!Shift(<<a, d, f>>[n])])
          BY <1>4, <3>2 DEF Responses!OnToolUse, Responses!Send, m, a, d, f
      <4>2. [n \in 1 .. 3 |-> Responses!Shift(<<a, d, f>>[n])] = <<x, y, z>>  OBVIOUS
      <4>i. /\ x \in ItemEvents /\ y \in ItemEvents /\ z \in ItemEvents
            /\ x.ev = "added" /\ y.ev = "delta" /\ z.ev = "done"
            /\ x.index = k + 1 /\ y.index = k + 1 /\ z.index = k + 1
            /\ x.id = a.id /\ y.id = x.id /\ z.id = x.id
          BY <2>s
      <4> HIDE DEF x, y, z
      <4>3. sent' = sent \o (<<m>> \o <<x, y, z>>)  BY <4>1, <4>2
      <4>4. sent' = Append(Append(Append(Append(sent, m), x), y), z)  BY <2>0, <2>k, <4>i, <4>3
      <4>5. Open(sent, k, <<"msg", nth, 0>>)  BY <1>0, <1>4, <3>2 DEF Served, Cursor, Serving
      <4>6. Shut(Append(sent, m), k + 1)  BY <2>0, <2>k, <4>5, AddDone
      <4>7. k + 1 \in Nat /\ (k + 1) + 1 = k + 2 /\ k + 2 \in Nat  BY <2>k
      <4>8. Shut(sent', (k + 1) + 1)  BY <4>i, <4>4, <4>6, <4>7, AddCall
      <4>9. cursor'.index = k + 2  BY <1>0, <3>2
      <4>10. Shown(Append(sent, m), nth, retry) /\ Append(sent, m) \in Seq(ItemEvents)
          BY <2>0, <2>k, ShowOne
      <4>11. Shown(Append(Append(sent, m), x), nth, retry) /\ Append(Append(sent, m), x) \in Seq(ItemEvents)
          BY <2>0, <4>i, <4>10, ShowOne
      <4>12. /\ Shown(Append(Append(Append(sent, m), x), y), nth, retry)
             /\ Append(Append(Append(sent, m), x), y) \in Seq(ItemEvents)
          BY <2>0, <4>i, <4>11, ShowOne
      <4>13. Shown(sent', nth, retry)  BY <2>0, <4>i, <4>4, <4>12, ShowOne
      <4>14. QED  BY <4>7, <4>8, <4>9, <4>13
    <3>3. QED  BY <3>1, <3>2
  <2>2. Tidy(sent')  BY <2>1 DEF Shut
  <2>3. QED  BY <1>0, <1>1, <1>2, <1>4, <2>1, <2>2 DEF Served, Buffered, Cursor, Serving, Closing
<1>5. QED  BY <1>0, <1>3, <1>4 DEF ResponseTyped

\* The last word: nothing comes behind it.
LEMMA FinalSent ==
    ASSUME ResponseTyped, Tidy(sent), Unfinished(sent), Shown(sent, nth, retry),
           NEW ev \in {"completed", "failed"},
           ev = "completed" => \E k \in Nat : Shut(sent, k), mode = "stream", Responses!Send(<<Responses!Final(ev)>>)
    PROVE  /\ Tidy(sent') /\ Shown(sent', nth, retry)
           /\ sent' # << >> /\ sent'[Len(sent')].ev = ev
<1> DEFINE e == Responses!Final(ev)
<1>1. e \in ItemEvents /\ e.ev = ev /\ sent \in Seq(ItemEvents)  BY EventTyped DEF Kinds, Tidy
<1>2. sent' = sent \o <<e>>  BY DEF Responses!Send
<1> HIDE DEF e
<1>3. sent' = Append(sent, e) /\ Len(sent) \in Nat  BY <1>1, <1>2
<1>4. Tidy(sent')  BY <1>1, <1>3, AddFinal
<1>5. Shown(sent', nth, retry)  BY <1>1, <1>3, ShowOne
<1>6. sent' # << >> /\ sent'[Len(sent')].ev = ev  BY <1>1, <1>3
<1>7. QED  BY <1>4, <1>5, <1>6

LEMMA StandsOpen == ASSUME Served, Serving PROVE Unfinished(sent) /\ Tidy(sent)
BY DEF Served, Cursor, Open, Shut

LEMMA RotateServed ==
    ASSUME Served, standing \in {"call", "judge"}, NEW blame \in BOOLEAN, Responses!Rotate(blame),
           UNCHANGED <<mode, nth, retry, received, cursor, guarded>>
    PROVE  Served'
<1>0. ResponseTyped /\ Tallied /\ counted.ok = 0 /\ counted.failed = 0  BY DEF Served, Tallied
<1>1. CASE ~guarded
  <2>1. /\ standing' = "pick" /\ sent' = sent
        /\ counted' = IF blame THEN [counted EXCEPT !.blamed = @ \cup {nth}] ELSE counted
      BY <1>1 DEF Responses!Rotate
  <2>2. counted' \in [ok : Nat, failed : Nat, blamed : SUBSET Nat] /\ counted'.ok = 0 /\ counted'.failed = 0
      BY <1>0, <2>1 DEF ResponseTyped
  <2>3. ResponseTyped'  BY <1>0, <2>1, <2>2 DEF ResponseTyped, Responses!Phases
  <2>4. QED  BY <1>1, <2>1, <2>2, <2>3 DEF Served, Buffered, Cursor, Serving, Closing, Tallied
<1>2. CASE guarded
  <2>1. /\ standing' = "done" /\ Responses!Send(<<Responses!Final("failed")>>)
        /\ counted' = [counted EXCEPT !.failed = @ + 1]
      BY <1>2 DEF Responses!Rotate
  <2>2. mode = "stream"  BY <1>0, <1>2 DEF Served, Buffered, ResponseTyped
  <2>3. Unfinished(sent) /\ Tidy(sent)  BY <2>2, StandsOpen DEF Serving
  <2>4. /\ Tidy(sent') /\ Shown(sent', nth, retry)
        /\ sent' # << >> /\ sent'[Len(sent')].ev = "failed"
      BY <1>0, <2>1, <2>2, <2>3, FinalSent DEF Served
  <2>5. counted' \in [ok : Nat, failed : Nat, blamed : SUBSET Nat] /\ counted'.ok = 0 /\ counted'.failed = 1
      BY <1>0, <2>1 DEF ResponseTyped
  <2>6. ResponseTyped'  BY <1>0, <2>1, <2>5 DEF ResponseTyped, Responses!Phases
  <2>7. QED  BY <2>1, <2>2, <2>4, <2>5, <2>6 DEF Served, Buffered, Cursor, Serving, Closing, Tallied
<1>3. QED  BY <1>0, <1>1, <1>2 DEF ResponseTyped

LEMMA PickServed == ASSUME Served, Responses!Pick PROVE Served'
<1>0. /\ standing = "pick" /\ standing' = "call" /\ nth' = nth + 1 /\ retry' = 0
      /\ received' = Responses!NoAcc /\ cursor' = Responses!Start
      /\ UNCHANGED <<mode, guarded, sent, counted, stored>> /\ ResponseTyped
    BY DEF Responses!Pick, Served
<1>1. ResponseTyped'
    BY <1>0 DEF ResponseTyped, Responses!NoAcc, Responses!Start, Responses!Phases
<1>2. sent = << >> /\ ~guarded
    BY <1>0 DEF Served, Buffered, Cursor, Serving, ResponseTyped
<1>3. Shut(sent', 0) /\ Tidy(sent')  BY <1>0, <1>2, NothingShown DEF Shut
<1>4. Shown(sent', nth', retry')  BY <1>0, <1>2 DEF Shown
<1>5. Cursor' /\ Closing'  BY <1>0, <1>2, <1>3 DEF Cursor, Serving, Closing, Responses!Start
<1>6. QED  BY <1>0, <1>1, <1>2, <1>3, <1>4, <1>5 DEF Served, Buffered, Tallied

LEMMA ExhaustedServed == ASSUME Served, Responses!Exhausted PROVE Served'
<1>0. /\ standing = "pick" /\ standing' = "done" /\ Responses!Send(<<Responses!Final("failed")>>)
      /\ counted' = IF nth = 0 THEN counted ELSE [counted EXCEPT !.failed = @ + 1]
      /\ UNCHANGED <<mode, nth, retry, received, cursor, guarded, stored>> /\ ResponseTyped
      /\ counted.ok = 0 /\ counted.failed = 0
    BY DEF Responses!Exhausted, Served, Tallied
<1>1. counted' \in [ok : Nat, failed : Nat, blamed : SUBSET Nat] /\ counted'.ok = 0 /\ counted'.failed \in {0, 1}
    BY <1>0 DEF ResponseTyped
<1>2. ResponseTyped'  BY <1>0, <1>1 DEF ResponseTyped, Responses!Phases
<1>3. CASE mode = "buffered"
  <2>1. sent = << >> /\ sent' = sent  BY <1>0, <1>3 DEF Served, Buffered, Responses!Send
  <2>2. QED  BY <1>0, <1>1, <1>2, <1>3, <2>1 DEF Served, Buffered, Cursor, Serving, Closing, Tallied, Shown
<1>4. CASE mode = "stream"
  <2>1. Unfinished(sent) /\ Tidy(sent)  BY <1>0, <1>4, StandsOpen DEF Serving
  <2>2. /\ Tidy(sent') /\ Shown(sent', nth, retry)
        /\ sent' # << >> /\ sent'[Len(sent')].ev = "failed"
      BY <1>0, <1>4, <2>1, FinalSent DEF Served
  <2>3. QED  BY <1>0, <1>1, <1>2, <1>4, <2>2 DEF Served, Buffered, Cursor, Serving, Closing, Tallied
<1>5. QED  BY <1>0, <1>3, <1>4 DEF ResponseTyped

\* The steps that show nothing.
LEMMA QuietServed ==
    ASSUME Served,
           \/ Responses!OnReasoning \/ Responses!OnStopReason \/ Responses!CallEnds \/ Responses!Leave
           \/ Responses!RetryTruncated \/ Responses!Save
    PROVE  Served'
<1>0. ResponseTyped /\ UNCHANGED <<mode, nth, cursor, guarded, sent, counted>>
    BY DEF Served, Responses!OnReasoning, Responses!OnStopReason, Responses!CallEnds, Responses!Leave,
       Responses!RetryTruncated, Responses!Save
<1>1. CASE Responses!OnReasoning \/ Responses!OnStopReason
  <2>1. /\ standing = "call" /\ standing' = standing /\ retry' = retry
        /\ received' \in [text : Nat, tools : Nat, reasoning : BOOLEAN, stop : {"none", "end", "explains"}]
        /\ received'.reasoning = TRUE \/ received'.stop # "none"
      BY <1>0, <1>1 DEF Responses!OnReasoning, Responses!OnStopReason, ResponseTyped
  <2>2. received' # Responses!NoAcc  BY <2>1 DEF Responses!NoAcc
  <2>3. ResponseTyped'  BY <1>0, <2>1 DEF ResponseTyped
  <2>4. QED  BY <1>0, <2>1, <2>2, <2>3 DEF Served, Buffered, Cursor, Serving, Closing, Tallied
<1>2. CASE Responses!CallEnds
  <2>1. standing = "call" /\ standing' = "judge" /\ UNCHANGED <<retry, received>>
      BY <1>2 DEF Responses!CallEnds
  <2>2. ResponseTyped'  BY <1>0, <2>1 DEF ResponseTyped, Responses!Phases
  <2>3. QED  BY <1>0, <2>1, <2>2 DEF Served, Buffered, Cursor, Serving, Closing, Tallied
<1>3. CASE Responses!Leave
  <2>1. standing = "call" /\ standing' = "done" /\ UNCHANGED <<retry, received>>
      BY <1>3 DEF Responses!Leave
  <2>2. ResponseTyped'  BY <1>0, <2>1 DEF ResponseTyped, Responses!Phases
  <2>3. sent # << >> => sent[Len(sent)].ev # "completed"
    <3>1. CASE mode = "stream"
      <4>1. Unfinished(sent) /\ sent \in Seq(ItemEvents)  BY <2>1, <3>1, StandsOpen DEF Serving, Tidy
      <4>2. sent # << >> => Len(sent) \in 1 .. Len(sent)  BY <4>1
      <4>3. QED  BY <4>1, <4>2 DEF Unfinished
    <3>2. CASE mode = "buffered"  BY <3>2 DEF Served, Buffered
    <3>3. QED  BY <1>0, <3>1, <3>2 DEF ResponseTyped
  <2>4. QED  BY <1>0, <2>1, <2>2, <2>3 DEF Served, Buffered, Cursor, Serving, Closing, Tallied
<1>4. CASE Responses!RetryTruncated
  <2>1. standing = "judge" /\ standing' = "call" /\ retry' = retry + 1 /\ received' = Responses!NoAcc /\ ~guarded
      BY <1>4 DEF Responses!RetryTruncated, Responses!CanRetry
  <2>2. ResponseTyped'  BY <1>0, <2>1 DEF ResponseTyped, Responses!Phases, Responses!NoAcc
  <2>3. sent = << >>  BY <1>0, <2>1 DEF Served, Buffered, Cursor, Serving, ResponseTyped
  <2>4. Shown(sent', nth', retry')  BY <1>0, <2>3 DEF Shown
  <2>5. QED  BY <1>0, <2>1, <2>2, <2>4 DEF Served, Buffered, Cursor, Serving, Closing, Tallied
<1>5. CASE Responses!Save
  <2>1. standing = "save" /\ standing' = "tell" /\ UNCHANGED <<retry, received>>  BY <1>5 DEF Responses!Save
  <2>2. ResponseTyped'  BY <1>0, <2>1 DEF ResponseTyped, Responses!Phases
  <2>3. QED  BY <1>0, <2>1, <2>2 DEF Served, Buffered, Cursor, Serving, Closing, Tallied
<1>6. QED  BY <1>1, <1>2, <1>3, <1>4, <1>5

LEMMA FinishServed == ASSUME Served, Responses!Finish PROVE Served'
<1> DEFINE m == Responses!Message("done")
<1>0. /\ standing = "judge" /\ standing' = "save" /\ counted' = [counted EXCEPT !.ok = @ + 1]
      /\ UNCHANGED <<mode, nth, retry, received, cursor, guarded>> /\ ResponseTyped
      /\ counted.ok = 0 /\ counted.failed = 0
    BY DEF Responses!Finish, Served, Tallied
<1>1. counted' \in [ok : Nat, failed : Nat, blamed : SUBSET Nat] /\ counted'.ok = 1 /\ counted'.failed = 0
    BY <1>0 DEF ResponseTyped
<1>2. ResponseTyped'  BY <1>0, <1>1 DEF ResponseTyped, Responses!Phases
<1>3. CASE mode = "buffered"
  <2>1. sent = << >> /\ sent' = sent  BY <1>3 DEF Served, Buffered, Responses!Finish, Responses!Send
  <2>2. QED  BY <1>0, <1>1, <1>2, <1>3, <2>1 DEF Served, Buffered, Cursor, Serving, Closing, Tallied, Shown
<1>4. CASE mode = "stream"
  <2>k. cursor.index \in Nat /\ cursor.index + 1 \in Nat /\ sent \in Seq(ItemEvents) /\ Shown(sent, nth, retry)
      BY <1>0 DEF ResponseTyped, Served, Tidy
  <2>1. (\E k \in Nat : Shut(sent', k)) /\ Shown(sent', nth, retry)
    <3>1. CASE ~cursor.started
      <4>1. sent' = sent  BY <1>4, <2>k, <3>1 DEF Responses!Finish, Responses!Send
      <4>2. QED  BY <1>0, <1>4, <2>k, <3>1, <4>1 DEF Served, Cursor, Serving
    <3>2. CASE cursor.started
      <4>1. sent' = sent \o <<m>>  BY <1>4, <3>2 DEF Responses!Finish, Responses!Send
      <4>2. m \in ItemEvents /\ m.ev = "done" /\ m.index = cursor.index /\ m.id = <<"msg", nth, 0>>
          BY <1>0, EventTyped DEF Kinds
      <4> HIDE DEF m
      <4>3. sent' = Append(sent, m)  BY <2>k, <4>1, <4>2
      <4>4. Open(sent, cursor.index, <<"msg", nth, 0>>)  BY <1>0, <1>4, <3>2 DEF Served, Cursor, Serving
      <4>5. Shut(sent', cursor.index + 1)  BY <2>k, <4>2, <4>3, <4>4, AddDone
      <4>6. Shown(sent', nth, retry)  BY <2>k, <4>2, <4>3, ShowOne
      <4>7. QED  BY <2>k, <4>5, <4>6
    <3>3. QED  BY <3>1, <3>2
  <2>2. Tidy(sent')  BY <2>1 DEF Shut
  <2>3. Closing' /\ Cursor' /\ Tallied'  BY <1>0, <1>1, <2>1 DEF Closing, Cursor, Serving, Tallied
  <2>4. QED  BY <1>0, <1>2, <1>4, <2>1, <2>2, <2>3 DEF Served, Buffered
<1>5. QED  BY <1>0, <1>3, <1>4 DEF ResponseTyped

LEMMA TellServed == ASSUME Served, Responses!Tell PROVE Served'
<1>0. /\ standing = "tell" /\ standing' = "done" /\ Responses!Send(<<Responses!Final("completed")>>)
      /\ UNCHANGED <<mode, nth, retry, received, cursor, guarded, counted>> /\ ResponseTyped
      /\ counted.ok = 1 /\ counted.failed = 0
    BY DEF Responses!Tell, Served, Tallied
<1>2. ResponseTyped'  BY <1>0 DEF ResponseTyped, Responses!Phases
<1>3. CASE mode = "buffered"
  <2>1. sent = << >> /\ sent' = sent  BY <1>0, <1>3 DEF Served, Buffered, Responses!Send
  <2>2. QED  BY <1>0, <1>2, <1>3, <2>1 DEF Served, Buffered, Cursor, Serving, Closing, Tallied, Shown
<1>4. CASE mode = "stream"
  <2>1. PICK k \in Nat : Shut(sent, k)  BY <1>0, <1>4 DEF Served, Closing
  <2>2. Unfinished(sent) /\ Tidy(sent)  BY <2>1 DEF Shut
  <2>3. /\ Tidy(sent') /\ Shown(sent', nth, retry)
        /\ sent' # << >> /\ sent'[Len(sent')].ev = "completed"
      BY <1>0, <1>4, <2>1, <2>2, FinalSent DEF Served
  <2>4. QED  BY <1>0, <1>2, <1>4, <2>3 DEF Served, Buffered, Cursor, Serving, Closing, Tallied
<1>5. QED  BY <1>0, <1>3, <1>4 DEF ResponseTyped

LEMMA ResponseServed == Responses!Spec => []Served
<1>1. Responses!Init => Served  BY InitServed
<1>2. Served /\ [Responses!Next]_(Responses!vars) => Served'
  <2> SUFFICES ASSUME Served, [Responses!Next]_(Responses!vars) PROVE Served'  OBVIOUS
  <2>1. CASE Responses!CallFails  BY <2>1, RotateServed DEF Responses!CallFails
  <2>2. CASE Responses!GiveUpTruncated  BY <2>2, RotateServed DEF Responses!GiveUpTruncated
  <2>3. CASE UNCHANGED Responses!vars
      BY <2>3 DEF Responses!vars, Served, ResponseTyped, Buffered, Cursor, Serving, Closing, Tallied
  <2>4. CASE Responses!Next
      BY <2>1, <2>2, <2>4, PickServed, ExhaustedServed, TextServed, ToolServed, QuietServed, FinishServed,
         TellServed DEF Responses!Next
  <2>5. QED  BY <2>3, <2>4
<1>3. QED  BY <1>1, <1>2, PTL DEF Responses!Spec

\* Across the calls made again (runKiroWithIntegrityRetry) and the accounts (chat_executor.go) the client
\* of /v1/responses is shown one well-formed response: items numbered from 0 without a gap, one open at a
\* time and each closed before the response is completed, nothing of two accounts or of two calls, and
\* the request is counted once, as what the client was told.
THEOREM ResponseIsWhole == Responses!Spec => []Responses!StreamIsWhole
<1>1. Served => Responses!StreamIsWhole
  <2> SUFFICES ASSUME Served PROVE Responses!StreamIsWhole  OBVIOUS
  <2>0. Tidy(sent) /\ sent \in Seq(ItemEvents) /\ Len(sent) \in Nat /\ ResponseTyped  BY DEF Served, Tidy
  <2>1. Responses!ItemsBracketed
    <3>1. \A n \in 1 .. Len(sent) : InPlace(sent, n)  BY <2>0 DEF Tidy
    <3>2. \A n \in 1 .. Len(sent) : /\ Count(sent, n, "added") = Responses!Opened(n)
                                    /\ Count(sent, n, "done") = Responses!Closed(n)
                                    /\ LastAdded(sent, n) = Responses!Latest(n)
        BY SameSizes DEF Count, Earlier, Responses!Opened, Responses!Closed, Responses!Before, LastAdded,
           Responses!Latest
    <3>3. QED  BY <3>1, <3>2 DEF InPlace, Responses!ItemsBracketed
  <2>2. Responses!ShownOnce
    <3>1. ASSUME NEW n \in 1 .. Len(sent), sent[n].ev \in {"added", "delta", "done"}
          PROVE  sent[n].id[2] = nth /\ (sent[n].id[1] = "fc" => sent[n].id[3] = retry)
      <4>1. sent[n].id = <<"msg", nth, 0>> \/ sent[n].id = <<"fc", nth, retry>>
          BY <3>1 DEF Served, Shown
      <4>2. QED  BY <4>1
    <3>2. QED  BY <3>1 DEF Responses!ShownOnce
  <2>3. Responses!RetryIsClean
      BY <2>0 DEF Served, Cursor, Serving, Responses!RetryIsClean, ResponseTyped
  <2>4. Responses!CountedAsTold
    <3>1. counted.ok \in Nat /\ counted.failed \in Nat /\ standing \in Responses!Phases
        BY <2>0 DEF ResponseTyped
    <3>2. counted.ok + counted.failed <= 1  BY <3>1 DEF Served, Tallied, Responses!Phases
    <3>3. QED  BY <3>2 DEF Served, Tallied, Responses!CountedAsTold
  <2>5. QED  BY <2>1, <2>2, <2>3, <2>4 DEF Responses!StreamIsWhole
<1>2. QED  BY <1>1, ResponseServed, PTL

(***************************************************************************)
(* A turn runs one component at a time, so that what holds of each holds   *)
(* of the turn.                                                            *)
(***************************************************************************)
LEMMA TalkRuns ==
    PartsSpec => [](~On("talk")) \/ ([]On("talk") /\ Talk!Init /\ [][Talk!Next]_(Talk!vars))
<1>1. PartsInit /\ On("talk") => Talk!Init  BY DEF PartsInit
<1>2. On("talk") /\ [PartsNext]_<<part, parts>> => On("talk")' /\ [Talk!Next]_(Talk!vars)
    BY DEF PartsNext, parts, talkVars, Talk!vars, On
<1>3. ~On("talk") /\ [PartsNext]_<<part, parts>> => ~On("talk")'
    BY DEF PartsNext, On
<1>4. QED  BY <1>1, <1>2, <1>3, PTL DEF PartsSpec

LEMMA LoopRuns ==
    PartsSpec => [](~On("loop")) \/ ([]On("loop") /\ Loop!Init /\ [][Loop!Next]_(Loop!vars))
<1>1. PartsInit /\ On("loop") => Loop!Init  BY DEF PartsInit
<1>2. On("loop") /\ [PartsNext]_<<part, parts>> => On("loop")' /\ [Loop!Next]_(Loop!vars)
    BY DEF PartsNext, parts, loopVars, Loop!vars, On
<1>3. ~On("loop") /\ [PartsNext]_<<part, parts>> => ~On("loop")'
    BY DEF PartsNext, On
<1>4. QED  BY <1>1, <1>2, <1>3, PTL DEF PartsSpec

LEMMA LookupRuns ==
    PartsSpec => [](~On("lookup")) \/ ([]On("lookup") /\ Lookup!Init /\ [][Lookup!Next]_(Lookup!vars))
<1>1. PartsInit /\ On("lookup") => Lookup!Init  BY DEF PartsInit
<1>2. On("lookup") /\ [PartsNext]_<<part, parts>> => On("lookup")' /\ [Lookup!Next]_(Lookup!vars)
    BY DEF PartsNext, parts, lookupVars, Lookup!vars, On
<1>3. ~On("lookup") /\ [PartsNext]_<<part, parts>> => ~On("lookup")'
    BY DEF PartsNext, On
<1>4. QED  BY <1>1, <1>2, <1>3, PTL DEF PartsSpec

\* What the searches of a turn are accounted for: every tool use of a round gets its own answer or
\* reaches the client, none is paid twice or beyond the budgets of the request and of the month, and
\* errors and credits go to where they belong (kiro_conversation_runner.go, websearch_loop.go,
\* search/tavily_budget.go).
THEOREM SearchesAreAccounted ==
    ASSUME Askable, Billable, Budgeted PROVE PartsSpec => []SearchesAccounted
<1> DEFINE T == On("talk") => Talk!EveryUseAnswered /\ Talk!WithinBudget /\ Talk!CauseIsReported
           L == On("loop") => Loop!NothingSwallowed /\ Loop!UsesAreKept /\ Loop!CreditsAreBilled
           S == On("lookup") => Lookup!SpendBounded
<1>1. PartsSpec => []T
  <2>1. ~On("talk") => T  OBVIOUS
  <2>2. Talk!EveryUseAnswered /\ Talk!WithinBudget /\ Talk!CauseIsReported => T  OBVIOUS
  <2> HIDE DEF T
  <2>3. QED  BY <2>1, <2>2, TalkRuns, UsesAreAnswered, BudgetIsKept, CauseIsTold, PTL
<1>2. PartsSpec => []L
  <2>1. ~On("loop") => L  OBVIOUS
  <2>2. Loop!NothingSwallowed /\ Loop!UsesAreKept /\ Loop!CreditsAreBilled => L  OBVIOUS
  <2> HIDE DEF L
  <2>3. QED
      BY <2>1, <2>2, LoopRuns, EveryUseIsShown, SearchesKeepWithinTheUses, WhatIsSpentIsBilled, PTL
         DEF Loop!Spec
<1>3. PartsSpec => []S
  <2>1. ~On("lookup") => S  OBVIOUS
  <2>2. Lookup!SpendBounded => S  OBVIOUS
  <2> HIDE DEF S
  <2>3. QED  BY <2>1, <2>2, LookupRuns, CreditsAreBounded, PTL DEF Lookup!Spec
<1>4. T /\ L /\ S => SearchesAccounted  BY DEF SearchesAccounted
<1> HIDE DEF T, L, S
<1>5. QED  BY <1>1, <1>2, <1>3, <1>4, PTL
==============================================================================
