------------------------------ MODULE ChatExecutor ------------------------------
(***************************************************************************)
(* One chat request against the Kiro pool: ChatExecutor.Run rotates        *)
(* accounts, runKiroWithIntegrityRetry repeats a truncated stream on the   *)
(* same account, and CallKiroAPIContext tries endpoints and repeats a      *)
(* stream that broke before any output.  The renderers of the protocols    *)
(* turn a stream's events into what the client sees.                       *)
(*                                                                         *)
(* The content of a stream is abstracted to which kinds of it arrived;     *)
(* bytes are identified by the stream they come from.                      *)
(***************************************************************************)
EXTENDS Naturals, FiniteSets

CONSTANTS
  Accounts,            \* accounts the pool may offer for the model
  None,                \* no account
  Protocols,           \* "claude", "openai", "responses" streams, "buffered" answers
  Endpoints,           \* endpoints of an account
  MaxAccountAttempts,  \* maxAccountRetryAttempts
  MaxStreamRetries,    \* maxSameAccountStreamRetries
  MaxStreamAttempts,   \* maxStreamAttemptsPerEndpoint
  EarlyStop            \* a stream may name a stop reason before any output

ASSUME AccountsAssumption == None \notin Accounts /\ IsFiniteSet(Accounts)
ASSUME ProtocolAssumption ==
  Protocols \subseteq {"claude", "openai", "responses", "buffered"}
ASSUME BoundsAssumption ==
  /\ Endpoints \in Nat \ {0}           /\ MaxStreamAttempts \in Nat \ {0}
  /\ MaxAccountAttempts \in Nat \ {0}  /\ MaxStreamRetries \in Nat
  /\ EarlyStop \in BOOLEAN

VARIABLES
  protocol,   \* the renderer of this request
  pc,         \* where the request stands
  tries,      \* accounts selected so far (the loop of Run)
  retries,    \* truncated streams repeated on this account
  endpoint,   \* the endpoint in use
  attempt,    \* streamAttempt on it
  account,    \* the account selected
  excluded,   \* accounts that failed this request
  err,        \* the error being returned, "none" for nil
  lastErr,    \* Run's lastErr
  acc,        \* the handler's accumulators, as classifyStreamIntegrity reads them
  stream,     \* what the stream in progress has delivered
  held,       \* the streams with content in the renderer's buffers
  committed,  \* streamGuard.committed
  shown,      \* the streams the client has content of
  ended,      \* how the response ended, "no" before
  gone,       \* the client disconnected (ctx.Err)
  blamed,     \* accounts with errors recorded (pool.errorCounts)
  banned      \* accounts out of the pool: banned, disabled, over quota

place  == <<tries, retries, endpoint, attempt>>
client == <<held, committed, shown, ended>>
health == <<blamed, banned>>
vars   == <<protocol, pc, place, account, excluded, err, lastErr, acc, stream,
            client, gone, health>>

\* An upstream stream is identified by the place of the loops it is opened at.
Calls == (1 .. MaxAccountAttempts) \X (0 .. MaxStreamRetries) \X (1 .. Endpoints)
           \X (1 .. MaxStreamAttempts)
Call  == <<tries, retries, endpoint, attempt>>

Nothing  == [text |-> FALSE, reasoning |-> FALSE, tool |-> FALSE, stop |-> "none"]
HasOutput(s) == s.text \/ s.reasoning \/ s.tool

\* classifyStreamIntegrity: a tool call, text and a stop reason, or a stop
\* reason that accounts for an empty turn.
Whole(s) == s.tool \/ (s.text /\ s.stop # "none") \/ (~s.text /\ s.stop = "explains")

Goto(step) == pc' = step

(***************************************************************************)
(* Errors and what they do to an account                                   *)
(***************************************************************************)
\* "auth": the account is banned (401, 403, suspension); "soft": an error is
\* recorded (quota, throttling, server and transport errors); "truncated";
\* "canceled".
Errors == {"auth", "soft", "truncated", "canceled"}

\* handleAccountFailure.  The ban may fail to be saved, and is then skipped;
\* a truncated stream counts as any error that has no category.
HandleAccountFailure(a, e) ==
  IF e = "auth"
    THEN banned' \in {banned, banned \cup {a}} /\ UNCHANGED blamed
    ELSE blamed' = blamed \cup {a} /\ UNCHANGED banned

(***************************************************************************)
(* ChatExecutor.Run                                                        *)
(***************************************************************************)
Usable == Accounts \ (excluded \cup banned)

\* GetNextForModelExcluding returns some account of the pool.
SelectAccount ==
  /\ pc = "select" /\ tries < MaxAccountAttempts /\ ~gone
  /\ \E a \in Usable : account' = a
  /\ tries' = tries + 1
  /\ Goto("token")
  /\ UNCHANGED <<protocol, retries, endpoint, attempt, excluded, err, lastErr,
                 acc, stream, client, gone, health>>

\* The client left between two attempts.
LeaveBetween ==
  /\ pc = "select" /\ tries < MaxAccountAttempts /\ gone
  /\ ended' = "abandoned"
  /\ Goto("done")
  /\ UNCHANGED <<protocol, place, account, excluded, err, lastErr, acc, stream,
                 held, committed, shown, gone, health>>

\* No account is left, or no attempt: onExhausted.
Exhausted ==
  /\ pc = "select"
  /\ tries = MaxAccountAttempts \/ (~gone /\ Usable = {})
  /\ ended' = IF lastErr = "none" THEN "unavailable" ELSE "failed"
  /\ Goto("done")
  /\ UNCHANGED <<protocol, place, account, excluded, err, lastErr, acc, stream,
                 held, committed, shown, gone, health>>

\* The request rotates to the next account.
Exclude(e) ==
  /\ lastErr' = e
  /\ excluded' = excluded \cup {account}
  /\ Goto("select")

\* ensureValidToken fails.
TokenFails ==
  /\ pc = "token"
  /\ \E e \in {"auth", "soft"} : Exclude(e) /\ HandleAccountFailure(account, e)
  /\ UNCHANGED <<protocol, place, account, err, acc, stream, client, gone>>

\* The attempt begins, with renderer state of its own.
BeginAttempt ==
  /\ pc = "token"
  /\ retries' = 0 /\ endpoint' = 1 /\ attempt' = 1
  /\ acc' = Nothing /\ held' = {}
  /\ Goto("request")
  /\ UNCHANGED <<protocol, tries, account, excluded, err, lastErr, stream,
                 committed, shown, ended, gone, health>>

\* The attempt failed because the client left: nobody is blamed or told.
LeaveDuring ==
  /\ pc = "failed" /\ gone
  /\ ended' = "abandoned"
  /\ Goto("done")
  /\ UNCHANGED <<protocol, place, account, excluded, err, lastErr, acc, stream,
                 held, committed, shown, gone, health>>

\* Mutant of Rotate: every failure is recorded against the account.
RotateBlaming ==
  /\ pc = "failed" /\ ~gone /\ ~committed
  /\ Exclude(err)
  /\ err' = "none"
  /\ HandleAccountFailure(account, err)
  /\ UNCHANGED <<protocol, place, account, acc, stream, client, gone>>

\* Nothing has reached the client: on to the next account.  A truncated stream
\* is not the account's fault.
Rotate ==
  /\ pc = "failed" /\ ~gone /\ ~committed
  /\ Exclude(err)
  /\ err' = "none"
  /\ IF err = "truncated" THEN UNCHANGED health ELSE HandleAccountFailure(account, err)
  /\ UNCHANGED <<protocol, place, account, acc, stream, client, gone>>

\* The client has content: onCommitted of the protocol reports the failure, and
\* blames the account (claude), unless the stream was truncated (openai), or
\* does not (responses).
FailCommitted ==
  /\ pc = "failed" /\ ~gone /\ committed
  /\ ended' = "failed"
  /\ IF protocol = "claude" \/ (protocol = "openai" /\ err # "truncated")
       THEN HandleAccountFailure(account, err)
       ELSE UNCHANGED health
  /\ Goto("done")
  /\ UNCHANGED <<protocol, place, account, excluded, err, lastErr, acc, stream,
                 held, committed, shown, gone>>

(***************************************************************************)
(* CallKiroAPIContext                                                      *)
(***************************************************************************)
FailWith(e) == err' = e /\ Goto("failed") /\ UNCHANGED place

\* Mutant of NextEndpoint: one endpoint too many.
NextEndpointTooFar(e) ==
  IF endpoint <= Endpoints
    THEN /\ endpoint' = endpoint + 1 /\ attempt' = 1
         /\ Goto("request") /\ UNCHANGED <<err, tries, retries>>
    ELSE FailWith(e)

\* From one endpoint to the next; the last one's error is the call's.
NextEndpoint(e) ==
  IF endpoint < Endpoints
    THEN /\ endpoint' = endpoint + 1 /\ attempt' = 1
         /\ Goto("request") /\ UNCHANGED <<err, tries, retries>>
    ELSE FailWith(e)

\* Status 200.
Accepted ==
  /\ pc = "request" /\ ~gone
  /\ stream' = Nothing
  /\ Goto("stream")
  /\ UNCHANGED <<protocol, place, account, excluded, err, lastErr, acc, client,
                 gone, health>>

\* 401, 402, 403 and timeouts are returned at once, other statuses and
\* transport errors go to the next endpoint, a cancellation ends the call.
Refused ==
  /\ pc = "request"
  /\ IF gone
       THEN FailWith("canceled")
       ELSE \E e \in {"auth", "soft"} : FailWith(e) \/ NextEndpoint(e)
  /\ UNCHANGED <<protocol, account, excluded, lastErr, acc, stream, client, gone,
                 health>>

\* The stream breaks, or ends without output.  Only before any output is it
\* repeated: on this endpoint, then on the next one.
StreamBreaks ==
  /\ pc = "stream"
  /\ \/ gone /\ FailWith("canceled")
     \/ ~gone /\ \E e \in {"auth", "soft"} : FailWith(e)
     \/ ~gone /\ ~HasOutput(stream) /\
        IF attempt < MaxStreamAttempts
          THEN /\ attempt' = attempt + 1
               /\ Goto("request") /\ UNCHANGED <<err, tries, retries, endpoint>>
          ELSE NextEndpoint("soft")
  /\ UNCHANGED <<protocol, account, excluded, lastErr, acc, stream, client, gone,
                 health>>

\* A clean end after some output.
StreamEnds ==
  /\ pc = "stream" /\ HasOutput(stream)
  /\ Goto("measure")
  /\ UNCHANGED <<protocol, place, account, excluded, err, lastErr, acc, stream,
                 client, gone, health>>

(***************************************************************************)
(* The renderers' callbacks                                                *)
(***************************************************************************)
\* Everything held of the answer goes to the client, this stream's part last.
Flush == shown' = shown \cup held \cup {Call} /\ held' = {} /\ committed' = TRUE
Hold  == held' = held \cup {Call} /\ UNCHANGED <<shown, committed>>

\* Text: the claude and openai renderers hold back what may be the start of a
\* thinking tag and drop what is inside one, responses sends it, a buffered
\* answer waits for the end.
RenderText ==
  \/ protocol \in {"claude", "openai", "responses"} /\ Flush
  \/ protocol \in {"claude", "openai", "buffered"} /\ Hold
  \/ protocol \in {"claude", "openai"} /\ UNCHANGED <<held, shown, committed>>

\* Reasoning: sent when the request asks for thinking, or dropped.
RenderReasoning ==
  \/ protocol \in {"claude", "openai"} /\ Flush
  \/ protocol \in {"claude", "openai", "responses"} /\ UNCHANGED <<held, shown, committed>>
  \/ protocol = "buffered" /\ Hold

\* A tool call: sent after the text that is held back.
RenderTool == IF protocol = "buffered" THEN Hold ELSE Flush

Receive(kind, value) ==
  /\ pc = "stream"
  /\ acc' = [acc EXCEPT ![kind] = value]
  /\ stream' = [stream EXCEPT ![kind] = value]
  /\ UNCHANGED <<protocol, pc, place, account, excluded, err, lastErr, ended, gone,
                 health>>

OnText      == RenderText /\ Receive("text", TRUE)
OnReasoning == RenderReasoning /\ Receive("reasoning", TRUE)
OnToolUse   == RenderTool /\ Receive("tool", TRUE)

\* A metadataEvent with a stop reason.
OnStopReason ==
  /\ EarlyStop \/ HasOutput(stream)
  /\ \E r \in {"plain", "explains"} : Receive("stop", r)
  /\ UNCHANGED <<held, shown, committed>>

(***************************************************************************)
(* runKiroWithIntegrityRetry                                               *)
(***************************************************************************)
\* A whole answer: the rest of it and the end are rendered, and the account's
\* errors are forgotten.  The guard is not read again.
Complete ==
  /\ pc = "measure" /\ Whole(acc)
  /\ shown' = shown \cup held \cup {Call} /\ held' = {}
  /\ ended' = "complete"
  /\ blamed' = blamed \ {account}
  /\ Goto("done")
  /\ UNCHANGED <<protocol, place, account, excluded, err, lastErr, acc, stream,
                 committed, gone, banned>>

\* Mutant of Reset: the stop reason survives.
ResetKeepsStop == acc' = [Nothing EXCEPT !.stop = acc.stop] /\ held' = {}

\* Mutant of Reset: the text held back survives.
ResetKeepsText == acc' = Nothing /\ UNCHANGED held

\* The handler's reset: accumulators and the text held back.
Reset == acc' = Nothing /\ held' = {}

\* Mutant of RetryTruncated: the budget is not counted.
RetryTruncatedUncounted ==
  /\ pc = "measure" /\ ~Whole(acc) /\ ~gone
  /\ ~committed /\ retries < MaxStreamRetries
  /\ endpoint' = 1 /\ attempt' = 1
  /\ Reset
  /\ Goto("request")
  /\ UNCHANGED <<protocol, tries, retries, account, excluded, err, lastErr, stream,
                 committed, shown, ended, gone, health>>

\* Truncated with nothing shown: the same account again.
RetryTruncated ==
  /\ pc = "measure" /\ ~Whole(acc) /\ ~gone
  /\ ~committed /\ retries < MaxStreamRetries
  /\ retries' = retries + 1 /\ endpoint' = 1 /\ attempt' = 1
  /\ Reset
  /\ Goto("request")
  /\ UNCHANGED <<protocol, tries, account, excluded, err, lastErr, stream,
                 committed, shown, ended, gone, health>>

\* Truncated after the first byte, or once too often.
GiveUpTruncated ==
  /\ pc = "measure" /\ ~Whole(acc)
  /\ IF gone
       THEN FailWith("canceled")
       ELSE (committed \/ retries = MaxStreamRetries) /\ FailWith("truncated")
  /\ UNCHANGED <<protocol, account, excluded, lastErr, acc, stream, client, gone,
                 health>>

(***************************************************************************)
(* The specification                                                       *)
(***************************************************************************)
\* The client closes the connection (external).
Disconnect ==
  /\ pc # "done" /\ ~gone
  /\ gone' = TRUE
  /\ UNCHANGED <<protocol, pc, place, account, excluded, err, lastErr, acc, stream,
                 client, health>>

Init ==
  /\ protocol \in Protocols
  /\ pc = "select"
  /\ tries = 0 /\ retries = 0 /\ endpoint = 1 /\ attempt = 1
  /\ account = None /\ excluded = {}
  /\ err = "none" /\ lastErr = "none"
  /\ acc = Nothing /\ stream = Nothing
  /\ held = {} /\ committed = FALSE /\ shown = {} /\ ended = "no"
  /\ gone = FALSE
  /\ blamed \in SUBSET Accounts /\ banned \in SUBSET Accounts

Run      == \/ SelectAccount \/ LeaveBetween \/ Exhausted \/ TokenFails
            \/ BeginAttempt \/ LeaveDuring \/ Rotate \/ FailCommitted
KiroCall == Accepted \/ Refused \/ StreamBreaks \/ StreamEnds
Events   == OnText \/ OnReasoning \/ OnToolUse \/ OnStopReason
Retry    == Complete \/ RetryTruncated \/ GiveUpTruncated
Finished == pc = "done" /\ UNCHANGED vars

Next == Run \/ KiroCall \/ Events \/ Retry \/ Disconnect \/ Finished

Spec == Init /\ [][Next]_vars

\* The request's goroutine is scheduled, and every call to the upstream ends:
\* its client has a timeout that covers the body.
FairSpec == Spec /\ WF_vars(Run \/ Retry \/ Accepted \/ Refused)
                 /\ WF_vars(StreamBreaks \/ StreamEnds)

(***************************************************************************)
(* Properties                                                              *)
(***************************************************************************)
TypeOK ==
  /\ protocol \in Protocols
  /\ pc \in {"select", "token", "request", "stream", "measure", "failed", "done"}
  /\ tries \in 0 .. MaxAccountAttempts  /\ retries \in 0 .. MaxStreamRetries
  /\ endpoint \in 1 .. Endpoints        /\ attempt \in 1 .. MaxStreamAttempts
  /\ account \in Accounts \cup {None}   /\ excluded \subseteq Accounts
  /\ {err, lastErr} \subseteq Errors \cup {"none"}
  /\ \A s \in {acc, stream} :
       s \in [text : BOOLEAN, reasoning : BOOLEAN, tool : BOOLEAN,
              stop : {"none", "plain", "explains"}]
  /\ held \subseteq Calls /\ shown \subseteq Calls
  /\ committed \in BOOLEAN /\ gone \in BOOLEAN
  /\ ended \in {"no", "complete", "failed", "unavailable", "abandoned"}
  /\ blamed \subseteq Accounts /\ banned \subseteq Accounts

\* However a request is retried, the client sees content of one upstream stream
\* only, no failure is reported as "no accounts" after content, and the response
\* ends once (streamGuard: a second account's stream would corrupt the bytes
\* already flushed).
Response == INSTANCE ClientStream
ImplementsClientStream == Response!Spec

\* An answer the client is told is complete was complete as the upstream sent
\* it: no retry turns a truncated stream into a finished turn
\* (classifyStreamIntegrity on what the last stream delivered).
CompleteIsWhole ==
  [][ended = "no" /\ ended' = "complete" => Whole(stream)]_vars

\* A truncated stream that makes the request rotate leaves the account's health
\* alone (attemptRotateWithoutBlame).
RotatesWithoutBlame ==
  [][err = "truncated" /\ ~committed => UNCHANGED health]_vars

\* No request goes on for ever, whatever the upstream and the client do.
EveryRequestEnds == <>(pc = "done")

(***************************************************************************)
(* What the comments say, and the code does not do                         *)
(***************************************************************************)
\* account_failover.go, isStreamIntegrityError: "callers may rotate accounts on
\* these, but must not run them through handleAccountFailure".
TruncationNeverBlames == [][err = "truncated" => UNCHANGED health]_vars
==============================================================================
