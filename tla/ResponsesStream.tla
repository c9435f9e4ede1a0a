----------------------------- MODULE ResponsesStream ----------------------------
(***************************************************************************)
(* One answer to /v1/responses: proxy/responses_handler.go over the        *)
(* account loop of chat_executor.go and the retries of stream_integrity.go.*)
(*                                                                         *)
(* The upstream's events are rendered as they come, as items with an       *)
(* index each, or are buffered.  An item's identity tells the account and  *)
(* the call it comes from.                                                 *)
(***************************************************************************)
EXTENDS Integers, Sequences, FiniteSets

CONSTANTS
  MaxPieces,    \* bound: text and tool events of one upstream call
  MaxAttempts,  \* maxAccountRetryAttempts, and accounts there are
  MaxRetries    \* maxSameAccountStreamRetries

VARIABLES
  mode,       \* "stream" or "buffered"
  phase,
  attempt,    \* accounts tried, this one included
  retry,      \* calls made again on this account
  acc,        \* what the upstream sent in this call
  cursor,     \* messageStarted and outputIndex
  committed,  \* streamGuard
  sent,       \* the events the client was sent
  counted,    \* how the request was counted, and the accounts blamed
  stored      \* the file of the response

vars == <<mode, phase, attempt, retry, acc, cursor, committed, sent, counted, stored>>

Phases  == {"pick", "call", "judge", "save", "tell", "done"}
NoAcc   == [text |-> 0, tools |-> 0, reasoning |-> FALSE, stop |-> "none"]
NoCount == [ok |-> 0, failed |-> 0, blamed |-> {}]
Start   == [started |-> FALSE, index |-> 0]

Event(ev, kind) == [ev |-> ev, index |-> cursor.index, id |-> <<kind, attempt, retry>>]
Shift(event)    == [event EXCEPT !.index = @ + 1]
Final(ev)       == [ev |-> ev, index |-> 0, id |-> <<"response", attempt, retry>>]
Send(events)    == sent' = IF mode = "stream" THEN sent \o events ELSE sent

\* The message item is made up once an attempt: its identity does not tell its calls apart.
Message(ev) == [Event(ev, "msg") EXCEPT !.id = <<"msg", attempt, 0>>]

Init ==
    /\ mode \in {"stream", "buffered"} /\ phase = "pick" /\ attempt = 0 /\ retry = 0 /\ acc = NoAcc
    /\ cursor = Start /\ committed = FALSE /\ sent = << >> /\ counted = NoCount /\ stored = FALSE

-----------------------------------------------------------------------------
(* The account loop                                                        *)

Pick ==
    /\ phase = "pick" /\ attempt < MaxAttempts
    /\ phase' = "call" /\ attempt' = attempt + 1 /\ retry' = 0 /\ acc' = NoAcc /\ cursor' = Start
    /\ UNCHANGED <<mode, committed, sent, counted, stored>>

\* onExhausted: counted as a failure, unless no account could be had.
Exhausted ==
    /\ phase = "pick" /\ phase' = "done" /\ Send(<<Final("failed")>>)
    /\ counted' = IF attempt = 0 THEN counted ELSE [counted EXCEPT !.failed = @ + 1]
    /\ UNCHANGED <<mode, attempt, retry, acc, cursor, committed, stored>>

\* attemptAccountFailed or, when the fault is not the account's, attemptRotateWithoutBlame:
\* the next account unless something was shown, and onCommitted otherwise.
Rotate(blame) ==
    IF ~committed
    THEN /\ phase' = "pick" /\ UNCHANGED sent
         /\ counted' = IF blame THEN [counted EXCEPT !.blamed = @ \cup {attempt}] ELSE counted
    ELSE /\ phase' = "done" /\ Send(<<Final("failed")>>)
         /\ counted' = [counted EXCEPT !.failed = @ + 1]

-----------------------------------------------------------------------------
(* One call: the callbacks                                                 *)

More == phase = "call" /\ acc.stop = "none" /\ acc.text + acc.tools < MaxPieces

Commit == committed' = (committed \/ mode = "stream")

OnText ==
    /\ More /\ acc' = [acc EXCEPT !.text = @ + 1]
    /\ Send((IF cursor.started THEN << >> ELSE <<Message("added")>>) \o <<Message("delta")>>)
    /\ cursor' = [cursor EXCEPT !.started = TRUE]
    /\ Commit
    /\ UNCHANGED <<mode, phase, attempt, retry, counted, stored>>

OnReasoning ==
    /\ phase = "call" /\ acc.stop = "none" /\ ~acc.reasoning
    /\ acc' = [acc EXCEPT !.reasoning = TRUE]
    /\ UNCHANGED <<mode, phase, attempt, retry, cursor, committed, sent, counted, stored>>

\* Mutant of OnToolUse: the message that was open keeps its index.
SameIndex ==
    /\ More /\ acc' = [acc EXCEPT !.tools = @ + 1]
    /\ Send((IF cursor.started THEN <<Message("done")>> ELSE << >>)
            \o <<Event("added", "fc"), Event("delta", "fc"), Event("done", "fc")>>)
    /\ cursor' = [started |-> FALSE, index |-> cursor.index + 1]
    /\ Commit
    /\ UNCHANGED <<mode, phase, attempt, retry, counted, stored>>

\* An open message is closed first; a call is an item of its own, all of it at once.
OnToolUse ==
    LET call == <<Event("added", "fc"), Event("delta", "fc"), Event("done", "fc")>>
        after == IF cursor.started THEN [n \in 1 .. 3 |-> Shift(call[n])] ELSE call IN
    /\ More /\ acc' = [acc EXCEPT !.tools = @ + 1]
    /\ Send((IF cursor.started THEN <<Message("done")>> ELSE << >>) \o after)
    /\ cursor' = [started |-> FALSE, index |-> cursor.index + (IF cursor.started THEN 2 ELSE 1)]
    /\ Commit
    /\ UNCHANGED <<mode, phase, attempt, retry, counted, stored>>

OnStopReason ==
    /\ phase = "call" /\ acc.stop = "none"
    /\ \E stop \in {"end", "explains"} : acc' = [acc EXCEPT !.stop = stop]
    /\ UNCHANGED <<mode, phase, attempt, retry, cursor, committed, sent, counted, stored>>

CallEnds ==
    /\ phase = "call" /\ phase' = "judge"
    /\ UNCHANGED <<mode, attempt, retry, acc, cursor, committed, sent, counted, stored>>

\* A transport or upstream error; the fault is the account's.
CallFails ==
    /\ phase = "call" /\ Rotate(TRUE)
    /\ UNCHANGED <<mode, attempt, retry, acc, cursor, committed, stored>>

\* The client leaves: the call fails and nobody is told, blamed or counted.
Leave ==
    /\ phase = "call" /\ phase' = "done"
    /\ UNCHANGED <<mode, attempt, retry, acc, cursor, committed, sent, counted, stored>>

-----------------------------------------------------------------------------
(* The verdict on a call that ended                                        *)

\* classifyStreamIntegrity
Whole == acc.tools > 0 \/ (acc.text > 0 /\ acc.stop # "none") \/ (acc.text = 0 /\ acc.stop = "explains")

\* Mutant of CanRetry: whatever was shown, the call is made again.
AlwaysRetry == retry < MaxRetries
\* Mutant of CanRetry: the calls made again are not counted.
RetryUncounted == ~committed
CanRetry    == retry < MaxRetries /\ ~committed

\* runKiroWithIntegrityRetry; reset clears what was received, not the cursor.
RetryTruncated ==
    /\ phase = "judge" /\ ~Whole /\ CanRetry
    /\ phase' = "call" /\ retry' = retry + 1 /\ acc' = NoAcc
    /\ UNCHANGED <<mode, attempt, cursor, committed, sent, counted, stored>>

GiveUpTruncated ==
    /\ phase = "judge" /\ ~Whole /\ ~CanRetry /\ Rotate(FALSE)
    /\ UNCHANGED <<mode, attempt, retry, acc, cursor, committed, stored>>

\* Mutant of Finish: an open message is left open.
LeaveOpen ==
    /\ phase = "judge" /\ Whole /\ phase' = "save"
    /\ counted' = [counted EXCEPT !.ok = @ + 1]
    /\ UNCHANGED <<mode, attempt, retry, acc, cursor, committed, sent, stored>>

\* The open message is closed and the success counted, ...
Finish ==
    /\ phase = "judge" /\ Whole /\ phase' = "save"
    /\ Send(IF cursor.started THEN <<Message("done")>> ELSE << >>)
    /\ counted' = [counted EXCEPT !.ok = @ + 1]
    /\ UNCHANGED <<mode, attempt, retry, acc, cursor, committed, stored>>

\* ... the response is stored unless that fails or was not asked for, ...
Save ==
    /\ phase = "save" /\ phase' = "tell" /\ stored' \in BOOLEAN
    /\ UNCHANGED <<mode, attempt, retry, acc, cursor, committed, sent, counted>>

\* ... and the client is told.
Tell ==
    /\ phase = "tell" /\ phase' = "done" /\ Send(<<Final("completed")>>)
    /\ UNCHANGED <<mode, attempt, retry, acc, cursor, committed, counted, stored>>

Next ==
    \/ Pick \/ Exhausted \/ OnText \/ OnReasoning \/ OnToolUse \/ OnStopReason
    \/ CallEnds \/ CallFails \/ Leave
    \/ RetryTruncated \/ GiveUpTruncated \/ Finish \/ Save \/ Tell
Spec == Init /\ [][Next]_vars

-----------------------------------------------------------------------------
TypeOK ==
    /\ mode \in {"stream", "buffered"} /\ phase \in Phases
    /\ attempt \in 0 .. MaxAttempts /\ retry \in 0 .. MaxRetries
    /\ cursor.started \in BOOLEAN /\ cursor.index \in 0 .. 2 * MaxPieces
    /\ committed \in BOOLEAN /\ stored \in BOOLEAN /\ counted.blamed \subseteq 1 .. MaxAttempts

Before(n, ev) == {m \in 1 .. n - 1 : sent[m].ev = ev}
Opened(n) == Cardinality(Before(n, "added"))
Closed(n) == Cardinality(Before(n, "done"))
Latest(n) == CHOOSE m \in Before(n, "added") : \A k \in Before(n, "added") : k <= m

\* Across retries and accounts the client sees one well-formed response: items are numbered
\* from 0 without a gap and open one at a time, a delta or an end goes to the item that is
\* open, completion finds every item closed, and nothing follows it.
ItemsBracketed ==
    \A n \in 1 .. Len(sent) :
        /\ sent[n].ev = "added" => Opened(n) = Closed(n) /\ sent[n].index = Opened(n)
        /\ sent[n].ev \in {"delta", "done"} => /\ Opened(n) = Closed(n) + 1
                                               /\ sent[n].index = sent[Latest(n)].index
                                               /\ sent[n].id = sent[Latest(n)].id
        /\ sent[n].ev = "completed" => Opened(n) = Closed(n)
        /\ sent[n].ev \in {"completed", "failed"} => n = Len(sent)

\* What is shown comes from one account, and from one call to it.
ShownOnce ==
    \A n, m \in 1 .. Len(sent) : {sent[n].ev, sent[m].ev} \subseteq {"added", "delta", "done"}
        => /\ sent[n].id[2] = sent[m].id[2]
           /\ sent[n].id[1] = "fc" /\ sent[m].id[1] = "fc" => sent[n].id[3] = sent[m].id[3]

\* A call that is made again finds the cursors untouched, as reset relies on.
RetryIsClean == mode = "stream" /\ phase = "call" /\ acc = NoAcc => cursor = Start /\ ~committed

\* A request is counted at most once, and as what the client was told it is.
CountedAsTold ==
    /\ counted.ok + counted.failed <= 1
    /\ phase = "done" /\ sent # << >> /\ attempt > 0 =>
         counted.ok = 1 <=> sent[Len(sent)].ev = "completed"

StreamIsWhole == ItemsBracketed /\ ShownOnce /\ RetryIsClean /\ CountedAsTold
=============================================================================
