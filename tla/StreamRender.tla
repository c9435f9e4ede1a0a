---------------------------- MODULE StreamRender ----------------------------
(***************************************************************************)
(* How an answer reaches the client while it is still arriving: the        *)
(* callbacks of handleClaudeStream and handleOpenAIStream.  The upstream   *)
(* sends text in pieces cut anywhere; thinking comes as events of its own  *)
(* or between tags inside the text, and a tag may be cut in two.  The      *)
(* handler holds the end of what it has back until it cannot be a part of  *)
(* a tag any more.  A symbol stands for a run of runes: a tag is two of    *)
(* them, "<" ">" opens and "[" "]" closes.  A request that does not stream *)
(* gets the same answer at once, when it is complete.                      *)
(***************************************************************************)
EXTENDS Integers, Sequences, SequencesExt

CONSTANTS
    Styles,       \* [api, stream, format, thinking, omit, search]: what a request asked for
    Pieces,       \* the pieces of text that may arrive
    TextHold,     \* text longer than this is shown, but for its end (50 runes)
    TagHold,      \* the same inside a tag (20 runes)
    HoldBack,     \* the end that is kept back (15 runes)
    MaxSymbols,   \* bound on the answer
    MaxAttempts   \* bound on the attempts

VARIABLES
    style,        \* the style of this request
    log,          \* what the upstream sent in this attempt: symbols, "r" for reasoning, "u" for a tool use
    render,       \* the closure's variables, and the events the client has received
    phase,        \* "streaming", "done" or "failed"
    attempt       \* how many attempts were begun

vars == <<style, log, render, phase, attempt>>

None == -1
Fresh == [buf |-> <<>>, inTag |-> FALSE, drop |-> FALSE, source |-> "unknown", started |-> FALSE,
          eventOpen |-> FALSE, next |-> 0, active |-> None, type |-> "", out |-> <<>>]

Event(e, i, k, s) == [e |-> e, i |-> i, k |-> k, s |-> s]
Committed(R) == R.out # <<>>

----------------------------------------------------------------------------
(* Blocks of the Claude stream                                             *)

\* A mistake: the closed block is still taken for the active one.
ForgetIndexOnly(R) ==
    IF R.active = None THEN R
    ELSE [R EXCEPT !.out = Append(@, Event("stop", R.active, R.type, "")), !.active = None]

closeActiveBlock(R) ==
    IF R.active = None THEN R
    ELSE [R EXCEPT !.out = Append(@, Event("stop", R.active, R.type, "")), !.active = None, !.type = ""]

startContentBlock(R, type) ==
    IF R.type = type THEN R
    ELSE LET c == closeActiveBlock(R) IN
         [c EXCEPT !.out = Append(@, Event("start", c.next, type, "")),
                   !.active = c.next, !.next = @ + 1, !.type = type]

Deltas(i, k, text) == [n \in 1..Len(text) |-> Event("delta", i, k, text[n])]

Delta(R, type, text) ==
    IF text = <<>> THEN R
    ELSE LET b == startContentBlock(R, type) IN [b EXCEPT !.out = @ \o Deltas(b.active, type, text)]

\* A block that is complete at once: a tool use, a search, a search result.
Whole(R, type) ==
    LET c == closeActiveBlock(R) IN
    [c EXCEPT !.out = @ \o <<Event("start", c.next, type, ""), Event("stop", c.next, type, "")>>, !.next = @ + 1]

\* Thinking inside the text, between markers of its own: state 1 opens, 3 closes.
Marked(text, state) ==
    (IF state = 1 THEN <<"T">> ELSE <<>>) \o text \o (IF state = 3 THEN <<"/T">> ELSE <<>>)

\* Thinking in blocks of its own.
SendThinking(R, text, state) ==
    LET d == Delta(R, "thinking", text) IN
    IF state = 3 /\ d.type = "thinking" THEN closeActiveBlock(d) ELSE d

\* Thinking whose content is left out: the block alone is shown.
SendOmitted(R, state) ==
    CASE state = 1 -> startContentBlock(R, "thinking")
      [] state = 3 -> closeActiveBlock(startContentBlock(R, "thinking"))
      [] OTHER -> R

\* sendText: state 0 is text.
SendText(R, text, state) ==
    CASE state = 0 -> Delta(R, "text", text)
      [] state # 0 /\ ~style.thinking -> R
      [] state # 0 /\ style.thinking /\ style.format = "think" -> Delta(R, "text", Marked(text, state))
      [] state # 0 /\ style.thinking /\ style.format = "reasoning" -> Delta(R, "text", text)
      [] OTHER -> IF style.omit THEN SendOmitted(R, state) ELSE SendThinking(R, text, state)

----------------------------------------------------------------------------
(* Chunks of the OpenAI stream, which has no blocks                        *)

Chunk(R, type, text) == [R EXCEPT !.out = @ \o Deltas(0, type, text)]

SendChunk(R, text, state) ==
    CASE state = 0 -> Chunk(R, "text", text)
      [] state # 0 /\ ~style.thinking -> R
      [] state # 0 /\ style.thinking /\ style.format = "reasoning" -> Chunk(R, "thinking", text)
      [] OTHER -> Chunk(R, "text", Marked(text, state))

Send(R, text, state) == IF style.api = "claude" THEN SendText(R, text, state) ELSE SendChunk(R, text, state)

----------------------------------------------------------------------------
(* The filter of the tags, the same in both streams                        *)

\* strings.Index of a tag of two symbols; 0 when there is none.
TagAt(s, first, second) ==
    LET at == {i \in 1..(Len(s) - 1) : s[i] = first /\ s[i + 1] = second}
    IN  IF at = {} THEN 0 ELSE CHOOSE i \in at : \A j \in at : i <= j

\* A mistake: thinking is taken from wherever it comes.
AnySource(R) == TRUE

\* Whoever thinks first is the source of thinking for the attempt.
allowTagSource(R) == R.source # "event"
allowReasoningSource(R) == R.source # "tag"

\* What is between the tags, or as much of it as is shown now.
SendTagged(R, text, last) ==
    IF R.drop THEN R
    ELSE IF ~R.started THEN LET d == [Send(R, text, 1) EXCEPT !.started = TRUE]
                            IN  IF last THEN Send(d, <<>>, 3) ELSE d
         ELSE Send(R, text, IF last THEN 3 ELSE 2)

LeaveTag(R) == [R EXCEPT !.inTag = FALSE, !.drop = FALSE, !.started = FALSE]

EnterTag(R) ==
    [R EXCEPT !.inTag = TRUE, !.drop = ~allowTagSource(R), !.started = FALSE,
              !.source = IF @ = "unknown" THEN "tag" ELSE @]

Keep(s, n)  == SubSeq(s, Len(s) - n + 1, Len(s))
Shed(s, n)  == SubSeq(s, 1, Len(s) - n)

\* A mistake: text is shown as far as it has come.
NothingHeld(R, flush) == IF R.inTag THEN TagHold ELSE 0

\* How much of the buffer must stay when no tag is complete in it.
Held(R, flush) == IF flush THEN 0 ELSE HoldBack
Ready(R, flush) == flush \/ Len(R.buf) > (IF R.inTag THEN TagHold ELSE TextHold)

\* The loop of processClaudeText and processText.
RECURSIVE Drain(_, _)
Drain(R, flush) ==
    LET at == IF R.inTag THEN TagAt(R.buf, "[", "]") ELSE TagAt(R.buf, "<", ">")
        h  == Held(R, flush)
        front == IF at # 0 THEN SubSeq(R.buf, 1, at - 1) ELSE Shed(R.buf, h)
        rest  == IF at # 0 THEN SubSeq(R.buf, at + 2, Len(R.buf)) ELSE Keep(R.buf, h)
    IN  CASE ~R.inTag /\ at # 0 -> Drain(EnterTag([Send(R, front, 0) EXCEPT !.buf = rest]), flush)
          [] R.inTag /\ at # 0  -> Drain(LeaveTag([SendTagged(R, front, TRUE) EXCEPT !.buf = rest]), flush)
          [] at = 0 /\ ~Ready(R, flush) -> R
          [] at = 0 /\ Ready(R, flush) /\ ~R.inTag -> [Send(R, front, 0) EXCEPT !.buf = rest]
          [] OTHER -> IF ~flush THEN [SendTagged(R, front, FALSE) EXCEPT !.buf = rest]
                      ELSE LeaveTag(IF front = <<>> THEN R ELSE [SendTagged(R, front, TRUE) EXCEPT !.buf = <<>>])

EndReasoning(R) == IF R.eventOpen THEN [Send(R, <<>>, 3) EXCEPT !.eventOpen = FALSE, !.started = FALSE] ELSE R

ProcessText(R, text, flush) ==
    LET e == EndReasoning(R) IN Drain([e EXCEPT !.buf = @ \o text], flush)

ProcessReasoning(R, text) ==
    IF ~style.thinking \/ ~allowReasoningSource(R) THEN R
    ELSE LET s == [R EXCEPT !.source = "event"] IN
         IF ~s.started THEN [Send(s, text, 1) EXCEPT !.started = TRUE, !.eventOpen = TRUE]
         ELSE Send(s, text, 2)

----------------------------------------------------------------------------
(* The answer that is sent at once                                         *)

\* A mistake: what was before the tag is lost with it.
KeepRest(before, after) == after
Rejoined(before, after) == before \o after

\* extractThinkingFromContent: whole tags are taken out, one after the other; text with a tag that is
\* not closed stays as it is.
RECURSIVE Extract(_, _)
Extract(s, reasoning) ==
    LET start == TagAt(s, "<", ">")
        end   == IF start = 0 THEN 0 ELSE TagAt(SubSeq(s, start, Len(s)), "[", "]")
    IN  IF end = 0 THEN [text |-> s, think |-> reasoning]
        ELSE Extract(Rejoined(SubSeq(s, 1, start - 1), SubSeq(s, start + end + 1, Len(s))),
                     reasoning \o SubSeq(s, start + 2, start + end - 2))

OfKind(keep) == SelectSeq(log, LAMBDA s : s \in keep)
Times(n, R, type) == FoldLeft(LAMBDA acc, i : Whole(acc, type), R, [i \in 1..n |-> i])

\* KiroToClaudeResponse: thinking, searches, text, tool uses.
ClaudeResponse(text, think, tools) ==
    LET inline == style.format \in {"think", "reasoning"}
        prefix == IF think = <<>> \/ style.omit \/ ~inline THEN <<>>
                  ELSE IF style.format = "think" THEN <<"T">> \o think \o <<"/T">> ELSE think
        b1 == IF style.omit /\ think # <<>> THEN Whole(Fresh, "thinking")
              ELSE IF inline THEN Fresh ELSE Delta(Fresh, "thinking", think)
        b2 == IF style.search THEN Whole(Whole(b1, "search"), "result") ELSE b1
        b3 == Delta(b2, "text", prefix \o text \o (IF style.search THEN <<"s">> ELSE <<>>))
    IN  closeActiveBlock(Times(tools, b3, "tool"))

\* KiroToOpenAIResponseWithReasoning: tool calls replace the content.
OpenAIResponse(text, think, tools) ==
    IF tools > 0 THEN [Fresh EXCEPT !.out = [n \in 1..tools |-> Event("delta", 0, "tool", "u")]]
    ELSE IF think = <<>> THEN Chunk(Fresh, "text", text)
    ELSE IF style.format = "reasoning" THEN Chunk(Chunk(Fresh, "text", text), "thinking", think)
    ELSE Chunk(Fresh, "text", <<"T">> \o think \o <<"/T">> \o text)

Buffered ==
    LET ex     == Extract(OfKind({"x", "<", ">", "[", "]"}), <<>>)
        events == OfKind({"r"})
        think  == IF ~style.thinking THEN <<>> ELSE IF events # <<>> THEN events ELSE ex.think
        tools  == Len(OfKind({"u"}))
    IN  IF style.api = "claude" THEN ClaudeResponse(ex.text, think, tools) ELSE OpenAIResponse(ex.text, think, tools)

----------------------------------------------------------------------------
(* The attempt                                                             *)

\* The web search path replays a finished round: the searches come first, and nothing is cut short.
Searches(R) == IF style.search /\ style.stream THEN Whole(Whole(R, "search"), "result") ELSE R

OnText ==
    /\ phase = "streaming"
    /\ \E p \in Pieces : /\ Len(log) + Len(p) <= MaxSymbols
                         /\ log' = log \o p
                         /\ render' = IF style.stream THEN ProcessText(render, p, FALSE) ELSE render
    /\ UNCHANGED <<style, phase, attempt>>

OnReasoning ==
    /\ phase = "streaming" /\ Len(log) < MaxSymbols
    /\ log' = Append(log, "r")
    /\ render' = IF style.stream THEN ProcessReasoning(render, <<"r">>) ELSE render
    /\ UNCHANGED <<style, phase, attempt>>

\* A tool use is shown whole, after everything that came before it.
OnToolUse ==
    /\ phase = "streaming" /\ Len(log) < MaxSymbols
    /\ log' = Append(log, "u")
    /\ LET f == ProcessText(render, <<>>, TRUE) IN
       render' = IF ~style.stream THEN render
                 ELSE IF style.api = "claude" THEN Whole(f, "tool")
                 ELSE [f EXCEPT !.out = Append(@, Event("delta", 0, "tool", "u"))]
    /\ UNCHANGED <<style, phase, attempt>>

\* The end of a sound answer: what was held back, the sources of a search, and the closing events.
Finish ==
    LET f == ProcessText(render, <<>>, TRUE)
        s == IF style.search THEN Send(f, <<"s">>, 0) ELSE f
        c == IF style.stream THEN closeActiveBlock(s) ELSE Buffered
    IN  /\ phase = "streaming" /\ log # <<>> /\ phase' = "done"
        /\ render' = [c EXCEPT !.out = Append(@, Event("end", 0, "", ""))]
        /\ UNCHANGED <<style, log, attempt>>

\* A mistake: the variables of the tag filter outlive the attempt.
KeepBuffer(R) == [Fresh EXCEPT !.out = R.out, !.buf = R.buf]

\* reset, and the fresh closure of the next account, which are the same while nothing was shown.
Reset(R) == [Fresh EXCEPT !.out = R.out]

\* An answer that breaks off: it is tried again while nothing was shown, and ends in an error after.
Break ==
    /\ phase = "streaming" /\ ~style.search
    /\ \/ /\ Committed(render) /\ phase' = "failed"
          /\ render' = [render EXCEPT !.out = Append(@, Event("error", 0, "", ""))]
          /\ UNCHANGED <<log, attempt>>
       \/ /\ ~Committed(render) /\ attempt < MaxAttempts /\ attempt' = attempt + 1
          /\ log' = <<>> /\ render' = Reset(render) /\ UNCHANGED phase
       \/ /\ ~Committed(render) /\ attempt = MaxAttempts /\ phase' = "failed"
          /\ UNCHANGED <<log, render, attempt>>
    /\ UNCHANGED style

Init ==
    /\ style \in Styles /\ log = <<>> /\ render = Searches(Fresh) /\ phase = "streaming" /\ attempt = 1

Next == OnText \/ OnReasoning \/ OnToolUse \/ Finish \/ Break
Spec == Init /\ [][Next]_vars

----------------------------------------------------------------------------
(* The answer as a whole                                                   *)

Symbols == {"x", "<", ">", "[", "]"}
Item(k, s) == [k |-> k, s |-> s]
Items(k, text) == [n \in 1..Len(text) |-> Item(k, text[n])]

\* The text of an answer, read in one piece.
RECURSIVE Parsed(_, _)
Parsed(s, inTag) ==
    LET at == IF inTag THEN TagAt(s, "[", "]") ELSE TagAt(s, "<", ">")
        k  == IF inTag THEN "think" ELSE "text"
    IN  IF at = 0 THEN Items(k, s)
        ELSE Items(k, SubSeq(s, 1, at - 1)) \o Parsed(SubSeq(s, at + 2, Len(s)), ~inTag)

\* A tool use ends the text before it, and with it a tag that is open.
RECURSIVE Segments(_, _)
Segments(s, seen) ==
    IF s = <<>> THEN Parsed(seen, FALSE)
    ELSE IF Head(s) = "u" THEN Parsed(seen, FALSE) \o Segments(Tail(s), <<>>)
         ELSE Segments(Tail(s), IF Head(s) = "r" THEN seen ELSE Append(seen, Head(s)))

\* Where thinking comes from: whichever was there first, the events or the first whole tag.
FirstReasoning == SelectInSeq(log, LAMBDA s : s = "r")
TagsFirst ==
    LET before == IF FirstReasoning = 0 THEN log ELSE SubSeq(log, 1, FirstReasoning)
    IN  \E i \in 1..(Len(before) - 1) : before[i] = "<" /\ before[i + 1] = ">"

Wanted ==
    LET parsed == Segments(log, <<>>)
        shown  == IF style.thinking /\ TagsFirst /\ ~style.omit THEN {"text", "think"} ELSE {"text"}
    IN  SelectSeq(parsed, LAMBDA it : it.k \in shown)

Deliver == SelectSeq(render.out, LAMBDA ev : ev.e = "delta" /\ ev.s \in Symbols)
Reasoned == Len(SelectSeq(render.out, LAMBDA ev : ev.e = "delta" /\ ev.s = "r"))

TypeOK ==
    /\ style \in Styles /\ phase \in {"streaming", "done", "failed"} /\ attempt \in 1..MaxAttempts
    /\ Len(log) <= MaxSymbols /\ Len(render.buf) <= MaxSymbols /\ render.next \in Nat
    /\ render.source \in {"unknown", "event", "tag"}

\* However the upstream cuts its answer, and however often it was tried before, a client that got it
\* to the end has what the answer says when read in one piece: no text lost, doubled or left over
\* from an earlier attempt, no tag shown as text, no thinking shown as the answer.
ShownAsWhole == phase = "done" /\ style.stream =>
    /\ [n \in 1..Len(Deliver) |-> Deliver[n].s] = [n \in 1..Len(Wanted) |-> Wanted[n].s]
    /\ style.format = "thinking" /\ style.api = "claude" =>
          \A n \in 1..Len(Deliver) : (Deliver[n].k = "thinking") = (Wanted[n].k = "think")
    /\ Reasoned = IF style.thinking /\ ~TagsFirst /\ ~style.omit
                  THEN Len(SelectSeq(log, LAMBDA s : s = "r")) ELSE 0

\* The answer's text does not depend on whether it was asked for as a stream: when the tags of the
\* upstream's text are whole and closed, the answer that is sent at once has the same text, except
\* that an OpenAI answer with tool calls has none.
Regular ==
    LET text == OfKind({"x", "<", ">", "[", "]", "u"}) IN
    \A i \in 1..Len(text) :
        /\ (text[i] = "<") = (i < Len(text) /\ text[i + 1] = ">")
        /\ (text[i] = "[") = (i < Len(text) /\ text[i + 1] = "]")
        /\ text[i] = ">" => /\ \E j \in (i + 1)..Len(text) : /\ text[j] = "["
                                                           /\ \A m \in (i + 1)..(j - 1) : text[m] = "x"

SeparateThinking == style.format = IF style.api = "claude" THEN "thinking" ELSE "reasoning"

BufferedSaysTheSame ==
    (phase = "done" /\ ~style.stream /\ SeparateThinking /\ Regular /\ (style.api = "claude" \/ OfKind({"u"}) = <<>>)) =>
        LET text == SelectSeq(Segments(log, <<>>), LAMBDA it : it.k = "text")
            sent == SelectSeq(Deliver, LAMBDA ev : ev.k = "text")
        IN  [n \in 1..Len(sent) |-> sent[n].s] = [n \in 1..Len(text) |-> text[n].s]

\* The events of a Claude stream are well bracketed: blocks are numbered in order, one at a time is
\* open, a delta belongs to the open block and has its type, and all are closed before the end.
OpenBefore(p) ==
    {i \in {render.out[q].i : q \in {q \in 1..(p - 1) : render.out[q].e = "start"}} :
        ~\E q \in 1..(p - 1) : render.out[q].e = "stop" /\ render.out[q].i = i}

BlocksBracketed == style.api = "claude" =>
    \A p \in 1..Len(render.out) :
        LET ev == render.out[p]
            starts == {q \in 1..(p - 1) : render.out[q].e = "start"}
        IN  CASE ev.e = "start" -> OpenBefore(p) = {} /\ \A q \in starts : render.out[q].i < ev.i
              [] ev.e \in {"delta", "stop"} ->
                    OpenBefore(p) = {ev.i} /\ \E q \in starts : render.out[q].i = ev.i /\ render.out[q].k = ev.k
              [] ev.e = "end" -> OpenBefore(p) = {} /\ p = Len(render.out)
              [] OTHER -> p = Len(render.out)
=============================================================================
