----------------------------- MODULE HistoryRepair -----------------------------
(***************************************************************************)
(* From a client's messages to the conversation the upstream accepts       *)
(* (proxy/translator.go ClaudeToKiro, OpenAIToKiro, truncatePayloadToLimit;*)
(* proxy/kiro_history_repair.go; proxy/kiro_advance.go).  A turn's text is *)
(* the set of things it says, so a blank one says nothing; a tool call is  *)
(* its identifier; a result is the identifier of the call it answers and   *)
(* whether it is a real one or the placeholder of a missing one.           *)
(***************************************************************************)
EXTENDS Integers, Sequences, FiniteSets, SequencesExt

CONSTANTS
    Ids,           \* identifiers a client may use for its tool calls
    SearchIds,     \* identifiers the upstream gives to the web searches it asks for
    MaxMessages,   \* messages of the client's request
    Texts,         \* what the messages say: one or two things
    MaxParts,      \* tool calls, or results, of one message
    MinRecent,     \* minRecentHistoryTurns
    MoreRounds,    \* rounds of web searches
    Mixes          \* what a client may get wrong or a request may hold: sets of
                   \* "blank" identifiers, "reused" ones, a "bare" first message, "images",
                   \* "polluted" texts, "search" rounds, an "overlong" payload

VARIABLES
    mix,
    api,           \* "claude" or "openai"
    messages,      \* the messages of the request
    primed,        \* the request has a system prompt
    latest,        \* what happened to the payload last
    payload,       \* ConversationState: history, current message, declared tools
    asked,         \* the searches of every round so far
    rounded

payloadVars == <<mix, api, messages, primed, latest, payload, asked, rounded>>

NoId == ""

\* minRecentHistoryTurns is 4; the upstream's identifiers are its own.
ASSUME PayloadAssumption ==
    /\ NoId \notin Ids \cup SearchIds /\ Ids \cap SearchIds = {}
    /\ MinRecent \in Nat /\ MinRecent >= 2

\* The identifier a placeholder gives a call that has none.
Positional(i) == "toolUse_" \o ToString(i)

User(text, results, images) == [user |-> TRUE, text |-> text, results |-> results, images |-> images, uses |-> <<>>]
Assistant(text, uses) == [user |-> FALSE, text |-> text, results |-> <<>>, images |-> FALSE, uses |-> uses]
Filler(word) == User({word}, <<>>, FALSE)
Result(id) == [id |-> id, real |-> TRUE]
Missing(id) == [id |-> id, real |-> FALSE]

Elements(s) == {s[i] : i \in DOMAIN s}
ResultIds(m) == {r.id : r \in Elements(m.results)}
UseIds(m) == Elements(m.uses)
MapSeq(s, Op(_)) == [i \in DOMAIN s |-> Op(s[i])]
Indices(s) == [i \in DOMAIN s |-> i]
Fold(Op(_, _), base, s) == LET f[n \in 0 .. Len(s)] == IF n = 0 THEN base ELSE Op(f[n - 1], s[n]) IN f[Len(s)]
At(s, S) == Fold(LAMBDA out, i : IF i \in S THEN Append(out, s[i]) ELSE out, <<>>, Indices(s))

----------------------------------------------------------------------------
(* The validator                                                           *)

\* Every call answered and every result answering a call; no calls match anything.
toolUsesMatchResults(m, next) == m.uses = <<>> \/ UseIds(m) = ResultIds(next)

IsSet(s) == Cardinality(Elements(s)) = Len(s)

\* The rules a conversation breaks.  Orphans are only looked for after a turn with calls.
validateKiroConversation(msgs) ==
    LET n == Len(msgs)
        Following(i) == msgs[i + 1]
        Broken(i) == ~msgs[i].user /\ msgs[i].uses # <<>>
                     /\ (~Following(i).user \/ ~toolUsesMatchResults(msgs[i], Following(i)))
        Unused(i) == ~msgs[i].user /\ msgs[i].uses = <<>> /\ Following(i).user /\ Following(i).results # <<>>
        Orphaned(i) == /\ msgs[i].uses # <<>> /\ Following(i).results # <<>>
                       /\ \/ ~(ResultIds(Following(i)) \subseteq UseIds(msgs[i]) \ {NoId})
                          \/ ~IsSet(MapSeq(Following(i).results, LAMBDA r : r.id))
    IN  {rule \in {"start", "end", "alternate", "pair", "unused", "orphan", "empty"} :
            CASE rule = "start" -> n = 0 \/ ~msgs[1].user
              [] rule = "end" -> n = 0 \/ ~msgs[n].user
              [] rule = "alternate" -> \E i \in 1 .. n - 1 : msgs[i].user = Following(i).user
              [] rule = "pair" -> \E i \in 1 .. n - 1 : Broken(i)
              [] rule = "unused" -> \E i \in 1 .. n - 1 : Unused(i)
              [] rule = "orphan" -> \E i \in 1 .. n - 1 : Orphaned(i)
              [] rule = "empty" -> \E i \in 1 .. n : msgs[i].user /\ msgs[i].text = {} /\ msgs[i].results = <<>>}

----------------------------------------------------------------------------
(* Cleanup before the repair                                               *)

Scrubbed(m) == IF m.user THEN m ELSE [m EXCEPT !.text = @ \ {"polluted"}]
Hollow(m) == ~m.user /\ m.uses = <<>> /\ m.text \in {{}, {"."}}

\* A client stuck retrying sends one user turn over and over; one with results or images is exempt.
Repeats(out, m) ==
    /\ m.user /\ m.results = <<>> /\ ~m.images /\ m.text # {}
    /\ out # <<>> /\ Last(out).user /\ Last(out).results = <<>> /\ Last(out).text = m.text

Prepared(out, m) == IF Hollow(m) \/ Repeats(out, m) THEN out ELSE Append(out, m)

prepareKiroConversation(msgs) == Fold(Prepared, <<>>, MapSeq(msgs, Scrubbed))

----------------------------------------------------------------------------
(* The stages of the repair                                                *)

ensureStartsWithUserTurn(msgs) ==
    IF msgs # <<>> /\ msgs[1].user THEN msgs ELSE <<Filler("Hello")>> \o msgs

ensureEndsWithUserTurn(msgs) ==
    CASE msgs = <<>> -> <<Filler("Hello")>>
      [] msgs # <<>> /\ Last(msgs).user -> msgs
      [] OTHER -> Append(msgs, Filler("Continue"))

\* A user turn that says nothing, answers nothing and shows nothing goes, but the first one.
dropContentlessUserTurns(msgs) ==
    At(msgs, {i \in DOMAIN msgs :
                LET m == msgs[i] IN
                \/ ~m.user \/ m.text # {} \/ m.results # <<>> \/ m.images
                \/ \A j \in 1 .. i - 1 : ~msgs[j].user})

\* resultHome: the first turn that carries a result for the call; 0 for none.
Home(msgs, id) ==
    LET homes == {i \in DOMAIN msgs : msgs[i].user /\ id \in ResultIds(msgs[i])}
    IN  IF id = NoId \/ homes = {} THEN 0 ELSE CHOOSE i \in homes : \A j \in homes : i <= j

\* Mutant: results stay where the client put them.
StaysPut(order, msgs, i) == Append(order, i)

\* A results turn moves up to the turn that made the calls, unless it stands there or was placed.
PullResult(order, msgs, i, id) ==
    LET home == Home(msgs, id)
    IN  IF home \in {0, i + 1} \cup Elements(order) THEN order ELSE Append(order, home)

PullOne(order, msgs, i) ==
    IF i \in Elements(order) THEN order
    ELSE Fold(LAMBDA o, id : PullResult(o, msgs, i, id), Append(order, i), msgs[i].uses)

pullToolResultsAfterTheirCalls(msgs) ==
    MapSeq(Fold(LAMBDA order, i : PullOne(order, msgs, i), <<>>, Indices(msgs)), LAMBDA i : msgs[i])

\* Results split in two: the first for each of the wanted calls, and the rest, which is narrated.
FirstFor(results, wanted) ==
    {i \in DOMAIN results : /\ results[i].id \in wanted \ {NoId}
                            /\ \A j \in 1 .. i - 1 : results[j].id # results[i].id}
Narrated(results, kept) == {results[i].id : i \in DOMAIN results \ kept}

CallsAt(msgs, i) == IF i > 0 THEN UseIds(msgs[i]) ELSE {}

FilterOne(msgs, i) ==
    LET m == msgs[i]
        kept == FirstFor(m.results, CallsAt(msgs, i - 1))
        repaired == [m EXCEPT !.text = @ \cup Narrated(m.results, kept), !.results = At(m.results, kept)]
    IN  IF ~m.user \/ m.results = <<>> \/ kept = DOMAIN m.results THEN <<m>>
        ELSE IF repaired.text = {} /\ repaired.results = <<>> /\ ~repaired.images THEN <<>>
        ELSE <<repaired>>

filterOrphanToolResults(msgs) == Fold(LAMBDA out, i : out \o FilterOne(msgs, i), <<>>, Indices(msgs))

Called(uses, i) == IF uses[i] = NoId THEN Positional(i) ELSE uses[i]
syntheticToolResultTurn(uses) == User({}, [i \in DOMAIN uses |-> Missing(Called(uses, i))], FALSE)

\* The adjacent turn answers exactly the calls: its own results first, placeholders for the others.
topUpToolResultTurn(turn, uses) ==
    LET kept == FirstFor(turn.results, Elements(uses))
        Existing(id) == {turn.results[i] : i \in {j \in kept : turn.results[j].id = id}}
        Answered(id) == IF Existing(id) = {} THEN Missing(id) ELSE CHOOSE r \in Existing(id) : TRUE
    IN  [turn EXCEPT !.text = @ \cup Narrated(turn.results, kept),
                     !.results = [i \in DOMAIN uses |-> Answered(Called(uses, i))]]

\* The adjacent results are exactly those of another turn's calls.
AnsweredElsewhere(msgs, i) ==
    \E j \in DOMAIN msgs \ {i} : msgs[j].uses # <<>> /\ toolUsesMatchResults(msgs[j], msgs[i + 1])

BackfillOne(acc, msgs, i) ==
    LET m == msgs[i]
        out == Append(acc.out, m)
        Emit(turns, skip) == [out |-> out \o turns, skip |-> skip]
        adjacent == i < Len(msgs) /\ msgs[i + 1].user /\ msgs[i + 1].results # <<>>
    IN  CASE i = acc.skip -> acc
          [] i # acc.skip /\ (m.user \/ m.uses = <<>>) -> Emit(<<>>, 0)
          [] i # acc.skip /\ m.uses # <<>> /\ ~adjacent -> Emit(<<syntheticToolResultTurn(m.uses)>>, 0)
          [] OTHER -> IF toolUsesMatchResults(m, msgs[i + 1]) THEN Emit(<<>>, 0)
                      ELSE IF AnsweredElsewhere(msgs, i) THEN Emit(<<syntheticToolResultTurn(m.uses)>>, 0)
                      ELSE Emit(<<topUpToolResultTurn(msgs[i + 1], m.uses)>>, i + 1)

backfillMissingToolResults(msgs) ==
    Fold(LAMBDA acc, i : BackfillOne(acc, msgs, i), [out |-> <<>>, skip |-> 0], Indices(msgs)).out

Between(prev, m) ==
    IF prev.user # m.user THEN <<>> ELSE IF m.user THEN <<Assistant({"understood"}, <<>>)>> ELSE <<Filler("Continue")>>

Filled(out, m) == (IF out = <<>> THEN <<>> ELSE out \o Between(Last(out), m)) \o <<m>>

insertFillerBetweenSameRoleTurns(msgs) == Fold(Filled, <<>>, msgs)

repairKiroConversation(msgs) ==
    ensureEndsWithUserTurn(insertFillerBetweenSameRoleTurns(backfillMissingToolResults(
        filterOrphanToolResults(pullToolResultsAfterTheirCalls(dropContentlessUserTurns(
            ensureStartsWithUserTurn(msgs)))))))

----------------------------------------------------------------------------
(* The payload                                                             *)

Merged(p) == Append(p.history, p.current)
Traffic(msgs) == \E i \in DOMAIN msgs : msgs[i].uses # <<>> \/ msgs[i].results # <<>>

\* With tool calls in the conversation some tool has to be declared.
synthesizeToolSpecsFor(msgs) == IF Traffic(msgs) THEN {"declared"} ELSE {}

\* What a turn that would say nothing says instead.
Spoken(m) ==
    IF m.text # {} \/ m.results # <<>> THEN m ELSE [m EXCEPT !.text = IF m.images THEN {"image"} ELSE {"."}]

repairKiroPayload(p) ==
    LET merged == repairKiroConversation(prepareKiroConversation(Merged(p)))
    IN  [history |-> Front(merged), current |-> Spoken(Last(merged)),
         tools |-> IF p.tools # {} THEN p.tools ELSE synthesizeToolSpecsFor(merged)]

dropLeadingAssistant(msgs) ==
    At(msgs, {i \in DOMAIN msgs : \E j \in 1 .. i : msgs[j].user})

\* The history without its oldest turns; the current text goes when even the retained turns are too long.
Truncations(p, hasPriming) ==
    LET priming == IF hasPriming /\ Len(p.history) >= 2 THEN SubSeq(p.history, 1, 2) ELSE <<>>
        rest == SubSeq(p.history, Len(priming) + 1, Len(p.history))
        Kept(k) == priming \o (IF k > 0 THEN <<Filler("elided")>> ELSE <<>>)
                           \o dropLeadingAssistant(SubSeq(rest, k + 1, Len(rest)))
        cuts == {k \in 0 .. Len(rest) : Len(rest) - k >= MinRecent \/ k = 0}
        shortest == {k \in cuts : Len(rest) - k <= MinRecent}
        Shortened(m) == IF m.text = {} THEN m ELSE [m EXCEPT !.text = {"."}]
    IN  {[p EXCEPT !.history = Kept(k)] : k \in cuts}
        \cup {[p EXCEPT !.history = Kept(k), !.current = Shortened(@)] : k \in shortest}

----------------------------------------------------------------------------
(* The client's request                                                    *)

\* normalizeUserContent
Normalized(m) == IF m.text = {} /\ m.images THEN [m EXCEPT !.text = {"image"}] ELSE m

Priming == IF primed THEN <<Filler("system"), Assistant({"primed"}, <<>>)>> ELSE <<>>

\* ClaudeToKiro: one turn per message, the leading assistant turns dropped.
ClaudeToKiro(msgs) ==
    [history |-> Priming \o dropLeadingAssistant(MapSeq(Front(msgs), Normalized)),
     current |-> Spoken(Last(msgs))]

\* OpenAIToKiro: a run of tool messages, each one result, is one turn.
Tool(m) == m.user /\ m.results # <<>>

Joined(out, m) ==
    IF out # <<>> /\ Tool(m) /\ Tool(Last(out))
    THEN Append(Front(out), [Last(out) EXCEPT !.results = @ \o m.results, !.images = @ \/ m.images])
    ELSE Append(out, m)

ToolRuns(msgs) == MapSeq(Fold(Joined, <<>>, msgs), LAMBDA m : IF Tool(m) THEN m ELSE Normalized(m))

OpenAIToKiro(msgs) ==
    LET turns == ToolRuns(msgs) IN [history |-> Priming \o Front(turns), current |-> Spoken(Last(turns))]

\* validateClaudeRequestShape, validateOpenAIRequestShape
RequestShape(msgs) ==
    /\ msgs # <<>> /\ Last(msgs).user
    /\ \E i \in DOMAIN msgs : /\ msgs[i].user
                              /\ \/ msgs[i].results = <<>> /\ (msgs[i].text # {} \/ msgs[i].images)
                                 \/ api = "claude" /\ (msgs[i].text # {} \/ msgs[i].images \/ msgs[i].results # <<>>)

Allowed(what) == what \in mix
CallIds == UNION {UseIds(messages[i]) : i \in DOMAIN messages}
KnownIds == Ids \cup (IF Allowed("blank") THEN {NoId} ELSE {})
Lists(S) == UNION {[1 .. n -> S] : n \in 0 .. MaxParts}
Opened == \E i \in DOMAIN messages : messages[i].user
UserTexts == {{}} \cup {{t} : t \in Texts}
AssistantTexts == {{}, {"say"}} \cup (IF Allowed("polluted") THEN {{"polluted"}} ELSE {})

\* The calls of an assistant message: fresh identifiers, unless the client reuses them.
FreshUses ==
    {uses \in Lists(KnownIds) : Allowed("reused") \/ (IsSet(uses) /\ Elements(uses) \cap CallIds \subseteq {NoId})}

WriteUser ==
    \E text \in UserTexts, ids \in Lists(KnownIds), images \in {FALSE} \cup (IF Allowed("images") THEN {TRUE} ELSE {}) :
        /\ text # {} \/ ids # <<>> \/ images \/ Opened \/ Allowed("bare")
        /\ api = "openai" => (ids = <<>> \/ (Len(ids) = 1 /\ text = {}))
        /\ messages' = Append(messages, User(text, MapSeq(ids, Result), images))

WriteAssistant ==
    \E text \in AssistantTexts, uses \in FreshUses : messages' = Append(messages, Assistant(text, uses))

Write ==
    /\ latest = "asking" /\ Len(messages) < MaxMessages
    /\ WriteUser \/ WriteAssistant
    /\ UNCHANGED <<mix, api, primed, latest, payload, asked, rounded>>

Convert ==
    /\ latest = "asking" /\ RequestShape(messages)
    /\ \E tools \in {{}, {"client"}} \cup (IF Allowed("search") THEN {{"web_search"}, {"web_search", "client"}} ELSE {}) :
         LET c == IF api = "claude" THEN ClaudeToKiro(messages) ELSE OpenAIToKiro(messages)
         IN  payload' = [history |-> c.history, current |-> c.current, tools |-> tools]
    /\ latest' = "converted"
    /\ UNCHANGED <<mix, api, messages, primed, asked, rounded>>

----------------------------------------------------------------------------
(* What becomes of the payload                                             *)

\* Mutant: the repair before the truncation is taken to be enough.
RepairOnce ==
    /\ latest \in {"converted", "cut"}
    /\ payload' = IF latest = "cut" THEN payload ELSE repairKiroPayload(payload)
    /\ latest' = IF latest = "cut" THEN "ready" ELSE "repaired"
    /\ UNCHANGED <<mix, api, messages, primed, asked, rounded>>

Repair ==
    /\ latest \in {"converted", "cut"}
    /\ payload' = repairKiroPayload(payload)
    /\ latest' = IF latest = "cut" THEN "ready" ELSE "repaired"
    /\ UNCHANGED <<mix, api, messages, primed, asked, rounded>>

\* Only a request's first payload is truncated with its priming pair set apart.
Truncate ==
    /\ latest = "repaired"
    /\ payload' \in {payload} \cup (IF Allowed("overlong") THEN Truncations(payload, primed /\ rounded = 0) ELSE {})
    /\ latest' = "cut"
    /\ UNCHANGED <<mix, api, messages, primed, asked, rounded>>

\* The round asked for searches: it becomes the last turn of the history, their results the current message.
advancePayload(p, uses) ==
    [history |-> p.history \o <<p.current, Assistant({}, uses)>>,
     current |-> User({}, MapSeq(uses, Result), FALSE), tools |-> p.tools]

Advance ==
    /\ latest = "ready" /\ rounded < MoreRounds /\ "web_search" \in payload.tools
    /\ \E uses \in Lists(SearchIds \ {asked[i] : i \in DOMAIN asked}) :
         /\ uses # <<>> /\ IsSet(uses)
         /\ payload' = advancePayload(payload, uses)
         /\ asked' = asked \o uses
    /\ rounded' = rounded + 1 /\ latest' = "converted"
    /\ UNCHANGED <<mix, api, messages, primed>>

\* The rounds or the searches are spent: the last call advertises no web search.
stripWebSearchTools ==
    /\ latest = "ready" /\ rounded > 0
    /\ payload' = [payload EXCEPT !.tools = @ \ {"web_search"}]
    /\ latest' = "final"
    /\ UNCHANGED <<mix, api, messages, primed, asked, rounded>>

PayloadInit ==
    /\ mix \in Mixes /\ api \in {"claude", "openai"} /\ primed \in BOOLEAN
    /\ messages = <<>> /\ latest = "asking" /\ asked = <<>> /\ rounded = 0
    /\ payload = [history |-> <<>>, current |-> Filler("."), tools |-> {}]

PayloadNext == Write \/ Convert \/ Repair \/ Truncate \/ Advance \/ stripWebSearchTools

PayloadSpec == PayloadInit /\ [][PayloadNext]_payloadVars

----------------------------------------------------------------------------
(* Properties                                                              *)

Turns == [user : BOOLEAN, text : SUBSET (Ids \cup SearchIds \cup
             Texts \cup {"say", "polluted", "image", ".", "Hello", "Continue", "understood", "system", "primed", "elided", NoId}
             \cup {Positional(i) : i \in 1 .. MaxParts}),
          results : Seq([id : Ids \cup SearchIds \cup {NoId} \cup {Positional(i) : i \in 1 .. MaxParts}, real : BOOLEAN]),
          images : BOOLEAN, uses : Seq(Ids \cup SearchIds \cup {NoId})]

PayloadTypeOK ==
    /\ mix \in Mixes /\ api \in {"claude", "openai"} /\ primed \in BOOLEAN
    /\ Elements(messages) \subseteq Turns /\ Elements(Merged(payload)) \subseteq Turns
    /\ payload.tools \subseteq {"client", "web_search", "declared"}
    /\ latest \in {"asking", "converted", "repaired", "cut", "ready", "final"}
    /\ Elements(asked) \subseteq SearchIds /\ IsSet(asked) /\ rounded \in 0 .. MoreRounds

\* "the repair pipeline is expected to leave zero violations": whatever the client sent, whatever
\* truncation severed, a repaired payload breaks none of the upstream's rules.
RepairLeavesNoViolation ==
    latest \in {"repaired", "ready"} => validateKiroConversation(Merged(payload)) = {}

\* Repairing again what was repaired changes nothing: the second repair only mends what truncation broke.
RepairIsStable ==
    latest \in {"repaired", "ready"} => repairKiroPayload(payload) = payload

\* The repair drops no call and no result of the client's: a call stays structured, a result stays
\* structured or is told in a user turn.  (A leading assistant turn is dropped before it.)
Sent == UNION {UseIds(messages[i]) : i \in {j \in DOMAIN messages : api = "openai" \/ \E k \in 1 .. j : messages[k].user}}
NothingIsLost ==
    latest = "repaired" /\ rounded = 0 =>
        LET turns == Elements(Merged(payload)) IN
        /\ Sent = UNION {UseIds(m) : m \in turns}
        /\ \A i \in DOMAIN messages : \A id \in ResultIds(messages[i]) :
              \E m \in turns : m.user /\ (id \in m.text \/ Result(id) \in Elements(m.results))

\* A results turn that answers exactly one turn's calls keeps them as structured results however many
\* turns the client put in between, and no placeholder takes their place.
WholePairsStay ==
    latest = "repaired" /\ rounded = 0 =>
        LET turns == IF api = "claude" THEN messages ELSE ToolRuns(messages) IN
        \A i, j \in DOMAIN turns :
            /\ i < j /\ turns[i].uses # <<>> /\ UseIds(turns[i]) \subseteq Sent
            /\ turns[j].results # <<>> /\ UseIds(turns[i]) = ResultIds(turns[j])
            /\ \A k \in DOMAIN turns \ {j} : ResultIds(turns[k]) \cap ResultIds(turns[j]) = {}
            => \E m \in Elements(Merged(payload)) :
                  m.user /\ {Result(id) : id \in UseIds(turns[i])} = Elements(m.results)

\* What a round searched for reaches the next one: the current message answers the last turn's calls
\* with the results themselves, whatever truncation dropped.
AnswersReachTheModel ==
    latest \in {"repaired", "ready"} /\ rounded > 0 =>
        /\ Last(payload.history).uses # <<>>
        /\ Elements(payload.current.results) = {Result(id) : id \in UseIds(Last(payload.history))}

\* A payload with tool calls or results declares some tool.
ToolsAreDeclared ==
    latest \in {"repaired", "ready"} /\ Traffic(Merged(payload)) => payload.tools # {}

PayloadIsWhole ==
    RepairIsStable /\ NothingIsLost /\ WholePairsStay /\ AnswersReachTheModel /\ ToolsAreDeclared

\* kiro_history_repair.go and the rounds after it: a repaired payload breaks no rule of the upstream,
\* repairing it again changes nothing, and no call, result or pair of the client's is lost by it.
PayloadIsSound == RepairLeavesNoViolation /\ PayloadIsWhole

\* kiro_history_repair.go of every payload: "A conversation that carries structured tool traffic MUST
\* also advertise a tool config, even when this particular turn does not want a tool called."
FinalRoundDeclaresTools ==
    latest = "final" /\ Traffic(Merged(payload)) => payload.tools # {}

\* translator.go of truncation: it preserves "the system priming pair (if present) at the front of history".
SystemPromptKept ==
    latest = "ready" /\ primed => "system" \in payload.history[1].text

================================================================================
