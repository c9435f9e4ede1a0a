-------------------------------- MODULE MCTurns --------------------------------
(***************************************************************************)
(* One turn of a conversation: the payload that is built and repaired for  *)
(* the upstream, the rounds of web searches in it, the search providers    *)
(* behind them, and the events the client is shown on each endpoint.       *)
(***************************************************************************)
EXTENDS TurnParts, HistoryRepair, TLC

VARIABLES style, log, render, phase, attempt

Style(format, thinking, omit, searching, stream, of) ==
    [api |-> of, stream |-> stream, format |-> format, thinking |-> thinking, omit |-> omit, search |-> searching]

\* Short holds, and pieces that end inside a tag.
Rendered == INSTANCE StreamRender WITH
    Styles <- {Style("thinking", TRUE, FALSE, FALSE, TRUE, "claude"), Style("think", TRUE, FALSE, FALSE, TRUE, "claude"),
               Style("thinking", TRUE, TRUE, TRUE, TRUE, "claude"), Style("thinking", TRUE, FALSE, TRUE, FALSE, "claude"),
               Style("reasoning", TRUE, FALSE, FALSE, TRUE, "openai"), Style("reasoning", FALSE, FALSE, FALSE, FALSE, "openai")},
    Pieces <- {<<s>> : s \in {"x", "<", ">", "[", "]"}} \cup {<<"x", "<">>, <<"<", ">">>, <<"x", "[">>},
    TextHold <- 2, TagHold <- 1, HoldBack <- 1, MaxSymbols <- 5, MaxAttempts <- 2

renderVars == <<style, log, render, phase, attempt>>
turn       == <<part, parts, renderVars, payloadVars>>

NoRender  == style = Unused /\ log = Unused /\ render = Unused /\ phase = Unused /\ attempt = Unused
NoPayload == /\ mix = Unused /\ api = Unused /\ messages = Unused /\ primed = Unused /\ latest = Unused
             /\ payload = Unused /\ asked = Unused /\ rounded = Unused

TurnsInit ==
    /\ part \in Parts /\ PartsInit
    /\ IF On("render") THEN Rendered!Init ELSE NoRender
    /\ IF On("payload") THEN PayloadInit ELSE NoPayload

TurnsNext ==
    /\ PartsNext
    /\ IF On("render") THEN Rendered!Next ELSE UNCHANGED renderVars
    /\ IF On("payload") THEN PayloadNext ELSE UNCHANGED payloadVars

\* The goroutines of a request run; whether the client leaves is its own affair.
TalkSteps ==
    /\ On("talk") /\ Talk!Step
    /\ UNCHANGED part /\ UNCHANGED <<loopVars, lookupVars, responsesVars>> /\ UNCHANGED <<renderVars, payloadVars>>

TurnsSpec == TurnsInit /\ [][TurnsNext]_turn /\ WF_turn(TalkSteps)

\* Each component's variables keep their types.
TurnsTypeOK == PartsTypeOK /\ (On("render") => Rendered!TypeOK) /\ (On("payload") => PayloadTypeOK)

\* kiro_history_repair.go: "A conversation that carries structured tool traffic MUST also advertise a tool
\* config, even when this particular turn does not want a tool called."  (The finalizing round does not.)
ToolTrafficHasConfig == On("payload") => FinalRoundDeclaresTools

\* Tags cut by the pieces they come in are read as if they came whole, blocks and items open and close
\* in order, a buffered answer says what a stream says, and a retry shows nothing twice.
EventsWhole ==
    /\ On("render") => Rendered!ShownAsWhole /\ Rendered!BlocksBracketed /\ Rendered!BufferedSaysTheSame
    /\ On("responses") => Responses!StreamIsWhole

\* kiro_conversation_runner.go: a conversation ends, whether its searches succeed, fail or are canceled
\* while others wait for a slot.
Terminates == <>(On("talk") => stage = "done")

----------------------------------------------------------------------------
(* The instance                                                            *)

AllParts == {"render", "talk", "loop", "lookup", "responses", "payload"}

\* A free provider, a paid one and the free one again; one credit a month.
InOrder == <<"searxng", "tavily", "searxng">>

\* What requests may hold.  With "blank", "reused" or "bare" the repair fails: see README.md.
PayloadMixes == {{"overlong"}, {"search"}, {"images"}, {"polluted"}}

\* The order with which Search!SpendBounded fails.
PaidFirst == <<"tavily", "searxng">>
================================================================================
