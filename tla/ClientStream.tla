------------------------------ MODULE ClientStream ------------------------------
(***************************************************************************)
(* What one chat request promises its client, however many accounts,       *)
(* endpoints and retries it takes: the answer comes from one upstream      *)
(* stream, and it ends once.                                               *)
(***************************************************************************)
CONSTANT Calls  \* the upstream streams a request may open

VARIABLES
  shown,  \* the streams the client has content of
  ended   \* "no", or how the response ended

Init == shown = {} /\ ended = "no"

\* More of the stream whose content the client already has, or of any stream
\* when it has none.
FromOneStream ==
  /\ shown \subseteq shown'
  /\ \E c \in shown' : c \in Calls /\ shown' = {c}
Deliver == ended = "no" /\ FromOneStream /\ UNCHANGED ended

\* The rest of that stream, and the regular end of the response.
Complete == ended = "no" /\ FromOneStream /\ ended' = "complete"

\* An error, in place of an answer or in the middle of one.
Fail == ended = "no" /\ ended' = "failed" /\ UNCHANGED shown

\* No account to try: an error, and never in the middle of an answer.
Refuse == ended = "no" /\ shown = {} /\ ended' = "unavailable" /\ UNCHANGED shown

\* The client is gone; nobody is told anything.
Abandon == ended = "no" /\ ended' = "abandoned" /\ UNCHANGED shown

Next == Deliver \/ Complete \/ Fail \/ Refuse \/ Abandon

Spec == Init /\ [][Next]_<<shown, ended>>
==============================================================================
