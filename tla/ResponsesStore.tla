----------------------------- MODULE ResponsesStore -----------------------------
(***************************************************************************)
(* Stored responses and the conversations they are continued into:         *)
(* proxy/responses_store.go, responses_history.go and the first half of    *)
(* handleOpenAIResponses.                                                  *)
(*                                                                         *)
(* A response is one file, written once and removed when it has expired.   *)
(* It names the response it continues and the principal that owns it: the  *)
(* identifier of an API key, or one anonymous owner while no key is asked  *)
(* for.  Whether a key is asked for is read twice, when the request is     *)
(* authenticated and again once its body is read.                          *)
(***************************************************************************)
EXTENDS Integers, Sequences

CONSTANTS
  Requests, Keys,
  None,      \* no key, no response, the empty owner of a legacy file
  MaxIds,    \* bound: responses stored
  MaxDepth,  \* maxResponsesHistoryDepth
  MaxKills,  \* bound: restarts
  Mixes      \* what goes on beside the requests: each behaviour has one of these sets

VARIABLES
  auth,     \* config: RequireApiKey
  doc,      \* the directory of responses
  ids,      \* identifiers given out
  purging,  \* purgeExpiredResponses is running, as it does after a start
  req,      \* the locals of each request
  told,     \* responses the client was told of as complete and stored
  kills,    \* restarts so far
  mix

vars == <<auth, doc, ids, purging, req, told, kills, mix>>

Ids    == 1 .. MaxIds
Owners == Keys \cup {"anonymous", None}
Absent == [there |-> FALSE, owner |-> None, prev |-> None, expired |-> FALSE]
Idle   == [step |-> "idle", key |-> None, owner |-> None, asked |-> FALSE, prev |-> None,
           chain |-> << >>, id |-> None]
Steps  == {"idle", "read", "walk", "call", "save", "tell"}

At(r, step) == req[r].step = step
End(r)      == req' = [req EXCEPT ![r] = Idle]

\* A file of an earlier version may be there, without an owner.
Init ==
    /\ auth \in BOOLEAN /\ mix \in Mixes
    /\ \E legacy \in BOOLEAN :
         /\ doc = [i \in Ids |-> IF legacy /\ i = 1 THEN [Absent EXCEPT !.there = TRUE] ELSE Absent]
         /\ ids = IF legacy THEN 1 ELSE 0
    /\ purging = TRUE /\ req = [r \in Requests |-> Idle] /\ told = {} /\ kills = 0

-----------------------------------------------------------------------------
(* Who asks                                                                *)

\* authenticate: the identifier of the key, or none when no key is asked for and for the
\* single key of an older configuration.
Authenticate(r) ==
    /\ At(r, "idle")
    /\ \E k \in Keys \cup {None} :
         /\ auth => (k # None \/ "legacy" \in mix)
         /\ ~auth => k = None
         /\ req' = [req EXCEPT ![r].step = "read", ![r].key = k]
    /\ UNCHANGED <<auth, doc, ids, purging, told, kills, mix>>

\* responsesOwnerPrincipal
Principal(asked, key) == IF asked /\ key # None THEN key ELSE "anonymous"

-----------------------------------------------------------------------------
(* Loading                                                                 *)

\* Mutant of Authorized: whoever knows the identifier may continue the response.
AnyOwner(owner, r, asked) == owner # None \/ ~asked

\* ownerAuthorized
Authorized(owner, r, asked) == IF owner = None THEN ~asked ELSE owner = r

\* loadResponseForOwner, for owner r: what is found, and the file removed if it has expired
Found(i, r, asked) ==
    i \in Ids /\ doc[i].there /\ ~doc[i].expired /\ Authorized(doc[i].owner, r, asked)
Pruned(i) == IF i \in Ids /\ doc[i].there /\ doc[i].expired
             THEN doc' = [doc EXCEPT ![i].there = FALSE] ELSE UNCHANGED doc

\* The body is read, the principal is derived, and the response to continue is loaded.
Begin(r, prev) ==
    LET asked == auth owner == Principal(auth, req[r].key) IN
    /\ At(r, "read") /\ Pruned(prev)
    /\ IF prev = None \/ Found(prev, owner, asked)
       THEN req' = [req EXCEPT ![r] = [@ EXCEPT !.owner = owner, !.asked = asked, !.prev = prev,
              !.step = IF prev = None THEN "call" ELSE "walk",
              !.chain = IF prev = None THEN << >> ELSE <<prev>>]]
       ELSE End(r)
    /\ UNCHANGED <<auth, ids, purging, told, kills, mix>>

Older(r) == doc[Head(req[r].chain)].prev

\* collectAncestorChain, one ancestor a step.
Walk(r) ==
    LET i == Older(r) IN
    /\ At(r, "walk")
    /\ IF /\ Len(req[r].chain) <= MaxDepth
          /\ i # None /\ \A n \in DOMAIN req[r].chain : req[r].chain[n] # i
       THEN /\ Pruned(i)
            /\ req' = IF Found(i, req[r].owner, req[r].asked)
                      THEN [req EXCEPT ![r].chain = <<i>> \o @]
                      ELSE [req EXCEPT ![r].step = "call"]
       ELSE req' = [req EXCEPT ![r].step = "call"] /\ UNCHANGED doc
    /\ UNCHANGED <<auth, ids, purging, told, kills, mix>>

-----------------------------------------------------------------------------
(* Answering and storing                                                   *)

\* The upstream call: an answer that is to be stored or not, or none.
Answer(r) ==
    /\ At(r, "call")
    /\ \/ ids < MaxIds /\ ids' = ids + 1
          /\ req' = [req EXCEPT ![r].step = "save", ![r].id = ids']
       \/ End(r) /\ UNCHANGED ids
    /\ UNCHANGED <<auth, doc, purging, told, kills, mix>>

Document(r) == [there |-> TRUE, owner |-> req[r].owner, prev |-> req[r].prev, expired |-> FALSE]

\* Mutant of Save: the client is told first.
TellFirst(r) ==
    /\ At(r, "save")
    /\ told' = told \cup {req[r].id}
    /\ req' = [req EXCEPT ![r].step = "tell"]
    /\ UNCHANGED <<auth, doc, ids, purging, kills, mix>>

\* saveResponse; a failure is logged and the answer goes out all the same.
Save(r) ==
    /\ At(r, "save")
    /\ \/ doc' = [doc EXCEPT ![req[r].id] = Document(r)] /\ req' = [req EXCEPT ![r].step = "tell"]
       \/ "fail" \in mix /\ End(r) /\ UNCHANGED doc
    /\ UNCHANGED <<auth, ids, purging, told, kills, mix>>

Tell(r) ==
    /\ At(r, "tell") /\ End(r)
    /\ told' = told \cup {req[r].id}
    /\ UNCHANGED <<auth, doc, ids, purging, kills, mix>>

-----------------------------------------------------------------------------
(* Time, the administrator, restarts                                       *)

\* The thirty days of a response are over, those of the one it continues were before.
Expire(i) ==
    /\ "expire" \in mix /\ doc[i].there /\ ~doc[i].expired
    /\ doc[i].prev # None => doc[doc[i].prev].expired \/ ~doc[doc[i].prev].there
    /\ doc' = [doc EXCEPT ![i].expired = TRUE]
    /\ UNCHANGED <<auth, ids, purging, req, told, kills, mix>>

\* Mutant of Old: every file is old.
AnyAge(i) == doc[i].there
Old(i)    == doc[i].there /\ doc[i].expired

\* purgeExpiredResponses, one file a step
Purge(i) ==
    /\ purging /\ Old(i)
    /\ doc' = [doc EXCEPT ![i].there = FALSE]
    /\ UNCHANGED <<auth, ids, purging, req, told, kills, mix>>
EndPurge ==
    /\ purging /\ purging' = FALSE
    /\ UNCHANGED <<auth, doc, ids, req, told, kills, mix>>

Toggle ==
    /\ "toggle" \in mix /\ auth' = ~auth
    /\ UNCHANGED <<doc, ids, purging, req, told, kills, mix>>

Restart ==
    /\ kills < MaxKills /\ kills' = kills + 1
    /\ req' = [r \in Requests |-> Idle] /\ purging' = TRUE
    /\ UNCHANGED <<auth, doc, ids, told, mix>>

Next ==
    \/ \E r \in Requests : \/ Authenticate(r) \/ Walk(r) \/ Answer(r) \/ Save(r) \/ Tell(r)
                           \/ \E prev \in Ids \cup {None} : Begin(r, prev)
    \/ \E i \in Ids : Expire(i) \/ Purge(i)
    \/ EndPurge \/ Toggle \/ Restart
Spec == Init /\ [][Next]_vars

-----------------------------------------------------------------------------
TypeOK ==
    /\ auth \in BOOLEAN /\ purging \in BOOLEAN /\ ids \in 0 .. MaxIds /\ told \subseteq Ids
    /\ doc \in [Ids -> [there : BOOLEAN, owner : Owners, prev : Ids \cup {None}, expired : BOOLEAN]]
    /\ \A r \in Requests : req[r].step \in Steps /\ req[r].chain \in Seq(Ids)

\* A conversation has one owner all along, whatever is switched while it is held: a response
\* continues only responses of its own principal, and a file without an owner is continued by
\* the anonymous one only.
OneOwnerPerConversation ==
    \A i \in Ids : doc[i].owner # None /\ doc[i].prev # None =>
        LET before == doc[doc[i].prev].owner IN
        before = doc[i].owner \/ (before = None /\ doc[i].owner = "anonymous")

\* The history sent upstream is an unbroken run of turns, the oldest first, that ends at the
\* response continued: files that expire or are purged during the walk shorten it from the old
\* end and leave no gap.
HistoryIsUnbroken ==
    \A r \in Requests : LET c == req[r].chain IN
        /\ Len(c) <= MaxDepth + 1
        /\ c # << >> => c[Len(c)] = req[r].prev
        /\ \A n \in 1 .. Len(c) - 1 : c[n] = doc[c[n + 1]].prev

\* What a client was told is stored can be continued until it expires, through restarts and
\* the purge that follows each.
ToldIsKept == \A i \in told : doc[i].owner # None /\ (doc[i].there \/ doc[i].expired)

ConversationsHold == OneOwnerPerConversation /\ HistoryIsUnbroken /\ ToldIsKept

\* "Falls back to anonymous if auth is enabled but no key ID is present (should not happen once
\* authenticate() has run)".
FallbackNeverTaken == \A r \in Requests : req[r].step # "idle" /\ req[r].asked => req[r].key # None
=============================================================================
