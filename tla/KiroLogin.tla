------------------------------ MODULE KiroLogin ------------------------------
(***************************************************************************)
(* The hosted SSO login of auth/kiro_sso.go and its administration in      *)
(* proxy/handler.go.  A login listens on one of a few loopback ports; the  *)
(* browsers that reach it get the address of the identity provider and     *)
(* return with a code, which is exchanged for tokens; the console polls    *)
(* for the outcome through a channel of one place.                         *)
(***************************************************************************)
EXTENDS Integers, FiniteSets

CONSTANTS
    Logins,      \* the logins a behaviour may start
    Consoles,    \* console requests in progress at once
    Browsers,    \* browser tabs that reach a loopback server
    None,
    Ports,       \* how many loopback ports the portal accepts
    Failures     \* whether a lookup, an exchange or a bind may fail

VARIABLES
    session,     \* per login: listed, its server, the port held, expired, the pair of the
                 \* authorize URL it cached, what its channel holds
    console,     \* per console request: its step, its login, the sessions it still has to shut down
    browser,     \* per tab: its step, its login, the pair it was redirected with
    accounts,    \* the accounts added, with the fields a refresh needs
    lost,        \* logins whose tokens were obtained and found the channel occupied
    pairs        \* PKCE pairs made so far

vars == <<session, console, browser, accounts, lost, pairs>>

NoPair == 0
Unstarted  == [started |-> FALSE, listed |-> FALSE, server |-> "none", port |-> FALSE, expired |-> FALSE,
               url |-> NoPair, channel |-> "empty"]
Idle       == [at |-> "idle", login |-> None, shut |-> {}]
Blank      == [at |-> "idle", login |-> None, pair |-> NoPair]

Listed     == {s \in Logins : session[s].listed}
PortsHeld  == Cardinality({s \in Logins : session[s].port})

\* shutdownLoopbackServer does nothing for a session whose server is not there yet.
Shut(x)    == IF x.server = "up" THEN [x EXCEPT !.server = "closed", !.port = FALSE] ELSE x

\* A mistake: the session leaves the map and its server goes on.
Unlisted(x) == [x EXCEPT !.listed = FALSE]
Dropped(x)  == [Shut(x) EXCEPT !.listed = FALSE]

----------------------------------------------------------------------------
(* StartKiroSsoLogin                                                       *)

\* cancelAllPendingKiroSsoSessions: every session leaves the map under the lock ...
CancelAllPending(c, s) ==
    /\ console[c].at = "idle" /\ ~session[s].started
    /\ session' = [t \in Logins |-> [session[t] EXCEPT !.listed = FALSE, !.started = @ \/ t = s]]
    /\ console' = [console EXCEPT ![c] = [at |-> "shutall", login |-> s, shut |-> Listed]]
    /\ UNCHANGED <<browser, accounts, lost, pairs>>

\* ... and their servers are closed after it is released.
ShutAll(c) ==
    /\ console[c].at = "shutall"
    /\ session' = [t \in Logins |-> IF t \in console[c].shut THEN Shut(session[t]) ELSE session[t]]
    /\ console' = [console EXCEPT ![c].at = "bind", ![c].shut = {}]
    /\ UNCHANGED <<browser, accounts, lost, pairs>>

bindKiroLoopback(c) ==
    /\ console[c].at = "bind"
    /\ \/ /\ PortsHeld < Ports
          /\ session' = [session EXCEPT ![console[c].login].port = TRUE]
          /\ console' = [console EXCEPT ![c].at = "list"]
       \/ /\ PortsHeld >= Ports \/ Failures
          /\ console' = [console EXCEPT ![c] = Idle] /\ UNCHANGED session
    /\ UNCHANGED <<browser, accounts, lost, pairs>>

ListSession(c) ==
    /\ console[c].at = "list"
    /\ session' = [session EXCEPT ![console[c].login].listed = TRUE]
    /\ console' = [console EXCEPT ![c].at = "serve"]
    /\ UNCHANGED <<browser, accounts, lost, pairs>>

\* The server starts, and the cleanup of expired sessions with it.
serveLoopback(c) ==
    /\ console[c].at = "serve"
    /\ session' = [t \in Logins |->
          IF t = console[c].login THEN [session[t] EXCEPT !.server = "up"]
          ELSE IF session[t].listed /\ session[t].expired THEN Dropped(session[t]) ELSE session[t]]
    /\ console' = [console EXCEPT ![c] = Idle]
    /\ UNCHANGED <<browser, accounts, lost, pairs>>

SessionExpires(s) ==
    /\ session[s].listed /\ ~session[s].expired
    /\ session' = [session EXCEPT ![s].expired = TRUE]
    /\ UNCHANGED <<console, browser, accounts, lost, pairs>>

----------------------------------------------------------------------------
(* The loopback server                                                     *)

\* pushError and the result of the exchange: dropped when the place is taken.
Pushed(x, what) == [x EXCEPT !.channel = IF @ = "empty" THEN what ELSE @]

\* The descriptor of the portal reaches the server; a state that does not match is an error.
DescriptorArrives(b, s) ==
    /\ browser[b].at = "idle" /\ session[s].server = "up"
    /\ \/ /\ browser' = [browser EXCEPT ![b] = [Blank EXCEPT !.login = s, !.at = "resolve"]] /\ UNCHANGED session
       \/ /\ Failures
          /\ session' = [session EXCEPT ![s] = Pushed(@, "error")] /\ UNCHANGED browser
    /\ UNCHANGED <<console, accounts, lost, pairs>>

\* The URL that was cached is returned; without one the endpoints are discovered, unlocked.
ResolveCached(b) ==
    /\ browser[b].at = "resolve"
    /\ browser' = [browser EXCEPT ![b] =
          LET url == session[@.login].url
          IN [@ EXCEPT !.at = IF url # NoPair THEN "redirected" ELSE "discover", !.pair = url]]
    /\ UNCHANGED <<session, console, accounts, lost, pairs>>

\* A discovery that fails reports its error and keeps nothing, so that a later hit may try again.
DiscoverEndpoints(b) ==
    /\ browser[b].at = "discover"
    /\ \/ /\ browser' = [browser EXCEPT ![b].at = "cache", ![b].pair = pairs + 1]
          /\ pairs' = pairs + 1 /\ UNCHANGED session
       \/ /\ Failures
          /\ session' = [session EXCEPT ![browser[b].login] = Pushed(@, "error")]
          /\ browser' = [browser EXCEPT ![b] = Blank] /\ UNCHANGED pairs
    /\ UNCHANGED <<console, accounts, lost>>

\* A mistake: the URL is stored without looking whether another tab stored one first.
StoreAlways(url, pair) == pair

\* Checked again under the lock: the first URL stored is everyone's.
StoreOnce(url, pair) == IF url # NoPair THEN url ELSE pair

CacheAuthorizeURL(b) ==
    /\ browser[b].at = "cache"
    /\ LET s == browser[b].login
           url == StoreOnce(session[s].url, browser[b].pair)
       IN /\ session' = [session EXCEPT ![s].url = url]
          /\ browser' = [browser EXCEPT ![b].at = "redirected", ![b].pair =
                IF session[s].url # NoPair THEN session[s].url ELSE @]
    /\ UNCHANGED <<console, accounts, lost, pairs>>

\* The provider returns with a code.  A state that is not the session's is answered 204;
\* an error it reports goes to the channel; the user may also never return.
OAuthCallback(b) ==
    LET s == browser[b].login IN
    /\ browser[b].at = "redirected"
    /\ \/ browser' = [browser EXCEPT ![b] = Blank] /\ UNCHANGED session
       \/ /\ session[s].server = "up" /\ Failures
          /\ session' = [session EXCEPT ![s] = Pushed(@, "error")]
          /\ browser' = [browser EXCEPT ![b] = Blank]
       \/ /\ session[s].server = "up" /\ browser[b].pair = session[s].url
          /\ browser' = [browser EXCEPT ![b].at = "exchange"] /\ UNCHANGED session
    /\ UNCHANGED <<console, accounts, lost, pairs>>

\* Tokens for the code: pushed if the channel has room, and the server stops a little later.
ExchangeCode(b) ==
    LET s == browser[b].login IN
    /\ browser[b].at = "exchange"
    /\ \/ /\ session' = [session EXCEPT ![s] = Pushed(@, "tokens")]
          /\ lost' = IF session[s].channel = "error" THEN lost \cup {s} ELSE lost
          /\ browser' = [browser EXCEPT ![b].at = "done"]
       \/ /\ Failures
          /\ session' = [session EXCEPT ![s] = Pushed(@, "error")]
          /\ browser' = [browser EXCEPT ![b] = Blank] /\ UNCHANGED lost
    /\ UNCHANGED <<console, accounts, pairs>>

StopServer(b) ==
    /\ browser[b].at = "done"
    /\ session' = [session EXCEPT ![browser[b].login] = Shut(@)]
    /\ browser' = [browser EXCEPT ![b] = Blank]
    /\ UNCHANGED <<console, accounts, lost, pairs>>

----------------------------------------------------------------------------
(* Poll, cancel                                                            *)

\* The session is looked up under the lock and used after it.
PollLookup(c, s) ==
    /\ console[c].at = "idle" /\ session[s].listed
    /\ \A d \in Consoles : ~(console[d].login = s /\ console[d].at = "serve")
    /\ IF session[s].expired
       THEN session' = [session EXCEPT ![s] = Dropped(@)] /\ UNCHANGED console
       ELSE console' = [console EXCEPT ![c] = [Idle EXCEPT !.login = s, !.at = "receive"]] /\ UNCHANGED session
    /\ UNCHANGED <<browser, accounts, lost, pairs>>

\* What the flow yields: the client and the endpoint go to the fields of the hosted login,
\* and PollKiroSsoLogin leaves the endpoint behind.
AccountOf(s) == [login |-> s, authMethod |-> "external_idp", clientId |-> FALSE, tokenEndpoint |-> FALSE,
                 idpClientId |-> TRUE, idpTokenEndpoint |-> FALSE]

Received(x) == [Dropped(x) EXCEPT !.channel = "empty"]

PollKiroSsoLogin(c) ==
    LET s == console[c].login IN
    /\ console[c].at = "receive"
    /\ console' = [console EXCEPT ![c] = Idle]
    /\ session' = [session EXCEPT ![s] = IF @.channel = "empty" THEN @ ELSE Received(@)]
    /\ \/ session[s].channel = "tokens" /\ accounts' = accounts \cup {AccountOf(s)}
       \/ session[s].channel # "tokens" /\ UNCHANGED accounts
    /\ UNCHANGED <<browser, lost, pairs>>

CancelKiroSsoLogin(c, s) ==
    /\ console[c].at = "idle" /\ session[s].listed
    /\ \A d \in Consoles : ~(console[d].login = s /\ console[d].at = "serve")
    /\ session' = [session EXCEPT ![s] = Dropped(@)]
    /\ UNCHANGED <<console, browser, accounts, lost, pairs>>

\* auth.RefreshToken: external_idp takes its first branch, which wants the fields of the pasted login.
RefreshBranch(a) == IF a.authMethod = "external_idp" THEN "refreshExternalIdpToken" ELSE "other"
CanRefresh(a)    == RefreshBranch(a) = "refreshExternalIdpToken" => a.clientId /\ a.tokenEndpoint

----------------------------------------------------------------------------
Init ==
    /\ session = [s \in Logins |-> Unstarted]
    /\ console = [c \in Consoles |-> Idle]
    /\ browser = [b \in Browsers |-> Blank]
    /\ accounts = {} /\ lost = {} /\ pairs = 0

Next ==
    \/ \E c \in Consoles :
          \/ ShutAll(c) \/ bindKiroLoopback(c) \/ ListSession(c) \/ serveLoopback(c) \/ PollKiroSsoLogin(c)
          \/ \E s \in Logins : CancelAllPending(c, s) \/ PollLookup(c, s) \/ CancelKiroSsoLogin(c, s)
    \/ \E s \in Logins : SessionExpires(s)
    \/ \E b \in Browsers :
          \/ ResolveCached(b) \/ DiscoverEndpoints(b) \/ CacheAuthorizeURL(b)
          \/ OAuthCallback(b) \/ ExchangeCode(b) \/ StopServer(b)
          \/ \E s \in Logins : DescriptorArrives(b, s) /\ pairs < Cardinality(Browsers) + 1

Spec == Init /\ [][Next]_vars

----------------------------------------------------------------------------
TypeOK ==
    /\ session \in [Logins -> [started : BOOLEAN, listed : BOOLEAN, server : {"none", "up", "closed"},
                               port : BOOLEAN, expired : BOOLEAN, url : Nat,
                               channel : {"empty", "error", "tokens"}]]
    /\ console \in [Consoles -> [at : {"idle", "shutall", "bind", "list", "serve", "receive"},
                                 login : Logins \cup {None}, shut : SUBSET Logins]]
    /\ browser \in [Browsers -> [at : {"idle", "resolve", "discover", "cache", "redirected", "exchange", "done"},
                                 login : Logins \cup {None}, pair : Nat]]
    /\ lost \subseteq Logins /\ pairs \in Nat /\ PortsHeld <= Ports

\* Every tab that was sent to the provider carries the PKCE pair the session will exchange with,
\* however the first hits of a login overlap: whichever browser ends the login, its code is accepted.
TabsShareThePair == \A b \in Browsers :
    browser[b].at \in {"redirected", "exchange"} => browser[b].pair = session[browser[b].login].url

\* A port is held for a login the console can still reach, or by a start that is under way:
\* no abandoned login keeps one of the few ports.
PortsAccounted == \A s \in Logins : session[s].port =>
    \/ session[s].listed
    \/ \E c \in Consoles : (console[c].login = s /\ console[c].at = "list") \/ s \in console[c].shut

\* "hit sau sẽ thử lại": tokens obtained by a later hit are not refused for the error of an earlier one.
RetryIsServed == lost = {}

\* Every account a login added can have its access token refreshed.
AddedCanRefresh == \A a \in accounts : CanRefresh(a)
=============================================================================
