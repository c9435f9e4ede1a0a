---------------------------- MODULE AccountImport ----------------------------
(***************************************************************************)
(* How accounts come and go: the imports of proxy/handler.go and           *)
(* proxy/apikey_batch.go, the device and code logins of auth/, and the     *)
(* administration of the accounts, over AddAccount and UpdateAccount of    *)
(* config/config.go.  The provider rotates a refresh token when it is      *)
(* used: the token that was sent is dead from then on, so whoever receives *)
(* the next one must keep it.  A token is its grant and its version.       *)
(***************************************************************************)
EXTENDS Integers, FiniteSets

CONSTANTS
    Pasted,      \* grants whose token the operator has from the start (an export, the IDE's cache)
    Devices,     \* grants a device or code login obtains
    Keys,        \* API keys, which never rotate
    Ids,         \* identifiers of accounts
    Requests,    \* administrator requests in progress at once
    None,
    Mixes,       \* what happens in a behaviour: the ways in ("import", "local", "login", "keys"), "pin", a profile
                 \* is pinned, "fail", saves fail, "edit", accounts are edited
    MaxVersion   \* bound on the rotations of a grant

VARIABLES
    live,        \* per grant: the version the provider accepts
    accounts,    \* the accounts, by identifier
    held,        \* the tokens the operator has outside the program
    login,       \* per device grant: the state of its session
    mutex,       \* the request that holds credentialImportMu
    request,     \* per request: its path, its step, what it sends and what it obtained
    mix

vars == <<live, accounts, held, login, mutex, request, mix>>

Grants == Pasted \cup Devices \cup Keys
Token(g, v) == [grant |-> g, version |-> v]
NoToken == Token(None, 0)
NoAccount == [token |-> NoToken, print |-> NoToken, unverified |-> FALSE, edits |-> 0]
Nothing == [path |-> "none", at |-> "idle", sent |-> NoToken, got |-> NoToken, unverified |-> FALSE,
            id |-> None, copy |-> NoAccount]

Live(t) == t.grant # None /\ live[t.grant] = t.version
Existing == {i \in Ids : accounts[i] # NoAccount}

End(r)    == request' = [request EXCEPT ![r] = Nothing]
Go(r, at) == request' = [request EXCEPT ![r].at = at]
On(r, path, at) == request[r].path \in path /\ request[r].at = at
Release(r) == mutex' = IF mutex = r THEN None ELSE mutex

----------------------------------------------------------------------------
(* config/config.go                                                        *)

\* A mistake: only the fingerprint of the original credential is compared.
SameOrigin(t) == \E i \in Existing : accounts[i].print = t

\* AccountCredentialExists: the current token, and the one the account was made from.
AccountCredentialExists(t) == \E i \in Existing : accounts[i].token = t \/ accounts[i].print = t

\* A mistake: whoever adds an account has checked that it is new.
CheckedBefore(t, print) == FALSE

Duplicate(t, print) == \E i \in Existing : accounts[i].token = t \/ accounts[i].print = print

\* AddAccount: refused for a duplicate; undone when the save fails.
AddAccount(t, print, unverified) ==
    /\ ~Duplicate(t, print)
    /\ \E i \in Ids \ Existing :
          accounts' = [accounts EXCEPT ![i] = [token |-> t, print |-> print, unverified |-> unverified, edits |-> 0]]

AddRefused(t, print) ==
    /\ Duplicate(t, print) \/ Existing = Ids \/ "fail" \in mix
    /\ UNCHANGED accounts

\* A mistake: the copy an administrator read is written back with its credential.
WholeCopy(a, copy) == [copy EXCEPT !.edits = @ + 1]

\* UpdateAccount keeps the credential of the account as it is now.
EditedAccount(a, copy) == [copy EXCEPT !.edits = @ + 1, !.token = a.token, !.print = a.print, !.unverified = a.unverified]

----------------------------------------------------------------------------
(* The provider                                                            *)

\* A live token is answered with its successor; any other is refused.  An answer that is lost
\* after the rotation would strand any client, and is left out.
Rotated(t) == Token(t.grant, t.version + 1)
Exchange(t) == Live(t) /\ live[t.grant] < MaxVersion /\ live' = [live EXCEPT ![t.grant] = @ + 1]

----------------------------------------------------------------------------
(* Imports                                                                 *)

\* apiImportCredentials waits for the mutex; the scan of the local cache takes none.
ImportCredentials(r) ==
    /\ request[r].at = "idle" /\ "import" \in mix
    /\ \E t \in held \cup {Token(k, 0) : k \in Keys} :
          request' = [request EXCEPT ![r] = [Nothing EXCEPT !.path = "import", !.at = "lock", !.sent = t]]
    /\ UNCHANGED <<live, accounts, held, login, mutex>>

\* AccountAPIKeyExists: a key has no fingerprint of its own.
AccountAPIKeyExists(t) == \E i \in Existing : accounts[i].token = t

\* Under the mutex: what is already there is refused; a key needs no exchange.
LockAndCheck(r) ==
    LET t == request[r].sent IN
    /\ On(r, {"import"}, "lock") /\ mutex = None
    /\ \/ AccountCredentialExists(t) /\ End(r) /\ UNCHANGED mutex
       \/ t.grant \notin Keys /\ ~AccountCredentialExists(t) /\ Go(r, "exchange") /\ mutex' = r
       \/ /\ t.grant \in Keys /\ ~AccountAPIKeyExists(t) /\ mutex' = r
          /\ request' = [request EXCEPT ![r].at = "add", ![r].got = t]
    /\ UNCHANGED <<live, accounts, held, login>>

ImportLocalCache(r) ==
    /\ request[r].at = "idle" /\ "local" \in mix
    /\ \E t \in held : request' = [request EXCEPT ![r] = [Nothing EXCEPT !.path = "local", !.at = "exchange", !.sent = t]]
    /\ UNCHANGED <<live, accounts, held, login, mutex>>

\* importOAuthCredential: an exchange that fails may be replaced by the access token that came with it.
ExchangeImported(r) ==
    LET t == request[r].sent IN
    /\ On(r, {"import", "local"}, "exchange")
    /\ \/ /\ Exchange(t) /\ UNCHANGED mutex
          /\ request' = [request EXCEPT ![r].at = "verify", ![r].got = Rotated(t)]
       \/ /\ request' = [request EXCEPT ![r].at = "verify", ![r].got = t, ![r].unverified = TRUE]
          /\ UNCHANGED <<live, mutex>>
       \/ End(r) /\ Release(r) /\ UNCHANGED live
    /\ UNCHANGED <<accounts, held, login>>

\* A pinned profile must be one the provider offers for the new token.
VerifyProfile(r) ==
    /\ On(r, {"import", "local"}, "verify")
    /\ \/ Go(r, "add") /\ UNCHANGED mutex
       \/ "pin" \in mix /\ End(r) /\ Release(r)
    /\ UNCHANGED <<live, accounts, held, login>>

\* A mistake: the answer to a failed import carries the error alone.
ErrorAlone(r) == {}

\* What the operator is told when the account could not be kept: the rotated token, except on the
\* local-cache path, which reports the error's text.
Returned(r) == IF request[r].path = "import" /\ request[r].got # request[r].sent THEN {request[r].got} ELSE {}

AddImported(r) ==
    /\ On(r, {"import", "local"}, "add") /\ End(r) /\ Release(r)
    /\ \/ AddAccount(request[r].got, request[r].sent, request[r].unverified) /\ UNCHANGED held
       \/ AddRefused(request[r].got, request[r].sent) /\ held' = held \cup Returned(r)
    /\ UNCHANGED <<live, login>>

\* apiAddAccount stores what was pasted and asks no provider; it takes no mutex.
AddPasted ==
    /\ {"import", "keys"} \cap mix # {}
    /\ \E t \in held \cup {Token(k, 0) : k \in Keys} : AddAccount(t, t, TRUE) \/ AddRefused(t, t)
    /\ UNCHANGED <<live, held, login, mutex, request>>

\* ImportApiKeys compares with the accounts it read first, then adds one by one.
ImportApiKeys(r) ==
    /\ request[r].at = "idle" /\ "keys" \in mix
    /\ \E k \in Keys :
          /\ ~\E i \in Existing : accounts[i].token.grant = k
          /\ request' = [request EXCEPT ![r] = [Nothing EXCEPT !.path = "keys", !.at = "add", !.sent = Token(k, 0), !.got = Token(k, 0)]]
    /\ UNCHANGED <<live, accounts, held, login, mutex>>

AddKey(r) ==
    /\ On(r, {"keys"}, "add") /\ End(r)
    /\ \/ AddAccount(request[r].got, request[r].sent, FALSE)
       \/ AddRefused(request[r].got, request[r].sent)
    /\ UNCHANGED <<live, held, login, mutex>>

----------------------------------------------------------------------------
(* Device and code logins                                                  *)

\* Both list a session; sessions past their time are dropped behind it.
StartBuilderIdLogin(g) ==
    /\ "login" \in mix /\ login[g] = "none"
    /\ login' = [login EXCEPT ![g] = "builder"]
    /\ UNCHANGED <<live, accounts, held, mutex, request>>

StartIamSsoLogin(g) ==
    /\ "login" \in mix /\ login[g] = "none"
    /\ login' = [login EXCEPT ![g] = "iam"]
    /\ UNCHANGED <<live, accounts, held, mutex, request>>

LoginExpires(g) ==
    /\ login[g] \in {"builder", "iam"} /\ login' = [login EXCEPT ![g] = "gone"]
    /\ UNCHANGED <<live, accounts, held, mutex, request>>

\* The session is looked up under the lock and used after it.
FindSession(r, g) ==
    /\ request[r].at = "idle" /\ login[g] \in {"builder", "iam"}
    /\ request' = [request EXCEPT ![r] = [Nothing EXCEPT !.path = login[g], !.at = "exchange", !.sent = Token(g, 0)]]
    /\ UNCHANGED <<live, accounts, held, login, mutex>>

\* A code is good once, and ends the session whatever becomes of the account.
Obtain(r) ==
    LET t == request[r].sent IN
    /\ Exchange(t)
    /\ request' = [request EXCEPT ![r].at = "add", ![r].got = Rotated(t)]
    /\ login' = [login EXCEPT ![t.grant] = "gone"]

\* Pending, too early and an unreadable answer leave the session; a refusal ends it.
PollBuilderIdAuth(r) ==
    /\ On(r, {"builder"}, "exchange")
    /\ \/ Obtain(r)
       \/ End(r) /\ UNCHANGED <<live, login>>
       \/ End(r) /\ login' = [login EXCEPT ![request[r].sent.grant] = "gone"] /\ UNCHANGED live
    /\ UNCHANGED <<accounts, held, mutex>>

\* A wrong callback or a failed exchange leaves the session.
CompleteIamSsoLogin(r) ==
    /\ On(r, {"iam"}, "exchange")
    /\ \/ Obtain(r)
       \/ End(r) /\ UNCHANGED <<live, login>>
    /\ UNCHANGED <<accounts, held, mutex>>

\* A login whose account cannot be kept is lost: the operator signs in again.
AddLogin(r) ==
    /\ On(r, {"builder", "iam", "sso"}, "add") /\ End(r)
    /\ \/ AddAccount(request[r].got, request[r].got, FALSE)
       \/ AddRefused(request[r].got, request[r].got)
    /\ UNCHANGED <<live, held, login, mutex>>

\* The first token of a device grant, which pollForToken waits for.
PolledToken(g) == Token(g, 1)

\* ImportFromSsoToken does every step of a device login itself.
ImportSsoToken(r) ==
    /\ request[r].at = "idle" /\ "login" \in mix
    /\ \E g \in Devices :
          /\ login[g] = "none" /\ Exchange(Token(g, 0))
          /\ login' = [login EXCEPT ![g] = "gone"]
          /\ request' = [request EXCEPT ![r] = [Nothing EXCEPT !.path = "sso", !.at = "add",
                                                !.sent = Token(g, 0), !.got = PolledToken(g)]]
    /\ UNCHANGED <<accounts, held, mutex>>

----------------------------------------------------------------------------
(* The accounts afterwards                                                 *)

\* apiRefreshAccount and every other refresh (CredentialRefresh): the successor is stored, the
\* fingerprint stays.
RefreshAccount(i) ==
    /\ i \in Existing /\ accounts[i].token.grant \notin Keys
    /\ Exchange(accounts[i].token)
    /\ accounts' = [accounts EXCEPT ![i].token = Rotated(@)]
    /\ UNCHANGED <<held, login, mutex, request>>

\* An export hands the operator the token as it is now.
ExportAccounts(i) ==
    /\ i \in Existing /\ accounts[i].token \notin held /\ accounts[i].token.grant \notin Keys
    /\ held' = held \cup {accounts[i].token}
    /\ UNCHANGED <<live, accounts, login, mutex, request>>

\* apiUpdateAccount and apiBatchAccounts: an edit starts from a copy ...
ReadAccount(r, i) ==
    /\ "edit" \in mix /\ request[r].at = "idle" /\ i \in Existing /\ accounts[i].edits = 0
    /\ request' = [request EXCEPT ![r] = [Nothing EXCEPT !.path = "edit", !.at = "write", !.id = i, !.copy = accounts[i]]]
    /\ UNCHANGED <<live, accounts, held, login, mutex>>

\* ... and writes the whole of it back, to the account that has the identifier now.
WriteAccount(r) ==
    LET i == request[r].id IN
    /\ On(r, {"edit"}, "write") /\ End(r)
    /\ IF i \in Existing
       THEN \/ accounts' = [accounts EXCEPT ![i] = EditedAccount(@, request[r].copy)]
            \/ "fail" \in mix /\ UNCHANGED accounts
       ELSE UNCHANGED accounts
    /\ UNCHANGED <<live, held, login, mutex>>

\* Identifiers are random: one that was deleted does not come back.  The operator deletes an account
\* whose current token he has exported.
DeleteAccount(i) ==
    /\ "edit" \in mix /\ i \in Existing /\ ~\E r \in Requests : request[r].id = i
    /\ accounts[i].token.grant \in Keys \/ accounts[i].token \in held
    /\ accounts' = [accounts EXCEPT ![i] = NoAccount]
    /\ UNCHANGED <<live, held, login, mutex, request>>

----------------------------------------------------------------------------
Init ==
    /\ live = [g \in Grants |-> 0]
    /\ accounts = [i \in Ids |-> NoAccount]
    /\ held = {Token(g, 0) : g \in Pasted}
    /\ login = [g \in Devices |-> "none"]
    /\ mutex = None
    /\ request = [r \in Requests |-> Nothing]
    /\ mix \in Mixes

Step ==
    \/ \E r \in Requests :
          \/ ImportCredentials(r) \/ LockAndCheck(r) \/ ImportLocalCache(r) \/ ExchangeImported(r)
          \/ VerifyProfile(r) \/ AddImported(r) \/ ImportApiKeys(r) \/ AddKey(r)
          \/ PollBuilderIdAuth(r) \/ CompleteIamSsoLogin(r) \/ AddLogin(r) \/ ImportSsoToken(r) \/ WriteAccount(r)
          \/ \E g \in Devices : FindSession(r, g)
          \/ \E i \in Ids : ReadAccount(r, i)
    \/ AddPasted
    \/ \E g \in Devices : StartBuilderIdLogin(g) \/ StartIamSsoLogin(g) \/ LoginExpires(g)
    \/ \E i \in Ids : RefreshAccount(i) \/ ExportAccounts(i) \/ DeleteAccount(i)

Next == Step /\ UNCHANGED mix
Spec == Init /\ [][Next]_vars

----------------------------------------------------------------------------
Tokens == [grant : Grants \cup {None}, version : 0..MaxVersion]
AccountType == [token : Tokens, print : Tokens, unverified : BOOLEAN, edits : Nat]

TypeOK ==
    /\ live \in [Grants -> 0..MaxVersion]
    /\ accounts \in [Ids -> AccountType] /\ held \subseteq Tokens
    /\ login \in [Devices -> {"none", "builder", "iam", "gone"}] /\ mutex \in Requests \cup {None}
    /\ request \in [Requests -> [path : {"none", "import", "local", "keys", "builder", "iam", "sso", "edit"},
                                 at : {"idle", "lock", "exchange", "verify", "add", "write"},
                                 sent : Tokens, got : Tokens, unverified : BOOLEAN,
                                 id : Ids \cup {None}, copy : AccountType]]

\* The token a provider would accept for a pasted credential is always somewhere: with the
\* operator, in an account, or in a request that is still at work.  No import strands a credential.
CredentialNotStranded == \A g \in Pasted :
    \/ Token(g, live[g]) \in held
    \/ \E i \in Existing : accounts[i].token = Token(g, live[g])
    \/ \E r \in Requests : request[r].got = Token(g, live[g])

\* An account whose token an exchange has confirmed keeps a live one: neither an import, nor an edit
\* from an old copy, nor a second login takes it away.
AccountsStayAlive == \A i \in Existing : accounts[i].unverified \/ Live(accounts[i].token)

\* No import strands a credential and no edit or import kills an account's.  An import of the local
\* cache does both, and one with a pinned profile strands what it exchanged when verification fails.
CredentialsSurvive ==
    /\ "local" \in mix \/ AccountsStayAlive
    /\ {"local", "pin"} \cap mix # {} \/ CredentialNotStranded

\* No credential serves two accounts.
OneAccountPerToken == \A i, j \in Existing : i # j => accounts[i].token # accounts[j].token
=============================================================================
