----------------------------- MODULE ConsoleLogins -----------------------------
(***************************************************************************)
(* The ways an account comes in: the pasted Microsoft login, the hosted    *)
(* login and the imports.  Of the accounts each has those it adds, so that *)
(* they share no state.                                                    *)
(***************************************************************************)
EXTENDS Integers, OnePart

CONSTANTS
    Nobody,  \* no login, no request
    Logins, Callers, MaxSessions, MaxSelections, MaxTombstones,
    Consoles, Browsers, Ports, Failures,
    Pasted, Devices, Keys, AccountIds, MaxVersion, ImportMixes

VARIABLES
    session, selection, tombstones, discovery, added, told, request,
    hosted, console, browser, registered, lost, pairs,
    live, accounts, held, login, mutex, import, importMix

Microsoft == INSTANCE MicrosoftLogin WITH None <- Nobody, Requests <- Callers

Hosted == INSTANCE KiroLogin WITH None <- Nobody, session <- hosted, accounts <- registered

Import == INSTANCE AccountImport WITH
    None <- Nobody, Requests <- Callers, Ids <- AccountIds, request <- import, mix <- importMix, Mixes <- ImportMixes

NoMicrosoft == /\ session = Unused /\ selection = Unused /\ tombstones = Unused /\ discovery = Unused
               /\ added = Unused /\ told = Unused /\ request = Unused
NoHosted    == /\ hosted = Unused /\ console = Unused /\ browser = Unused /\ registered = Unused
               /\ lost = Unused /\ pairs = Unused
NoImport    == /\ live = Unused /\ accounts = Unused /\ held = Unused /\ login = Unused /\ mutex = Unused
               /\ import = Unused /\ importMix = Unused

microsoftVars == <<session, selection, tombstones, discovery, added, told, request>>
hostedVars    == <<hosted, console, browser, registered, lost, pairs>>
importVars    == <<live, accounts, held, login, mutex, import, importMix>>
logins        == <<microsoftVars, hostedVars, importVars>>

LoginsInit ==
    /\ IF On("microsoft") THEN Microsoft!Init ELSE NoMicrosoft
    /\ IF On("hosted") THEN Hosted!Init ELSE NoHosted
    /\ IF On("import") THEN Import!Init ELSE NoImport

LoginsNext ==
    /\ UNCHANGED part
    /\ IF On("microsoft") THEN Microsoft!Next ELSE UNCHANGED microsoftVars
    /\ IF On("hosted") THEN Hosted!Next ELSE UNCHANGED hostedVars
    /\ IF On("import") THEN Import!Next ELSE UNCHANGED importVars

LoginsSpec == LoginsInit /\ [][LoginsNext]_<<part, logins>>

----------------------------------------------------------------------------
(* Properties                                                              *)

\* The variables of the login that is taken keep their types.
LoginsTypeOK ==
    /\ On("microsoft") => Microsoft!TypeOK
    /\ On("hosted") => Hosted!TypeOK
    /\ On("import") => Import!TypeOK

\* The ways in: neither two requests that finish one Microsoft login, nor two tabs of the hosted one,
\* nor two imports of one token make two of it.
OneAccountEach ==
    /\ On("microsoft") => Microsoft!OneAccountPerLogin
    /\ On("hosted") => Hosted!TabsShareThePair
    /\ On("import") => Import!OneAccountPerToken

\* A canceled login adds no account and holds no credential, and the hosted login gives its loopback
\* ports back, whatever request was in between.
LoginsCleanUp ==
    /\ []( /\ On("microsoft") => Microsoft!CanceledHoldsNoCredential
          /\ On("hosted") => Hosted!PortsAccounted)
    /\ [][On("microsoft") => Microsoft!CanceledAddsNothing]_<<part, logins>>

\* AccountImport: no import strands a credential and no edit or import kills an account's.  (One of the
\* local cache and one with a pinned profile may, and are excepted.)
CredentialsSurvive == On("import") => Import!CredentialsSurvive
===============================================================================
