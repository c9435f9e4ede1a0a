# Kiro-Go in TLA+

Kiro-Go is one Go process that serves the Claude and OpenAI chat APIs from a
pool of Kiro accounts (OAuth or API key) and from forwarding channels. This
directory holds TLA+ models of the parts of it that keep state, TLC runs that
check them on small instances, and theorems about them checked by TLAPS.

Every module is translated from the Go source. `PROJECT.json` maps each
definition to the lines it stands for, lists the hazards the properties are
aimed at, and names, for every checked property, a plausible bug (a `...`
*mutant* operator next to the definition) that violates it.

## The system

| Component | State it keeps | Operations | What is hard | What makes it correct |
|---|---|---|---|---|
| Credential refresh (`proxy/token_manager.go`, forced refresh in `proxy/handler.go`) | in-flight calls and state per account, parked credentials | EnsureFresh, doRefresh, forced refresh, shutdown flush | single-use refresh tokens; publish, save and reload by different goroutines; failing saves; restart | one exchange at a time, no used-up token presented, newest credential never lost |
| Account pool (`pool/account.go`) | weighted list, round-robin index, cooldowns, error counts, model lists | Reload, GetNext..., Record..., DisableAccount, PublishProfileSwitch, UpdateStats | selections share an atomic index under a read lock; list replaced under the selection | an eligible account is returned when there is one; no torn or ineligible account |
| Configuration store (`config/config.go`) | the configuration in memory, the file and its backup | Save (temporary file, fsync, rename), Load (backup), setters with and without rollback | crash between two system calls; failing save; handlers that read, change and write back | a restart finds a complete file; a failed setter changes nothing; edits are not lost |
| Chat executor (`proxy/chat_executor.go`, `account_failover.go`, `stream_integrity.go`) | attempts, excluded accounts, whether the client has seen bytes | Execute, retry, blame | retries against a stream already sent | at most one account's bytes reach a client, bounded attempts |
| Forwarding and its cooldown (`proxy/upstream_forward.go`, `forward_cooldown.go`, `config/route_resolve.go`) | failure streak and live gauge per provider (in `metrics/`), round-robin counter | resolve a route, order its targets, walk them, fall through to the pool | reordering around the pool sentinel; failures after the first byte; clients that leave; bodies without a timeout | one target answers, none ahead of the pool is skipped, nobody is blamed for a client |
| API keys (`config/apikeys.go`, `proxy/auth.go`, `admin_apikeys.go`) | keys, limits, usage, the old single key | authenticate, account usage, reset, edits, batches, migration | check and accounting are far apart; edits from an old copy; failing saves | one entry per key, usage is not lost |
| Metrics (`metrics/`) | totals, ring of recent requests, minute and hour series, the file | record, reset, window, filter, save, load | several views of the same traffic, each with its own reset and its own horizon; kill during a save | every request is counted once, and two views of one period agree |
| Model cache (`proxy/model_cache.go`, `profile_discovery.go`) | model list per account, routing list, aggregate | sweep, fetch, drop, profile switch | a slow fetch against a drop, a switch or another sweep | an account is routed by the models of its own profile |
| Responses store (`proxy/responses_store.go`, `responses_history.go`) | responses by id, owner, expiry | put, get, walk the chain, purge | a chain read while it is purged; key policy switched during a request | one owner, no gap in the history, only what was stored |
| Conversation runner, web search loop (`proxy/kiro_conversation_runner.go`, `websearch*.go`) | round, searches, answers, credits | call a round, search in parallel, advance, finalize | parallel searches, duplicates, budgets over nested loops | the loop ends; every tool use gets its own answer |
| Search providers (`search/`) | circuit per provider, monthly budget and its file, cache | route, record, retry | gate and booking are apart; end of the month | spending is bounded |
| History repair (`proxy/kiro_history_repair.go`, `kiro_advance.go`) | none (pure) | pair tool uses with results, merge turns, truncate | one pass breaks what another mended | the payload meets the upstream's rules and loses nothing |
| Translator and rendering (`proxy/translator.go`, stream callbacks in `proxy/handler.go`, `responses_handler.go`) | buffer, open block, next index of one stream | render a piece, retry, finish | tags cut in two; retries; thinking by events and by tags | blocks open and close in order, text is whole |
| SSO logins (`auth/`, their administration in `proxy/handler.go`) | sessions, ports, pending choice of a profile | start, callback, exchange, poll, cancel, complete | two tabs, a cancel during an exchange, expiry | one login adds one account, a canceled one adds none |
| Imports (`proxy/handler.go`, `apikey_batch.go`) | accounts, the mutex of imports | import, add, edit, delete | the token sent is dead once it is exchanged | no credential is stranded |
| Upstream channel import and export, prompt cache tracker, memory (`proxy/mem0_*.go`), logger, injector, startup safety, web console, deployment, test backend | | | | not modelled (last section) |

How they meet: a request is authenticated (API keys), routed to a channel or the
Kiro pool (forwarding), served with an account the pool selects (chat executor),
whose credential the token manager refreshes and publishes to the pool and the
configuration; failures feed back into the pool's cooldowns and the account's
ban in the configuration, after which the pool is reloaded from it.

## Modules

Each component has a module; `MC...` modules give their constants values for
TLC, `...Proofs` modules hold the theorems (`LoginProofs`, `RecordsProofs` and
`TurnProofs` about several components composed; `Filter` is the list filter that the
pool, the forwarder and the list of canceled logins share). An action is one
critical section, one system call, one call to another party, or one event of a
stream: between two actions any other goroutine may run, and the process may die
where the module says so.

Behaviours that need different things to happen (failing disks, forced
refreshes, shutdowns) share a run: a variable `mix` is chosen from the constant
`Mixes` at the start and never changes, and an action that needs `"diskFails"`
has `"diskFails" \in mix` as a guard. The theorems hold for every `Mixes`.

### `CredentialRefresh`: token manager, forced refresh, shutdown flush

A credential is the number of the exchange that produced it. `idp` is the
provider's newest, `saved` the configuration's, `live` the pool's, `pending`
what `PersistenceDegraded` parks; `stale` is the clock (credentials up to it are
inside the expiry skew). Goroutines walk through the steps of `EnsureFresh` and
`doRefresh`: look up, coalesce or lead, resolve the account again, exchange,
persist, publish, mark, take the snapshot the waiters get, release, close. The
forced refresh (`refreshAccountToken`) has its own mutex and its own steps, the
flush at shutdown (`FlushPending`) copies what is parked and saves the copies
one by one while requests are still being drained, and administrators enable,
disable and edit accounts from records they read before. A failed exchange bans
the account as `handleAccountFailure` does.

External: the provider (`Accepts`; it rotates refresh tokens when `Rotating`),
the operator, the clock, the kill.

### `AccountPool`: the pool

The list, its entries, cooldowns and model lists, and the read-write lock as
`writer` and `readers`. Reload reads the enabled accounts and the over-usage
switch in two sections of the configuration, both under the pool's lock, and
rebuilds the list. A scan of `GetNextForModelExcluding` is one step per list
entry, because `currentIndex` is advanced atomically but under the read lock
only, so that concurrent scans interleave. A refresh is published in two writes
under the lock (access token, expiry), which `NoTornSnapshot` watches.

### `DurableStore` and `ConfigStore`: the configuration

`DurableStore` is what the configuration promises: readers see something that
is on disk, it is there before they see it, and a restart finds what they saw
or something stored since. `ConfigStore` is what `config/config.go` does: a setter
takes the lock, changes memory, and `Save` writes a temporary file, syncs it,
copies the primary to `.bak`, renames and syncs the directory; each is a step, at
which it may fail, or the process or the machine may die. A file is its contents
and what a power loss may leave of it (`maybe`). `Load` reads the primary, falls
back to the backup, migrates and saves. `ImplementsDurableStore` is the
refinement, with the memory that a setter has changed but not saved hidden by
the lock.

### `ClientStream` and `ChatExecutor`: one chat request

`ClientStream` is what the client of a request is promised: content of one
upstream stream, one end, and no "no accounts" after content. `ChatExecutor` is
the request: `ChatExecutor.Run` selects accounts, validates the token and
rotates, `runKiroWithIntegrityRetry` repeats a truncated stream on the same
account, `CallKiroAPIContext` goes through endpoints and repeats a stream that
broke before any output, and the callbacks of the Claude, OpenAI, Responses and
buffered renderers send, hold back or drop what a stream delivers. A stream is
identified by the place of the four loops it was opened at, its content by
which kinds of it (text, reasoning, tool call, stop reason) have arrived. An
error is one of four kinds: one that bans the account, one that is recorded
against it, a truncated stream, a cancellation. The error a stream breaks with may
be of either of the first two, since `handleAccountFailure` looks for words in
its text.

Only this request changes the health of accounts in this module; what other
requests do to the pool meanwhile is `AccountPool`'s subject, and no property
here depends on which account is selected. The web search runner, which replaces
the call of an attempt when a request searches, is left for its own module.

### `UpstreamForward`: requests forwarded to other providers

A request of `tryForwardUpstream` resolves its route (`Resolve`), lets the
cooldown reorder it (`Cooldown`), and walks the targets: the pool sentinel ends
the walk (`FallThrough`), any other target is an attempt of `forwardToTarget`,
from `BeginAttempt` to `Release`. Between the two are the ways an attempt can
end: the request cannot be built, no response, an error withheld because a backup
is left (`Withhold`), and the committed ones: relayed to the end, truncated,
truncated unseen by a client that left, broken off. Each has its own record in
`metrics` and its own count, as in the code.

What `metrics` knows of a provider is its failure `streak`, counted up to the
threshold, whether its last failure is inside the window (`cooling`), and the
live gauge (`inFlight`). Streaks are restored from disk at the start, gauges are
not. Statistics may be reset and the window may pass at any time.

Abstractions: the configuration is read once per request (it is, under one read
lock) and any of its targets may be disabled between two requests; weights only
determine how often a target is picked, so the counter `n` is arbitrary; a body
that is read first and written at once is `RelayWhole` or `RelayBreaks` without
a `Relay` before; the health of all targets is read in one step. To the client
of `ClientStream` a response cut off in the middle is a failure, and a request
handed to the pool has not been answered yet.

### What the console changes and the disk keeps

- `Metrics`: `Record` puts one event into the ring, the totals, the parts and the
  series; `ResetProvider` and `Reset` take out what they take out, the windows
  are pruned as time (`now`, in minutes) passes, `Save` takes a snapshot, writes,
  syncs and renames a temporary file, and a kill may come between any two of
  these. `Ledger` says that each event is in each total once, under one
  outcome; `ViewsAgree` compares the charts, tables and filters that show one period.
- `ApiKeys`: `authenticate` is the three sections it has in the code (is a key
  required, find the entry, the old key), the usage is booked when the request
  ends, an administrator edits a copy read earlier (`Patched`), and setters do or do
  not undo their change when the save fails.
- `ModelCache`: profiles, their lists in the pool's routing table, in the cache and in
  the aggregate; sweeps, fetches, switches, bans, edits and deletions, under the
  switch lock of the account, the cache's lock and the pool's.
- `ResponsesStore`: the first half of `/v1/responses`: the policy read twice, the
  chain walked file by file while a purge removes files and a restart comes.
- `MicrosoftLogin`: sessions with their lock held across the network calls, the
  pending selection, the list of canceled logins and its capacity, discovery that
  a cancel interrupts.
- `KiroLogin`: loopback servers and their ports, tabs that get the cached
  authorize address, the channel of one place the console polls.
- `AccountImport`: grants and versions of their tokens. An import exchanges a token
  (which kills it) before it stores the next one; `held` is what the operator has.

### One turn of a conversation

- `StreamRender`: the callbacks of the Claude and OpenAI renderers over text that
  arrives in pieces; `ShownAsWhole` compares what the client was shown with the
  same text read in one piece (`Wanted`), the reference definition.
- `ResponsesStream`: the same question for `/v1/responses`: items, indices, retries.
- `Conversation`: the runner: rounds, searches in parallel with their slots, the
  cache of the request, the first error, finalization.
- `WebSearchLoop`: the other loop, for the native `web_search` tool, with accounts
  tried in turn, uses, credits.
- `Search`: routing, circuit breaker, monthly budget and its file, result cache.
- `HistoryRepair`: every pass of the repair and the validator (`Violations`), the
  truncation and the advance to the next round, as functions on small payloads.
  `RepairIsStable`: repairing twice changes nothing.

### The components together: `ConsoleRecords`, `ConsoleLogins`, `TurnParts`

`ConsoleRecords` is composed of `Metrics`, `ApiKeys`, `ModelCache` and `ResponsesStore`,
`ConsoleLogins` of `MicrosoftLogin`, `KiroLogin` and `AccountImport`, `TurnParts` of
`Conversation`, `WebSearchLoop`, `Search` and `ResponsesStream`. In the program these
components share the configuration (of which each module has the part it
writes) or pass each other values. They share no variable, and a behaviour
takes one of them: `part` (`OnePart`) never changes, and the variables of the
others are `Unused`. A property such as `On("keys") => ClientKeys!UniqueKeys` is the
component's own, and those of one subject are conjoined: `LoginsCleanUp` is a
statement about both logins.

`MCConsole` composes the first two and gives the constants their values,
`MCTurns` extends the third and `HistoryRepair`, and adds `StreamRender`. The three composed
modules are apart from them so that theorems can be stated about them: they
reach no recursive operator and have no values for their constants. To check one
component alone, give `Parts` a smaller set, as `ToolConfig.cfg` does.

## Runs

| Run | Instance | What it shows |
|---|---|---|
| `CredManaged` | 1 account, 3 callers (symmetric), 3 exchanges; orderly restarts, or a failing disk | while saves succeed nobody is banned for a refresh token the process used up itself and every waiter gets what the leader obtained; the newest credential is always saved, parked or in the leader's hands; the saved one never goes back |
| `CredFair` | 1 account, 2 callers, 2 exchanges, everything may happen at once; fair | types, one leader per account, waiters that wait for someone, and every refresh returns |
| `CredTwoExchanges` | a forced refresh | *violation*: two exchanges of one account at a time |
| `CredFlush` | a failing disk and a shutdown | *violation*: the flush puts back an older credential |
| `Pool` | 2 accounts of weights 2 and 1, 2 goroutines, three mixes | a disabled account stays away, no half-published credential is selected, and one selection at a time that returns nothing has seen every eligible account |
| `Config` | 2 goroutines, 2 setters, 2 crashes, 1 damage | a restart always finds a complete file, the configuration implements `DurableStore`, edits keep the credential |
| `ConfigBackup` | a corrupt primary | *violation*: the only good copy is overwritten first |
| `Chat` | 2 accounts, 2 attempts, 2 endpoints, 2 streams per endpoint, 2 retries, four renderers; fair | `ClientStream`, complete answers are whole, rotation blames nobody for a truncated stream, every request ends |
| `Forward` | 2 requests (one whose client may leave), 2 providers and the pool, 2 routes of one and two tiers, threshold 1; fair | no target ahead of the pool is skipped, `ClientStream`, gauges and counts agree with the attempts, a client that leaves blames no provider and is released |
| `Console` | the seven components of `MCConsole`, symmetric in requests, logins and key values | the statistics agree, keys are unique and usage is kept, models follow the profile, conversations hold together, a login or an import adds one account and strands nothing, a canceled login leaves nothing |
| `Turns` | the six components of `MCTurns`; the runner fair | repaired payloads are sound, streams show what the answer says, every search is answered, accounted and within its budgets, a conversation ends |
| `ToolConfig` | a payload with a search | *violation*: the finalizing round carries tool traffic without a tool configuration |

The violations are disagreements between the code and its own comments; the
findings in `PROJECT.json` quote both. `Chat` lets a stop reason arrive only after
some output (`EarlyStop = FALSE`), which is how a stream normally looks.

**Further disagreements**, which TLC finds in the same modules. The first five
have a configuration of their own to replay; for the others, check the named
definition in the instance of the composite with `Parts` reduced to the
component (the statement is in the module, next to the properties that hold).

| Definition | Reproduced by | What happens |
|---|---|---|
| `AccountPool!NilMeansNoneEligible` | `PoolShared.cfg`: two selections at once | they share the index and one misses an eligible account |
| `ChatExecutor!TruncationNeverBlames` | `ChatBlame.cfg` | a Claude stream truncated after its first byte is held against the account |
| `ChatExecutor!CompleteIsWhole` | `ChatStop.cfg`: `EarlyStop = TRUE` | the stop reason of a dead stream completes the next one |
| `ConsoleRecords!PairIsWhole` | `Pair.cfg`: an edit and a switch | an account has the profile of one region and the endpoint of another |
| `Search!SpendBounded` | `PaidFirst.cfg`: a paid provider ahead of a free one | what a poor answer of the paid provider cost is never booked, and the month has no limit |
| `ModelCache!CutoverIsAtomic` | fetch, switch, reload | a reload publishes the new profile with the old models |
| `AccountImport!CredentialNotStranded` | import, pin | a pinned profile that is not offered loses the rotated token |
| `Search!OnlyOptionIsTried` | the instance | a free provider is skipped for a paid one that has no budget |
| `Search!FailureReTrips` | the instance | a circuit that opened once never opens again without a success |
| `Conversation!MissingProviderIsTold` | no provider | a search without a provider panics |
| `HistoryRepair!RepairLeavesNoViolation` | `Mixes = {{"blank"}}` | blank identifiers are paired by position and stay blank in the calls |
| `HistoryRepair!RepairLeavesNoViolation` | `{"reused"}` | two calls with one identifier get two results for it |
| `HistoryRepair!RepairLeavesNoViolation` | `{"bare"}` | a first user message that says nothing is never dropped and stays empty |
| `HistoryRepair!SystemPromptKept` | `{"search", "overlong"}` | truncation between rounds drops the system prompt |
| `KiroLogin!RetryIsServed` | failures | the error of an earlier hit hides the tokens of a later one |
| `KiroLogin!PortsAccounted` | two console requests | a second start finds no server to close in the session of the first, which is about to get one and keeps its port unlisted |
| `KiroLogin!AddedCanRefresh` | the instance | an account of the hosted login is refreshed by the branch of the pasted one, whose fields it lacks |
| `MicrosoftLogin!CanceledIsWiped` | the instance | a cancel between the last look at the flag and the unlock leaves the secrets in the session |
| `ModelCache!GoneIsDropped` | fetch or switch | the models of a disabled account are published again |
| `ResponsesStore!FallbackNeverTaken` | legacy | with the single legacy key the owner is the anonymous one although authentication is on |
| `Metrics!FileIsComplete` | two savers | two saves share one temporary file |

**Mistakes tried.** Besides the mutant `PROJECT.json` names for each property, the
modules hold others, each of which the run of its module refutes. They show that
every conjunct of a joint property is about the code:

| Module | Definition and its mistaken form |
|---|---|
| `Metrics` | `Add` / `CountCanceledAsFailed`, `WindowCutoff` / `OneBucketMore` |
| `ApiKeys` | `Collides` / `NeverCollides` |
| `ModelCache` | `DropRoute` / `KeepRoute` |
| `ResponsesStore` | `Authorized` / `AnyOwner` |
| `MicrosoftLogin` | `UsedSelection` / `KeptSelection`, `MayCommit` / `CommitUnlessStopped`, `PendingFor` / `NonePending` |
| `KiroLogin` | `StoreOnce` / `StoreAlways` |
| `AccountImport` | `EditedAccount` / `WholeCopy` |
| `StreamRender` | `Held` / `NothingHeld`, `Rejoined` / `KeepRest` |
| `ResponsesStream` | `OnToolUse` / `SameIndex` |
| `Conversation` | `Addressee` / `FirstAsker` |
| `WebSearchLoop` | `Flushed` / `OnlySearched`, `TotalCredits` / `LastRound` |
| `Search` | `Allow` / `AllowBeyond` |
| `HistoryRepair` | `PullOne` / `StaysPut` |

**Bounds.** One account is enough for `CredentialRefresh`: refreshes of
different accounts share only `tokenRefreshMu` and the flush loop. Three callers
are a leader, a waiter and a third that arrives while the second is between the
two; three exchanges are a rotation, the next one that would notice a lost
credential, and one in between (a flush of an old copy needs four). The pool
needs two accounts to have an order, and one of weight two to have a list longer
than the set. Two setters and two crashes leave one of each to meet the other
half way. `Chat` has the source's own limits for endpoints, streams per endpoint
and integrity retries; accounts and attempts are two instead of three, one to
fail and one to rotate to. `Forward` needs a second request to change the health
of a provider under the first, and two providers for the cooldown to reorder; the
routes hold the sentinel in a tier with both, and both in different tiers. A
threshold of one instead of three makes a provider cool down within the two
requests; streaks below the threshold have no effect. `IndexWrap` stands for 2^64 and is a multiple of the
list length, so the wrap itself is not exercised.

In `Console`, the ring, the windows and the hours hold two entries, so that all of them
wrap within three events and two minutes; one saver and one kill leave a save
half done. Two key values and two identifiers let an edit collide with an entry; one
administrator's edit overlaps one client's request. Two profiles, one account and
two workers are a switch and whatever it overtakes. Three responses are a chain
with a middle, which depth 1 cuts. Logins come in twos because what is at stake is
one login meeting another at a capacity (one pending selection), or
two requests meeting in one login; two tabs are two hits. `MaxVersion = 2` is a
token and the one that replaces it. Requests, logins and key values are used
alike by every action, so the symmetry is sound; the two action properties are
checked over the same states. `CredentialsSurvive` leaves out the behaviours with
`"local"` and `"pin"`, in which it fails (an import from the IDE's own cache
rotates the IDE's token by design; the other is a finding).

In `Turns`, five symbols hold a tag, text on both sides and one symbol more than
may be held back; the pieces include ones that end inside a tag, and the six styles
are every branch of the callbacks. Two queries, two rounds and three searches
are a duplicate in a round, a repetition in the next and a budget that ends within
a round. Three rounds of the loop with two tools split three uses in every way. One
free and one paid provider and the free one again are a fallback, a paid gate
and an open circuit behind it; a limit of one credit is reached at once. Three messages
are a call, its results and a turn in between; two more come from a search.

**Fairness.** `CredFair` assumes that a goroutine inside a refresh takes its next
step: the exchanges have a client timeout, saves are local, and nothing makes a
new caller arrive. `Chat` assumes the same of the request's goroutine, and that a
stream ends or breaks at some point: the HTTP client's timeout covers the body.
Events of the stream are not fair; an upstream may send nothing. `Forward` assumes
progress of the handlers whose client may leave, and only of them: connecting and
response headers have transport timeouts, while a forwarded body has none and is
assumed to end only once the client is gone, which cancels the upstream call.
`Turns` assumes that the goroutines of a conversation run: rounds and searches
have deadlines, and a goroutine that holds a slot gives it back; the client's
leaving is not assumed. The other runs check safety only.

## Theorems

All are checked by TLAPS for every value of the constants that meets the named
assumptions of the modules; what a theorem assumes beyond them stands in its `ASSUME`
and is said below.

**Credentials** (`CredentialRefreshProofs`)

- `TypeCorrect`, `CoalescedRefresh`: types, at most one goroutine inside the managed refresh
  of an account, and waiters whose leader will close the call. The invariants are
  inductive together: a leader is registered until it releases, and who joined a call
  keeps its leader until the leader's `close` wakes it.
- `NewestCredentialIsHeld` (`RotatedCredentialHeld`), `SavedOnlyAdvances`
  (`SavedNeverRegresses`), `BansAreJustified` (`NoSpuriousBan`) and `RefreshReturnsItsOwn`
  (`ServesWhatItObtained`), all assuming `ManagedOnly`, which the mixes of the run `CredManaged`
  meet: no forced refresh, no lost answer, no kill, and not a failing disk together with a
  restart. With those the code does lose credentials (`CredTwoExchanges`, `CredFlush`). The
  invariant (`Held`) says where the newest credential of an account is: saved, parked by a
  save that failed, or in the hands of the goroutine that will save or park it. While saves
  succeed (`Current`), only the refresh between the provider and the configuration, or
  between the configuration and the pool, leaves an older one there, and nobody else
  presents one; a refusal (`Refused`) then means that the grant was withdrawn.

**Pool** (`AccountPoolProofs`)

- `TypeCorrect`: types. A scan never has more turns left than the list is long, although a
  reload may shorten the list between two selections.
- `RemovedAccountsStayRemoved`: no reload brings a disabled account back. By itself the
  property is not inductive: a goroutine in the middle of a reload has a snapshot from before. The
  strengthening adds that at most one goroutine is between reading and rebuilding (it holds
  the lock), and that whoever disabled the account after that snapshot still has its own
  reload ahead.
- `SnapshotsAreWhole`: a selection never pairs the access token of one refresh with the
  expiry of another. The invariant: an entry is torn only while one goroutine, the writer, is
  between its two writes, and nobody scans then, because a scan counts among the readers
  and a writer waits for there to be none.
- `NothingEligibleIsMissed` (`NilMeansNoneEligible`): a selection that returns no account has seen
  every entry of the list and refused each. The invariant counts the turns: the
  places seen are those of the residues the counter has passed, so as many turns as the
  list is long pass through every place (`TurnCovers`, by arithmetic on remainders).
  It assumes one selector, as two share the counter and one may be given the same place
  twice (the run `PoolShared` shows it), and speaks of the scans in which the
  unsigned counter does not wrap, or wraps by a multiple of the list's length: `Tells`. One
  scan in 2^64 is outside.

**Forwarding** (`UpstreamProofs`, first part)

- `TypeCorrect`: types. The walk never runs past its chain, which is never empty, and a
  provider is cooled down only at the threshold.
- `EveryTargetIsTried` (`NoTargetSkipped`): the pool answers, or the last failure is
  reported, only after every enabled upstream ahead of the pool or beside it was tried. The
  invariant (`Walks`): whatever is still owed to the request lies ahead of it in its chain and
  before the sentinel. The weighted order and the cooldown preserve that: the one permutes each
  tier, the other what is ahead of the sentinel (lemmas of `FilterProofs`).
- `GaugeIsExact`: every step that is not the begin or the release of an attempt leaves both
  the gauge and the set of attempts alone; the other two move one request in or out of the
  set of one provider.
- `CancellationsBlameNobody`: once the client has left, a request that was sent and not
  answered with an error ends as canceled or, if its stream had ended, as a success.
- `OneTargetAnswers`: a forwarded request implements `ClientStream`. The invariant
  (`Clean`): nothing has been written before an attempt is committed, and what a relay
  has written is of the target in use.
- `CountedOnce`: a request is booked once, as what its client was told. The invariant:
  nothing is booked before its attempt is committed or its walk ends, and the step
  that finishes it books at most one of the two.

**History repair** (`UpstreamProofs`, second part)

- `RepairedConversation`: `repairKiroConversation`, behind the cleanup, turns any conversation in which
  no identifier is used by two calls (`Once`) and whose first user turn says something
  (`Speaking`) into a valid one (`Valid`): roles alternate from a user turn to a user turn,
  every turn answers exactly the calls of the one before it, and nothing is empty. No call is lost, whatever was
  told of a result still is, and a whole pair keeps its own results. It is proved pass by
  pass, each with what it adds and what it keeps: the cleanup and the dropped turns are
  selections (`Picks`); pulling results up is an order of the turns in which every pair
  comes together (`Ordered`); the filter leaves only results of the calls before them
  (`NoOrphans`); the backfill carries the calls that are still to be answered (`Ahead`); fillers separate
  what is paired from nothing. The number of turns and of calls is not bounded.
- `ValidIsAccepted`: the validator finds nothing in a valid conversation. `ValidStays`: neither the
  cleanup nor the repair changes one.
- `PayloadsAreSound` (`PayloadIsSound`): every payload of a request, whatever its rounds of searches.
  The invariant (`RepairInv`) says of each stage what the next one needs: what was converted,
  cut or advanced can be repaired (`Fresh`), what was repaired is valid and its own repair
  (`Acceptable`). Truncation keeps that because it leaves the turns from a user turn on, and their last pair
  because at least two of them remain; the next round because its searches have
  identifiers of their own. That nothing is lost is carried from the messages to the converted payload
  (`Conveyed`) and from there to the repaired one (`Retained`). `PayloadAssumption`
  says that no identifier is the empty one, that those of the client and of the searches differ,
  and that the recent turns which are never cut are two or more (four in the code). `Orderly` assumes
  that the client names its calls, each by a name of its own, and that its first user message says or shows
  something; without any one of these the code does send what the upstream rejects, as
  the three rows for `RepairLeavesNoViolation` above show.

**Executor** (`TurnProofs`, first part)

- `TypeCorrect`: types and the bounds of all loops.
- `OneStreamReachesTheClient`: a request implements `ClientStream`. The invariant
  (`Guarded`) says what the committed flag protects: nothing is shown before it is set, it
  is not set while an account is selected or a stream requested, nothing is held over to a
  new stream, and what is shown or held belongs to the stream in progress. Each step then
  maps to a step of `ClientStream` or leaves it alone.
- `RotationIsBlameless`: a truncated stream nobody has seen changes no account's health,
  whichever action runs while it is being handled.
- `CompleteAnswersAreWhole`: an answer told as complete was whole, assuming `~EarlyStop`, as
  the run does (a stop reason before any output is a finding).

**Configuration** (`ConfigStoreProofs`)

- `TypeCorrect`, `CompleteAfterRestart`: types, and a complete primary after every kill and
  power loss. Types need `Reached` (a field counts at most the setters called so far);
  completeness needs `Stored`: the primary's name is uncertain only between the rename and the
  directory's sync, and what is renamed was synced before and is the configuration being
  saved. Damage from outside is excluded, as the property does.
- `ConfigurationIsDurable`: the files and steps of a save implement `DurableStore`, by a
  further invariant (`Restoring`: what a failed save restores is what is stored). The theorem
  assumes of `Mixes` that the statistics' setters, which do not restore memory, meet no
  failing save; the run `Config` makes the same choice, and what happens otherwise is
  listed among the hazards.
- `EditsKeepTheCredential`: an edit leaves the credential alone.

**Logins** (`LoginProofs`, about `ConsoleLogins`)

- `AddedOnce` (`OneAccountPerLogin`): the right to add the account passes from the session to
  the request that exchanged its code, from there to the account or to the pending choice of
  a profile, and from the choice to the account. The invariant (`Passing`) says that it
  is in one place: a request with a credential is the only one of its login, whose session is
  over and which has neither an account nor a choice; a login with its account has a choice
  only as a canceled one. Steps that pass nothing on (all but three) preserve it by one
  lemma (`QuietKeeps`). Neither the locks of sessions nor the capacities matter to it.
- `OnePairPerLogin` (`TabsShareThePair`): a URL once cached stays, and a tab that was
  redirected took the cached one or is the one that cached it.
- `CanceledStaysCanceled` (`CanceledAddsNothing`), `CanceledCredentialsGo`
  (`CanceledHoldsNoCredential`): a cancel cannot stop a request that took its session or its
  choice out of the map before; it leaves a mark which the request looks for. The
  invariant (`Remembered`): once a cancel was answered, neither a session nor a choice of the
  login is on offer, and as long as a request works for it the mark is in the list; a choice
  taken out of the map has its credential only while its timer or its cancel is about to clear
  it. The theorems assume that the list, whose capacity is `MaxTombstones` (128 in the code),
  is never full (`[]Room`): a full one drops its oldest mark, whose request may then commit.
  In the run two logins meet a capacity of three.
- `PortsComeBack`, `PortsOfOneConsole` (`PortsAccounted`): a start has its session to itself until the
  server is up, only sessions with a server are left to shut down, and a session in the map
  without one is about to get it (`Accounted`). This needs that no second start empties
  the map between the listing and the server of the first (`Undisturbed`), which one console
  request at a time never does (`OneConsoleIsAlone`) and two may: the port is then lost (see
  *Further disagreements*).

- `OneAccountPerCredential` (`OneAccountPerToken`), `ConfirmedStayAlive` (`AccountsStayAlive`) and
  `CredentialIsKept` (`CredentialNotStranded`), about `AccountImport`. The invariant
  (`Tracked`): a token that came from an exchange is one the provider accepts and is at one
  place only, the request that carries it, until it is an account's; no two accounts have one; and
  a request of the batch import is between its exchange and its account only while it holds the
  import mutex. `Alive` adds that what such a request is about to exchange belongs to no account
  that was confirmed. All three assume `Separate`: the kinds of grants are apart and nothing has the name `Nobody`, which is
  about the names of the model, not about the code.
- `OneAccountEachWay` (`OneAccountEach`), `LoginsLeaveNothing` (`LoginsCleanUp`),
  `CredentialsOutliveImports` (`CredentialsSurvive`): the properties of the run `Console` for the composition.
  The second carries the two hypotheses above, each for the behaviours of its login:
  `[](On("microsoft") => Room)` and `[](On("hosted") => Undisturbed)`. The instance meets both.

**Records** (`RecordsProofs`, about `ConsoleRecords`)

- `KeysAreUnique` (`UniqueKeys`), `EditsKeepTheCounters` (`EditKeepsUsage`) and `ClientKeysAreSound`
  (`ClientKeysHold`): memory and file are both tables without a repeated value, through failing
  saves, edits that collide, and the migration of the old key into an empty table.
- `RoutedModelsAreAdvertised`, `RoutedByThePinnedProfile` and `ModelsStayWithTheProfile` (`ModelsFollowProfile`).
  The first invariant (`Advertised`): an account whose routing list differs from what is offered
  has a worker on its way to write or drop the other. The second (`Followed`): a job
  that carries the models of a profile past the gate carries those of the profile the
  account is pinned to, because the gate, the publication and a switch hold the switch lock
  of the account; it is stated for behaviours without a failing save, as the
  property is. `Apart` assumes that the names for nothing and for an empty list are not
  those of a worker, an account or a profile.
- `ConversationsAreKept`, `StoredConversationsHold` (`ConversationsHold`): one owner per conversation, no gap, and
  nothing lost that was told of. The invariant (`StoreKept`): an identifier under which nothing was saved
  yet has no document, and nothing stored, told or walked refers to it; two requests never save
  under one; and each request knows, at each of its steps, that it may continue what it
  found. Documents only age. `Sane` assumes of the names that `None` is
  no key, owner or identifier, and of the bounds that they are natural numbers.
- `StatisticsAddUp` (`StatisticsAgree`): `Ledger` and `ViewsAgree`, for any events, windows and ring. The
  ledger alone is not inductive: `ResetProvider` subtracts and clamps at zero, so that the totals have
  to be the sum of the providers' counts (`Books`) for the clamp never to bite, and what is on its way to the
  file and what the file holds have to be books too, because a restart reads them
  (`StatisticsInv`). No series has a minute or hour of the future, or a window would miss it. The
  view of all traffic needs `Store`: within the window each provider's minutes have every
  event of that provider and minute that the ring still has, so that the series `ResetProvider`
  rebuilds from the ring, counted provider by provider (`MinuteInParts`), stays within theirs. It is an
  inequality for a reason: events that already left the ring are lost to the rebuilt series. An event a
  minute late changes nothing of this; a torn file leaves an empty store.
  The window of a provider equals its chart by moving the sum from the minutes that exist to those that
  are shown, the merged chart the sum of the charts by exchanging two sums, and the filters of the log
  partition it by outcome. `Reporting` assumes of an event that it has a provider and one of the three
  outcomes, of an hour that it has minutes, and of the bounds that they are natural numbers.

**A turn** (`TurnProofs`, about `TurnParts`)

- `UsesAreAnswered` (`EveryUseAnswered`), `BudgetIsKept` (`WithinBudget`), `CauseIsTold`
  (`CauseIsReported`), about `Conversation`. The invariant (`Conversing`) describes a round: of the tool uses
  that ask one query at most one is searched for, and one is if the query is not known; what was
  paid is known or was sent for in this round; and no more queries are known than searches were
  counted. What was paid is then a sum over the queries of at most one each, bounded by
  the budget. A search that is stopped is stopped by an error that is told, or by the client. `Askable` assumes finitely many queries, none of them empty, and limits that
  are numbers. The theorems need no fairness.
- `SearchesKeepWithinTheUses` (`UsesAreKept`), `EveryUseIsShown` (`NothingSwallowed`) and `WhatIsSpentIsBilled`
  (`CreditsAreBilled`), about `WebSearchLoop`, by three invariants: the uses spent and those of the round
  still to be searched fit `max_uses` (`Rounds`); what was issued and not shown is the
  round under way (`Presented`); nothing is billed before the answer, and the key is billed
  what the accounts spent (`Charging`). `Billable` assumes a finite pool in which nobody is called
  as the key.
- `CreditsAreBounded` (`SpendBounded`), about `Search`. The invariant (`Accounted`): what a month was charged is
  what is booked for it plus what the searches owe that are between the call and the
  booking; and together with those past the gate it stays under the bound, as the gate opens only while
  less than the limit is booked. `Budgeted`
  assumes that the gate is in force (`AllowPaid = FALSE`), a cost and a limit of at least one, and
  `PaidLast`: nothing is asked behind a paid provider. The code does not enforce that. It holds
  for the default order (SearXNG, then Tavily), which is also the order of the run; the proof
  did not go through without it, and TLC shows why (`PaidFirst.cfg`, listed above).
- `ResponseIsWhole` (`StreamIsWhole`), about `ResponsesStream`. The invariant (`Served`) reads the events
  sent so far: items are opened with the next index and closed before the next one, at most one is
  open, and it is the one the handler remembers; all of them are of the attempt under way, as an
  attempt that has sent something is the last.
- `SearchesAreAccounted` (`SearchesAccounted`): the first three groups in one behaviour, as the run `Turns` checks
  them, under the three hypotheses.

The composed theorems are about `RecordsSpec`, `LoginsSpec` and `PartsSpec`. The specifications of the
runs, `ConsoleSpec` and `TurnsSpec`, are conjunctions of these, the second with `StreamRender`,
`HistoryRepair` and the fairness of the runner, so that they imply them: the initial predicate
and the next-state relation of each are conjuncts of the run's, those of `PayloadSpec` when the
part is `payload`. Theorems without a property of their
own are about conjuncts of the joint ones.

**Lists** (`FilterProofs`). The pool builds its list, and the forwarder its plan, by filtering and
concatenating sequences. A recursion over data cannot be unfolded here by the library's
induction theorems, so `Filter` writes the filter as the concatenation of short sequences
(`FlattenSeq`), and `FilterProofs` proves what their proofs need of it (the result's
elements are exactly those kept, in as many places as they were given) by a least
counterexample: a nonempty set of naturals has a least element (`LeastNatural`, from the
library's well-founded order on finite sets), and at the least length that fails the
definition of the recursive function is expanded once. The same lemma gives an
induction over finite sets for sums (`SumFunctionOnSet`): changing one summand changes the sum by as
much (`SumReplaces`), smaller summands of fewer make a smaller sum (`SumIsLess`), a sum does not
depend on what its summands are called (`SumMoves`), rows and columns of a table have one sum
(`SumSwaps`), and the parts of a finite set add up to it (`PartsAddUp`). A filter keeps every
occurrence of what it keeps, so its length is the number of hits (`KeptLength`). Budgets, bills,
credits and the statistics rest on these. A fold of `HistoryRepair` is a recursive function over the
lengths of a sequence; that it exists, with a value of the right kind at each length, is `FoldRuns`,
by the same induction, and each pass then has one lemma about its next element.

Only model-checked:

- liveness (`EveryRefreshReturns`, `EveryRequestEnds`, `LeaversAreReleased`, `Terminates`), which the
  prover does not do;
- the type invariants `ConsoleTypeOK` and `TurnsTypeOK`. What the theorems need of them is in their
  invariants;
- the half of `EventsWhole` that is about `StreamRender`, the one module with recursive operators;
- the behaviours a hypothesis excludes: with two selectors (`Pool`), with a full list of canceled logins,
  with two starts at once, with kills (`SpendBounded` says nothing of them), and the mixes
  named above.

## Assumptions

- `fsync` of a file or directory puts it on disk; after a kill (not a power loss)
  the kernel still writes what was written; only the primary is damaged from
  outside, and only while no save is under way.
- The provider accepts its newest refresh token until the grant is withdrawn, and
  no other with `Rotating`.
- Cooldowns come from `DisableAccount` and `MarkOverLimit` only: the ones
  `RecordError` and `RecordAntiAbuse` would set are commented out in the source.
- Callbacks of a stream run in the request's goroutine (`parseEventStreamTracked`
  calls them), so a request is sequential but for the client leaving.

## What is left

In this order:

1. `Conversation` composed into the attempt of `ChatExecutor`: its rounds take the
   place of one call there.
2. The weighted shares of `UpstreamForward` over many requests.

## Not modelled, and why

- The import and export of upstream channels map records to records in one pass
  under the configuration's lock; saving is `ConfigStore`'s.
- The prompt cache tracker estimates figures that only appear in the usage a client is
  shown; it is hashing and arithmetic on data.
- Memory (mem0) is optional and off the request's path: calls to another service, and
  patterns for what to redact.
- The logger keeps a ring of lines under one lock; nothing reads it back.
- The injector writes another program's files and database; the web console is
  browser code; deployment and TLS helpers are scripts; startup safety is one
  function of the configuration; the test backend stands in for the upstream in tests.
- Of the modelled components: HTTP and JSON decoding and encoding, the formats of the
  providers' wire protocols, frame parsing, scoring of search results, token
  claims, and fields that nothing reads back (counters of usage per account).
