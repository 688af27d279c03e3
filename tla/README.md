# Gozar in TLA+

Gozar is a self-hosted gateway: OpenAI-compatible requests come in with a *client token*,
are routed along a *fallback chain* of upstream accounts (API keys or OAuth subscriptions
whose tokens must be renewed), metered against usage limits, and traced. Everything runs
in asyncio workers over one PostgreSQL database (through SQLAlchemy sessions, one
transaction per HTTP request) and one Redis.

This directory models the parts of it whose correctness depends on *interleaving*:
requests sharing an account's refresh token, requests sharing a limit, transactions that
commit after Redis has already been written, console calls that edit the same rows,
crashes between the two. And it models the parts that are hard to test because their
inputs are cut, repeated or broken off in ways nobody writes down: a provider's stream in
arbitrary chunks, retried and failed over, and counters that expire while a check reads
them.

| Module | What it is |
| --- | --- |
| `SubscriptionRefresh` | one subscription account: lazy and reactive token renewal, the Redis lock, row locks, enable/disable/delete, the provider |
| `SubscriptionRefresh_proofs` | theorems about it |
| `Admission` | abstract: what check-then-count usage limits promise |
| `Admission_proofs` | its overshoot theorem |
| `Gateway` | the request pipeline: limits, chain snapshot, fallback, metering, session binding, traces, transactions, streams; implements `Admission` |
| `Gateway_proofs` | theorems about it, the refinement included |
| `RoutingChains` | fallback chains: calls that create, upsert, edit and delete them statement by statement, and gateway requests that list and then load them |
| `RoutingChains_proofs` | theorems about it |
| `ClientTokens` | API keys: enable, disable, revoke, rotate, limits, pins to a chain, and the deletion of that chain |
| `ClientTokens_proofs` | theorems about it |
| `PendingConnect` | connecting an account: the OAuth redirect and device-code flows over the pending store in Redis, and API keys |
| `PendingConnect_proofs` | theorems about it |
| `Translation` | the three format adapters as functions on requests, responses and stream events |
| `Streaming` | one chat completion from its credential to its metering: retries, renewal, fallback, the wire of a stream, `Translation` applied to what it carries |
| `Streaming_proofs` | theorems about it |
| `UsageWindows` | measurement windows: Redis buckets with a lifetime, read one after another while others are written |
| `UsageWindows_proofs` | theorems about it |
| `MCGateway`, `MCRoutingChains`, `MCClientTokens`, `MCPendingConnect`, `MCStreaming`, `MCUsageWindows` | instances for TLC |

## 1. Inventory

| Component | State it keeps | Operations | Talks to |
| --- | --- | --- | --- |
| Request pipeline (`gateway/pipeline.py`, `embeddings.py`, `router.py`) | per-request locals: attempt order, last error, trace context | authenticate, check token limit, select chain, snapshot accounts, attempt/fallback, meter, bind session, finalize trace; stream establishment and streaming | everything below |
| Subscription accounts (`accounts/service.py`) | rows `upstream_credentials`, `subscription_secrets`; Redis lock `acct:refresh_lock:<id>`; pending connects in Redis | connect (OAuth code, device code, API key), get usable token, refresh, enable, disable, delete, set limit | provider token endpoints |
| Usage (`usage/service.py`, `usage/limits.py`) | Redis counters per subject, metric and window; rows `usage_record`, `trace_log` | record usage, read counters, decide limits, open/finalize trace | pipeline |
| Routing (`routing/`) | rows of chains and entries; Redis session bindings | evaluate chain, get/record binding; create, edit, upsert, delete chains | pipeline, console |
| Client tokens (`tokens/service.py`) | rows `client_tokens`, limits | create, verify, enable, revoke, rotate, delete | pipeline, console |
| Upstream client (`providers/client.py`, `gateway/upstream.py`, `gateway/streaming.py`) | none shared; per call its attempts and the parser's buffer | request with retry and back-off; stream, retried until the first byte; server-sent events out of byte chunks; a Codex stream aggregated to one answer | providers |
| Format translation (`translation/`) | none | a chat request to each provider's shape, its response and each event of its stream back | pipeline |
| Console authentication (`auth/`) | users, Redis sessions | bootstrap, login, logout, guard | console API |
| Core (`core/`) | engine, Redis pool | `get_session`: commit on return, roll back on an exception | all |
| Catalog, analytics, health, migrations, deployment, frontend | none that requests depend on | read-only or static | |

**Hard behaviour.** (a) Renewal: a refresh token may be single-use; the Redis lock is
released before the transaction that stores the new bundle commits, its TTL runs while a
provider is slow, and SQLAlchemy's identity map may return a row loaded before the lock
was awaited. (b) Metering: limits are read before the call and counted after it; Redis is
written before the database commits and never rolled back. (c) Streams: the body is
produced after the request's session was committed and closed; chunks of the network cut
events anywhere; a retry or a fallback in the middle would splice two answers. (d) Error
paths: a `GozarError` is committed by the router (so that the trace survives), any other exception
rolls back. (e) Account status, chains and tokens are changed by console sessions while
requests hold what they read earlier.

**What makes each component correct.** *Renewal*: the newest token issued is never
silently lost or overwritten; deletion is final; a lock frees itself; every request ends;
a healthy account is not sent to reauthorization. *Limits*: a bounded overshoot; counters
never behind the ledger. *Fallback*: a request fails only when nothing allowed is left.
*Traces*: they say what the client got. *Affinity*: a session is bound only to an account
that served. *Tokens*: a revoked token stays revoked; rotation leaves one live token
with the old one's settings; no pin dangles. *Connecting*: a code makes at most one
account, a used or forged challenge is gone for good, answers agree with what is stored.
*Chains*: the stored order is one somebody
asked for; a call fails only against another; a key names one chain. *Upstream
client*: bounded attempts, nothing replayed after the first byte. *Translation*: the
conversation reaches every provider whole; a stream adds up to the answer it would have
been whole. *Windows*: no counter is lost before its window has passed it; a decision is
right at some instant of its check.

Every hazard, with its line and the properties aimed at it, is in `PROJECT.json`.

## 2. Plan

Written, in this order: `SubscriptionRefresh`, then `Admission` and `Gateway`, each with
its proofs (the two places where the gateway's shared state is contended); then
`RoutingChains` and `ClientTokens` (the console calls that change what requests read), the
second with its proofs; then `PendingConnect` (where accounts come from) with its proofs;
then `Translation` and `Streaming` (what happens inside the one step `Gateway` calls an
upstream call) and `UsageWindows` (what happens inside its `Reached` and
`IncrementCounters`), with theirs; then `RoutingChains_proofs`; and last the theorems that
were still missing, so that every safety property of a passing run has one. Next:

1. `Streaming` below `Gateway`: its run of one request as the detailed form of `Acquire`,
   `CallSucceeds`, `CallFails` and the ends of a stream, by a refinement mapping for one
   handler. `OperationTime`, `BackoffTime` and `MaxAttempts` of `SubscriptionRefresh` are
   the same retries.
2. `UsageWindows` below `Admission`: the overshoot bound for rolling windows.

## 3. SubscriptionRefresh

State: the committed row (`status`, `deleted`, `secret`), per-session flushed and
uncommitted columns (`writes`, `newStatus`, `newSecret`), the Redis lock and its age, the
provider's newest issue `latest`, and each request's program counter. A bundle is its issue
number. READ COMMITTED is modelled by what a session sees (`SeenStatus`, `SeenSecret`) and
by row locks held from flush to the end of the transaction. Steps are cut at the `await`s:
`get_usable_token` is `LoadCredential`, `LoadSecret`; `refresh_subscription` is
`AcquireLock` or `LockTimeout`, `ReadUnderLock`, the `Exchange…` actions (with
`UpstreamClient.request`'s retries: `Resend` after a delay; `NextOperation`, because httpx
times each operation of an attempt alone), `StoreBundle` / `StoreFails` / `MarkRequiresReauth`,
`ReleaseLock` / `ReleaseFails`; `_call_with_reactive_refresh` is `CallUpstream`,
`LoadForReactiveRefresh`; `get_session` is `CommitRequest` / `AbortRequest`; a console
session is load, flush, commit. `Crash` ends a request anywhere and leaves the lock behind.

Not modelled: clocks (whether a token is due for renewal is a free choice), the reason
text of a status, the API-key kind of account. The locks of all rows of one flush are taken
together, so database-only deadlocks are out of scope; waits between a row lock and the
Redis lock are in.

| Run | Instance | Question |
| --- | --- | --- |
| `SubscriptionRefresh` | 2 requests, 1 console session, rotating provider, 2 attempts, operations of up to 2 ticks, delays of 1, lock of 1 tick, 1 fault | all safety, action and liveness properties |
| `SharedExchange` | 2 requests, 3 attempts, operations of up to 6 ticks, delays of 1, lock of 3 ticks, no fault | does the lock's TTL cover an exchange? **No** |
| `FalseReauth` | 2 requests, no fault | is a healthy account ever flagged? **Yes** |

Two requests are enough for the races between a holder, a waiter and a late committer; the
console session adds the third writer; one fault covers each single failure (crash, lost or
unusable reply, outage). The lock is shorter than one operation in both runs, as in the
code's defaults (a TTL of 30 s, operations of up to 60 s, three attempts, delays of up to
10 s; `SharedExchange` keeps these proportions with a tick of ten seconds): the safety
properties hold although the key may expire under a live holder.

The properties: `NoSecretAfterDelete`, `RotationAccounted` (the refresh token the provider
honours is stored, or a live transaction is about to store it, or it went for one of two
reasons kept in `lost`), `StoredNeverRegresses`, `EveryRequestEnds`, `LockEventuallyFree`.

The two reasons are not equal. `"fault"` is a lost or unusable reply or a crash.
`"lock"` needs no fault: a holder whose key expires while the provider is slow gets
`LockNotOwnedError` when it releases, and a request that has refreshed lazily and is sent
to refresh again by a 401 may wait for the lock longer than `blocking_timeout`; neither
error is a `GozarError`, so the new bundle is rolled back and the token the provider now
honours is gone. That is hazard H2 of the code, and `RotationAccounted` says no more than
that there is no third way to lose it: not the interleaving of holders, waiters and late
committers alone, not a console session.

Fairness (`FairSpec`, used by this run only): weak fairness of each request's and console
session's own steps (the event loop schedules every ready coroutine, and every statement
and HTTP call returns or times out), of the passing of time and of the key's expiry. None
of faults. This leaves out a provider that sends a byte before each read times out and
never finishes: `NextOperation` may repeat, but a request's own steps go on in between.

Proved for every number of requests and sessions, every bound and timeout:
`TypeCorrect`; `DeletionIsFinal`, from the invariant `DeleteInv` (one holder of the
secret's row lock; a written bundle always replaces a row that exists; who stamps
`deleted_at` is who removed the row); `NewestTokenAccounted` and `StoredTokenIsMonotonic`
from `RotationInv` (a request about to store the newest bundle is the only one who knows
it, what a transaction wrote is newer than what it replaces, and one that carries a bundle
rolls it back only after its reason was recorded). Model-checked only: the liveness
properties.

`SharedExchange` refutes the comment on the TTL (`accounts/service.py:1199-1201`,
"comfortably covers a token exchange"). Two things seen on the way have no run:
disabling, then enabling an account clears `REQUIRES_REAUTH` whatever became of its tokens
(`accounts/service.py:1099-1105`), and an account that an operator disables after a request
took its snapshot still serves that request (`accounts/service.py:1476`).

## 4. Admission and Gateway

`Admission` says what the limits promise although checking and counting are separate: a
worker *clears* budgets that are below their limit, later *records* once, or *gives up*.
`OvershootBounded`: recorded plus still-claimed consumption stays below limit plus number
of workers. A budget is a subject (client token or account) in one window.

`Gateway` is one action per stage of a request, cut at the awaits on Redis, the database or
the provider. `Open` (open_trace, verify), `EnforceTokenLimit`, `NoChain`,
`SnapshotStates` (the rows), `OrderAttempts` (Redis counters and binding, `evaluate_chain`),
`Acquire`, `CallSucceeds`, `CallFails` (with `_allows_fallback` per node), `RecordUsage` /
`RejectUsage`, `IncrementCounters` (one MULTI/EXEC), `RecordSessionBinding`,
`FinalizeTrace`, then `Commit` (by `get_session`, or by the router before it re-raises a
`GozarError`) and, as a step of its own, the `Reply` to the client; for streams `Commit`
comes at the first byte, and `StreamEnds`, `StreamFails`, `ClientDisconnects` and the
accounting run in a transaction that `Drop` rolls back. `Crash` stands for every exception
that is no `GozarError`; between `Commit` and `Reply` it is the lost confirmation of the
commit, the dead process or the lost connection that leaves a committed request without
its answer. Around them:
`NextWindow`, `BindingExpires`, `AccountChanges`.

Abstractions. `evaluate_chain`'s list is the set `left` of nodes not yet attempted with the
order `Before` (the session's account first, then chain order). `Chain` is the lane of the
chosen chain (for embeddings, its capable nodes). Steps private to a handler are merged
with the step before them (the trace's chain id with the routing, verification with the
opening of the trace). `OrderAttempts` reads the accounts' counters and the session's
binding in one step, where the code awaits one Redis GET after another
(`gateway/pipeline.py:327-338`, `routing/session.py:124`): each counter is compared with its
own account's limit alone and only grows, the binding only orders the nodes that are left,
and the interleaving of a check's reads with writers is the subject of `UsageWindows`. One
client token, one session, request-count limits, windows of one
bucket. The renewal inside `Acquire` is `SubscriptionRefresh`; here only the class of error
it ends in. Whether `finalize_trace`'s extra lookups fail is part of `Crash`.

| Run | Instance | Question |
| --- | --- | --- |
| `Gateway` | 2 handlers, 3 requests, chat with a session and streams, 2 accounts (policies `auth_or_retryable`, `any_error`), limit 1 on the token and on the second account, 2 windows, 1 status change or window change, 1 crash; handlers symmetric | all invariants, and that `Gateway` implements `Admission` |

Two handlers give every check-count overlap; three requests let one handler serve again
after a limit is reached; two accounts are the shortest chain in which order, fallback and
affinity matter; deadlock is checked (`AllServed` is the only legitimate end).

The properties: `LimitOvershoot`, `CountersCoverLedger` (Redis, from which limits are
decided, never shows less than the committed ledger), `AnswerTraced` (what a non-streaming
client is answered is what was committed; only a crash or a lost connection leaves it
unanswered, possibly with a committed completion; it is billed exactly for those),
`FallbackExhausted`, `BindingServed`, `ImplementsAdmission`. What becomes of a stream's
usage row in the transaction that `Drop` rolls back is refuted in `Streaming`'s run
`StreamPromises`.

No fairness is assumed: the module states safety only.

Proved for every number of handlers, every chain with any policies, any limits and bounds:

* `TypeCorrect`, by induction with one case per action;
* `AnswersAreTraced` from `AnswerInv`: what each handler's rows say at each step. Alone
  `AnswerTraced` is not inductive: the commit publishes rows written many steps before, and
  the answer repeats, one step later, what was committed;
* `FallbackIsExhaustive`, relative to `AnswerInv` (a stale trace outcome must not look
  like a new failure);
* `BoundAccountServed` from `BindInv` (whoever is about to bind has been counted);
* `CountersCover` from `CoverInv`: ledger plus the number of requests counted whose row may
  still be committed is at most the counter;
* `Refinement`: `Spec => ImplementsAdmission`, each action being a `Clear`, `Record`,
  `GiveUp` or stutter of `Admission` (lemmas `AsClear`, `AsRecord`, `AsGiveUp`);
* `OvershootIsBounded`: `LimitOvershoot`, by instantiating `Admission_proofs`'
  `OvershootTheorem` through that refinement.

`Admission` has no run of its own: TLC checks it as the property `ImplementsAdmission`, and
`OvershootTheorem` proves its bound under the hypothesis `AdmissionAssumption` (finitely
many workers, limits are naturals), which `OvershootIsBounded` discharges from
`GatewayAssumption` (the same of handlers, and the token is not an account), evaluated in
the runs.

## 5. RoutingChains and ClientTokens

Both model console calls as what they are: one PostgreSQL transaction each, at the default
READ COMMITTED, through one SQLAlchemy session with `autoflush=False`. A call is cut at its
statements. A statement reads what is committed when it begins (with its own transaction's
writes) and then waits for the open transactions that hold a row, a unique key or a parent
row it needs (`Blocks`). A cycle of waits is found by the database, which aborts one of its
members (`DeadlockAbort`). `Commit` publishes all of a call's writes at once; every
exception rolls back (`Rollback`, `End`).

**RoutingChains.** Committed rows: `live` chains, their `selector`, the entry `rows`. Per
call: `pc`, `call`, `target`, the rows its DELETE saw (`snap`), its open transaction `tx`.
The actions follow the code: `LoadByKey`, `LoadById` / `LoadMissing`, `CreateWithoutKey`;
`InsertChain` / `InsertChainConflict` (the unique `client_key`); `_replace_entries` is
`ScanEntries` (the DELETE's snapshot), `DeleteEntries` (once it has the row locks, without
the rows that have gone), `UpdateChain` / `UpdateStale` (the flush writes the chain row only
if it changed), `InsertEntry` / `InsertConflict` one row at a time, each against the unique
slot and the two foreign keys, the chain (`Orphan`) and the account (`UnknownAccount`: the API
looks up no account before); `DropChain`, `Cascade`.
A gateway request in auto mode is `ListChains`, one `ListEntries` per chain, `ChooseChain`
or `NoChain`, `LoadRoute`.

Abstractions: an entry carries the call that wrote it in place of account, model and policy;
a call also says at which place, if any, its list names an account that does not exist (an
account row is only ever marked as deleted, so whether a row exists does not change under a
call's feet);
one client key; a deadlock is a cycle of waits, of any length up to the number of calls, and
any of its members may be the victim; which eligible chain a model matches is left open; a
call is made once (a retry is another call). A request pinned to a chain loads it in one
step and is part of `Gateway`.

**ClientTokens.** Committed: `issued` keys with `status`, `pinned`, `limit`, and whether the
`chain` is there. Per call: `pc`, `call`, the columns it has loaded (`seen`) and those its
open transaction has flushed (`wrote`). `set_enabled` and `revoke` are `LoadForStatus`,
`FlushStatus`; `rotate_token` is `LoadForRotation` / `RefuseRotation`, `ReadLimit`,
`RequireChain` / `ChainNotFound`, `Issue` / `IssueOrphan`, `FlushStatus`; `create_token` is
`LoadForCreation`, then the same `RequireChain` and `Issue`; `set_usage_limit` is
`LoadForLimit`, `ReadLimit`, `FlushLimit` / `LimitConflict`, with `Merge` for SQLAlchemy's update of only the columns that differ from
the loaded row; `set_assigned_chain` is `LoadForPin`, `RequireChain`, `FlushPin`,
`CheckParent` / `ParentGone` (the foreign key is checked after the row is written);
`delete_chain` is `LoadForDrop` / `DropNotFound`, `DropChain`, `UnpinAll` (SET NULL).

Abstractions: one chain; of a limit, its metric and its value; a new key's own limit at
`create_token` is left out (nobody else can see it before the commit). `reveal_token` and
`store_existing_token_secret` touch none of these columns.

| Run | Instance | Question |
| --- | --- | --- |
| `RoutingChains` | 2 calls of any kind, 1 gateway request, lists that clear the chain, fill one lane, or fill the other twice, the second of these possibly with an unknown account; the chain from before may be there or not | all invariants, `CommitHolds`, `EveryCallEnds` |
| `MixedLanes` | 2 upserts of one key, lists of one lane each | is an upsert atomic? **No** |
| `ClientTokens` | 3 calls: one of most kinds, one of the kinds that conflict with it, one that deletes the chain; 1 key from before, 3 limits of 2 metrics and 2 values | all invariants, `RotationKeepsSettings`, `LimitReplaced`, `EveryCallEnds` |
| `Unrevoked` | an enable or disable against a revocation | is revocation terminal? **No** |

Two calls meet in every pair of statements, and lists of two entries in one lane give
reused positions, gaps and conflicts in the middle of a list. For keys, the third call is
the deletion of the chain: pin, rotation and deletion are the three that share locks. Every
call may also run before or after the others, so sequences are covered as well.

The properties. *Chains*: `LaneIsOneDefinition` (a stored lane is all the entries one call
listed for it, in positions from 0), `CommitHolds` (what a call commits is its list, up to
overlapping calls in lanes it leaves empty), `FailsOnlyAgainstAnother` (or because the call's own
list names an unknown account),
`RouteServesLane` (the chain a request chose has an entry in its lane when it loads it,
unless the chain was written meanwhile). *Keys*: `RevokedUnlessRaced`, `OneSuccessor`,
`RotationKeepsSettings`, `LimitReplaced`; `PinnedChainExists` is only proved. The
exceptions they name are stated with `overlap`, a history of which calls were open together: they say exactly which
race each promise is exposed to. *Both*: `EveryCallEnds`.

Fairness (`FairSpec`): weak fairness of each call's own next step (`Serve`: the event loop
runs a ready coroutine, a statement returns once its locks are free) and of the database's
deadlock detector. None of `Ask`, nor of gateway requests.

Proved for `ClientTokens`, for every number of calls, every set of limits and any operations:
`TypeCorrect`, `RevokedKeysStayRevoked`, `RotatedOnce`, `NoDanglingPin`,
`RotationIsFaithful`, `LimitIsReplacedWhole`, all from one inductive invariant `IInv`. None
of the five is inductive alone: a status is written several steps after the load that
justified it. `IInv` adds which step and flushed column belong to which operation (`Fits`),
that open calls know of each other (`Overlaps`), that a call about to write over `revoked`
overlaps the revocation (`WritersRaced`), that who holds the chain as a parent excludes its
deletion (`ParentsHeld`), and what a loaded column still says (`LimitSeen`, `PinSeen`). All
steps of a call except its first and its commit are shown to be one kind of step, a `Move`
(`StepMoves`), so that each part of the invariant is proved three times, not twenty. The
deadlock detector and the locks that only liveness needs play no part in these proofs.
Assumptions: the names, operations and limits of the module's `ASSUME`s, evaluated in the
runs.

Proved for `RoutingChains`, for any number of calls and requests, any lists and any lanes:
`TypeCorrect`, `LanesAreDefinitions`, `CommitsHold`, `RoutesServeLanes` and `OneChainPerKey`
(`KeyNamesOneChain`, which no run checks), from the inductive invariant `IInv`, and
`FailuresHaveCause`, from `IInv` and `FailInv`. That a stored lane is one call's list is not
inductive, because two calls that replace a chain's entries do not see each other's rows.
`IInv` says of each call what it has done at its step (`Progress`: it has inserted a prefix
of its entries), that what it has deleted are whole lanes of its chain and that no slot it
has filled is taken (`Written`), and that the rows its DELETE missed are of calls it
overlaps (`Scanned`); of two open calls that they know of each other and never write the
same row (`Pair`); and of the stored rows that a lane has one writer, all of whose entries
are there (`OneWriter`, `Whole`). The step that matters is a commit: every list numbers
its lane from 0, so two lists of one lane meet in the unique slot 0, and whoever commits an
entry for a lane must have deleted everything stored for it (`NoneRemain`). The positions
themselves, a count over a prefix of the list, are shown to be `0 .. n - 1` for every list
(`PositionsContiguous`). `FailInv` says who a call that is about to fail has met: the one
that took the key, or dropped the chain, after this call had found the one free and the
other there. A deadlock's victim is in a cycle, so somebody waits for it; a call that waits
for the key has written nothing that anybody could wait for, so the victim waits for a call
on its own chain. The deadlock detector's promptness and the locks that only liveness needs play no part.

Model-checked only: both `EveryCallEnds`.

## 6. PendingConnect

State: the challenges handed out (`begun`), those still in Redis (`store`), those whose TTL
ran out (`expired`, history); the provider's side, codes it has issued (`grants`) and calls
it has said yes to (`honoured`); per call its `pc`, what it was asked (`call`) and the
attempts of its exchange (`tries`); and the committed `accounts`. A call's uncommitted
account is its place: from `persist` to `commit`.

`begin_subscription_connect` and `begin_device_subscription_connect` are `Begin`. A
completion is cut at its awaits: `Look` (the `store.get` and every check on what it
returned, for both flows), `Poll` (device codes), `Exchange` / `NotAccepted` (each attempt of
`UpstreamClient.request`, with `RetryOrGiveUp` and `GiveUp`), `Persist`, `Consume`, and
`get_session`'s `Commit`; `Discard` is the `store.delete` on a mismatched state or a rejected
device code. `connect_api_key` is `Validate`, `Persist`, `Commit`. `Fail` is any error that
is not a `ValidationError` (Redis, the database, a plain `httpx` call, the worker): it ends a
call anywhere, and after `Consume` it leaves the challenge deleted and the account rolled
back. `Consent` and `Redeemable` are the provider: a code is good once and only with the
verifier of its challenge. An exchange whose reply is lost is repeated with a spent code.

Abstractions: PKCE, claims, labels and encryption are data. The pasted input is a code (of
this challenge, another one, or none) and a state that is right, wrong or absent. A stored
device challenge always has its fields, since `Begin` refuses an incomplete one, so that
branch of the completion is not a step. An id never handed out behaves as an expired one.

| Run | Instance | Question |
| --- | --- | --- |
| `PendingConnect` | 2 calls of any kind, a redirect and a device challenge, 2 codes, 2 attempts | all invariants and `EveryCallEnds` |

Two calls meet at every pair of steps on one challenge or on two; two codes of one redirect
challenge (the operator consents twice) and a code pasted with the wrong challenge are both
in; two attempts are one retry.

The properties: `PaidOnce` (an account rests on the provider's yes to the call that stored
it, and a code makes one account), `ConsumedForGood` (a challenge
that made an account, or was refused for good, is gone), `ConsumedForCause` (and only
for such a reason or by its TTL: early polls, other challenges' codes and refused
exchanges of the redirect flow leave it), `AnswerIsTrue`, `EveryCallEnds`. They allow what
the code allows: `store.get` and `store.delete` do not exclude each other, so two completions
that overlap with two codes of one challenge make two accounts; once one of them has
committed, every later one is refused.

Fairness (`FairSpec`): weak fairness of each call's own next step, as in the other modules.
None of `Begin`, `Consent`, `Expire`, `Ask` or `Fail`.

Proved for every number of calls, challenges, codes and attempts: `TypeCorrect`,
`AccountsArePaidOnce`, `ChallengesAreConsumed`, `ChallengesEndForCause`, `AnswersAreTrue`, from
one invariant: what has been paid (`Payments`: a code is honoured for one call and its own
challenge) and what a call at a given step has already done (`Progress`: who is storing has
paid, who is committing has consumed, who is refusing a forgery has never paid). A step of a
call is first shown to touch only its own challenge, payment and account (`StepOf`). Assumed:
the `ASSUME`s of the module. Model-checked only: `EveryCallEnds`.

## 7. Translation and Streaming

`Translation` has no state. `ToProvider` is what `to_provider_request` of an adapter makes of
a chat request, `FromResponse` and `FromEvent` are `from_provider_response` and
`from_provider_stream_chunk`. Text, arguments, identifiers are opaque: a fragment of a reply
is `<<call, block, position>>`, so that a fragment of an abandoned attempt can be told from
one of the answer. Modelled are the shape of the conversation (system messages hoisted and
joined for two of them, assistant calls as blocks or items, tool results as user turns), the
required token
limit, the tool choice, `finish_reason`, the parts of a usage report and which event carries
what. An OpenAI-compatible provider is sent the messages as they came, system messages
included, and what it sends that is no chunk (an error object) does not validate (`IsChunk`).
`Response` and the `…Events` operators are the providers, external: the events of one
reply in the order their documentation and the adapters' comments give, Anthropic's two
reports of usage and the three ends of a Codex response included. `Assembled` is a
client joining chunks: text appended, fragments of tool calls merged by index. A sequence is
filtered by `Selected`, which puts rows of one element or none end to end with `FlattenSeq`;
the standard `SelectSeq` is an opaque recursive definition to the provers. Left out:
sampling parameters, tool definitions, model names.

`Streaming` is one request. Its variables are the locals of the functions on its path:
`target` and `renewed` of `_run_pipeline`'s loop and `_establish_stream_with_reactive_refresh`;
`tries` and `delay` (before the next attempt) of `UpstreamClient.request` and `stream`; the
wire (`reply`, `got`, `eof`, `torn`) and the parser's place in it (`read`, `data`) of
`iter_sse_data`; `items` of `_call_codex_non_streaming`; `chunks`, `usage` of
`_sse_response_stream`. Metering has two variables, because for a stream they come apart:
`recorded` is what `record_usage` was called with and counted in Redis, `stored` the ledger
row the database has committed. The actions: `Acquire` (credential and translation),
`Send`, then `Answered`, `Unanswered` (a timeout, a broken connection, 429, 5xx), `Refused`
or `ProtocolFails`; `Renew`; for a body `Arrive` (a network chunk of any size in
`ChunkSizes`), `Line`, `Skip`, `Forward`, `Invalid`, `Done`, `Eof`, `BodyFails`, `End`;
`Aggregate` and `ReportsFailure` for a Codex answer that was not asked for as a stream;
`Disconnect`; `Account`. A request ends `"untyped"` where an error that is no `GozarError`
escapes the fallback loop: in `Acquire` and `Renew` (the refresh lock's own errors, a token
reply that is not JSON), in `ProtocolFails`, in `Invalid`.

The wire is counted in pieces, seven an event: a keep-alive comment and its blank line, a
data line in two halves, and its blank line. A chunk of one piece cuts inside every line
and between the two newlines, one of four spans events. A chunk that ends between the
halves of a data line may also end inside a character of it: each chunk is decoded by
itself, malformed bytes replaced (`streaming.py:92`), so that event's text is altered
(`torn`, `Torn`); only the text can be, since everything else that is passed on is ASCII. `MaxTorn`
bounds how many events of a reply that happens to. `delay` counts halves of its unit,
because of the jitter. A response without a body to stream
arrives whole. A 3xx response is not modelled (the client follows none and treats it like a
success without a usable body).

| Run | Instance | Question |
| --- | --- | --- |
| `Streaming` | 4 routes that start with each adapter and fall back to two of them, under each policy, streamed or not; 4 replies (reasoning, then a text in two fragments, cut by its token limit; a text, then a tool call; two tool calls, unmetered; one that fails); chunks of 1 or 4 pieces, at most 1 event torn; 3 attempts, base delay 2, cap 3 | all invariants and `EveryRequestEnds` |
| `StreamPromises` | the same with one attempt | does a stream that ends as a success keep any of four promises? **Not every stream** |

The second delay, before the third attempt, is the first that the cap cuts (2 · 2 > 3); two
targets show every policy; a reply of two blocks has an item boundary, one with two tool
calls two indices; one torn event can come before, in and after any other.

The properties: `FromOneCall` (a client is sent the events of one HTTP request, in order,
each once, from the first, altered only where a chunk cut a character), `AnswerIsReply` (a
whole answer is the reply of one call, with nothing of an attempt that broke off; a stream
of which no character was cut adds up to it), `Metered` (nothing is recorded but what the
answering call reported; a whole answer's report is recorded and committed, a stream's
recorded), `RetriesBounded` (calls over attempts, renewal and fallback together; each delay
under the cap), `ConversationKept` (a well-formed conversation reaches every provider whole,
in order, from its own speakers), `EveryRequestEnds`.

Where the code falls short of the obvious statement, the property says so in its comment,
and where a line of the repository promises more, a run refutes it. `SomePromiseKept` is the
disjunction of four promises about streams that end as a success and were not cut short; a
single stream of Anthropic's breaks them all, so each of them is refuted by the one trace:

* `Reassembled`: "an event split across two network chunks is reassembled correctly"
  (`streaming.py:16-17`). A cut inside a character leaves replacement characters.
* `ReportRecorded`: "records the usage reported on the stream" (`pipeline.py:1237-1239`).
  The usage of `message_start`, the prompt, is not read (`translation/anthropic.py:404`).
* `StoredLikeWhole`: "metered and traced just like non-streaming ones"
  (`pipeline.py:1349-1352`). What is recorded at the end of a stream is never committed.
* `FailureTold`: "a mid-stream failure finalizes the trace as a failed outcome"
  (`pipeline.py:1239-1240`). One the provider reports in the stream is skipped.

Nobody promises the rest: a streamed Codex reply with several tool calls gives them all
index 0; it ends in `stop` whatever ended it, or without a `finish_reason` and a usage when
it reached its token limit (`response.incomplete`, which neither `translation/codex.py:392`
nor `upstream.py:194` knows; not streamed, that answer is retried over the fallback as a
failure); and a provider that closes its stream early, but cleanly, is told as a success,
which is what `Uncut` excludes.

Fairness: `WF_vars(Next)`. A call is answered or times out (`httpx` has timeouts for
connecting and for every read), and every other step is local, so the process as a whole
never stops; nothing says *which* step comes, and in particular no answer is assumed. A
provider that keeps sending for ever is excluded by the finite reply.

Proved for any routes, replies, chunk sizes, attempts and delays: `TypeCorrect` (the
fallback's index stays inside the route although only `TargetFails` guards it),
`ClientsSeeOneCall`, `CallsAreBounded`, `UsageIsMetered` and `AnswersAreReplies`, from one
invariant, `IInv`, that TLC checked before it was proved, and `ConversationsAreKept`, from
that and `SentInv`. None of the properties is inductive.

* `CallsInv` and `DelayInv` (for `RetriesBounded`): the calls already spent on earlier
  targets, on this target before its renewal (`Budget`) and on this attempt. No delay
  exceeds its cap whatever `2^n` is; that a delay doubles is no property.
* `RowInv` and `ReadInv`: where the parser stands in the seven pieces of an event tells how
  many events it has dispatched (`At`, and `AtEnd` once the wire is closed), and so many are
  in `chunks`, or in `items` (`Progress`). Before the first, none are: a retry, a renewal
  and a fallback start from nothing. A chunk can tear only an event that is still to be
  dispatched, and as long as nothing has arrived none is torn: what was passed on stays
  what it was.
* `UsageInv` and `OutcomeInv`: the usage known is the one told in the chunks so far, which
  tearing leaves alone; a success has a whole answer or, if the provider did not cut its stream short, every chunk of
  the row the client is owed (`ClientRow`).

That row is where the data comes in. `Becomes` says that the events of a provider, translated
one by one, are the row: a first chunk, the chunks of each block, an end, and for a
compatible provider's failure one event more that is no chunk (`Passed`). Only the end tells
a finish and a usage, which gives `Metered`. For `AnswerIsReply` the client's `Assembled` is
taken apart into what each kind and index picks out of the row, the whole answer into what
each block contributes, and the two meet call by call where an adapter numbers its calls
apart (`Numbered`: Anthropic by block, a compatible provider by count; `CallsMeet`); the one
index of Codex is enough for one call (`OneCallMeets`). The prover has no induction over
sequences; the lemmas on rows put end to end (`Flat`, `Picked`) rest on `NatSteps`, that a set
which holds 0 and each successor holds every number, which comes from the well-foundedness of
`<`. Assumed: the `ASSUME`s of the module, of which `RepliesAssumption` says that a reply has
blocks of the three kinds, with some number of fragments, and one of the four ends that the
`Response` and `…Events` operators know.

`ConversationsAreKept` is about the way to the provider, for conversations of any length and
content. `Words` names what they hold, a name for each part and each call. From the
translation until the target fails or has answered, what is sent is this request for this
target (`SentInv`, which is inductive by itself). The row an adapter makes of a message says
what the message says, each thing once (`Says`; a block each for Anthropic, an item each for
Codex, the message itself otherwise). The turns are the messages filtered (`FilterPlaces`;
all of them for a compatible provider), what is heard is their rows put end to end (`FlatPlaces`: where each element comes from, in
order, all of them), and no two messages say the same (`SaidTwice`), so the owner of a thing
heard is the message whose row it stands in. `WellFormed` is a condition in the property
itself, not an assumption: the code accepts any role with any content (`role: str`,
`content: Any`, extra fields allowed), and a conversation that OpenAI's API would refuse can
lose something. The calls of a message that is not an assistant's are dropped for Anthropic
and Codex, and an image in a tool's result has no place in either.

Model-checked only: `EveryRequestEnds`.

## 8. UsageWindows

State: the clock `now` in ticks; the persisted `limit`; Redis as `count` and `expiry` per
metric, window and bucket; `ledger`, a history of what was recorded. Per request its `pc`,
the `moment` the pipeline took once, the limit it was checked against (`seen`), how many
buckets it has read (`back`) and their sum (`total`).

`Begin` is `_enforce_token_limit` up to the first GET, `ReadBucket` one GET of
`read_counter`, newest bucket first, `Decide` is `_limit_reached_for`; `Record` is
`_increment_counters`, one MULTI/EXEC over both metrics and all windows, adding to the
buckets of the request's `moment` and starting their lifetime anew; `Fail` is every way of
not getting there. `SetLimit` is the console; `Tick` the clock, which only waits for a check
that has begun (`MaxRead`): a check is a handful of GETs, its buckets keep for an hour more.

Abstractions: one subject; the calendar is a function from ticks to buckets, so that hours,
days and months are values of one constant (`window_bucket`); a percentage is compared
as an exact fraction, the rounding of floats left out. Whether the account's own limit is
evaluated in a window is the same read.

| Run | Instance | Question |
| --- | --- | --- |
| `UsageWindows` | 3 symmetric requests, 10 ticks, two ticks an hour; windows: none, a day of 6 ticks, a rolling one of 3 hours; lifetimes as in the code, an hour more than the rolling window and twice the day; a percentage and a request limit; 0 or 2 tokens | `LiveBucketKept`, `DecisionsSound` |

Ten ticks let the first bucket expire and a late answer, recorded to an old bucket, renew
it; a third request is needed for a write between two reads of a check whose window already
holds something.

The properties: `LiveBucketKept` (a bucket that a check may still read holds exactly what
was recorded in it) and `DecisionsSound` (a request is let through only if its window held
less than the limit when the check began, and refused only if it held as much by its end).
Deadlock is not checked: the clock stops at its bound and every request has ended. No
fairness is assumed.

Proved for every number of requests, every calendar, span, lifetime and limit with
`CountersOutlive` (a counter's lifetime is longer than what is left of its window plus a
check; months and weeks are calendars like any other): `TypeCorrect`, `CountersAreKept` and
`DecisionsAreSound`.
The invariant (`Kept`) says of every bucket, not only of those a check covers, that its
counter is exact, or that no check can cover it any more (`Spent`), however late it is
written again. `ReadInv` bounds every check under way (`Between`): what it has added up is at
most what the buckets it has read hold now, and with what the unread ones hold now at least
what the whole window held when it began (`floor`). `ReadOf` carries that to the decision.
Sums over sets of buckets are the community modules' fold, a
`CHOOSE`; that it exists, is unique, adds an element and is monotone is proved by
well-founded induction over finite sets (`SumDef`, `SumRemove`, `SumGrows`).

The comments call the Redis counters rebuildable from the ledger; no code rebuilds them.

## 9. Findings

The five violation runs show, each on a short trace, where the code does not do what its
comments say; `PROJECT.json` quotes the lines.

* `FalseReauth`: a second refresh re-reads the identity map's object, not the row, and is
  refused, so a healthy account is flagged for reauthorization.
* `SharedExchange`: two requests exchange the refresh token at once, because the lock's TTL
  is shorter than an exchange may take.
* `MixedLanes`: two overlapping upserts of one key can leave a chain neither asked for.
* `Unrevoked`: an enable or disable writes over a revocation committed after its load.
* `StreamPromises`: of a stream that ends as a success, a character cut by a chunk is
  altered, Anthropic's prompt tokens are not recorded, what is recorded is never committed,
  and a failure the provider reports is told as a success; four findings, one trace.

Seen while modelling, without a run: `httpx.RemoteProtocolError`, the peer closing early, is
in no list of retryable transport errors (`providers/client.py:48-56`) and leaves the
pipeline as an untyped error (`ProtocolFails`); the `refreshed` flag recorded for a stream
attempt is the inverse of what happened (`gateway/pipeline.py:1202`); a tool choice of
`none` is dropped for Anthropic while the tools are sent.

## 10. Not modelled

* Console authentication (bootstrap of the first administrator, login, sessions in Redis):
  independent of the proxy. Its one race, two first-run requests that both create an
  administrator (`auth/service.py:163`), is listed as a hazard without a property.
* Analytics, account health, the provider registry and model catalogs: read-only
  aggregation or static tables; no state that a request depends on.
* Migrations, deployment, the frontend: run once, static, or behind the REST API.
* Of the REST API, request validation and the read-only views; of client tokens, `reveal`
  and storing an old key's secret; encryption and log redaction (pure functions).

Liveness is model-checked, not proved: it is beyond the prover. Every safety property of a
passing run has a theorem.

## 11. Running

    tlc -config SubscriptionRefresh.cfg SubscriptionRefresh
    tlc -config Gateway.cfg MCGateway
    tlc -config RoutingChains.cfg MCRoutingChains
    tlc -config ClientTokens.cfg MCClientTokens
    tlc -config PendingConnect.cfg MCPendingConnect
    tlc -config Streaming.cfg MCStreaming
    tlc -config UsageWindows.cfg MCUsageWindows
    tlapm Gateway_proofs.tla

and the same for the other configurations and `…_proofs` modules. Each run takes less than
five minutes with two workers.
