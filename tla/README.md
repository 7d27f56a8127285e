# Formal models of prb-effect

TLA+ specifications, model-checking runs and machine-checked proofs for the
packages of this repository (`evm`, `evm-safe`, `next`, `solana`, `xstate`).
Most of the lines outside the tests are type declarations, documentation
comments, and adapters between Effect and viem, Next.js, web3.js or React that
keep no state. The models are about the rest: the places where several fibers
share state, where a process may die between two writes, where a node may lag or
reorganise, and where an answer may come too late.

Paths in this file are relative to `src/`. A line range in brackets is the code
a definition stands for; `PROJECT.json` has the full map.

## 1. Inventory

| Part | State | Operations | Talks to | What is hard |
|---|---|---|---|---|
| NonceManager, NonceService (`evm/src/nonce`) | per (chain, address): confirmed floor, set of pending nonces | reserve, release, confirm, sync, getGaps | node (transaction count), contract pipeline | reads of the node that are stale when used; several fibers per account |
| writeAndTrack (`evm/src/contract/pipeline`) | TxState, current hash, attempts, a worker fiber, a block fiber, a Deferred | preflight, write, receipt loop, automatic replacement, cancel, speedup, scope | wallet, node, NonceService, TxReplacement | three kinds of fiber writing one state; interruption; replaced transactions |
| TxManager.track (`evm/src/tx/manager.ts`) | the same without a worker's preflight | track, cancel, speedup | node | the same |
| TxPersistence, LocalStorageTxStore (`evm/src/platform/browser`) | records and index in localStorage; a fiber per transaction | trackAndPersist, rehydrateAll, upsert, getInFlight, prune | TxManager, storage, other tabs | crash, two trackers of one transaction, read-modify-write of the index |
| LocalStorageCursorStore | pending slot per key, flush loop, value in localStorage | get, set, delete, scope | storage | who owns the slot: handover between a loop that ends and a call |
| CursorStream over EventBackfill and EventStream (`evm/src/events`) | cursor, the session's position | syncWithCursor, watchWithCursor | CursorStore, node | no gap, no repetition, over sessions, crashes and lagging nodes |
| ReliableEventStream (`evm/src/events/reliable-stream.ts`) | pending events by block, location by key | watch | log subscription, block number poll | reorganisations; two fibers on one map |
| RpcCache, dedup, QueryClient, ChainHead (`evm/src/rpc`, `evm/src/query`) | entries, access order, reads in flight, invalidator per chain | query, watch, invalidate, invalidateBlock | node, head stream | sharing a read; a value filed under the wrong block |
| Circuit breaker, transports (`evm/src/rpc`, `evm/src/presets/layers.ts`) | failures, state, time of the last failure; requests in flight by key | execute, reset; request | node | results that arrive after the state has changed; failures counted once per request, not per caller |
| Multicall batcher (`evm/src/query/multicall-batcher.ts`) | requests waiting in a resolver | enqueue, group, multicall | node | whose answer is whose, with failures and interruptions in one batch |
| Contract preflight and errors (`evm/src/contract/pipeline/internal/prepare.ts`, `evm/src/core/errors`) | final gas, warnings | estimate, simulate, write | node, wallet | one error read in several places, by class and by words |
| Fees (`evm/src/tx/fees.ts`, `replacement.ts`, `evm/src/gas/estimator.ts`) | none but the offer | derive, bump | node | rounding, caps and overrides meeting in one offer |
| Wallet (`evm/src/wallet`) | reference to the provider | connect, switch, sign, streams of accounts and chain | EIP-1193 provider | the first answer racing the provider's events; refusals wrapped in other errors |
| React integration (`evm/src/integrations/react-hooks`, `evm-safe/src/react-hooks`) | runtime of a layer, scopes and fibers of effects, snapshots | mount, render, unmount | React | cleanup while a scope or a runtime is being made |
| Allowances, deployments, EIP-7702 (`evm/src/erc20`, `deploy`, `eip7702`) | where a sequence of calls is | ensureAllowance, deployAndTrack, delegateAndExecute | contract writer | one of several transactions failing |
| Safe (`evm-safe/src/safe`) | poll state of a proposed transaction | wait, writeAndTrack, allow and write | Safe service, node | queued for hours; executed, cancelled or unknown at the timeout |
| Persistent cache, rate limit (`next/src`) | entries in an external store, refreshes in flight; windows | cached, refresh, increment | store | stale-while-revalidate with coalescing; boundary of the window |
| Solana transactions (`solana/src/tx`) | none but the poll | build, sign, send, confirm, batches | node | expiry of the blockhash against a late status |
| XState machines (`xstate/src/machines`) | machine state and context | SUBMIT, RESET, EXECUTE | user's services | events while a service is running |
| Everything else | none | requests, encodings, layers, hooks, mocks | viem, web3.js, Next.js, React | nothing a model would show |

How the modelled parts interact: writeAndTrack reserves its nonce from
NonceService, whose ledger every other write of the account shares, so the two
are composed (`NoncePipeline`). Its receipt loop publishes a TxState; the same
loop in TxManager feeds TxPersistence through a subscription, so these are
composed with the store and the browser's storage (`TxPersistence`). CursorStream
needs a CursorStore, of which there are two. The one in memory answers the last
set. The one over localStorage buffers a set and answers what it has written, and
`CursorBuffer` is what its callers may know of it: `CursorStore`, the detailed
model of its loops and slots, implements `CursorBuffer`, and `CursorSync` runs the
sessions of a stream on the same `CursorBuffer`. QueryClient, cache, dedup and the invalidator
fiber share state and are one module. The other parts meet in the application's
own code and share no state of the library; a module each, they are checked
side by side (`MCEvents`, `MCPages`, `MCCalls`, `MCFlows`).

What makes each part correct is stated in section 4; the 40 hazards behind the
properties are listed with their lines in `PROJECT.json`.

## 2. Modules

| Module | Models | Composition |
|---|---|---|
| `NonceManager` | the ledger of one key: one operator per operation of `makeNonceManager` | used by `NoncePipeline` |
| `NonceLease` | the abstract promise: a spendable nonce is leased to one transaction at a time | refined by `NoncePipeline` |
| `NoncePipeline` | concurrent writeAndTrack calls of one account: reserve, write, nonce-too-low recovery, fallback, confirm, interruption | extends `NonceManager`, instantiates `NonceLease` |
| `TxTracking` | one writeAndTrack call with all its fibers and its scope | in `MCPages` |
| `TxPersistence` | TxManager.track, the persistence fiber, the store, a second tab, crash and restart | |
| `CursorBuffer` | what the throttled cursor store promises for one key | instantiated by `CursorStore`, extended by `CursorSync` |
| `CursorStore` | one key of the cursor store | in `MCEvents`; implements `CursorBuffer` |
| `CursorSync` | sessions of one cursor stream, on either store | in `MCEvents` |
| `ReliableStream` | one reliable event stream | in `MCEvents` |
| `QueryCache` | cache, dedup, invalidator, readers and watchers | in `MCCalls` |
| `RpcGuards` | the circuit breaker, and the transport with its breaker and shared requests | in `MCCalls` |
| `ReadBatch` | the multicall batcher | in `MCCalls` |
| `Preflight` | estimate, simulation and write of one contract call, and what is told of its errors | in `MCCalls` |
| `Fees` | the offer of a transaction and of those that replace it | in `MCCalls` |
| `WalletView` | provider reference, account stream and `useStream` | in `MCPages` |
| `HookRuns` | `useEffectMemo`, `useEffectMemoFactory`, `useWalletExecution` | in `MCPages` |
| `PageRuntime` | the providers' runtimes and `useForkEffect` under them | in `MCPages` |
| `Workflows` | the transaction, form and facilitator machines | in `MCFlows` |
| `NextServer` | the persistent cache for one key, and the rate limit | in `MCFlows` |
| `SafeTracking` | a write through a Safe, its wait, and the adapter that mirrors it | in `MCFlows` |
| `SolanaConfirm` | a batch of Solana transactions | in `MCFlows` |
| `Submissions` | ensureAllowance, safeMultisigAllowAndWrite, EIP-7702 delegation, deployAndTrack | in `MCFlows` |
| `Rejections` | how a wallet's refusal is found in an error, and the calls that might ask again | in `MCFlows` |
| `SeqFilter` | `Array.prototype.filter` for an element's membership in a set, as a recursive function | used by `QueryCache` and `ReadBatch` |
| `*Proofs` | theorems: `NoncePipelineProofs`, `CursorStoreProofs` and `TxPersistenceProofs` about the module they are named after; `EventsProofs`, `PagesProofs`, `CallsProofs` and `FlowsProofs` about the modules that `MCEvents`, `MCPages`, `MCCalls` and `MCFlows` check side by side; `SeqFilterProofs` has the lemmas on filtered sequences and on induction that two of them cite | extend them and TLAPS |
| `MC*` | what TLC is pointed at: symmetry sets, larger constants, or a sum of modules | extend the modules they check |

`MCEvents`, `MCPages`, `MCCalls` and `MCFlows` are sums: a behaviour chooses a
part at the start, that part moves as its own module says, and the others rest in
one initial state. So TLC explores the state spaces one after the other, under
the fairness each module states, and finds in each what it would find alone.
Nothing is lost by it, since the parts have no variable in common.

### Conventions

A step is what a fiber does between two points where it waits. Effect runs one
fiber at a time and switches only where an effect is asynchronous or yields, and
`Ref.modify` is atomic; so operations on refs without a wait between them are
one step, while a request to a node, a wallet or storage, a sleep and the
delivery of a stream element separate steps. A request that is out may be
answered, may fail, and may fail after it took effect; an interrupted fiber does
not recall what it asked for.

What is outside the repository (chain, node, wallet, storage, another tab) is
modelled by what the code may rely on, and no more: a node may lag, a block may
be reorganised where a module says so, a wallet may never answer. These
definitions are marked external in the map.

Definitions whose comment begins with "Mutant:" are not part of a model. Each is
a plausible defect of the definition that follows it: put in its place, it makes
TLC report the property named in `PROJECT.json`, which shows that the property
can fail and is looking at the code.

### How state and actions correspond to the code

**NoncePipeline.** `confirmed` and `pending` are the two maps of
`makeNonceManager` at one key, an absent entry being 0 or the empty set. `pc` is
where each call is; `reserved` is `NonceReservationResult.reserved`; `attempt`
counts to `MAX_MANAGED_NONCE_TOO_LOW_RETRIES`. `Reserve` is the uninterruptible
acquire of `withNonceReservation` together with `NonceService.reserve`: the
transaction count it awaits is any count up to the true one, which covers both a
lagging node and a count that other fibers have overtaken. `WriteGivenUp` is the
end of an attempt's scope before `markSubmitted`, for whatever reason, and
`NonceTooLow` is `recoverManagedNonceTooLow`. `Broadcast` is separate from
`WriteReturns` because the answer may be lost.

**TxTracking.** `run` is the worker forked in the caller's scope, `watcher` the
block fiber that exists during the receipt loop, `request` and `reply` the
replacement requests of the users and of the block fiber. `status`, `shown` and
`currentHash` are the SubscriptionRef and the ref that `actions` read. A
`Deferred` completed by the worker or, if it never ran, by a finalizer, is
`terminal`. The chain mines at most one transaction of the nonce and may take it
back.

**TxPersistence.** `phase`, `awaited`, `attempts`, `shown` are `track`'s; `feed`
is the subscription that the persistence fiber reads; `place`, `lastStatus`,
`currentHash` are the fiber's. An upsert is three steps, `WriteTx` (the record),
`LoadAll` (the index and all records it lists are read and what to prune is
chosen), `Prune` (removals and the index). `TabLoads` and `TabWrites` are the
same two halves in another tab. `Crash` keeps records, index and the chain.

**CursorStore.** `slot` is the entry of the pending map; `NoSlot`, `Drained` and
`Tombstone` stand for its absence, a null cursor and `deleted`. A loop is at
`sleeping`, `writing`, `removing` or, on its way out, `leaving`; `landed` tells
whether the storage operation has taken effect. `Buffered`, `Taken` and `Removal`
are how this looks in `CursorBuffer`: the cursor in the slot, the one a loop is
writing, and whether a tombstone, a loop or a call is there to remove the key.

**CursorSync.** A session is `resolving` a head, in `backfill`, or `live`;
`page` holds what was fetched and not pulled, `hand` the event whose cursor is
set and which the consumer has not got yet. `saved` is what `get` answers: in
memory the last set, in localStorage what was written, with `buffered` and `taken`
on their way there. `reached` is how far this session has moved the cursor,
wherever it is stored.

**ReliableStream.** `pending` is `pendingByBlock` with its entries, `location` is
`locationByKey`; `wire` are notifications not handled yet, in order per event,
and in any order between events. The poll has two steps, so the head may move,
and a removal arrive, before what it confirmed is emitted.

**QueryCache.** What a read returns is the block it was answered at, which is
all the properties need. `leader` is the table of reads in flight; `Settle` is
`Deferred.into` with its cleanup; `tag` is the answer of `chainHead.current`.

**RpcGuards.** `circuit`, `failures`, `successes` are `stateRef`; `running` are
the calls that were admitted, and the answer of each comes whenever it likes,
also after the circuit has opened, closed or been promoted (`Answered`,
`recordSuccess`, `recordFailure`). `consecutiveFailures` and `sinceOpened` are
the transport's, `flights` its requests in flight, which several callers may
wait for. `dead`, `bad` and `okProbes` are histories.

**ReadBatch.** `enqueue` is a request handed to the resolver, `RunBatch` a batch
of at most `MaxBatch` of them, grouped by chain and options; a multicall answers
for a whole group, and `outcome` is what each fiber got.

**Preflight.** `Estimated`, `Simulated` and `Written` are the stages of `prepare.ts`
and of the write that succeed, in the modes strict, best-effort and none, and
`Throws` is a stage that does not. What is thrown
is an error and perhaps its cause, of a class of viem's and saying some of the
words the code searches for; `toUserFacingTxError` and what it calls are
operators on such errors.

**Fees.** `Derive` is the first offer, `Replace` the next one; the operators have
the names of the functions. Amounts are the numbers the chain answers with.

**WalletView.** `requested`, `wire`, `inbox` and `out` are the four places a
value of the accounts can be on its way from the wallet to the page: asked for,
sent, in the inner stream's queue, taken by `switchMap`. `scoping` and
`streaming` are the runs of the hook's effect before and after `makeScopedRun`.

**HookRuns.** `effects` numbers the effects React has run; `at` is where the run of
each is (debounced, scoping, running, closing) and `result` what became of it;
`inFlight` and `lastRun` are the refs of the hook. In the execution part, `inputs`
is what the last render read and `committed` what the last effect was run for.

**PageRuntime.** `mounts` numbers the provider's effects; `runtimeAt` is the
runtime of each, `built` the one in the React state, `childAt` an effect of
`useForkEffect` under it. `Commit` runs all cleanups of the last commit and the
new effect in one step, as React does.

**Workflows.** An action is an event together with the transition of `machines/*.ts`
that handles it; context fields carry the number of the submission, save or check
they came from. `asked`, `signed`, `creates`, `made` are what the services have
been asked and have done, late answers included.

**NextServer.** `req` is where a request is, `snap` the entry it has read, `flight`
the table of refreshes, `refresh` the fiber of each. The store's steps are
separate, so an entry may change between the read and the delete. `counts` and
`through` are the windows, and what was let through in each.

**SafeTracking.** `fate` is what the signers and the chain make of the proposal,
`indexed` what the Safe service has learnt of it. `safeRun` is the program,
`polled` the answer it works on, `result` the Deferred; `published` and `mirror`
are the adapter's subscription and fiber.

**SolanaConfirm.** `at` is where the effect of each transaction is, `chain` what the
cluster has made of it: waiting (`pool`, or `lost` after a fork that held it has
lost), in an open fork (`processed`), `confirmed` or `finalized`. `commitment` is
`opts.commitment`, the same for a whole batch, with which `hasReachedConfirmation`
judges a status and `getExpiredAt` asks for the height. `Statuses` is what a node
may answer: a node learns that a transaction has reached the commitment at most
`StatusLag` after it did, and a failure in any fork is answered as one.
`MayBePast` is whether the height it names may be past the lifetime: at
`processed` that may be an open fork's. `expiredAt` is the time since the poll saw
the blockhash expire. Assumed of the cluster: a confirmed block stays, and
`StatusLag` is below the grace period.

**Submissions.** Four small machines: `ensureAt`, `allowAt`, `delegateAt`,
`deployAt` are where each call is, with the chain's part beside it.

**Rejections.** An error is a node of a graph with its mark, cause and others;
`checkUserRejection` and `checkLikelyUserRejection` are recursive functions on
its depth, and the calls that read them are actions.


## 3. Bounds

A bound keeps a number finite that the code lets grow. Each is chosen so that
whatever the properties are about happens at least once, and happens again while
the first is still under way.

| Run | Bounds | What they let happen |
|---|---|---|
| `nonce_pipeline`, `nonce_gaps` | 3 writers (symmetric), nonces 0..2, 1 retry | two writers collide while a third recovers; a floor that overtakes a reservation |
| `events`, cursors | 3 loops, 3 sets, 2 deletes | a third loop beside one that ends and one that removes; a delete between two sets |
| `events`, sync | blocks 0..1, log indexes 0..1, batches of 1, 1 failure, 1 crash, both stores | a batch that ends inside the backfill, a stop inside a block, a session that resumes before a write, beside one under way, and behind a lagging node |
| `events`, reliable | 2 events, heights 0..2, 1 confirmation, 2 reorganisations, 1 failed poll | an event that is included, removed, included again; a removal between the two steps of a poll |
| `pages`, transaction | 2 users, 1 automatic attempt, 1 retry of a wait, 4 hashes, 1 reorganisation | a cancel, a speedup and an automatic replacement that cross |
| `pages`, wallet | 2 wallets, 1 change of accounts each, 2 sets, 2 renders | a wallet replaced while its request or its event is under way |
| `pages`, hooks | 2 keys, 3 effects; 2 addresses on 2 chains, 2 commits | a run cleaned up while its scope is made, a skip after a skip; an answer for inputs of two renders ago |
| `pages`, runtime | 2 layers, 3 mounts | a layer that changes and changes back while runtimes are built and closed |
| `calls`, query | 2 keys, a cache of 1, a reader and a watcher, blocks to 2 | eviction of the other's key, a new block during a shared read |
| `calls`, guards | 3 callers, both thresholds 2, timeout 2 | two late answers after the circuit opened, a probe beside them |
| `calls`, batch | 3 reads, batches of 2, 3 keys of which one names an account | a group split over two calls, a read apart in the same batch |
| `calls`, preflight and fees | every error of one or two nodes with one word or the pairs that exclude each other; amounts 0, 1, 7, 2 bumps | a class in the error and another in its cause; the smallest bump, rounding and the caps |
| `tx_persistence` | 1 transaction, 1 replacement, 1 crash, 1 failing storage operation, another tab | rehydration beside the first tracker; a failed write of each kind |
| `flows`, machines | 3 events of each kind | a late answer after a reset and a new submission |
| `flows`, server | 2 requests, ttl 1, stale for 1; 2 clients, limit 2, window 2, wall clock 3 | stale and expired reads beside a refresh; a window that ends and one that begins |
| `flows`, Safe and Solana | 3 attempts; 2 transactions, 1 retried send, grace 2, lag 1, every commitment (`processed` one by one only) | a budget that ends at the last poll; expiry seen before a status that lags, a receipt whose fork loses |
| `flows`, submissions and refusals | allowance 2, account nonces to 2; 3 errors, depth 1, 2 writes | a reset and an approval, a crossing transaction; a refusal in reach, at the limit and past it, and a cycle |

The depth to which a refusal is looked for is 4 in the code
(`evm/src/core/errors/tx.ts`); the recursion is the same at depth 1,
and three errors reach past it. The theorems of section 5 hold for all values of
the constants, so for their properties the bounds only limit how TLC looks for
mistakes in the statements.

## 4. Runs

### Runs that pass

Every property has a mutant in `PROJECT.json`; where a property leaves a case
out, a history variable says when that case occurred, and all other behaviours
are covered.

* **nonce_pipeline.** `NoSharedNonce`: no spendable nonce is with two writers.
  `LedgerAccounted`: the floor does not pass the chain, no reservation is left
  without a holder, and one in use stays. `RetryGoesUp`: after nonce-too-low the
  retry is higher, even if every read is stale (`lowered`: unless the application
  lowered the floor by a sync). `ImplementsLease`: the pipeline refines
  `NonceLease`.
* **events.** `StoreConsistent`: a slot in use has a loop that will read it again
  (`OwnedSlot`), there is one writer per key, and storage agrees with the last
  call at rest. `NoStaleOverwrite`: an older cursor never replaces a newer one.
  `ImplementsBuffer`: the store refines `CursorBuffer`, so one cursor is written
  at a time, a delete drops what is buffered, and a removal lasts until the write
  that was under way is over. `EventuallyPersisted`: the last request reaches
  storage. These leave out a loop killed by a defect (`died`), a value lost to a
  failed operation or to the closing scope (`excused`) and crossing deletes
  (`crossed`); for the first and the last there are runs below. `SyncSound`:
  nothing at or before the cursor was missed and nothing delivered twice, but for
  what was in hand at a crash (`skipped`) and behind a cursor that a crash took
  back, or that a session resumed from before a later one was written (`rolled`).
  `evm/DOCS.md:810` says "exactly once" without that exception: it is so with the
  store in memory (`ReplayedOnce`, part of `SyncSound`), but the throttled store's
  `get` reads storage and not the slot, so a stream started again within the
  throttle of the last event, in the same page, delivers again what the slot has a
  cursor for. `CursorAdvances`, `AllDelivered`: the cursor moves back only in a
  crash, to an event of `rolled` or to one before `From` that a lagging head
  brings up, and everything arrives. `EmissionSound`: what is pending stands,
  nothing is dropped, repeated or early. `EventuallyEmitted`: what stays on the
  chain and is deep enough is emitted.
* **pages.** `ShownSound`: the hash shown is the one replacements act on, and the
  awaited outcome agrees with the state (`late`: but for a user's action answered
  after the receipt). `SettledStays`: no block and no automatic replacement
  changes a settled state. `EventuallySettled`: who waits and who looks get to
  know. `WalletShownIsCurrent`: at rest the page shows the accounts of the wallet
  that is set (`unanswered`: a failed request shows none until the next change).
  `HooksSound`: a hook shows what belongs to its inputs, and the page routes to a
  Safe only if there is one. `RuntimesSound`, `RuntimesReleased`: children never
  see a runtime that is another layer's or being closed, and every runtime is
  closed exactly once.
* **calls.** `CacheSound`: entries, index and access order agree. `FlightsLed`:
  one read in flight per key, and whoever waits waits for someone. `QueryEnds`:
  every query ends, whoever of those that share its read gives up. `GuardsSound`:
  the breaker and the transport open and close for cause, whatever answers come
  late. `BreakerRecovers`: it closes once the node is well. `BatchSound`: each
  fiber gets its own answer, at its block and for its account. `PreflightSound`:
  the wallet is not asked after a refusal or a proven lack of funds, and what the
  user is told does not depend on the stage that threw. `FeesSound`: nodes accept
  the fields of every offer, each replacement outbids the last, and caps hold.
* **tx_persistence.** `RecordsTrue`: a record says "mined" only of what was, and
  is settled once its trackers are through (`lost`: unless a write failed).
  `RecordsKept`: a settled record is not reopened and one in flight not pruned
  (`doubled`: unless two trackers had it at a time).
* **flows.** `WorkflowsSound`: the machines sign once, with the inputs of the
  submission, wait for the check asked for last and create what it found
  eligible. `ServerSound`, `CacheRequestEnds`: one refresh at a time, a window lets
  no more than the limit through, and every request ends. `SafeOutcomeTrue`,
  `SafeResolves`: what is told of a Safe transaction has happened, and everyone
  who waits is told. `SolOutcomeTrue`, `SolConfirmEnds`: at `confirmed` and
  `finalized` a receipt is for good, "expired" for one that never will be
  executed. At `processed` the code accepts any status
  (`solana/src/tx/service.ts:141`): there a receipt says that some fork took the
  transaction, which may lose or end in another result, and nothing follows from
  "expired". Confirming ends at every commitment.
  `SubmissionsSound`: a Safe gets the transaction once, a delegation that succeeds
  has executed (`crossed`: unless another transaction of the account came in
  between), a contract shown as deployed is there. `ApprovalAsksInTurn`: the
  wallet is not asked after a refusal, nor for the approval before the reset is
  mined. `DeclinedIsFinal`: a refusal in reach is told as one and not asked about
  again.

### Runs that end in a violation

Each checks what a comment, a document or a test says and the code does not do;
`PROJECT.json` has the quotation and the steps.

* **nonce_gaps** (`GapsAboveFloor`, `evm/src/nonce/manager.ts:137`): getGaps reports
  nonces below the confirmed floor.
* **cursor_wedge** (`NeverWedged`, `cursor-store/local-storage.ts:229`): a loop that
  dies in its write while a newer cursor is buffered wedges the key.
* **cursor_crossed** (`LastCallWins`, `cursor-store/local-storage.ts:228`): the
  finalizer of a loop that no longer owns the slot takes the tombstone of the
  loop forked after it; a later set is then undone. Needs storage operations
  that take time, which `BrowserStorage` allows and `localStorage` has not.
* **preflight_revert** (`RevertIsNoGasShortage`, `core/errors/user-facing.ts:205`): a
  revert whose reason speaks of a balance is told as a lack of gas funds.
* **query_stale** (`WatchConverges`, `query/client.ts:110`): a watched value can stay
  old although a new block arrived.
* **tx_orphans** (`InFlightListed`, `tx-store/local-storage.ts:346`): with two tabs a
  transaction in flight can drop out of the index.

### Deadlock

`nonce_pipeline`, `nonce_gaps` and `query_stale` check it. The other
configurations switch it off because their systems may rightly stop: all calls
are made or answered, the scope is closed, the stream has ended.

### Fairness

Safety is stated without fairness. Liveness assumes what Effect and the code's
own bounds provide: a fiber that can run is scheduled, an operation with a
timeout or a budget of retries ends, finalizers run. Nothing is assumed of users,
wallets or the chain.

| Module | Fair | Because |
|---|---|---|
| `CursorStore` | `LoopStep`, `DeleteReturns` | the clock runs, storage operations end, well or not |
| `CursorSync` | `Session` | the session's fiber runs, and the application starts it again after a failure, which is bounded |
| `ReliableStream` | `Handle`, `PollReads`, `EmitConfirmedEvents` | both fibers run and the node answers |
| `TxTracking` | `RunStep`, `CloseStep` | preflight calls end, waits for a receipt have a timeout, finalizers run; the wallet owes no answer and the chain no block |
| `PageRuntime` | `PageStep` | building and closing a scope end |
| `QueryCache` | `ReaderStep` | reads and questions for the head end; blocks need not come |
| `RpcGuards` | `BreakerTick`, `execute` weakly; `Answered` strongly | the clock runs, the application calls now and then, and a call in flight is answered although others start and end meanwhile |
| `NextServer` | `CacheServes` | the store and the effect answer |
| `SafeTracking` | `SafeRunStep`, `SafeMirrorStep` | polls end and are counted, the mirror fiber runs |
| `SolanaConfirm` | `ConfirmTimeout` | the timeout of the confirmation fires |

## 5. Proofs

TLAPS proves the theorems listed in `PROJECT.json` for all values of the
constants, from assumptions named in the modules: bounds are natural numbers,
model values differ from the data they stand beside, a policy's or a caller's
amounts are natural numbers. Each proof has an inductive invariant, one lemma or
step per action, and derives the property from it.

* **NoncePipelineProofs.** The four facts of the ledger are proved together since
  none is inductive alone: a reservation is fresh because what others hold is
  pending or spent (`HeldStaysPending`), and confirming moves the floor only over
  spent nonces (`FloorNeverAhead`). `RetryBelowFloor`, that recovery leaves the
  floor above the rejected nonce, gives `RetryGoesUp`. In the refinement a
  reservation maps to `Take`, the end of a hold to `GiveBack`, a block to `Spend`,
  all else to a stutter.
* **CursorStoreProofs.** `OwnedSlot` follows from the fact that a loop which stops
  owning the slot has removed it or been replaced in the same step, and needs no
  exception for crossing deletes. The rest of `StoreConsistent`, and
  `NoStaleOverwrite`, need `StoreInv`: while deletes do not cross, the loops take
  turns (`InTurn`: a loop that removes has only sleepers beside it, which wait for
  it), cursors are numbered and reach storage in order (`Ordered`), and what is
  wanted is in storage, in the slot, in a loop's hands or in a delete's
  (`OnItsWay`). Without `InTurn` the late remove of an older loop breaks the last
  one, which is the finding `cursor_crossed`. `ImplementsBuffer` follows from it
  too, since there is one loop whose write is the one under way: a drain maps to
  `TakesBuffered`, the end of a write to `WriteLands` or `WriteLost`, a remove to
  `RemovalLands`, and the tombstone of a loop that writes to a removal that is
  owed.
* **EventsProofs.** Of a cursor stream, the invariant splits what a session has
  fetched into what waits and what lies at or before the cursor; all that waits
  lies past it, so moving the cursor to the first waiting event skips nothing. Of
  the cursors that are stored, buffered or on their way, which `saved` may become,
  it says that each leaves no gap (`GapOK`), that what an older session's cursor
  is ahead by is delivered again before this one's passes it (`AheadOK`), and in
  which order they are written (`OrderOK`). Of a reliable stream, notifications of
  one event alternate, and lead from where the stream believes the event to be to
  where the chain has it.
* **PagesProofs.** For writeAndTrack the strengthening says where each fiber can
  be: the block fiber lives inside the receipt loop, before the first hash there
  is nothing to replace, and during the loop the transaction is under way for
  everybody. `WalletInv` follows a change of accounts from the wallet to the page:
  what is coming (`Follows`) ends in what is wanted. `PageInv` says which mount
  each runtime belongs to and who will close it. A hook's runs are in order
  (`RunsInOrder`): the one that waits or runs is of the current effect, a run that
  was cleaned up is closing or over, and so a cleanup leaves nothing in flight
  that a later run might take for its own. `ExecutionInv` says what an answered
  probe knows, and about whose inputs a read under way is.
* **CallsProofs.** Reads in flight: `OneFlight` and `WaitersHaveLeader`, with the
  fact that whoever works has a key. The cache: the access order lists each key
  once, and exactly the keys that have an entry (`CacheInv`); it changes only by
  filtering and by appending a key that was filtered out. The batcher: whoever
  waits for a call is in exactly one, at the place of its answer, and a batch
  leaves the rest of the queue as it was (`GroupsOfBatch`, `QueueSplits`,
  `ResultIsOwn`). `BreakerInv` and `TransportInv` tie counters to the calls that
  may still fail. Errors of the preflight have any depth and any words of the
  list: `Candidates`, `FundsAreSaid`, `RetryIsSaid` and `SameWhereverThrown` say
  what each stage reads of one, and `PreflightInv` only where the write is and
  which gas it carries. `FeesInv` rests on lemmas about the operators:
  `BumpRaises`, `BumpMonotone`, `CapCuts`, `EstimatesFit`, `RaisedOutbids`,
  `RaisedFits`.
* **FlowsProofs.** One invariant per machine, among them `TxClean` (a submission
  on its way is unsigned, and nothing of an earlier one is left), `AskedInTurn`, `OneAhead` (the
  authorization's nonce is one past the transaction's), `WindowKept`, `FateKnown`,
  `Shown`, `Told` and `Counted` (what was polled, published, answered and counted
  agrees with what became of the proposal), and `ExpirySeen`, `EndTrue`, `InOrder`.
  For a refusal the invariant is small, and the work is in the search: what it
  finds with less depth left it finds with more (`FoundEarlier`), so an error that
  is near enough is found although the search starts from the other end
  (`NearIsFound`), also in a graph with cycles; and what is found is there
  (`FoundIsThere`).
* **TxPersistenceProofs.** `RecordsTrue` holds because no news of an inclusion is
  ahead of the chain (`NewsTrue`: in no subscription and in no fiber). That a
  record is settled in the end, and neither reopened nor pruned before, is not
  inductive: it depends on who may still write. A tracker is `Open` until it has
  written its last record. `OverIsOver`: of a transaction whose record is settled,
  or that somebody has read and will prune (`Condemned`), no tracker is open.
  `SomeoneWillSettle`: if a tracker has ended and the record is not settled, an
  open one is left. Both for all but the transactions in `doubled` and `lost`, of
  which two trackers were active at a time, or a write failed.
* **SeqFilterProofs.** A recursive function is a `CHOOSE`, and nothing is known of
  it before it is proved to exist. `SetInduction` is induction on the natural
  numbers with a set in place of a predicate; with it `PrefixesExist` (and
  `SearchExists`, `NearExists` for refusals) unfold one recursive function each,
  and `FilterLeaves` says what a filter keeps. `OneEachCounts` bounds a sequence
  without repetitions by the set it ranges over.

Every invariant and every action property that a passing run checks without
fairness is also proved. Only model-checked is liveness, which the prover's rules for
fairness and `ENABLED` do not reach: `QueryEnds`, `BreakerRecovers`,
`EventuallySettled`, `RuntimesReleased`, `EventuallyPersisted`, `AllDelivered`,
`EventuallyEmitted`, `CacheRequestEnds`, `SafeResolves`, `SolConfirmEnds`. The
run `tx_persistence` has one transaction and thus an index of one; that records
do not disturb each other is what the theorems add.

## 6. Not modelled

The map covers about a sixth of the lines, and most of the rest is not of the
kind a state machine would show anything of: type declarations and documentation
comments, the composition of layers and presets, React components and hooks that
render what they are given, the testing kits, single requests around viem and
web3.js with their encodings, and tests that need a network. `PROJECT.json` lists
these parts with the reason for each.

In the modelled parts the following is left out:

* several accounts, chains or keys per manager, where keys are independent; exact
  time, where any block may be late enough and any timeout may fire;
* removal and quarantine of corrupt entries in both browser stores, and with it
  one race of `get` against a flush; clear and delete of the transaction store;
* reorganisations under a cursor, which `CursorStream` does not handle;
* the sharing of one head subscription in `ChainHead`;
* passes of a rate limit whose store fails, which are let through and not counted;
* a Solana lifetime that the caller gives in place of the one the transaction was
  built with, and a search of the recent statuses only (`searchTransactionHistory:
  false`), which may forget a finalized transaction;
* `ensureAllowance` for an amount of nothing, which returns at once;
* the error snapshots of `useStream`;
* offers whose policy caps the fee below the tip, or whose overrides contradict
  each other: they are in the model and left out of `FeesSound`, as neither the
  code nor its documents say what should happen;
* a run that `minIntervalMs` skips although the change that asked for it has
  interrupted the one before: in the model, left out of `HooksSound`;
* a cross-chain read that names one chain twice, of whose batches only the last
  answers; balances that are shown as zero when their read failed: single
  requests, noted here because a caller may stumble over them.

One hazard has no property: an answer of the wallet that is lost after it has sent
the transaction releases a nonce that is in use. The code cannot know, and the
model has such transactions as interference.

## 7. Plan

Done: nonces and the pipeline, the cursor store with its proof of consistency,
writeAndTrack, the query cache, persistence, cursor sync on either store, with the
throttled one as an implementation of `CursorBuffer`, the reliable stream,
breaker and transport, the batcher, preflight and errors, fees, the wallet and the
hooks, the xstate machines, the persistent cache and the rate limit, Safe and
Solana transactions, approvals, delegations, deployments, refusals.

Next:

1. Block and log subscriptions and `watchBalance`, composed with `ChainHead`'s
   shared stream.
2. Corrupt entries in the browser stores, and the transaction store's delete.
