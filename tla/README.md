# Verification of the gateway core

TLA+ models of the Bifrost AI gateway in this repository (`core/`, `framework/`,
`plugins/`, `transports/`), the TLC configurations that check them on small
instances, and TLAPS proofs of the properties that matter most. Line numbers are
those of the source files named in `PROJECT.json`.

    tlc -workers 2 -config PQ_safety.cfg ProviderQueueMC
    tlc -workers 2 -config SK_safety.cfg SidekiqMC
    tlc -workers 2 -config RT_safety.cfg FallbacksMC
    tlc -workers 2 -config ST_safety.cfg StreamsMC
    tlc -workers 2 -config WH_safety.cfg WebhooksMC
    tlc -workers 2 -config BG_safety.cfg BudgetsMC
    tlapm ProviderQueueProofs.tla
    tlapm HandoverProofs.tla
    tlapm SidekiqProofs.tla
    tlapm FallbacksProofs.tla
    tlapm TrailProofs.tla
    tlapm StreamsProofs.tla
    tlapm WebhooksProofs.tla
    tlapm BudgetsProofs.tla

## 1. Inventory

The gateway receives a request over HTTP or WebSocket, runs plugin hooks on it,
queues it for a provider, calls the provider with one of its keys, retries or
falls back on errors, runs the hooks on the answer and returns it. Around that
path are administration (provider configuration may change while requests are in
flight), durable background work, and shared stores.

| part | state it keeps | operations | what is hard | what makes it correct |
|---|---|---|---|---|
| provider request path, `core/bifrost.go` | a queue and a wait group per provider, one generation per update; pooled messages with their channels; workers | `tryRequest`, `tryStreamRequest`, `requestWorker`, `getProviderQueue`, `UpdateProvider`, `RemoveProvider`, `Shutdown` | producers, workers and administrators race on the same channels; contexts end anywhere; messages are reused | a message has one holder, its answer reaches its own call, nothing blocks, nothing is executed twice, workers are waited for |
| retry loop and key rotation, `core/bifrost.go` `executeRequestWithRetries` | attempt counter, keys used and keys dead | per-attempt key choice, back-off, streaming first-chunk probe | rotation on rate limits against permanent key failures, exhaustion | bounded attempts, no dead key tried again, the terminal error is the right one |
| fallback chain, `core/bifrost.go` `handleRequest` | position in the fallback list | primary, then each fallback | errors that forbid a fallback, cancellation between attempts | order respected, stops at the first success or veto, primary's error reported |
| stream hand-over, `core/bifrost.go`, `core/providers/utils`, one adapter's goroutine | pooled plugin pipelines, the end indicator on the context, the span parked under the trace id, a channel per attempt | first-chunk probe, retry, chunk by chunk post-hooks, finalizer, cancellation | the goroutine of a dead attempt, the worker and the client act on the same context; several places call the finalizer | a pipeline is put back once and not while hooks run on it; one final chunk; every stream ends |
| plugin pipeline, `core/bifrost.go`, `core/mcp/pluginpipeline.go` | hooks executed so far, pooled pipelines | `RunLLMPreHooks`, `RunPostLLMHooks`, reload | short-circuits, errors recovered by a later hook, reload while running | every pre-hook that ran has its post-hook, in reverse order, once |
| MCP, `core/mcp` | client map, connection states, tool map, monitors | connect, reconnect, health check, tool sync, agent loop | a check in flight while the client is removed or replaced | no resurrected client, no leaked monitor, bounded agent depth |
| sidekiq, `framework/sidekiq`, `configstore/sidekiq.go` | job rows, local run set | enqueue, claim, heartbeat, progress, complete, fail, dispatch | several processes, crashed or stalled runners, restart | a live job has one owner, attempts are bounded, no job is lost |
| webhooks, `framework/webhooks` | delivery rows with leases, delivery history, slots | enqueue, scan, claim, attempt, finalize, redeliver | crash between attempt and finalize, a lease outlived, processes that share the empty runner id | one settlement per claim, bounded retries, nothing leaves the queue unrecorded, every delivery ends |
| distributed lock, `configstore/dlock.go` | lock rows with holder and expiry | lock, try, extend, unlock | expiry while the holder works, clocks | at most one unexpired holder, only the holder releases |
| key-value store, `framework/kvstore` | entries with TTL and version | set, set-if-absent, get-and-delete, remote apply | remote events late or out of order, expiry against write | replicas converge, set-if-absent has one winner |
| async jobs, `framework/logstore/asyncjob.go` | job rows | submit, execute, notify, expire | a failed terminal update, a panic after it, cleaner against late result | a terminal job stays terminal, what is announced is what is stored |
| streaming, `framework/streaming` | chunks and gates per trace | add chunk, finalize, clean up | duplicate final chunk, cleanup against late chunk | one final response per stream |
| OAuth2 and tickets, `framework/oauth2`, `framework/temptoken`, `handlers/ws_ticket.go` | tokens, tickets | refresh, exchange, consume | concurrent refresh, double consumption | a ticket is used once |
| governance, `plugins/governance` | budgets and rate limits in memory and in the database | check, bill, reset, sweep, dump, override, reload | compare-and-swap, snapshots and blind stores race; crash between memory and row | usage stays in its window, increments are kept, overrides end, the boundary never goes back |
| logging, `plugins/logging` | write queue, batches | enqueue, flush, close | full queue, close while enqueuing | an accepted entry is written once |
| WebSocket pool, `transports/bifrost-http/websocket` | idle and in-flight connections | get, return, discard, evict, close | eviction against use, close against dial | limits hold, no connection is shared |
| provider adapters, schemas, HTTP handlers, stores, catalogs, exporters | - | conversion and I/O | - | not modelled, section 12 |

## 2. Plan

Modules in the order of their importance; all of these are done.

1. `ProviderQueue`, implementing `CallContract`, proved in `ProviderQueueProofs` and
   `HandoverProofs`.
2. `Sidekiq`: job rows, several runners, crashes and stale claims, proved in
   `SidekiqProofs`.
3. `KeyRotation`: the retry loop of one try on one provider. One execution of it is
   `ProviderQueue!WorkerExecute`.
4. `Fallbacks`: extends `KeyRotation` with the chain of tries of a request, proved in
   `FallbacksProofs` and `TrailProofs`.
5. `Streams`: what happens inside an attempt that streams, and what one attempt
   leaves for the next, proved in `StreamsProofs`.
6. `AsyncJobs` and `Webhooks`: jobs, and the deliveries that announce them;
   `Webhooks` extends `AsyncJobs`; proved in `WebhooksProofs`.
7. `Budgets`: a budget in memory and in the database, proved in `BudgetsProofs`.

Next candidates, by what they could show: the plugin pipeline under a reload, the
distributed lock, the replicas of the key-value store, the MCP client manager.

Every safety and action property that a passing run checks is proved (section 11);
the liveness properties stay with TLC.

## 3. The request path: `ProviderQueue`

| model | code |
|---|---|
| `stage[c]`, `pq[c]`, `msg[c]`, `result[c]` | program counter, `pq`, `msg` and return value of one `tryRequest` / `tryStreamRequest` |
| `ctxDone` | `ctx.Done()` of that call |
| `pool`, `callOf`, `response`, `errCh` | the three `sync.Pool`s, `ChannelMessage` and its channels of capacity one |
| `queue[g]`, `closing` | `ProviderQueue.queue`, and `closing`/`done` together |
| `worker[<<g, w>>]` | goroutine `w` of generation `g` in `requestWorker` |
| `published` | the entry of `requestQueues` and `waitGroups` for the provider |
| `retired` | `retiredWorkerWaitGroups` and `oldWorkerCleanup` |
| `lock`, `admin`, `shutdown` | provider write lock, and progress of `UpdateProvider`/`RemoveProvider` and `Shutdown` |
| `hooks`, `execs`, `late`, `swept` | history: post-hook runs, provider calls, deposits after the last sweep |

Callers: `CallGetQueue`, `CallNoProvider`, `CallLazyCreate`, `CallPrepared` are
`getProviderQueue`/`prepareProvider`; `CallShortCircuit` and `CallNoRequest` the
outcome of the pre-hooks; `getChannelMessage` to `CallAbandon` the rest of
`tryRequest`. Each `select` is a set of actions, one per case, so that a choice
between ready cases is nondeterministic as in Go, and a `default` is enabled only
when no other case is. Workers: `Worker*`. Administration: `Update*`, `Cleanup`
(the detached goroutine), `Remove*`, `Shutdown*`. Steps are cut where another
goroutine can see the difference; the module's header lists the steps that were
merged and why that is sound.

Left out: a pre-hook that changes the request's provider (the queue of the first
provider is used, while a re-route looks up the second); `Shutdown`'s stopping of
plugins and MCP; failures of `UpdateProvider` before it publishes anything, which
change nothing. A provider call is one step: what happens inside is the retry
loop, the subject of `KeyRotation` (section 5). The worker's 5 second timeout is not
an action because `AnswersNeverBlock` shows its select always has a ready case.

`CallContract` is the abstract specification: an attempt is executed at most once,
a provider outcome comes from an execution, and a refused attempt (closing
provider, full queue, failed transfer, key error) was not and will never be
executed, which is what makes a retry or a fallback after a refusal safe.

## 4. Background jobs: `Sidekiq`

Every node has a `Runner`; the nodes share one table. A job is claimed by a
conditional `UPDATE` that sets `runner_id` and counts an attempt, run beside a
heartbeat that refreshes `updated_at`, and ended by a write that requires
`runner_id` and `status = running` (the fence). A running job whose row is older
than the stale window may be claimed again. Jobs with a partitioning key are
claimed only while no other job of the key runs and no older one is pending.

That condition reads other rows than the one the `UPDATE` writes. Node ids matter in a
cluster, a cluster runs on PostgreSQL, and nothing in the code sets an isolation level,
so a statement runs at READ COMMITTED: it evaluates its conditions on a snapshot, waits
for a writer of its own row, and evaluates them again for that row only. The model has
a claim read (`ClaimRead`) and then write (`ClaimWrite`) if its row was not written in
between (`snapshot` holds the claims for which that is so); what other nodes did to
other rows in between goes unnoticed, as it does in the code. A row that was written in
between no longer meets the conditions: claims, heartbeats and checkpoints make it
young, and final writes terminal. All other statements have conditions on the row they
write, and are one step. SQLite has one writer at a time and so fewer behaviours. Rows
are taken to become visible in the order of their `created_at`.

| model | code |
|---|---|
| `status`, `owner`, `attempts`, `age`, `cursor` | a row of `sidekiq_jobs`: status, `runner_id`, attempts, time since `updated_at`, metadata |
| `snapshot` | claims whose `UPDATE` has read, and whose row was not written since |
| `pc`, `node`, `job`, `attempt`, `seen`, `cancelled` | a job goroutine in `execute`: place, node, job, the claim it made, its own cursor, whether its job context was cancelled |
| `up`, `window`, `dispatching`, `listed`, `inflight` | process state, `staleAfter`, the dispatcher, its current list, `Runner.inflight` |
| `started`, `stops` | history of handler calls; bound on crashes and shutdowns |
| `Enqueue`, `AcquireSlot`, `LeaveQueue` | `EnqueuePartitioned` and the goroutine's wait for the semaphore |
| `ClaimRead`, `ClaimWrite`, `Fetch`, `Progress`, `HandlerReturn`, `Finish` | `execute`: the claim in two steps, re-read and attempt test, the handler with its checkpoints, the final write |
| `Heartbeat` | a tick of `startHeartbeat` |
| `DispatchList`, `DispatchNext` | `dispatchOnce` |
| `Start`, `StartDispatcher`, `Shutdown`, `ShutdownDone`, `Crash` | `New`, `StartDispatcher`, `Shutdown` in two steps, the death of a process |
| `Tick` | time |

Any statement may fail (`StoreMayFail`); after the base
context is cancelled it always fails, as the driver refuses a cancelled context.
The deferred calls of a goroutine are one step. `MarkStaleSidekiqJobsFailed` has no
caller and is left out. `NumJobs`, `Threads`, `MaxStops`, `MaxClaims` and
`MaxCursor` are bounds; `Slots`, `MaxAttempts` and `StaleAfter` are the code's
parameters. `Punctual` restricts `Tick` so that a claim held by a live goroutine
does not grow older than the window. It stands for heartbeats that arrive in time
(one a minute, against a window of fifteen); with `Punctual` false nothing is
assumed of clocks, pauses and the network.

## 5. Retries and fallbacks: `KeyRotation` and `Fallbacks`

`Fallbacks` follows one request from `handleRequest` or `handleStreamRequest` to its
return. Each try on a provider runs `KeyRotation`: the worker builds the key pool,
then `executeRequestWithRetries` calls the provider until an attempt succeeds, fails
for good, or the budget is used up. All tries share the caller's context.

| model | code |
|---|---|
| `streaming`, `hasFilter`, `direct`, `pinned`, `session`, `fallbackIndex` | the kind of request, `keyPoolFilter`, and what the context says of keys |
| `trail`, `selected`, `connClosed`, `streamEnd` | the attempt trail, selected key, connection-closed claim and stream end indicator on the context |
| `sealed`, `sealedReq` | encrypted reasoning that can still be stripped: in the request this try sends, and in the caller's, which a fallback copies |
| `mode`, `pool` | the `keyProvider` closure (none, one fixed key, rotation) and its keys |
| `attempts`, `current`, `used`, `dead`, `last`, `stripped`, `waited`, `outcome` | locals of `executeRequestWithRetries` |
| `answers`, `skipped`, `returned` | the verdicts of the tries, the fallbacks without config, the answer the caller gets |
| `stream`, `reported` | the stream in the caller's hands, and whether its end went through the post-hooks |
| `NoKeyProvider`, `DirectKey`, `SelectPool` | the worker's choice of closure and `selectKeyFromProviderForModelWithPool` |
| `KeepKey`, `FixedKey`, `RotateKey`, `FreshRound`, `KeysExhausted`, `KeysSuppressed`, `SelectorFails` | the head of an iteration: key selection, its errors, the trail record, the back-off |
| `CallSucceeds`, `CallFails`, `FirstChunkFails`, `Drained`, with `Judge` | the provider call, the first-chunk probe and the rest of the iteration |
| `AnswerEarly`, `Enqueue`, `AnswerStream`, `AnswerAfterHooks`, `CallerLeaves` | `tryRequest` and `tryStreamRequest` around the worker |
| `ReturnAnswer`, `ReturnPrimary`, `NextFallback` | the loop over the fallbacks, with `clearCtxForFallback` and `prepareFallbackRequest` |
| `StreamEnds`, `StreamCancelled` | the final chunk; `HandleStreamCancellation` |

An error is the class that the tests of the loop put it in: per key (rate limit or
permanent), transient, rejected reasoning, halting, other. The three `last...` flags
are one variable, the class of the previous failure. `previousKeyID` is the value of
`current` when the next key is chosen, and `pendingRotationAttemptIdx` is set exactly
after a per-key failure, when it points to the last record; the header of the module
says so. The weighted random selector may choose any key it is offered, and the
filter may leave any subset of what it is given. A plugin may turn any answer into
any verdict; the queue may refuse any try. What the worker still does after its
caller left belongs to `ProviderQueue` and is not followed here. The missing-tracer
return of the loop is left out: `tryRequest` has put a tracer on the context. The
context is taken to be the caller's own and fresh, not the shared one of a nil
context.

## 6. Streams: `Streams`

A streaming request has three actors on one context: the caller in
`tryStreamRequest`, the worker in `executeRequestWithRetries`, and one goroutine per
attempt, of which an old one may still be running its deferred functions when the
next has started. The module follows all of them to the end of the last stream.

| model | code |
|---|---|
| `held[u]`, `puts[u]` | the `PluginPipeline` of the caller (0) or of attempt `u`: taken from the pool and not put back; how often it was put back |
| `caller`, `try` | `tryStreamRequest` and the fallback loop of `handleStreamRequest` |
| `worker`, `retries`, `attempt`, `failure`, `reply` | `executeRequestWithRetries` with the stream handler of `requestWorker`, and the channels of the message |
| `done`, `end` | `ctx.Done()`; `BifrostContextKeyStreamEndIndicator` |
| `parked` | whether the `TraceStore` holds a deferred span for the trace |
| `place`, `item`, `sent`, `final` | the goroutine of an attempt (or the relay of a plugin's stream, 0) |
| `chan`, `closed` | its response channel of `DefaultStreamBufferSize` |
| `fresh` | history: attempts that started with the indicator clear |
| `Enqueue`, `ShortCircuitStream`, `AnswerEarly`, `ReturnStream`, `ReturnError`, `Leave`, `NextFallback` | the caller |
| `Attempt`, `FirstChunk`, `Drain`, `Drained`, `Retry`, `GiveUp`, `Park`, `SendStream` | the worker; `FirstChunk` is `CheckFirstStreamChunkForError` |
| `Read`, `Hook`, `Send`, `Sent`, `CompleteSpan` | a chunk: read, post-hooks, `GateSendChunk`, `completeDeferredSpan` in its two halves |
| `Exit`, `Close`, `Ensure` | the deferred functions: `HandleStreamCancellation`/`HandleStreamTimeout`, `CloseStream`, `EnsureStreamFinalizerCalled` |
| `Relay` | the goroutine of a stream with which a plugin short-circuits |

The goroutine is that of the OpenAI adapter (`HandleOpenAITextCompletionStreaming`);
the adapters share the helpers that hold the protocol. A chunk is its kind, and its
hooks are one step. A pooled pipeline is reset when it is put back, so which one the
pool hands out is immaterial: a second put, or hooks on a pipeline that was put back,
is the error. The hooks may turn a chunk into an error and an error into a response,
so a first chunk that fails the attempt may be followed by others, which are drained.
The queue and the keys are left to the other modules. The return without a final chunk
when a response converter gives nil for it (openai.go:747-752) is left out: every caller
of that handler in the repository passes no converter.

## 7. Jobs and deliveries: `AsyncJobs` and `Webhooks`

| model | code |
|---|---|
| `job`, `exec`, `host`, `result` | a row of `async_jobs`; the goroutine of `executeJob`, its process, the status it stores |
| `endpoint`, `resolver[n]` | the endpoint in the config store and in the memory of process `n` |
| `queued`, `event`, `count`, `due`, `by`, `until` | rows of `webhook_jobs`: event, `attempt_count`, `next_attempt_at`, `claimed_by`, `claimed_until` |
| `history` | delivery records in the log store |
| `pc`, `work` | delivery goroutines of `dispatchOnce`, with the row as it was listed and the lease |
| `SubmitJob`, `MarkProcessing`, `Operate`, `StoreResult`, `Notify` | `AsyncJobExecutor`, `notifyWebhook` and `EnqueueJobEvent` |
| `DeleteExpired`, `DeleteStale`, `Reap` | the cleaner |
| `Scan`, `Begin`, `Claim`, `Deliver`, `Record`, `Settle` | `dispatchOnce`, `processDue`, `attempt`, `finalize` |
| `Redeliver`, `UpdateEndpoint` | the administrator's handlers |
| `Crash`, `Stop`, `Halt`, `Restart`, `Tick` | processes and time |

One thing may go wrong in an execution (`MaxEvents = 1`), but it may be anything: a
statement of either database fails, a process crashes or is stopped, the dispatcher
panics, an attempt outlives its lease, an administrator redelivers or disables the
endpoint. `SameRunner` gives every process the empty runner id, as `server.go` does
outside a cluster, so that only the lease tells two claims apart. `Lease` and
`Backoff` are one tick. The counters of consecutive failures of an endpoint are left
out, for nothing reads them back into a decision.

## 8. Budgets: `Budgets`

| model | code |
|---|---|
| `now` | time, as the number of the window `WindowStart` gives |
| `mem`, `gens` | the `*TableBudget` in `gs.budgets` (usage, `LastReset`, override) and its entry in `budgetResetGens` |
| `row` | the row of `governance_budgets` |
| `req`, `fresh` | requests in `CheckBudget` and `BumpBudgetUsage`; those whose compare-and-swap would still succeed |
| `spent` | history: what was billed in each window |
| `dump`, `snap`, `seen` | the ticker and the last dump of `Cleanup`: place, snapshot, generations |
| `admin`, `op`, `edit` | handlers of operators: transaction, reload, blind store, rebase |
| `CheckBudget`, `Load`, `Mark`, `Swap` | a request |
| `Sweep`, `SweepMark`, `Persist`, `ReadGens`, `ReadRows`, `KeepUnreset`, `Write`, `Tick` | `resetExpiredCounters` and `DumpBudgets` |
| `Transaction`, `ReadRow`, `Merge`, `Store`, `Rebase`, `RebaseMark` | `UpdateBudgetOverride`/`UpdateBudgetUsage`, `ReloadVirtualKey`, `Update...InMemory`, `ResetBudgetUsageInMemory` |
| `Stop`, `Halt`, `Crash`, `Restart` | `Cleanup`, process death, `loadFromDatabase` |

Rate limits are two more counters with the same code shape. Overrides are those of mode
`cycles`; one of mode `forever` (tables/budget.go:21) ends only by an operator's clear,
which the model has for the others. A switch to calendar
alignment, a deletion and the baselines of other nodes of a cluster are left out. The
inline reset of `BumpBudgetUsage` after repeated resets is unreachable with a target
that is a window boundary, as its comment says.

## 9. Runs

| run | instance | shows |
|---|---|---|
| `pq_safety` | 3 calls, 3 messages, 2 generations, one worker each, queues of 1, an update | `NoUseAfterRelease`, `NoCrossTalk`, `HooksAtMostOnce`, `WaitingCallIsTracked`, refinement of `CallContract` |
| `pq_live` | a plain and a streaming call, an update | `CancelledCallReturns`, `EnqueuedCallIsAnswered` |
| `pq_generations` | 1 call, 3 generations, updates, removals and shutdown, creation may fail, account may lose the provider | `RemoveWaitsForAll`, `ShutdownWaitsForOld`, `OnlyLateCallsStranded`, `AdminTerminates`, `ShutdownTerminates` |
| `pq_v_billing` | 1 call | finding: an outcome sent to a caller that left is not billed |
| `sk_safety` | 2 nodes, 2 goroutines, 1 job, 3 attempts, late heartbeats, failing statements, a crash or shutdown | `FenceAdmitsLatestClaim`, `PoisonJobIsBounded`, `CheckpointsNeverRegress` |
| `sk_exclusive` | 2 nodes with ids, 2 goroutines, 2 jobs of one key, the older one for one of the nodes only, heartbeats in time, a crash or shutdown | `OneHandlerPerJob`, `OverlapOnlyOnResume`, `EveryJobEnds` |
| `sk_v_key` | 2 nodes with ids, 3 goroutines, 2 jobs of one key, heartbeats in time, a crash or shutdown | finding: two handlers of one key |
| `rt_safety` | 3 keys, 2 retries and the stripped attempt, 1 fallback, plain and streaming, with and without filter, session, direct and pinned key | `DeadKeysStayDead`, `TrailIsCoherent`, `RoundsAreFair`, `SelectedServed`, `RightAnswer`, `TrailOfLastTry`, `RequestReturns` |
| `st_safety` | 2 attempts (a retry or a fallback), 2 chunks each, a channel of 1, cancellation at any time | `PutBackOnce`, `OneFinalChunk`, `FreshStreamKeepsPipeline`, `EveryStreamEnds` |
| `st_v_retry` | 1 retry, no fallback | finding: a retried stream releases its pipeline at its first chunk |
| `wh_safety` | 2 processes, 1 job, 2 delivery goroutines, 1 retry, 1 event | `FenceAdmitsOne`, `EventMatchesJob`, `RetiredIsRecorded`, `ResultIsFinal`, `EveryDeliveryEnds` |
| `bg_safety` | 2 requests, 1 operator, 2 windows, 1 stop or crash | `NoSpendCarriedOver`, `NoIncrementLost`, `OverrideEnds`, `BoundaryAdvances`, `UsageIsPersisted` |

Bounds. Three calls and three messages are enough for the reuse of a message while its
former owner's worker still holds it, for a full queue of one and for a transfer that
finds the new queue full with more to cancel; two generations for a transfer and a stale
producer; three for a second update while the first cleanup is pending. For jobs, two
nodes and two goroutines let a claim be lost and won back by the same node, the case in
which a fence without a claim number is in doubt. In `sk_exclusive` only `n1` has a
handler for the older job, which keeps the graph small enough for liveness: the node
that is stopped in it must come back to resume it, and the younger job is open to both;
the two safety properties are proved for any handlers. A runner without a node id, which
differs in the stale window between its creation and its dispatcher's start, is in the
proofs and in no run. For routing, a pool of three keys can lose one for good and rotate
among the others, and a pool of two can run out of unused keys and start a fresh round
within the four attempts that two retries and a stripped one allow; one fallback is
enough to see what a try leaves behind. Keys differ in nothing but whether the caller
named one, so only `k1` is ever named; the proofs are for any keys, retries and
fallbacks. For streams, two attempts are enough for a dead one to meet its successor,
and two chunks with a channel of one for a blocked send and for a chunk after a wrongly
final one. For deliveries, two goroutines in two processes let an outlived claim meet
its successor. For budgets, two windows give one boundary for every race to straddle,
and the proofs are for any number. Nodes and goroutines are symmetric in the jobs runs
without a liveness property, messages and calls in `pq_safety`. `CHECK_DEADLOCK FALSE`:
a bounded number of calls, jobs or requests ends, and the system is then idle.

Fairness. In `ProviderQueue!FairSpec`, weak fairness of each goroutine that has been
started: calls, workers, cleanup goroutines, an administrative operation in progress. Go
runs runnable goroutines, and a provider call ends by its HTTP client's timeout. No
client need call, no context need end, no administrator need act. In `Sidekiq!FairSpec`,
weak fairness of goroutines, of the dispatcher's ticker, of time and of a process's
start, and strong fairness of taking a slot: a Go channel hands a freed place to its
longest blocked sender. Handlers are assumed to return. Nothing is assumed of crashes.
`EveryJobEnds` needs `Punctual`: with heartbeats late without end, two goroutines can
take a job from each other forever. In `Fallbacks!FairSpec`, weak fairness of the
request's own goroutines together: a message that was enqueued is taken by a worker,
which `EnqueuedCallIsAnswered` shows of `ProviderQueue` up to the deposits after a last
sweep that it excepts, and whose callers wait until their context ends; provider calls
end by the client's timeout, and neither a caller's cancellation nor the end of a stream
is assumed. In `Streams!FairSpec`, weak fairness of caller, worker and goroutines, whose
reads end by the idle timeout, and of the client's reading: it reads, or its context
ends and the wrapper drains the channel. In `Webhooks!FairSpec`, weak fairness of the
delivery goroutines, of the scan for a due row (the ticker), of time and of a process's
restart. In `Budgets!FairSpec`, weak fairness of the goroutines, the ticker and a
restart, and strong fairness of a dump's write that succeeds: the database does not fail
every time. Crashes and failures are bounded by their constants and never assumed.

## 10. Findings

Each is a violation run; `PROJECT.json` quotes the lines.

* Billing (`pq_v_billing`): `req.Response` is buffered, so for a call whose context has
  ended the worker's `select` may take the send, and nobody runs the post-hooks.
* Claims of one key (`sk_v_key`): the guards of `ClaimPartitionedSidekiqJob` are about
  other rows and are not evaluated again when the row is written. When a node has died
  in the older job of a key while a younger one waits, two nodes that claim one each at
  the same moment see a stale row and a pending one, which block nobody, write different
  rows and both win: two handlers of the key run, which configstore/sidekiq.go:97 and
  sidekiq.go:120 exclude. `OverlapOnlyOnResume` is what remains: jobs that no crash
  touches do run one at a time.
* Retried stream (`st_v_retry`): after an error in the first chunk the loop clears the
  connection-closed claim of the dead stream and not its end indicator. Every chunk of
  the retried stream then counts as its final one. `completeDeferredSpan` runs the
  finalizer at the first, the pipeline goes back to the pool, and the post-hooks of the
  following chunks run on it. For the same reason a disconnect of the retried stream is
  not reported. `OneFinalChunk` and `FreshStreamKeepsPipeline` hold of streams that
  start with a clear indicator, and only of them.

Seen while modelling, without a run.

* Requests. Workers of a queue created lazily after `Shutdown`'s `waitGroups.Range`
  are not waited for (bifrost.go:8674, against the doc at 8653), and one created
  between its signals and its wait keeps it waiting, which `ShutdownTerminates`
  excepts. `prepareProvider` publishes a queue before the step that may fail, and
  leaves it published without workers (4410). `isClosing` and the `select` of
  `tryRequest` are two steps, so that an update between them surfaces "provider is
  shutting down". `shouldContinueWithFallbacks` reads `fallbackErr.Error.Type` without
  the nil test that `shouldTryFallbacks` makes.
* Streams. `CloseStream` comes before `EnsureStreamFinalizerCalled`, so the goroutine
  of a failed attempt may complete the span that its successor has parked; a span
  parked after its goroutine has gone is never completed; the pipeline of a large
  payload passed through is never put back; a request refused by the queue after its
  pre-hooks runs no post-hooks (schemas/plugin.go:198 promises symmetry).
* Background jobs. A stale running job neither blocks the claim of a younger job of
  its key nor counts as older, so after a crash the younger one may run first, against
  configstore/sidekiq.go:97 and sidekiq.go:120. `StartDispatcher` replaces the zero
  stale window that `New` chose for a runner without a node id. The attempt that
  reaches `MaxAttempts` fails without a handler call.
* Deliveries. A goroutine counts attempts from the row as it was listed, so a delivery
  may be retried more often than configured: tables/webhooks.go:64 says "Retries after
  the first delivery attempt", and with two goroutines there may be one more than
  `MaxRetries`. `RetriesAreBounded`, proved and not run, says how far it can go: one
  retry per other goroutine. A goroutine that listed the row before a redelivery put it
  back may also give up early. The comment at dispatcher.go:403, a
  missing job "can only mean its result TTL lapsed", overlooks the deletion of stale
  processing rows. Rows that a crash left pending are never deleted.
* Budgets. An operator's edit loads the entry and stores its copy later without a
  compare-and-swap (store.go:3636-3645 and 4153-4161), so increments in between are
  lost, although store.go:127-129 asks for a merge on every publish; the merging
  function has no caller. `NoIncrementLost` is therefore stated up to the first such
  store. A cleared override may be brought back in the row by an older snapshot, a
  usage reset undone by a dump that has passed its check, and the last dump of
  `Cleanup` overwritten by the ticker's, which may also sweep and dump beside it.
  `UpdateModelConfigInMemory` keeps the usage of
  a rate limit and not its `LastReset` (4166-4174), the mistake of which
  `Merge_UsageOnly` is the image for budgets.

## 11. Proofs

`ProviderQueueProofs` proves, for any calls, messages, workers, queue capacities
and number of generations satisfying `ConstantsAssumption`: `Inv`, `TypeOK`,
`NoUseAfterRelease`, `SingleHolder`, `AnswersNeverBlock`, `NoCrossTalk`,
`HooksAtMostOnce`, `RemoveWaitsForAll`, and `Spec => ContractSpec`.

None of the properties is inductive. `NoUseAfterRelease` needs to know who owns a
message (`PoolInv`, `CallInv`) and that only waiting calls and calls that gave up
waiting have messages in flight (`FlightInv`); `AnswersNeverBlock` needs that a
message in flight is unanswered, which a drain, a transfer or a worker preserves
only because it is the single holder (`SingleHolder`); the contract needs to know
for which messages in flight the provider has run (`ExecInv`, `DeliverInv`) and
whose answer a channel holds (`ChannelInv`); `RemoveWaitsForAll` needs that each
generation other than the published one has no workers or a registered waiter
(`GenInv`) and what the holder of the provider lock may rely on (`LockInv`). `Inv`
is their conjunction. The proof takes the actions
one by one, with lemmas for the updates they share: an append, a pop, an answer,
a release of a message.

`HandoverProofs` adds, under the same assumption, `WaitingCallIsTracked`,
`OnlyLateCallsStranded` and `ShutdownWaitsForOld`. The first follows a message from
hand to hand: a step takes it out of flight only with its answer, or when its caller's
context has ended, and a release touches no other call's message because messages
have one owner (`PoolInv`, `CallInv`). For the second, the last worker of a generation
leaves an empty queue behind, a sweep ends on an empty queue, and afterwards two steps
could fill a queue: a send, which marks its call late, and the transfer of
`UpdateProvider`, which fills the published queue. That one was never swept, because
swept, retired and replaced generations are older ones (`BookInv`) and `Shutdown` does
not sweep beside an update (`ExclusionInv`). The third needs `ExclusionInv` as well: once
`Shutdown` has seen no retired generation, no update can retire another, and `GenInv`
says who else may have workers. `HandoverInv` is their conjunction, inductive
relative to `Inv`.

`SidekiqProofs` proves, for any nodes, goroutines, jobs, slots, attempts, window and
bounds satisfying `SidekiqAssumption`: `JobInv`, `TypeOK`, `FenceAdmitsLatestClaim`,
`PoisonJobIsBounded`, `CheckpointsNeverRegress` and, for a cluster whose owners
heartbeat in time, `OneHandlerPerJob` and `OverlapOnlyOnResume`. The argument: the
in-flight set keeps a node from having two goroutines on one job (`ThreadInv`), so a
new claim changes the owner under every other goroutine of the job, and where the
fence is open the claim is the last one (`ClaimInv`) and the goroutine's cursor is
not behind the row's (`CursorInv`). An attempt number is at most the row's count,
which is tested before the handler is called; hence the bound on handler calls.
With heartbeats in time a claimed job is never stale for any node (`ExclusionInv`), so
no claim of it reads successfully, and one that had read before is void once the row
is written. For the jobs of a key this is not enough, as another row was read: what
holds is that a claim reads successfully only when the older jobs of its key were
claimed before (`OrderInv`, from the order of the rows, `RowInv`). An older job that is
claimed beside it is therefore at its second attempt at least, which `ExclusionInv`
carries from the moment the younger claim reads.

`FallbacksProofs` proves, for any keys, retry budget and number of fallbacks
satisfying `RotationAssumption` and `FallbacksAssumption`: `TypeOK`, `KeyInv`,
`DeadKeysStayDead`, `VerdictIsTrue`, `SelectedServed`, `BudgetHolds`,
`WaitsWhenItHelps`, `ChainInv` and `RightAnswer`. `DeadKeysStayDead` is about the
trail, while the code excludes keys by the set `deadKeyIDs`; the induction needs that
the set holds exactly the keys whose permanent failure the trail shows (`DeadInv`),
that nothing of an earlier try is left when a try starts (`FreshInv`), and that the
current key is the one of the last record and is dead exactly after a permanent
failure (`CurrentInv`), for only then is the failure entered for the right key.
`VerdictIsTrue` and `SelectedServed` follow with what is known where the loop is left.
`RightAnswer` speaks of the end of the chain; `ChainInv` says of every moment that
the answers and the skipped fallbacks account for all places passed, in order, and
that only the last answer can be decisive. `Inv` of that module joins `TypeOK`,
`KeyInv` and the properties of one try; the proof has a lemma for each group of
actions and each update they share.

`TrailProofs` adds `TrailIsCoherent`, `RoundsAreFair` and `TrailOfLastTry`. A key choice
appends a record and settles `TriggeredRotation` of the one before; a judgement fills
in the reason of the last one. Between the two, `ReasonInv` says that the last record
shows the class of the last failure, which is what the next choice goes by, and that
a record of rejected reasoning is there only if the request was stripped. Two live
keys may differ by one rate limit in the middle of a round, which is not inductive;
`RoundInv` says that all live keys have met the same number of them, and those in
`used` one more, and that the current key is not in `used` before it fails. A fresh
round then raises the number for all. `TryInv` ties the trail to the try that wrote it.

`WebhooksProofs` proves, for any processes, jobs, goroutines, runner ids, slots,
lease, back-off and number of events satisfying `AsyncJobsAssumption` and
`WebhooksAssumption`: `TypeOK`, `FenceAdmitsOne`, `EventMatchesJob`,
`RetiredIsRecorded`, `ResultIsFinal` and, the goroutines being finitely many and at
least one, `RetriesAreBounded`, the bound that the code keeps instead of the
configured one (section 10). The fence rests on leases that grow with the
clock: a claim needs an expired lease and sets one that ends later than now, so of
the goroutines on one row all but the last have a lease in the past (`LeaseInv`), and
the one that settles it leaves nobody who could. A redelivery inserts the row under
the old id with no lease, which is safe because the row was gone, and so every lease
on it was over. `EventMatchesJob` needs that nothing is announced before the
goroutine of the job has stored its result, and that it never returns to the job
afterwards (`JobInv`); a redelivery repeats the event because records tell the event
of their row (`RecordInv`). `RetiredIsRecorded` needs the record of a goroutine about
to settle to be in the history still, which the retention grants because a delivery
is shorter than it. `RetriesAreBounded` counts: the row's retries, plus the
goroutines that listed it while retries were left and may still reschedule it, stay
within the bound (`RetryInv`). A reschedule moves one from the second number to the
first; a goroutine joins the second only by listing a row that is below its limit.

`StreamsProofs` proves, for any retries, fallbacks, attempts, chunks and channel
capacity satisfying `StreamsAssumption`: `TypeOK`, `PutBackOnce`, `OneFinalChunk` and
`FreshStreamKeepsPipeline`. All attempts share one end indicator. A worker starts an
attempt only when the channel of the one before is closed, so at most one goroutine
still reads (`Placed`), and caller and worker take turns unless the caller has left
(`CallerInv`). A stream that started with a clear indicator therefore finds it set
exactly when it has set it with the chunk in hand, and holds its pipeline until it has
completed that chunk (`OwnsEnd`). A retried stream does not start clear: that is the
finding `st_v_retry`.

`BudgetsProofs` proves, for any requests, operators, limit, cycles, windows and stops
satisfying `BudgetsAssumption`: `TypeOK`, `NoSpendCarriedOver`, `NoIncrementLost`,
`OverrideEnds` and `BoundaryAdvances`. `NoSpendCarriedOver` and `NoIncrementLost` are
not inductive: usage and boundary travel together in copies, so `BudgetInv` says of
every copy that a dumper or a handler carries that its usage was billed in the window it
names (`spent` only grows, hence a copy stays covered however old it is), that nothing
is billed to a future window, and that a process which is down has stopped before. The
proof has a lemma for what every update of the entry does and one for the copies.

Only model-checked: the liveness properties `CancelledCallReturns`,
`EnqueuedCallIsAnswered`, `AdminTerminates`, `ShutdownTerminates`, `EveryJobEnds`,
`RequestReturns`, `EveryDeliveryEnds`, `EveryStreamEnds` and `UsageIsPersisted`. They rest
on fairness, which is outside the prover's reach. Every inductive invariant was
checked by TLC on a small instance before it was proved.

## 12. Not modelled

Provider adapters convert wire formats and make one HTTP call: a single step here,
but for the goroutine of a stream. Schemas, catalogs, configuration and log stores are
data and SQL; the statements that carry a protocol (claims, leases, fences, guarded
updates) belong to the modules of their users. HTTP handlers and integrations
translate requests. Exporters (telemetry, otel, maxim) only observe. The Starlark code
mode is an interpreter. These make up most of the repository's lines.

Of the parts that keep state, these are left: the plugin pipeline with its reload, the
MCP client manager, the distributed lock, the key-value store, the streaming gate and
accumulator, OAuth2 and tickets, the log writer, the semantic cache and the WebSocket
pool. Each meets the modules above only in the calls named in section 1. In
governance, rate limits repeat the state machine of budgets, and the resolution of
keys, teams and customers is a lookup.
