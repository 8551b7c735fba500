# A TLA+ model of QMT Bridge

QMT Bridge is two processes. A Python model runs inside the Big QMT terminal on
Windows: it serves RPC requests from a timer, publishes execution events, and can
trade signals from a Redis stream by itself. Outside the terminal a FastAPI
service turns the RPC into HTTP and WebSocket endpoints: orders, market data,
download jobs and event streams. The parts that are hard to test are the ones
where a call may have happened although its answer was lost, and where a thread,
another consumer or a restart comes between two steps. These modules model those
parts, TLC checks them on small instances, and TLAPS proves the most important
properties for every value of the constants.

All paths below are relative to the repository (`src/` in `PROJECT.json`);
`bst` stands for `src/bigqmt_signal_trader`, `srv` for `src/qmt_bridge/server`.

## 1. The system

| Component | State it keeps | Operations | What makes it hard | What makes it correct |
|---|---|---|---|---|
| Signal trader (`bst/app.py`, `adapters/signal_redis.py`, `state_redis.py`, `order_bigqmt.py`) | Redis stream and its pending list, claim key and status hash of a signal, a per-process map from signal to stream entry | fetch (reclaim + read), claim, intent, passorder, record, acknowledge, reconcile | several consumers, crashes and raised calls between any two Redis calls, TTLs, duplicate pushes | one order per signal, an order has a durable intent, only decided signals are acknowledged |
| Execution events (`bst/exec_events.py`, `trading_client.py`) | replay journal (bounded deque), PUB/SUB queue, cursor of the listener | publish, receive, replay on connect, on a gap and periodically, restart | a lossy path beside a reliable one, quotes on the same socket, two epochs at once, contradictory fields | in order, once each, a loss is announced, buy is buy |
| Order submission, batches, cancels (`srv/routers/trading.py`, `srv/trading/manager.py`, `bst/redis_rpc.py`, `trading_client.py`) | the HTTP call, the RPC and its deadline, the strategy's request queue, its in-memory submit journal, the broker | precheck, submit, cancel, time out, reconcile; lookup, passorder, poll; restart, retry | a lost answer, a late execution, an asynchronous passorder, an order not visible yet, a retry of half a batch | one order per `client_submit_id`, truthful answers |
| Write gate (`srv/bigqmt.py`, `srv/trading/manager.py`) | the payload of the last probe, shared by all requests | ping, attest the mode from the terminal's log, decide | concurrent probes, a switch in the middle of one | a write passes only if a recent probe saw the terminal trade |
| History download (`srv/routers/download.py`, `download_state.py`, `helpers.py`) | job files, queue, worker thread, batch thread, the native lane; the record of the sector download | submit, cancel, batch, retry, pause, restore; busy check, child process, guard | a native call that cannot be canceled, a thread left behind after a timeout, a crash with a call in flight | unknown calls are not repeated, cancel means stop, results are earned, jobs end |
| Runtime lifecycle (`srv/runtime_controller.py`, `bigqmt.py`) | the one native runtime, its clients and transports, its recovery task, the module-wide slot | connect, report of a loss, recover, close | a factory thread that cannot be canceled, awaits inside every operation, closes that raise, clients on a dead runtime | one runtime, recovery not forgotten, clients follow, close releases all that closes |
| RPC plane (`bst/rpc_client.py`, `redis_rpc.py`, `transports/*`) | sockets, request and reply queues, redis keys, rows | send, receive, defer, refuse, publish, stop | stop against enqueue, replies after a reset, two servers, deadlines | at most one execution, a reply belongs to its request, nobody waits for ever |
| Strategy tick (`bigqmt_signal_trader_strategy.py`, `bst/download_jobs.py`, `full_tick_cache.py`) | the service object, Redis list of jobs, current-job pointer, demands and snapshots | init, drain, refresh rounds, one slice of downloads, application tick, stop | a fault between any two Redis calls, one phase starving another, expiry against renewal | no job lost or overcounted, a renewed demand is served |
| History reads (`srv/routers/market.py`, `binary_cache.py`, `qmt_local_dat.py`, `bst/formula_server.py`, `data_client.py`, `local_cache.py`) | DAT files, cached answers, flights, two sockets, a per-code cache | read, split, fall back, cache, claim coverage | answers of abandoned reads on a reused socket, half a read failing, session boundaries | an answer is whole, coverage is claimed where it is |
| Streams (`srv/trading/callbacks.py`, `ws/*`, `notify/base.py`) | bounded deques and queues, groups, native subscriptions, generations | publish, drain, subscribe, poll, invalidate, stop | overflow on overflow, a failing sampler against a new client, reused addresses | a loss is announced, no client is left without a source unless the strategy forgot it |
| Probe, telemetry, minute windows, installer (`srv/history_readiness.py`, `bst/telemetry.py`, `adapters/market_bigqmt.py`, `install_runtime.py`) | a fence, a bounded queue, native subscriptions, files | probe, emit, subscribe, install | overtaking probes, a full queue at shutdown, failed releases, a killed copy | reports are of the asked window, losses are counted, nothing stays open, a backup is whole |
| Adapters' conversions, read-only routers, client library, configuration, dashboard | none or local | conversions and I/O | little | |

How they interact: a router calls the strategy through `rpc_client` and a
transport, with a deadline; the strategy's handler answers through `redis_rpc`, at
once in the receiving thread or deferred to the tick; its execution events come back
over a PUB socket and, when they are lost, over the `get_events_since` RPC. A failed
call reports the runtime to `RuntimeController`, which replaces it and tells the
realtime hub. Downloads, probes and history reads use the runtime through a serialized
native lane. The signal trader does not go through the bridge: it calls passorder itself.

## 2. Modules

| Module | Models | Used by |
|---|---|---|
| `SignalTrading` | signal trader | `MCSignalTrading` (TLC), `SignalTradingProofs` |
| `EventFeed` | what the event stream promises | instanced by `ExecEventReplay` |
| `ExecEventReplay` | journal, socket, listener | refinement `FeedUntilRestart`, `ExecEventReplayProofs` |
| `OrderSubmission` | bridge + RPC + strategy + broker | `MCOrderSubmission` (TLC), `OrderSubmissionProofs` |
| `HistoryDownload` | job manager, threads, restart | `MCHistoryDownload`, `HistoryDownloadProofs` |
| `RuntimeController` | controller, factory threads, slot, realtime hub | `RuntimeControllerProofs` |
| `RpcCall` | what one RPC promises | instanced by `RpcPlane` |
| `RpcService` | queue, deadlines and refusals of the strategy's service | extended by the transports |
| `ZmqTransport`, `StoreTransports` | ZMQ client and router; redis list and channel; mysql rows with two servers | composed by `RpcPlane`, refinement `ContractKept`, `RpcAndStrategyProofs` |
| `DownloadPump`, `FullTickCache` | Redis jobs; demands and snapshots | composed by `StrategyTick`, `RpcAndStrategyProofs` |
| `FormulaServer`, `BinaryCache`, `HistorySource`, `LocalDat` | the split read; flights and files; where an answer comes from; DAT windows | composed by `HistoryReads`, `MCHistoryReads` (TLC), `HistoryReadsProofs` |
| `TradeEvents`, `QuoteHubs`, `SectorDownload`, `WriteGate`, `OrderCancel`, `OrderBatch`, `RuntimeClients`, `HistoryProbe`, `Telemetry`, `MinuteSubscriptions`, `ExecPublish`, `RuntimeInstall` | one small component each | `Components` (TLC), `ComponentsProofs` |

Operators whose comment begins with "Mutant" are not part of a specification.
Each is a plausible bug in the definition that follows it, kept to show that a
property notices it; `PROJECT.json` names the property.

### SignalTrading

One consumer is one strategy process that runs `tick` again and again. `pc` is the
place in `tick`/`_handle_signal`; every Redis call and passorder is a step, and
each has the outcomes "done", "raised before it took effect" and "raised after".
`Fetch`, `FetchPoisoned` and `FetchFails` are `fetch()`: a reclaimed batch plus new
entries, a payload that does not parse, a call that raises. `refs` is
`_stream_ids_by_signal_id`, which keeps only the last entry of a signal: the reason
why a duplicate push is acknowledged one pass later. `Intent` stands for remark,
stock, action, volume, price and strategy of a signal, the fields reconciliation
compares. Prices and volumes are not computed; `Handle` may skip, fail or submit.

Not in the model: an order whose native call takes longer than the claim's TTL
(an hour), as `ClaimExpires` says.

### ExecEventReplay and EventFeed

An event is a pair (epoch, sequence). `Publish` writes the journal first and the
socket may drop the event. `FirstRetained` is the edge of the deque. `IsGap` and
`Replayed` are `get_events_since`; `Repair`, `Replay` and `Receive` are
`_replay_execution_events` and `_dispatch_event`. After `Restart` the journal of
the old process cannot be read any more, while its live events may still wait in
the SUB queue. The terminal's quotes go through the same socket (`publish_transient`);
they move no cursor, but the listener replays periodically only after `recv` timed out,
a second without any message, so `PeriodicReplay` needs a pause of the quotes
(`QuoteTraffic`). `EventFeed` is the promise: deliver in order, once each, or give up
a range with a gap report. `ExecEventReplay` implements it under the mapping
`Feed` until the strategy is restarted.

### OrderSubmission

A call is one HTTP request, a retry is another call with the same identity. `http` is
where the bridge is with it or what it answered, `phase` where the strategy is. An order
is named by the call whose passorder placed it, so that "two orders of one
`client_submit_id`" can be said. `visible` lags `orders`: passorder is asynchronous and
queries show an order later or never. Terms are records, and a broker's row is compared
with them as the code does it (`Fits`, `NamesOther`): a price of 0, the default, fits any;
a deal (`bare`) tells neither volume nor price; a row need not name a strategy; the price
type is not compared. The journal compares all of them (`Same`). `late` is the deadline of
the request, which the strategy compares before it executes (`StartExpired`) and the
bridge independently (`TimesOut`). `Restart` loses the journal, the queue and the request
in hand. `MCOrderSubmission` keeps one of the requests that differ only by a renaming of
calls and identities.

### HistoryDownload

Each action is one critical section of `_DownloadJobManager._lock`, which saves the
job before it releases the lock, so a job in the model is at once the object and
its file. `worker` is `_run_job` with the batch and retry loops, `thread` is the
thread that makes the native calls of a batch; after `BatchTimeout` it may be left
alone and go on. `Crash` is a crash with the restore of the next start. The three
history variables `seen`, `late` and `unknown` record the reads, the calls after a
cancel and the calls a crash interrupted; no guard reads them.

### RuntimeController

Loop actions run from one await to the next; the factory, `dispose` and `reset`
run in threads beside the loop. `connect` is the attempt that holds
`_connect_lock`, `lost` the losses whose runtime is being disposed of, `closing`
the progress of `close()`, `late` the done-callback of a factory that outlasted the
drain timeout. `addr` is `id(runtime)`: the controller keys disposals by it and the
hub compares generations by it, and Python gives the address of a closed runtime to
a later one, so `NewAddr` chooses any address but that of an open runtime whose close did
not raise. `handed` and
`skipped` are history variables that tell runtimes that were given to a dispose
thread from those that were passed over because of their address, or because their
factory raised after it had put them into the slot.

Closing a runtime can raise: `ZmqTransport.stop()` does when its I/O thread does not end
within two seconds (`bst/transports/zmq_transport.py:688`). `stuck` are the runtimes
whose close raised; they keep what they own. Where `_close_runtime` closed it the
exception is logged; `discard_bigqmt_runtime` and `initialize_bigqmt_runtime` pass it on,
and `raised` are the runtimes whose disposer got it. It ends the loss handler before
`_ensure_recovery` (`task` = "unstarted"), the recovery task in its exception handler
("died"), `start()` and with it the startup of the bridge (`UndoRaises`), or `close()`
before the drain and the reset (`closing.at` = "aborted").

`start()` may still be running when `close()` is called, as
`tests/test_runtime_recovery.py` does it (`test_close_drains_blocked_factory...`).
`Close` includes the close of the hub that `app.py` does just before. A native
subscription is a synchronous call on the loop and blocks it (`asking`). `stream` is the hub's
own record of it; what the terminal keeps open is in `QuoteHubs`.

### RpcCall, RpcService, ZmqTransport, StoreTransports, RpcPlane

`RpcCall` is the contract the other modules rely on when they say that a call is
answered, refused, or unknown. `RpcService` is the part of the strategy's service that no
transport owns: a request is run by the receiving thread, deferred to the tick, or
refused by the full queue or after its deadline; handling and publishing are two steps.
In `ZmqTransport` the I/O thread of the client (`cur`, `owner`), the router
thread and the tick are separate, and an exchange that times out closes the DEALER, so that
the late reply dies with its identity. `StoreTransports` has the list popped at both
ends, the channel only a live listener hears, and the rows two servers select and
claim. `RpcPlane` chooses a transport and maps it on `RpcCall` (`ContractKept`).
A call in `Undated` carries no deadline, as `send_request` of redis and mysql
does. Two texts of the code are not modelled because they have no effect: the
MySQL module promises a clean-up by TTL (`mysql_transport.py:27`) and never uses
`row_ttl_seconds`; BRPOP takes the newest request where the tick's LPOP takes the oldest.

### DownloadPump, FullTickCache, StrategyTick

A Redis command is a step and each may fail; `Stop` may come between any two.
`status` is the job's key, `saved` its progress, `queue` and `current` the list and the
pointer. Submission is one step: the pump finds a job only by the id that the
last command pushes. A demand is removed by its id after all were read, so a renewal in
between goes with it (`FullTickCache`); its reader is served when it asks again. The
order "newest first" and the cap can keep an older second market demand unserved for as
long as newer ones are renewed; `MarketServed` is about the demands the cap admits.
Faults in a market round are bounded, those in symbol rounds are not.

### FormulaServer, BinaryCache, HistorySource, LocalDat, HistoryReads

A window is read in halves, each over its own socket; a frame is (half, window, revision),
so that "whole" and "stale" can be said. `part` splits the behaviours in two: the
concurrency of loads (sockets, flights, files, the lane) and the source of one answer
(DAT, cache, RPC; days, holidays, sessions, counted reads). What these modules make
visible beside their properties:

* coverage looks at the two ends of a frame only, so a damaged day in its middle is claimed;
* a counted DAT read whose block starts after a record before the open of a day takes that
  day, which a read of the whole window drops (`TailIsExact`, section 6);
* the local cache mixes revisions of front-adjusted bars of different reads;
* a TTL check or a size measurement of a file another thread deletes raises, and costs one answer.

### Components

Twelve parts that share no state; `part` names the one a behaviour is about, and the
others stay in an initial state. One module for each:

* `TradeEvents`: native deque, drain, listeners' queues, notifier. `events` and `lq`
  hold events or the gap marker; `native` counts what QMT sent.
* `QuoteHubs`: `groups` and `sampler` for the polling hub; `entries` and `active`
  for the realtime hub, with generations taken from a small set of addresses. The native
  subscriptions (`open`) live in the terminal: they survive the loss of the bridge's
  runtime and end with the strategy (`TerminalForgets`), which the hub does not notice, so
  that its clients wait until a call fails. The hub swallows a failing unsubscribe
  (`srv/ws/quote_hub.py:234`), and the controller invalidates it when no runtime is there to
  unsubscribe on (`srv/runtime_controller.py:95`); what stays open then is in `orphans`.
  A restarted strategy may number from 1 again, so that the release of an old entry can
  hit a new subscription (`robbed`).
* `SectorDownload`: busy check, record, thread, child, guard. Because the child uses a
  relative import under `python -c` it ends in an error or a timeout and never in `ok`,
  which `docs/rest-api.md:163` lists. The guard counts the time the child needs to look
  around first, so that a healthy child can close the lane for good.
* `WriteGate`: all probes write one payload, and a slow one writes what it saw over a newer
  answer. `window` collects what the terminal was since a probe's ping, `reach` that and
  the windows of the probes under way at that ping. A write passes only on a state in the
  `reach` of its probe: the overwritten payload is in the property, as the bound of how old
  the deciding answer can be.
* `OrderCancel`: precheck, gate, RPC, the strategy's precheck, native cancel,
  reconciliation. `TradingWriteDisabled` is an `OSError`, so a cancel the gate blocks is
  answered `cancel_unknown` and not 403; a query refused after the cancel was sent is answered as
  `execution_started: false`. When both prechecks are blind the claim of
  `docs/api/trading.md:17` does not hold. `batch_cancel` stops at its first exception
  and says nothing of the cancels before it.
* `OrderBatch`: items go through the single submission's identity gate and journal, and
  rows are compared as there (`Fits`, `NamesOther`).
  Any item may be an invalid one. A batch does not insist on the strict lookup, and an exception after passorder is
  reported as an explicit failure; the properties speak of what the journal knows. No HTTP route calls it.
* `RuntimeClients`: main and minute client, lazily built transports, the callback, the minute
  lane, `close()`. A minute read whose transport is not built yet when `close()` passes
  builds one that nobody stops (`overtook`); a second one is excluded only by the lane.
  `close()` stops the minute client before the main one. The quote listener belongs to the
  main client: a subscription whose RPC `close()` overtakes starts a listener that nobody
  ends (`late`), and a listener that failed once is started again only by the next
  registration (`failed`).
* `HistoryProbe`, `Telemetry`, `MinuteSubscriptions`, `ExecPublish`, `RuntimeInstall`. Losses that are
  pending when telemetry shuts down are never reported; an error of a release replaces
  the data of a minute read and leaves a subscription that counts against the quota; deals
  of futures carry no operation type, so a sell that opens is published as BUY, and so is an
  order of that kind without a direction, its operation type notwithstanding
  (`FieldsTellSide` names the cases in which the event is right, and the others); the
  installer undoes nothing and names its backup by the second.

## 3. Runs

The passing runs finish without error; the two violations are explained in section 6.

| Run | Question | Bounds |
|---|---|---|
| `signal_safety` | Is a signal ordered at most once, with its intent recorded first and a truthful status, and acknowledged only when decided? | 2 consumers, 2 signals, 4 entries (one a duplicate, one unparsable), 1 fault, symmetric consumers |
| `signal_live` | Does every entry settle once faults stop? | 2 consumers, 2 signals, 2 entries, 1 fault |
| `exec_feed` | Does the listener implement the feed until a restart, lose silently only on an epoch change, and catch up when quotes pause? | 2 processes, 4 events each, journal of 2, queue of 2, 1 failing replay |
| `submit_retry` | Is there one order per identity, are answers earned, do abandoned requests stay unexecuted, is every call answered? | 2 calls, 2 identities, no price or one of two, 1 restart |
| `download_jobs` | Are unknown calls never repeated, does a cancel stop, are results earned, does every job end? | 2 jobs of 2 and 1 symbols, 3 and 1 attempts, batches of 2, 1 crash |
| `runtime_recovery` | Is recovery forgotten only by a dispose that raised, is there one runtime, do clients follow, does close release what closes? | 2 reports, 2 raising calls (account connects, closes), any number of failing factories, 3 addresses |
| `rpc_transports` | Does each transport keep the contract of a call, are late and orphaned replies harmless, is a waiting call served? | 2 calls (one without a deadline), queue of 1, 1 stop, ZMQ with and without a router thread, redis, mysql with 2 servers |
| `strategy_tick` | Is no job lost or overcounted, do jobs end, is a renewed market demand served? | 2 jobs of 2 symbols, slices of 1, 1 fault, 2 demands |
| `history_reads` | Is every answer whole, is what is in flight wanted, do claims of coverage hold, does data never go back? | 2 callers, 2 windows (one split), 2 asks, 2 reads, 2 faults; 4 days with a holiday, a code, 2 periods |
| `components` | The property of each of the small parts | listed in `Components_parts.cfg`; among them 2 clients, 2 codes, 3 runtimes and 3 lives of the strategy for the hubs, 2 symmetric batches of at most 2 items with no price or one of two and 1 raising call, and 1 minute read at a time, which is all the lane admits |
| `submit_not_started`, `history_coverage` | the disagreements of section 6 | smallest instance that shows each |

Several properties are conjunctions that answer one question: `StatusAccounts` (types,
intent, truthful status), `NothingPassedOver` (types, loss only on a crossing,
refinement), `ResultsAreEarned`, `RuntimeOwned`, `CallsAccounted`, `PumpAccounts`,
`InFlightIsWanted`, `ClaimsCover`, `EventsAccounted`, `StreamsMatchClients`,
`OneDownload`, `BatchIsSafe`. Their conjuncts are definitions of their own.

Why the bounds are enough: every hazard here is between two actors or two stages of
one, so two consumers, two calls, two jobs or two runtimes with one fault placed
anywhere exhibit it; journals, queues and deques are smaller than the number of events,
so that eviction and overflow happen, twice in `TradeEvents` (6 events through queues of 2); addresses
are fewer than runtimes, which forces a reuse; three downloads, for the race of two busy
checks needs a third that is under way; one crash comes at every point, and the proofs
cover any number of crashes. Mutants of the modelled code show that each property is
violated within these bounds when the code is wrong.

Deadlock checking is off where the system may stop (all signals acknowledged, all calls
answered, all jobs ended, the bridge closed); `strategy_tick` never stops and is checked
for deadlock.

### Fairness

* `signal_live`: a tick goes on, the timer starts another one, the cursor of
  XAUTOCLAIM comes round to every entry, claim keys reach their TTL, and the broker
  shows the orders it has.
* `exec_feed`: the listener thread runs; it reconnects, receives and replays
  whenever `recv` times out again and again (strong fairness). The publisher, the socket and
  the quotes have no fairness: `CatchesUp` takes pauses of the quotes as its hypothesis.
* `submit_retry`: the bridge's threads and its clock run. Nothing is assumed of the
  strategy, which may never answer.
* `download_jobs`: the worker and the batch thread run. A native call ends because
  its RPC has a deadline, and the market closes.
* `runtime_recovery`: every ready task of the event loop gets its turn (strong
  fairness, because native subscriptions block the loop from time to time), threads
  run, and QMT is not down for ever (strong fairness of `Publish`). The loop outlives
  `close()` until a late factory has returned; when the process ends first the
  operating system releases the resources.
* `rpc_transports`: the I/O thread, the router thread and the tick run, and a caller whose
  call is complete is woken. No deadline is assumed to pass, so `WaitingCallServed` is not
  won by a timeout.
* `strategy_tick`: QMT calls the strategy's timer, and the throttle of market rounds runs
  out. Clients and faults have no fairness.

## 4. Proofs

Every invariant and every safety action property that a passing run checks is the
statement of a theorem, for all values of the constants. The theorems rest on the named
`ASSUME`s of the modules (types and finiteness of the constants, and that the model's
"none" values are not calls, reads or owners) and, where it says so below, on a
hypothesis. A proof module holds the inductive invariant, one lemma or step per action,
and the theorems.

**`SignalTradingProofs`** (`TypeCorrect`, `Invariant`, `OrderedOnce`, `IntentKept`,
`AcksAreDecided`, `StatusesAreTrue`). The inductive invariant is `IInv` of
`SignalTrading`: the claim is a lock (`ClaimIsLock`), each stage of a tick knows what the
status of its signal can be (`StatusAtStage`), and nothing was sent before passorder
(`NotYetOrdered`). "One order" alone is not inductive: a second passorder is excluded
because the consumer that makes it holds the claim and read an absent status under it.
`StatusesAreTrue` adds that a consumer about to record a submission knows the broker to
have the order (`OrderSeen`). Hypotheses: an entry does not outlive the status of its
signal (`~EntriesOutliveStatus`), without which the property fails (section 6); for
`StatusesAreTrue` also `IntentsDiffer`: reconciliation finds an order by remark and
terms, and the remark is the signal's id unless its producer chose one, so two signals
with a chosen remark and terms in common could be confirmed by each other's order.

**`OrderSubmissionProofs`** (`TypeCorrect`, `SubmittedCorrect`, `OrderedOnce`,
`AbandonedStaysUnissued`). Issued calls of one identity exclude each other because the
journal, or after a restart the visible order, stops the second. An answer `submitted`
is backed (`Backed`): passorder was called on the call's own terms, or the broker shows an
order under its identity that contradicts none of them as the code compares them
(`Backs`); what the strategy settles on a row, and what the bridge reconciles with one, is
that and no more. That the order has the call's terms does not hold (section 6). Hypothesis of
`OrderedOnce`: an order the journal has lost is visible (`~UnjournaledLag`). The journal
is in memory, so after a restart nothing else could know of it.

**`HistoryDownloadProofs`** (`TypeCorrect`, `UnknownStays`, `CancelLimits`,
`EveryResultIsEarned`). A thread past its check has its symbol on file as in flight
(`InflightInv`), a job whose call was interrupted is neither queued nor run
(`UnknownInv`), and once a call was made after a cancel no thread of the job is past its
last check (`LateInv`). Results are earned (`EarnInv`) because a batch's thread has made
every call of the batch when it returns well; what is asked for, retried and left over do
not overlap; a symbol asked for has a result or is pending unless the job was canceled;
and before the first crash a job runs once, with no results to begin with, so that no
read takes back the rows of a symbol that is ok.

**`RuntimeControllerProofs`** (`NeverForgotten`, `OneIsServed`, `OwnedAndFollowed`). A
task or handler that would bring a runtime ends without one only where a dispose raised,
and what raised stays in `raised`. While the attempt that installed a runtime starts the
download jobs, no report can take that runtime away (`InstalledKept`), so a recovery task
that ends as a success leaves a runtime, and one that ends otherwise is repeated or has
set the configuration error. An attempt runs only while nothing is installed, a loss is
handled only while nothing is installed and no attempt runs, only the attempt has a
factory under way (`AttemptAlone`), and the slot has the newest runtime, another one being
open only until the factory that replaced it returns, or because its close raised
(`SlotAlone`). `OwnedAndFollowed` keeps a ledger: every runtime but the first is owed to a
handled report or to an account connect or a close that raised, which bounds how many are
made. Until the next attempt the slot holds the runtime being disposed of, one still there
afterwards was skipped, and a dispose thread is only given a runtime that no other was
given; so the clients can only be on a skipped runtime, or on the new one once it is used.

**`ExecEventReplayProofs`** (`NothingIsPassedOver`, with the refinement of `EventFeed`).
The cursor is never ahead of the journal it names (`CursorInv`), so a replay never sets it
back within a process; what waits in the socket was published (`QueueInv`); of the first
process every event up to the cursor was delivered or given up with a gap, and none after
it (`FirstInv`), from which each step is one of `EventFeed` or a stutter.

**`RpcAndStrategyProofs`** (`CallsAreAccounted`, `KeepsContract`, `NoJobIsLost`). The
service is proved once: it holds a request once, and replies only to what it holds. A
store's request waits in one place, was made by someone and is unseen by the service. A
ZMQ call goes through phases: to be sent on a fresh identity, once on the wire, at the
server, its answer queued or sent and the identity used up; the I/O thread leaves its loop
only when new calls are turned away, and the open DEALER carries nothing but the exchange
under way. Each step of a transport is then a step of `RpcCall` or none (`KeepsContract`).
For the download pump (`PumpInv`): it holds a job only between the pop and the end of the
slice; while it slices, the pointer names the same job, and in the middle of the pop the
pointer names nothing (`PumpHolds`), so that only a fault between LPOP and SET makes an
orphan. Every symbol before the point a job has reached was downloaded, those after it
only in slices that a fault ended (`Progress`). Every step of the tick is a step of the
pump, leaves it alone, or is a fault elsewhere.

**`HistoryReadsProofs`** (`EveryAnswerIsWhole`, `NothingIsLeftBehind`, `DataOnlyAdvances`,
`ClaimsAreCovered`). A window's flight is its one loader, whose Future is open until it is
resolved; the native lane is one caller's (`CallerInv`). Whatever is on a socket is the
true answer to a read that was made, for that half, and the number of a new read is on no
socket, so that an answer of a read that was given up matches nobody; a half stays queued
only while its caller waits for it or past its deadline (`LaneInv`). A file holds one frame
per half, and what is about to be stored is later than what it replaces (`DataInv`).
`ClaimsAreCovered` needs the search of the DAT tail to end: the blocks grow by doubling and
the window is finite (`DoublingFunction`, `DoublingEnds`), a block holds all later records of
the window (`LastOfUpper`), so it decides of each day as a read of the whole window would,
except for a day it cuts (`BlockRows`). The theorem says what is true then (`TailExact`):
bars of sound days only, and the last of the usable ones unless some day has a sound
record before its open (section 6). That exception was found by the proof.

**`ComponentsProofs`** proves each part of `Components` as a specification of its own, which
is what a behaviour of `Components` with that `part` runs (`StepsOfParts`):

* `MinuteReleased`: the lock is held exactly while a read is active.
* `OneSectorDownload`: the record names the download under way unless a second one
  passed the busy check with it.
* `BatchesAreSafe`: the journal has every call of this life of the strategy that did not
  raise, and an entry with an order id is matched by a visible order (`JournalKnows`); the
  item in hand has what its earlier steps found (`StepKnows`); for an accepted receipt
  stands a call with its terms or, where the journal cannot tell, one whose row contradicts
  none of them (`ReceiptsKnown`, `StandsFor`).
* `PassedSawTrading`: what a probe carries to the payload it saw since its own ping
  (`CarriedWasSeen`), and what is carried or in the payload is within the reach of a probe
  that is about to read it (`WindowsReached`). No probe is excepted.
* `AnswersAreTrue`: a cancel is queued, in hand or called once, what was never sent or was
  refused is never called, and an open request sees the order it names.
* `TelemetryIsAccounted`: events come before the sentinel of their worker, and what was
  emitted is the sum of what is queued, in hand, sent and dropped.
* `ActionsAreSides`: by cases over kind and product and over which fields arrived, for the
  objects `FieldsTellSide` names; it says nothing of the others, which are published wrongly.
* `InstallsAreRestorable`: files are written in order, and what was overwritten is in a
  whole backup.
* `ReportsAreOfWindow`: a request is recorded at most once, while its probe is the newest.
* `EventsAreAccounted`: what a connected listener is owed is in its queue or the deque, or
  a gap is; a listener that gave up holds a gap; what `stop()` found in flight is still
  there at the purge.
* `ClosedRuntimesAreQuiet`: what is used was published, the minute lane is one read's,
  `close()` waits for whoever is binding, and a read that holds a client of a closed
  runtime was overtaken.
* `StreamsMatch`: codes lead to distinct running groups and a client keeps its group; what
  a subscription finds after its generation check is consistent; entries of this life of the
  strategy have numbers of their own, below the next one, and are open unless another
  entry's release took them (`EntriesOpen`); a release leaves a subscription only among the
  orphans (`Unsubscribing`).

Only model-checked: liveness, which with fairness and `ENABLED` is out of the prover's
reach (`EntriesSettle`, `CatchesUp`, `EveryCallAnswered`, `EveryJobEnds`, `Recovers`,
`CloseReleases`, `WaitingCallServed`, `MarketServed`, `JobsEnd`), and the violations of
section 6. Induction over data is out of reach as well; where an argument needs it (the
greatest element of a finite set, the search of the DAT tail) it goes by a minimal
counterexample (`WFMin` of `WellFoundedInduction`) instead.

## 5. Left out, and why

* Data: prices, volumes, quotes, messages and texts are single values or small sets.
* The transports outside `RpcPlane`: a call is answered, timed out, refused or lost, in
  any order, which is what `RpcCall` permits.
* The other account writes (fund transfers, credit) and the account queries; the synchronous
  download routes; collection of old jobs; a failing write of a state file.
* Two bridges on one state directory: `srv/singleton.py` excludes them.
* `recovery_status` (`srv/routers/meta.py:217`) is a snapshot that may be stale
  when its reader acts on it.
* Address discovery, connection pools, the shared-memory transport (which only raises).
* The retry delays, logging, formatting, configuration and authentication.
* Components with status `not_modelled` in `PROJECT.json`, each with its reason.

Hazards of `PROJECT.json` with a note are covered up to what the note says.

## 6. What the code does that its texts do not say

Two runs show a violation:

* `submit_not_started`: a reconciliation query refused by the full queue answers the
  order with `execution_started: false` (`srv/routers/trading.py:177`).
* `history_coverage`: except for `1m` only the dates are compared, so a window of
  five-minute bars is reported as covered although the opening bars of its first day or
  the closing bars of its last are missing (`srv/routers/market.py:104` and `:172`).

The following are definitions of the modules that no run lists. Each is violated when it is
added as an INVARIANT to the configuration named:

* `NeverFakeFailed`, `SignalTrading_safety.cfg`: an XACK that raises after SUBMITTED was
  written ends in the handler of `tick`, which overwrites it with FAILED (`bst/app.py:148`).
* `AtMostOneOrder` with `EntriesOutliveStatus = TRUE`, `SignalTrading_safety.cfg`: an
  unresolved signal that outlives the TTL of its status is ordered again
  (`bst/adapters/state_redis.py:16`).
* `NoSilentLoss`, `ExecEventReplay_feed.cfg`: the first live event of a restarted
  strategy moves the cursor to the new epoch without a replay, so earlier events of that
  epoch are lost and no gap is reported (`bst/trading_client.py:277`).
* `CatchesUpUnderQuotes` (as a PROPERTY), `ExecEventReplay_feed.cfg`: while quotes arrive
  without a pause, the periodic replay never comes, and a last event the socket dropped is
  not caught up (`bst/trading_client.py:217`, `bst/exec_events.py:157`).
* `SubmittedIsExact`, `OrderSubmission_retry.cfg`: a call is answered `submitted` for an order
  with another price when one of the two has none (`srv/routers/trading.py:97`,
  `bst/redis_rpc.py:919`), although `docs/api/trading.md:15` makes other terms a conflict.
* `IdempotentIsExact`, `Components_parts.cfg`: the same for an item of a batch after a restart
  or a raise, against the comment at `bst/redis_rpc.py:1000`.
* `AlwaysAttended`, `RuntimeController_recovery.cfg`: a dispose that raises leaves an absent
  runtime with no recovery under way (`srv/runtime_controller.py:261` and `:137`,
  `bst/transports/zmq_transport.py:688`).
* `OwnProbeDecides`, `Components_parts.cfg`: a write passes on an answer that another probe
  got before the write's own ping (`srv/bigqmt.py:188`).
* `NoOrphans`, `Components_parts.cfg`: the terminal keeps a subscription no client waits for
  (`srv/ws/quote_hub.py:234` and `:258`).
* `SubmittedIsConfirmed`, `OrderSubmission_retry.cfg`: an unconfirmed receipt is answered
  as `submitted` (`srv/trading/manager.py:124`).
* `VerifiedHasRows`, `HistoryDownload_jobs.cfg`: a job is reported as verified on the
  strength of a success from before a crash, although its rows are gone
  (`srv/routers/download.py:706`).
* `TailIsLast`, `HistoryReads_reads.cfg`: a counted read and a read of the whole window
  disagree about a day that has a record before its open (`srv/qmt_local_dat.py:111`). The
  bars are those of a sound day either way.

No definition states the comment at `bst/formula_server.py:785`, that a failed half
leaves no sibling running beside its caller's RPC fallback: a half slower than the router's
timeout runs on. Nothing observable follows from it.

## 7. Plan

Done, in the order of importance: signals, events, submission, downloads, runtime; the RPC
plane, the strategy's tick, history reads; the small components. What remains:

1. Proofs beyond the properties of the runs: that the demands of `FullTickCache` and the
   throttle keep their shape, on which the liveness of `strategy_tick` rests, and that the
   batches of `OrderBatch` are a case of `OrderSubmission`.
2. Pure functions: incremental minute windows, code normalization.
3. A part of `Components` that grows, `OrderCancel` first, gets a run of its own.

## 8. Running it

    tlc -workers 2 -config SignalTrading_safety.cfg MCSignalTrading
    tlc -workers 2 -config HistoryDownload_jobs.cfg MCHistoryDownload
    tlc -workers 2 -config RuntimeController_recovery.cfg RuntimeController
    tlapm SignalTradingProofs.tla

`PROJECT.json` lists module and configuration of every run. The largest are
`components` (4.2 million states), `runtime_recovery` (0.6 million) and `strategy_tick`
(0.9 million), the last two with liveness; each takes about two minutes.
