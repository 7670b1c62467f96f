# A verification development for the JCBV-NEXUS IQ Option SDK

The repository is a Python SDK that logs in to a broker, keeps a WebSocket
session alive, places options and margin orders, waits for their results, streams
candles, and runs a small trading bot on top.  This directory models the parts of
it that are hard to test - several threads sharing plain attributes, messages
without an identifier, connections replaced under calls in progress, breakers and
limiters that decide when to stop - in TLA+, checks them with TLC on small
instances, and proves the properties that matter most with TLAPS.

All paths below are relative to `src/iqoptionapi/` unless they start with `docs/`
or `tests/`.

## 1. Inventory

### 1.1 Threads

| Thread | Made by | Runs |
| --- | --- | --- |
| the owner and any caller of the library | the program | `connect()`, `buy()`, `check_win()`, `close()`, ... |
| WebSocket thread, one per `IQOptionAPI` | `api.start_websocket()` | handlers of messages, under `api._ws_lock`; `on_close()` |
| AutoReconnect | `stable_api.py`, callback of `on_close()` | `_reconnect_with_backoff()` |
| Watchdog and its WatchdogReconnect threads | `mixins/management_mixin.py` | looks at the heartbeat, forces a reconnection |
| TokenRefreshWorker | `connect()` | calls `connect()` every few hours |
| BotThread | `BotOrchestrator.start()` | `_run_loop()` |
| result threads | `BotOrchestrator._execute_trade()` | wait for a result and journal it |
| subscription dispatcher, candle maintenance | their constructors | queues and caches |
| position monitors, workers of `close_all_positions()` and of `get_all_open_time()` | the caller | poll, close, fill one table |
| workers of the pool of `async_api.py` | `AsyncIQ_Option` | blocking methods on behalf of coroutines |

### 1.2 Components

| Component | State it keeps | Operations | Interacts with | What is hard | What makes it correct |
| --- | --- | --- | --- | --- | --- |
| Binary orders (`mixins/orders_mixin.py`, `ws/received/auth/result.py`, `ws/received/orders/`) | `buy_multi_option`, `pending_buy_ids`, `result` | `buy()`, handlers of `result`, `option`, `option-opened` | server, rate limiter, validator | `option-opened` carries no request id; shared variables; late answers | an order id goes to one request; an accepted order is reported |
| Settlement (`stable_api.py` `check_win`, `_wait_result`; `ws/client.py` `on_close`) | event stores, `game_betinfo`, `order_async` | wait, handlers that close an order, kill switch | connection | check-then-act on the store; store replaced by `connect()` | own wake-up, every wait ends, a lost connection frees the waiters |
| Connection (`stable_api.py`, `api.py`, `core/reconnect.py`, `mixins/management_mixin.py`) | `self.api`, its WebSocket and callback, attempt counter, breaker, watchdog | `connect()`, `close()`, `on_close()`, `_reconnect_with_backoff()`, token refresh, watchdog | everything | concurrent `connect()` calls, reconnecting storms | attempts are bounded; a lost session comes back; reconnecting ends |
| Circuit breaker (`circuit_breaker.py`) | state, counters, balances, trip time | 9 methods | bot, reconnection | reading changes the state; two users share a counter | limits are kept, one test order, the wait is waited |
| Rate limiter (`core/ratelimit.py`) | `_tokens`, `_last_refill` | `consume()`, `available_tokens` | all orders | laziness, sleeping outside the lock | no flood, no starvation |
| Bot (`bot/orchestrator.py`, `cli/main.py`) | `_running`, `_thread` | `start()`, `stop()`, `_run_loop()`, `_tick()` | breaker, orders | a join that times out | one loop, none after `stop()` |
| Subscription manager (`subscription_manager.py`, `mixins/streams_mixin.py`) | queue, record of active streams | subscribe, unsubscribe, urgent requests, dispatch, `stop()` | api object, which may raise | requests overtake each other; failures in the middle | what is on record is what was asked last; at most one request leaves after `stop()` |
| Idempotency registry (`core/idempotency.py`) | entries by request id | register, confirm, fail, purge | orders | either verdict may come first, entries age | a confirmed order is found while its entry lives |
| Digital, margin, blitz and pending orders, positions, balances (`mixins/`, `stable_api.py`) | one slot and one Event per kind | queries, monitors, `close_all_positions()`, `get_all_open_time()` | server | callers share slot and Event; workers share one result | a caller gets the answer it asked for; a report is backed by answers; a monitor that is stopped ends |
| Trade journal, result threads (`trade_journal.py`, `bot/orchestrator.py`) | a file per day | open, close, record | bot | file rewritten in place, midnight, crash | a record stays in the file of its day, once |
| Performance, summaries (`performance.py`) | none | figures from the file | journal | the file is not in the order of the trades | figures agree with their definition |
| Reconciler (`reconciler.py`) | none | `reconcile()` | journal, server | | |
| Martingale guard (`martingale_guard.py`) | step, last stake | next amount from the last result | bot | caps and floors in some order | stakes within the caps |
| Candle cache and live candles (`candle_cache.py`, `ws/received/market/candle_generated*.py`) | buffers and dictionaries by asset and size | add, filter by age, bound | stream handlers | maintenance beside updates, without a lock | newest first, recent, and no swept candle comes back |
| Patterns, regime (`strategy/pattern_engine.py`, `market_regime.py`) | none | read the cache | candle cache | candles are newest first | rising and falling prices are treated alike; the trend is the market's |
| Consensus, server bridge, timeframes, scanner (`strategy/`, `asset_scanner.py`) | none | decide | strategies, server | partial failures, thresholds | one verdict, the majority's; best first |
| Backtest engine (`backtest/engine.py`) | trades, balance | loop over candles | strategies | the end of the data, ruin, integer boundaries | books and figures agree |
| Expirations, time sync (`expiration.py`, `ws/objects/timesync.py`) | server offset | choose an expiration | orders | boundary seconds, three clocks | the expiration is near what was asked, and purchasable |
| IP rotation (`ip_rotation.py`) | time of the last rotation | login with rotation | connection | check, rotate and record without a lock | rotations are bounded |
| Asynchronous facade (`async_api.py`) | pool and its queue | blocking methods as coroutines, `close()` | all methods | cancellation, a shut pool | the pool outlives the connection; every await ends |
| Validator, session scheduler | none | pure decisions | bot | boundaries | |
| HTTP login, stealth sequences, message builders, CLI arguments, health, constants, logging | little or none | I/O and formatting | | | |

`PROJECT.json` lists each of these with its status, and under `hazards` each place
of the code where one of the hard behaviours bites.

## 2. The modules

| Module | Code | Kind |
| --- | --- | --- |
| `BuyCorrelation` | `buy()`, `send_websocket_request`, handlers of its answers | interleaving of callers, server, WebSocket thread |
| `CircuitBreaker` | `circuit_breaker.py`, every method | sequential object, histories |
| `BotOrchestrator` | `start()`, `stop()`, `_run_loop()`, skeleton of `_tick()` | interleaving of owner and loops |
| `GuardedBot` | `_tick()`'s use of the breaker, the status query of `cli/main.py` | composition of the two modules above |
| `Allowance` | none: what a rate limiter promises | abstract specification |
| `TokenBucket` | `core/ratelimit.py` | implements `Allowance` |
| `Queries` | 48 methods that ask and wait, 34 handlers that answer | interleaving of calls and handlers over one channel |
| `Settlement` | `check_win()`, `_wait_result()`, handlers, kill switch, `connect()` | interleaving over event objects |
| `Connection` | `connect()`, `close()`, `on_close()`, reconnection, watchdog, token worker | interleaving of up to five threads |
| `Subscriptions` | `subscription_manager.py` | callers, dispatcher thread, owner that stops |
| `CandleFeed` | `candle_cache.py`, handlers of candle messages | stream handlers beside the maintenance thread |
| `TradeRecords` | `trade_journal.py`, result threads of the bot | threads over one file, midnight, crash |
| `Idempotency` | `core/idempotency.py` | sequential object, time, histories |
| `IpRotation` | `ip_rotation.py` | reconnecting threads over one timestamp |
| `AsyncCalls` | `async_api.py` | coroutines, pool, cancellation, `close()` |
| `Monitors`, `CloseAll` | `monitor_positions()`, `close_all_positions()` of `mixins/positions_mixin.py` | threads over one attribute, workers over one Event |
| `OpenTimes` | `get_all_open_time()` of `mixins/management_mixin.py` | three threads that fill one table |
| `MultiOrder` | `buy_multi()`, `buy_by_raw_expirations()` | a call that sends several orders at once |
| `Stakes` | `martingale_guard.py` | sequential object |
| `Expirations` | `expiration.py`, digital expirations, `timesync.py` | three clocks |
| `Reports`, `Backtest` | `performance.py`, summaries of the journal; `backtest/engine.py` | algorithms against reference definitions |
| `Patterns`, `Votes`, `Frames`, `Scanner` | `strategy/`, `asset_scanner.py` | algorithms against reference definitions |
| `Lists` | `sorted()` with a key, list comprehensions | operators used by four modules above |
| `XProofs` | theorems about module `X` (`BuyCorrelation`, `BotOrchestrator` with `GuardedBot`, `Queries`, `Connection`) | TLAPS |
| `DeskProofs` | theorems about `Stakes`, `IpRotation`, `AsyncCalls`, `Idempotency`, `Subscriptions`, `Monitors`, `TradeRecords`, `CircuitBreaker`, `TokenBucket`, `Settlement`, `Expirations` | TLAPS |
| `ListsProofs` | lemmas about `Lists`; theorems about `CandleFeed`, `CloseAll`, `OpenTimes`, `MultiOrder`, `Scanner` | TLAPS |
| `FiguresProofs` | lemmas about sums and recursive functions; theorems about `Votes`, `Frames`, `Patterns`, `Backtest`, `Reports` | TLAPS |
| `MCDeskProofs` | `MCDesk` runs the specification of every component in it | TLAPS |
| `MCX` + `X_<name>.cfg` | finite instances of `X` | TLC |
| `MCDesk` + `Desk_<name>.cfg` | finite instances of all modules that share no state with another | TLC |

Each module has one action per atomic step of the code; a thread's program
counter (`pc`, `loop`) names where it stands between steps.  Steps are cut where
another thread can observe the difference.  Below, "the caller" is a thread of
the program.

### BuyCorrelation

`entries` is `api.buy_multi_option`, `pending` is `api.pending_buy_ids`, `result`
is `api.result`; `served` and `net` are the server and its messages in flight,
which is external.  A call goes through `BuyReset` (the dict is replaced for
everybody), `BuyRegister` (an id, a blank entry, a first copy in the queue),
`BuySend` (`send_websocket_request` puts in a second copy, then the request
leaves, is dropped or raises), the 0.1 s polling loop (`BuyTakesId`,
`BuySeesFailure`, `BuyTimesOut`) and `BuyReturns`.  Orders are named after the call
that opened them, so that a mix-up is visible.  The server accepts or rejects
(with a `result`, an `option` without id, or both), messages arrive in any order,
and `OtherIds` are request ids that other commands of the session use as well: the
handler of `result` takes them for ids of `buy()`.

### CircuitBreaker

One action per method.  `Observed` is the `state` property, whose getter turns
OPEN into HALF_OPEN when the wait is over, so every method that reads it is also
the end of the wait.  Counters are kept as far as the code compares them (`UpTo`).
`trials` and `lastCall` are histories.

### BotOrchestrator and GuardedBot

The owner is one thread.  `StopBegins` .. `JoinEnds` is `stop()`: it waits at most
5 s, and sets `_thread` to None without looking.  A loop reads `_running` once per
round (`Enter`), works through a tick, sleeps, and clears `_running` when it leaves
(`Ends`).  `Prompt` says whether a tick with its sleep fits into the 5 s.  With the
default timeframe of 60 s it does not; with `Prompt = TRUE` the module describes a
bot configured to ticks of a few seconds.

`GuardedBot` extends `BotOrchestrator` and has a `CircuitBreaker` as an instance: each
of its actions conjoins one of the bot with the method of the breaker that is called in
it.  The tick asks `is_open()` when it begins, places its order at its end,
and hands over the balance after that.  `Reports` stands for the program around
the library: no code of the repository calls `record_loss()` or `record_win()`.

### Allowance and TokenBucket

Time is counted in ticks in which 1/`Unit` of a token is earned.  `Allowance` grows by one
tick at a time and is the abstract promise; `TokenBucket` refills lazily, has
threads that sleep outside the lock and ask again, and one of which takes two
tokens per order, as `buy_digital_spot()` does.  The refinement maps `level` to
`Refilled`, what the bucket would hold if it were asked now.  `surplus` is a history
that measures all time spans at once: it is the largest excess of orders over
earnings of any span that ends now (a running maximum, as of a queue).

### Settlement

`threading.Event` objects are numbered, because what goes wrong here depends on
which object a thread holds.  `Look` and `Create` are the two accesses of
`_wait_result()`, `Wakes`/`TimesOut` the end of `wait()`, `Reads` the lookup of the
outcome, `Cleans` the `finally`.  `Handle` is any of the handlers that close an
order, `OnClose` the kill switch, `Connect` the replacement of `self.api` with new
stores.  `home` is the api object a call took its store from.

### Queries

Nearly all other methods of the SDK have one form: set a slot (an attribute of the api
object) to None, clear a `threading.Event`, send, wait, read the slot; the handler of the
answer writes the slot and sets the Event.  They differ in which of these steps they have
and in which order, and there the mistakes are.  So a channel (slot, Event, handler) and a method
are records, made by the operators `Sets`, `Ask` and their modifications (`Afresh`, `OrOld`,
`Once`, `ClearLate`, `ClearNever`, `Renew`, `Poll`), one line per handler and per method with the
method's name, and the actions are the steps that the records choose from.  Each initial
state picks a channel and a method for each call, so that one run covers every pair of methods
that share a channel, in sequence or overlapping.  An answer is named after its call; the
SDK cannot see the name unless the channel is `Keyed` by request ids, taken to be distinct here.
`Pushes` are messages of the kind that answer no call of the model.  `disturbed` is a
history of calls whose slot or Event another call has touched.

Two methods ask more than once: `sync_state_on_connect()` (three requests, one at a time) and
`modify_margin_tp_sl()` (two); each round is a call.  `change_order()` makes a whole
`change_auto_margin_call()`, on a channel of its own, between its request and its `clear()`.

### Connection

The api objects form a small pool (`Free` ones are used again).  `link[a]` is the
WebSocket that object `a` knows; a second `api.connect()` on the same object leaves
an `orphan`.  A call of `connect()` is `Replace`, `Open`, `Register`, `Finish`, and each
of these reads `self.api` anew; it may fail in `OpenFails`, `SyncFails`,
`FinishRaises`.  Reconnect threads are `Check`, `GiveUp`, `Exhausted` around it, with
the attempt counter and the breaker they share.  `Rests` is the end of the breaker's
wait: here the breaker is an abstraction of `CircuitBreaker` to the parts a
reconnection touches (`record_failure`, `record_success`, the state).

### Subscriptions

`subQueue` is the deque, `subItem` the request the dispatcher has taken out, `subPc`
where it stands: it looks whether it is to stop (`Looks`), takes a request (`Takes`), sends it without the lock
(`Sends`, `SendRaises`), records the outcome under it again (`Records`) and rests.  Urgent requests go to
the head of the queue.  The object sent to may raise for any request; the one given in
`stable_api.py` does for all.  `lastAsked`, `irregular` and `lateSends` are histories:
the last request queued for a stream, the streams with an urgent or failed request (of
which nothing is claimed), the requests sent after `stop()` set its Event.

### CandleFeed

`buffer` is the deque of `candle_cache.py`, newest first, `live` the dictionary of live
candles.  A message (named by its number) updates both (`CandleGenerated`); the maintenance thread
filters the deque without a lock (`SweepBegins`, `SweepFilters`, `SweepStores`), and its filter raises, which ends the
thread, if the deque was extended meanwhile (`SweepRaises`, with `hit`).  `maxdict` is 0 where the program never set
the bound of the dictionary, and the handler of a new candle then raises.

### TradeRecords

`file[d]` is the file of day `d`.  Each order of the bot has a thread that waits for the outcome and then looks
for the trade's record to close it; it finds none and adds one (`NotFound`, `RecordAdded`).  A trade
that the program opened is found: closing reads the file, truncates it (`CloseTrade`) and writes it again
(`TradeClosed`), under the lock (`writer`).  `Midnight` comes between any two steps, and `Crash` ends all threads:
if a file was being written, what it held is lost (`torn`).  `journaled` is the
history of what was written.

### Idempotency, IpRotation

`registry` and `age` are the entries; `known` and `failed` are histories of the verdicts
handed in.  In `IpRotation` a thread logs in, looks at the time of the last rotation, rotates
and stores the time in separate steps (`dial`); `rotations` is a history: the rotations that ended
less than the cooldown after the one before.

### AsyncCalls

`line` is the queue of the pool, `work` what became of each call there, `answer` what
its coroutine has: a cancelled call that no worker has taken is dropped, one that runs
goes on.  `close()` is a call like the others; the pool is shut down after it.

### Monitors, CloseAll, OpenTimes

A monitor is a thread that looks up `_monitor_stop` anew at each turn (`turn`), and each
start replaces that attribute.  `CloseAll` has the pool of workers, one shared `success`
and one `signal` for their answers, and `really`, what the server closed.
`OpenTimes` has the three threads of `get_all_open_time()`: one writes entry by entry, the
digital one copies from it what is there by then.

### MultiOrder

`buy_multi()` and `buy_by_raw_expirations()` send orders under the ids 1, 2, ... (or
one name) and poll until all are there.  `option-opened` names no request, refusals leave no
placeholder.  Orders are named by call and place, so that a mix-up between calls is
visible.

### Stakes, Expirations

`Stakes` keeps the step, the last stake and the balance it was made for; the five strategies share
`next_amount()` (`FirstAmount`, `AmountAfterDraw`, `NextAmount`), whose caps (`Capped`) are applied in the order of the
code.  `streak` is a history of the losses, or wins, in a row.
`Expirations` has the server's clock (`now`), the last `timeSync` of it that was received (`synced`) and a skewed
local clock, and computes what each kind of option gets at each second.

### Patterns, Votes, Frames, Backtest, Reports, Scanner

These are computations: the variables gather an input item by item (candles, opinions,
timeframes, trades, assets), which keeps the enumeration small, and the properties compare the
code's result with a definition that does not follow the code: the mirrored input gives the mirrored
signal, support does not end a verdict, the balance at the end is the sum of the trades, the drawdown is the deepest
of all falls, streaks lie between trades with the other result, and no better asset is left out of the ranking.  The cache gives candles newest first, and `Patterns` keeps that order.

### MCDesk

The modules above share no state with each other, nor with the breaker, the rate limiter and the
settlement.  A behaviour of `MCDesk` is one of one component, chosen in the initial state (`part`),
while the variables of the others rest (`Only`).  So one run enumerates all of them, one after another,
and its number of states is the sum, not the product.  `FairDeskSpec` gives each component the
fairness of its own specification.  Where components do interact - the bot with its breaker, the
reconnection with its breaker and watchdog, orders with the messages of other commands - they
are composed in `GuardedBot`, `Connection` and `BuyCorrelation`.

## 3. The runs

| Run | Bounds | What it shows |
| --- | --- | --- |
| `buy_overlap` | 2 overlapping calls, 2 request ids, one also used elsewhere | ids may be drawn twice, messages overtake each other, answers come late or never: still no order id is held by two requests or held before the server accepted it (`OneOwner`), and every call comes back (`EveryCallReturns`) |
| `buy_reported` | 2 calls in sequence, every answer in time | **violated**: the second accepted order is reported as `(False, None)` |
| `guarded_bot` | 3 starts, ticks that fit in the join, loss limit 2, wait 1 | one loop, none after `stop()`, none that ends under a started bot, every loop is left in the end, and at most one order is placed after a trip: the one decided before it (`OneSlips`) |
| `bot_loops` | 4 starts, ticks of any length | **violated**: `stop()`, `start()` leave two loops |
| `queries_channel` | 2 calls of any two methods of each of the 34 channels, 1 stray message | no method that renews its slot or waits for its own Event returns old data as new (`AnswerIsNew`), no undisturbed call waits for an answer that has come (`NothingLost`), every call returns |
| `queries_digital` | the same, without stray messages | **violated**: a digital order is reported while its answer is still to come |
| `conn_storm` | 3 api objects, 2 reconnect threads, 4 attempts, breaker limit 2, 2 disturbances, `close()` included | attempts until the next success or rest are bounded (`StormBounded`) |
| `conn_back` | 3 disturbances, 3 attempts, no refusals by the server | a lost session comes back |
| `conn_settles` | 2 disturbances, attempts succeed | **violated**: one forced reconnection goes on for ever |
| `desk_steps` | below | safety of twenty components, 24 properties |
| `desk_waits` | below | what must end ends, in seven components; and the expirations |
| `trend_sign` | 4 candles | **violated**: rising prices are a trend "down" |

The properties of the desk, by component:

| Property | Component | What it says |
| --- | --- | --- |
| `LastRequestWins`, `OneLateSend` | subscriptions | when the queue is worked off, the streams on record are those whose last request was to subscribe, urgent and failed requests apart; at most one request leaves after `stop()` |
| `CandlesAreRecent` | candles | newest first and no message twice; after a sweep nothing is left from before its cutoff; the live candles are the last ones, without a hole (where bounded) |
| `RecordedOnce` | journal | a record that was written stays in the file of its day, once, unless the process died while the file was empty |
| `ConfirmedIsFound` | idempotency | a confirmed order is found during the lifetime of its entry, unless `fail()` came later |
| `RotationsBounded` | IP rotation | a chain of rotations less than the cooldown apart has one per thread at most |
| `ShutAfterClose` | async facade | the pool is shut down after the connection was closed, unless `close()` itself was cancelled |
| `ReportIsBacked` | closing all | the report of a single close is true; with several, a success is somebody's, if no worker gave up waiting |
| `TableIsBacked` | open times | the first message corrects the second; a digital option is open on somebody's word only; instruments are missing only when no source has any |
| `OneTrial`, `RecoveryIsWaited` | breaker | one order per test phase; OPEN ends by the wait, a reconnection or a reset |
| `NoFlood`, `KeepsPromise` | bucket | no span of time has more orders than capacity plus earnings; `Allowance` is implemented |
| `OwnWakeup`, `KillSwitchFrees` | settlement | a call wakes up for its own order; a lost connection frees a call alone with its order |
| `StakesAreBounded` | stakes | within the caps but for the least of the broker; the step follows the streak and begins again after the last one |
| `SignalsAreSteady` | patterns | prices upside down give the signals of the other side, and signals are neither taken back nor added afterwards |
| `VerdictStands` | consensus | the server's indicators never turn or end a verdict, and make one actionable only with a majority among them; more support does not end one |
| `BiasIsFair` | timeframes | timeframes upside down give the other direction, and a direction has a timeframe behind it |
| `RunIsAccounted` | backtest | no trade after ruin; balance, profits and expectancy agree; drawdown and streaks are those of their definitions; the journal sees no larger drawdown |
| `IdsAreRight` | several orders | no id is returned twice, a call that did not give up returns its own orders' ids only, and answers in turn keep their places |
| `FiguresOfTheDay` | reports | the report does not depend on the order of the file; draws and open trades end no streak; a duration with positive expected value has earned money |
| `BestAreRanked` | scanner | no asset that passes is left out for a lower one; a monitor that fails hides no asset |
| `ExpiryIsAsked` | expirations | not within the last half minute, as near to the duration asked as the grid allows, of the right kind; the remaining time agrees but for the half minute; digital options on multiples of their duration |
| `EveryThreadEnds` | several | requests are taken, recordings end, awaits end, a stopped monitor ends, `close_all_positions()` ends |
| `EveryOrderGoes`, `EveryWaitEnds` | bucket, settlement | no thread starves; every call of `check_win()` returns |

`DeskTypeOK` is the type invariant of all of them.  A property that says several things of its component is the
conjunction of named parts at the end of its module.

Bounds of `desk_steps`, and the states of each part:

| Part | Bounds | States |
| --- | --- | --- |
| subscriptions | 2 streams, 1 kind of news, 3 requests | 35 000 |
| candles | buffers of 1 and 3, dictionary unbounded or 2, 4 messages, clock up to 2 | 78 000 |
| records | 2 orders of the bot, 1 of the program, 1 midnight, 1 crash | 13 000 |
| requests | 2 ids, lifetime 2 | 700 |
| logins | 2 threads, 2 attempts and 2 calls each, cooldown 2 | 2 800 |
| async | 2 coroutines and `close()`, 2 workers | 950 |
| monitors | 3 | 250 |
| closing | 3 positions, 2 of them digital, 2 workers | 1 500 |
| open times | 2 assets, sources that agree, differ or are silent | 2 700 |
| breaker | limit 3, session loss 6, drawdown 10 %, wait 2, balances 0, 45, 50, 60, stakes 1 and 4 | 29 000 |
| bucket | 3 threads with 2 orders each, one pays twice, capacity 4/3 tokens | 30 000 |
| settlement | 2 calls, 2 orders, 1 lost connection, up to 2 messages per order | 262 000 |
| stakes | 5 strategies, 3 steps, streaks up to 9, 3 balances | 320 |
| patterns | windows of 3 out of 10 candle shapes (each with its mirror image) | 1 100 |
| votes | 3 strategies, 2 confidences, 2 indicators of the server | 21 600 |
| frames | 3 timeframes | 1 100 |
| backtest | 7 candles, window 2, 2 balances | 14 000 |
| batches | 2 orders, 2 rounds | 6 600 |
| reports | 2 assets, 3 trades | 16 500 |
| scanner | 2 assets, 3 payouts, 2 qualities | 10 400 |

`desk_waits` takes smaller instances where fairness makes the search expensive (2 requests, 1 order, 1 coroutine,
1 worker, 2 monitors, 2 threads of the bucket), and the expirations: durations 1, 2, 5, 15 and 30 minutes,
a local clock that is in step, 2 s ahead or 119 s behind, a lag of 1 s, every second of a quarter of an hour, 4 quarters ahead.

Why these bounds are enough to see the interesting cases: two calls, two waiters, two
workers or two reconnect threads are what each of the races in the code takes, and a third
position, monitor or thread makes one that is neither first nor last; two request
ids let calls draw the same id or different ones; the breaker's limits are small
enough to be hit from both sides of every comparison; a bucket that holds 4/3 of a
token has fractions left over; three api objects are the current one, the one that
is being closed and the one being made; one midnight and one crash fall between any two
steps of a recording; a streak of 9 goes twice through the steps of the progression.
`SYMMETRY` is used only in `conn_storm`, for the
reconnect threads, where only safety is checked.  Deadlock is not checked where the program may
come to rest: a bot that is stopped for the last time, calls that all returned, a
connection nothing disturbs, a component at its bounds.

Named bounds that the code does not have: `MaxCalls`, `MaxCloses`, `MaxReports`,
`MaxDisturbed`, `MaxApis`, `MaxCounted`, `MaxRequests`, `MaxMessages`, `MaxClock`, `LastDay`, `Crashes`,
`MaxDialed`, `MaxMonitors`, `MaxStreak`, `MaxRounds`, `MaxBooked`, `LastSecond`, the sizes of `Calls`, `Pushes`, `Waiters`, `Loops`,
`Reconnectors`, `Dialers`, `Coroutines`.
`conn_storm` caps its history `tries` just above the bound it checks.  One
`Worker` stands for the token workers, of which the code starts one per `connect()`;
they only add callers of `connect()`.

`LostIsReconnected` is the claim "the SDK handles reconnection automatically" as far
as it is true: `conn_back` loses connections at any three moments, which is one
short of what makes the shared breaker open; when it opens, the thread ends and
nothing starts another one (see section 4).

### Fairness

Weak fairness is assumed of running threads only: a thread inside `buy()`,
`check_win()`, a query, `connect()`, a tick or a reconnection takes its next step (its waits all
have time limits in the code); so do the dispatcher of subscriptions, a thread that
records a trade, the workers of the pool and of `close_all_positions()`, and a monitor.
Besides: time passes (`Tick` of the bucket), a join
with a time limit ends, a blocking method that a coroutine waits for returns (they have time limits, see
`EveryQueryEnds` and `EveryWaitEnds`), and a WebSocket on which `close()` was called ends with
`on_close()`.  Nothing is assumed of the server, of the owner's decisions, of the
watchdog or the token worker, of crashes and midnights, nor of the breaker being asked again.  In `conn_back`
attempts do not fail unless their connection is lost (`Failing = FALSE`).

### Variants

Definitions marked "variant" (`RecordWinClosing`, `ConsumeStale`, `CheckUnguarded`, ...) are
no part of any specification.  Each is a plausible mistake in the definition
that follows it; put in its place it breaks a property, which shows that the
property depends on that line of the code.  `PROJECT.json` pairs them under `mutants`.

## 4. Disagreements between the code and what it says

Shown by the five runs that end in a violation:

1. `mixins/orders_mixin.py:39` - an order id is queued twice, so from the second
   order of a session on the answers go to earlier requests (`buy_reported`).
2. `bot/orchestrator.py:100` - `stop()` forgets a thread that is still alive, and
   `start()` revives it beside a new one (`bot_loops`).
3. `mixins/orders_mixin.py:137` - the Event of digital orders is never cleared and belongs
   to all of them, so from the second order on the wait ends before the answer
   (`queries_digital`).
4. `stable_api.py:130` - closing the old connection runs its reconnect callback, so that
   every reconnection causes the next (`conn_settles`).
5. `strategy/market_regime.py:110` - the cache gives candles newest first and the
   direction of the trend is read the other way round, so that a rising market is said to
   fall (`trend_sign`; `tests/unit/strategy/test_market_coverage_plus.py:72` feeds candles oldest first).

Seen while modelling, without a run of their own.  Orders and results:

- `stable_api.py:519`: the Event of an order that was settled between the look and the
  creation is overwritten; the call waits for its timeout with the result in the store.
- `buy()` returns the shared `api.result` (`orders_mixin.py:62`), which another command may have written.
- `order-changed`, `order-placed-temp` and some others set an Event without writing its
  slot, so that `cancel_order()` (`orders_mixin.py:333`) and `get_order()` may read an earlier answer.
- Entries of the event stores made by a late message, and copies in the id queue,
  are never removed.
- The kill switch finds one event per order: a second call for the same order waits
  for its timeout.
- `check_win()` finds nothing in the messages kept in `order_async` for binary options.
- `check_win_v3()` returns a text where the bot compares `profit > 0`: the thread raises
  and the trade is not recorded; draws and timeouts are recorded as "loss".
- `buy_multi()` sorts its keys as text ("10" before "2"), refused orders leave no
  placeholder, and answers that come after a call gave up are taken by the next call.
- Nothing in the library calls `confirm()` or `fail()` of the registry, and `fail()` after
  `confirm()` hides the order id.
- `place_pending_order()` waits for the Event of `result`, while the answer
  `stop-order-placed` sets another one.
- The server's words "loose" and "equal" count as a win in `next_amount()`; the least stake
  of 1.0 is applied after the caps.
- Exactly 30 s past a minute the earlier of two equally near minutes is taken, and
  `get_remaning()` disagrees with it; with a local clock 2 s ahead a 5-minute order may become "binary".
- The validator takes digital durations of 1 to 5 minutes; `docs/integration.md:53` says 1, 5 or 15.

Queries and positions:

- `get_digital_payout()` waits for an Event that nothing clears, like the digital orders;
  `get_digital_underlying_list_data()` and the reconciler read slots that nothing writes.
- `get_all_open_positions()` runs four `get_positions()` at once over one slot, so that one
  type's positions may be returned as another's.
- `change_order()`, `check_cfd_order_capability()` and `send_ssid()` clear their Event after
  the request left: a quick answer is lost.
- A late answer whose Event is set after the next call cleared it sends that call home
  with nothing.
- `close_position()`, `get_digital_position()` and `check_binary_order()` use Events that do not
  exist, `get_betinfo()` sets attributes on a dictionary: they raise AttributeError.
- A monitor that is in its callback while the next one starts adopts the new Event and goes
  on beside it, unlike `positions_mixin.py:53` says.

Connection and breaker:

- A successful reconnection closes a breaker that trading losses had opened; the bot
  asks `is_open()`, which lets all orders of the test phase pass (`bot/orchestrator.py:144`).
- `status_report()` calls `can_trade()` and so uses up the test order of HALF_OPEN.
- With a balance of 0 the drawdown is not looked at (`circuit_breaker.py:119`); the bot stores balances
  (`bot/orchestrator.py:183`) and nobody calls `record_loss()`; `cli/main.py` builds the breaker with a session loss of 0.0.
- A full bucket and a refill allow bursts of nearly twice the capacity within one
  period.
- `close()` is followed by an automatic reconnection, for the callback stays.
- The breaker ends a reconnection after 3 failures, long before the 10 attempts
  of `core/reconnect.py`.
- `connect()` may succeed on an object whose callback was never registered, and every
  `connect()` starts another token worker (`stable_api.py:194`).
- If the command that rotates the address raises, WARP stays disconnected and the time is not stored.

Streams and caches:

- The object given to `SubscriptionManager` has no `subscribe`: every dispatched request raises.
  The limit of 15 (`docs/architecture.md:52`) is read by no method; `re_subscribe_stream()` goes through
  lists that nobody fills.
- `real_time_candles_maxdict_table` is never written by the library, and `candle_cache` never put on the api
  object; each tick of a candle is appended to the buffer again; `set_maxlen()` keeps the oldest;
  `full_realtime_get_candle()` ignores the bound.
- The sweep of the cache replaces the deque, and ends for good when a handler extends it meanwhile.

Journal, strategies, facade:

- A trade closed after midnight has a record in each of two files; a crash while a file is
  rewritten loses the day; a reader without the lock sees an empty file.
- `reconcile()` calls `get_pending_since()`, which does not exist.
- `performance.max_drawdown` ignores a loss of the first trade; `get_asset_score()` ignores its asset id.
- Strategies that raise shrink the quorum of the consensus, down to 1; one timeframe CALL and two NEUTRAL
  give CALL, unlike `mtf_pipeline.py:41` says.
- A quality monitor that raises gives an asset the best quality, and an asset absent from the open times
  counts as open; `score_asset()` reads its closes from column 3, the backtest from column 4.
- `market_regime.get_adx()` smooths a sum that is never divided by the period, so that the ADX is about
  14 times too large; the Friday branch of the session scheduler cannot be reached.
- A cancelled `close()` of the facade shuts the pool with the connection open;
  `get_async_order()` does not go through the pool, unlike `async_api.py:76` says.

## 5. What is proved

TLAPS checks the following for all values of the constants that satisfy the named
assumptions of the modules.

**BuyCorrelationProofs** (`CallsAssumption`).  `TypeCorrect`, and `OrdersHaveOneOwner`:
`Spec => []OneOwner`.  `OneOwner` is not inductive: it does not say why the handler
that gives an order to the head of the queue will not give it twice.  The inductive
invariant adds `Undelivered` (an `option-opened` still in flight belongs to an accepted
order that nobody holds), `Fresh` and `Drawn` (a call draws its request id, and sends,
only while it holds nothing).

**BotOrchestratorProofs** (`LoopsAssumption`, `CompositionAssumption`, and `Prompt` for all but the first).
`TypeCorrect`, `LoopsAreOne`, `StopLeavesNothing`, `StartLasts`.  The
three properties of the bot are inductive only together, with `Owned` (only the thread in
`_thread` lives) and `Obeys` (the flag is up only on the owner's wish, down inside
`stop()`, and the thread of a wanted bot is not on its way out): the last is what keeps
its final statement from clearing a new flag.  `OneOrderSlips` is about the composition:
`GuardedSpec => []OneSlips`.  Each step of the guarded bot is a step of the bot or leaves its variables alone (`GuardedIsBot`), so
that at most one loop decides; the invariant `Slips` adds that once an order slipped through an open breaker no loop
is about to place another.

**QueriesProofs** (`MessagesAssumption`).  `TypeCorrect`, `AnswersAreNew` (`Spec => []AnswerIsNew`) and
`NoAnswerIsLost` (`Spec => []NothingLost`), for any number of calls of any methods that overlap on a
channel.  For the first the invariant follows a renewing call from place to place (`Trusts`):
once its slot was reset, or once a flag was set after it cleared the Event, the slot holds nothing
from before the call.  For the second (`Kept`): a call that nobody disturbed, and whose
answer is through, finds the Event set.

**ConnectionProofs** (`ConnectionAssumption`).  `TypeCorrect` and `StormsAreBounded`: for any number of
reconnect threads, attempts since the last success or rest are no more than the failures the breaker allows and the
other threads.  The invariant is a payment (`Paid`): each try since then has failed and is counted by the
breaker, or is under way; `HasObject` says that a thread inside an attempt has an object to work on.

**DeskProofs** (the assumptions of its eleven modules).  Each theorem has an inductive invariant of its own:

| Theorem | Property | What the invariant adds |
| --- | --- | --- |
| `StakesStayBounded` | `StakesAreBounded` | `StakeIInv`: the types only; that the step follows the streak is a statement about rounds of `MaxSteps + 1` |
| `RotationsStayBounded` | `RotationsBounded` | `RotationIInv`: while the cooldown runs, rotations counted and rotations begun are no more than the threads; who logs in has attempts left |
| `PoolOutlivesConnection` | `ShutAfterClose` | `AsyncIInv`: if the call of `close()` is done, the connection is closed |
| `ConfirmedStaysFound` | `ConfirmedIsFound` | `RegistryIInv`: an entry that is known, within its lifetime, is there |
| `AtMostOneLateSend` | `OneLateSend` | `SubIInv`: late sends and what is in hand are one at most |
| `LastRequestAlwaysWins` | `LastRequestWins` | `LastIInv`: the last request queued for a stream, else the one in hand, else the record, says what was last asked |
| `RecordedStaysOnce` | `RecordedOnce` | `RecordIInv`: what was written on a day is in its content - the file, or what the writer holds while the file is empty - and once; a thread before its writing has no record there |
| `BreakerTypeCorrect`, `ClosedMeansFewLosses`, `OneTrialPerTest`, `RecoveryTakesTheWait` | `OneTrial`, `RecoveryIsWaited` | `BreakerIInv`: `ClosedBelowLimit` and `OneTrial` with the types; a breaker in HALF_OPEN has no other history than what reading the state left; the last is a property of single steps |
| `BucketTypeCorrect`, `OrdersDoNotFlood`, `BucketKeepsPromise` | `NoFlood`, `KeepsPromise` | `BucketIInv`: a balance (`Balanced`), `surplus` plus what the bucket would hold now never exceeds the capacity; the refinement maps each step to a `Grant`, a `Grows` or a stutter.  The proofs cover `Block = FALSE`, which no run does |
| `SettlementTypeCorrect`, `NoFalseAlarm` | `OwnWakeup` | `SettlementIInv`: an event object is in the store for one order only (`OneOrder`), who holds it waits for that order (`EventHeld`), on a live connection it is set only if that order was settled on it (`StoreTrue`, `EventTrue`), and only a set event ends a wait (`Woken`) |
| `KillSwitchReaches` | `KillSwitchFrees` | `LoneHolds`: a call that waits as the only one of its order holds the Event the store has for it |
| `ExpiryIsAsAsked` | `ExpiryIsAsked` | the types only; the rest is a statement about every second: all candidates are whole minutes, the first more than half a minute ahead, and the nearest of them is near enough |
| `MonitorTypeCorrect` | | that a stopped monitor ends is liveness |

`ExpiryIsAsAsked` bounds what the run could not: the option is of the kind asked for as long as the local clock is
less than two minutes behind the last `timeSync` and no more than a second ahead of it (`KindIsRight`); at two minutes behind a
turbo option may be booked as a binary one.  It assumes `NumQuarters >= 3` (the code lists 50).

**ListsProofs** (the assumptions of its five modules: `Listed` is a list without repetitions, `Assets` is a list,
no batch has more than ten orders, as `buy_multi()` sorts their numbers as text).

| Theorem | Property | What the invariant adds |
| --- | --- | --- |
| `CandlesStayRecent` | `CandlesAreRecent` | `CandleIInv`: what a sweep has scanned was the buffer then, what it is about to store is in order and newer than the cutoff; the live candles are the last `maxdict` |
| `ReportStaysBacked` | `ReportIsBacked` | `CloseAllIInv`: the shared flag is the last answer's; a worker that saw it true has seen a success, one that saw it false a failure |
| `TableStaysBacked` | `TableIsBacked` | `OpenTimeIInv`: the table is a function of how many entries are written and of what the other two threads have done; entries stand in the order in which the first version corrects the second |
| `IdsStayRight` | `IdsAreRight` | `MultiIInv`: nobody holds another order's id (`OwnIds`), before a call gave up nothing of an earlier one is missing (`InCall`), and answered in turn the first orders have their ids and the others are queued (`InOrder`) |
| `RankingIsBest` | `BestAreRanked` | `ScannerIInv`: the results are the assets that passed, with their ranks, and the ranking is their sorted beginning |

**FiguresProofs** (the assumptions of its five modules).

| Theorem | Property | The argument |
| --- | --- | --- |
| `SupportedVerdictStands` | `VerdictStands` | the verdict is that of the opinions it was made of (`VotesIInv`); one more winner, no less confident than the others, keeps shares and votes above the limits |
| `DirectionIsFair` | `BiasIsFair` | each timeframe upside down gives the opposite marks, so that the two sides change places |
| `SignalsStaySteady` | `SignalsAreSteady` | each detector finds upside down what its counterpart finds, and the trend turns round because the sums of gains and losses change places; a window that moves on keeps all but its oldest candle |
| `RunStaysAccounted` | `RunIsAccounted` | `BacktestIInv`: every trade booked what its result brings onto the balance before it (`TradesAreBooked`, `BalanceIsBooked`); the deepest drawdown is the deepest fall, a streak the longest run, and the journal sees each fall but those from before the first trade |
| `FiguresStayRight` | `FiguresOfTheDay` | `ReportIInv`: no time is taken twice, so that a list in time is determined by which trades are in it (`OrderIsUnique`); a streak counts what lies since the last trade with the other result |

Several of these figures are recursive functions or folds over sequences of any length.  Where a proof by induction
is needed it is by least counterexample instead: `LeastNumber` (a set of numbers that is not empty
has a least one) is proved once from the well-foundedness of the numbers, and then a function that follows a recursion is shown to exist (`SumsExist`,
`RecursionExists`) and to have the property at every index.  `SumOnSet`, `SumAgrees`, `SumOfParts`, `SumOfEqual` say what
`SumFunctionOnSet` of the community modules adds up to, whichever element it begins with; `RankedInOrder`, `ThoseInOrder` and
`SortedInOrder` what the operators of `Lists` return.

**MCDeskProofs** (the assumptions of the 21 modules).  `DeskRunsEach`: a behaviour of `MCDesk` is a behaviour of
each component's own specification, so that nothing is checked on a machine that differs from the modules', and
the theorems above hold of it.  `DeskTypesStay` is `DeskTypeOK` from the type theorems of all of them, for every set of `Parts`.

Every invariant and every step property that a passing run checks is thus stated by a theorem.  `ClosedBelowLimit`
and `TypeOK` of the proved modules outside the desk are proved and run by no configuration.

Only model-checked: what must eventually happen and needs fairness (`EveryCallReturns`,
`StopsInTheEnd`, `EveryOrderGoes`, `EveryWaitEnds`, `EveryQueryEnds`, `EveryThreadEnds`, `LostIsReconnected`), which
is out of this prover's reach (it has no rules for liveness and ENABLED).  No module declares a RECURSIVE
operator.

## 6. Not modelled, and why

- The reconciler raises an exception before it asks for anything (section 4).
- Message builders, constants, logging and utilities format and look up; no decision depends on the form.
- HTTP login and two-factor login talk to another service and keep a session object only; the stealth sequence is a
  fixed list of requests with random pauses, the heartbeat a periodic message whose absence the watchdog of `Connection` sees.
- Indicators (`strategy/indicators.py`, the size of the ADX), confidences and the Sharpe ratio are floating
  point; the modules keep what is compared of them.
- Exports to CSV and Parquet, health reports and command line arguments are output and input.
- Validator and session scheduler are tables that single values are compared with; where they disagree with the
  documents, section 4 says so.
- Overlapping calls of `buy_multi()`, and the use of one registry, journal or cache by several api objects, are not
  composed: each of these components has its lock, or its races, in the module of its own.

A next step would be the parts that `PROJECT.json` calls partly modelled: margin positions, the tables of the
validator, and the balances of the account.
