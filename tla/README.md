# Swyft: specification and proofs

Swyft is a concentrated-liquidity exchange on Stellar: a set of Soroban contracts
(`packages/contract`), a NestJS back end that indexes what the contracts do and serves it
(`apps/api`), a TypeScript SDK that builds transactions and quotes (`packages/sdk`) and a
Next.js front end (`apps/web`). This directory holds TLA+ specifications of them, the
TLC configurations that check them on small instances, and TLAPS proofs that hold for every
value of the constants. Paths below are relative to the repository (`src/` here).

How to run, from this directory: `tlc -workers 2 -config Delivery_all.cfg MCDelivery` for a run
(the table in section 4 names module and configuration), `tlapm Contracts_proofs.tla` for the
proofs of a module. `PROJECT.json` maps every definition to the lines it is translated from,
lists the hazards of the code with the properties that cover them, and names for every property
a variant of the code that violates it. Definitions marked "Variant" in the modules are these
faulty forms; no specification uses them.

Contents: 1 the system, 2 the plan and what is left of it, 3 the modules, 4 the runs, their bounds
and fairness, 5 the proofs, 6 observations, 7 what is not modelled.

## 1. The system

```
 contracts (Soroban)                       apps/api (NestJS)                       apps/web
 router -> cl-pool -> position-nft   Horizon   poller -> 5 BullMQ queues -> indexer    hooks,
    |         \-> oracle-adapter ---------->  |                            |        contexts,
 factory      fee collector                   |-> price fan-out (ws)       |-> Postgres <- API <- SDK
                                              |                            |-> checkpoint (Redis, Postgres)
                                              '---- checkpoint <-----------|-> webhooks, stats, candles
```

A contract call is one transaction. Everything in the back end is an awaited step of a single
threaded process, so that jobs, requests and timers interleave at every `await`; BullMQ and
Redis survive the process. Several API processes may run (`docs/OPS_DEPLOYMENT.md:374`
recommends replicas). In the browser the same holds of hooks: an effect runs to its next `await`,
and whatever it waits for may be answered after the component has rendered with other inputs, has
been unmounted, or has asked again.

### 1.1 Inventory

| Part | State it keeps | Operations | What is hard | What makes it correct | Here |
|---|---|---|---|---|---|
| Indexer checkpoint, `indexer-cursor.service.ts` | ledger number in Redis and in a Postgres row | `getLastLedger`, `advanceLedger` | concurrent jobs read, then write the row; Redis loses its data; a crash between the two stores | no store is ahead of what is persisted; a mark does not move back | `LedgerCursor` |
| Indexer worker, `indexer.worker.ts`, `indexer-dead-letter.service.ts`, `indexer-replay.service.ts` | event tables, pool, swap and position rows, dead-letter rows, BullMQ's jobs | five handlers, `replayFromLedger`, `replayDeadLetters`, drain | every handler is 4 to 7 awaited steps; retries, stalls, shutdown, swallowed errors, an un-awaited dead-letter write | at-least-once, replay that loses nothing, effects only of stored events | `IndexerWorker` |
| Horizon poller, `horizon.service.ts` | paging token of each tracked account, the round in progress, back-off | `poll`, discovery of pools, `batchEnqueueLedgerWindow`, start, stop | any request, price message or queue call may fail in mid page; cursors live in memory only; a pool is discovered while its own effects are in the same ledger | no effect is passed by without being queued; every one is queued in the end | `HorizonPoller` |
| Webhooks, `webhooks.service.ts`, `webhook.processor.ts`, `webhook-backoff.ts` | webhook rows with a failure counter, delivery rows, delivery jobs | create, remove, dispatch, ping, retry, deliver | counter read before the POST and written after it; removal and disabling in between; crash after the POST | failures in a row disable for good; a job that is done was delivered; attempts bounded | `Webhooks` |
| Pool contract, `contracts/cl-pool` | price, tick, active liquidity, ticks, bitmap, positions, balances, fee growth | `initialize`, `set_oracle`, `add_liquidity`, `remove_liquidity`, `collect`, `swap` | sequences of calls over shared ticks; rounding; the segment loop and its limits | book, bitmap and positions agree; a swap respects limit, direction and offer; fees are paid once | `ClPool`, `TickBitmap`, `ClPoolMath` |
| Position NFT, `contracts/position-nft` | token metadata and owners | `mint`, `burn`, `transfer` | called inside pool calls; tokens move without the pool | a stored position owns a live token of its own | `ClPool` |
| Oracle adapter, `contracts/oracle-adapter` | circular buffer of observations | `write_observation`, `get_twap` | wrap-around, several swaps in one second, binary search | the window starts at the right observation; the average is time-weighted | `OracleAdapter` |
| Legacy pool, `contracts/pool` | price, ticks, bitmap, units by id, balance | `mint`, `burn`, `swap`, `cross_tick`, `set_price`, `flip_tick`, `set_oracle` | ranges are named by the caller at every call and not stored | the ticks hold what the positions hold | `LegacyPool` |
| Pool factory and router, `contracts/pool-factory`, `contracts/router` | registry by normalised pair and tier, owner's settings | `create_pool`, settings, `exact_input_single` | pools are initialized by another call, in any order of tokens | a pair has one pool; a routed swap moves what was asked | `PoolRouting` |
| Fee collector, `contracts/fee-collector` | switch, list of pools, recorded balances | deposit, collect, switch, list, `initialize` again | the switch changes between deposits; tokens arrive that are not recorded | what is recorded is there | `FeeCollector` |
| Candle aggregation, `candles/` | `price_candle` rows, repeatable jobs | backfill, cron jobs, candle reads | two jobs due in the same second, one of which reads what the other writes; a backfill that stops a period early; a start that fails | the hour agrees with its twelve 5-minute candles; no period is left out unexplained | `Candles` |
| Price fan-out, `price/` | subscriptions per client, subscribed channels | subscribe, unsubscribe, broadcast, reconnect | commands that nobody awaits; two paths to the same client; last leaver against new comer | a channel is subscribed while it has clients; the last price a client hears is the latest | `PriceFanout` |
| TVL alerts and stats, `stats/` | figures, thresholds, history, last trigger | cron, job, set, delete, `checkAndTriggerAlerts` | mark before dispatch, check before mark, replicas | alerts a day apart; a silence has a cause | `PoolStats` |
| Cache and singleflight, `cache.service.ts`, `pools.controller.ts` | cached pool, lock with a TTL | get, lock, wait, load, fill, release | a load longer than its lock; release of another's lock; Redis gone | one load at a time, no caller left waiting | `Singleflight` |
| Rate limiting, `rate-limit.middleware.ts` | counters with expiry | INCR, EXPIRE, TTL for each rule | three commands, side by side for each rule; any may fail | a window ends; who passes was counted | `RateLimiter` |
| Wallet authentication, `auth/` | nonce and attempt counter in Redis | issue, verify | get, check and delete are separate commands; a nonce issued anew during a verification | a nonce is used once; a lock-out ends, failures fade | `WalletAuth` |
| Token enrichment, `tokens/` | token row | `enrichToken`, `enrichAll` | two read-then-upsert passes | what was learned is not lost, unless overtaken | `TokenEnrichment` |
| Paged reads, `swaps/`, `positions/`, `pools/`, `search/` | a cached pool list | pages, counts, bulk, search | count and page are two queries, cut by offset, while rows are written | no row falls between pages unexplained; totals add up | `ReadFeeds` |
| Position rows and their views, `indexer.worker.ts`, `positions/` | position rows, cached spot price | mint and burn handlers, `GET /positions` | two queues in either order; several reads per answer | closed and open lists partition; range and fees are those of one time | `PositionViews` |
| Status, lag, `indexer.controller.ts`, `indexer-monitor.service.ts` | none | `GET /indexer/status`, lag check | counts taken one queue after the other while jobs move | idle means nothing stood for the whole answer; the lag lies between the readings | `Monitoring` |
| Admin analytics, `analytics.service.ts` | cached figures | request, recomputation | queries answered one by one while events are written | sums equal the events of a time in between | `Analytics` |
| Transaction building and submission, `packages/sdk`, `transactions/` | none | builders, submit | lost answers, late inclusion, a position that changed since it was read | nothing late; a retry doubles only when blind | `SdkTransactions` |
| Quotes and position math, `packages/sdk`, `swaps/` | the database row of a pool, which lags behind | `quote`, estimates both ways, `POST /swaps/quote`, holdings of a position | rounding; a row behind the chain; ticks that are never written | estimates invert, promises are covered, holdings tell the move | `LocalQuote` |
| Swap form, `SwapWidget.tsx`, `useSwapQuote.ts`, `useTokens.ts` | inputs, pool, quote, timers | edit, switch, debounce, re-quote on a push | answers out of order, aborts, a push path of its own | a quote belongs to its inputs; loading means pending | `SwapQuoting` |
| Swap execution, `SwapConfirmModal.tsx`, `useSwapExecution.ts`, `TransactionStatusContext.tsx`, `mev-submission.ts` | attempt status, pill, session storage | confirm, retry, close, reload, network switch | checks awaited while idle, remounts, two submission paths | one swap at a time; pill, storage and attempt agree | `SwapExecution` |
| Wallet and network, `useWallet.ts`, contexts | address, network, storage | restore, connect, disconnect, switch | restores and grants that come after the user moved on | an ended session stays ended | `WalletSession` |
| Liquidity forms, `AddLiquidity/`, `RemoveLiquidityPanel.tsx`, rerange page and their hooks | range, amounts, share, estimates, timers, status | edit, submit, collect, move | one status for several transactions; estimates without a request id | amounts follow the range; a spinner has a transaction | `AddLiquidity`, `PositionPanel` |
| Lists and charts: history, chart, portfolio, webhooks panel | page, filter, cache, socket, interval | page, filter, refetch, reconnect, collect, register, delete | rows change under a page number; sockets of a former choice; overlapping reads | no dead page; events of the watched pool; the portfolio catches up; the table is the owner's | `TransactionHistory`, `PriceChartFeed`, `Portfolio`, `WebhookConsole` |
| Math library, configuration, presentation of cached queries, shared packages, schema | constants, or rows written elsewhere | | nothing several steps share | | not modelled, section 7 |

The hazards, each at its line and with the properties that cover it, are in `PROJECT.json`. Five have none: there
the code does what one would fear (growth from before a position, the quote of a price push, the pill erased by a modal that
mounts, a wallet's late answer, the token row of a pass that was overtaken), and nothing in the repository says otherwise or the
property at hand excuses just that case; the note of each says so, and section 6.

## 2. The plan, and what is left of it

The order was: what loses or corrupts data first.

1. Checkpoint, worker (composing it: one caller per job), poller (resuming from what the checkpoint
   promises), webhooks, and the contract core composed by `ClPool`.
2. The services of the back end, each a module, with the stories that cross them: the candle reads over
   the candle rows, the position math over the quotes, `PositionViews` over the rows of the indexer.
3. The screens of the front end.
4. The other contracts: `LegacyPool` over `TickBitmap`, `ClPoolMath` and `OracleAdapter`; `PoolRouting`
   (factory, router); `FeeCollector`.
5. Proofs, in the order of the modules: the pipeline from the chain to the webhooks, the contracts, the services, the screens.

Small components share a run where none of them can disturb another: a variable (`link`, `service`,
`screen`, `contract`) names the one a behaviour exercises, so that the states add up rather than
multiply. The abstract specification that a detailed one is shown to implement is `LedgerCursor`, which the
jobs of `IndexerWorker` implement together (`CursorSpec`, by `INSTANCE ... WITH`).

Every invariant the passing runs check is a theorem. What is left: the fee growth of the older pool.

## 3. The modules

A component's module has its constants, variables, one action per operation or awaited step,
and the properties. `..._proofs` modules extend one or several of them with theorems (`LedgerCursor` has its few at its
end), and `Sums` holds the lemmas on sums, least counterexamples, prefixes and quotients they share. MC modules name the instances and compose components. Below, what the variables and
actions correspond to, where the names do not say it.

### 3.1 Checkpoint, indexer, poller, webhooks

**LedgerCursor.** `cache` is the Redis key `indexer:last_ledger`, `row` the Postgres row, `call[p]` where
caller `p` stands inside `advanceLedger` or `getLastLedger`, `persisted` the ledgers of which an
event is stored, `resume` the last answer given to the poller. `BeginAdvance`, `SetMax` (the Lua script
of `setMaxNumber`, atomic), `FindCursor` and `UpsertCursor` are the commands of `advanceLedger`;
`GetCached`, `GetStored`, `WarmCache` those of `getLastLedger`. Every command may fail as the code
handles it: a Redis failure counts as "not updated", a database failure ends the call.
`RedisLosesKey` and `Crash` may come at any time.

**IndexerWorker.** A job is `<<event, copy, depth>>`: the poller's job, a copy queued again by a
repeated window or by `replayFromLedger`, or a replay of a dead letter (`dlq-replay:` ids).
`jobs[j].stage` says which awaited step of its handler comes next: the canonical row (`Write`), the
projections (`ProjectPool`; `ReadFee`, `WriteSwap`, `FindPool`, `UpdatePool`; `WritePosition`), the dispatch
and the checkpoint (`BeginAdvance`, `Advance`, which are steps of `LedgerCursor`). `Throw` counts the
attempt and delays or fails the job. `RecordDeadLetter` is the write nobody awaits; `Requeue` and
`ClearDeadLetter` are the two halves of a replay, of an entry that was recovered before too, if it is named by its id. `Shutdown`, `Exit`, `Crash`, `Restart`, `Promote`
and `RecoverStalled` are the process and BullMQ. A projection that the code wraps in a try/catch goes on
after an error; the position row, which is not wrapped, throws.

**HorizonPoller.** `Poll` begins a round over `tracked`; `Fetch` reads a page of an account;
the set `page` are its records not yet handed over, of which those of the lowest ledger are the window at work (`byLedger`: Horizon sends
them in order); `LookAtRecord` handles one record (price, discovery); `Enqueue` makes the five `addBulk` calls of
a window and moves the cursor. `FetchFails`, `PriceFails` and `EnqueueFails` (any non-empty subset of the
calls) abandon the account for this round and cause the back-off, which lasts until `AttemptDue`.
`Start` takes any checkpoint `LedgerCursor` allows. `IndexerPersists` is the indexer.

**Webhooks.** `Create`, `RemoveHook`, `Dispatch` with `Queue` (one `add` per subscriber), `Ping` and `Retry`
are `WebhooksService`; `Lookup`, `Post`, `Log` and `Record` the awaited calls of `deliver`, where
`handler[p].fails` is the counter as it was read; `FailAttempt` is BullMQ's handling of a throw. `blurred` (history) are
the webhooks of which two deliveries overlapped, or one was cut off between its row and its count. Which
answer an endpoint gives, a time-out and a refused address included, is a free choice.

**MCDelivery** composes checkpoint, poller and webhooks (`link`), the last twice: two webhooks served by one process that may die
(`hooks`), and one served by two processes (`replicas`).

### 3.2 Contracts

Each entry point is one action, since a call either completes or changes nothing; a call that panics is
not enabled.

**ClPool** is the pool with the contracts it calls. `Swap` evaluates the loop by the recursive function in
`Traded`, one `Segment` a turn. `TickBitmap` has the flips and the search over words, with the flooring
of negative ticks that the code makes out of Rust's truncating division; `ClPoolMath` the amounts and
their rounding over a price grid that is linear in the tick; `OracleAdapter` the buffer and the binary
search. Tokens of `position-nft` are `tokens`; `held` is a history variable, the integral of the price,
against which the average is judged. `fee_growth_outside` and `tokens_owed`, which no code reads, are left
out. `write_observation` is called in `cl-pool/src/lib.rs:539` with a name, `new_sqrt_price`, that is declared
nowhere; the model takes the price after the swap, which `oracle-adapter/src/lib.rs:75` documents.

**LegacyPool** is the contract the SDK's builders still address by default. `poolPositions` has units by the
id the caller chose and no range; `MintUnits` and `BurnUnits` take whatever range they are called with.
`SwapUnits` moves the price within its range, `CrossTick`, `SetPrice` and `FlipTick` are entry points of
their own; `handFlipped` records the bits that callers of `flip_tick` toggled.

**PoolRouting** has the factory's registry, whose keys are normalised pairs with a tier, the pools with the
tokens their own `initialize` named, and the router's `ExactInputSingle`: guards, look-up, the direction
read from the pool, the reading of the signed deltas. What a swap moves is bounded by what `ClPool` shows.

**FeeCollector** has what is recorded next to what the token contracts hold (`feeFunds`), because plain
transfers add to the one and not to the other.

**MCClPool** is the instance of `ClPool` for the runs that ask one question of it. **MCContracts** composes all contracts (`contract`).
It looks at `ClPool` twice: `book` makes the calls that change the book of two positions of one owner, because transfers, the oracle and the clock leave it alone
and would only multiply it; `cl_pool` makes the others over one position.

### 3.3 Services of the API and the SDK

| Module | State and steps |
|---|---|
| `RateLimiter` | `counts` and `expiry` are the Redis keys, `gate[r]` where the middleware is with a request; INCR, EXPIRE and TTL of every rule that applies run side by side. `orphaned` (history): keys whose EXPIRE was lost. |
| `WalletAuth` | `nonce`, `attempts` with their TTLs, `verif[v]` where a verification stands. Each Redis command is an action; signatures are a free choice of the outcome. |
| `Singleflight` | `cached`, `lock`, `reader[p]`: look, acquire, load, fill, release, wait, look again, load alone. `lock.by` is history: the code's lock has no holder. |
| `PriceFanout` | the two maps of the gateway, `channels` of the subscriber connection, `pipe` the commands sent without being awaited, `inbox` the messages, and both paths of a price (`Broadcast` in the process, `Publish` through Redis). |
| `Candles` | rows per interval, `due` the wait set, `boot` the start-up with its backfill, `work` the worker at each await. The second half is `GET` of candles: alignment, default range, gap filling, cache. |
| `PoolStats` | the job of a replica: compute, row, cache, snapshot, then per due threshold log, mark, dispatch. |
| `TokenEnrichment` | passes that fetch the list, read the row, ask the chain and write the row. |
| `SdkTransactions` | a user's wish, the envelopes built for it with what the deployed contract takes, their submission, inclusion and answers. |
| `LocalQuote` | the walk of `quote.ts` over a pool's ticks; the row of the database that the endpoint reads and that follows swap jobs in any order; the second half is `position-math.ts`. |
| `ReadFeeds` | a client that reads page after page of the feed that `feed` names, count and page being two queries, while rows are written. |
| `PositionViews` | position rows as the mint and burn handlers write them in either order, and the successive reads of `GET /positions`. |
| `Monitoring` | the status request, queue after queue, and the lag check. |
| `Analytics` | computations whose queries are answered one by one, and the cached figures. |

**MCServices** composes them (`service`).

### 3.4 Screens

| Module | State and steps |
|---|---|
| `SwapQuoting` | form, pool look-up, debounce timer, requests in flight with the inputs they are for; `PricePush` is the second path to a quote. |
| `SwapExecution` | the confirm modal with its mount number, attempts with where they stand, the pill, session storage; `loose` (history) are mounts that may have left an attempt running. |
| `WalletSession` | address, network, their storage, restores and connects in flight. |
| `TransactionHistory` | tab, page, filter, options, and the cache of query results; `SnapBack` and `OptionsAfter` are the effects a render runs. |
| `AddLiquidity` | range, amounts, the one-sided rules, the tick request of the chart, the deposit. |
| `PositionPanel` | the remove and the re-range page: share, estimate, hook status, timers, transactions in flight. |
| `PriceChartFeed` | candle requests, sockets per run of the effect, reconnect timers. |
| `Portfolio` | token, reads in flight with the version they saw, interval, collections. |
| `WebhookConsole` | the panel, the rows, and requests that are heeded or not. |

**MCWeb** composes them (`screen`).

## 4. The runs

| Run | Module, configuration | Question and answer |
|---|---|---|
| `worker_crash` | `MCIndexerWorker`, `IndexerWorker_crash.cfg` | A creation and a mint in either order, with a crash, a failing command, a failing dead-letter write and replays anywhere: events are kept (`AtLeastOnce`), webhooks announce stored events (`DispatchBacked`), wait lists are sets of waiting jobs within their concurrency and "recovered" rows were queued again (`QueuesSound`), and the worker implements `LedgerCursor!Spec` (`CursorSpec`). |
| `worker_live` | `MCIndexerWorker`, `IndexerWorker_live.cfg` | Does every job end completed or failed (`EveryJobSettles`)? Yes. |
| `worker_drain` | `MCIndexerWorker`, `IndexerWorker_drain.cfg` | Is an event kept when a shutdown begins? **No**: a job fetched before it is skipped by the ready guard and completed. |
| `contracts` | `MCContracts`, `Contracts_all.cfg` | Two positions, two swaps: are ticks the sums of positions and does the search find the boundary (`BooksAgree`), does the bitmap mark them (`BitmapMarksTicks`), do positions own their tokens, also when these change hands (`PositionsOwnTokens`), does a swap charge at most its offer (`SwapChargesOffer`)? Does the search of the oracle find the start of each window (`TwapStartsWindow`)? Does the older pool keep its units at its ticks and its bits at its marks, does a pair have one pool and a routed swap move what was asked, does the collector hold what it recorded (`ContractsInv`)? Yes. |
| `clpool_active` | `MCClPool`, `ClPool_active.cfg` | Is active liquidity the liquidity in range (`ActiveIsInRange`)? **No** after a crossing. |
| `clpool_limit` | `MCClPool`, `ClPool_limit.cfg` | Does a swap with limit 0, which the SDK sends, follow its direction (`SwapFollowsDirection`)? **No** for token 1 to token 0. |
| `clpool_twap` | `MCClPool`, `ClPool_twap.cfg` | Is the average weighted with the time a price was in force (`TwapIsTimeWeighted`)? **No**: with the time before it. |
| `delivery` | `MCDelivery`, `Delivery_all.cfg` | Checkpoint: is one ever ahead of what is persisted (`IInv`), or does the Redis mark move back (`CacheNeverRegresses`)? Poller: is an effect ever skipped (`PollerInv`), is each handed over in the end (`EveryEffectQueued`)? Webhooks: do counter and log agree (`LogAgrees`), does done mean delivered (`DoneIsDelivered`), are POSTs bounded (`PostsBounded`), does each delivery settle (`EveryDeliverySettles`)? The checkpoint and the poller: no, no, no; the rest: yes. |
| `cursor_race` | `LedgerCursor`, `LedgerCursor_race.cfg` | Can the row of the checkpoint move back (against `RowNeverRegresses`)? **Yes**: `findUnique` and `upsert` are separated by an await. |
| `services` | `MCServices`, `Services_all.cfg` | Eleven questions on the services, below. All hold. |
| `nonce_reuse` | `WalletAuth`, `WalletAuth_reuse.cfg` | Does one nonce give at most one token (`NonceSingleUse`)? **No**: two verifications may read it before either deletes it. |
| `web` | `MCWeb`, `Web_all.cfg` | Eight questions on the screens, below. All hold. |

The six runs whose answer is in bold are expected to end in a violation; each finding in `PROJECT.json`
quotes the line of the repository that says otherwise. In `clpool_active`, `clpool_limit` and `clpool_twap`
the model is the same as in the passing run of the contracts, and in `nonce_reuse` as in `services`; only the question differs.

What the conjunctions stand for:

| Property | Says |
|---|---|
| `LogAgrees` | a webhook's log has a row for every POST but those lost; its counter is the failures at the end of the log, and it is off at the limit, unless `blurred` |
| `DoneIsDelivered` | at the moment a job is done, its endpoint has accepted it, or its webhook is gone or disabled, with any number of processes |
| `RateInv` | a counter has an expiry unless its EXPIRE was lost; a request that passed was counted by every rule |
| `AuthInv` | a lock-out ends, and failures before it fade, unless a verification was cut off |
| `OneLoad`, `EveryoneServed` | loads overlap only where a lock expired or was not there; every reader gets an answer |
| `FanoutInv` | the two maps agree; a watched channel is subscribed or the command is on its way; the last price heard is the latest |
| `CandlesServed` | a 5-minute candle is the fold of its swaps and an hour of its fives, gaps and stale ones have a cause on record, a backfill heals; a read hides no candle, shows complete periods by default, caches only final ones |
| `AlertInv` | with one worker alerts are more than a day apart, and a silence follows an alert that was sent |
| `RegressOnlyWhenOvertaken` | a write of the token row loses a field only if another pass wrote in between |
| `TxInv` | nothing is included after its time; a partial removal leaves some; re-ranging keeps the amount; a wish is applied twice only if an answer was lost |
| `QuotesAgree` | the two estimates invert each other; a quote promises what positions hold; the endpoint's answer is that of the row it read; the row settles; holdings tell the price move, nothing is gained by rounding, ticks survive the conversion |
| `ReadsAreHonest` | paging skips no row without cause, totals add up, a cached list is fresh; positions are closed iff emptied, open and closed lists partition, range and fees are of the time; idle means nothing stood, the lag lies between its readings; series and overview equal the events of a time in between |
| `QuotingInv` | a debounced quote is for the present inputs; loading means a request is pending; it is routed through the pool of its pair; the no-pool warning is true |
| `ExecutionInv` | a waiting modal waits for its own attempt; the pill is backed and mirrored in storage; one swap at a time; the private path is kept |
| `SessionInv` | an address of another network comes from a late answer; an ended session stays ended |
| `ListsInv` | the history is on a page that exists and keeps its filter; the webhook table is of the token, true and registered once per form, and the panel unlocks |
| `DepositInv` | range ordered, amounts follow it, warned iff one-sided, one deposit, its status matched, chart of the pool |
| `PanelInv` | estimate fits the share, timer fits the status, a spinner has a transaction, one move at a time |
| `EventsOfWatchedPool` | prices taken come from the pool that is watched |
| `PortfolioCatchesUp` | the portfolio shows the lists of its wallet as they are in the end |

### Bounds, and why they are enough

- `delivery`, checkpoint: two callers are the fewest that race, three ledgers the fewest in which a late writer can fall
  behind one that is not the first; no other bound. Poller: three accounts with 2, 3 and 1 effects over two ledgers; pages of 2
  (50 in the code) so that a ledger is split over two pages; two faults and one restart. Webhooks: two webhooks with
  overlapping subscriptions, two jobs of two attempts (3), disabled after two failures (10), so that the limit is
  reached within one job and across two; one lost call or crash; one retry by the owner. The second process is there over one webhook, without
  deaths, removal and retry by the owner, which the first part has: two overlapping deliveries of one webhook are what it adds.
- `worker_*`: two events of one pool, because a handler shares rows only with handlers of its pool. `MaxAttempts` is 2 (3 in
  the code, and in `worker_drain`): one retry and one exhaustion. `MaxStalls` 1 (2 in the code) makes both outcomes of
  a stall appear. One crash may fall between any two steps. `worker_crash` leaves out copies and `worker_live` failing
  dead-letter writes, which the other covers.
- `clpool_*`: ticks -4 to 2 at spacing 2 give four usable ticks on both sides of zero, in words of two bits, so that ranges share
  an end, nest and overlap and the search crosses words; prices 16 + 4 * tick keep rounding visible (`Q96` = 16) and put the
  lowest tick at price 0, as in the code's grid. Two positions, two swaps, two amounts, limits on both sides of the price; the same in `contracts`.
- `contracts`: five swaps are more than the oracle's buffer of three holds, two of them in one second. Older pool: two ids, four calls,
  amounts of 2 and 4, the same ticks. Router: three tokens, a supported and an unsupported tier, two pools, so that one pair is
  asked for in both orders while another has none; two owners and two wasm hashes. Collector: two tokens, one pool, amounts 1 and 2.
- `services`: two or three of what can meet (requests, verifiers, readers, clients, passes, transactions) and times of one or two units, so that
  everything can expire while something is under way. Limits of 1 and 2, two nonces, two attempts, an hour of two
  fives and three periods with a restart; prices over `Q` = 8 with three ranges; pages of one row with three rows and four writes, `FetchCap` 2
  (200 in the code) to meet the cap; two jobs in two queues; two events in two hours.
- `nonce_reuse`: two verifications of one nonce.
- `web`: a few clicks more than the shortest story that goes wrong in a faulty variant: five edits, three attempts over two mounts (named in one
  fixed order, as their names mean nothing), two
  reloads, three rows on pages of one, six inputs to a deposit, five clicks on a panel, three picks with two drops, two
  wallets that change twice, an interval that fires while at most one read is under way (`MaxReads`; others may start then), one change on the server.

Where a limit of the code is made small, the code compares with it in one place, and the run reaches it.

### Fairness

`worker_live`: weak fairness of the next step of a started handler, the fetch of a waiting job, the promotion of a delayed one, BullMQ's
stalled check, the end of a drain (`SHUTDOWN_TIMEOUT_MS`) and the supervisor's restart. `delivery`: weak fairness of the poll timer, of the answers
to awaited calls (or their failure, of which there are finitely many), of delivery steps, which cannot hang because a POST
has a time-out, of back-offs and restart. `services`: weak fairness of the readers' own steps and the clock (`Progress`), used by
`EveryoneServed` only. `web`: weak fairness of the interval, strong fairness of reads and of the steps of a collection, because a
network that fails for ever makes no page catch up; used by `PortfolioCatchesUp` only. No fairness is assumed of users,
requests, replays, faults or crashes; crashes and faults are finite.

## 5. What is proved

All proofs are for unbounded values of the constants, under the named assumptions of the modules, which the runs evaluate. Most say that a limit
is a positive number or that a set of names is finite. The ones that say something of the world: `ChainAssumption`, that paging tokens lie above
ledger numbers, as Horizon builds them (`ledger << 32`), and that a pool has no effect before the one that creates it; `AuthAssumption`,
`MaxAttempts` at least 2 (5 in the code, `MAX_NONCE_ATTEMPTS`); `LegacyAssumption`, that the price table of the older pool grows with the tick;
`TickMapAssumption` and `QuoteAssumption`, the same of `sqrtRatioAtTick`, and that a pool's price lies between the ends of that table.

Each theorem `Spec => []P` rests on an inductive invariant that adds to `P` what the steps need; below, what was added and why. Where sums
and loops come in, an induction over data is wanted, which the provers cannot instantiate as a theorem with an operator parameter. `Sums`
does it by hand, on the least counterexample: the naturals are well-founded (`WFMin`), so that of all finite sets, or of all numbers of
turns, for which a statement fails one is the least, and that one is refuted (`LeastNatural`, `SmallestSet`, `MapThenSumSet`). Loops of the code are
recursive functions or folds, never `RECURSIVE` operators, in every module with a theorem.

**`LedgerCursor`** (its theorems are at its end), for any callers and ledgers:
- `TypeCorrect`, `CheckpointSafe`: from the inductive invariant `IInv` (`Inductive`), which adds to the properties that a ledger on its way from the
  row back to Redis is a real one (`WarmingReal`): without it `WarmCache` could write the value that stands for "none".
- `CacheMonotone`: an action property, from `IInv` and the fact that the script never lowers a mark.

**`IndexerWorker_proofs`**, for any events, jobs, pools and bounds:
- `QueuesFit`: types (`TypesIInv`), and that a wait list is the set of waiting jobs, each once (`QueueIInv`; lemmas on what a tail, a
  concatenation and an ordering of a set keep). Copies, replays and shutdown included.
- `AnnouncedIsStored`: a webhook announces stored events only. Added: a handler past its first step has stored its event (`StoreIInv`).
- `WorkerImplementsCursor`: the refinement. Only a handler at its last stage is inside `advanceLedger` (`CallIInv`), so that every
  step of the worker is a step of the checkpoint or none. `CheckpointIsStored` carries `CheckpointSafe` over through the `INSTANCE`:
  no checkpoint is ahead of the events the worker has stored.
- `NothingIsLost` and `DeadLettersSound`, assuming `~MayShutdown`: an event that was queued was handled or rejected as empty, or a job still has it; a
  dead letter marked recovered was queued again (`LossIInv`). The assumption is what `worker_drain` shows to be needed.

**`Delivery_proofs`**:
- `PollerSound`, for any chain, page size, and number of faults and restarts: no effect is skipped. Added: the page in hand has every effect between
  the account's cursor and each of its records (`PageComplete`), all of them ahead of the cursor; of the records already looked at, the pools are tracked
  (`PageInHand`); a round is over tracked accounts. A pool found in a page starts from where the page began, which is before the effect
  that creates it and so before all of its own; a restart begins below every token.
- `TypeCorrect`, for any webhooks, processes, jobs and limits: with it that no two handlers hold a job, that a handler's job is active, and that a
  counter that has reached its limit belongs to a webhook that is disabled.
- `AttemptsBounded`: POSTs of a job are bounded by attempts, owner's retries and handlers that died, for any number of processes. Per
  job, the invariant relates POSTs made to attempts counted according to where the job and its handler stand.
- `DeliveredSound`, for any number of processes: an action property. Only two steps complete a job: a look-up that finds its webhook gone or
  disabled in that very step, and the record of a success. Added: a handler that is to record one has had its POST accepted (`AnsweredInv`). It says nothing of
  later: a late failure of another process may switch the webhook on again.
- `LogComplete`, for any number of processes: the rows of a webhook's log are the POSTs of its jobs, summed, less those in the hands of a
  handler about to write one and at most one for each call or process lost.
- `LogAgreesSound`, for any number of processes: the counter is the number of failures at the end of the log, for a webhook that is not `blurred`. Added:
  at most one handler is between look-up and record of such a webhook (`OneUnderWay`), it has read the counter as it is, and between its row and its count the
  log is one row ahead (`CountsInv`).

**`Contracts_proofs`**, for any users, amounts, prices, spacing and word size. The pool first:
- `TokensBackPositions`: every stored position owns a live token with its range, which no other position shares. The strengthening says that
  tokens and positions only have ids that were issued, so that a fresh id is never one in use; a partial removal
  mints a second token, which no position owns.
- `BitmapMarks`: a bit is set exactly while its tick has an entry, and no entry is empty. It rests on lemmas on flipping one
  bit (a tick is determined by its word and bit, for negative ticks too) and on one update of a tick; a range is two of them. The
  strengthening adds that the ends of stored positions are valid ticks.
- `BooksSound`: types, the entry of a tick as the sum over the positions that begin or end there, and that the search of a
  swap finds the nearest initialized tick, within a word and across words. That the types hold takes the loop of a swap: it leaves a price, a tick and a
  liquidity of their types after any number of segments; the strengthening adds that the lower ends of stored positions have a price.
- `ChargeSound`: a swap charges at most the offer, and pays out nothing when it charges nothing, unless the price is zero. A loop
  invariant over the set of states that segments can reach (`FairStates`): while all of the offer is left nothing was paid out, but at price
  zero, and from price zero the loop goes nowhere else.
- `TwapSound`: the binary search finds the observation at which a window starts. Added: the buffer is sorted by age and written up to its count
  (`BufferInv`); every probe of the search narrows the interval that holds the answer.

Then over `MCContracts`, so that these theorems speak of the contracts together:
- `RoutingSound`, for any tokens, tiers and offers. Added: keys are in order, which makes the two ways to name a pair one key.
- `FeesSound`. Added: the recorded balances are natural numbers that the funds cover, which a withdrawal needs.
- `ContractsSound`: these two, the positions' tokens, also when they change hands, and the older pool: over all usable ticks the gross
  units are twice those of all ids and the net ones sum to zero, and a bit is set where a tick has units, except where it was flipped by hand.
- `OraclesSound`: `TwapSound` for the pool's oracle, while the other contracts leave its clock alone or move it.

**`Services_proofs`**, for any requests, clients, amounts and limits:
- `FlightSound` (`OneLoad`): a request that loads holds the lock or is on record as one that nothing protects; a lock that is gone has no holder.
- `TokenSound` (`RegressOnlyWhenOvertaken`): a pass that has read the row and was not overtaken still knows what it holds.
- `AuthSound` (`AuthInv`): a verification that is about to arm the counter has a time for it.
- `RateSound` (`RateInv`): a request has one command per rule of its route; past its INCR it knows a total of at least one; one that passed has
  no command under way and every total within its limit.
- `TxSound` (`TxInv`): an envelope carries what its wish asked, and what it did fits what it found; a rejected one was dropped; every attempt but the last ended
  rejected or without an answer. With it the arithmetic that a share below the whole leaves some.
- `AlertSound` (`AlertInv`): a marked threshold was dispatched, is being dispatched by the job that marked it, or is on record as lost (any number of
  replicas); with one replica whatever it is about to mark is more than a day after the last.
- `FanoutSound` (`FanoutInv`): a watched channel is subscribed, or a command on its way subscribes it and none behind that one drops it; the last price published or under way
  is the latest.
- `CandlesSound` (`CandlesServed`), by lemmas on folding: samples accumulate associatively, so that the candle of an hour is that of those of its
  periods that have one, and a swap of a period to come changes no candle. Added: what the start-up and the worker hold in their hands is right for a
  period that is over, which is why a late write does no harm; jobs are due from the end of their period on, and one that is late is on record;
  until its end the sweep of the backfill has left no gap behind it. That answers show what they should is arithmetic with quotients.
- `FeedsSound`: until a row that was there when a walk began is shown, exactly as many rows are ahead of it as the pages before had, so
  that a row that is added can push it back only to a page that is still to come. Added besides: what the merge of the activity has
  fetched holds every row that is owed and not beyond the cap, which is a count of the newer rows of its type; a list that is cached or being loaded
  and not outdated is a page of some order of the rows.
- `ViewsSound`: a row has what one of its handled events left, and is closed as soon as one of them left nothing; a request took
  each price it shows from a moment of its own time, and sums of swaps and collected fees only grow.
- `MonitorSound`: a job that stands in the lists throughout is of a queue still to be read, or was counted: it passes the reader
  from `wait` to `active` only, and `wait` is read first. Ledger and checkpoint only grow, and what was read of either lies between its ends.
- `AnalyticsSound`: every answer under way holds all rows of its query that are older than the computation, and while no row was written between two of
  them it holds just the rows there are; buckets that follow each other without a gap sum up to the interval they cover.
- `ReadsSound` (`ReadsAreHonest`), over `MCServices`: these four next to the other services, which change nothing of theirs.

**`Quotes_proofs`**, for any map of ticks, ranges, prices, amounts and fee (`QuotesHold`, and `QuotesSound` beside the other services):
- Of the steps little is needed: a quote in hand is one of the book, or of the row, as they are (`QuoteFits`), because every move
  takes it away; the row is the chain's, or the job that makes it so is still to run, or two jobs ran in the other order (`RowFollows`).
- `PromisesWhatIsHeld` and `HoldingsTellTheMove` rest on `WalkPromises`. The targets of a walk are the initialised ticks ahead, nearest first
  (`LadderExists`, on the sorted sequence); between two of them the liquidity carried along is that of the positions that cover them, since a
  tick's net liquidity is the difference of what ends and begins there (`NetIsJump`, `Stands`); so a turn pays no more than those positions
  hold between its two prices (`PaidIsHeld`). Quotients rounded at every turn do not add up, so the sums are made on a scale where nothing is rounded (`Scale`):
  the prices themselves for token 1; for token 0 multiples of their reciprocals by one number that all prices of the walk divide, which exists because they
  are finitely many (`ScaleExists`). Rounding is undone once, per position, at the end.
- `EndpointAgrees`: a walk without ticks is one turn; if no tick lies where it stops or before, the first turn among the ticks stops short of its target at the
  same price (`TurnMoves`: what reaches a price is what would carry the price beyond it), and nothing is left for a second one.
- The estimates, the holdings and the two maps of ticks of `position-math.ts` are arithmetic on quotients (`InverseOf`, `HoldingsBuyBack`, `ThereAndBack`).

**`Screens_proofs`**, for any number of clicks, mounts, pools, shares and ticks:
- `PanelSound`. Its invariant adds that an estimate nobody cancelled is about the share that is picked, and that a move under way keeps the status busy:
  only the page's own steps cancel, and they cancel every older one.
- `DepositSound`. Added: an uncancelled request for ticks is for the selected pool; at most one deposit is under way, and then the
  status says so.
- `ExecutionSound`. Added: a working attempt belongs to the modal on screen or to a mount that is loose; two attempts of one
  mount make it loose; the only attempt of a mount that is not loose is where the modal's status says. The history variable `loose` is set by a
  remount or a second confirmation that finds the status idle, never by what the invariant says.
- `QuotingSound`. Added: the latest request that was not aborted is for the present inputs, and a look-up under way or a pool found is of the pair.
- `SessionSound`. Added: a session that has ended has no restore or connect under way.
- `ChartSound`. Added: an open socket that is heeded is subscribed to the pool that is watched.
- `ListsSound`, over `MCWeb`. For the history: a cached page that its own total reaches has rows, and the effect that snaps back lands, wherever it
  starts, on a page that the total of what is shown there reaches (that its recursion ends is a lemma: it only asks smaller pages). For
  the webhooks: a list that the effect asked for and that is heeded is about the token; while nothing went wrong, rows that are not those of the API have a
  write that may have changed them under way, or a list that will tell; until something unlocks the form, what is being registered is what was filled
  in last, and no stored webhook has that fill unless its own registration has not landed.

Only model-checked: liveness, its fairness and everything with `ENABLED` (`EveryJobSettles`, `EveryEffectQueued`, `EveryDeliverySettles`,
`EveryoneServed`, `PortfolioCatchesUp`), which the prover does not reach. One part of `AlertInv` (once a day) is claimed of one
process and no more, and the counter in `LogAgrees` of webhooks that are not `blurred`, by the theorems and by the runs alike.

## 6. Observations without a run

Met while modelling. The models contain what they are about, or say below what they leave out; the repository
promises nothing they violate, or they concern code outside of a modelled part.

Indexer and poller:
- A swap handled before its pool exists loses its `swap` row: the foreign key fails and the error is swallowed
  (`indexer.worker.ts:911`). The event table keeps it. A swap whose pool is created between the fee lookup
  and the insert keeps a fee of 0 (`:818`).
- `closedAt` is never cleared and a late mint overwrites the liquidity; a burn event's liquidity is taken for what is left
  (`indexer.worker.ts:512`). `pool.liquidity` in the database follows swaps only.
- A crash after the last attempt loses the dead-letter row (`:204`); BullMQ keeps the job.
- On a fresh deployment the poller asks with the cursor `now` and moves it only when records arrive; with
  `FirstCheckpoint = 0`, `EveryEffectQueued` fails in the model (`horizon.service.ts:97`).
- The status "initializing" is unreachable, and an unreachable Redis and jobs that wait for a retry are reported as "idle"
  (`indexer.worker.ts:233`, `indexer.controller.ts:72`); the lag monitor calls an unreachable cache "healthy".

Webhooks, services:
- When two deliveries of one webhook overlap, its counter misses failures, and a late one writes `disabled = false` (`webhook.processor.ts:159`), so that
  a webhook that was switched off is on again after jobs were skipped: `LogAgrees` excuses such a webhook (`blurred`). Retried jobs of a disabled webhook complete without a delivery.
- `swap.large` is dispatched for every swap (`indexer.worker.ts:458`; `webhook.types.ts:66`), and again on a retry.
  `POSITION_CLOSED` is never sent. The webhook list returns no `lastDelivery`.
- Candles: a bucket with an unaligned `from` is always empty; the default range covers `limit` + 1 buckets and drops the running one;
  `findFirst` takes any pool of the pair; the backfill stops one period early (`candles.service.ts:61`).
- The pair price endpoint prefixes its cache key twice (`price.service.ts:208`); the spot price is cached only for pools with subscribers.
- Nothing writes `Tick` rows, so `POST /swaps/quote` walks no ticks (`swaps.service.ts:93`).
- `token0` and `token1` filters of the pool list are ignored; bulk totals keep one casing of an address; collected fees of token 1 are reported
  as uncollected (`positions.repository.ts:356`); `totalTvl` of the overview sums mints and ignores burns.

SDK:
- The tick map of `quote.ts` is exponential, that of `position-math.ts` and the contract linear; below -20000 every tick
  has price 1. `getAmountsForLiquidity` differs from the contract's, and `position-math.spec.ts:252` passes by symmetry only.
- `sortedTicks` skips an initialised tick that equals the current one downwards. The sign of `getImpermanentLossPercentage` differs from its
  doc. `feeToTickSpacing` never matches the API's tier strings.
- Calls do not fit the contracts: mint and burn with four arguments for five, `exact_input_single` with scalars for a struct,
  `exact_output` which is always refused; `get_position` without its id; `getPool` reads keys no contract returns. The web never passes
  `poolType`. Envelopes have a random source account with sequence 0, re-ranging puts two contract calls into
  one, `callContract` is fixed to the test network.
- `estimateRemoveAmounts` (`liquidity.ts`) uses names it does not import, so that each estimate throws inside a promise that is then
  never settled (`liquidity.ts:381`), and the panel goes on loading; the model also has the answers of a repaired one.

Contracts:
- Growth before a position existed is paid to it when it comes into range, and a collect panics when growth inside is smaller than at the
  snapshot (`cl-pool/src/lib.rs:587`); a partial step does not store the price it computed (`:447`); `get_token_1`
  says "higher-sorted" (`:766`), and `initialize` takes any order. A transferred token moves no right over its
  position (`position-nft/src/lib.rs:185`). `get_twap` ends at the latest observation, not now.
- Legacy pool: a swap moves no tokens and crosses no tick, so that a position minted out of a range the price then enters cannot be burnt; burning
  in parts can pay more than the mint took; a burn with another range leaves a net behind at a tick that was emptied; the search truncates for
  unaligned negative ticks; limit 0 from token 1 to token 0 takes the price to 0; fees are always on token 0's side.
- A pool the factory deployed is unusable until a separate `initialize`, which names any tokens. The fee collector's `initialize` may be called
  again and switches fees off.

Front end:
- `useSwapQuote.ts:148`: a quote for a price push lacks the sequence check that `SwapWidget.tsx:468` relies on; a quote
  answered after the inputs became incomplete enables a button that opens no modal; the modal reopens after a lost quote;
  "Fetching quote" stands on an enabled button in exact-out mode; `usePoolId` searches the first page only.
- `SwapConfirmModal.tsx:71` says "Trap focus" and handles Escape only; a retry skips the network check; the header of
  `mev-submission.ts:10` contradicts `:146`.
- Liquidity forms: after a range has moved past the price the amount of the token not needed stays; an upper price typed
  from scratch is refused key by key (`RangeSelector.tsx:157`); the re-range page is silent about an invalid range; a collected fee also
  redirects and says "Position closed successfully" (`RemoveLiquidityPanel.tsx:82`, `:255`), hides the summary if open and leaves
  the panel disabled after a partial removal.
- Portfolio: a reload goes home before the wallet is restored (`portfolio/page.tsx:31`); `clearAuthToken` is never called; an expired token shows an
  empty portfolio; one `collectingId` for all cards enables the first again (`:61`).
- Webhooks panel: "Never delivered" always; the form is cleared without a token; an error and "No webhooks registered yet" side by
  side; a refused deletion is ignored; a spinner stays when the token goes while a list loads.
- Pools page: `fmt(pool.volume7d)` (`pools/page.tsx:146`) of a field the API never sends; no way back from a page that
  vanished; list and detail link to different add-liquidity routes; a failed background read shows "Pool not found".
- `usePriceCandles` cannot cancel its reads, and the events its socket adds are prices, not candles.

Scripts: step 0 of `test-integration.ts` always exits.

## 7. Not modelled, and why

- Full-width fixed-point arithmetic (Q96, 128 bits; the math library contract, which no contract calls): out of TLC's reach. The models keep
  the rounding directions on a small scale.
- Configuration, logging, tracing, metrics, validation and formatting: they change no state a property reads. Signatures, HMACs,
  JWTs and addresses are opaque and of no consequence to the order of steps.
- Fee growth and `collect` of the older pool, which pay nobody; `fee_growth_outside` and `tokens_owed`, which nothing reads.
- The price feed with its fallbacks in `stats/` (floating-point sums of fetched prices), API keys and the audit log, balances, ticks and
  single-row reads: single queries whose answer is what is there.
- Presentation of cached queries (pool list, pool detail, layout), shared packages, deployment scripts and schema. `packages/contracts` holds
  earlier forms of router and fee collector that no script deploys.
- Horizon, Stellar, BullMQ, Redis and Postgres are modelled by what the code relies on: atomic commands, at-least-once jobs with attempts, stalls
  and back-off, effects in order of their paging tokens.
