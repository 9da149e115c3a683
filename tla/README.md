# A TLA+ model of cex-matching-engine

This directory holds TLA+ modules for the exchange in this repository, TLC
configurations that check them on small instances, and proofs checked by TLAPS.

## 1. The system

| component | state | operations | source |
|---|---|---|---|
| order book | price levels (queues), `order_index`, last trade price, dirty levels | `add_order`, `market_buy_cost`, `would_self_trade`, `cancel_order` | `src/book.rs` |
| ledger | available and reserved per account and currency, dirty balances | `deposit`, `withdraw`, `reserve`, `release`, `settle` | `src/ledger.rs` |
| engine | books, `order_pair`, id and sequence counters, idempotency window, listed pairs | `apply` of Place, Cancel, Deposit, Withdraw, ListPair, DelistPair | `src/engine.rs` |
| engine process | Redis stream `commands` with group cursor and pending list, snapshot file | `recover`, `run_engine` | `src/runtime.rs`, `src/snapshot.rs`, `src/bin/engine.rs` |
| db_writer | consumer group on `events`, Postgres tables | read, stage, commit, ack, trim, retention sweep | `src/bin/db_writer.rs` |
| book projection | in-memory levels, snapshot file, `BOOK_SNAPSHOT_KEY` | `bootstrap`, `tail`, `get_book` | `src/bin/api/book.rs` |
| API commands | map of waiting handlers, the client's `X-Client-Order-Id` | write handlers, `submit_command`, result subscriber | `src/bin/api/main.rs` |
| websocket feeds | one receiver per connection on a bounded broadcast channel | subscribe, authenticate, forward, close on lag | `src/bin/api/ws.rs`, `src/bin/api/book.rs` |
| rows over time | trades, orders and candles tables | roll-up, retention sweep, `get_candles` | `src/bin/db_writer.rs`, `src/candle.rs`, `src/bin/api/main.rs` |
| authentication | users table, signed tokens | `signup`, `login`, `verify`, extractors | `src/bin/api/auth.rs` |
| bot | resting ids, mid, two tokens | startup, quote, cancel, print, renew | `src/bin/bot.rs` |
| migrations, benches, deployment | | | `migrations/`, `benches/`, `deploy/` |

The API appends commands to the stream `commands`. One engine process applies
them in log order on one thread, appends one event batch per command to `events`,
publishes the answer on `results`, and acknowledges. db_writer and the API read
`events` independently; db_writer trims it for both, up to the earlier of its own
commit and the id the API published in `BOOK_SNAPSHOT_KEY`.

What is hard: three representations of the same reservations and of the same
resting orders that must agree after any sequence of commands (engine); crashes
between any two Redis calls, with a snapshot, a trimmed stream and a cursor that
have to meet again (engine process); two readers that crash independently over a
stream one of them trims (projections); replies that race timeouts, disconnects and
retries (API commands); a snapshot taken while deltas are on their way (feeds);
entries delivered again after a sweep deleted the rows that guard against it
(tables); quotes computed from reads that are already old (bot). `PROJECT.json`
lists the hazards by line.

## 2. Modules

| module | models |
|---|---|
| `Loops` | loops as functions of the iteration count, so that they can be proved about |
| `Market` | currencies, pairs, orders, requests, trades |
| `OrderBook` | `book.rs`: one operator per method; the matching loop is `Loop` over `MatchStep`, one fill per iteration |
| `Ledger` | `ledger.rs`: operators on balances plus dirty set |
| `Dedup` | the idempotency window |
| `Engine` | `engine.rs`: the state of `struct Engine`, one action per command outcome; `response` and `batch` are what the last `apply()` returned |
| `EngineProperties` | invariants and action properties of the engine, and its refinement mapping |
| `Exchange` | the abstract exchange: one table of open orders, holdings, price-time priority stated by what is ahead of an order |
| `Views` | the engine composed with the readers' rows: orders and balances tables, projected levels |
| `Runtime`, `RuntimeProperties` | the engine process over Redis; the engine is any deterministic `Apply` |
| `Projections`, `ProjectionsProperties` | db_writer and the book projection over the shared `events` stream |
| `Requests`, `RequestsProperties` | the API's write path: handlers, waiters, timeout, subscriber, retries, over `Dedup` and an engine that restarts |
| `Feed`, `FeedProperties` | both websocket feeds, the tail task, `GET /book`, and the client of `docs/API.md` |
| `Tables`, `TablesProperties` | trades, orders and candles rows under redelivery and sweeps; a client paging through `GET /candles` |
| `Bot`, `BotProperties` | the market maker with its accounts and tokens, on an exchange it shares with an outsider |
| `LoopsProofs` | induction for loops, extreme elements of sets of naturals |
| `EngineProofs`, `LedgerProofs` | theorems about the engine: its books and window, then its money |
| `ExchangeProofs` | the engine implements `Exchange`; the tables and levels of its readers agree with it |
| `BotProofs` | the bot crosses no quote of its own, loses no order and renews its tokens in time |
| `RuntimeProofs` | theorems about the engine process |
| `RequestsProofs` | theorems about the API's write path |
| `ProjectionsProofs` | theorems about the two readers |
| `MCEngine`, `MCViews`, `MCRuntime`, `MCRequests`, `MCFeed`, `MCTables` | constants for TLC |

What composes what: `Engine` is built from `OrderBook`, `Ledger` and `Dedup`, and
implements `Exchange`; `Views` runs it together with its readers' rows. `Runtime`
and `Projections` meet in the stream `events`. `Requests` takes `Dedup` from the
engine and reduces the process to execute and restart. `Feed` continues
`Projections` from the broadcast on, `Tables` continues it from the commit on.

Correspondence. A missing `BTreeMap` level is an empty queue and a missing balance
is zero. `u64` values are integers; `Fits` marks where the code's checked
arithmetic fails, and `NoUnderflow` and `TradeCostFits` are about two places where the
code does not check (the `-=` and the `expect` of `settle`). Other sums are not
checked by the code either. The units of a level, added by `take_dirty_levels`
(`book.rs:393`) and `market_buy_cost` (`book.rs:331`), are `LevelQty`: they wrap round,
as the release build does; a debug build would panic. Bids at price 0 reserve nothing,
so that such a level of bids can be had for free, and it is modelled (section 5).
Asks reserve base, and a level of them that does not fit takes more than 2^64 units of
base in the accounts together; `Engine` leaves these states out by the bound
`BaseFits`, without which the walk of a market buy would be short of what its fills cost.
The `+=` of balances is not bounded by the model, and `filled_qty` and `total_cost`
of an answer (`engine.rs:303-304`) are not part of `response`.

In `Runtime` and `Projections` each action ends at a call that may be the last before a stop. Stream entries are numbered in
XADD order. In `Requests` a request is its correlation id; what the engine would
decide of it is part of the call, so that an answer can be compared with it. An
XADD is two steps: the entry's arrival in Redis (`Added`) and its return to the handler
(`Logged`), between which the engine may execute it and the reply arrive. A
handler dropped by axum when its client disconnects stops at one of its two awaits.
In `Feed` the broadcast channel is the position of each receiver. In `Tables` a
writer's transaction is one step, and there is one clock; `Redeliver` stands for a
consumer group that Redis restored to an earlier cursor, against which the
idempotent writes of `apply_event` are meant. In `Bot` orders have size one, and a
request or its reply may be lost.

Operators introduced as a *sensitivity variant* are not part of the specifications:
each is a faulty version of the definition that follows it, and shows that a
property notices that fault.

## 3. Runs

| run | result | bounds |
|---|---|---|
| `engine_core` | passes | 2 accounts, 1 market, prices 1-2, sizes 0-2, 3 orders, 7 batches, u64 maximum 3, band 20%, self-trade prevention on |
| `engine_retry` | passes | 2 opposite markets and an invalid pair, prices and sizes 1-2, window 1, 2 client ids, 2 orders, 4 batches, u64 maximum 3, band 20%, self-trade prevention on |
| `engine_refines` | passes | prices 1-2, sizes 1-2, 3 orders, 5 batches, limits off |
| `engine_views` | passes | prices 0-2, sizes 0-2, 3 orders, 5 batches, u64 maximum 3, self-trades allowed |
| `runtime_crash` | passes | 4 entries (trading, rejected or garbage), 2 crashes, snapshot every 2 |
| `readers` | passes | 3 entries over 2 book levels (two, so that a lost entry shows), 2 stops of either reader or of the tail task, trim and snapshot after each entry |
| `requests` | passes | 2 keys of one account and 2 requests that are turned away, 3 requests in all; window 1, 1 fault |
| `feed` | passes | a public and a private connection, 2 levels, buffer of 1 batch, 3 batches, 2 sessions |
| `tables` | passes | 3 batches with 3 trades and 2 orders, widths 1 and 2, clock up to 3, retention 1, sweeps of 2 rows, 1 fault, page limits 0 and 3 (clamped to 1 and 2) |
| `bot` | passes | 1 level a side, spread 1, mid 2-4, 2 ticks of 1 print, 1 fault, 1 order of an outsider, tokens that live for 2 |
| `lostbatch`, `candletime` | violated | see section 5 |

What they show. `engine_core`, `engine_retry` and `engine_views`: books, index,
ledger, window and the readers' rows agree after every command, and a refused or
duplicate command changes nothing (`engine_retry`). `engine_refines`: the engine
implements the abstract exchange. `runtime_crash`: after any two crashes the engine is what its log says,
nothing is passed over or trimmed too early. `readers`: neither reader loses
history it needs. `requests`: every answer is the request's own and true, a retry
executes nothing twice inside the window, the map of waiters is exact, also when
the reply is there before the XADD returns, and every request ends, be the engine down
or the subscriber gone. `feed`: an open connection
has no gap, and snapshot plus deltas give the server's book. `tables`: candles count
each trade once, live orders survive every sweep, pages of a chart fit together.
`bot`: the quotes do not run into the previous ladder, no order of its own is
forgotten without a fault, and tokens are renewed in time.

*Why the bounds are enough.* Three orders allow a taker to cross two makers at two
prices, a partial fill, and a cancel of what is left; seven batches are two deposits
and five commands, or three and four. Price 0 is in `engine_views`. A u64 maximum of
3 makes `2 * 2` overflow, and `2 + 2`: in `engine_views` two bids at price 0 are a level that wraps
round, which a cancel or a fill then brings back within range.
Engine runs other than `engine_retry` use one client id and a window of 0: such a
window forgets a key at once, which stands for clients that never reuse one. Four
entries with reads of two and a snapshot every two put a crash before, between and
after every step of two snapshots; two crashes include a crash during recovery.
Three requests with a window of one are a command, one that evicts it, and a retry;
they may overlap. Three batches over a buffer of one let a receiver lag
in the middle of a subscription. A clock of 3 with a retention of 1 lets rows
be written, swept and written again. Two ticks are a ladder and the one that
replaces it. Accounts are symmetric in the engine's runs. `CHECK_DEADLOCK FALSE` is
set because the bounds stop the commands.

*The engine under the process.* `Runtime` takes the engine as `Apply`. In
`runtime_crash` it is a digest of the commands applied, so that a missed, repeated
or swapped command shows, without help from the idempotency window. When SETID fails
after a replay, commands are applied twice, and only that window saves them:
`RetrySafe` in `requests` covers this, whose `Restart` lets the cursor stay behind.

*Fairness.* `WF` on the steps of each process: the containers have
`restart: unless-stopped` (`deploy/docker-compose.yml`), and the loops wait for
nothing but Redis, Postgres and the disk. Stops are bounded, so these
properties say that things catch up once the stops end. The tail task of the book
projection is different: it ends on its first error and nothing restarts it, so
`BookCatchesUp` and `FeedCatchesUp` except that case. `RowsCatchUp` excepts entries
it had read and not committed when it stopped: db_writer does not read them again.
`requests` assumes `WF` of each handler alone: Redis answers an XADD, with success or an error, and a tokio timer
runs out. It assumes nothing of the engine, the subscriber or the client. `feed`
assumes `WF` of the tail task and of each connection together with its client's
reads; a client that does not read is cut off or leaves. `tables` and `bot` check
safety only.

## 4. What is proved

`EngineProofs` proves, for any accounts, pairs, prices, sizes, limits and bounds
satisfying the named assumptions of `Market`, `OrderBook`, `Dedup` and `Engine`:

- `TypeCorrect`: `Spec => []TypeOK`
- `RoutingExact`: `Spec => []IndexExact`
- `TimePriority`: `Spec => []QueuesInOrder`
- `NeverCrossed`: `Spec => []Uncrossed`
- `WindowConsistent`: `Spec => []DedupConsistent`

They follow from one inductive invariant, `EngineInv` (theorem `EngineInvariant`).
None of the parts is inductive alone: that a fill removes the right index entry
needs ids to be unique in their queue, which is arrival order (`QueuesInOrder`)
together with the exact index; that a resting order does not reuse an index entry
needs every resting id to be below `next_order_id`; and that a remainder may rest
without crossing needs what the loop establishes at its end.

The matching loop is handled by `LoopInvariant` (`LoopsProofs`): what holds
initially and is kept by every iteration holds after any number of them. It is
stated with sets of states instead of predicates. `EngineProofs` shows that one
fill keeps the book typed, indexed and in order (`FillKeeps`), lifts this to the
loop (`MatchKeeps`), shows that after `size` iterations nothing crosses any more
(`NothingLeftToCross`: each fill takes at least one unit), and treats resting
(`RestIndexed`, `RestInOrder`) and cancelling (`CancelKeeps`).

`LedgerProofs` proves, from the same assumptions, what the engine does with money:

- `ReservesBacked`: `Spec => []ReservedBacked`
- `NeverOverdrawn`: `Spec => []NoUnderflow`
- `WalkIsExact`: `Spec => []WalkedCostExact`
- `HoldingsExplained`: `Spec => TradesExplainHoldings`, an action property
- `RefusalsHarmless`: `Spec => RefusalChangesNothing`, an action property
- `SettleNeverOverflows`: `Spec => TradeCostFits`, an action property

Its invariant `LedgerInv` (theorem `LedgerInvariant`) is `EngineInv` together with
`ReservedBacked`, `NoUnderflow`, `BaseFits` and, for each book, `OrdersFit`: the price of a resting
order times what is left of it fits a `u64`. None is inductive without the others.
That a reserve does not go below zero when `settle` subtracts from it unchecked
follows only from its being the sum of what the account's orders may still spend,
one of which is the maker being filled; that no fill overflows in `settle` follows
from the check made when the maker, or the taker, was placed. `BaseFits` is the bound of
the specification: with it the sums of `market_buy_cost` do not wrap and the walk is
`TotalCost`, the cost of what is resting (`CostOfAsks`); about bids nothing is assumed.

`ReservedBacked` is a sum over order ids, the trades of a command are summed as
`GainedBy` and `DrawnBy`. Sums are functions of the number of terms
(`SumTo`), and the lemmas about them say how a sum changes when one term does;
they are proved by induction on it (`SetInduction`). The matching loop's invariant is `MatchPays`: after
any number of fills, what makers have pledged less is what the trades draw from them
(`MakersPay`), in the taker's currency they draw from the taker alone (`TakerPays`),
their cost and the walk of what is left make up the walk of the whole (`WalkPays`), their
cost and the price improvement make up the limit price of what is filled (`RefundPays`),
and each cost fits or is bounded by the total that was checked (`CostsFit`). `AddingPays` draws the consequences for `add_order`, `PlaceLedger`
those for `place_order`: the reserve covers every settlement and the release of the
surplus, so that nothing can be refused once the book has changed. `StepGood` gathers
what each command does to the ledger and the books.

`ExchangeProofs` proves `EngineImplementsExchange`, `Spec => RefinesExchange`: with
`open` mapped to `OpenTable` (the resting orders of every queue, by id) and `holdings`
to available plus reserved, a new engine is a new exchange and each command is one of
its steps or a stutter. `Exchange` says how much each resting order gives by what is
ahead of it; the loop takes it fill by fill. `Gave` is the loop invariant that connects
the two. It has a function `d` from order ids to what each order gave so far: the
orders still resting are the others less `d` (`Depleted`), only an order with all
before it used up has given anything (`InTurn`), the taker got `d` in all, and the
trades move what `d` says (`Traded`). `FillGives` shows that a fill keeps it: the
front of the best level is what is served first of all that rests (`FrontFirst`), by
arrival order within the level. When nothing more crosses, `d` can only be what
`Exchange` takes (`TakenExact`, `ExchangeTakes`), and what is left of the table of
open orders, with the remainder of a limit order, is the table of the new books
(`ReducedTabled`, `PlaceTable`). It rests on `LedgerInv`: ids are below the next one and
belong to one order in one market, and holdings change by what the trades say
(`PlacedExplained`). Priority, exact quantities and conservation of funds are thus
proved of the engine at once.

The same module proves `SelfTradePredicted`, `Spec => []SelfTradeMirrorsMatching`.
`Meets` says that an own order crosses and that what is ahead of it, by the same
`AheadOf`, does not use up the size. `ScanGood` is the invariant of the scan of
`would_self_trade`: what it has passed is what is ahead of the order it is at, and no
own order it would meet is behind it (`ScanDecides`, `ScanNext`). When it ends it has
found such an order or there is none (`ScanExact`), and by `TakenExact` the loop of
`add_order` takes from exactly those (`MakersExact`). An order of size 0 takes nothing, but
the scan looks at the owner of the first order in line before it asks whether anything
remains, and so decides by it alone (`ScanOfNothing`); the property says that too.

`ExchangeProofs` also proves of the engine with its readers (`Views`), for any instance:

- `BalancesShown`: `ViewsSpec => []BalanceRowsExact`
- `LevelsShown`: `ViewsSpec => []LevelsExact`
- `OrdersShown`: `ViewsSpec => []OrderRowsExact`

`LevelsExact` is about levels that fit a `u64`, the others are shown wrapped round.
`ViewsInv` is the conjunction of the three, with the orders table as `RowsTrue` and the levels
as `LevelsSummed` (each is the wrapped sum, whether it fits or not); it is inductive
only with `LedgerInv`. The argument of the first two is that whatever a command changes
it also marks: `Marked` says so of a ledger, along every call that place_order and
cancel_order make (`SettleAllMarks`, `PlaceMarks`), `Covered` of a book, along the
matching loop (`MatchCovers`). `place_order` must not fail after it has matched, for
then it would change balances and report nothing: that is where `LedgerInv` enters
(`PlaceEmits`). For the orders table, `Told` is a loop invariant: the updates of the
fills so far, applied to the rows, show what is left of the makers, and the rows of
those that are gone are done (`FillTold`, `MatchTells`). The taker's update comes last
in its batch and makes its row what `add_order` leaves of it (`TakerRow`). That orders
of other markets and of the other side keep their rows is `OneEach`: ids are unique.
`OrderRowsExact` alone is not inductive because it does not say that a resting order
and its row have the same size, which decides between filled and cancelled; `RowsTrue`
does.

`RequestsProofs` proves `WaitersAlwaysExact`, `Spec => []WaitersExact`, for any
accounts, calls, window and number of requests and faults: no order of replies,
timeouts, disconnects, failures and restarts strands a handler that could still be
answered, or leaks a waiter other than that of a dropped handler. A reply
may take the waiter of a handler whose XADD has not returned; the handler then finds
its answer when it comes to wait for it. `WaitersExact` is not inductive alone.
`WaitersInv` adds that every reply on its way is for a logged request
(`RepliesLogged`), so for one that is known, and that whoever has been sent its answer
is out of the map (`AnsweredLeft`). `OneRequestKeeps` covers the steps that change one request, each
action of a handler is an instance of it.

Its second part proves, for the same constants, `AnswersAlwaysTrue`,
`Spec => []AnswersTrue`, and `RetriesAlwaysSafe`, `Spec => []RetrySafe`. Its
invariant `AnswersInv`, on top of `WaitersInv`, says what the idempotency window
remembers: `EngineGood` (the engine's window is the last `DedupWindow` keys of each
account among the commands executed), `EngineReplays` (while the cursor is aligned,
the engine is what replaying the log up to it gives), and, for replies on their way,
mail and statuses, that each is true of the commands executed so far (`MailTrue`,
`ResultsTrue`, `StatusesTrue`). A reply is true when it is made; that it stays so
across a restart is what `EngineReplays` is for. `RetrySafe` alone is not inductive
because it does not say what the window holds, only what it has prevented.

`RuntimeProofs` proves, for any engine function `Apply`, read size, snapshot
interval and number of crashes:

- `EngineIsFunctionOfLog`: `Spec => []EngineFollowsLog`
- `NoCommandPassedOver`: `Spec => []NothingPassedOver`
- `SnapshotSuffices`: `Spec => []SnapshotCoversTrim`
- `EventsAreFunctionOfLog`: `Spec => []EventsFollowLog`
- `EmitsBeforeAcking`: `Spec => EmitBeforeAck`, an action property

Each has the hypothesis `Reliable`: the snapshot file is not lost (`~SnapshotLoss`)
and SETID does not fail (`~SetIdFails`). Both are needed, and `runtime_crash` makes
the same choice: a file lost after a trim leaves an empty engine, and a failed SETID,
which `runtime.rs:64-72` ignores, has the replayed commands applied again (section 5).
The invariant `RuntimeInv` places the four positions that matter - last entry handled,
cursor, snapshot, trim - relative to each other in every state of the loop. The
least obvious part is `PositionInv`: between commands the snapshot is no later than
the cursor less what is still in hand. Without it a snapshot might be ahead of an
entry that is yet to be delivered.

`ProjectionsProofs` proves, for any levels, quantities, read size, intervals and
numbers of entries and stops:

- `BookIsFunctionOfStream`: `Spec => []BookFollowsStream`
- `TrimIsSafe`: `Spec => []TrimSparesReaders`
- `CommitsBeforeAcking`: `Spec => []AckedIsCommitted`

`ReaderInv` (theorem `ReadersInvariant`) has a part for each process and one that
joins them. `TailTrue` and `SnapshotTrue`: the served book and the one on disk are
those of a prefix of the stream, the snapshot's no longer than the served one's.
`Transaction` and `Committed`: what db_writer has staged comes after all committed
rows until the commit, and is among them afterwards. `TrimTrue` joins them: the
published id is at most the one on disk, and the trim stays below both that and what
db_writer was handed. `BookFollowsStream` needs it, since a book folded from what is
left of the stream is right only if nothing after its snapshot is gone
(`FoldIsHistory`). `StageSorts` says what the staging loop does with a reply.

`BotProofs` proves, for any ladder, spread, clamp of mid, token lifetime, and numbers of
ticks, visitors and faults:

- `NoOwnCross`: `Spec => []QuotesDoNotCross`
- `NoOrderLost`: `Spec => []OrdersTracked`
- `TokensLast`: `Spec => []TokensRenewedInTime`

from `QuotesAssumption`: the bounds of mid are in order, as `clamp(60, 160)`
(bot.rs:424) has them, and a renewal is due no later than a token lasts (20 h and 24 h).
`BotInv` has a part for each concern. `MarketInv`: ids are unique and the exchange is
never crossed, which a resting order keeps because it was tried against the order ahead
of all others (`FrontExists`, `NoneCrosses`, `AcceptEffect`). `ProcessInv`: listed ids
are below the next one, and nothing is set aside between ticks. `LadderInv`: what rests
is of the ladder of the current mid, and during a tick what is set aside is out of the
reach of it. `QuotesDoNotCross` speaks of the quote about to be placed and says nothing
of prices, so it is not inductive without `LadderInv`. The step that matters is the
tick (`WalkLeavesLadder`): from the mid of the old ladder a walk of one unit stays clear
of it for any spread of at least one; from the middle of the book it does because the
book has the old ladder in it, is not crossed, and has room between its best prices - which
is why a book that is behind, or squeezed, is excused. `OrdersTracked` holds across a
placement because the new id is in neither list. `TokensInv` says that both tokens last
at least `Ttl` from the last renewal of both; a renewal of one of them alone does not
move that time, so the next tick tries again.

`LedgerInv`, `RuntimeInv`, `ReaderInv`, `AnswersInv`, `RowsTrue` and `BotInv` were
checked by TLC on the instances of `engine_core`, `runtime_crash`, `readers`, `requests`,
`engine_views` and `bot`.

Only model-checked:

- the properties of `Feed` and `Tables`: they rest on folds over sequences, and
  what a fold computes for every input is an induction over data;
- liveness under fairness, which is outside the prover.

## 5. Where the code and its documentation disagree

- **A crash can lose an event batch** (`lostbatch`). Recovery replays commands
  that were read but not acknowledged silently and moves the cursor past them;
  `ARCHITECTURE.md:97-99` says they are redelivered. A command is read and applied, the
  process stops before its XADD, and the next boot applies it from the log without
  emitting: its effects are in the engine but never in `events`. The run needs
  neither a lost snapshot nor a failing SETID.
- **Trades and candles carry db_writer's clock** (`candletime`). `apply_event` takes
  a trade's time from the id it is given, by `entry_millis`, whose comment says
  "this is match time" and "survives replay unchanged" (`db_writer.rs:147-152`).
  The id it is given is `"{seq}:{i}"` (`db_writer.rs:417`), never a stream id, so
  the fallback to `SystemTime::now()` is always taken.

Met while modelling, without a run of their own:

- A level total can wrap round. Two bids at price 0 reserve nothing and can hold more
  units than a `u64` counts. `take_dirty_levels` adds them unchecked (`book.rs:393`),
  while its comment calls the aggregate correct (`book.rs:380-382`): the release build
  reports the level with a wrong total, or as empty, while both orders rest there, and a
  debug build panics. `LevelsExact` excepts a level that does not fit.
- An order of size 0 can be refused as a self-trade. The comment says that
  `would_self_trade` mirrors the crossing rule of `add_order` (`book.rs:342-343`). The
  loop of `add_order` is not entered at size 0, but the scan returns true at the first
  own order on a crossing level (`book.rs:357`). `SelfTradeMirrorsMatching` has a clause
  of its own for size 0.
- A lost snapshot is not recoverable once the stream was trimmed, although
  `snapshot.rs:74-75` calls it so. `runtime_crash` therefore keeps the file
  (`SnapshotLoss`).
- db_writer reads only `>` (`db_writer.rs:383`), so a crash between read and commit
  does not redeliver the batch, as the comment at `db_writer.rs:424-425` has it.
- The price of a market sell is not ignored (`docs/API.md:141`): it is multiplied by
  the size, and an overflow refuses the order (`engine.rs:175`).
- `last_seq` is 0 before any batch (`api/book.rs:64`), which is also the seq of the
  first batch: a client that snapshots an empty book drops it. `ClientReconciles`
  excepts that snapshot.
- "A gap in `seq` means you missed events" (`docs/API.md:417`): `seq` counts the
  commands of all markets, and the feed of one market skips the others'.
- The bot's quotes do not cross its previous ones (`bot.rs:38-40`) only as long as
  the book it reads is up to date and nobody else quotes inside its spread; with a
  spread of one tick shown, the mid rounds down to the bid. `QuotesDoNotCross`
  excepts those cases (`excused`).
- An error of SETID after a replay is dropped (`runtime.rs:64-72`). The replayed
  commands are then delivered and applied again; the idempotency window refuses the
  ones it still holds and executes the others a second time. What the engine answers
  from then on is not what the next replay of the log gives, so `AnswersTrue` excepts
  it (`aligned`).
- A waiter whose client disconnected stays in the map until a reply comes for it,
  and for good if none does (`WaitersExact` allows `gone`).

## 6. Not modelled

Password hashing, token encoding and SQL, which are library calls; `get_orders` and
`get_balances`, which return rows as they are; the bot's deposits, order sizes and
listing of its pair; migrations, benches and deployment. One API process runs, as in
`deploy/docker-compose.yml`; the module comment of `api/book.rs:4-5` expects several, which
would overwrite one `BOOK_SNAPSHOT_KEY`. A change
of `Limits` between two boots is left out: `Runtime`'s engine is one function.
Serialization failures that `runtime.rs` calls unreachable are left out.

## 7. Plan

1. A second API instance in `Projections`, and in `Feed` a second market.
