# Formal models of the Orderflow Replay Engine

TLA+ models of the order book, the risk manager, the exchange simulator, the
backtester, the sessions of `engine_cli`, the HTTP server, the journal and the
Python bridge to the engine, model-checked with TLC. Proved with TLAPS is the safety of
all of them (every invariant and every action property the runs check), and that the order book
implements price-time priority; liveness is model-checked only. Paths such as `src/core/order_book.cpp` are relative to
the repository's root.

## 1. The system

A C++ engine (`hft` namespace) matches orders for several symbols. Three
programs are built around it: `engine_cli` (one thread, JSON lines over
stdin/stdout, driven by the FastAPI server in `app.py`), the HTTP server in
`src/main.cpp` (many threads, one `ExchangeSimulator`), and the benchmark.

```
 browser --HTTP--> app.py --stdin/stdout--> engine_cli --calls--+
                  (threads, lock, reader)   (one thread)        |
 browser --HTTP--> main.cpp (thread pool) --calls---------------+
                                                                v
                                                     ExchangeSimulator
                                              risk_.mutex_ |   | mtx_
                                                           v   v
                                                 RiskManager   OrderBook (one per symbol)
```

### Inventory

| Component | State | Operations | What is hard | What makes it correct |
|---|---|---|---|---|
| `OrderBook` (`core/order_book.*`) | price maps `bids_`/`asks_` of levels with a cached `total_qty`; index `orders_`; the `Order` objects | `add_order` (match, rest, expire), `cancel_order`, `modify_order`, `snapshot` | three structures changed at four places; a sweep is a loop whose middle shows through its callbacks; FOK trusts cached totals and has no price check of its own; an amendment re-queues without matching | index, levels and orders agree; cached totals exact; price-time priority; no trade outside a limit; FOK all or nothing; done orders stay done; observers told everything; snapshots show what the orders add up to |
| `RiskManager` checks (`risk/risk_manager.*`) | `limits_`, deque of approval times | `check_order`, `set_limits` | sliding-window edge, limits changed or disabled mid-window, two readings of the clock | rate bounded; nobody throttled without cause |
| `RiskManager` accounting | `positions_`, `market_prices_` | `on_fill`, `update_market_price` | add / reduce / close / flip in any order, marking from two places | no profit created or lost; total P&L is mark to market |
| `ExchangeSimulator` (`core/simulator.*`) | `books_`, `order_store_`, counters, `mtx_` | `submit_order`, `cancel_order`, `modify_order`, `on_tick`, `add_symbol` | the risk check and the fills it allows are under different locks; fills booked after the sweep | every order and fill accounted for once; bounded overshoot of the position limit; calls return |
| `EngineProcess` (`app.py`) | the global `engine`, its lock, the child, its pipes | `_get_engine`, `_start`, `send` | threads racing to create the engine; a reader that outlives its timeout; crash, hang, garbage | an answer belongs to its request; every request is answered; a running child is replaced only with an error |
| `engine_cli` | `g_sim`, `g_limits`, feed index, two logs | one per JSON command; those that change the globals are `order`, `cancel`, `feed_step`, `risk_limits`, `reset` | `reset` keeps and drops state selectively and starts the ids again; limits are applied field by field; the feed wraps around; logs are cut inside callbacks | logs, prices, limits and replies are those of this session |
| Backtester, strategies (`core/simulator.cpp`, `strategy/*`) | `live_orders`; quotes, window and flag of a strategy | `run`, `process_signals`; `on_tick`, `on_order_update` | the backtester and the strategy see the order they sent, not the one that was matched | what rests is tracked; a strategy that is out has nothing in the book; what a backtest can trade |
| `BinaryJournal` (`journal/*`) | file of framed records, a stream to write and one to read | `open_write`, `write_record`, `close`, `open_read`, `read_all` | full disk, torn or zeroed tail, damaged byte, an uninitialized checksum variable | what is read was written; nothing sound before the damage is lost |
| HTTP server (`main.cpp`) | `g_sim`, `g_limits`, feed index, logs | one handler per route, run by a thread pool | `reset` replaces `g_sim` under running handlers; limits filled by two requests at once; feed steps overlap | only an overlapping reset frees memory in use; the feed is taken once; limits take effect; requests are answered |
| Parser, serializer, frontend, tests, benchmark, build | – | – | – | not modelled: data generation, formatting, presentation, evidence of intent |

`PROJECT.json` holds the list of hazards with the properties that cover each;
those without a property carry the reason.

## 2. Modules

| Module | Models | Uses |
|---|---|---|
| `Orders` | `types.hpp`: sides, types, statuses, `Order`, `remaining`, `is_done` | – |
| `OrderBook` | the order book, one action per loop iteration | `Orders` |
| `Matching` | what matching an order does to the orders and queues of one book, as a function | `Orders` |
| `PriceTimePriority` | abstract book: each call atomic, no loop, totals or index | `Matching` |
| `OrderBookRefinement` | the mapping from `OrderBook` to it | both |
| `CollectionTheorems` | lemmas about sums, extrema, ordered sets and sequences that the other proofs share | – |
| `OrderBookProofs` | theorems about `OrderBook`, what a call does to the orders, and that it implements `PriceTimePriority` | `OrderBookRefinement`, `CollectionTheorems` |
| `RiskChecks` | the checks of `check_order` as a function | – |
| `RateLimiter` | `check_order`, its window, `set_limits` | `RiskChecks` |
| `Ratios`, `PositionAccounting` | `on_fill`, `update_market_price` | – |
| `RiskManagerProofs` | theorems about `RateLimiter` and `PositionAccounting` | `RateLimiter`, `PositionAccounting`, `CollectionTheorems` |
| `ExchangeSimulator` | threads through `submit_order`, `cancel_order`, `modify_order` | `RiskChecks`, instance of `OrderBook` |
| `ExchangeSimulatorProofs` | theorems about `ExchangeSimulator` | `ExchangeSimulator`, `CollectionTheorems`, instance `BP` of `OrderBookProofs` |
| `Backtest` | the tick loop, `process_signals`, the three strategies | instance of `PriceTimePriority` |
| `BacktestProofs` | theorems about `Backtest` | `Backtest`, `CollectionTheorems` |
| `EngineSession` | the commands of `engine_cli` over its globals | `Matching`, `RiskChecks` |
| `EngineSessionProofs` | theorems about `EngineSession` | `EngineSession`, `CollectionTheorems` |
| `HttpServer` | the handlers of `main.cpp`, at each use of a global | – |
| `HttpServerProofs` | theorems about `HttpServer` | `HttpServer` |
| `Journal` | `BinaryJournal`, and what may happen to its file | – |
| `EngineProcess` | `app.py` and the request loop of `engine_cli` | – |
| `IoProofs` | theorems about `EngineProcess` and about `Journal` | both |
| `MC*` | TLC instances: model values, symmetry, sample limits | the module each is named after (`MCRiskManager`: `RateLimiter` and `PositionAccounting`) |

### How they correspond to the code

**OrderBook.** `order` is the set of `Order` objects (`Blank` before submission),
`book` the two price maps, `orders` the keys of the index, `incoming` the call in
progress, `trades` what that call will return. `AddOrder` is `add_order` up to
its loop, `Fill` one iteration with `make_trade`, its callbacks and the pop,
and `Rest`, `Discard`, `Complete` the three ways the call ends. `CancelOrder`
and `ModifyOrder` are whole calls; calls that answer `false` change nothing and
are stutters. `notified` and `amended` are history variables.
Inside an iteration the callbacks run before the level's total is lowered; no
callback in the program reads the book, so the iteration is one step.
Prices are any set of integers. MARKET orders have price 0 (what the callers
pass), the others a price of `Prices`. `REJECTED` is a declared status that no
code assigns to an order in the book. Timestamps and trade ids are left out.

**RiskChecks, RateLimiter.** `Checks` keeps the order of the checks. The clock
is read twice (pruning, then recording), and may move in between. The clock is
assumed not to step back. `set_limits` takes no lock in the code; here it is one
step, so a half-written `RiskLimits` is not covered. The two statistics
counters are left out.

**PositionAccounting.** Doubles are exact fractions with the least denominator
(`Ratios`), so the model is about the bookkeeping and not about rounding. `on_tick` of the simulator is
`UpdateMarketPrice`. One symbol: symbols share nothing here.

**ExchangeSimulator.** What the class promises to several threads: the HTTP server has no
route that amends an order, so `Modify` stands for another caller. `call[c]` is the program counter of thread `c`,
`holder` the owner of `mtx_`, `net` the position. `Submit` is `check_order` under
its own mutex; `Enter`, `Match`, `Return`, `OnFill`, `Answer` are the critical
section, the book's part being actions of the `OrderBook` instance. Because the
position is read by other threads' checks between two `on_fill`s, these are
separate steps. Ids are consecutive, as `next_order_id` gives them (`IdsAssumption`). The rate limit may or may not throttle any order here, so what
is shown holds whatever `RateLimiter` decides.

**Backtest.** `signals` is what `process_signals` has still to do, `live` the keys
of `live_orders`, `engaged` Momentum's `long_` or MeanReversion's `in_trade_`.
`Tick` is one turn of `run`'s loop up to the strategy's answer; `Submit` and
`Withdraw` carry out one signal. The book is the abstract `PriceTimePriority`,
with each `add_order` in one step: one thread, and nobody looks in between. What a
strategy computes from its window is a *reading* of the tick (low, near, high,
none) that is independent of the prices, so every tick sequence is covered.

**EngineProcess.** `handler[r]` and `reader[r]` are the program counters of a
request's thread and of its reader thread; `proc[e]` is the child with its two
pipes. `Look`, `Create`, `Fetch` are the three reads and writes of the global in
`_get_engine`. When a child is killed and replaced, its pipes go with it: a
reader that still holds it reads the end of file. Time is abstract: a join with
a timeout may return at any moment before the reader is done.

**EngineSession.** One thread reads a line, carries it out and prints the reply, so
one command is one step; what is interesting happens between commands. `g_sim` is a
record that `Fresh` makes, as `init_sim` makes the simulator; each symbol has queues of its
own, all symbols share the order table and the ids. An order is matched in one step, with
the outcome that `Matching` gives it and that `OrderBook`'s loop was proved to have.
`Makers` lists the orders it traded with in the order of their priority. `Updates` is what
the order callback is told during the call (the new order, then both
orders of each trade, then what is closed), and `Logged` cuts a log after each
entry. Whether the rate check throttles is left open. The history variables are
`agreed` (the limits of the last `risk_limits` that was answered ok), `mixed` (the
session began with limits nobody agreed to), `loosest` and `lapped`.
No command amends an order. `backtest` has a simulator of its own.

**HttpServer.** `handler[t]` is the program counter and the locals of thread `t`.
Every `g_sim->` is two steps: `Load` takes the pointer, the next action uses
what it loaded, under `mtx_` where the code takes it. This holds in `reset_sim` too; its five
`add_symbol`s are one load and one use, and so are its two callbacks. `g_log_mtx` is not a variable:
an entry, a cut, a copy and a clear of the logs are one critical section each, in which nothing
is waited for, so each is part of one step. `sims` are all simulators made so
far; `reset` clears the log, makes one, installs it, destroys the old one, and then
adds symbols and callbacks to whatever `g_sim` points to when it loads it. The book of a simulator
is the set of orders it points to; `order_store_` owns them by id, so an order stored
under an id that is taken destroys the one before: it is *dangling* while the book still
has it. A sweep uses the orders it fills and the one it fills in part; a cancel uses every order of the
level it walks. Using a simulator or an order that was freed sets `wild`, which ends a
run: nothing is said about what undefined behaviour does next. Trade log and order log
are one log. `Counters` stands for the reads that take no mutex, `Snapshot` for those
that take it. `MaxRequests` bounds the requests.

**Journal.** A cell of `disk` is a field of the frame or a piece of a payload; it is 0
if all its bytes are. `Checksum` is a constant, free of collisions on what is compared,
and 0 for the empty payload as CRC-32 is. `crc_stored` is not initialized in
the code: it may hold anything in `Junk`, or what the turn before left there, when the
file ends too early. A crash leaves any number of cells, and after them up to `MaxZeros` zeros. `DiskFull`, `Crash` and `Damage` are the surroundings; a
crash may follow a full disk, and a cell is damaged only in a file that is whole. One
object writes the file and another reads it. `records_written` counts failed writes
too, and `open_write` truncates the file.

## 3. Checks

Every passing run ends with the state space exhausted. Deadlock is checked in
`engine_session`, where some command is always possible, and off in the others, because
each bounded behaviour ends once its ids, fills, clock readings or requests are
used up; that the programs do not get stuck is what the liveness properties say.

| Run | Bounds | Shows |
|---|---|---|
| `order_book` | 3 orders, 2 prices, quantity up to 3, symmetric ids | book, index and statuses agree; cached totals exact between two trades of a sweep; crossed only by amendment; a FOK order filled whole or not at all; observers and snapshots truthful; done is final; the loop implements the atomic price-time priority book, hence no trade outside a limit |
| `risk_manager` | window of 2 units on a clock of 5, 4 approvals, limits {rate 3, rate 1, disabled}, one order per check; 4 fills of quantity 1–3 at prices 1, 2, 5, 1 market update; one half moves while the other rests | no second under limits holds more approvals than allowed; no throttling without cause; realized profit is cash flow; realized plus unrealized is mark to market |
| `simulator` | 2 threads, 3 orders, quantity up to 2, position limit below their sum | the position overshoots by at most one largest order per other thread; fills booked once; counters agree; mutual exclusion (in `TypeOK`); every `submit_order` returns |
| `engine_process` | 2 requests, 2 crashes | answers never mixed up; a running child replaced only with an error; every request answered |
| `backtest` | 4 orders of one lot, prices 1–3, any number of ticks, window of 2, symmetric ids | what rests is tracked; out means out; no backtest trades |
| `engine_session` | 2 symbols, 3 orders to a session and any number of sessions, 4 kinds of orders, a feed of 3 ticks stepped by 1 or 2, logs of 2, a good and a bad `risk_limits` | the logs are the newest part of this session's history; the position stays within the limits that were in force; limits change only by a good `risk_limits`, or at a `reset` after a bad one; prices are the feed's; replies truthful |
| `http_server` | 3 threads, 3 requests of any kinds, ids 1–3, a feed of 2, log of 2 | mutual exclusion; only a reset that overlaps another request frees anything in use or leaves foreign log entries; every tick taken once and in order; limits in force are those agreed; every request answered |
| `journal` | 2 files of up to 2 records, payloads of 1 or 2 cells, up to 4 zeros after a crash | only what was written is read, in order, but for at most one type and the empty records of a zeroed end; every record before the damage is read |
| `position_limit`, `two_engines`, `dangling_orders` | as the run of the same module, with two threads | counterexamples, below |
| `corruption` | 1 file of 1 record, one wrong value | a counterexample, below |

Why the bounds are enough. Three orders are two resting ones and an incoming
one: a sweep over two orders of one level or over two levels, an order behind
another, and a remainder that rests; two prices give a better and a worse
level and one out of reach; quantity 3 gives partial fills twice before the
last. Four fills at prices whose averages are fractions cover open, add, reduce
or flip, and close. A window of 2 on a clock of 5 lets approvals enter, sit
exactly at the edge, and leave. In the simulator one price is enough, because
what is checked is quantities and locks; two threads race in every way three
can pairwise, and the third order is the one they compete for. Two requests
race for the first engine or share one, the second after a timeout of the first whose
stale reader still lives; two crashes let a restarted engine crash
again (for any number of both, see the proofs). In a session three orders are a
resting one and one that trades with it in each of two ways; two symbols tell an
entry, a queue or a price of one from the other's; logs of two and feed steps
across the end of a feed of three overflow at every alignment. Three requests on
three threads are a reset between two steps of another request, a second reset,
and a victim that was queued before. Two records to a file put damage before, in and
after a record, and a second file shows what `open_write` leaves of the first; four zeros are
more than the frame of an empty record, so that one is read and the read goes on.
Four orders in a backtest are two entries of a strategy with rejected ones in
between.
Symmetry is over order ids, which no definition of those two modules distinguishes,
and never used with a liveness property.

### Where the code and its documents differ

Four runs end in a counterexample to something the README says.

* `position_limit`: `|projected_pos| > max_position` is rejected (README:157). `submit_order`
  checks under the risk manager's mutex, and fills and books later under `mtx_`
  without checking again, so two threads' orders each pass against the same
  position and together exceed the limit. `ExposureBounded` says by how much at
  most. One command at a time, as in `engine_cli`, the limit holds
  (`PositionWithinLimits`).
* `two_engines`: "`threading.Lock` (serialized IPC)" (README:285) in front of one engine.
  `_get_engine` tests and sets the global without a lock; two first requests
  create two engines, each with a lock of its own.
* `dangling_orders`: "no dangling pointers after order completion" (README:264). The
  handler of an order takes the id from one simulator and, after a reset, submits it to
  the next one, which gives the same id again: the second order stored under it
  frees the first while the book still points to it.
* `corruption`: "CRC32 per record catches corruption during read-back" (README:274). The
  checksum covers the payload and not the type and size before it. A bad size is found by the
  payload it cuts; a bad type byte is not, and the record is read as another kind of
  event. `ReadIsPrefix` says that this is all that damage can do.

One property of a passing run states what the code does where the README reads
otherwise: `NeverTrades` (next section).

Others were met while modelling and have no run: accounting closes
against a running average, not first-in-first-out (README:162, but 166 gives the
average formula); an engine found dead by the next call is restarted without an error
message (README:408); the reply to an order prints the caller's copy, so it always
shows `PENDING` and nothing filled (README:371 shows `NEW`); the journal is "append-only" (README:172) within one opening only.

### What a backtest can trade

`NeverTrades` says something about the program a reader of
"Quote bid/ask around mid ± spread" (README, strategy table) may not expect. `run` creates
a simulator of its own, whose book only the strategy's orders reach. The market
maker returns early while either side is empty, which is always. Momentum's
MARKET orders find nobody and are cancelled, although it goes on as if it were
long. MeanReversion's orders rest, and it never has a bid and an ask at
once. So every backtest ends with no trade and no profit or loss, for any ticks.

### Fairness

* `ExchangeSimulator`: weak fairness of each thread's own steps (`Proceed`): a
  handler runs to its end once it started, and `std::mutex` does not keep a
  waiter out for ever. Ids are finite in the model, so weak fairness suffices
  for the lock. Nothing obliges a client to submit, cancel or modify.
* `HttpServer`: weak fairness of each thread's steps in a request it has begun
  (`Proceed`). Threads share the simulator's mutex and requests are finite, so weak fairness is
  enough to get it. A run in which freed memory was used is excused from
  answering (`Answered`). Of the order of `mtx_` and `g_log_mtx` it says nothing, since the latter
  is not modelled: callbacks take it under `mtx_`, and nobody who holds it takes another lock.
* `EngineProcess`: weak fairness of each request's thread (`Handle`). `join` has
  a timeout, so a waiting handler can always go on; nothing is asked of the
  engine, of the readers or of a crash.

`OrderBook`, `RateLimiter`, `PositionAccounting`, `Backtest`, `EngineSession` and
`Journal` have safety properties only and no fairness. That the matching loop ends is part of `SubmitReturns`.

## 4. Proofs

`OrderBookProofs` proves, for every set of ids, every set of integer prices and every
positive maximal quantity:

| Theorem | Statement |
|---|---|
| `Invariance` | `Spec => []IInv` |
| `TypeCorrect` | `Spec => []TypeOK` |
| `StatusTruthful` | `Spec => []StatusAgrees` |
| `BookConsistent` | `Spec => []BookWellFormed` |
| `NeverCrossed` | `Spec => []Uncrossed` |
| `DoneStaysDone` | `Spec => DoneIsFinal` |
| `ObserversTold` | `Spec => []ObserversUpToDate` |

Assumptions: `PricesAssumption` and `MaxQtyAssumption` (`Orders`: prices
are integers, the bound is a positive natural) and `NoOrderAssumption`
(the marker for "no call" is not an id). Nothing is assumed finite.

The argument. `BookWellFormed` is not inductive alone. After a fill the level
stays well-formed only because the taker is not itself queued (`IncomingApart`)
and because the loop pops exactly the orders that are filled, which the code
reads off the status (`StatusAgrees`). `Uncrossed` needs `BookWellFormed`: the
order that rests was refused by the best opposite level, and every indexed
order is on some level. So
`IInv == TypeOK /\ StatusAgrees /\ BookWellFormed /\ IncomingApart /\ Uncrossed`
is proved in one induction:

1. data lemmas: `SetLevelReplaces` (what `SetLevel` does to every level), and
   `RemoveAtValue`, `DroppedElements` of `CollectionTheorems` (what removing one element leaves);
2. book lemmas on a book, an order table and an index passed as arguments:
   `DropOne` (an order leaves its level), `AddOne` (joins one), `Retotal` (only
   the total changes), `RemoveOne` (`RemoveFromBook`);
3. one lemma per action: `AddOrderStep`, `FillStep`, `RestStep`, `DiscardStep`,
   `CompleteStep`, `CancelOrderStep`, `ModifyOrderStep`;
4. `InitEstablishes`, then `Invariance`; the other theorems follow from it.
   `ObserversTold` adds that observers are up to date inside a sweep too (`Told`): the two
   orders of a trade are told apart because the taker is not queued.

The first part of `IoProofs` proves about `EngineProcess`, for any finite number of requests and any number of
crashes:

| Theorem | Statement |
|---|---|
| `Invariance` | `Spec => []IInv` |
| `AnswersBelong` | `Spec => []AnswersMatch` |
| `TypeCorrect` | `Spec => []TypeOK` |
| `RestartsAreReported` | `Spec => RestartsReported` |

Assumptions: `RequestsAssumption` and `LinesAssumption` (requests are finite;
the markers for nobody, garbage and end of file are not requests).

The argument. That an answer is the request's own follows from what the pipes can hold:
while an object's lock is free, its running child's pipes are empty, and while `r`
holds it they hold nothing but `r`'s line or the reply to it (`Piped`). This survives a
timeout because the child goes with its pipes, a late reply because only the holder's
own line was ever written, and a stale reader because it can only take a line
away. It needs that a waiting request holds the lock of its own object (`Locked`), that
its reader reads from the child the object has now, and that an object is made by
a request that had none (`Placed`, `Counted`: at most one object per request, so a new
one is nobody's). One lemma per action; the actions that leave `send` share `DoneStep`.

The second part of `IoProofs` is about `Journal`, for any payloads, any number of records and
files, and any place where a file is cut, zeroed or damaged:

| Theorem | Statement |
|---|---|
| `JournalReads` | `JournalSpec => []JInv` |
| `ReadsArePrefix` | `JournalSpec => []ReadIsPrefix` |
| `WholeRecordsReturned` | `JournalSpec => []SoundRecordsReturned` |

Assumptions: `PayloadsAssumption` (a payload has at least one cell, the first is not 0 and
none is another one with its end zeroed: every record begins with an id or a time),
`SizesAssumption`, and `ChecksumAssumption`. The last is an idealisation: a 32-bit checksum
does collide, so what is proved is that nothing *but* a collision breaks the journal. The
run's checksum satisfies all three.

The argument. Both properties speak of the end of a read only; `JInv` says what holds
at each turn. Frames follow each other (`Laid`), and each fault leaves the cells before
`sound` as they were written (`Stored`). What was collected so far is the first `n`
records as written and after them nothing but records read from zeros (`Matched`), and the
read stands at the beginning of frame `n + 1`, or is past `sound` (`Following`). The turn that matters is
the one that verifies a record (`VerifiedTurn`): a frame that is whole verifies, one that
a fault reaches has a payload or a stored checksum that is not what was written, and what
`crc_stored` may hold when it was not read (`Stale`) is the checksum of no such payload.
Only a payload of size 0 verifies against zeros.

`CollectionTheorems` is the induction over finite data that the other proofs cite. The
library's induction theorems take an operator as a parameter, which the provers cannot
instantiate, but that strict inclusion is well-founded on the subsets of a finite set is
a first-order fact (`FS_StrictSubsetOrderingWellFounded`): a set of counterexamples has
a smallest one (`Smallest`). With it the recursion inside `SumFunctionOnSet` unfolds
(`SumRecursive`), and sums can be split, updated, compared, renamed and bounded
(`SumRemove`, `SumUpdate`, `SumMonotone`, `SumRenamed`, `SumBound`), also along a sequence
(`SumSeqAppend`, `SumSeqTail`), finite sets of integers have a least and a greatest element
(`MinMax`), and a finite set with a strict order on it can be listed in that order
(`ListedAll`).

The second part of `OrderBookProofs`, under the same assumptions:

| Theorem | Statement |
|---|---|
| `TotalsInvariance` | `Spec => [](TotalsInv /\ DepthFinite(book))` |
| `TotalsExact` | `Spec => []LevelTotals` |
| `FokStaysCovered` | `Spec => []FokCovered` |
| `FokFilledOrKilled` | `Spec => []FokAllOrNothing` |

The argument. A FOK order is filled because what the pre-check added up stays available
while it is matched (`FokCovered`): each trade takes as much from the totals within the
limit as from the order, and the level it takes from is within the limit because
the best level is, as long as anything within the limit is left. This needs the totals
to be exact in the middle of the sweep (`LevelTotals`), and those need the well-formed
book of `IInv`: an order is counted at one level, once. Sums over levels are
finite because every step adds at most one (`DepthFinite`). The last section of the module
says what a call does to the orders, for proofs about the book's owner (`FillSeen`: one
trade fills two orders on opposite sides by the same quantity).

The third part of `OrderBookProofs`, under the same assumptions:

| Theorem | Statement |
|---|---|
| `NothingUnindexed` | `Spec => []OpenAreIndexed` |
| `SnapshotsOfAnyDepth` | ``Spec => [](Idle => \A s \in Side, depth \in Nat \ {0} : TruthfulTo(s, depth))`` |
| `SnapshotsTrue` | `Spec => []SnapshotTruthful` |

The argument. `BookWellFormed` says that what is queued is open; for a snapshot to leave
nothing out the converse is needed too (`OpenAreIndexed`), and no earlier invariant has it. With
both, the queue of a level is the set of the orders open at its price (`QueuedIsOpen`), so its
length counts them (`QueueCounts`) and its exact total is what they have left. The walk over the
map exists for any finite set of prices, since the number of better prices numbers them one to one, and
meets each price once, best first (`RankedPrices`).

The fourth part of `OrderBookProofs`, for every finite set of ids, under the same assumptions:

| Theorem | Statement |
|---|---|
| `PromisingIsBook` | `PromisingSpec => Spec` |
| `PromiseInvariance` | `PromisingSpec => []PromiseKept` |
| `PriceTimePriorityImplemented` | `PromisingSpec => PriceTimePriorityHolds` |

`PromisingSpec` is `Spec` with the history variable `promised`. That ids are finite is needed because the
abstract book sums over all of them; a run of the program submits finitely many. The
abstract `Add` is the step of `AddOrder`, and the loop has to arrive at what was promised then.
The argument:

1. `PromiseKept`: matching what is left of the incoming order against the book as it is
   leads to what was promised. A trade keeps it (`TradeKeepsOutcome`): the order at the front of
   the best level is the first in priority among all that the incoming order may trade with
   (`BestIsReached`, `FirstInLine`), so it gives all it can; what the others give
   stays the same, since the demand falls by as much as what is ahead of them (`GiftStep`); and
   two fills of the incoming order have the effect of one (`TakeTwice`).
2. When the loop ends, nobody has anything to give (`OverGivesNothing`), so the call returns
   with the abstract outcome (`EndOutcome`). For a FOK order this rests on the pre-check: the exact
   totals it added up are what its counterparties have left (`OfferedIsLeft`), and that it is met stays
   true while it is matched (`Met`).
3. `CancelImplements` and `ModifyImplements`: erasing the element the index points to is erasing
   the first occurrence, because queues hold no id twice (`FirstErased`).
4. `StepImplements`: every step is a step of the abstract book or leaves it alone.

`RiskManagerProofs`, for every window, clock and set of limits, and for the accounts of any
sequence of fills:

| Theorem | Statement |
|---|---|
| `RateInvariance` | `Spec => []RInv` |
| `RateStaysBounded` | `Spec => []RateBounded` |
| `ThrottledForCause` | `Spec => NoFalseThrottle` |
| `AccountsInvariance` | `AccountsSpec => []AInv` |
| `ProfitIsCashFlow` | `AccountsSpec => []RealizedIsCashFlow` |
| `ProfitIsMarkToMarket` | `AccountsSpec => []PnlIsMarkToMarket` |

The rate window. Assumptions: `SecondAssumption`, `LimitChoicesAssumption`, `BoundsAssumption` (a second is a positive
number of units, limits have their type, the bounds are naturals). The argument. The deque is always the
end of the history of approvals (pruning drops a prefix, approval appends), and nothing
younger than a second is missing from it, whether or not limits were enabled meanwhile
(`RInv`). So what the size test counts is at least what the last second holds, and after
pruning exactly that.

The accounts. Assumption: `FillsAssumption` (prices and quantities of fills are positive); any
number of fills is covered. The argument. A fraction is worth
`n / d` (`Worth`), and because denominators are least, fractions worth the same are the same
record (`SameFraction`): this is what lets the two properties, which are equalities of
records, follow from equations of integers. `AInv` has the books balance over the denominator of the
average price: realized profit is cash flow plus the position at its average cost (`Balanced`), and what is
unrealized values the position at the last mark (`ValuedAt`). Each case of `on_fill` (add, reduce or close,
turn over) keeps that by an identity of integers (`IncreaseAlgebra`, `ReduceAlgebra`), after what was
balanced over the old denominator is carried over to the new one (`Carried`). A flat
position has average 0, so nothing is left to carry.

`HttpServerProofs`, for any set of threads, feed, limits and number of requests:

| Theorem | Statement |
|---|---|
| `HandlersInvariance` | `Spec => []HInv` |
| `TypeCorrect` | `Spec => []TypeOK` |
| `UnsafeOnlyByReset` | `Spec => []OnlyResetIsUnsafe` |
| `TicksTakenOnce` | `Spec => []FeedTakenOnce` |
| `LimitsStayInForce` | `Spec => []LimitsInForce` |

Assumptions: `FeedAssumption`, `IdsAssumption`, `LimitsAssumption`, `BoundsAssumption`, `NobodyAssumption`
(the feed is not empty, ids are naturals, the limits agree with what the requests
hold, the marker for no thread is no thread). `ResetOverlapped` excuses
what follows when a reset ran next to another request: pointers to a simulator that was
replaced, ids from the old one, entries of the old one in the log. So `OnlyResetIsUnsafe`
and `LimitsInForce` say that an overlapping reset (for the limits, also a second change of them)
is the only thing that does harm, and not how much. The run `http_server` goes through such overlaps;
`dangling_orders` is one of them. The argument. `HInv` says at each place of a
handler what the code after it relies on: a thread inside a simulator holds its mutex,
a pointer was that of a simulator made before, an id taken is below the next one and
nobody else has it. While no reset overlapped another request, every pointer loaded is the current
one and alive, so an id that is new there is new in its store, and nothing queued is replaced
by it.

`ExchangeSimulatorProofs`, for any finite number of threads and ids, any prices,
quantities and limits:

| Theorem | Statement |
|---|---|
| `BookSpec` | ``Spec => BP!Spec /\ []Calls`` (`BP!Spec` is `OrderBook`'s `Spec`) |
| `BookInvariance` | `Spec => [](BP!IInv /\ BP!LevelTotals)` |
| `ServedInvariance` | `Spec => []SInv` |
| `TypeCorrect` | `Spec => []TypeOK` |
| `BookingExact` | `Spec => []FillsBookedOnce` |
| `ExposureStaysBounded` | `Spec => []ExposureBounded`, if there is a client and `max_position` and `max_order_qty` are not negative |
| `NothingIsLost` | `Spec => []NothingLost` |

Assumptions: those of `Orders`, `ClientsAssumption`, `IdsAssumption`, `NoOrderAssumption`,
`RiskLimitsAssumption` (clients and ids are finite, ids are 1, 2, ...; the markers are
none of them; limits have their type and are enabled). With a negative limit every order is
rejected, and the bound of `ExposureBounded` may be below the exposure 0 of the start: hence
its conditions. The argument:

1. What a step does to the book is a step of `OrderBook` or none, because only
   approved orders reach it (`Calls`, `ApprovedPasses`). So the simulator implements
   the book's specification (`BookSpec`), and every theorem about `OrderBook` holds here.
2. `Served`: between `Enter` and `Return` the trades so far are fills of the holder's order
   and add up to its `filled_qty`; between `Return` and `Answer` the unbooked ones are. With
   it `FillsBookedOnce` is kept: a trade adds to the pending fills what it adds to the
   flow, and `on_fill` moves the same amount, on the side of the incoming order since it is
   the taker and not the maker (`RightSide`).
3. `ExposureBounded` is kept by every step but an approval, since a fill only moves
   from `Outstanding` to the position (`ExposedFalls`, `ExposedMoves`). At an approval the
   position check bounds the position and this order, and each other thread has at most one
   order under way, none larger than `max_order_qty` (`ExposedAtEntry`).
4. `NothingLost`: ids are handed out once, so an order waits for `mtx_` under an id whose
   order is not stored yet (`Numbered`); and each trade fills one order on either side
   (`TradeBalanced`).

`BacktestProofs`, for any finite set of ids, any prices, any lot, any window and any
sequence of ticks:

| Theorem | Statement |
|---|---|
| `Invariance` | `Spec => []BInv` |
| `TypeCorrect` | `Spec => []TypeOK` |
| `NobodyTrades` | `Spec => []NeverTrades` |
| `EverythingTracked` | `Spec => []LiveCoversBook` |
| `NothingLeftBehind` | `Spec => []OutMeansOut` |

Assumptions: those of `Orders`, `QtyAssumption`, `IdsAssumption`, `WindowAssumption` (the lot is
within the bound, the marker is no id, ids are finite, the window is positive). The argument. None of the
properties is inductive: that nobody trades depends on what is in the book when an order
comes, which depends on which strategy put it there. `BInv` says it all: the book is empty, or it is
MeanReversion's and holds one order, which is tracked (`OneAtMost`). The market maker quotes
nothing in a book with an empty side (`NothingQuoted`); Momentum's orders are MARKET orders and never
rest; MeanReversion enters only when it is out, and goes out by a `CANCEL_ALL` that
empties the book before the next tick is looked at (`SignalsFit`). So each order meets an empty book
and finds nobody (`MatchedAlone`), and an order that rests is the only one (`AloneResting`).
One lemma per action: `TickStep`, `SubmitStep`, `WithdrawStep`.

`EngineSessionProofs`, for any symbols, requests, feed, limits, sizes of the logs and any finite
number of ids:

| Theorem | Statement |
|---|---|
| `Invariance` | `Spec => []IInv` |
| `LogsEndHistory` | `Spec => []LogsAreRecent` |
| `LimitsAreExplained` | `Spec => []LimitsExplained` |
| `RepliesAreTrue` | `Spec => []RepliesTruthful` |
| `PositionsStayWithin` | `Spec => []PositionWithinLimits`, if no `max_position` is negative (`NoNegativeLimit`) |
| `PricesAreNewest` | `Spec => []MarksFollowFeed` |

Assumptions: those of `Orders`, `IdsAssumption` (ids are 1, 2, ...), `SymbolsAssumption`, `InputsAssumption`
(a request has a side, a type, a price of the book or none, and any quantity: the risk checks
turn down what is not positive), `FeedAssumption` (the feed is not empty and is about listed
symbols), `LimitsAssumption` (a field of `risk_limits` is an integer or does not parse). The code takes
a negative `max_position` from a client; then a session that starts with it is
out of its limits while it holds nothing, hence the condition of `PositionsStayWithin`. The
argument:

1. What matching gives. No order rests twice in a book (`Lined`), so priority is a strict order of those
   that an order meets (`Served`). In that order each gives all it has until the demand is
   met (`GivenInTurn`), so together they give no more than was asked for (`TotalBounds`), those that are filled are at
   the heads of their queues, and the book is lined up again afterwards (`LinedAfter`).
2. `IInv == Types /\ Books /\ Logs`. `Books`: an id rests in one place of one symbol, and no id that
   is still to come does (`Apart`), which is what lets an order in one symbol leave the others' orders
   alone although they share the table (`OthersStay`). `Logs`: the trade log is numbered to its end, symbol by
   symbol (`Numbered`), and the newest entry of an order is that order (`Tells`). A call keeps
   `Numbered` because its trades are numbered on from the last (`TradesValue`, `NumberedAfter`) and a cut only takes what is
   oldest (`NumberedEnd`); it keeps `Tells` because each order it changes is told of at
   its last change: a maker once, the new order after its last trade or when what is left is dropped
   (`Reported`, `UpdatesValue`).
3. `LogsEndHistory` is `Logs`; `RepliesAreTrue` needs that the trades of a reply add up to the fill
   (`AcceptTrades`), and that a cancelled order was in one place only (`CancelledGone`).
4. `PositionsStayWithin` adds `Held`: both copies of the limits count, since a `reset` puts
   `g_limits` in force. An order was checked as if it filled whole, it trades no more than that, and a
   resting order that it meets changes no position.
5. `PricesAreNewest`: a turn is a lap and a tick (`TurnTick`). If a symbol has a tick among
   those a step takes, the newest is in the last lap or, if the last lap has not come
   to one yet, in the one before (`NewestTick`).

Only model-checked:

* `SubmitReturns` and both `Answered`: liveness under fairness is outside the prover.

## 5. Not modelled, and why

* Rounding of doubles, widths of integers: quantities and prices stay far from
  their types' ends in every caller; the accounting is about exact identities.
* Timestamps, latency samples, trade ids inside `OrderBook`, log lines, JSON text: no
  property is about them. `EngineSession` has the trade ids of its logs.
* Several symbols in `ExchangeSimulator`: what they share is the mutex, the counters and the
  rate window. `EngineSession` has two, with their ids, limits and counters shared.
* Data races as such. `set_limits`, `g_sim` and the callbacks are written without a lock;
  a load gives the old or the new value, and a copy is one step, so a torn `RiskLimits`
  and a `std::function` replaced while it runs are not covered.
* What a program does after it used freed memory (`wild`).
* A callback that re-enters the book: no program registers one.
* Memory that only grows (`order_store_`, latency samples).
* A journal in use: `Backtester::run` ignores its parameter `enable_journal`, and no
  program opens a journal; `Journal` shows what the class itself promises.
* `MarketDataParser` (random ticks and CSV), `Serializer` (string formatting), the
  frontend, the tests, the benchmark and the build: no state or protocol of their own.
* Commands that only print, static pages and the CORS headers.

## 6. Plan

1. *Done*: `OrderBook`, its abstract specification, refinement and proofs;
   `RateLimiter`; `PositionAccounting`; `ExchangeSimulator`; `EngineProcess` and its proofs;
   `Backtest`; `EngineSession`; `HttpServer`; `Journal`.
2. *Done*: proofs of the safety of `OrderBook`, `RateLimiter`, `PositionAccounting`,
   `ExchangeSimulator`, `Backtest`, `HttpServer`, `EngineProcess`, `Journal` and `EngineSession`.
3. *Done*: the proof that `OrderBook` implements `PriceTimePriority`.
4. Open: `EngineSession` takes the outcome of matching from `Matching` and does not
   instantiate `OrderBook`, so that each session step implements a whole call of the
   loop is an argument (the theorem above, once per symbol) and not a theorem; a torn copy of
   `RiskLimits`, and several symbols under concurrent clients.
