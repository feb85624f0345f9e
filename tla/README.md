# TradingEcosystem in TLA+

A verification development for the exchange of TradingEcosystem: TLA+ modules that
follow its C++ code, TLC configurations that check them on small instances, and
proofs, checked by TLAPS, that hold for every value of the constants. Paths below are
relative to the repository; `src/exchange/...` is its source directory. The repository
has no tests and one document, `README.md`, which is quoted where a property states what
it says.

To run: `tlc -config MCOrderBook.cfg MCOrderBook.tla` (any `.cfg` with its module, see
[Runs](#3-runs)) and `tlapm OrderBookProofs.tla`. `PROJECT.json` lists the components,
the runs, the lines of code behind every definition, a mutant for every property, the
findings, the hazards and the theorems.

## 1. Inventory

### How the parts interact

    clients --TCP--> TCPServer/TCPSocket --> OrderServer --> FIFOSequencer
                                                                 |  LFQueue<MEClientRequest>
                                                                 v
    clients <--TCP-- OrderServer <--LFQueue<MEClientResponse>-- MatchingEngine
                                                                 |  one MEOrderBook per ticker,
                                                                 |  MemPools for orders and levels
                                                                 v
                                       LFQueue<MEMarketUpdate> --> (market data publisher)

The order server and the matching engine are threads that spin; they share nothing but
the three queues. Each has a `Logger`, with a queue and a flush thread of its own, and
`main()` has another. At this commit the program does not build as a whole
(`market_data_publisher.h` includes a header that does not exist), and `main()` creates a
`Logger` and a `MatchingEngine` only: the order server is there as a class, and nothing
is connected to the engine's queues. Two compositions are therefore modelled: the process
as `main()` builds it and as Ctrl-C takes it down (`Shutdown`), and the exchange the
classes make when they are connected as their constructors say (`Exchange`).

### Components

| Component | State | Operations | What is hard | What makes it correct |
|---|---|---|---|---|
| `MEOrderBook` | pool of orders, pool and map of price levels, ring of levels per side, ring of orders per level, client map, next market order id | `add`, `cancel`, `match`, the helpers that link and unlink, the destructor | pointers of two intrusive rings, pooled blocks used again, an index that several prices share, messages that must mirror every change, a search loop over a ring | pool, levels and map agree; price-time priority; quantities add up; the messages tell the whole story; every request ends |
| `LFQueue` | array, two indices, a count (atomics) | write, publish, read, advance, `size` | the order of four separate accesses of two threads; no test for room, so that a full ring is overrun | elements whole, once, in order until then; the ASSERT; `size()` exact when idle |
| `MemPool` | blocks, a flag each, the index of the next free one | `allocate`, `deallocate` | the scan for the next free block, which runs inside the previous allocation | no block given to two callers; the flags; the scan ends |
| `FIFOSequencer` | pending requests, their number | `addClientRequest`, `sequenceAndPublish` | an unstable sort, a limit | order of a client's own requests; who may overtake whom |
| `OrderServer`, `TCPServer`, `TCPSocket` | sockets, buffers, client to socket, numbers expected and sent | `poll`, `sendAndRecv`, callbacks, the response loop | requests cut at any byte, arrivals between two socket visits, out-of-sequence requests, sends that stop inside a response, answers two threads later | framing; exactly once in sequence; responses in order and numbered; nothing left lying |
| `MatchingEngine` | eight books, three queues | `run`, `processClientRequest`, two senders, the destructor | the reader that does not ask `size()`; answers that cross the next request; the destructor that does not join | one consistent story per order; every request answered |
| `Logger` | a queue, a file, a flush thread | `log`, `pushValue`, `flushQueue`, destructor | argument count known at run time only, drain at destruction that can starve, one writer per queue | everything logged is written; the drain ends while somebody reads |
| Lifecycle, `main` | `run_` flags, threads, globals | `main`, `start`, destructors, `signal_handler` | synchronises by sleeping; deletes what a thread may use; a handler that interrupts anything | nothing used after it is gone; Ctrl-C ends the process; the log survives it |
| Market data publisher | members only | none | nothing exists yet | - |
| `McastSocket`, socket, time, type and macro utilities | little or none | I/O, conversions | - | - |

`PROJECT.json` gives the status of each. What can go wrong and a test would hardly reach
is listed there under `hazards`, each at its line with the properties that look for it.

## 2. Modules

| Module | Models | Notes |
|---|---|---|
| `OrderBook` | `me_order_book.h/.cpp`, `me_order.h` | the detailed book |
| `PriceTimeBook` | - | abstract: what a limit order book promises |
| `BookFeeds` | readers of responses and updates | composes the book with a subscriber and the clients' accounts |
| `OrderBookProofs`, `PriceTimeProofs` | - | theorems about `OrderBook`: its structure, what the destructor prints; the search and price-time priority |
| `FeedsProofs` | - | theorems about `BookFeeds`: the messages tell the whole story |
| `LFQueue`, `LFQueueProofs` | `lock_free_queue.h` with its two kinds of reader | theorems in the second |
| `MemPool`, `MemPoolProofs` | `mem_pool.h` | theorems in the second |
| `BlockPool` | - | abstract: what `MemPool` promises, and what `OrderBook` counts with |
| `FIFOSequencer` | `fifo_sequencer.h` | actions used by `OrderServer` |
| `OrderServer`, `OrderServerProofs` | `order_server.h/.cpp`, `tcp_server.h`, `tcp_socket.h` as its thread runs them | clients, network and engine are the environment; theorems in the second |
| `Logger` | `logging.h` | extends `LFQueue`, whose writer and reader its threads are |
| `Shutdown`, `ShutdownProofs` | `main.cpp`, `matching_engine.h/.cpp`, `thread_utils.h` | the process, composed with `Logger`; theorems in the second |
| `Exchange`, `ExchangeProofs` | `matching_engine.h` | composes `OrderServer`, the engine's thread and `OrderBook`; theorems in the second, which uses those about both |
| `MC*` | - | values of constants and symmetries for TLC |

`Shutdown` extends `Logger` extends `LFQueue`; `Exchange` extends `OrderServer` extends
`FIFOSequencer`, and instantiates `OrderBook`; `BookFeeds` extends `OrderBook`, which
instantiates `PriceTimeBook`; `MemPool` instantiates `BlockPool`.

### OrderBook

An order is its market order id, a level is the price of the order it was made for.
`LevelAt(p)` is the level `getOrdersAtPrice(p)` finds, by `p % LevelPool` and nothing else:
limits of one side that share an index share a level, as they do in the code (256 apart there).
`order_pool_[m]` is the block in use for order `m` or `Null`. The ring of orders of a level is the
sequence `orders_at_price[p]`, which starts at `first_me_order_`; the ring of levels keeps
its pointers (`prev_entry_`, `next_entry_`, `asks_at_price_`, `bids_at_price_`), because its
faults are in the pointers.

`add()` is two loops, so it is several steps. `job` holds its local variables between
them: `Accept` is its head; `match` is one iteration of `checkForMatch()` with the whole
of `MEOrderBook::match()`, including the removal of the filled order; then `Complete`, or
one of `RestAtLevel`, `RestAtNewLevel`, `SearchLevel`/`SearchNext`/`LinkFound` (the search
of `addOrdersAtPrice()`), or `Crash`: a null target, or a pool that hands out its last
block. `Cancel` and `CancelReject` are `cancel()`; `Destroy` is the destructor with the
`toString()` it logs, which reads the ring and may meet its open end, and `Close` what is
left of a book. Calls do not overlap, as the engine's thread makes them one by one:
`Accept`, the cancels and `Destroy` need `job = Null`. `resp` and `upd` are what the last
step wrote to the two outgoing queues.

Two expressions are modelled as C++ reads them, not as they look:
`side == BUY ? bids_at_price_ : asks_at_price_ = v` assigns only in the second branch
(`SetBest`), and a level linked last keeps the null `next_entry_` it was allocated with
(`LinkLast`). A level's pointers after it is given back are never read; the model sets
them to `Null`, which is also what the next allocation does.

`Sides` is what orders may carry. Nothing in the code rejects `Side::INVALID`: such an order is
matched with nothing, and to `addOrdersAtPrice()` its level is an ask level (every `side == BUY ? :`
takes its second branch) that is neither better nor worse than another, so that it goes before
the best one without becoming the best. `Sides` includes `"INVALID"` in `exchange`.

`AsksLinked` says that what matching looks at is all there is: every resting SELL order is in the level
of its own price, and that level can be reached from `asks_at_price_` (`AskRing`).
`PriceTimeWhileLinked` says that every step from such a state is one of `PriceTimeBook`. The
code loses asks in two ways, by a level that both sides use (`shared_level`) and by an index that two prices
use (`price_collision`).

Abstracted: tickers (one book) and the text `toString()` makes. Client and order ids are
within the arrays. `SidesCollideAtOnePriceOnly`: a BUY and a SELL limit that share an index
are the same price (see [Not modelled](#6-not-modelled)). `PricesAreFinite`: a `Price` is
an `int64_t`.

### BookFeeds

Adds two observers that see `resp` and `upd` only: a market data subscriber who rebuilds
the book from the updates (`mirror`, `traded`), and the clients, who keep an account of
every order from the responses (`account`). They are not code of the repository; they
give the messages a meaning to be wrong about. A step of the book writes two messages
to a queue at most, and the readers take both in one step.

### LFQueue

`BeginAssign`, `EndAssign`, `Publish`, `CountWritten` are the writer: the element is not
atomic, so its assignment has two ends, and `updateWriteIndex()` is two atomic accesses.
`getNextToRead`, `size`, `Use`, `Advance`, `CountRead` are the reader.
`ChecksSize` chooses between `OrderServer::run()` and `Logger::flushQueue()`, which ask
for `size()` first, and `MatchingEngine::run()`, which does not. No writer of the program
asks for room, and `BeginAssign` does not either: a ring that is full is overrun. `overrun` remembers that the
write index has caught up with the read index; from then on the queue looks empty and elements that wait
are assigned again. `InOrder` holds until then, the ASSERT and `SizeCounts` always. Memory is
sequentially consistent: the code uses the default order of `std::atomic`.

### MemPool and BlockPool

`allocate`, then one `ScanOn` or `ScanEnds` per turn of `updateNextFreeIndex()`,
`deallocate`. `held` is what callers have and have not given back; they return only what
they hold, as the order book does. `BlockPool` hides the scan: a block goes to one caller
at a time and the process ends with the last block, before its caller gets it. That is
what `OrderPoolFull` and `LevelPoolFull` of `OrderBook` count.

### FIFOSequencer and OrderServer

One step per accepted batch of connections (`poll`), per socket read (`Receive`), per
request in the buffer (`RecvRequest`), the end of a callback (`RecvRemainder`), per socket
flushed (`SendBuffered`), per pass (`RecvFinished`), per response (`Respond`). Between any
two of them clients connect, send any request on any connection (`Send`), parts of
requests arrive (`Arrive`), and the engine works: it begins with a request and answers its client,
or ends the process there (`Begin`), and goes on with that request (`GoOn`) without a word, with a
fill that its client and one it has heard of before are told of, or by ending the process. These
are the steps of the book as the server can see them; `ImplementsOrderServer` says that the book takes no
others.

A request is `Parts` parts; `inbound_data_` holds the numbers of the stream's parts, so
that a lost, repeated or shifted byte shows. A connection is in order, as TCP is; what may
vary is when its parts arrive. `Sort` is the set of orders `std::sort` may leave: by time,
and keeping the order of equal times only up to `SortLimit` elements, which stands for the
16 of libstdc++ below which its introsort is one insertion sort. `rx_time` is the time of
the last part that `recvmsg()` returned.

A response is `Parts` parts as well. `Taken` lets `::send()` take any number of the buffer's parts, from
nothing on (`SendsAll` says that it takes all), and the code empties the buffer in every case
(`SendBuffered`). `received` is what the client makes of its stream, `Parts` parts at a time, and `cut` is how
many parts of the next frame it has: after a `::send()` that stopped inside a response the frames are
`Garbled`, each from the parts of two, until later cuts happen to add up to a whole frame.

`LogBanner` is the first line of `run()`, with the argument count `BannerArgs`: it is 4 in
the code, which ends the process there (`logging.h:190`). The runs set it to 5 to look at the rest.

Abstracted: `epoll` (a connection that waits is accepted by the next `poll()`; the visit
of every socket does not depend on `epoll`), closing of connections (changes no
state of the server), the 64 MiB limits of the buffers.

### Logger

`log()` is modelled as far as its arguments are counted (`LogBanner`); what it cuts a line
into are elements of the queue. `pushValue` is the writer of `LFQueue`, `StreamElement` its
reader, which asks for `size()`; `CheckRunning`, `EndLoop` and `Flush` are the loops of
`flushQueue()` around it. The destructor is `DestroyLogger`, `Drain` (waits until `size()` is
0, then clears `running_`) and `Join` (joins, then closes the file). How far a call of it has come is
kept by its caller, as two may be under way. `disk` is how
much of `file_` is certain to be on disk; the stream may be ahead of it.

### Shutdown

The process of `main()`: `NewLogger`, `Log` and `NewEngine` are the main thread, `Flusher`
and `Engine` the two it creates, `signal_handler(t)` the handler on the thread `t` it interrupts.
The record `p` holds where each of them is and the objects they share through pointers; the
queue and the logger of `main()` are the variables of `Logger`. The program synchronises by
sleeping, so a sleep may end at any time here, and `p.late` remembers that one did before
the other thread had done what the sleeper counts on. `Interrupt` is Ctrl-C, twice at
most: on the main thread wherever it is, then, as this one blocks the signal in the handler, on
another. A second handler that finds the logger not yet deleted enters `~Logger()` as well
(`DeleteLogger`): it waits in the drain, and only behind that does it join a thread that is being
joined, or itself. The drain has no end of its own: `DrainStarved` names the states in which elements are counted
that nobody will read, because the flush thread is in the handler or because the ring was overrun and
its indices are equal. Ends of the process are values of `p.status`: `exited`; `dangling` (a new thread
reads arguments of a function that has returned), `segv` (a nulled queue), `use_after_free`,
`double_delete`, `joins_itself`; and `stuck`, when the handler frees memory on a thread that was
interrupted inside the allocator.

### Exchange

The order server with the engine it is written for. `TakeRequest` is an iteration of
`MatchingEngine::run()` with `processClientRequest()`: the next element of `incoming`
becomes a step of the book (`Book == INSTANCE OrderBook`), or the end of the process when its type is neither
NEW nor CANCEL (`InvalidType`); `Book!Step` is each further step of
its call, and `sendClientResponse` puts what the step answered into the server's queue, which is
a `Process` of `OrderServer`, and at the end of `written`, what each client has been
written. A message of the server names its response by client and number; `Body` finds it in
`written`.
Both threads are one process: they share `status`. In place of the environment of
`OrderServer`, which sends anything, clients send what their `script` says, numbered as the
protocol wants, on a connection of their own, and may stop at any time; they use an order id
once and cancel only what they have ordered (`Sensible`). The queues are
sequences; that `LFQueue` makes them so until it is overrun is what its theorems say (256 * 1024 elements
wait then). Nobody
reads the market updates, as no publisher exists.

## 3. Runs

Bounds are constants of the modules and named there. "Pass" runs cover every action of
their modules between them.

| Run | Instance | Shows |
|---|---|---|
| `order_book` | 1 client, 4 ids, SELL at 11, 13, 15, 17, BUY at 12, 14, quantities 1 and 2, 4 orders, 5 blocks for orders | types; pool, levels and client map agree; priority in a level; a resting order can be cancelled; the ring of ask levels and the search in it; the destructor never finds levels out of order |
| `book_feeds` | 3 indices; SELL at 11, 12, 14, BUY at 12, 13; ids used again, pools of 3 levels and 4 orders | with both sides in one level, BUY limits equal to asks, and two SELL limits (11, 14) on one index, a subscriber's copy and the clients' accounts agree with the book; every trade published once and filled twice; while every resting SELL is linked, fills, rests and cancels are those of `PriceTimeBook` |
| `mem_pool` | 5 blocks | flags, end of the scan, refinement of `BlockPool` |
| `order_server` | 2 clients, 2 connections, 3 requests of two parts, responses of two parts, 2 times, 2 pending, batches stable up to 1, sends that stop anywhere | framing, exactly once, what changes places on the way to the engine, socket for every answer, responses in order and whole but for what a short `::send()` costs |
| `shutdown` | 3 slots, 4 elements, two Ctrl-C | the queue of a logger, overrun or not; what is logged reaches the disk; the handler ends the process with the whole log on disk, or its drain starves; freed memory is used only when a sleep was too short |
| `exchange` | a seller and a buyer, up to 3 requests each, 6 scripts, among them a side and a type that are INVALID | what a client hears of an order is one story and the book agrees with it; every request is answered |
| `shared_level`, `price_collision`, `ring_closed`, `lf_queue_assert`, `batch_fifo`, `queue_full` | small | the [findings](#5-findings) |

### Why the bounds are enough

- **Prices.** The book only compares prices, and takes them modulo the number of indices.
  Interleaved limits give an order of either side every position relative to the levels.
  Four ask levels in one ring have a best, a worst and two in the middle, so that a removal
  and an insertion have both neighbours distinct from each other and from the ends.
- **Orders.** Four orders are enough for a queue of three in one level with a removal from the
  middle, a fill of two and a rest, or for a ring of four levels.
- **Two sides at one level** are excluded from `order_book`, as the ring
  invariants do not hold then (`OneSided` states the regime), and are the subject of
  `book_feeds`, as are limits that share an index. There the limit 12 is used by both sides and a BUY at 12
  meets a SELL at 12, which is where `>=` and `>` differ. Both together need five orders to go wrong,
  one more than `book_feeds` accepts, and are outside `LimitsApart` (see [Proofs](#4-proofs)).
- **Pools.** 256 levels and 1024 * 1024 orders cannot be reached in a run; `book_feeds` has pools small
  enough to run out, by either pool. `MemPool` is checked with 5 blocks and proved for all.
- **Queue.** In `shutdown` four elements go round three slots, in order or overrunning them: `main()` can log three
  while the flush thread sleeps, and a fourth over the first. The proofs remove both bounds. `ReadInOrder` and
  `SizeIsExact` hold for either reader; of the engine's only the ASSERT fails (`lf_queue_assert`).
- **Ctrl-C.** The first reaches the main thread at each of its steps; the second is on the
  flush thread or the engine's, and shows what two handlers do to each other. A third could
  only go to the one thread that is left.
- **Order server.** Two parts are enough for a request to be cut; three requests allow two of
  one client and an interloper, or a repeated or skipped number; two pending requests
  reach the limit of 1024 with the third. `MaxTime` 1 makes times equal or different.
  `TimesOrAnswers`, a state constraint, keeps times apart from answers: a behaviour in which a request arrives later
  than another is followed until the engine answers. What times do is decided when the requests reach
  the engine's queue, and no time is looked at on the way back.
  `AnswerNumbers` bounds fills only, at two responses to a client. `EngineEnds` is empty there, so that the
  properties are asked of a server that goes on; in `exchange` the engine may end the process as
  the book does, and in the proofs as well.
- **Exchange.** `MaxTime` 0 gives all requests one time: a pass is published as it was read, and the order
  in which two clients' requests reach the engine is decided by when they arrive and which socket is
  visited first; what different times do is the subject of `order_server`. `MaxRequests` 4
  is the longest pair of scripts; no other bound cuts a behaviour off.
- **Scripts.** A cancel against a BUY of less, all and more than the order it cancels,
  in every interleaving of the two connections, and a book that gets a level before and a
  level beyond the first while it is matched; an order of side INVALID that is cancelled while a BUY passes
  it; a request of type INVALID behind an order that trades. The pieces are checked on all inputs in their own runs.
- **Sort.** `order_server` and `batch_fifo` set the threshold to 1 instead of making a batch of 17, so that
  every batch of two is a long one. `SwapsAreAtOnce` is proved for any threshold, and so is what holds of passes
  that stay below it.

Deadlock is not checked: the clients may fall silent, every process may die, and the
request bounds stop the environment.

### Fairness

- `Shutdown`: weak fairness of the main thread, of the flush thread, of the engine's and of the
  handler on each thread: they are scheduled and their sleeps end. None of `Interrupt`.
- `Exchange`: weak fairness of the server's thread and of the engine's, which spin, and of
  delivery: the network brings what was sent. Clients need not connect or send anything.
- `MemPool`: weak fairness of the scan, a loop of the caller. None of `allocate` or `deallocate`.
- `OrderBook` (`FairSpec`, in `price_collision`): weak fairness of `Step`, the rest of a call in
  progress, which the engine's thread runs without waiting for anything.
- The other specifications state safety only.

## 4. Proofs

`tlapm` proves every obligation of the eight proof modules; nothing is assumed but the
named ASSUMEs of the modules, which TLC evaluates in the runs, and what a theorem states.

**OrderBook** (`OrderBookProofs`, `PriceTimeProofs`), for all clients, ids, prices, quantities,
pool sizes and numbers of orders. What the orders of the clients have to be like is stated in
four forms: `SidesKnown` (no order carries INVALID), `OneSided` (no index is used by both sides),
`SellsApart` (no two SELL limits use one index) and `LimitsApart`, which is the first with either of the others. Without it `IInv` does not hold: with
three indices let SELL 12 and SELL 11 rest and SELL 14 join the level of the 11; cancel the 11,
so that a level sorted as an 11 holds a 14. BUY 12 meets that level first, finds no match and
rests behind SELL 12. Take out SELL 14, then SELL 12, then BUY 12: `removeOrdersAtPrice()`
is told that a BUY order left last, assigns nothing, and `asks_at_price_` keeps pointing at a freed
level, which the next BUY order is matched against.

- Under `LimitsApart`: `TypeCorrect`, `PoolAndLevelsAgree`, `CancelFindsItsOrder`, `TimePriority`,
  `RestingCanBeCancelled` and `NoFatalWhenDestroyed`.
- The first three are proved together. `LevelsAndOrdersAgree` is not inductive: a level is
  emptied or filled by way of the ring pointers, and following a pointer keeps its type
  only if the ring is intact. `IInv` adds `Linked` (pointers stay among the levels in use,
  `prev_entry_` is injective and the inverse of `next_entry_` wherever this is not null),
  `JobOK` (what the search knows about where it stands), `FreshIds`, `SidesApart`, and
  `RingInv`: some set `R` of levels is the ring of `asks_at_price_` (`Ring`), it is `Sorted` by
  `prev_entry_`, only SELL orders rest in it (`SellsOnly`), and the search has
  passed better levels only (`SearchIn`). The set is there because levels that BUY orders
  made are rings of their own, which SELL orders may join and leave last; then
  `asks_at_price_` is nulled by a level it did not lead to, and the ring is lost (it stays
  `Linked`). With `OneSided` the ring is all ask levels. `SellsOnly` is why nothing dangles: a BUY
  order rests when it is worse than every order of the ring
  (`BuyRestsOutsideTheRing`), and so at no level of the ring, as its price is that of the level (`SellsApart`)
  or its index is not used by the other side (`OneSided`).
- `RemoveLevelKeeps...`, `LinkAloneKeeps...`, `LinkBeforeKeeps...` and `LinkLastKeeps...` are the
  lemmas about the pointer assignments, for `Linked`, for `Sorted` and for `Ring`;
  `UnlinkKeepsOthers`, `UnlinkKeepsOrder` those
  about the queue of a level; `RemoveOrderKeepsBook` and `RestKeepsBook` combine them; one
  lemma per action does the rest.
- `TimePriority` needs also that a queue holds nothing newer than the last order accepted.
- `RestingCanBeCancelled`, for clients that do not use the id of a resting order again
  (`ReuseIds = FALSE`), needs also that the id of the order being added is free in the map
  until it rests (`IdIsFree`).
- `NoFatalWhenDestroyed`: the destructor finds the levels in order, so `toString()` does not call
  `FATAL`. What it has printed after k levels is a recursive function; the number of levels is
  bounded by a path through a finite set (`PathExists`, `Ascent`, by well-founded induction
  over the numbers, which needs no operator as a parameter), and every level printed is in `R` and
  worse than the one before (`PrintedIsSorted`).
- Under `OneSided` and `SidesKnown`: `RingIsSorted` and `SearchFindsThePlace`, the invariants `RingOK` and `SearchOK` of the
  run, as `R` is then the set of all ask levels (`AsksAreTheRing`).
- `PriceTimePriority`: under `LimitsApart`, which admits limits that both sides use, every step from a state
  in which `AsksLinked` holds is a step of `PriceTimeBook` with `Matched = {"BUY"}` or a stutter
  (`PriceTimeWhileLinked`, an action property). The state before the step is what counts: a book that has lost an
  ask may pass it by, and no other. `LinkedBookKeepsPriceTime` draws the conclusion for a book that loses none:
  it implements `PriceTimeBook`. `AsksStayLinked` says for which clients that is every book: no index is shared by
  two limits (`OneSided` and `SellsApart`); `price_collision` and `shared_level` show that both are needed.
  A step of `match()` is a `Trade`: `Sorted` makes the best level the lowest price
  of all resting orders, `PriorityOrder` its first order the oldest. The three ways of
  resting are `Rest`: an order that is not marketable crosses nothing (`RestsCrossingNothing`).
  The steps of the search, and those that end the process, are stutters. The proof also shows
  that `match()` itself never meets the open end of the ring (`BestOrderIsFirst`): a
  `cancel()` can, and the search.

**BookFeeds** (`FeedsProofs`), on top of `IInv` and so under `LimitsApart`, which admits both
sides in one level and SELL limits that share an index with each other, though not both at once:

- `SubscriberHoldsTheBook`, `NoQuantityIsLost` and `TradesAreToldTwice`. The invariant `FInv`
  adds to the three that every order accepted has an account and that the one being matched is open, with
  its owner's id. `Total` is a recursive function over the orders; `TotalSteps` says which, from which
  `TotalGrows` and `TotalGrowsTwice` say what one or two accounts that change do to the sum
  (by an ascent as above). The difficult step is `MatchKeepsFInv`: one fill changes two accounts, sends
  two responses and two updates, and may free the order it filled (`FillSurvives` says which
  orders are left and how).

**LFQueue** (`LFQueueProofs`), for any size of the ring and any number of elements:
`TypeCorrect`; `CheckedReaderNeverInvalid` (a reader that asks `size()` cannot fail the
ASSERT: it saw a count that only it takes down); `SizeIsExact`; `ReadInOrder` and `NoRaceOnASlot`, both until the
ring is overrun, and nothing is assumed about how much waits. The invariant has a part that always holds
(`Counters`) and one that holds until the overrun, which relates indices to counters modulo `Size` and says what
every slot between them holds.

**MemPool** (`MemPoolProofs`), for any number of blocks: `TypeCorrect`, `AssertsHold` and `Implementation`,
the refinement of `BlockPool`. The invariant of the scan: every block from where it began up to where it
stands, going round, is in use; so when it has come round, all are.

**Shutdown** (`ShutdownProofs`), for any size of the log's queue and any number of elements:

- `LogIsAQueue`: every step of `main()`, the flush thread and the handlers is a step of `LFQueue` or
  leaves the queue alone, so that all theorems about `LFQueue` hold of main's log.
- `UsedLateOrTwice` and `OneWriterInTime` follow from `ProcessInv`: who has been created,
  what the handler of each thread has deleted, and where the engine can be when it was not late.
  They need nothing about the queue.
- `ExitLosesNoLog`, with `ChecksSize`, from `KeptInv`: what is in `file_` is what was
  taken from the queue, in order until it is overrun (`FileInOrder`); once the drain has seen a count of 0,
  nothing is waiting and nobody writes (`Drained`), because the thread that would is under the handler;
  after the join all that was taken is on disk (`Joined`). `ShutdownTypes` completes it.

**OrderServer** (`OrderServerProofs`), for any clients, connections, parts of a request, limits
and thresholds; it proves all of the invariants of `order_server`:

- `TypeCorrect` and `FramesAreFound` from `TypeInv`, in which `Frames` says that what is in a
  buffer is the end of what was read of its stream and begins with a request.
- `AnswersFindSockets`: a request that is pending or published is of a client the server has a
  socket for, and a socket is never taken back (`KnownClients`).
- `OvertakenByEarlierPass`: pending requests are of the pass being made, published ones of earlier
  passes, sorted by time within a pass (`Rounds`).
- `SwapsAreAtOnce`: two requests of one client are in the wrong order only if one pass read
  both, at one time, and they stand among more than `SortLimit` requests of that pass
  (`SwappedInLongPassesOnly`). The argument: requests of
  one client come from one socket; within a pass its times do not fall (`Times`) and its
  numbers rise (`Seqs`), and `Sort` keeps equal times in order in a short batch.
  `ShortPassesKeepOrder` is about behaviours, not about constants: in each one in which no pass sequences more than `SortLimit`
  requests (`[]ShortPasses`), 16 of the 1024 that may wait, `ClientFIFO` holds.
- `RequestsOnce`: the requests let through are different (`Distinct`) and are all those up to the number expected
  (`Covered`).
- `ResponsesKeepOrder`: the whole frames a client has received, followed by what is buffered for it, are a part of
  what the engine answered it, with the engine's numbers and those of the server in step (`Numbered`,
  `RightMessages`); a `::send()` that stops takes messages out of it and moves none, and a frame is
  garbled only if one has stopped.

**Exchange** (`ExchangeProofs`), for any scripts of any number of clients, under `LimitsApart` and
`EngineIsFree`, which says that the bounds on the engine of `OrderServer` bound nothing (it may end the process in
any of the ways the code has, an invalid request type among them):

- `ImplementsOrderServer`: every step of the exchange is one of `OrderServer`, so that all its theorems
  hold here, of the server with the real book. The step that needs an argument is the engine's
  (`EngineIsAdmitted`): whoever the book tells of a fill must have sent a request that the engine has
  begun with, which is `Ordered`, part of the invariant `Sound`: every order in the book, and the one in
  progress, is a request of `incoming` the engine has taken. `Sound` carries the invariants of the book over
  as well (`BookInv`): they are proved for clients that use an id once, and here it follows
  that they do (`FreshOrder`), as their scripts say so and the server lets no request through
  twice.
- `StoriesOfOrderedRequests`: with `SendsAll`, and as long as `ClientFIFO` holds, so do `OrderStories` and
  `ClientsKnow`. `StoriesAreWhole` and `WhatTheyHearIsTrue` say so of every behaviour in which no pass
  sequences more than `SortLimit` requests (`[]ShortPasses`), whatever `MaxPending` is. A longer pass may swap an order and its
  cancel (`batch_fifo`), so that the client hears of the cancel first. `NothingTorn` says that with `SendsAll`
  no frame is cut. A request of another type answers nobody (`InvalidIsSilent`) and ends the process.
  The invariant `Truthful` is about what the engine has written: the last response about
  an order says how much of it is left in the book, where an order in progress counts with
  what is not matched yet (`Left`), and a client has heard of exactly the orders the engine has begun
  with. `StepTells`, in `OrderBookProofs`, says what one step of the book owes to that: it answers
  nobody and changes no order's rest (`Silent`), or it answers one or two clients, each as the book had its order
  before (`Follows`) and has it after (`Remaining`). `StoryGoesOn` makes a story longer by such a response;
  `CancelAfterOrder` is where the order of requests is needed. On the server's side `Delivered` says that the
  i-th message buffered for a client is its i-th response, and with nothing under way all have arrived
  (`BodyWritten`).
- An instance has operators of its own, those of the book here and those in `OrderBookProofs`
  as well; `SameBook` says that the actions are the same.

**Only model-checked.** Liveness (`LoggedIsFlushed`, `SignalEndsProcess`, `AllocateEnds`,
`EveryRequestAnswered`), which is out of the prover's reach, and orders of side INVALID, of which `exchange` checks
what the clients hear. Neither checked nor proved: the stories of the clients
where a short `::send()` loses or garbles responses, as they are not whole then
(`ResponsesKeepOrder` says what remains), and the structure of the book outside `LimitsApart`.

## 5. Findings

Each is the subject of a run that finds the stated property violated, and of an entry in
`PROJECT.json` that quotes the code.

1. **A level both sides use** (`shared_level`). `bids_at_price_` is never assigned, so that an arriving SELL
   is not matched; if a BUY order has made the level of its price, it joins that level and `asks_at_price_`
   stays null: the next BUY at that very price rests as well. `PriceTimePriority` says what is left: from any
   state in which no ask is lost, arriving BUYs are served as they should be.
2. **Prices that share an index** (`price_collision`). A level is found by `price % 256`
   and its price is not compared: SELL 11 rests behind SELL 19 (with 8 indices), a BUY at 22 pays 19,
   and a BUY at 12 does not trade with the 11. What remains true is that quantities,
   messages and the structure stay consistent: `book_feeds`, and the theorems under `LimitsApart`, allow such limits on one side.
3. **Open ring** (`ring_closed`). A level that goes last has a null `next_entry_`. `RingOK`
   says precisely how open the ring can be: at its worst level only.
4. **ASSERT of the queue** (`lf_queue_assert`). The engine's reader may be done with an
   element before the writer has counted it.
5. **Order of one batch** (`batch_fifo`). Two requests of one client, read at once, may be
   swapped by the unstable sort. `SwapsAreAtOnce` says that this is the only way. (Between
   passes, receive time orders nothing: `OvertakenByEarlierPassOnly` is the exact statement.)
6. **A full queue** (`queue_full`). No writer asks for room; the ring once full reads as empty, and the next element is
   assigned to the slot the reader may have in its hands. `NoRaceOnASlot` says that this is the only way.

The models also show, without a run of their own:

- **A response cut in two**: `tcp_socket.h:115` empties the buffer wherever `::send()` stopped; the rest of the
  response is lost and the client's frames are made of two from then on (`Garbled` in `OrderServer`).
- **A drain that does not end**: Ctrl-C pressed again, on the flush thread, stops the only reader of the log
  while `~Logger()` waits for `size()` to be 0; a log queue that was overrun has the same effect
  (`DrainStarved` in `Shutdown`).
- **The first line of the log**: five `%`, four arguments (`order_server.h:21`): `OrderServer::run()` ends the
  process before its first `poll()` (`LogBanner` with `BannerArgs = 4`).
- **Side::INVALID**: an order that carries it breaks the order of the ring of ask levels.

## 6. Not modelled

- **A BUY and a SELL limit of different prices on one index**: the price of a level is then not
  that of all its orders on either side, and the model's name for a level would be
  ambiguous. `SidesCollideAtOnePriceOnly` excludes them.
- **Routing by ticker** to eight books that share nothing: `Exchange` has one.
- **Start, stop and destruction of the order server**: `main()` creates none, and nothing calls them.
  `MatchingEngine::stop()` is called by nothing either; it clears `run_` as the destructor does.
- **Market data publisher**: it has no operations at this commit. **McastSocket** is used by
  nothing that runs. **Socket, time, type and macro utilities**: I/O, conversions,
  constants.
- Closing of connections, `epoll` bookkeeping, `connect()`, buffer limits, failures of the
  socket calls other than those of `::send()`.
- **Formatting**: the text of a log line and of `toString()`.

## 7. Plan

Done, in this order: `OrderBook`, `PriceTimeBook`, `BookFeeds`, `OrderBookProofs`;
`LFQueue`, `LFQueueProofs`; `MemPool`, `BlockPool`, `MemPoolProofs`; `FIFOSequencer`,
`OrderServer`; levels that share an index and the destructor in `OrderBook`; `Logger`,
`Shutdown`, `ShutdownProofs`; `Exchange`; `OrderServerProofs`; `PriceTimeProofs`; the book with
both sides in a level, and its destructor; `FeedsProofs`; the engine's steps in `OrderServer` one by one, so
that the book can be shown to take them; `ExchangeProofs`.

Left, in order of importance:

- A. Two books in `Exchange`, with requests routed by ticker: the responses of each book in the
  order of its requests.
- B. A variant of `OrderBook` whose levels are objects apart from any price, for
  a BUY and a SELL limit on one index, and for the book outside `LimitsApart`, with the rings of orders as
  pointers.
- C. The ring of ask levels with orders of side INVALID in it: what remains linked when it is not sorted.
