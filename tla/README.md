# A verification of dex-simulator

dex-simulator follows PancakeSwap pools on BNB Smart Chain: it listens to the
events of the pools' contracts, keeps a local copy of each pool's state, and
answers HTTP requests that simulate swaps on that copy. This directory holds
TLA+ models of the parts where concurrency, failure and ordering decide whether
the copy is right, TLC configurations that check them on small instances, and
theorems about them that TLAPS checks for every instance.

## The system

```
 BSC node --HTTP--> backfill task --+
          --WS----> WebSocket task -+-> bounded channel --> next_event()
                                                               |
   publish() from outside --+                                  v
                            +--> store.append, queue <---- fetch task
                                       |
                                       v
                                   pump task --> RouterSink --> LoggingEventSink
                                                     |
        ensure_pool_initialized (eth_call at block-1), DexEventRouter
                                                     |
                                       V2 / V3 handler: get, apply, upsert, save
                                                     |
                                repository, snapshot store  <--- HTTP requests
                                                             (prepare_simulation)
```

| component | state | operations | what is hard, what must hold | model |
|---|---|---|---|---|
| Event listener (`event/mod.rs`, `event/queue.rs`, `event/store.rs`) | running flag, two task handles, source, sinks; a deque, `Notify`, closed flag; the stored events | start, stop, publish, attach_source, subscribe; pump and fetch loops; enqueue, dequeue, shutdown; append | wake-ups that race, restarts, sinks and stores that fail; order, no loss, no duplicate, nothing runs after stop() | `NotifyQueue`, `EventListener`, `OrderedFeed` |
| Chain source (`event/source/ethers.rs`) | bounded channel, shutdown flag, position of the replay, backoff | run_backfill, run_ws_loop, next_event, drop | full channel, breaking links, failing calls, drop at any time; what was pushed arrives, the replay covers its range, tasks end | `ChainSource` |
| Routing (`listen.rs`, `router.rs`, both `handler.rs` and `event.rs`, `token_graph`) | filter, pool labels, token graph, repository | build_subscription_metadata, base_filter, RouterSink, dispatch, matches, PairCreated | handlers that see each other's events, errors that end a dispatch, pairs that connect late; each log takes effect once, in its own pool | `Routing`, `TokenGraph` |
| Pool state (`listen.rs`, both handlers, `repository.rs`, `snapshot.rs`, `simulate.rs`) | repository and snapshot store, shared with requests | handle_event of RouterSink, handle_parsed_event, persist_snapshot, prepare_simulation | several events per block, snapshot and events that overlap, failures between two steps, requests in between; the copy equals the chain | `PoolSync` |
| V3 arithmetic (`pancake_v3/state.rs`) | ticks, price, liquidity, reserves | update_from_event | half-done updates, saturation, Burn against Collect; where and by how much the copy strays | `V3Pool` |
| Swap simulation (`simulate.rs`, `*/calculator.rs`, `quote_swap`, `path`, `token_graph`) | the shared repository, read leg by leg | prepare_simulation, build_graph_path, best_paths, simulate, bench_swap | rounding and overflow, states stored between look and read, made-up pools among real ones | `SwapQuote`, `TokenGraph`, `Simulation` |
| Process (`serve.rs`, `main.rs`, `shared.rs`) | task handles, the shutdown flag | serve, run_http_server, Ctrl+C, the joins | a shutdown at any moment, with requests in flight | `Service` |
| Snapshot files, state syncer (`FileSnapshotStore`, `syncer`) | files | save, load, list, remove, full_resync | a crash in the middle of a save, two pools with one file name, newer states overwritten | `Storage` |
| Configuration, bootstrap files, CLI, logging, RocksDB placeholder | - | - | I/O, formatting, defaults | see "Not modelled" |

## The modules

**NotifyQueue** is `InMemoryEventQueue`: every operator is one step of
`do_enqueue`, `do_dequeue` or `do_shutdown` that no other task can split. tokio's
`Notify` is modelled as it behaves: `notify_one` wakes the task that has waited
longest or leaves one permit, `notify_waiters` wakes who is registered and leaves
nothing.

**EventListener** composes those steps into the tasks. `pump[t]`, `pub[p]` and
`ctl[c]` are the program points of pump tasks, of publishers (fetch tasks and
outside calls of `publish`) and of callers of `start` and `stop`. One task id
stands for one `start()`. An await on a handle holds the handle's mutex, as the
`if let` of `stop_handles` does, and `dispatch` holds the read lock on the sinks
to its end. `accepted`, `dispatched`, `seen` and `failed` are history variables.

**OrderedFeed** is what the listener promises its sinks, without tasks or locks: a
log of events of which every sink is handed a part, in order and at most once.
`ImplementsOrderedFeed` is the refinement, with `log` mapped to `accepted`.

**ChainSource** is `EthersEventSource`: `bf` and `ws` are the program points of
`run_backfill` and `run_ws_loop`; `sent` and `taken` stand for the channel. The
node is the environment: it mines, replaces the newest block once, pushes logs
while `linked`, fails any call and breaks the link at any time; `feed` is what is
on its way to `stream.next()`. Sleeps are steps that a task takes when it likes.

**PoolSync** is one pool, from the sink's point of view. `sink` is where
`handle_event` is: the snapshot fetched at the block before the event
(`EnsureFetch`, `EnsureUpsert`, `EnsureSave`), then the handler's get and apply
(`HandleEvent`), upsert and save. `req[r]` is where a request is in
`prepare_simulation`. The chain is the environment, with the pool's events in
`logs`, each with the reserve after its transaction. `lost`, `overwritten`,
`unsaved` and `known` are history variables that say which guarantees remain:
an event whose handling failed is lost until a Sync or a later snapshot makes
it good; a request that wrote over a newer state, until a Sync.

**V3Pool** puts the state of one V3 pool next to the contract it follows. The
contract is the environment: positions over tick ranges, what they hold at the
price, what is owed to them. A step is a transaction together with the handler's
work on its event. `OnInitialize`, `OnMint`, `OnBurn`, `OnSwap` and `OnCollect`
are the arms of `update_from_event` and give the *set* of states that can follow;
an empty set is a refused event, of which the handler keeps nothing. A Collect
whose second `checked_sub` fails keeps the first subtraction, as in the code
(`SubReserveFailed`).

**SwapQuote** is the arithmetic of `quote_swap` and `quote_v3_swap` with the widths of
u128 and U256 as constants: floor division, refusals, panics, and, for
`amount * fee` of V3, the release build's wrapping or the debug build's panic
(`OverflowChecks`). **TokenGraph** is `token_graph/mod.rs`: edges both ways,
breadth-first search to the whitelist, and the breadth-first `find_paths`, which
stops a path at its target and never returns to a token of its own.

**Simulation** has the requests: `req[r].pc` says where a request is between two
accesses to the repository or the store (`Look`, `LoadOrSample`, `Upsert`,
`FindPath`, `LegV2`; `LookV3`, `UpsertV3`, `LegV3`). The listener's upsert and save
can come between any two. A command is one request over an empty repository and
the snapshot files, and its `bench` repeats the legs. **Service** adds the tasks of
`serve`: the listener's, which may never end, the HTTP server's and serve's own, with the
shutdown flag.

**Routing** follows a log from the filter to the handlers, for many pools under a
configuration: which addresses and labels `build_subscription_metadata` gives,
which logs pass, what RouterSink fetches first, what each handler takes, passes
over or refuses, and which pairs the V2 handler comes to follow. A pool's state is
the sequence of logs it has taken in; `since` remembers when the state was made.

**Storage** is `FileSnapshotStore` under a handler, a resync and crashes. `save` is
four steps (upsert, create, write, flush), any of which can be the last: `File::create`
empties the file, and a file can end in the middle. A file cut behind the reserves
still parses and its `extra` does not (`Cut`); anything shorter is `Junk`. A state is
the set of events it has taken in.

The modules compose by what each promises the next. ChainSource gives next_event()
the pushed logs in order (`LiveIsRelayed`). EventListener takes a source of events in
order and hands them to its sinks in that order, one at a time (`SourceOrderKept`,
`ImplementsOrderedFeed`). Routing takes them one at a time and gives each to its
pool once (`EachLogOnceInItsPool`). PoolSync and V3Pool take a pool's events once
and in order: PoolSync with the steps between the accesses to the repository, V3Pool
with all of the arithmetic. Simulation reads what they write. Service extends
Simulation, which extends SwapQuote and TokenGraph; Routing extends TokenGraph. **Selection** is what
a `filter()` leaves of a sequence, for ChainSource and Routing.

The modules `MC*` add the values a .cfg file cannot write and the symmetry sets. Task
ids and PoolSync's requests are interchangeable, so symmetry is used in the runs that
check safety only. Operators marked *faulty* are bugs that show that the properties
can fail; no action uses them.

## The runs

| run | instance | what it shows |
|---|---|---|
| ListenerSafety | 1 caller, 2 starts, 3 source events, 2 sinks that may fail | types, order, nothing lost or overtaken, quiet after stop, a sink sees only what the one before took, refinement of OrderedFeed |
| ListenerLiveness | fetch task and an outside publish, store that fails, polling source | queued events are stored events and get dispatched, stop() gets its fetch task back from a source that answers |
| ListenerStopPump | publish and stop against the pump | **violated**: a lost wake-up leaves stop() waiting |
| SourceSafety | 2 blocks, replay of 2 in chunks of 2, room for 1 event | types, live logs relayed one to one, replay covers its range but for the chunks whose call failed |
| SourceLiveness | 1 block that may be replaced, room for 1 event | tasks end after drop, subscription is made again |
| PoolSync | 3 transactions in any blocks, V2 or V3, deltas -2, 1 and 3, reserves to 6, 2 requests, failing calls and saves | repository equals the chain after the events handled, states come from the chain, the store follows |
| PoolDoubleCount | 2 transactions, Sync logged first | **violated**: amounts counted twice |
| V3Pool | 3 ticks, so 3 ranges, liquidity to 2, balances to 6, 4 transactions; a pool that is new or older than the listener | gross liquidity follows the chain, net liquidity errs upwards only, active liquidity strays by what happened off the price, reserves by what was burned, nothing refused before a Burn |
| Service | 5 V2 pools of which two have one pair, 2 V3 pools, 2 requests of any kind, 1 state from the listener, shutdown at any time | answers are for the pair asked, legs keep the product, V3 quotes are at par, known pools are quoted, only races overwrite; accepted requests are answered, none is left at the end, and after Ctrl+C only the listener can keep the process from ending |
| ServiceDisturb | the same | **violated**: a V3 request makes every later V2 request fail |
| Routing | 7 pools (one configured V2, one V3, three new, one of a foreign factory, the made-up one), 6 configurations with and without whitelist, provider and sample events, 5 logs | each log once in its own pool, followed pairs are those that connect to the whitelist |
| Storage | 3 pools over 2 file names, 4 events, 1 crash, 1 failing save, removes and resyncs at will | lost events have a cause, an undisturbed resync restores what was saved whole |

The violated runs check what a comment or document of the repository says; each is
a finding in `PROJECT.json` with the line quoted.

Bounds. A stop and a restart need two task ids; three source events let one be in
the hand, one in the queue and one behind them; two sinks are the application's
own (router and log). In ChainSource two blocks give a full chunk and a partial
one, and one place in the channel makes both tasks wait for it. In PoolSync
three transactions give every way to put an event before, in and after the
snapshot's block; reserves up to 6 let a delta hit zero and the top; two requests
can overtake each other. In V3Pool three ticks give ranges above, around and below
the price; a pool that is older than the listener starts with any positions, and a
Burn, its Collect and a Swap that is refused leave one of the four transactions to
spare. In Service two requests and one new state give every race of one
request with the listener and of two requests; `FeeDenom` 400 and `V2Fee` 1 are the
code's 10000 and 25, and the widths are 1000 and 20000000. As with the code's widths, a V3
amount of half the digits of a u128 is the largest that can be quoted: the smaller one is
quoted with a fee, and the larger one is refused because it does not fit U256. The
listener's new state is one that
the amount asked for cannot be quoted on. In Routing `n2` connects to the whitelist by `n1` only and `n3` by `n2`, with a way
round by a pair of the foreign factory; five logs are the three creations in any
order and two more, and the whole of the sample events, five for one swap. In Storage one crash and one failing save fall at every step; two
more of either repeat a situation that one has reached. `MaxBlock`, `MaxSource`,
`MaxTx`, `Tasks`, `MaxSinks`, `MaxLogs`, `MaxEvents`, `MaxCrashes`, `MaxFailures`,
`MaxUpdates`, `Iterations`, `MaxLiquidity` and `MaxBalance` are bounds of the models,
not of the code; `MaxReserve`, `MaxU128` and `MaxU256` are the code's widths, small.

Fairness. `EventListener!Fairness` is weak fairness of each task: the tokio runtime
polls what is ready. It says nothing of callers and of a `next_event` without an
event; `PollingSpec` adds a source that hands over each event it has. MockEventSource then
always answers, which ListenerLiveness has (`SourcePolls`), and EthersEventSource answers
until it has no event left: StopJoinsFetch holds with the one and not with the other.
`ChainSource!Fairness` adds strong fairness of sending, because tokio's channel
serves its senders in turn, and a reader that reads on while the source exists.
`ReachableSpec`, used where the property is about getting back on the network, has
attempts that succeed again and again. `Service!Fairness` is weak fairness of the
HTTP server's task, of serve's joins and of each request's next step; nothing makes a
client ask or the user press Ctrl+C. It assumes nothing of the listener, whose stop() may
hang, by the lost wake-up of ListenerStopPump or by a silent source: `ShutdownWaitsForListenerOnly` says
that the HTTP server ends all the same, and that serve ends if the listener has. That a
connection ends when its request is answered is axum's part and its client's.

Deadlock is not checked where a system may rest: a listener that was stopped, a source
that was dropped, a service that has ended, and a chain without further transactions.

## The proofs

Eight modules hold theorems for every value of the constants: `EventListenerProofs`,
`ChainSourceProofs`, `PoolSyncProofs`, `V3PoolProofs`, `ServiceProofs`, `RoutingProofs`,
`StorageProofs`, and `SequenceLemmas` with the lemmas they share. Each property of a
run is checked by TLC first.

* `EventListenerProofs!TypeCorrect`: by the invariant itself.
* `AcceptedStored`: `AcceptedIsStored` is not inductive; the invariant adds that
  the event a publisher holds past the store's append is in the store.
* `StoppedIsQuiet`, for one caller (`OneCaller`): every live task is one whose handle
  is stored, or in the hand of the caller that is just storing or awaiting it, and
  after the swap in stop() the flag stays off until the caller is back (`OwnedInv`).
* `InOrderDelivery`, for one caller: at most one pump is live (from `OwnedInv`), so
  at most one holds an event, and every queue step moves the boundary between
  dispatched, held and queued by one event.
* `PoolSyncProofs!TypeCorrect`: the invariant adds `LogsOK`, the shape of the chain's
  log, and that the sink's event exists.
* `RepoTracksChain`: `LocalTracksChain` for every V3 pool, and for V2 pairs if they
  logged Sync last. The invariant is `TypeInv /\ Presence /\ Tracking`. `Presence`
  says that the sink fetches only while the repository is empty and a request has a
  snapshot only once it is not. `Tracking` says that while a bootstrapped
  pool has no state each of its events is lost (`Missed`), which is what makes the
  end of the block before an event the state just before that event
  (`SnapshotIsPrevious`); that the snapshot in hand is that state (`SnapshotGood`); and
  that the result in hand is the event's reserve (`ResultGood`).
* `StateFromChain`: from `Presence`.
* `StoreFollows`: between an upsert and its save the sink holds what it put in the
  repository (`Stored`).

* `SinksInTurn`, for any number of callers: an event is in one place,
  still to come, in one outbox, in the queue, in one hand, or handled (`IntakeInv`,
  `DeliveryInv`), and one in a hand has been taken by the sinks before the one its
  dispatch has reached and by no other (`HeldInv`). That is what makes
  SinkSeesWhatEarlierTook inductive (`ChainInv`).
* `SourceInOrder`, for one caller: only one fetch task is at work, and what it carries is
  the newest event the source has given, newer than all that is stored or queued
  (`OrderInv`). `HandPosition` places the event in the pump's hand behind all that was
  dispatched, so a sink gets it after all it has seen (`SeenInv`). The invariant of
  InOrderDelivery is needed for it, and that of StoppedIsQuiet, which says who runs.
* `FeedImplemented`, for one caller: the listener implements OrderedFeed. A push is
  `Publish` (the event is new, by `IntakeInv`), a call of a sink is `Hand` (beyond all
  it was handed, and what the sink before it was handed last, by `SeenInv`), and every
  other step stutters.
* `V3PoolProofs`: the five properties of V3Pool and its types are inductive together
  (`IInv`) once two facts are added: a tick without an entry has no liquidity
  (`UnseenIsEmpty`, without which `update_tick_burn`'s silence about an unknown tick
  would lose liquidity), and without a Burn no amount is one of a Burn
  (`NoBurnNoAmount`). First come lemmas on what each operator does to a state, field
  by field; then one lemma per transaction; `Invariance` puts them together, and
  `Typed`, `GrossIsFollowed`, `NetIsNeverTooLow`, `LiquidityGapExplained`,
  `ReserveGapExplained` and `OnlyBurnsLeadToRefusal` follow. The only assumption on
  the contract is the model's: its events say what it did.
* `ServiceProofs!QuoteV2Fits`, `ProductKept`, `RoundTripV2`: for any reserves, amount
  and fee, a quote leaves reserves that fit their width, a product that has not
  fallen, and nothing to be won by swapping back. They are nonlinear inequalities over
  floor division, cut into lemmas each of which multiplies or divides by one factor.
  `QuoteV3Fair` and `RoundTripV3` say the same of the V3 quote, where no state changes.
* `StorageProofs!Typed` and `LostIsAccounted`: a pool's state is in up to four places,
  the repository, the save under way, its file and what a resync has read; the
  invariant (`LossInv`) says of each copy that it has every event of its pool, but those
  in hand and those excused (`Accounted`). LostIsExplained is that of the repository, and
  is not inductive without the other three, because a resync copies files over it. What
  a resync reads must not lack the event in hand: beginning one excuses it (`ResyncInv`).
* `RestoredIsKept`: while nothing runs beside a resync, what it has read is what the
  files hold, and each good file is still to be read, has been read, or is in the
  repository (`ReadInv`); a later pool of the same file name can only be put where the
  file says so. Both rest on `MarkersAssumption`: no snapshot is taken for "no file".

* `SequenceLemmas`: the library's induction theorems take an operator, which the provers
  cannot instantiate; `Induction`, `BoundedInduction` and `SequenceInduction` say the same
  of a *set* that has 0 and every successor, from the well-foundedness of `<`, and the
  set of what has the property is the instance. `Recursion` gives the functions that
  `Select` and `FlattenSeq` are defined by, and from there come their types, what they do
  to an appended or a first element, and what they contain.
* `ChainSourceProofs!SourceInvariant`: a log is in hand exactly at the send (`Points`), the
  replay is in its range with a batch only where it publishes one (`InRange`), and what
  the backfill has sent or holds in its batch are all blocks of its range up to
  `Covered` but the skipped ones, in order (`Coverage`). LiveIsRelayed is inductive
  with `Points`. `TypeSafety`, `RelaySafety` and `BackfillSafety` follow.
* `ServiceProofs!ServiceInvariant`, in four parts. (1) *The search*: the graph of any
  list of pools has the edges of these pools and no other (`GraphOfListed`); whatever
  the list's order, the first path that the search gives for a pool of the list is one
  step over a pool of the same pair (`FirstPathIsDirect`), because a path of the first
  level that reaches the target comes before all longer ones. (2) *A request by itself*
  (`Sound`): a path, once found, is direct, so its only leg is the first; each snapshot's
  product is not below the one read (`ProductKept`, with the reserves
  taken the right way round); a quote at par gives back what came in. (3) *A request and
  what it found* (`SeenInv`): a pool that was not there when the request looked and is
  there when it lists was put by the listener meanwhile, is the made-up one, or, from
  the command line, was in the file (`Came`); a pool in the repository never leaves it;
  and what is refused for a known pool is refused for a state that its pair has had
  (`Past`). That needs to know which states can be in the repository, in the store and
  in the listener's hand (`StatesInv`), and that in the service what is saved is also
  listed. (4) *The tasks* (`CommandInv`, `ServerInv`): a command is alone over a
  repository that is empty until it upserts; requests are in flight only while the
  server serves or drains. `PairAnswered`, `ProductSafety`, `ParSafety`, `KnownQuoted`,
  `EndsQuiet`, `ServiceTyped` and the action property `OverwriteSafety` follow: only
  `Upsert` changes both a request and the repository (`OnlyUpsertPuts`), and what it
  puts over a pool came after its look.
* `RoutingProofs!SearchIsRight`: three facts hold between two pops of the search. Every
  token marked lies in each set that has the start and that no edge leaves (`Sound`);
  each neighbour of a token that was popped is marked (`Complete`); and the tokens marked
  are as many as the pops and the queue together (`Counted`). By the last, as many
  pops as there are tokens empty the queue; by the second, the tokens marked are then a
  set that no edge leaves. That is for any graph; that the graph which
  `add_pool` builds has the edges of the pools followed, both ways, is `AddedPool`.
* `RoutingProofs!RoutingInvariant`: EachLogOnceInItsPool (`Kept`) is inductive only if a pool
  there is a state of is never dropped by the filter (`Subscribed`), and the V3 pools
  that have logs are configured ones (`PairsOfLogs`), which the V3 handler matches; that
  the V2 handler, asked first, refuses none of their logs is part of `DispatchV3`.
  FollowsWhatConnects (`Followed`) adds to them `AddedPool` and the search: whether a new
  pair is followed depends on the graph alone, and this on the logs before
  (`ConnectedOverPools`).
  A log goes by, reaches its pool, or has its pair followed (`GoesBy`, `Reaches`,
  `IsFollowed`): each handler is shown to come to one of the three (`LogStep`), and each of
  the three to keep the invariant. `RoutingTyped`, `LogsTakeEffectOnce` and
  `FollowsRightly` follow.

The assumptions are the ones the modules name: `ListenerAssumption`,
`ManualAssumption` (an event published from outside is none of the source's),
`PoolAssumption`, `V3Assumption`, `QuoteAssumption`, `StorageAssumption`,
`MarkersAssumption`, `SourceAssumption`, `SimulationAssumption` (no V2 pool is a V3 pool,
and there are finitely many), `PairAssumption` (a pair has two tokens, and two pools of
the same tokens have them in the same order, because the factory sorts them),
`AbsentAssumption` (no state is taken for "none"), `ServiceAssumption` and
`RoutingAssumption` (finitely many tokens, pools that are V2 or V3 and are no factory,
configurations that list pools under their own version). `ParSafety` has the hypothesis that
the made-up pool's price is 2^96, which is what `build_v3_components` gives it.

Every invariant of the passing runs and every action property is stated by a theorem,
and so is the refinement of OrderedFeed. Only model-checked: the liveness properties,
which are out of the prover's reach, as ENABLED is. They rest on fairness, and a theorem
could only assume what it should show. Proofs that follow a recursion, in Coverage, in the
search of RoutingProofs and in the selection of a pool's logs, are by the induction
of SequenceLemmas.

## What is abstracted

* An event is a name, with an order; payloads, topics and block times are left out,
  except that Routing has a log that lacks the topics its signature asks for.
* Chain reorganisations reach ChainSource, where a removed log is dropped. PoolSync
  has a chain without them: the code undoes nothing, and the documents' "roll back"
  is not implemented.
* PoolSync has one token's reserve for a pool's state, and of V3 the events that move
  tokens as they say (Swap, Mint). It assumes that the HTTP provider could be built
  (`listen.rs:97`); Routing has configurations without one. PoolSync keeps PairCreated
  for a pool that has a state, which a factory logs once only.
* The passing run of PoolSync has pairs that log Sync after Swap, Mint or Burn, the order
  in which the handler is right; the order of the deployed contract is
  PoolDoubleCount's.
* V3Pool has the simplest geometry with ranges above, around and below the price: a
  unit of liquidity is worth one token0 per tick above the price and one token1 per
  tick below. `sqrt_price_x96` and `tick` are always set together and are one.
* A step of Routing is a log of a block of its own with all of its handling, and a
  request is its effect on the repository; the steps in between are PoolSync's.
* Storage has two pools of one file name, which `snapshot_path` allows because it writes
  every sign of a dex's name but letters and digits alike. The handlers give each type of
  pool one dex name and never make such a pair; the store promises nothing of them.
* KnownPoolIsQuoted is about a repository of V2 pools; with a V3 pool in it every V2
  request is refused, which is ServiceDisturb's finding.
* Paths of several legs are in Simulation as the code has them, though the search,
  which ends at a path's first arrival at the target, always finds a direct one
  (`AnswersAreForThePair`).

## Not modelled

* The ABI decoding of a log's words, of which only whether it succeeds is modelled.
* The contract calls of `onchain.rs`; a snapshot is the chain's state, or an error.
* `incremental_sync`, which copies a block number into a metric, and the queries of
  the event store.
* The RocksDB store, a placeholder; configuration and bootstrap files, the command
  line's parser and the logger, which have no state of their own.
* A crash of the machine, after which what was flushed may still be missing: the
  code never asks for more than the process can see.

## What the models showed of the code

Beside the three findings, these came up where the code and its documents part. Some
have a property that is violated and no run, because they are plain from the code.

* `mod.rs:98` lets a source be attached while running; only `start()` (`mod.rs:213`)
  spawns a task that reads it (`EventListener!AttachedSourceIsRead`).
* `开发计划.md:113` asks that replay and live events join; blocks between the replay's
  end and the subscription, or during a broken link, are never read
  (`ethers.rs:261`, `ChainSource!NoBlockMissed`).
* `运行指南.md:19` promises an exponential backoff; each connect resets it, also one
  whose subscription fails (`ethers.rs:259`, `ChainSource!BacksOff`).
* `mod.rs:191`: stop() waits for the fetch task, which may sit in `next_event()` of a
  silent source: EthersEventSource waits on a channel whose sender it keeps itself, and
  nothing wakes it for a stop(). StopJoinsFetch is violated with `SourcePolls` FALSE, and
  holds with a source that always answers.
* `需求_2025-10-02.md:24` asks for a lock on the pool; `prepare_simulation` gets, loads
  and upserts without one and can put an old state over a newer
  (`simulate.rs:254`, `PoolSync!RequestsAreHarmless`); `OnlyRacesOverwrite` says that
  this race is the only way.
* `运行指南.md:60` says that snapshots are in `runtime.snapshot_path` after the end;
  no command saves to a FileSnapshotStore, so only a command reads it.
* `syncer/mod.rs:25` promises to check and replay the given pool; `full_resync` ignores
  the pool and replays nothing (`ResyncRestores` and `LostIsExplained` say what it does).
* `pancake_v3_设计说明.md:44` calls Mint and Burn inverses; with nets that saturate at
  zero they are not (`NetNeverTooLow` says in which direction they err).
* Once the configuration or an early request has put a pool into the filter, no
  PairCreated arrives at all (`listen.rs:339-357`, `FollowsWhatConnects`).

## The plan

1. Done: listener and queue; chain source; pool synchronisation; their first theorems.
2. Done: V3Pool and its proofs; SwapQuote and its proofs; TokenGraph, Simulation and
   Service with liveness; Routing; Storage with crashes and resync.
3. Done: StorageProofs; the order of events with the refinement of OrderedFeed;
   SequenceLemmas; ChainSourceProofs; ServiceProofs; RoutingProofs.
4. Left: a Routing with the replay, once replay and subscription are joined in the
   code.
