--------------------------- MODULE EventListener ---------------------------
(***************************************************************************)
(* LocalEventListener (event/mod.rs) over an InMemoryEventQueue: callers of*)
(* start() and stop(), the pump and fetch tasks each start spawns, and     *)
(* callers of the public publish().  One action is what a task does between*)
(* two points where another thread of the tokio runtime can act.           *)
(*                                                                         *)
(* A task id of Tasks stands for one start: it names both its pump task and*)
(* its fetch task.  An Option<JoinHandle> is a set of at most one task id, *)
(* and the event a task holds is a sequence of at most one event.          *)
(***************************************************************************)
EXTENDS NotifyQueue, FiniteSets

CONSTANTS
    Controllers,   \* callers of start() and stop()
    Tasks,         \* ids for the tasks spawned by start(): bounds the starts
    Manual,        \* calls of publish() from outside, each with its own event
    MaxSource,     \* bound: events the source can return, 1..MaxSource in order
    MaxSinks,      \* bound: sinks that subscribe
    StoreMayFail,  \* store.append can return an error
    SourcePolls    \* next_event can return Ok(None) or an error at any time;
                   \* otherwise it only returns when it has an event

ASSUME ListenerAssumption ==
    /\ IsFiniteSet(Tasks)
    /\ Tasks \cap Manual = {}
    /\ MaxSource \in Nat
    /\ MaxSinks \in Nat
    /\ StoreMayFail \in BOOLEAN
    /\ SourcePolls \in BOOLEAN

(* what is published from outside is none of the source's events *)
ASSUME ManualAssumption == Manual \cap (1..MaxSource) = {}

Events     == (1..MaxSource) \cup Manual
Publishers == Tasks \cup Manual
Sinks      == 1..MaxSinks

VARIABLES
    running,      \* running: AtomicBool
    source,       \* source: is Some
    sinks,        \* subscribers: how many, in the order they subscribed
    pumpHandle,   \* pump_handle
    fetchHandle,  \* fetch_handle
    ctl,          \* where each caller of start() or stop() is
    job,          \* the task such a caller has spawned or waits for
    pump,         \* where each pump task is
    hand,         \* the event each pump dispatches
    sinkIdx,      \* the sink its dispatch has reached, 0 without the read lock
    pub,          \* where each fetch task and each outside publish() is
    outbox,       \* the event it is publishing
    nextSrc,      \* the event the source returns next
    stored,       \* the events appended to the store
    accepted,     \* history: events pushed into the queue
    dispatched,   \* history: events whose dispatch has ended
    seen,         \* history: events handed to each sink
    failed        \* history: <<sink, event>> where the sink returned an error

pumpVars  == <<pump, hand, sinkIdx>>
pubVars   == <<pub, outbox, nextSrc>>
ctlVars   == <<running, ctl, job, pumpHandle, fetchHandle>>
setupVars == <<source, sinks>>
intake    == <<stored, accepted>>
delivery  == <<dispatched, seen, failed>>
vars == <<queueVars, pumpVars, pubVars, ctlVars, setupVars, intake, delivery>>

PumpPcs == {"none", "check", "closed", "drain", "pop", "await", "parked",
            "dispatch", "done"}
PubPcs  == {"none", "check", "next", "append", "closed", "push", "notify", "done"}
CtlPcs  == {"idle", "spawnPump", "storePump", "readSource", "storeFetch",
            "close", "wake", "takePump", "joinPump", "takeFetch", "joinFetch"}

TypeOK ==
    /\ items \in Seq(Events)
    /\ closed \in BOOLEAN
    /\ permit \in BOOLEAN
    /\ waiters \in Seq(Tasks)
    /\ running \in BOOLEAN
    /\ source \in BOOLEAN
    /\ sinks \in 0..MaxSinks
    /\ pumpHandle \in SUBSET Tasks
    /\ fetchHandle \in SUBSET Tasks
    /\ ctl \in [Controllers -> CtlPcs]
    /\ job \in [Controllers -> SUBSET Tasks]
    /\ pump \in [Tasks -> PumpPcs]
    /\ hand \in [Tasks -> Seq(Events)]
    /\ sinkIdx \in [Tasks -> 0..(MaxSinks + 1)]
    /\ pub \in [Publishers -> PubPcs]
    /\ outbox \in [Publishers -> Seq(Events)]
    /\ nextSrc \in 1..(MaxSource + 1)
    /\ stored \in Seq(Events)
    /\ accepted \in Seq(Events)
    /\ dispatched \in Seq(Events)
    /\ seen \in [Sinks -> Seq(Events)]
    /\ failed \in SUBSET (Sinks \X Events)

Init ==
    /\ QueueInit
    /\ running = FALSE /\ source = FALSE /\ sinks = 0
    /\ pumpHandle = {} /\ fetchHandle = {}
    /\ ctl = [c \in Controllers |-> "idle"]
    /\ job = [c \in Controllers |-> {}]
    /\ pump = [t \in Tasks |-> "none"]
    /\ hand = [t \in Tasks |-> <<>>]
    /\ sinkIdx = [t \in Tasks |-> 0]
    /\ pub = [p \in Publishers |-> "none"]
    /\ outbox = [p \in Publishers |-> <<>>]
    /\ nextSrc = 1
    /\ stored = <<>> /\ accepted = <<>> /\ dispatched = <<>>
    /\ seen = [s \in Sinks |-> <<>>]
    /\ failed = {}

(* A task at program point a goes on to b. *)
PumpGo(t, a, b) == pump[t] = a /\ pump' = [pump EXCEPT ![t] = b]
PubGo(p, a, b)  == pub[p] = a /\ pub' = [pub EXCEPT ![p] = b]
CtlGo(c, a, b)  == ctl[c] = a /\ ctl' = [ctl EXCEPT ![c] = b]

-----------------------------------------------------------------------------
(* pump_loop, with do_dequeue and dispatch inlined.                        *)

PumpCheck(t) ==
    /\ PumpGo(t, "check", IF running THEN "closed" ELSE "done")
    /\ UNCHANGED <<queueVars, hand, sinkIdx, delivery>>

DequeueReadClosed(t) ==
    /\ PumpGo(t, "closed", IF closed THEN "drain" ELSE "pop")
    /\ UNCHANGED <<queueVars, hand, sinkIdx, delivery>>

(* Some(event), with the queue closed ("drain") or open ("pop") *)
DequeueSome(t) ==
    /\ \E from \in {"drain", "pop"} : PumpGo(t, from, "dispatch")
    /\ PopFront
    /\ hand' = [hand EXCEPT ![t] = <<Head(items)>>]
    /\ UNCHANGED <<sinkIdx, delivery>>

(* With the queue closed the result is None and the loop looks at `running'. *)
DequeueEmpty(t) ==
    /\ items = <<>>
    /\ PumpGo(t, "drain", "check") \/ PumpGo(t, "pop", "await")
    /\ UNCHANGED <<queueVars, hand, sinkIdx, delivery>>

AwaitPermit(t) ==
    /\ PumpGo(t, "await", "closed")
    /\ TakePermit
    /\ UNCHANGED <<hand, sinkIdx, delivery>>

AwaitPark(t) ==
    /\ PumpGo(t, "await", "parked")
    /\ Register(t)
    /\ UNCHANGED <<hand, sinkIdx, delivery>>

AwaitWoken(t) ==
    /\ PumpGo(t, "parked", "closed")
    /\ \A i \in DOMAIN waiters : waiters[i] # t
    /\ UNCHANGED <<queueVars, hand, sinkIdx, delivery>>

(* dispatch takes the read lock on subscribers, which it holds to its end *)
DispatchLock(t) ==
    /\ pump[t] = "dispatch" /\ sinkIdx[t] = 0
    /\ sinkIdx' = [sinkIdx EXCEPT ![t] = 1]
    /\ UNCHANGED <<queueVars, pump, hand, delivery>>

SinkLeftOffByOne(t) == sinkIdx[t] <= sinks + 1   \* faulty

SinkLeft(t) == sinkIdx[t] <= sinks

DispatchNextSink(t) ==
    /\ sinkIdx' = [sinkIdx EXCEPT ![t] = @ + 1]
    /\ UNCHANGED <<pump, hand, dispatched>>

FinishDispatch(t) ==
    /\ PumpGo(t, "dispatch", "check")
    /\ dispatched' = dispatched \o hand[t]
    /\ hand' = [hand EXCEPT ![t] = <<>>]
    /\ sinkIdx' = [sinkIdx EXCEPT ![t] = 0]

AfterSinkErrNext(t) == DispatchNextSink(t)       \* faulty

(* `?' ends the dispatch; pump_loop logs the error and goes on. *)
AfterSinkErr(t) == FinishDispatch(t)

HandToSink(t) ==
    /\ pump[t] = "dispatch" /\ sinkIdx[t] > 0 /\ SinkLeft(t)
    /\ seen' = [seen EXCEPT ![sinkIdx[t]] = @ \o hand[t]]
    /\ \/ DispatchNextSink(t) /\ UNCHANGED failed
       \/ AfterSinkErr(t) /\ failed' = failed \cup {<<sinkIdx[t], Head(hand[t])>>}
    /\ UNCHANGED queueVars

DispatchEnd(t) ==
    /\ sinkIdx[t] > 0 /\ ~SinkLeft(t)
    /\ FinishDispatch(t)
    /\ UNCHANGED <<queueVars, seen, failed>>

PumpStep(t) ==
    /\ \/ PumpCheck(t) \/ DequeueReadClosed(t) \/ DequeueSome(t) \/ DequeueEmpty(t)
       \/ AwaitPermit(t) \/ AwaitPark(t) \/ AwaitWoken(t)
       \/ DispatchLock(t) \/ HandToSink(t) \/ DispatchEnd(t)
    /\ UNCHANGED <<pubVars, ctlVars, setupVars, intake>>

-----------------------------------------------------------------------------
(* publish, called from outside and by the fetch tasks, which log its error *)
(* and go on; and fetch_loop around it.                                     *)

AfterPublish(p) == IF p \in Tasks THEN "check" ELSE "done"

CallPublish(m) ==
    /\ PubGo(m, "none", "append")
    /\ outbox' = [outbox EXCEPT ![m] = <<m>>]
    /\ UNCHANGED <<queueVars, nextSrc, intake>>

StoreAppend(p) ==
    /\ PubGo(p, "append", "closed")
    /\ stored' = stored \o outbox[p]
    /\ UNCHANGED <<queueVars, outbox, nextSrc, accepted>>

GoesOnAfterStoreErr(p) == PubGo(p, "append", "closed") /\ UNCHANGED outbox  \* faulty

(* `?' ends the call *)
GivesUpAfterStoreErr(p) ==
    /\ PubGo(p, "append", AfterPublish(p))
    /\ outbox' = [outbox EXCEPT ![p] = <<>>]

StoreErr(p) ==
    /\ StoreMayFail
    /\ GivesUpAfterStoreErr(p)
    /\ UNCHANGED <<queueVars, nextSrc, intake>>

EnqueueReadClosed(p) ==
    /\ \/ /\ closed /\ PubGo(p, "closed", AfterPublish(p))
          /\ outbox' = [outbox EXCEPT ![p] = <<>>]
       \/ ~closed /\ PubGo(p, "closed", "push") /\ UNCHANGED outbox
    /\ UNCHANGED <<queueVars, nextSrc, intake>>

EnqueuePush(p) ==
    /\ PubGo(p, "push", "notify")
    /\ PushBack(Head(outbox[p]))
    /\ accepted' = accepted \o outbox[p]
    /\ outbox' = [outbox EXCEPT ![p] = <<>>]
    /\ UNCHANGED <<nextSrc, stored>>

EnqueueNotify(p) ==
    /\ PubGo(p, "notify", AfterPublish(p))
    /\ NotifyOne
    /\ UNCHANGED <<outbox, nextSrc, intake>>

PublishStep(p) ==
    /\ \/ StoreAppend(p) \/ StoreErr(p)
       \/ EnqueueReadClosed(p) \/ EnqueuePush(p) \/ EnqueueNotify(p)
    /\ UNCHANGED <<pumpVars, ctlVars, setupVars, delivery>>

KeepsFetchingForEver == TRUE   \* faulty
KeepsFetching == running

FetchCheck(t) ==
    /\ PubGo(t, "check", IF KeepsFetching THEN "next" ELSE "done")
    /\ UNCHANGED <<outbox, nextSrc>>

FetchSome(t) ==
    /\ PubGo(t, "next", "append") /\ nextSrc <= MaxSource
    /\ outbox' = [outbox EXCEPT ![t] = <<nextSrc>>]
    /\ nextSrc' = nextSrc + 1

(* Ok(None), or an error and handle_disconnect; with the sleep that follows *)
FetchNothing(t) ==
    /\ SourcePolls
    /\ PubGo(t, "next", "check")
    /\ UNCHANGED <<outbox, nextSrc>>

Outside == <<queueVars, pumpVars, ctlVars, setupVars, intake, delivery>>

FetchLoop(t) == FetchCheck(t) /\ UNCHANGED Outside
FetchNext(t) == (FetchSome(t) \/ FetchNothing(t)) /\ UNCHANGED Outside

-----------------------------------------------------------------------------
(* start and stop.  stop_handles holds the lock of a handle while it awaits *)
(* the task (the guard lives as long as the `if let' it is taken in), and   *)
(* start holds the lock of the source while it spawns the fetch task.       *)

NobodyAt(pc) == \A c \in Controllers : ctl[c] # pc

FreshTasks == {t \in Tasks : pump[t] = "none"}

(* Bound: a start needs a task id that no start has taken. *)
CanSpawn == Cardinality({c \in Controllers : ctl[c] = "spawnPump"})
            < Cardinality(FreshTasks)

AlreadyRunningNever == FALSE   \* faulty
AlreadyRunning == running

StartSwap(c) ==
    /\ CanSpawn
    /\ CtlGo(c, "idle", IF AlreadyRunning THEN "idle" ELSE "spawnPump")
    /\ running' = TRUE
    /\ UNCHANGED <<queueVars, pump, pub, job, pumpHandle, fetchHandle>>

SpawnPump(c) ==
    /\ CtlGo(c, "spawnPump", "storePump")
    /\ \E t \in FreshTasks :
          /\ pump' = [pump EXCEPT ![t] = "check"]
          /\ job' = [job EXCEPT ![c] = {t}]
    /\ UNCHANGED <<queueVars, pub, running, pumpHandle, fetchHandle>>

StorePumpHandle(c) ==
    /\ CtlGo(c, "storePump", "readSource") /\ NobodyAt("joinPump")
    /\ pumpHandle' = job[c]
    /\ UNCHANGED <<queueVars, pump, pub, running, job, fetchHandle>>

SpawnFetch(c) ==
    /\ CtlGo(c, "readSource", "storeFetch") /\ NobodyAt("storeFetch") /\ source
    /\ pub' = [p \in Publishers |-> IF p \in job[c] THEN "check" ELSE pub[p]]
    /\ UNCHANGED <<queueVars, pump, running, job, pumpHandle, fetchHandle>>

StartWithoutSource(c) ==
    /\ CtlGo(c, "readSource", "idle") /\ NobodyAt("storeFetch") /\ ~source
    /\ job' = [job EXCEPT ![c] = {}]
    /\ UNCHANGED <<queueVars, pump, pub, running, pumpHandle, fetchHandle>>

StoreFetchHandle(c) ==
    /\ CtlGo(c, "storeFetch", "idle") /\ NobodyAt("joinFetch")
    /\ fetchHandle' = job[c]
    /\ job' = [job EXCEPT ![c] = {}]
    /\ UNCHANGED <<queueVars, pump, pub, running, pumpHandle>>

StopSwap(c) ==
    /\ CtlGo(c, "idle", IF running THEN "close" ELSE "idle")
    /\ running' = FALSE
    /\ UNCHANGED <<queueVars, pump, pub, job, pumpHandle, fetchHandle>>

ShutdownSetClosed(c) ==
    /\ CtlGo(c, "close", "wake") /\ SetClosed
    /\ UNCHANGED <<pump, pub, running, job, pumpHandle, fetchHandle>>

ShutdownNotify(c) ==
    /\ CtlGo(c, "wake", "takePump") /\ NotifyWaiters
    /\ UNCHANGED <<pump, pub, running, job, pumpHandle, fetchHandle>>

TakePumpHandle(c) ==
    /\ CtlGo(c, "takePump", IF pumpHandle = {} THEN "takeFetch" ELSE "joinPump")
    /\ NobodyAt("joinPump")
    /\ pumpHandle' = {}
    /\ job' = [job EXCEPT ![c] = pumpHandle]
    /\ UNCHANGED <<queueVars, pump, pub, running, fetchHandle>>

JoinPump(c) ==
    /\ CtlGo(c, "joinPump", "takeFetch")
    /\ \A t \in job[c] : pump[t] = "done"
    /\ job' = [job EXCEPT ![c] = {}]
    /\ UNCHANGED <<queueVars, pump, pub, running, pumpHandle, fetchHandle>>

DropsFetchHandle == "idle"   \* faulty
AwaitsFetchHandle == "joinFetch"

TakeFetchHandle(c) ==
    /\ CtlGo(c, "takeFetch", IF fetchHandle = {} THEN "idle" ELSE AwaitsFetchHandle)
    /\ NobodyAt("joinFetch")
    /\ fetchHandle' = {}
    /\ job' = [job EXCEPT ![c] = fetchHandle]
    /\ UNCHANGED <<queueVars, pump, pub, running, pumpHandle>>

JoinFetch(c) ==
    /\ CtlGo(c, "joinFetch", "idle")
    /\ \A t \in job[c] : pub[t] = "done"
    /\ job' = [job EXCEPT ![c] = {}]
    /\ UNCHANGED <<queueVars, pump, pub, running, pumpHandle, fetchHandle>>

OutsideControl == <<hand, sinkIdx, outbox, nextSrc, setupVars, intake, delivery>>

(* The calls are up to the user; the steps of a call follow by themselves. *)
ControlCall(c) == (StartSwap(c) \/ StopSwap(c)) /\ UNCHANGED OutsideControl

ControlStep(c) ==
    /\ \/ SpawnPump(c) \/ StorePumpHandle(c)
       \/ SpawnFetch(c) \/ StartWithoutSource(c) \/ StoreFetchHandle(c)
       \/ ShutdownSetClosed(c) \/ ShutdownNotify(c)
       \/ TakePumpHandle(c) \/ JoinPump(c) \/ TakeFetchHandle(c) \/ JoinFetch(c)
    /\ UNCHANGED OutsideControl

-----------------------------------------------------------------------------
AttachSource ==
    /\ ~source /\ NobodyAt("storeFetch")
    /\ source' = TRUE
    /\ UNCHANGED sinks

(* The write lock waits until no dispatch holds the read lock. *)
Subscribe ==
    /\ sinks < MaxSinks /\ \A t \in Tasks : sinkIdx[t] = 0
    /\ sinks' = sinks + 1
    /\ UNCHANGED source

Setup ==
    /\ AttachSource \/ Subscribe
    /\ UNCHANGED <<queueVars, pumpVars, pubVars, ctlVars, intake, delivery>>

Call(m) == CallPublish(m) /\ UNCHANGED <<pumpVars, ctlVars, setupVars, delivery>>

Next ==
    \/ \E t \in Tasks : PumpStep(t) \/ FetchLoop(t) \/ FetchNext(t)
    \/ \E p \in Publishers : PublishStep(p)
    \/ \E m \in Manual : Call(m)
    \/ \E c \in Controllers : ControlCall(c) \/ ControlStep(c)
    \/ Setup

Spec == Init /\ [][Next]_vars

(* The runtime polls every task that can go on; a JoinHandle, a mutex and a *)
(* woken Notify make their task runnable.  Nothing forces a user's call, or *)
(* a next_event that has nothing to return, to come about.                  *)
Fairness ==
    /\ \A t \in Tasks : WF_vars(PumpStep(t)) /\ WF_vars(FetchLoop(t))
    /\ \A p \in Publishers : WF_vars(PublishStep(p))
    /\ \A c \in Controllers : WF_vars(ControlStep(c))

FairSpec == Spec /\ Fairness

(* With a source that hands over each event it has.  One that polls, such   *)
(* as MockEventSource, then answers every next_event; one that does not,    *)
(* such as EthersEventSource, is silent once it has no event left.          *)
PollingSpec == FairSpec /\ \A t \in Tasks : WF_vars(FetchNext(t))

-----------------------------------------------------------------------------
(* Properties.  Those marked ( * ) hold when one caller at a time starts and *)
(* stops the listener, as the application does.                              *)

PumpLive(t)  == pump[t] \notin {"none", "done"}
FetchLive(t) == pub[t] \notin {"none", "done"}
Idle         == \A c \in Controllers : ctl[c] = "idle"
In(e, s)     == \E i \in DOMAIN s : s[i] = e

(* ( * ) Between publish and the end of its dispatch an event is in the     *)
(* queue or in the hand of the one pump, and events are dispatched in the   *)
(* order they were pushed: through every start, stop and lost wake-up,      *)
(* nothing that was pushed is lost, duplicated or overtaken.                *)
NothingLostOrOvertaken ==
    \E h \in {hand[t] : t \in Tasks} \cup {<<>>} :
        /\ \A t \in Tasks : hand[t] # <<>> => hand[t] = h
        /\ accepted = dispatched \o h \o items

(* What the queue took, and so what any sink sees, is in the store: publish *)
(* appends before it enqueues, and gives up when the append fails.          *)
AcceptedIsStored == \A i \in DOMAIN accepted : In(accepted[i], stored)

Increasing(s) ==
    \A i, j \in DOMAIN s :
        i < j /\ s[i] \notin Manual /\ s[j] \notin Manual => s[i] < s[j]

(* ( * ) Events of the source keep the source's order in the store, in the  *)
(* queue and at every sink, across restarts: no two fetch tasks or pumps    *)
(* ever work side by side.                                                  *)
SourceOrderKept ==
    /\ Increasing(stored)
    /\ Increasing(accepted)
    /\ \A s \in Sinks : Increasing(seen[s])

(* ( * ) Once stop() has returned, no task of the listener is left: no sink *)
(* is called and the source is not read any more.                           *)
QuietWhenStopped ==
    Idle /\ ~running => \A t \in Tasks : ~PumpLive(t) /\ ~FetchLive(t)

(* A sink is called only with events every sink before it has accepted: the *)
(* logging sink never shows an event the router failed on.                  *)
SinkSeesWhatEarlierTook ==
    \A s \in Sinks : s > 1 =>
        \A i \in DOMAIN seen[s] :
            /\ In(seen[s][i], seen[s - 1])
            /\ <<s - 1, seen[s][i]>> \notin failed

(* ( * ) The listener implements the ordered feed. *)
Feed == INSTANCE OrderedFeed WITH log <- accepted
ImplementsOrderedFeed == Feed!FeedSpec

(* ( * ) A queued event reaches its dispatch, unless the listener is        *)
(* stopped: between enqueue and dequeue no wake-up is lost.                 *)
QueuedIsDispatched ==
    \A e \in Events :
        In(e, items) /\ running ~> In(e, dispatched) \/ ~running

(* stop() gets past its wait for the pump task.                             *)
StopJoinsPump ==
    \A c \in Controllers : ctl[c] = "joinPump" ~> ctl[c] # "joinPump"

(* stop() gets past its wait for the fetch task: it does if next_event      *)
(* always answers, and may not if the source can be silent.                 *)
StopJoinsFetch ==
    \A c \in Controllers : ctl[c] = "joinFetch" ~> ctl[c] # "joinFetch"

(* A source attached to a running listener is being read.                   *)
AttachedSourceIsRead ==
    Idle /\ running /\ source => \E t \in Tasks : FetchLive(t)
=============================================================================
