------------------------------ MODULE PoolSync ------------------------------
(***************************************************************************)
(* One pool's local state: the RouterSink of listen.rs that fetches a      *)
(* snapshot from the chain at the first event, the PancakeSwap handler     *)
(* that applies each event to the repository and saves the result, and the *)
(* HTTP requests that simulate swaps over the same shared repository and   *)
(* snapshot store (serve.rs, prepare_simulation of simulate.rs).           *)
(*                                                                         *)
(* The reserve of one token stands for a pool's state.  The events reach   *)
(* the sink in chain order, one at a time: module EventListener.  Of a V3  *)
(* pool's events these are the ones that move tokens as they say, Swap and *)
(* Mint; Burn, Collect and Initialize are left out.                        *)
(***************************************************************************)
EXTENDS Integers, Sequences, FiniteSets

CONSTANTS
    MaxTx,         \* bound: transactions on the pool
    Deltas,        \* what a Swap, Mint or (V2) Burn can add to the reserve
    MaxReserve,    \* the largest u128
    FirstReserve,  \* the reserve of a pool older than the listener
    SyncFirst,     \* a V2 pair logs Sync before the Mint, Burn or Swap
    StoreMayFail,  \* snapshot_store.save can return an error
    Requests,      \* HTTP requests that name this pool
    NoState        \* None

ASSUME PoolAssumption ==
    /\ MaxTx \in Nat
    /\ Deltas \subseteq Int
    /\ MaxReserve \in Nat
    /\ FirstReserve \in 0..MaxReserve
    /\ SyncFirst \in BOOLEAN
    /\ StoreMayFail \in BOOLEAN
    /\ NoState \notin Nat

Reserves == 0..MaxReserve
States   == Reserves \cup {NoState}
Events   == [what : {"created", "delta", "sync"}, block : Nat \ {0},
             delta : Int, reserve : Reserves]

VARIABLES
    kind,          \* pool_type: "v2" or "v3"
    bootstrapped,  \* the pool is in v2_tokens or v3_pools
    whitelisted,   \* should_track_pool
    base,          \* the reserve on chain when the listener starts, if any
    logs,          \* the events of the pool, each with the reserve after its
                   \* transaction
    handled,       \* how many of them the sink has returned from
    sink,          \* where handle_event is
    loaded,        \* the snapshot it holds
    repo,          \* repository: the pool's snapshot
    store,         \* snapshot_store: the pool's snapshot
    req,           \* where each request is
    found,         \* the snapshot it loaded from the store
    lost,          \* history: blocks of the events whose handling failed and
                   \* whose effect on the state is missing
    overwritten,   \* history: a request replaced a newer state; until a Sync
    unsaved,       \* history: the last save failed
    known          \* history: the state has been read from the chain

poolVars == <<kind, bootstrapped, whitelisted, base>>
sinkVars == <<handled, sink, loaded>>
reqVars  == <<req, found>>
history  == <<lost, overwritten, unsaved, known>>
vars == <<poolVars, logs, sinkVars, repo, store, reqVars, history>>

SinkPcs == {"idle", "fetch", "ensureUpsert", "ensureSave", "handle", "upsert", "save"}
ReqPcs  == {"off", "get", "load", "upsert", "sample", "done"}

TypeOK ==
    /\ kind \in {"v2", "v3"} /\ bootstrapped \in BOOLEAN /\ whitelisted \in BOOLEAN
    /\ base \in States
    /\ logs \in Seq(Events)
    /\ handled \in 0..Len(logs)
    /\ sink \in SinkPcs
    /\ loaded \in States
    /\ repo \in States
    /\ store \in States
    /\ req \in [Requests -> ReqPcs]
    /\ found \in [Requests -> States]
    /\ lost \subseteq Nat \ {0}
    /\ overwritten \in BOOLEAN /\ unsaved \in BOOLEAN /\ known \in BOOLEAN

(* A V3 pool is known only from its bootstrap file. *)
Init ==
    /\ kind \in {"v2", "v3"}
    /\ bootstrapped \in (IF kind = "v3" THEN {TRUE} ELSE BOOLEAN)
    /\ whitelisted \in BOOLEAN
    /\ base \in (IF kind = "v3" THEN {FirstReserve} ELSE {FirstReserve, NoState})
    /\ logs = <<>> /\ handled = 0 /\ sink = "idle" /\ loaded = NoState
    /\ repo = NoState /\ store = NoState
    /\ req = [r \in Requests |-> "off"] /\ found = [r \in Requests |-> NoState]
    /\ lost = {} /\ overwritten = FALSE /\ unsaved = FALSE /\ known = FALSE

SinkGo(a, b)   == sink = a /\ sink' = b
ReqGo(r, a, b) == req[r] = a /\ req' = [req EXCEPT ![r] = b]

-----------------------------------------------------------------------------
(* The chain *)

ReserveAfter(n) == IF n = 0 THEN base ELSE logs[n].reserve
Tip == IF logs = <<>> THEN 0 ELSE logs[Len(logs)].block

(* eth_call at a block sees the state after the first n events. *)
EndOf(block, n) == \A k \in DOMAIN logs : k <= n <=> logs[k].block <= block

LogsOf(block, d, r) ==
    LET log(what) == [what |-> what, block |-> block, delta |-> d, reserve |-> r]
    IN CASE kind = "v3" -> <<log("delta")>>
         [] kind = "v2" /\ SyncFirst -> <<log("sync"), log("delta")>>
         [] kind = "v2" /\ ~SyncFirst -> <<log("delta"), log("sync")>>

(* in the newest block or in the next one *)
CreatePair(block) ==
    /\ ReserveAfter(Len(logs)) = NoState
    /\ logs' = Append(logs, [what |-> "created", block |-> block, delta |-> 0, reserve |-> 0])

Transact(block) ==
    /\ ReserveAfter(Len(logs)) # NoState
    /\ \E d \in Deltas :
        LET r == ReserveAfter(Len(logs)) + d IN
        r \in Reserves /\ logs' = logs \o LogsOf(block, d, r)

Chain ==
    /\ Cardinality({n \in DOMAIN logs : logs[n].what # "sync"}) < MaxTx
    /\ \E block \in {Tip, Tip + 1} \ {0} : CreatePair(block) \/ Transact(block)
    /\ UNCHANGED <<poolVars, sinkVars, repo, store, reqVars, history>>

-----------------------------------------------------------------------------
(* handle_event of RouterSink: ensure_pool_initialized, then dispatch *)

Event == logs[handled + 1]

Return == handled' = handled + 1 /\ sink' = "idle"

(* the event is dropped: the pump logs the error *)
ReturnErr == Return /\ lost' = lost \cup {Event.block}

EnsureSkips == Event.what = "created" \/ ~bootstrapped \/ repo # NoState

EnsureGet ==
    /\ handled < Len(logs)
    /\ SinkGo("idle", IF EnsureSkips THEN "handle" ELSE "fetch")
    /\ UNCHANGED <<handled, loaded, repo, store, history>>

SnapshotBlockItself == Event.block       \* faulty

SnapshotBlock == Event.block - 1

(* The call fails when the pool has no code yet, and may fail anyhow. *)
EnsureFetch ==
    /\ sink = "fetch"
    /\ \/ /\ \E n \in 0..Len(logs) :
                /\ EndOf(SnapshotBlock, n) /\ ReserveAfter(n) # NoState
                /\ loaded' = ReserveAfter(n)
          /\ sink' = "ensureUpsert"
          /\ UNCHANGED <<handled, lost>>
       \/ ReturnErr /\ UNCHANGED loaded
    /\ UNCHANGED <<repo, store, overwritten, unsaved, known>>

(* a snapshot makes good what was lost in the blocks before it *)
EnsureUpsert ==
    /\ SinkGo("ensureUpsert", "ensureSave")
    /\ repo' = loaded
    /\ known' = TRUE
    /\ lost' = {b \in lost : b >= Event.block}
    /\ UNCHANGED <<handled, loaded, store, overwritten, unsaved>>

SaveStateRead ==                         \* faulty: the state before the event
    /\ store' = ReserveAfter(handled) /\ unsaved' = FALSE

SaveUpserted ==
    \/ store' = loaded /\ unsaved' = FALSE
    \/ StoreMayFail /\ UNCHANGED store /\ unsaved' = TRUE

(* only a warning if it fails *)
EnsureSave ==
    /\ SinkGo("ensureSave", "handle")
    /\ SaveUpserted
    /\ UNCHANGED <<handled, loaded, repo, lost, overwritten, known>>

(* apply_pancake_event, update_from_event: the state after an event, if the *)
(* checked arithmetic allows it; V3 saturates additions                     *)
AppliedUnchecked(state, e) ==            \* faulty
    IF e.what = "sync" THEN {e.reserve} ELSE {state + e.delta}

Applied(state, e) ==
    LET sum == state + e.delta IN
    CASE e.what = "sync" -> {e.reserve}
      [] e.what = "delta" /\ kind = "v3" /\ sum > MaxReserve -> {MaxReserve}
      [] OTHER -> {sum} \cap Reserves

HandleCreated ==
    /\ sink = "handle" /\ Event.what = "created"
    /\ IF whitelisted
       THEN loaded' = 0 /\ sink' = "upsert" /\ UNCHANGED handled
       ELSE Return /\ UNCHANGED loaded
    /\ UNCHANGED <<repo, store, history>>

(* an event of a pool without a state is ignored *)
HandleUnknown ==
    /\ sink = "handle" /\ Event.what # "created" /\ repo = NoState
    /\ Return
    /\ UNCHANGED <<loaded, repo, store, history>>

HandleEvent ==
    /\ sink = "handle" /\ Event.what # "created" /\ repo # NoState
    /\ \/ \E s \in Applied(repo, Event) :
             loaded' = s /\ sink' = "upsert" /\ UNCHANGED <<handled, lost>>
       \/ Applied(repo, Event) = {} /\ ReturnErr /\ UNCHANGED loaded
    /\ UNCHANGED <<repo, store, overwritten, unsaved, known>>

(* a Sync makes good all that went wrong before *)
HandleUpsert ==
    /\ SinkGo("upsert", "save")
    /\ repo' = loaded
    /\ known' = TRUE
    /\ lost' = (IF Event.what = "sync" THEN {} ELSE lost)
    /\ overwritten' = (overwritten /\ Event.what # "sync")
    /\ UNCHANGED <<handled, loaded, store, unsaved>>

HandleSave ==
    /\ sink = "save"
    /\ Return
    /\ SaveUpserted
    /\ UNCHANGED <<loaded, repo, lost, overwritten, known>>

Sink ==
    /\ \/ EnsureGet \/ EnsureFetch \/ EnsureUpsert \/ EnsureSave
       \/ HandleCreated \/ HandleUnknown \/ HandleEvent \/ HandleUpsert \/ HandleSave
    /\ UNCHANGED <<poolVars, logs, reqVars>>

-----------------------------------------------------------------------------
(* A request: prepare_simulation *)

Ask(r) == ReqGo(r, "off", "get") /\ UNCHANGED <<found, repo, overwritten>>

RequestGet(r) ==
    /\ ReqGo(r, "get", IF repo = NoState THEN "load" ELSE "done")
    /\ UNCHANGED <<found, repo, overwritten>>

RequestLoad(r) ==
    /\ ReqGo(r, "load", IF store = NoState THEN "sample" ELSE "upsert")
    /\ found' = [found EXCEPT ![r] = store]
    /\ UNCHANGED <<repo, overwritten>>

RequestUpsert(r) ==
    /\ ReqGo(r, "upsert", "done")
    /\ repo' = found[r]
    /\ overwritten' = (overwritten \/ repo # found[r])
    /\ UNCHANGED found

RequestSampleAsPool(r) ==                \* faulty
    /\ ReqGo(r, "sample", "done")
    /\ repo' = MaxReserve
    /\ UNCHANGED <<found, overwritten>>

(* the sample pool goes into the repository under an id of its own *)
RequestSample(r) == ReqGo(r, "sample", "done") /\ UNCHANGED <<found, repo, overwritten>>

Request(r) ==
    /\ \/ Ask(r) \/ RequestGet(r) \/ RequestLoad(r) \/ RequestUpsert(r) \/ RequestSample(r)
    /\ UNCHANGED <<poolVars, logs, sinkVars, store, lost, unsaved, known>>

Next == Chain \/ Sink \/ \E r \in Requests : Request(r)

Spec == Init /\ [][Next]_vars

-----------------------------------------------------------------------------
(* Properties *)

(* the events whose effect the repository shows *)
Counted == IF sink = "save" THEN handled + 1 ELSE handled

(* What the repository holds is the state of the chain after the events    *)
(* handled so far: each counts exactly once, whether it was part of the    *)
(* snapshot, came after it in the same block or replaced the state, unless *)
(* an event was dropped or a request wrote over the state and no Sync has  *)
(* come since (ensure_v2_pool, ensure_v3_pool and the two handlers).       *)
Tracks == repo # NoState => repo = ReserveAfter(Counted)
LocalTracksChain == (lost = {} /\ ~overwritten) => Tracks

(* Requests that share the repository with the listener do not disturb it. *)
RequestsAreHarmless == lost = {} => Tracks

(* No pool has a local state that does not come from the chain: the sample *)
(* pool a request falls back to never passes for it (prepare_simulation).  *)
PoolStateComesFromChain == repo # NoState => known

(* Between two events, the snapshot to restore from is the state in use,   *)
(* unless the last save failed or a request wrote over the state.          *)
StoreKeepsUp == (sink = "idle" /\ ~unsaved /\ ~overwritten) => store = repo
=============================================================================
