--------------------------- MODULE PoolSyncProofs ---------------------------
(***************************************************************************)
(* Theorems about PoolSync, for every value of its constants.              *)
(***************************************************************************)
EXTENDS PoolSync, TLAPS

(* A pool's deltas come before the reserves they lead to. *)
InOrder == ~SyncFirst \/ kind = "v3"

(***************************************************************************)
(* What the chain's log looks like: blocks in order, each event's reserve  *)
(* the one before it and its delta if they are in order, and only the      *)
(* first event a creation.                                                 *)
(***************************************************************************)
LogsOK ==
    /\ \A m, n \in DOMAIN logs : m <= n => logs[m].block <= logs[n].block
    /\ \A n \in DOMAIN logs :
          /\ InOrder /\ logs[n].what = "delta" =>
                ReserveAfter(n - 1) \in Nat /\ logs[n].reserve = ReserveAfter(n - 1) + logs[n].delta
          /\ logs[n].what = "created" => n = 1 /\ base = NoState /\ logs[n].reserve = 0

AtEvent == sink # "idle" => handled < Len(logs)

TypeInv == TypeOK /\ AtEvent /\ LogsOK

(* A state exists somewhere only if the repository has one. *)
Presence ==
    /\ repo = NoState => store = NoState /\ sink \notin {"ensureSave", "save"}
    /\ repo = NoState /\ bootstrapped /\ sink = "handle" => Event.what = "created"
    /\ sink \in {"fetch", "ensureUpsert"} =>
          repo = NoState /\ bootstrapped /\ Event.what # "created"
    /\ sink \in {"ensureUpsert", "ensureSave", "upsert", "save"} => loaded # NoState
    /\ \A r \in Requests : req[r] = "upsert" => found[r] # NoState /\ repo # NoState

(* While a bootstrapped pool has no state, its events are lost one by one. *)
Missed ==
    bootstrapped /\ repo = NoState =>
        \A k \in 1..handled : logs[k].block \in lost \/ logs[k].what = "created"

(* The snapshot in hand is the state the repository is to have next. *)
SnapshotGood ==
    sink = "ensureUpsert" /\ Event.block \notin lost => loaded = ReserveAfter(handled)

ResultGood ==
    InOrder /\ sink = "upsert" /\ (Event.what = "delta" => lost = {} /\ ~overwritten)
        => loaded = Event.reserve

Tracking == Missed /\ SnapshotGood /\ ResultGood /\ (InOrder => LocalTracksChain)

-----------------------------------------------------------------------------
(* The chain only grows: events and the reserves after them stay. *)
LEMMA ChainGrows ==
    ASSUME TypeInv, Chain
    PROVE  /\ logs' \in Seq(Events) /\ LogsOK'
           /\ Len(logs) <= Len(logs')
           /\ \A n \in 1..Len(logs) : logs'[n] = logs[n]
           /\ \A n \in 0..Len(logs) : ReserveAfter(n)' = ReserveAfter(n)
<1>1. PICK block \in {Tip, Tip + 1} \ {0} : CreatePair(block) \/ Transact(block)
  BY DEF Chain
<1>2. /\ logs \in Seq(Events) /\ base \in States /\ base' = base
      /\ kind \in {"v2", "v3"} /\ kind' = kind
      /\ Len(logs) \in Nat /\ DOMAIN logs = 1..Len(logs)
  BY DEF TypeInv, TypeOK, Chain, poolVars
<1>3. /\ block \in Nat \ {0}
      /\ \A n \in 1..Len(logs) : logs[n].block <= block
  <2>1. CASE logs = <<>>
    BY <2>1, <1>2 DEF Tip
  <2>2. CASE logs # <<>>
    <3>1. Len(logs) \in 1..Len(logs) /\ logs[Len(logs)] \in Events
      BY <2>2, <1>2
    <3>2. Tip = logs[Len(logs)].block /\ Tip \in Nat \ {0}
      BY <2>2, <3>1 DEF Tip, Events
    <3>3. ASSUME NEW n \in 1..Len(logs) PROVE logs[n].block <= Tip /\ logs[n].block \in Nat
      <4>1. logs[n].block <= logs[Len(logs)].block
        BY <1>2, <3>1 DEF TypeInv, LogsOK
      <4>2. logs[n] \in Events
        BY <1>2
      <4> QED BY <4>1, <4>2, <3>2 DEF Events
    <3> QED BY <3>2, <3>3
  <2> QED BY <2>1, <2>2
<1>4. CASE CreatePair(block)
  <2> DEFINE e == [what |-> "created", block |-> block, delta |-> 0, reserve |-> 0]
  <2>1. e \in Events
    BY <1>3, PoolAssumption DEF Events, Reserves
  <2>2. logs = <<>> /\ base = NoState
    <3>1. Len(logs) = 0
      <4> SUFFICES ASSUME Len(logs) # 0 PROVE FALSE
        OBVIOUS
      <4>1. logs[Len(logs)] \in Events
        BY <1>2
      <4> QED BY <4>1, <1>2, <1>4, PoolAssumption DEF CreatePair, ReserveAfter, Events, Reserves
    <3> QED BY <3>1, <1>2, <1>4 DEF CreatePair, ReserveAfter
  <2>3. logs' = <<e>>
    BY <2>1, <2>2, <1>4 DEF CreatePair
  <2> HIDE DEF e
  <2>4. Len(logs') = 1 /\ logs'[1] = e /\ Len(logs) = 0
    BY <2>2, <2>3
  <2>5. logs' \in Seq(Events) /\ \A n \in 0..Len(logs) : ReserveAfter(n)' = ReserveAfter(n)
    BY <2>1, <2>3, <2>4, <1>2 DEF ReserveAfter
  <2>6. LogsOK'
    <3>1. DOMAIN logs' = {1}
      BY <2>4, <2>5
    <3>2. e.what = "created" /\ e.reserve = 0 /\ e.block = block
      BY DEF e
    <3> QED BY <3>1, <3>2, <2>2, <2>4, <1>2, <1>3 DEF LogsOK
  <2> QED BY <2>4, <2>5, <2>6
<1>5. CASE Transact(block)
  <2>1. PICK d \in Deltas :
           /\ ReserveAfter(Len(logs)) + d \in Reserves
           /\ logs' = logs \o LogsOf(block, d, ReserveAfter(Len(logs)) + d)
    BY <1>5 DEF Transact
  <2> DEFINE r == ReserveAfter(Len(logs)) + d
             e == [what |-> "delta", block |-> block, delta |-> d, reserve |-> r]
             s == [what |-> "sync", block |-> block, delta |-> d, reserve |-> r]
  <2>2. e \in Events /\ s \in Events
    BY <2>1, <1>3, PoolAssumption DEF Events
  <2>3. ReserveAfter(Len(logs)) \in Nat
    <3>1. ReserveAfter(Len(logs)) # NoState
      BY <1>5 DEF Transact
    <3>2. Len(logs) # 0 => logs[Len(logs)] \in Events
      BY <1>2
    <3> QED BY <3>1, <3>2, <1>2, PoolAssumption DEF ReserveAfter, Events, States, Reserves
  <2>4. \/ logs' = logs \o <<e>>
        \/ logs' = logs \o <<e, s>>
        \/ logs' = logs \o <<s, e>> /\ ~InOrder
    BY <2>1, <1>2 DEF LogsOf, InOrder
  <2>5. /\ Len(logs') \in {Len(logs) + 1, Len(logs) + 2}
        /\ \A n \in 1..Len(logs) : logs'[n] = logs[n]
        /\ logs'[Len(logs) + 1] \in {e, s}
        /\ InOrder => logs'[Len(logs) + 1] = e
        /\ Len(logs') = Len(logs) + 2 => logs'[Len(logs) + 2] \in {e, s}
        /\ InOrder /\ Len(logs') = Len(logs) + 2 => logs'[Len(logs) + 2] = s
        /\ logs' \in Seq(Events)
    <3> HIDE DEF e, s
    <3>1. CASE logs' = logs \o <<e>>
      BY <3>1, <2>2, <1>2
    <3>2. CASE logs' = logs \o <<e, s>>
      <4>1. <<e, s>> \in Seq(Events) /\ Len(<<e, s>>) = 2
        BY <2>2
      <4> QED BY <3>2, <4>1, <2>2, <1>2
    <3>3. CASE logs' = logs \o <<s, e>> /\ ~InOrder
      <4>1. <<s, e>> \in Seq(Events) /\ Len(<<s, e>>) = 2
        BY <2>2
      <4> QED BY <3>3, <4>1, <2>2, <1>2
    <3> QED BY <3>1, <3>2, <3>3, <2>4
  <2>6. \A n \in 0..Len(logs) : ReserveAfter(n)' = ReserveAfter(n)
    BY <2>5, <1>2 DEF ReserveAfter
  <2>7. ASSUME NEW m \in DOMAIN logs', NEW n \in DOMAIN logs', m <= n
        PROVE  logs'[m].block <= logs'[n].block
    <3>1. \A k \in 1..Len(logs') : k > Len(logs) => logs'[k].block = block
      BY <2>5, <1>2
    <3>2. m \in 1..Len(logs') /\ n \in 1..Len(logs')
      BY <2>5
    <3>3. CASE n <= Len(logs)
      BY <3>2, <3>3, <2>5, <2>7, <1>2 DEF TypeInv, LogsOK
    <3>4. CASE n > Len(logs)
      BY <3>1, <3>2, <3>4, <2>5, <2>7, <1>2, <1>3
    <3> QED BY <3>2, <3>3, <3>4, <1>2
  <2>8. ASSUME NEW n \in DOMAIN logs'
        PROVE  /\ InOrder /\ logs'[n].what = "delta" =>
                    /\ ReserveAfter(n - 1)' \in Nat
                    /\ logs'[n].reserve = ReserveAfter(n - 1)' + logs'[n].delta
               /\ logs'[n].what = "created" => n = 1 /\ base' = NoState /\ logs'[n].reserve = 0
    <3>1. /\ n \in 1..Len(logs')
          /\ n <= Len(logs) \/ n = Len(logs) + 1 \/ n = Len(logs) + 2
      <4>1. n \in 1..Len(logs') /\ Len(logs') \in {Len(logs) + 1, Len(logs) + 2}
        BY <2>5
      <4> QED BY <4>1, <1>2
    <3>2. CASE n <= Len(logs)
      <4>1. n \in DOMAIN logs /\ n - 1 \in 0..Len(logs) /\ logs'[n] = logs[n]
        BY <3>1, <3>2, <2>5, <1>2
      <4>2. ReserveAfter(n - 1)' = ReserveAfter(n - 1)
        BY <4>1, <2>6
      <4> QED BY <4>1, <4>2, <1>2 DEF TypeInv, LogsOK
    <3>3. CASE n = Len(logs) + 1
      <4>1. ReserveAfter(n - 1)' = ReserveAfter(Len(logs))
        <5>1. n - 1 = Len(logs)
          BY <3>3, <1>2
        <5> QED BY <5>1, <2>6, <1>2
      <4> QED BY <4>1, <3>3, <2>3, <2>5
    <3>4. CASE n = Len(logs) + 2
      BY <3>1, <3>4, <2>5, <1>2
    <3> QED BY <3>1, <3>2, <3>3, <3>4
  <2>9. LogsOK'
    <3>1. InOrder' <=> InOrder
      BY <1>2 DEF InOrder
    <3> QED BY <2>7, <2>8, <3>1 DEF LogsOK
  <2>10. Len(logs) <= Len(logs')
    BY <2>5, <1>2
  <2> QED BY <2>5, <2>6, <2>9, <2>10
<1> QED BY <1>1, <1>4, <1>5

(* What an event of the log is. *)
LEMMA EventFacts ==
    ASSUME TypeInv, sink # "idle" \/ handled < Len(logs)
    PROVE  /\ Event \in Events
           /\ Event = logs[handled + 1] /\ handled + 1 \in 1..Len(logs)
           /\ ReserveAfter(handled + 1) = Event.reserve
           /\ Event.reserve \in Reserves
<1>1. handled \in Nat /\ handled + 1 \in 1..Len(logs) /\ logs \in Seq(Events)
  BY DEF TypeInv, TypeOK, AtEvent
<1>2. logs[handled + 1] \in Events /\ handled + 1 # 0
  BY <1>1
<1> QED BY <1>1, <1>2 DEF Event, ReserveAfter, Events

(* No reserve of the log is NoState: only the one before it can be. *)
LEMMA StateAfter ==
    ASSUME TypeInv, NEW n \in 0..Len(logs)
    PROVE  /\ ReserveAfter(n) \in States
           /\ ReserveAfter(n) = NoState => n = 0 /\ base = NoState
<1>1. n # 0 => logs[n] \in Events
  BY DEF TypeInv, TypeOK
<1> QED BY <1>1, PoolAssumption DEF TypeInv, TypeOK, ReserveAfter, Events, States, Reserves

(* What applying an event can give. *)
LEMMA AppliedFacts ==
    ASSUME TypeInv, sink # "idle", NEW s \in Applied(repo, Event), repo # NoState
    PROVE  /\ s \in Reserves
           /\ Event.what = "sync" => s = Event.reserve
           /\ InOrder /\ Event.what = "delta" /\ repo = ReserveAfter(handled)
                 => s = Event.reserve
<1>1. Event \in Events /\ Event = logs[handled + 1] /\ handled + 1 \in 1..Len(logs)
      /\ Event.reserve \in Reserves /\ Event.delta \in Int
  BY EventFacts DEF Events
<1>2. InOrder /\ Event.what = "delta" => Event.reserve = ReserveAfter(handled) + Event.delta
  <2>1. handled \in Nat /\ (handled + 1) - 1 = handled
    BY DEF TypeInv, TypeOK
  <2>2. handled + 1 \in DOMAIN logs
    BY <1>1 DEF TypeInv, TypeOK
  <2> QED BY <1>1, <2>1, <2>2 DEF TypeInv, LogsOK
<1>3. repo \in Nat /\ MaxReserve \in Nat
  BY PoolAssumption DEF TypeInv, TypeOK, States, Reserves
<1>4. CASE Event.what = "sync"
  BY <1>1, <1>4 DEF Applied
<1>5. CASE Event.what # "sync"
  <2> DEFINE sum == repo + Event.delta
  <2>1. sum \in Int
    BY <1>1, <1>3
  <2>2. \/ s = MaxReserve /\ Event.what = "delta" /\ sum > MaxReserve
        \/ s = sum /\ s \in Reserves
    BY <1>5 DEF Applied
  <2>3. s \in Reserves
    BY <2>2, <1>3 DEF Reserves
  <2>4. InOrder /\ Event.what = "delta" /\ repo = ReserveAfter(handled) => s = Event.reserve
    BY <2>1, <2>2, <1>1, <1>2, <1>3 DEF Reserves
  <2> QED BY <2>3, <2>4, <1>5
<1> QED BY <1>4, <1>5

-----------------------------------------------------------------------------
(* Types *)

(* Nothing has happened to a pool at the start. *)
LEMMA TypeInvInit == Init => TypeInv
<1> SUFFICES ASSUME Init PROVE TypeInv
  OBVIOUS
<1>1. base \in States /\ bootstrapped \in BOOLEAN /\ NoState \in States
  BY PoolAssumption DEF Init, States, Reserves
<1>2. logs = <<>> /\ logs \in Seq(Events) /\ Len(logs) = 0
  BY DEF Init
<1>3. LogsOK
  BY <1>2 DEF LogsOK
<1>4. TypeOK
  <2>1. req \in [Requests -> ReqPcs] /\ found \in [Requests -> States]
    BY <1>1 DEF Init, ReqPcs
  <2>2. handled \in 0..Len(logs) /\ sink \in SinkPcs /\ lost \subseteq Nat \ {0}
    BY <1>2 DEF Init, SinkPcs
  <2>3. /\ whitelisted \in BOOLEAN /\ overwritten \in BOOLEAN
        /\ unsaved \in BOOLEAN /\ known \in BOOLEAN
    BY DEF Init
  <2>4. /\ kind \in {"v2", "v3"} /\ loaded \in States /\ repo \in States
        /\ store \in States
    BY <1>1 DEF Init
  <2> QED BY <1>1, <1>2, <2>1, <2>2, <2>3, <2>4 DEF TypeOK
<1> QED BY <1>3, <1>4 DEF Init, TypeInv, AtEvent

(* handle_event moves along its calls and past its event, never past the log. *)
LEMMA TypeInvSink == TypeInv /\ Sink => TypeInv'
<1> SUFFICES ASSUME TypeInv, Sink PROVE TypeInv'
  OBVIOUS
<1>1. LogsOK' /\ UNCHANGED <<poolVars, logs, reqVars>> /\ Len(logs) \in Nat
  BY DEF Sink, poolVars, TypeInv, TypeOK, LogsOK, InOrder, ReserveAfter
<1>2. sink # "idle" => Event \in Events /\ handled + 1 \in 0..Len(logs)
  BY EventFacts DEF TypeInv, TypeOK
<1> USE <1>1 DEF TypeInv, TypeOK, AtEvent, SinkPcs, poolVars, reqVars, history
<1>3. CASE EnsureGet
  BY <1>3 DEF EnsureGet, SinkGo
<1>4. CASE EnsureFetch
  <2>1. CASE ReturnErr /\ UNCHANGED loaded
    BY <2>1, <1>2, <1>4 DEF EnsureFetch, ReturnErr, Return, Events
  <2>2. CASE \E n \in 0..Len(logs) :
                /\ EndOf(SnapshotBlock, n) /\ ReserveAfter(n) # NoState
                /\ loaded' = ReserveAfter(n)
    BY <2>2, <1>2, <1>4, StateAfter DEF EnsureFetch, ReturnErr, Return, Events
  <2> QED BY <1>4, <2>1, <2>2 DEF EnsureFetch
<1>5. CASE EnsureUpsert
  BY <1>5 DEF EnsureUpsert, SinkGo
<1>6. CASE EnsureSave
  BY <1>6 DEF EnsureSave, SaveUpserted, SinkGo
<1>7. CASE HandleCreated
  <2>1. 0 \in States
    BY PoolAssumption DEF States, Reserves
  <2> QED BY <2>1, <1>2, <1>7 DEF HandleCreated, Return
<1>8. CASE HandleUnknown
  BY <1>2, <1>8 DEF HandleUnknown, Return
<1>9. CASE HandleEvent
  <2>1. CASE Applied(repo, Event) = {} /\ ReturnErr /\ UNCHANGED loaded
    BY <2>1, <1>2, <1>9 DEF HandleEvent, ReturnErr, Return, Events
  <2>2. CASE \E s \in Applied(repo, Event) :
               loaded' = s /\ sink' = "upsert" /\ UNCHANGED <<handled, lost>>
    <3>1. loaded' \in Reserves
      BY <2>2, <1>9, AppliedFacts DEF HandleEvent
    <3> QED BY <2>2, <3>1, <1>9 DEF HandleEvent, States
  <2> QED BY <1>9, <2>1, <2>2 DEF HandleEvent
<1>10. CASE HandleUpsert
  BY <1>10 DEF HandleUpsert, SinkGo
<1>11. CASE HandleSave
  BY <1>2, <1>11 DEF HandleSave, SaveUpserted, Return
<1> QED BY <1>3, <1>4, <1>5, <1>6, <1>7, <1>8, <1>9, <1>10, <1>11 DEF Sink

(* Every step keeps the types and the shape of the log. *)
LEMMA TypeInvStep == TypeInv /\ [Next]_vars => TypeInv'
<1> SUFFICES ASSUME TypeInv, [Next]_vars PROVE TypeInv'
  OBVIOUS
<1>1. CASE Chain
  <2>1. Len(logs) \in Nat /\ Len(logs') \in Nat
    BY <1>1, ChainGrows DEF TypeInv, TypeOK
  <2> QED BY <1>1, <2>1, ChainGrows DEF Chain, TypeInv, TypeOK, AtEvent, poolVars, sinkVars,
             reqVars, history
<1>2. CASE Sink
  BY <1>2, TypeInvSink
<1>3. ASSUME NEW r \in Requests, Request(r) PROVE TypeInv'
  <2>1. LogsOK' /\ AtEvent'
    BY <1>3 DEF Request, TypeInv, LogsOK, InOrder, AtEvent, ReserveAfter, poolVars, sinkVars
  <2>2. /\ req' \in [Requests -> ReqPcs] /\ found' \in [Requests -> States]
        /\ repo' \in States
    BY <1>3 DEF Request, Ask, RequestGet, RequestLoad, RequestUpsert, RequestSample, ReqGo,
       TypeInv, TypeOK, ReqPcs
  <2>3. overwritten' \in BOOLEAN
    BY <1>3, Zenon DEF Request, Ask, RequestGet, RequestLoad, RequestUpsert, RequestSample,
       TypeInv, TypeOK
  <2> QED BY <2>3, <1>3, <2>1, <2>2 DEF Request, TypeInv, TypeOK, poolVars, sinkVars
<1>4. CASE UNCHANGED vars
  BY <1>4 DEF vars, TypeInv, TypeOK, AtEvent, LogsOK, InOrder, ReserveAfter, poolVars,
     sinkVars, reqVars, history
<1> QED BY <1>1, <1>2, <1>3, <1>4 DEF Next

(***************************************************************************)
(* Every variable keeps its type: no reserve leaves its range, and the     *)
(* sink never handles an event that is not there.                          *)
(***************************************************************************)
THEOREM TypeCorrect == Spec => []TypeOK
<1>1. TypeInv => TypeOK
  BY DEF TypeInv
<1> QED BY <1>1, TypeInvInit, TypeInvStep, PTL DEF Spec

-----------------------------------------------------------------------------
(* Where a state exists *)

(* An event stays what it is while the chain grows. *)
LEMMA EventStays ==
    ASSUME TypeInv, Chain, sink # "idle"
    PROVE  Event' = Event
<1>1. handled + 1 \in 1..Len(logs) /\ handled' = handled
  BY EventFacts DEF Chain, sinkVars
<1> QED BY <1>1, ChainGrows DEF Event

(* A pool gets its state from the sink; a request only puts one back. *)
LEMMA PresenceStep ==
    ASSUME TypeInv, Presence, [Next]_vars PROVE Presence'
<1>1. CASE Chain
  BY <1>1, EventStays DEF Chain, Presence, poolVars, sinkVars, reqVars, history
<1>2. CASE UNCHANGED vars
  BY <1>2 DEF Presence, Event, vars, poolVars, sinkVars, reqVars, history
<1>3. CASE Sink
  <2>1. UNCHANGED <<poolVars, logs, reqVars>>
    BY <1>3 DEF Sink
  <2> USE <2>1 DEF Presence, poolVars, reqVars, history
  <2>2. CASE EnsureGet
    BY <2>2 DEF EnsureGet, SinkGo, EnsureSkips, Event, SinkPcs
  <2>3. CASE EnsureFetch
    BY <2>3 DEF EnsureFetch, ReturnErr, Return, Event
  <2>4. CASE EnsureUpsert
    BY <2>4 DEF EnsureUpsert, SinkGo, Event
  <2>5. CASE EnsureSave
    BY <2>5 DEF EnsureSave, SaveUpserted, SinkGo, Event
  <2>6. CASE HandleCreated
    <3>1. 0 # NoState
      BY PoolAssumption
    <3> QED BY <3>1, <2>6 DEF HandleCreated, Return, Event
  <2>7. CASE HandleUnknown
    BY <2>7 DEF HandleUnknown, Return, Event
  <2>8. CASE HandleEvent
    <3>1. CASE Applied(repo, Event) = {} /\ ReturnErr /\ UNCHANGED loaded
      BY <3>1, <2>8 DEF HandleEvent, ReturnErr, Return, Event
    <3>2. CASE \E s \in Applied(repo, Event) :
                 loaded' = s /\ sink' = "upsert" /\ UNCHANGED <<handled, lost>>
      <4>1. loaded' \in Reserves
        BY <2>8, <3>2, AppliedFacts DEF HandleEvent
      <4>2. loaded' # NoState
        BY <4>1, PoolAssumption DEF Reserves
      <4> QED BY <2>8, <3>2, <4>2 DEF HandleEvent, Event
    <3> QED BY <2>8, <3>1, <3>2 DEF HandleEvent
  <2>9. CASE HandleUpsert
    BY <2>9 DEF HandleUpsert, SinkGo, Event
  <2>10. CASE HandleSave
    BY <2>10 DEF HandleSave, SaveUpserted, Return, Event
  <2> QED BY <1>3, <2>2, <2>3, <2>4, <2>5, <2>6, <2>7, <2>8, <2>9, <2>10 DEF Sink
<1>4. ASSUME NEW r \in Requests, Request(r) PROVE Presence'
  <2>1. UNCHANGED <<poolVars, logs, sinkVars, store>> /\ Event' = Event
    BY <1>4 DEF Request, Event, sinkVars
  <2>2. /\ repo # NoState => repo' # NoState
        /\ repo = NoState => repo' = NoState
        /\ req'[r] = "upsert" => found'[r] # NoState /\ repo' # NoState
        /\ \A q \in Requests \ {r} : req'[q] = req[q] /\ found'[q] = found[q]
    BY <1>4 DEF Presence, Request, Ask, RequestGet, RequestLoad, RequestUpsert,
       RequestSample, ReqGo, TypeInv, TypeOK
  <2>3. \A q \in Requests : req'[q] = "upsert" => found'[q] # NoState /\ repo' # NoState
    BY <2>2 DEF Presence
  <2> QED BY <2>1, <2>2, <2>3 DEF Presence, poolVars, sinkVars
<1> QED BY <1>1, <1>2, <1>3, <1>4 DEF Next

(* There is no state anywhere at the start. *)
LEMMA PresenceInit == Init => Presence
BY DEF Init, Presence

-----------------------------------------------------------------------------
(* What the repository holds *)

(* The end of the block before an event is a state before that event, and  *)
(* unless events of its block are lost, it is the one just before it.      *)
LEMMA SnapshotIsPrevious ==
    ASSUME TypeInv, Presence, Missed, sink = "fetch",
           NEW n \in 0..Len(logs), EndOf(SnapshotBlock, n), ReserveAfter(n) # NoState,
           Event.block \notin lost
    PROVE  ReserveAfter(n) = ReserveAfter(handled)
<1>1. /\ handled \in Nat /\ handled + 1 \in 1..Len(logs) /\ Event = logs[handled + 1]
      /\ Event.block \in Nat \ {0} /\ DOMAIN logs = 1..Len(logs) /\ Len(logs) \in Nat
  BY EventFacts DEF Events, TypeInv, TypeOK
<1>2. \A k \in 1..Len(logs) : logs[k].block \in Nat
  <2>1. \A k \in 1..Len(logs) : logs[k] \in Events
    BY DEF TypeInv, TypeOK
  <2> QED BY <2>1 DEF Events
<1>3. n <= handled
  BY <1>1 DEF EndOf, SnapshotBlock
<1>4. ASSUME n < handled PROVE FALSE
  <2>1. n + 1 \in 1..Len(logs) /\ n + 1 <= handled /\ n + 1 <= handled + 1 /\ ~(n + 1 <= n)
    BY <1>1, <1>4
  <2>2. logs[n + 1].block <= Event.block
    BY <1>1, <2>1 DEF TypeInv, LogsOK
  <2>3. ~(logs[n + 1].block <= Event.block - 1)
    BY <1>1, <2>1 DEF EndOf, SnapshotBlock
  <2>4. logs[n + 1].block = Event.block
    BY <1>1, <1>2, <2>1, <2>2, <2>3
  <2>5. logs[n + 1].what = "created"
    BY <1>1, <2>1, <2>4 DEF Missed, Presence
  <2>6. n + 1 = 1 /\ base = NoState
    BY <1>1, <2>1, <2>5 DEF TypeInv, LogsOK
  <2> QED BY <2>6 DEF ReserveAfter
<1> QED BY <1>1, <1>3, <1>4

(* handle_event keeps the repository on the track of the chain. *)
LEMMA TrackingSink ==
    ASSUME TypeInv, Presence, Tracking, Sink PROVE Tracking'
<1>1. /\ UNCHANGED <<poolVars, logs, reqVars>> /\ handled \in Nat
      /\ sink # "idle" => Event.block \in Nat
      /\ \A n \in Nat : ReserveAfter(n)' = ReserveAfter(n)
  BY EventFacts DEF Sink, TypeInv, TypeOK, Events, ReserveAfter, poolVars
<1> USE <1>1 DEF Tracking, Missed, SnapshotGood, ResultGood, LocalTracksChain, Tracks,
                 Counted, InOrder, poolVars, reqVars, history
<1>2. CASE EnsureGet
  BY <1>2 DEF EnsureGet, SinkGo
<1>3. CASE EnsureFetch
  <2>1. CASE ReturnErr /\ UNCHANGED loaded
    <3>1. sink' = "idle" /\ repo' = NoState /\ handled' = handled + 1
      BY <1>3, <2>1 DEF EnsureFetch, ReturnErr, Return, Presence
    <3>2. Missed'
      BY <1>3, <2>1, <3>1 DEF EnsureFetch, ReturnErr, Return, Presence, Event
    <3> QED BY <3>1, <3>2
  <2>2. CASE /\ \E n \in 0..Len(logs) :
                  /\ EndOf(SnapshotBlock, n) /\ ReserveAfter(n) # NoState
                  /\ loaded' = ReserveAfter(n)
             /\ sink' = "ensureUpsert"
             /\ UNCHANGED <<handled, lost>>
    <3>1. Event.block \notin lost => loaded' = ReserveAfter(handled)
      BY <1>3, <2>2, SnapshotIsPrevious DEF EnsureFetch
    <3> QED BY <1>3, <2>2, <3>1 DEF EnsureFetch, Presence, Event
  <2> QED BY <1>3, <2>1, <2>2 DEF EnsureFetch
<1>4. CASE EnsureUpsert
  <2>1. lost' = {} => Event.block \notin lost
    BY <1>4 DEF EnsureUpsert, SinkGo
  <2> QED BY <1>4, <2>1 DEF EnsureUpsert, SinkGo, Presence
<1>5. CASE EnsureSave
  BY <1>5 DEF EnsureSave, SaveUpserted, SinkGo
<1>6. CASE HandleCreated
  <2>1. /\ handled + 1 = 1 /\ base = NoState /\ Event.reserve = 0
        /\ Event = logs[handled + 1] /\ handled = 0
    BY <1>6, EventFacts DEF HandleCreated, TypeInv, TypeOK, LogsOK
  <2>2. ReserveAfter(handled) = NoState
    BY <2>1 DEF ReserveAfter
  <2>3. CASE whitelisted
    BY <1>6, <2>1, <2>3 DEF HandleCreated, Event
  <2>4. CASE ~whitelisted
    <3>1. Missed'
      BY <1>6, <2>1, <2>4 DEF HandleCreated, Return
    <3> QED BY <1>6, <2>2, <2>4, <3>1 DEF HandleCreated, Return
  <2> QED BY <2>3, <2>4
<1>7. CASE HandleUnknown
  BY <1>7 DEF HandleUnknown, Return, Presence
<1>8. CASE HandleEvent
  <2>1. CASE Applied(repo, Event) = {} /\ ReturnErr /\ UNCHANGED loaded
    BY <1>8, <2>1 DEF HandleEvent, ReturnErr, Return
  <2>2. CASE \E s \in Applied(repo, Event) :
               loaded' = s /\ sink' = "upsert" /\ UNCHANGED <<handled, lost>>
    <3>1. /\ Event.what = "sync" => loaded' = Event.reserve
          /\ InOrder /\ Event.what = "delta" /\ repo = ReserveAfter(handled) => loaded' = Event.reserve
      BY <1>8, <2>2, AppliedFacts DEF HandleEvent
    <3>2. Event.what \in {"delta", "sync"}
      BY <1>8, EventFacts DEF HandleEvent, Events
    <3> QED BY <1>8, <2>2, <3>1, <3>2 DEF HandleEvent, Event
  <2> QED BY <1>8, <2>1, <2>2 DEF HandleEvent
<1>9. CASE HandleUpsert
  <2>1. ReserveAfter(handled + 1) = Event.reserve /\ Event' = Event /\ handled + 1 \in Nat
    BY <1>9, EventFacts DEF HandleUpsert, SinkGo, Event
  <2>2. InOrder /\ lost' = {} /\ ~overwritten' => loaded = Event.reserve
    BY <1>9 DEF HandleUpsert, SinkGo
  <2> QED BY <1>9, <2>1, <2>2 DEF HandleUpsert, SinkGo, Presence
<1>10. CASE HandleSave
  BY <1>10 DEF HandleSave, SaveUpserted, Return, Presence
<1> QED BY <1>2, <1>3, <1>4, <1>5, <1>6, <1>7, <1>8, <1>9, <1>10 DEF Sink

(* Neither the chain nor a request takes it off the track unnoticed. *)
LEMMA TrackingStep ==
    ASSUME TypeInv, Presence, Tracking, [Next]_vars PROVE Tracking'
<1>1. CASE Chain
  <2>1. UNCHANGED <<poolVars, sinkVars, repo, store, reqVars, history>>
    BY <1>1 DEF Chain
  <2>2. sink # "idle" => Event' = Event
    BY <1>1, EventStays
  <2>3. handled \in 0..Len(logs) /\ Counted \in 0..Len(logs) /\ Counted' = Counted
    BY <2>1 DEF TypeInv, TypeOK, AtEvent, Counted, sinkVars
  <2>4. ReserveAfter(handled)' = ReserveAfter(handled)
    <3>1. \A n \in 0..Len(logs) : ReserveAfter(n)' = ReserveAfter(n)
      BY <1>1, ChainGrows
    <3> QED BY <3>1, <2>1, <2>3 DEF sinkVars, ReserveAfter
  <2>5. (ReserveAfter(Counted))' = ReserveAfter(Counted)
    <3>1. \A n \in 0..Len(logs) : ReserveAfter(n)' = ReserveAfter(n)
      BY <1>1, ChainGrows
    <3> QED BY <3>1, <2>3 DEF ReserveAfter
  <2>6. Missed'
    <3>1. \A k \in 1..handled : logs'[k] = logs[k]
      BY <1>1, <2>3, ChainGrows
    <3> QED BY <2>1, <3>1 DEF Tracking, Missed, poolVars, sinkVars, history
  <2> QED BY <2>1, <2>2, <2>4, <2>5, <2>6 DEF Tracking, SnapshotGood, ResultGood,
             LocalTracksChain, Tracks, InOrder, poolVars, sinkVars, history
<1>2. CASE UNCHANGED vars
  BY <1>2 DEF vars, Tracking, Missed, SnapshotGood, ResultGood, LocalTracksChain, Tracks,
     Counted, InOrder, Event, ReserveAfter, poolVars, sinkVars, reqVars, history
<1>3. CASE Sink
  BY <1>3, TrackingSink
<1>4. ASSUME NEW r \in Requests, Request(r) PROVE Tracking'
  <2>1. /\ UNCHANGED <<poolVars, logs, sinkVars, lost>>
        /\ repo = NoState <=> repo' = NoState
    BY <1>4 DEF Request, Presence, Ask, RequestGet, RequestLoad, RequestUpsert,
       RequestSample, ReqGo
  <2>2. ~overwritten' => ~overwritten /\ repo' = repo
    BY <1>4 DEF Request, Ask, RequestGet, RequestLoad, RequestUpsert, RequestSample
  <2> QED BY <2>1, <2>2 DEF Tracking, Missed, SnapshotGood, ResultGood, LocalTracksChain,
             Tracks, Counted, InOrder, Event, ReserveAfter, poolVars, sinkVars
<1> QED BY <1>1, <1>2, <1>3, <1>4 DEF Next

(***************************************************************************)
(* The repository holds the chain's state as of the events handled, for    *)
(* any number of transactions and requests, any block layout and any       *)
(* failure: of every V3 pool, and of V2 pairs if they logged Sync last.    *)
(***************************************************************************)
THEOREM RepoTracksChain == Spec => [](InOrder => LocalTracksChain)
<1> DEFINE IInv == TypeInv /\ Presence /\ Tracking
<1>1. Init => IInv
  <2>1. Init => Tracking
    BY DEF Init, Tracking, Missed, SnapshotGood, ResultGood, LocalTracksChain, Tracks
  <2> QED BY <2>1, TypeInvInit, PresenceInit
<1>2. IInv /\ [Next]_vars => IInv'
  BY TypeInvStep, PresenceStep, TrackingStep
<1>3. IInv => (InOrder => LocalTracksChain)
  BY DEF Tracking
<1> QED BY <1>1, <1>2, <1>3, PTL DEF Spec

(***************************************************************************)
(* No pool has a state that was not read from the chain, whatever requests *)
(* put back or fall back to.                                               *)
(***************************************************************************)
THEOREM StateFromChain == Spec => []PoolStateComesFromChain
<1> DEFINE IInv == TypeInv /\ Presence /\ PoolStateComesFromChain
<1>1. Init => IInv
  BY TypeInvInit, PresenceInit DEF Init, PoolStateComesFromChain
<1>2. ASSUME TypeInv, Presence, PoolStateComesFromChain, [Next]_vars
      PROVE  PoolStateComesFromChain'
  <2> USE <1>2 DEF PoolStateComesFromChain, history
  <2>1. CASE Chain
    BY <2>1 DEF Chain
  <2>2. CASE Sink
    BY <2>2 DEF Sink, EnsureGet, EnsureFetch, EnsureUpsert, EnsureSave, HandleCreated,
       HandleUnknown, HandleEvent, HandleUpsert, HandleSave, ReturnErr, Return
  <2>3. ASSUME NEW r \in Requests, Request(r) PROVE PoolStateComesFromChain'
    BY <2>3 DEF Request, Presence, Ask, RequestGet, RequestLoad, RequestUpsert,
       RequestSample, ReqGo
  <2>4. CASE UNCHANGED vars
    BY <2>4 DEF vars
  <2> QED BY <2>1, <2>2, <2>3, <2>4 DEF Next
<1>3. IInv /\ [Next]_vars => IInv'
  BY <1>2, TypeInvStep, PresenceStep
<1> QED BY <1>1, <1>3, PTL DEF Spec

-----------------------------------------------------------------------------
(* What the store holds *)

(* Between an upsert and its save the sink holds what it put in the        *)
(* repository; at other times the store holds it.                          *)
Stored ==
    /\ sink \in {"ensureSave", "save"} /\ ~overwritten => repo = loaded
    /\ sink \notin {"ensureSave", "save"} /\ ~unsaved /\ ~overwritten => store = repo

(***************************************************************************)
(* Between two events the snapshot to restore from is the state in use,    *)
(* with any failed saves and any requests.                                 *)
(***************************************************************************)
THEOREM StoreFollows == Spec => []StoreKeepsUp
<1>1. Init => Stored
  BY DEF Init, Stored
<1>2. ASSUME Stored, [Next]_vars PROVE Stored'
  <2> USE <1>2 DEF Stored, sinkVars, history
  <2>1. CASE Chain
    BY <2>1 DEF Chain
  <2>2. CASE Sink
    <3>1. CASE EnsureGet \/ EnsureFetch \/ EnsureUpsert
      BY <3>1 DEF EnsureGet, EnsureFetch, EnsureUpsert, SinkGo, ReturnErr, Return
    <3>2. CASE EnsureSave \/ HandleSave
      BY <3>2 DEF EnsureSave, HandleSave, SaveUpserted, SinkGo, Return
    <3>3. CASE HandleCreated \/ HandleUnknown \/ HandleEvent
      BY <3>3 DEF HandleCreated, HandleUnknown, HandleEvent, ReturnErr, Return
    <3>4. CASE HandleUpsert
      BY <3>4 DEF HandleUpsert, SinkGo
    <3> QED BY <2>2, <3>1, <3>2, <3>3, <3>4 DEF Sink
  <2>3. ASSUME NEW r \in Requests, Request(r) PROVE Stored'
    <3>1. UNCHANGED <<sinkVars, store, unsaved>>
      BY <2>3 DEF Request
    <3>2. ~overwritten' => ~overwritten /\ repo' = repo
      BY <2>3 DEF Request, Ask, RequestGet, RequestLoad, RequestUpsert, RequestSample
    <3> QED BY <3>1, <3>2
  <2>4. CASE UNCHANGED vars
    BY <2>4 DEF vars
  <2> QED BY <2>1, <2>2, <2>3, <2>4 DEF Next
<1>3. Stored => StoreKeepsUp
  BY DEF Stored, StoreKeepsUp
<1> QED BY <1>1, <1>2, <1>3, PTL DEF Spec
=============================================================================
