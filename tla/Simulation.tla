----------------------------- MODULE Simulation -----------------------------
(***************************************************************************)
(* Requests for a simulated swap, over HTTP against the repository and the *)
(* snapshot store that the listener fills, or from the command line        *)
(* against a repository of their own and the snapshot file.                *)
(*                                                                         *)
(* A step runs from one access to the repository or the store to the next: *)
(* prepare_simulation looks, loads, upserts and lists; then the calculator *)
(* reads each pool of the path when it comes to it.  The listener's steps  *)
(* are the upsert of a pool's new state and the save of its snapshot       *)
(* (module PoolSync has what leads to them).                               *)
(***************************************************************************)
EXTENDS SwapQuote, TokenGraph, FiniteSets

CONSTANTS
    Requests,     \* requests
    V3Pools,      \* identifiers of V3 pools; Pools are the V2 pools
    Sample,       \* the made-up V2 pool, 0x..abcd
    V3Sample,     \* the made-up V3 pool, 0x..0333
    Absent,       \* no snapshot
    TokensOf,     \* token0 and token1 of each V2 pool
    SampleState,  \* the reserves prepare_simulation gives the made-up pool
    FirstState,   \* the reserves of the pools that are known to begin with
    NewStates,    \* bound: the reserves the listener puts next
    Followed,     \* bound: the V2 pools the listener puts
    Asked,        \* bound: the pools that are asked for
    Amounts,      \* bound: amounts asked for
    V3Amounts,    \* bound: amounts the V3 route is asked for
    FirstKnown,   \* bound: the sets of pools that are known to begin with
    V2Fee,        \* 25: fee of the V2 calculator
    V3Fee,        \* 100: fee of a leg of build_v3_components
    V3SqrtPrice,  \* the price the made-up V3 pool is initialised with
    MaxHops,      \* 4
    MaxUpdates,   \* bound: states the listener puts into the repository
    Iterations    \* bound: iterations bench is asked for

PoolState == [r0 : U128, r1 : U128]

ASSUME SimulationAssumption ==
    /\ Sample \in Pools /\ V3Sample \in V3Pools
    /\ TokensOf \in [Pools -> Tokens \X Tokens]
    /\ SampleState \in PoolState /\ FirstState \in PoolState /\ NewStates \subseteq PoolState
    /\ Followed \subseteq Pools
    /\ Asked \subseteq Pools \cup V3Pools
    /\ Amounts \subseteq U128 /\ V3Amounts \subseteq U128
    /\ FirstKnown \subseteq SUBSET Pools
    /\ V2Fee \in 0..FeeDenom /\ V3Fee \in 0..FeeDenom
    /\ V3SqrtPrice \in U256 /\ V3SqrtPrice # 0
    /\ MaxHops \in Nat \ {0} /\ MaxUpdates \in Nat /\ Iterations \in Nat
    /\ IsFiniteSet(Pools) /\ Pools \cap V3Pools = {}

(* the factory makes pairs of two tokens, which it sorts *)
ASSUME PairAssumption ==
    /\ \A p \in Pools : TokensOf[p][1] # TokensOf[p][2]
    /\ \A p, q \in Pools : ToSet(TokensOf[p]) = ToSet(TokensOf[q]) => TokensOf[p] = TokensOf[q]

VARIABLES
    mode,        \* "service", or "cli" for one request of the command line
    repository,  \* the repository's V2 pools
    v3Known,     \* the repository's V3 pools
    store,       \* the V2 snapshots saved
    v3Saved,     \* the V3 snapshots saved
    unsaved,     \* what the listener has upserted and not saved
    updates,     \* history: states the listener has put into the repository
    req,         \* the requests
    moved        \* history: pools the listener put since a request looked

simVars == <<mode, repository, v3Known, store, v3Saved, unsaved, updates, req, moved>>

BadRequest == [kind |-> "bad request"]

Answers == {Refused, Panics, BadRequest, [kind |-> "ok"]}
              \cup [kind : {"ok"}, out : U128, fees : U128, slippage : Nat]
Upserted == [pool : Pools \cup V3Pools, state : PoolState \cup {Absent}]

ASSUME AbsentAssumption == Absent \notin PoolState \cup Answers \cup Upserted

Points == {"idle", "get", "load", "upsert", "list", "leg", "getV3", "upsertV3", "legV3", "done"}

Request == [pc : Points, kind : {"v2", "bench", "v3"}, pool : Pools \cup V3Pools,
            reverse : BOOLEAN, amount : U128,
            target : Pools \cup V3Pools, known : BOOLEAN, loaded : PoolState \cup {Absent},
            path : Seq(Step), leg : Nat, holding : U128, fees : U128, slippage : Nat,
            read : Seq(PoolState), snapshots : Seq(PoolState),
            runs : Nat, outs : Seq(U128), answer : Answers \cup {Absent}]

Idle == [pc |-> "idle", kind |-> "v2", pool |-> Sample, reverse |-> FALSE, amount |-> 0,
         target |-> Sample, known |-> FALSE, loaded |-> Absent, path |-> <<>>, leg |-> 1,
         holding |-> 0, fees |-> 0, slippage |-> 0, read |-> <<>>, snapshots |-> <<>>,
         runs |-> 0, outs |-> <<>>, answer |-> Absent]

SimTypeOK ==
    /\ mode \in {"service", "cli"}
    /\ repository \in [Pools -> PoolState \cup {Absent}]
    /\ store \in [Pools -> PoolState \cup {Absent}]
    /\ v3Known \subseteq V3Pools /\ v3Saved \subseteq V3Pools
    /\ unsaved \in Upserted \cup {Absent}
    /\ updates \in 0..MaxUpdates
    /\ moved \in [Requests -> SUBSET (Pools \cup V3Pools)]
    /\ req \in [Requests -> Request]
    /\ \A r \in Requests : req[r].pc = "done" <=> req[r].answer # Absent

(* the repository after listening for a while, or an empty one; the         *)
(* snapshot file of the command line holds what it may                      *)
SimInit ==
    /\ \E known \in FirstKnown :
          store = [p \in Pools |-> IF p \in known THEN FirstState ELSE Absent]
    /\ mode \in {"service", "cli"}
    /\ repository = (IF mode = "service" THEN store ELSE [p \in Pools |-> Absent])
    /\ v3Known = {} /\ v3Saved = {}
    /\ unsaved = Absent /\ updates = 0
    /\ req = [r \in Requests |-> Idle]
    /\ moved = [r \in Requests |-> {}]

-----------------------------------------------------------------------------
Become(r, q)      == req' = [req EXCEPT ![r] = q]
Answered(q, answer) == [q EXCEPT !.pc = "done", !.answer = answer]
Answer(r, answer) == Become(r, Answered(req[r], answer))
KeepState   == UNCHANGED <<repository, v3Known, store, v3Saved>>
KeepOthers  == UNCHANGED <<mode, unsaved, updates, moved>>

At(r, pc) == req[r].pc = pc

(* the service's two routes with ensure_chain_supported, and the commands *)
AskV2(r, pool, amount) ==
    /\ At(r, "idle")
    /\ Become(r, [req[r] EXCEPT !.pc = "get", !.kind = "v2", !.pool = pool, !.amount = amount])
    /\ KeepState /\ KeepOthers

AskBench(r, pool, amount, iterations) ==
    /\ mode = "cli" /\ At(r, "idle")
    /\ IF iterations = 0 THEN Answer(r, Refused)
       ELSE Become(r, [req[r] EXCEPT !.pc = "get", !.kind = "bench", !.pool = pool,
                                     !.amount = amount, !.runs = iterations])
    /\ KeepState /\ KeepOthers

AskV3(r, amount, reverse) ==
    /\ At(r, "idle")
    /\ Become(r, [req[r] EXCEPT !.pc = "getV3", !.kind = "v3", !.reverse = reverse, !.amount = amount])
    /\ KeepState /\ KeepOthers

(* another chain, or a pool that parse_pool_identifier does not read *)
AskNonsense(r) ==
    /\ At(r, "idle")
    /\ (mode = "service" /\ Answer(r, BadRequest)) \/ Answer(r, Refused)
    /\ KeepState /\ KeepOthers

-----------------------------------------------------------------------------
(* prepare_simulation *)

Listed(pool) == IF pool \in Pools THEN repository[pool] # Absent ELSE pool \in v3Known
Saved(pool)  == IF pool \in Pools THEN store[pool] # Absent ELSE pool \in v3Saved

LookAlwaysLoads(r) ==                                        \* faulty
    /\ At(r, "get")
    /\ Become(r, [req[r] EXCEPT !.pc = "load", !.known = Listed(req[r].pool)])
    /\ moved' = [moved EXCEPT ![r] = {}]
    /\ KeepState /\ UNCHANGED <<mode, unsaved, updates>>

Look(r) ==
    /\ At(r, "get")
    /\ Become(r, [req[r] EXCEPT !.pc = IF Listed(req[r].pool) THEN "list" ELSE "load",
                               !.known = Listed(req[r].pool)])
    /\ moved' = [moved EXCEPT ![r] = {}]
    /\ KeepState /\ UNCHANGED <<mode, unsaved, updates>>

(* the file of the command line may be unreadable *)
LoadFails(r) ==
    /\ mode = "cli" /\ At(r, "load")
    /\ Answer(r, Refused)
    /\ KeepState /\ KeepOthers

LoadOrSampleAsPool(r) ==                                     \* faulty
    /\ At(r, "load")
    /\ Become(r, [req[r] EXCEPT !.pc = "upsert", !.target = req[r].pool, !.loaded = SampleState])
    /\ KeepState /\ KeepOthers

(* a snapshot, or else the made-up pool *)
LoadOrSample(r) ==
    LET pool == req[r].pool IN
    /\ At(r, "load")
    /\ IF Saved(pool)
       THEN Become(r, [req[r] EXCEPT !.pc = "upsert", !.target = pool,
                                     !.loaded = IF pool \in Pools THEN store[pool] ELSE Absent])
       ELSE Become(r, [req[r] EXCEPT !.pc = "upsert", !.target = Sample, !.loaded = SampleState])
    /\ KeepState /\ KeepOthers

Upsert(r) ==
    LET target == req[r].target IN
    /\ At(r, "upsert")
    /\ IF target \in Pools
       THEN repository' = [repository EXCEPT ![target] = req[r].loaded] /\ UNCHANGED v3Known
       ELSE v3Known' = v3Known \cup {target} /\ UNCHANGED repository
    /\ Become(r, [req[r] EXCEPT !.pc = "list", !.target = Sample, !.loaded = Absent])
    /\ UNCHANGED <<store, v3Saved>> /\ KeepOthers

(* build_graph_path; the list comes in the order of a HashMap *)
GraphOf(order) ==
    LET graph[n \in 0..Len(order)] ==
            IF n = 0 THEN EmptyGraph
            ELSE AddPool(graph[n - 1], order[n], <<TokensOf[order[n]][1], TokensOf[order[n]][2]>>)
    IN graph[Len(order)]

FirstPath(order, pool) ==
    LET paths == FindPaths(GraphOf(order), TokensOf[pool][1], TokensOf[pool][2], MaxHops)
    IN IF paths = <<>> THEN <<>> ELSE Head(paths)

Orders(pools) == {order \in [1..Cardinality(pools) -> pools] : ToSet(order) = pools}

(* what the search can find first, by the pools listed and the one asked for *)
FirstPaths ==
    UNION {{[listed |-> known, pool |-> pool, path |-> FirstPath(order, pool)] :
                pool \in known, order \in Orders(known)} : known \in SUBSET Pools}

KnownPools == {p \in Pools : repository[p] # Absent}

Started(q) == [q EXCEPT !.pc = "leg", !.leg = 1, !.holding = q.amount, !.fees = 0,
                        !.slippage = 0, !.read = <<>>, !.snapshots = <<>>]

ReadsAsV2(r) == v3Known = {} /\ req[r].pool \in KnownPools

FindPathOrNothing(r) ==                                      \* faulty
    /\ At(r, "list") /\ ReadsAsV2(r)
    /\ \E found \in {f \in FirstPaths : f.listed = KnownPools /\ f.pool = req[r].pool} :
          Become(r, Started([req[r] EXCEPT !.path = found.path]))
    /\ KeepState /\ KeepOthers

FindPath(r) ==
    /\ At(r, "list")
    /\ IF ReadsAsV2(r)
       THEN \E found \in {f \in FirstPaths : f.listed = KnownPools /\ f.pool = req[r].pool} :
                IF found.path = <<>> THEN Answer(r, Refused)
                ELSE Become(r, Started([req[r] EXCEPT !.path = found.path]))
       ELSE Answer(r, Refused)
    /\ KeepState /\ KeepOthers

-----------------------------------------------------------------------------
(* The V2 calculator *)

FinishedUnmarked(q, result) == [q EXCEPT !.answer = result]  \* faulty

(* end of one simulation: bench goes on to the next and never fails itself *)
Finished(q, result) ==
    LET outs == IF result.kind = "ok" THEN Append(q.outs, result.out) ELSE q.outs IN
    IF q.kind # "bench" \/ result.kind = "panics" THEN Answered(q, result)
    ELSE IF q.runs > 1 THEN Started([q EXCEPT !.outs = outs, !.runs = @ - 1])
    ELSE Answered([q EXCEPT !.outs = outs, !.runs = 0], [kind |-> "ok"])

Forward(step) == step.input = TokensOf[step.pool][1]

NextState(step, quote) ==
    IF Forward(step) THEN [r0 |-> quote.nextIn, r1 |-> quote.nextOut]
    ELSE [r0 |-> quote.nextOut, r1 |-> quote.nextIn]

ReserveIn(q, s)  == IF Forward(q.path[q.leg]) THEN s.r0 ELSE s.r1
ReserveOut(q, s) == IF Forward(q.path[q.leg]) THEN s.r1 ELSE s.r0

QuoteLeg(q, s) ==
    IF s = Absent THEN Refused
    ELSE LET quote == QuoteV2(ReserveIn(q, s), ReserveOut(q, s), q.holding, V2Fee) IN
         IF quote.kind # "ok" THEN quote
         ELSE IF q.fees + quote.fee > MaxU128 THEN Refused
         ELSE IF Shortfall(ReserveIn(q, s), ReserveOut(q, s), q.holding, quote.out) > MaxU256
              THEN Panics
         ELSE quote

(* the request after a leg that read s; the pool's next state goes into the *)
(* answer and nowhere else                                                  *)
AfterLeg(q, s, quote) ==
    LET slip == Slippage(ReserveIn(q, s), ReserveOut(q, s), q.holding, quote.out)
        next == [q EXCEPT !.leg       = @ + 1,
                          !.holding   = quote.out,
                          !.fees      = @ + quote.fee,
                          !.slippage  = @ + slip,
                          !.read      = Append(@, s),
                          !.snapshots = Append(@, NextState(q.path[q.leg], quote))]
    IN IF quote.kind # "ok" THEN Finished(q, quote)
       ELSE IF q.leg < Len(q.path) THEN next
       ELSE Finished(next, [kind |-> "ok", out |-> next.holding, fees |-> next.fees,
                            slippage |-> next.slippage])

LegV2(r) ==
    /\ At(r, "leg")
    /\ \E s \in {repository[req[r].path[req[r].leg].pool]} :
       \E quote \in {QuoteLeg(req[r], s)} :
           req' = [req EXCEPT ![r] = AfterLeg(@, s, quote)]
    /\ KeepState /\ KeepOthers

-----------------------------------------------------------------------------
(* build_v3_components and the V3 calculator.  From the command line the    *)
(* repository is empty; nothing on the chain is at the made-up pool's       *)
(* address, so its price stays as it was made                               *)

LookV3(r) ==
    /\ At(r, "getV3")
    /\ Become(r, [req[r] EXCEPT !.pc = IF V3Sample \in v3Known THEN "legV3" ELSE "upsertV3"])
    /\ KeepState /\ KeepOthers

UpsertV3(r) ==
    /\ At(r, "upsertV3")
    /\ v3Known' = v3Known \cup {V3Sample}
    /\ Become(r, [req[r] EXCEPT !.pc = "legV3"])
    /\ UNCHANGED <<repository, store, v3Saved>> /\ KeepOthers

AnswerV3(q) ==
    LET quote == QuoteV3(V3SqrtPrice, q.amount, V3Fee, ~q.reverse) IN
    IF quote.kind # "ok" THEN quote
    ELSE [kind |-> "ok", out |-> quote.out, fees |-> quote.fee, slippage |-> 0]

LegV3(r) ==
    /\ At(r, "legV3")
    /\ Answer(r, AnswerV3(req[r]))
    /\ KeepState /\ KeepOthers

-----------------------------------------------------------------------------
(* The listener's upserts and saves *)

MarkMoved(pool) ==
    moved' = [r \in Requests |->
                 IF req[r].pc \in {"load", "upsert", "list"} THEN moved[r] \cup {pool}
                 ELSE moved[r]]

ListenerUpsert(pool, s) ==
    /\ unsaved = Absent /\ updates < MaxUpdates
    /\ repository' = [repository EXCEPT ![pool] = s]
    /\ unsaved' = [pool |-> pool, state |-> s] /\ updates' = updates + 1
    /\ MarkMoved(pool)
    /\ UNCHANGED <<mode, v3Known, store, v3Saved, req>>

ListenerUpsertV3(pool) ==
    /\ unsaved = Absent /\ updates < MaxUpdates
    /\ v3Known' = v3Known \cup {pool}
    /\ unsaved' = [pool |-> pool, state |-> Absent] /\ updates' = updates + 1
    /\ MarkMoved(pool)
    /\ UNCHANGED <<mode, repository, store, v3Saved, req>>

ListenerSave ==
    /\ unsaved # Absent
    /\ IF unsaved.pool \in Pools
       THEN store' = [store EXCEPT ![unsaved.pool] = unsaved.state] /\ UNCHANGED v3Saved
       ELSE v3Saved' = v3Saved \cup {unsaved.pool} /\ UNCHANGED store
    /\ unsaved' = Absent
    /\ UNCHANGED <<mode, repository, v3Known, updates, req, moved>>
=============================================================================
