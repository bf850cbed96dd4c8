------------------------------- MODULE Routing -------------------------------
(***************************************************************************)
(* From the configuration to the handlers: the subscription that listen.rs *)
(* builds, the logs that pass its filter or are played as sample events,   *)
(* RouterSink, DexEventRouter, the decoding by the two handlers, and the   *)
(* pools that the V2 handler comes to follow through the token graph.      *)
(*                                                                         *)
(* A log has an id, its place in the order of the chain.  A pool's state   *)
(* is the sequence of ids it has been brought up to date with: what a log  *)
(* does to reserves and ticks is modules PoolSync and V3Pool, and there    *)
(* are the steps between the accesses to the repository and the logs of    *)
(* one block; a step here is a log, of a block of its own, together with   *)
(* handle_event for it.                                                    *)
(***************************************************************************)
EXTENDS TokenGraph, FiniteSets

CONSTANTS
    V3Pools,    \* the pools of PancakeSwap V3
    Foreign,    \* pairs of another factory, with the same events
    Sample,     \* the made-up pool, 0x..abcd
    Factory,    \* the factory of the configuration
    Copycat,    \* the other factory
    TokensOf,   \* token0 and token1 of each pool
    Configs,    \* bound: configurations
    Anything,   \* no whitelist
    Absent,     \* no state in the repository
    MaxLogs     \* bound: logs

V2Topics == {"v2"} \X {"PairCreated", "Mint", "Burn", "Swap", "Sync"}
V3Topics == {"v3"} \X {"Initialize", "Mint", "Burn", "Swap", "Collect"}

ASSUME RoutingAssumption ==
    /\ V3Pools \subseteq Pools /\ Foreign \subseteq Pools \ V3Pools
    /\ Sample \in Pools \ (V3Pools \cup Foreign)
    /\ Factory # Copycat /\ {Factory, Copycat} \cap Pools = {}
    /\ TokensOf \in [Pools -> Tokens \X Tokens]
    /\ \A c \in Configs :
          /\ c.v2 \subseteq Pools \ V3Pools /\ c.v3 \subseteq V3Pools
          /\ c.whitelist = Anything \/ c.whitelist \subseteq Tokens
          /\ c.samples \in Nat /\ c.http \in BOOLEAN
    /\ MaxLogs \in Nat
    /\ IsFiniteSet(Tokens)

VARIABLES
    config,      \* bootstrap pools, whitelist, sample swaps, an HTTP provider
    listening,   \* the subscription is made
    addresses,   \* the filter's addresses
    labels,      \* pool_labels
    repository,  \* the state of each pool
    graph,       \* the V2 handler's token graph
    logs,        \* history: where the logs came from, and their pairs
    since        \* history: how many logs there were when a state was made

vars == <<config, listening, addresses, labels, repository, graph, logs, since>>

Ids   == 1..MaxLogs
State == [base : {"fetched", "created", "made up", "empty"}, seen : Seq(Ids)]

ASSUME AbsentAssumption == Absent \notin State

TypeOK ==
    /\ config \in Configs
    /\ listening \in BOOLEAN
    /\ addresses \subseteq Pools
    /\ DOMAIN labels = addresses
    /\ \A p \in Pools : repository[p] = Absent \/ repository[p] \in State
    /\ graph.pools \subseteq Pools \ V3Pools
    /\ logs \in Seq([address : Pools \cup {Factory, Copycat},
                     pair    : Pools \cup {Factory, Copycat}])
    /\ since \in [Pools -> 0..MaxLogs]

Init ==
    /\ config \in Configs
    /\ listening = FALSE
    /\ addresses = {} /\ labels = <<>>
    /\ repository = [p \in Pools |-> Absent]
    /\ graph = EmptyGraph
    /\ logs = <<>> /\ since = [p \in Pools |-> 0]

-----------------------------------------------------------------------------
(* build_subscription_metadata *)

Known == {p \in Pools : repository[p] # Absent}

LabelsOfConfigured(v2, v3, known) ==                            \* faulty
    [p \in v2 \cup v3 |-> IF p \in v3 THEN "pancake_v3" ELSE "pancake_v2"]

LabelsOf(v2, v3, known) ==
    [p \in v2 \cup v3 \cup known |->
        IF p \in v3 THEN "pancake_v3"
        ELSE IF p \in v2 THEN "pancake_v2"
        ELSE IF p \in V3Pools THEN "pancake_v3" ELSE "pancake_v2"]

TopicKinds ==
    [t \in V2Topics \cup V3Topics |->
        IF t = <<"v3", "Initialize">> THEN "Sync" ELSE t[2]]

Listen ==
    /\ ~listening /\ listening' = TRUE
    /\ addresses' = config.v2 \cup config.v3 \cup Known
    /\ labels' = LabelsOf(config.v2, config.v3, Known)
    /\ UNCHANGED <<config, repository, graph, logs, since>>

(* build_envelope, and the kinds build_mock_events gives its events *)
KindOf(log) == IF log.topic \in DOMAIN TopicKinds THEN TopicKinds[log.topic] ELSE "Unknown"

(* base_filter: no address in it, and every address passes *)
Passes(log) ==
    /\ log.topic \in DOMAIN TopicKinds
    /\ addresses = {} \/ log.address \in addresses

-----------------------------------------------------------------------------
(* RouterSink: ensure_pool_initialized *)

DetectPoolType(address) == IF address \in DOMAIN labels THEN labels[address] ELSE "unknown"

NeedsFetch(log) ==
    /\ KindOf(log) # "PairCreated"
    /\ \/ DetectPoolType(log.address) = "pancake_v2" /\ log.address \in config.v2
       \/ DetectPoolType(log.address) = "pancake_v3" /\ log.address \in config.v3
    /\ repository[log.address] = Absent

(* the state at the end of the block before the log's *)
Fetched == [base |-> "fetched", seen |-> <<>>]

(* what the repository can be when the log is dispatched *)
Ensured(log) ==
    IF NeedsFetch(log) /\ config.http
    THEN [repository EXCEPT ![log.address] = Fetched]
    ELSE repository

-----------------------------------------------------------------------------
(* The handlers.  A result has the repository and the graph after the      *)
(* handler, and whether it returned Ok                                     *)

Ok(result)  == [repo |-> result.repo, graph |-> result.graph, ok |-> TRUE]
Err(result) == [repo |-> result.repo, graph |-> result.graph, ok |-> FALSE]

Updated(result, pool, id) == [result EXCEPT !.repo[pool].seen = Append(@, id)]

(* the parsing of a V2 and of a V3 event: the log has the topics and the    *)
(* words of data that the event of its signature has                        *)
DecodesV2(log) == log.topic \in V2Topics /\ log.complete
DecodesV3(log) == log.topic \in V3Topics /\ log.complete

MatchesV2(log) == KindOf(log) \in {"PairCreated", "Mint", "Swap", "Burn", "Sync"}

ShouldTrack(tokens, g) ==
    \/ config.whitelist = Anything
    \/ \E t \in ToSet(tokens) : IsConnectedToWhitelist(g, t, config.whitelist)

OnPairCreated(result, log) ==
    LET tokens == <<TokensOf[log.pair][1], TokensOf[log.pair][2]>> IN
    IF log.address # Factory \/ ~ShouldTrack(tokens, result.graph) THEN Ok(result)
    ELSE Ok([graph |-> AddPool(result.graph, log.pair, tokens),
             repo  |-> [result.repo EXCEPT ![log.pair] = [base |-> "created", seen |-> <<>>]]])

OnPoolEventV2(result, log, id) ==
    IF log.address \notin Pools \ V3Pools \/ result.repo[log.address] = Absent THEN Ok(result)
    ELSE Ok(Updated(result, log.address, id))

HandleV2NothingForeign(result, log, id) ==                    \* faulty
    IF ~DecodesV2(log) THEN Err(result)
    ELSE IF log.topic[2] = "PairCreated" THEN OnPairCreated(result, log)
    ELSE OnPoolEventV2(result, log, id)

(* an event of another protocol is no error, one that does not decode is *)
HandleV2(result, log, id) ==
    IF log.topic \notin V2Topics THEN Ok(result)
    ELSE IF ~DecodesV2(log) THEN Err(result)
    ELSE IF log.topic[2] = "PairCreated" THEN OnPairCreated(result, log)
    ELSE OnPoolEventV2(result, log, id)

MatchesV3(log) == log.address \in config.v3

(* one that lacks topics is passed over (Initialize has none to lack), and *)
(* an event of another protocol changes nothing but what is known           *)
HandleV3(result, log, id) ==
    IF log.topic \in V3Topics /\ ~DecodesV3(log)
    THEN IF log.topic[2] = "Initialize" THEN Err(result) ELSE Ok(result)
    ELSE LET known == IF result.repo[log.address] # Absent THEN result
                      ELSE [result EXCEPT !.repo[log.address] = [base |-> "empty", seen |-> <<>>]]
         IN Ok(IF DecodesV3(log) THEN Updated(known, log.address, id) ELSE known)

(* DexEventRouter::dispatch; listen registers the V3 handler if it has pools *)
Dispatch(result, log, id) ==
    LET v2 == IF MatchesV2(log) THEN HandleV2(result, log, id) ELSE Ok(result)
    IN IF v2.ok /\ MatchesV3(log)
       THEN HandleV3([repo |-> v2.repo, graph |-> v2.graph], log, id) ELSE v2

-----------------------------------------------------------------------------
(* A log, and its way to the handlers *)

Made(log, repo) ==
    [p \in Pools |-> IF repo[p] # Absent /\ (repository[p] = Absent \/ repo[p].base # repository[p].base)
                     THEN IF repo[p].base = "created" THEN Len(logs) + 1 ELSE Len(logs)
                     ELSE since[p]]

Origin(log) == [address |-> log.address, pair |-> log.pair]

Handle(log) ==
    LET id     == Len(logs) + 1
        result == Dispatch([repo |-> Ensured(log), graph |-> graph], log, id)
    IN /\ logs' = Append(logs, Origin(log))
       /\ repository' = result.repo /\ graph' = result.graph
       /\ since' = Made(log, result.repo)
       /\ UNCHANGED <<config, listening, addresses, labels>>

(* not subscribed, or the chain did not answer when the state was asked for *)
Pass(log) ==
    /\ logs' = Append(logs, Origin(log))
    /\ UNCHANGED <<config, listening, addresses, labels, repository, graph, since>>

Receive(log) ==
    IF ~Passes(log) THEN Pass(log)
    ELSE Handle(log) \/ (NeedsFetch(log) /\ config.http /\ Pass(log))

Live == listening /\ config.samples = 0 /\ Len(logs) < MaxLogs

LogOf(address, topic, complete) ==
    [address |-> address, topic |-> topic, pair |-> address, complete |-> complete]

CreatedBy(factory, pair) ==
    [address |-> factory, topic |-> <<"v2", "PairCreated">>, pair |-> pair, complete |-> TRUE]

(* the pools of the configuration are older than the listener *)
Born == config.v2 \cup config.v3 \cup ({logs[i].pair : i \in DOMAIN logs} \cap Pools)

PairIsCreated ==
    /\ Live
    /\ \E pair \in Pools \ (V3Pools \cup Born \cup {Sample}) :
          Receive(CreatedBy(IF pair \in Foreign THEN Copycat ELSE Factory, pair))

PoolLogs ==
    /\ Live
    /\ \E p \in Born :
          \E topic \in (IF p \in V3Pools THEN V3Topics ELSE V2Topics \ {<<"v2", "PairCreated">>}) :
              Receive(LogOf(p, topic, TRUE))

(* an event of the same name whose arguments are not indexed alike *)
ForeignLogs == Live /\ \E topic \in V2Topics \cup V3Topics : Receive(LogOf(Copycat, topic, FALSE))

(* build_mock_events *)
SampleLogs ==
    <<CreatedBy(Factory, Sample)>>
        \o [i \in 1..2 * config.samples + 2 |->
                LogOf(Sample, <<"v2", IF i % 2 = 0 THEN "Sync" ELSE IF i = 1 THEN "Mint" ELSE "Swap">>,
                      TRUE)]

PlaySample ==
    /\ listening /\ config.samples > 0
    /\ Len(logs) < Len(SampleLogs) /\ Len(logs) < MaxLogs
    /\ Handle(SampleLogs[Len(logs) + 1])

(* prepare_simulation for an unknown pool, over the shared repository *)
RequestSample ==
    /\ repository' = [repository EXCEPT ![Sample] = [base |-> "made up", seen |-> <<>>]]
    /\ since' = [since EXCEPT ![Sample] = Len(logs)]
    /\ UNCHANGED <<config, listening, addresses, labels, graph, logs>>

Next == Listen \/ PairIsCreated \/ PoolLogs \/ ForeignLogs \/ PlaySample \/ RequestSample

Spec == Init /\ [][Next]_vars

-----------------------------------------------------------------------------
(* Properties *)

(* the logs of a pool since its state was made *)
Own(p) ==
    Select([i \in 1..Len(logs) |-> i], {i \in DOMAIN logs : i > since[p] /\ logs[i].address = p})

(* A pool's state has been brought up to date with every log of that pool   *)
(* since the state was made, once each, in their order, and with no other:  *)
(* the handler that is not the pool's own lets the log go by, without an    *)
(* error that would keep it from the handler after it                       *)
(* (DexEventRouter::dispatch, matches and handle_event of both handlers).   *)
EachLogOnceInItsPool == \A p \in Pools : repository[p] # Absent => repository[p].seen = Own(p)

(* nothing is configured and nothing was known: every address passes *)
Open == config.samples > 0 \/ addresses = {}

Closed(set, pools) ==
    \A p \in pools : ToSet(TokensOf[p]) \cap set # {} => ToSet(TokensOf[p]) \subseteq set

(* no set of tokens closed under the pools keeps the token from the whitelist *)
Connected(token, pools) ==
    \A set \in SUBSET Tokens :
        token \in set /\ Closed(set, pools) => set \cap config.whitelist # {}

Welcome(pair, pools) ==
    config.whitelist = Anything \/ \E t \in ToSet(TokensOf[pair]) : Connected(t, pools)

(* The V2 handler follows exactly the pairs of its factory that were        *)
(* connected to the whitelist when they were created, over the pairs it     *)
(* followed then; a pair that came before the one that connects it stays    *)
(* out.  With a pool in the configuration, or one that a request has put    *)
(* into the repository before the subscription was made, it follows no new  *)
(* pair at all (should_track_pool, build_subscription_metadata, base_filter).*)
FollowsWhatConnects ==
    LET wanted[n \in 0..Len(logs)] ==
            IF n = 0 THEN {}
            ELSE IF /\ Open /\ logs[n].address = Factory
                    /\ Welcome(logs[n].pair, wanted[n - 1])
                 THEN wanted[n - 1] \cup {logs[n].pair}
                 ELSE wanted[n - 1]
    IN graph.pools = wanted[Len(logs)]
=============================================================================
