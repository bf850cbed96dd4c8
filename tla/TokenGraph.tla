----------------------------- MODULE TokenGraph -----------------------------
(***************************************************************************)
(* TokenGraph: tokens joined by the pools that trade them.  A graph is a   *)
(* record [adjacency, pools, assets]; an edge leads to a token through a   *)
(* pool.  Pools have distinct tokens.                                      *)
(*                                                                         *)
(* The two searches are breadth-first over a queue.  Theirs are recursive  *)
(* functions: of the pops for the one that marks tokens, and of the length *)
(* of the paths for the other, whose queue is first in, first out and so   *)
(* goes through the paths of one length after those of the length before.  *)
(***************************************************************************)
EXTENDS Integers, SequencesExt, Selection

CONSTANTS
    Tokens,   \* addresses of tokens
    Pools     \* identifiers of pools

Edge == [token : Tokens, pool : Pools]
Step == [pool : Pools, input : Tokens, output : Tokens]
Path == [at : Tokens, steps : Seq(Step), visited : SUBSET Tokens]

EmptyGraph ==
    [adjacency |-> [t \in Tokens |-> <<>>], pools |-> {}, assets |-> [p \in Pools |-> <<>>]]

(* the edges add_pool gives a token of the pool: one to each other token *)
EdgesFrom(token, pool, tokens) ==
    LET others == Select(tokens, Tokens \ {token})
    IN [i \in DOMAIN others |-> [token |-> others[i], pool |-> pool]]

AddPoolOneWay(graph, pool, tokens) ==                      \* faulty
    IF Len(tokens) < 2 THEN graph ELSE
    [graph EXCEPT !.assets[pool] = tokens, !.pools = @ \cup {pool},
                  !.adjacency[tokens[2]] = @ \o EdgesFrom(tokens[2], pool, tokens)]

AddPool(graph, pool, tokens) ==
    IF Len(tokens) < 2 THEN graph ELSE
    [adjacency |-> [t \in Tokens |-> IF t \in ToSet(tokens)
                        THEN graph.adjacency[t] \o EdgesFrom(t, pool, tokens)
                        ELSE graph.adjacency[t]],
     pools     |-> graph.pools \cup {pool},
     assets    |-> [graph.assets EXCEPT ![pool] = tokens]]

-----------------------------------------------------------------------------
(* is_connected_to_whitelist *)

Follow(search, edge, whitelist) ==
    IF search.found \/ edge.token \in search.visited THEN search
    ELSE IF edge.token \in whitelist THEN [search EXCEPT !.found = TRUE]
    ELSE [search EXCEPT !.visited = @ \cup {edge.token}, !.queue = Append(@, edge.token)]

Pop(graph, search, whitelist) ==
    LET edges == graph.adjacency[Head(search.queue)]
        followed[n \in 0..Len(edges)] ==
            IF n = 0 THEN [search EXCEPT !.queue = Tail(@)]
            ELSE Follow(followed[n - 1], edges[n], whitelist)
    IN IF search.found \/ search.queue = <<>> THEN search ELSE followed[Len(edges)]

ConnectedByNeighbour(graph, start, whitelist) ==             \* faulty
    \/ start \in whitelist
    \/ \E i \in DOMAIN graph.adjacency[start] : graph.adjacency[start][i].token \in whitelist

(* each token is queued once, so as many pops as there are tokens are enough *)
Searches(graph, start, whitelist) ==
    LET search[n \in 0..Cardinality(Tokens)] ==
            IF n = 0 THEN [visited |-> {start}, queue |-> <<start>>,
                           found |-> start \in whitelist]
            ELSE Pop(graph, search[n - 1], whitelist)
    IN search

IsConnectedToWhitelist(graph, start, whitelist) ==
    Searches(graph, start, whitelist)[Cardinality(Tokens)].found

-----------------------------------------------------------------------------
(* find_paths *)

BuildStep(current, edge) == [pool |-> edge.pool, input |-> current, output |-> edge.token]

Extend(path, edge) ==
    [at      |-> edge.token,
     steps   |-> Append(path.steps, BuildStep(path.at, edge)),
     visited |-> path.visited \cup {edge.token}]

(* build_step finds both tokens among the pool's *)
Buildable(graph, current, edge) == {current, edge.token} \subseteq ToSet(graph.assets[edge.pool])

Extensions(graph, path) ==
    LET edges == Select(graph.adjacency[path.at],
                        {e \in Edge : /\ e.token \notin path.visited
                                      /\ Buildable(graph, path.at, e)})
    IN [i \in DOMAIN edges |-> Extend(path, edges[i])]

ExtendAll(graph, paths) == FlattenSeq([i \in DOMAIN paths |-> Extensions(graph, paths[i])])

Ending(target) == {path \in Path : path.at = target}

(* the queue's paths of each length *)
PathsByLength(graph, start, target, maxHops) ==
    LET level[n \in 0..maxHops] ==
            IF n = 0 THEN <<[at |-> start, steps |-> <<>>, visited |-> {start}]>>
            ELSE ExtendAll(graph, Select(level[n - 1], Path \ Ending(target)))
    IN level

FindPaths(graph, start, target, maxHops) ==
    LET level == PathsByLength(graph, start, target, maxHops)
        paths == FlattenSeq([n \in 1..maxHops |-> Select(level[n], Ending(target))])
    IN IF start = target THEN <<>> ELSE [i \in DOMAIN paths |-> paths[i].steps]
=============================================================================
