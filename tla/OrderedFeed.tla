---------------------------- MODULE OrderedFeed ----------------------------
(***************************************************************************)
(* What the listener promises its sinks (the doc of EventQueue: "provides  *)
(* the downstream with ordered events"), without queue, tasks or locks: a  *)
(* log of published events, of which every sink is handed a part, each     *)
(* event at most once and in the log's order, a later sink only what the   *)
(* sink before it was handed last.                                         *)
(***************************************************************************)
EXTENDS Naturals, Sequences

CONSTANTS Events, Sinks

VARIABLES log, seen

FeedInit ==
    /\ log = <<>>
    /\ seen = [s \in Sinks |-> <<>>]

Publish ==
    /\ \E e \in Events :
          /\ \A i \in DOMAIN log : log[i] # e
          /\ log' = Append(log, e)
    /\ UNCHANGED seen

(* The k-th event of the log lies beyond all that sink s was handed. *)
Beyond(k, s) == \A i \in DOMAIN seen[s], j \in DOMAIN log :
                    log[j] = seen[s][i] => j < k

Hand(s) ==
    /\ \E k \in DOMAIN log :
          /\ Beyond(k, s)
          /\ s > 1 => /\ seen[s - 1] # <<>>
                      /\ seen[s - 1][Len(seen[s - 1])] = log[k]
          /\ seen' = [seen EXCEPT ![s] = Append(@, log[k])]
    /\ UNCHANGED log

FeedNext == Publish \/ \E s \in Sinks : Hand(s)

FeedSpec == FeedInit /\ [][FeedNext]_<<log, seen>>
=============================================================================
