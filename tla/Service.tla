------------------------------ MODULE Service ------------------------------
(***************************************************************************)
(* The program as it runs: serve, which spawns the listener and the HTTP   *)
(* server, waits for Ctrl+C and joins them in turn; or a simulation from   *)
(* the command line.  The requests are those of module Simulation.         *)
(*                                                                         *)
(* The listener's stop() and the tasks behind it are module EventListener; *)
(* here the listener is a task that may end some time after the shutdown   *)
(* flag, or by itself when it plays sample events.  The HTTP server is     *)
(* axum's: after the flag it takes no more requests and ends when those it *)
(* has are answered.                                                       *)
(***************************************************************************)
EXTENDS Simulation

CONSTANT
    SampleEvents  \* the listener plays sample events and then stops

ASSUME ServiceAssumption == SampleEvents \in BOOLEAN

VARIABLES
    serve,     \* serve's own task
    listener,  \* the listener's task
    http,      \* the HTTP server's task
    shutdown   \* the watch channel's value

lifecycle == <<serve, listener, http, shutdown>>
vars == <<simVars, lifecycle>>

TypeOK ==
    /\ SimTypeOK
    /\ serve \in {"waiting", "join listener", "join http", "ended"}
    /\ listener \in {"off", "starting", "running", "stopped"}
    /\ http \in {"off", "binding", "serving", "draining", "stopped"}
    /\ shutdown \in BOOLEAN

(* what is enabled is spawned; serve returns at once when nothing is, or    *)
(* on a dry run; with metrics alone it waits with nothing to join           *)
Init ==
    /\ SimInit
    /\ listener \in {"off", "starting", "running"} /\ http \in {"off", "binding"}
    /\ listener # "running" /\ mode = "service" => \A p \in Pools : store[p] = Absent
    /\ mode = "cli" => listener = "off" /\ http = "off"
    /\ serve \in (IF mode = "cli" THEN {"ended"}
                  ELSE IF listener = "off" /\ http = "off" THEN {"waiting", "ended"}
                  ELSE {"waiting"})
    /\ shutdown = FALSE

-----------------------------------------------------------------------------
(* The listener's task *)

(* files of pools, filter, connection to the chain: or an error *)
ListenerStarts ==
    /\ listener = "starting"
    /\ listener' \in {"running", "stopped"}
    /\ UNCHANGED <<simVars, serve, http, shutdown>>

ListenerStops ==
    /\ listener = "running" /\ unsaved = Absent
    /\ shutdown \/ SampleEvents
    /\ listener' = "stopped"
    /\ UNCHANGED <<simVars, serve, http, shutdown>>

ListenerMoves ==
    /\ listener = "running"
    /\ \/ \E p \in Followed, s \in NewStates : ListenerUpsert(p, s)
       \/ \E p \in V3Pools \ {V3Sample} : ListenerUpsertV3(p)
       \/ ListenerSave
    /\ UNCHANGED lifecycle

-----------------------------------------------------------------------------
(* The HTTP server's task *)

HttpBinds ==
    /\ http = "binding"
    /\ http' \in {"serving", "stopped"}
    /\ UNCHANGED <<simVars, serve, listener, shutdown>>

HttpDrains ==
    /\ http = "serving" /\ shutdown
    /\ http' = "draining"
    /\ UNCHANGED <<simVars, serve, listener, shutdown>>

InFlight == {r \in Requests : req[r].pc \notin {"idle", "done"}}

HttpEndsAtOnce ==                                            \* faulty
    /\ http = "draining"
    /\ http' = "stopped"
    /\ UNCHANGED <<simVars, serve, listener, shutdown>>

HttpEnds ==
    /\ http = "draining" /\ InFlight = {}
    /\ http' = "stopped"
    /\ UNCHANGED <<simVars, serve, listener, shutdown>>

(* new requests: while the server takes them, or the one of the command     *)
Accepts ==
    \/ http = "serving"
    \/ mode = "cli" /\ \A r \in Requests : At(r, "idle")

Ask(r) ==
    /\ Accepts
    /\ \/ \E pool \in Asked, amount \in Amounts : AskV2(r, pool, amount)
       \/ \E pool \in Asked, amount \in Amounts, n \in 0..Iterations : AskBench(r, pool, amount, n)
       \/ \E amount \in V3Amounts, reverse \in BOOLEAN : AskV3(r, amount, reverse)
       \/ AskNonsense(r)
    /\ UNCHANGED lifecycle

Proceed(r) ==
    /\ \/ Look(r) \/ LoadFails(r) \/ LoadOrSample(r) \/ Upsert(r) \/ FindPath(r) \/ LegV2(r)
       \/ LookV3(r) \/ UpsertV3(r) \/ LegV3(r)
    /\ UNCHANGED lifecycle

-----------------------------------------------------------------------------
(* serve *)

CtrlC ==
    /\ serve = "waiting"
    /\ shutdown' = TRUE
    /\ serve' = "join listener"
    /\ UNCHANGED <<simVars, listener, http>>

JoinListenerAlways ==                                        \* faulty
    /\ serve = "join listener" /\ listener = "stopped"
    /\ serve' = "join http"
    /\ UNCHANGED <<simVars, listener, http, shutdown>>

(* an error of a task is logged and the next one joined *)
JoinListener ==
    /\ serve = "join listener" /\ listener \in {"off", "stopped"}
    /\ serve' = "join http"
    /\ UNCHANGED <<simVars, listener, http, shutdown>>

JoinHttp ==
    /\ serve = "join http" /\ http \in {"off", "stopped"}
    /\ serve' = "ended"
    /\ UNCHANGED <<simVars, listener, http, shutdown>>

Next ==
    \/ ListenerStarts \/ ListenerStops \/ ListenerMoves
    \/ HttpBinds \/ HttpDrains \/ HttpEnds
    \/ \E r \in Requests : Ask(r) \/ Proceed(r)
    \/ CtrlC \/ JoinListener \/ JoinHttp

(* tokio runs a task that can run; requests do not wait for one another.    *)
(* Nothing is assumed of the listener: its start waits for the network, and *)
(* its stop() may never return (EventListener!StopJoinsPump).               *)
Fairness ==
    /\ WF_vars(HttpBinds) /\ WF_vars(HttpDrains) /\ WF_vars(HttpEnds)
    /\ \A r \in Requests : WF_vars(Proceed(r))
    /\ WF_vars(JoinListener) /\ WF_vars(JoinHttp)

Spec == Init /\ [][Next]_vars /\ Fairness

-----------------------------------------------------------------------------
(* Properties *)

Quoted(r) == req[r].answer # Absent /\ req[r].answer.kind = "ok"

PairOf(pool) == {TokensOf[pool][1], TokensOf[pool][2]}

(* A V2 answer is the quote of one pool of the very pair that was asked     *)
(* for: the requested pool joins the two ends of its own path, so the       *)
(* search never gets past one hop, and an unknown pool is never answered    *)
(* with the made-up one (prepare_simulation, build_graph_path, find_paths). *)
AnswersAreForThePair ==
    \A r \in Requests : Quoted(r) /\ req[r].kind = "v2" =>
        /\ Len(req[r].path) = 1
        /\ PairOf(req[r].path[1].pool) = PairOf(req[r].pool)
        /\ req[r].path[1].input = TokensOf[req[r].pool][1]
        /\ \/ req[r].known \/ req[r].pool \in moved[r] \cup {Sample}
           \/ mode = "cli" /\ Saved(req[r].pool)

(* Each leg takes less than the pool has and leaves a product of reserves   *)
(* that has not fallen, in the state that was read and the snapshot that is *)
(* answered (quote_swap).                                                   *)
LegsKeepProduct ==
    \A r \in Requests : \A i \in DOMAIN req[r].snapshots :
        LET s == req[r].read[i]  n == req[r].snapshots[i] IN
        /\ n.r0 > 0 /\ n.r1 > 0
        /\ n.r0 * n.r1 >= s.r0 * s.r1

(* A V3 quote at the price of the made-up pool gives no more than came in   *)
(* less the fee, in either direction (quote_v3_swap).                       *)
V3QuoteAtPar ==
    \A r \in Requests : Quoted(r) /\ req[r].kind = "v3" =>
        req[r].answer.out + req[r].answer.fees = req[r].amount

(* states the pools of a pair have been in *)
PastStates(pool) ==
    {FirstState, SampleState}
        \cup (IF updates > 0 /\ \E p \in Followed : PairOf(p) = PairOf(pool) THEN NewStates ELSE {})

CanBeRefused(q) ==
    \E s \in PastStates(q.pool) : QuoteV2(s.r0, s.r1, q.amount, V2Fee).kind # "ok"

RefusedThoughKnown(r) ==
    /\ req[r].kind = "v2" /\ req[r].pool \in Pools /\ req[r].known
    /\ req[r].answer # Absent /\ req[r].answer.kind = "refused"

(* While the repository has only V2 pools, a request for a pool that was    *)
(* there when it looked is refused only for an amount that a pool cannot    *)
(* quote (prepare_simulation, build_graph_path, simulate).                  *)
KnownPoolIsQuoted ==
    v3Known = {} => \A r \in Requests : RefusedThoughKnown(r) => CanBeRefused(req[r])

(* A simulation in the sandbox does not change what other simulations are   *)
(* answered: a pool that is known is quoted, whatever was asked before.     *)
RequestsDoNotDisturb ==
    \A r \in Requests : RefusedThoughKnown(r) => CanBeRefused(req[r])

(* A request changes a pool that the repository has only if the listener    *)
(* put that pool there after the request looked.  The made-up pool alone is *)
(* put back by every request for a pool that is not known                   *)
(* (prepare_simulation).                                                    *)
OnlyRacesOverwrite ==
    [][\A r \in Requests, p \in Pools :
          req'[r] # req[r] /\ repository[p] # Absent /\ repository'[p] # repository[p]
              => p \in moved[r] \cup {Sample}]_vars

(* When serve has ended, no request that was accepted is without an answer. *)
EndsWithNothingInFlight == mode = "service" /\ serve = "ended" => InFlight = {}

(* Every request that is accepted is answered, also during a shutdown.      *)
AcceptedIsAnswered == \A r \in Requests : r \in InFlight ~> At(r, "done")

(* After Ctrl+C only the listener can keep serve from ending: the HTTP      *)
(* server, which hears of the shutdown by itself, ends even while serve     *)
(* waits for a stop() that hangs, and serve ends if the listener does       *)
(* (serve's joins, with_graceful_shutdown).                                 *)
ShutdownWaitsForListenerOnly ==
    /\ shutdown ~> http \in {"off", "stopped"}
    /\ shutdown /\ listener \in {"off", "stopped"} ~> serve = "ended"
=============================================================================
