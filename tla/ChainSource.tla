----------------------------- MODULE ChainSource -----------------------------
(***************************************************************************)
(* EthersEventSource (event/source/ethers.rs): a backfill task that reads  *)
(* past logs over HTTP and a WebSocket task that follows new ones, both    *)
(* sending into one bounded channel that next_event() reads.  The node and *)
(* the chain behind it are the environment: blocks are mined, the newest   *)
(* block may be replaced once, calls fail and connections break.           *)
(*                                                                         *)
(* Each block carries one log that the filter matches; a log is its block, *)
(* the fork the block is on and whether the node announces its removal.    *)
(***************************************************************************)
EXTENDS Integers, SequencesExt, Selection

CONSTANTS
    MaxBlock,      \* bound: blocks mined
    Backfill,      \* config.backfill_blocks
    ChunkSize,     \* config.chunk_size
    Capacity,      \* config.channel_capacity
    BaseRetry      \* config.retry_interval; the longest wait is 6 times this

ASSUME SourceAssumption ==
    /\ MaxBlock \in Nat
    /\ Backfill \in Nat
    /\ ChunkSize \in Nat
    /\ Capacity \in Nat \ {0}    \* mpsc::channel(0) panics
    /\ BaseRetry \in Nat \ {0}

Blocks == 1..MaxBlock
Logs   == [block : Blocks, fork : {0, 1}, removed : BOOLEAN]
Live(b, f) == [block |-> b, fork |-> f, removed |-> FALSE]
Gone(b, f) == [block |-> b, fork |-> f, removed |-> TRUE]
Messages == [log : Logs, via : {"http", "ws"}]
MaxRetry   == 6 * BaseRetry

VARIABLES
    head, fork,    \* the chain: its newest block, the fork each block is on
    linked,        \* the node pushes logs to the subscription
    feed,          \* logs pushed to the client that stream.next() has not given
    pushed,        \* history: every log the node pushed to a subscription
    shutdown,      \* inner.shutdown
    open,          \* the Receiver exists: sends do not fail
    sent,          \* history: what was sent, and by which task
    taken,         \* how much of it next_event() has returned
    bf, latest, current, batch,   \* run_backfill: point, range and logs in hand
    skipped,       \* history: blocks of the chunks whose get_logs failed
    ws, inHand,    \* run_ws_loop: point, log in hand
    connected, retry              \* run_ws_loop: connected, current_retry

chainVars   == <<head, fork>>
linkVars    == <<linked, feed, pushed>>
channelVars == <<shutdown, open, sent, taken>>
bfVars      == <<bf, latest, current, batch, skipped>>
wsVars      == <<ws, inHand, connected, retry>>
vars == <<chainVars, linkVars, channelVars, bfVars, wsVars>>

TypeOK ==
    /\ head \in 0..MaxBlock
    /\ fork \in [Blocks -> {0, 1}]
    /\ linked \in BOOLEAN
    /\ feed \in Seq(Logs)
    /\ pushed \in Seq(Logs)
    /\ shutdown \in BOOLEAN
    /\ open \in BOOLEAN
    /\ sent \in Seq(Messages)
    /\ taken \in 0..Len(sent)
    /\ Len(sent) - taken <= Capacity
    /\ bf \in {"top", "chunk", "publish", "done"}
    /\ latest \in 0..MaxBlock
    /\ current \in 0..(MaxBlock + 1)
    /\ batch \in Seq(Logs)
    /\ skipped \subseteq 0..MaxBlock
    /\ ws \in {"top", "connect", "subscribe", "stream", "send", "ended", "wait", "done"}
    /\ inHand \in Seq(Logs) /\ Len(inHand) <= 1
    /\ connected \in BOOLEAN
    /\ retry \in BaseRetry..MaxRetry

(* connect(): the chain may already have blocks *)
Init ==
    /\ head \in 0..MaxBlock /\ fork = [b \in Blocks |-> 0]
    /\ linked = FALSE /\ feed = <<>> /\ pushed = <<>>
    /\ shutdown = FALSE /\ open = TRUE /\ sent = <<>> /\ taken = 0
    /\ bf = (IF Backfill = 0 THEN "done" ELSE "top")
    /\ latest = 0 /\ current = 0 /\ batch = <<>> /\ skipped = {}
    /\ ws = "top" /\ inHand = <<>> /\ connected = FALSE /\ retry = BaseRetry

BfGo(a, b) == bf = a /\ bf' = b
WsGo(a, b) == ws = a /\ ws' = b

-----------------------------------------------------------------------------
(* The node *)

Push(logs) ==
    IF linked THEN feed' = feed \o logs /\ pushed' = pushed \o logs
              ELSE UNCHANGED <<feed, pushed>>

Mine ==
    /\ head < MaxBlock
    /\ head' = head + 1
    /\ Push(<<Live(head + 1, 0)>>)
    /\ UNCHANGED <<fork, linked>>

Reorg ==
    /\ head > 0 /\ fork[head] = 0
    /\ fork' = [fork EXCEPT ![head] = 1]
    /\ Push(<<Gone(head, 0), Live(head, 1)>>)
    /\ UNCHANGED <<head, linked>>

(* The stream still gives what has reached the client, then ends. *)
Disconnect ==
    /\ linked /\ linked' = FALSE
    /\ UNCHANGED <<feed, pushed, chainVars>>

Node == (Mine \/ Reorg \/ Disconnect) /\ UNCHANGED <<channelVars, bfVars, wsVars>>

-----------------------------------------------------------------------------
(* The channel and its reader *)

HasRoom == Len(sent) - taken < Capacity

Send(log, via) ==
    /\ open /\ HasRoom
    /\ sent' = Append(sent, [log |-> log, via |-> via])
    /\ UNCHANGED <<shutdown, open, taken>>

SendFails == ~open /\ UNCHANGED channelVars

NextEvent ==
    /\ open /\ taken < Len(sent)
    /\ taken' = taken + 1
    /\ UNCHANGED <<shutdown, open, sent>>

DropForgetsFlag ==                     \* faulty
    /\ open
    /\ open' = FALSE
    /\ UNCHANGED <<shutdown, sent, taken>>

(* drop() sets the flag; the Receiver goes with the fields, after it *)
DropSource ==
    \/ ~shutdown /\ shutdown' = TRUE /\ UNCHANGED <<open, sent, taken>>
    \/ shutdown /\ open /\ open' = FALSE /\ UNCHANGED <<shutdown, sent, taken>>

Owner == (NextEvent \/ DropSource) /\ UNCHANGED <<chainVars, linkVars, bfVars, wsVars>>

-----------------------------------------------------------------------------
(* run_backfill *)

Chunk == IF ChunkSize = 0 THEN 1 ELSE ChunkSize
Lesser(a, b) == IF a < b THEN a ELSE b
First(last) == last - Lesser(Backfill, last)

ChunkEnd(from, last) == Lesser(from + Chunk - 1, last)

NextChunkSkips(from, last) == ChunkEnd(from, last) + 2   \* faulty

NextChunk(from, last) == ChunkEnd(from, last) + 1

LogsIn(from, to) == [i \in 1..(to - from + 1) |-> Live(from + i - 1, fork[from + i - 1])]

(* the filter's range begins at block 0, which has no log *)
GetLogs(from, to) == LogsIn(IF from = 0 THEN 1 ELSE from, to)

BackfillStoppedInRange ==              \* faulty: retries for ever
    /\ bf = "chunk" /\ shutdown
    /\ bf' = "done"
    /\ UNCHANGED <<latest, current, batch, skipped, channelVars>>

BackfillStopped ==
    /\ bf \in {"top", "chunk"} /\ shutdown
    /\ bf' = "done"
    /\ UNCHANGED <<latest, current, batch, skipped, channelVars>>

(* A failed get_block_number and a chain at block 0 sleep and come back here. *)
BackfillBegin ==
    /\ ~shutdown /\ head > 0
    /\ BfGo("top", "chunk")
    /\ latest' = head /\ current' = First(head)
    /\ UNCHANGED <<batch, skipped, channelVars>>

BackfillChunk ==
    /\ ~shutdown /\ current <= latest
    /\ BfGo("chunk", "publish")
    /\ \/ batch' = GetLogs(current, ChunkEnd(current, latest)) /\ UNCHANGED skipped
       \/ skipped' = skipped \cup (current..ChunkEnd(current, latest)) /\ UNCHANGED batch
    /\ UNCHANGED <<latest, current, channelVars>>

BackfillSend ==
    /\ bf = "publish" /\ batch # <<>>
    /\ \/ Send(Head(batch), "http") /\ batch' = Tail(batch)
       \/ SendFails /\ batch' = IF shutdown THEN <<>> ELSE Tail(batch)
    /\ UNCHANGED <<bf, latest, current, skipped>>

BackfillAdvance ==
    /\ batch = <<>>
    /\ BfGo("publish", "chunk")
    /\ current' = NextChunk(current, latest)
    /\ UNCHANGED <<latest, batch, skipped, channelVars>>

BackfillEnd ==
    /\ ~shutdown /\ current > latest
    /\ BfGo("chunk", "done")
    /\ UNCHANGED <<latest, current, batch, skipped, channelVars>>

BackfillStep ==
    /\ \/ BackfillStopped \/ BackfillBegin \/ BackfillChunk
       \/ BackfillSend \/ BackfillAdvance \/ BackfillEnd
    /\ UNCHANGED <<chainVars, linkVars, wsVars>>

-----------------------------------------------------------------------------
(* run_ws_loop *)

NextRetryUncapped(r) == 2 * r          \* faulty

NextRetry(r) == Lesser(2 * r, MaxRetry)

WsTop ==
    /\ WsGo("top", IF shutdown THEN "done" ELSE "connect")
    /\ connected' = FALSE
    /\ UNCHANGED <<inHand, retry, channelVars, linkVars>>

WsConnect ==
    /\ \/ WsGo("connect", "subscribe") /\ connected' = TRUE /\ retry' = BaseRetry
       \/ WsGo("connect", "ended") /\ UNCHANGED <<connected, retry>>
    /\ UNCHANGED <<inHand, channelVars, linkVars>>

WsSubscribe ==
    /\ WsGo("subscribe", "stream")
    /\ linked' = TRUE
    /\ UNCHANGED <<feed, pushed, inHand, connected, retry, channelVars>>

WsSubscribeErr ==
    /\ WsGo("subscribe", "ended")
    /\ connected' = FALSE
    /\ UNCHANGED <<inHand, retry, channelVars, linkVars>>

(* publish_log returns Ok at once for a removed log *)
WsNextLog ==
    /\ feed # <<>>
    /\ \/ WsGo("stream", "send") /\ ~Head(feed).removed /\ inHand' = <<Head(feed)>>
       \/ WsGo("stream", "stream") /\ Head(feed).removed /\ UNCHANGED inHand
    /\ feed' = Tail(feed)
    /\ UNCHANGED <<linked, pushed, connected, retry, channelVars>>

WsSend ==
    /\ WsGo("send", "stream")
    /\ Send(Head(inHand), "ws")
    /\ inHand' = <<>>
    /\ UNCHANGED <<connected, retry, linkVars>>

(* Leaving the arm drops the stream and the provider. *)
WsSendFails ==
    /\ SendFails
    /\ inHand' = <<>>
    /\ IF shutdown THEN WsGo("send", "ended") /\ linked' = FALSE /\ feed' = <<>>
                   ELSE WsGo("send", "stream") /\ UNCHANGED <<linked, feed>>
    /\ UNCHANGED <<pushed, connected, retry>>

StreamOverAtBreak == ~linked             \* faulty

StreamOver == ~linked /\ feed = <<>>

WsStreamEnd ==
    /\ StreamOver
    /\ WsGo("stream", "ended")
    /\ feed' = <<>>
    /\ UNCHANGED <<linked, pushed, inHand, connected, retry, channelVars>>

WsEndedForGood ==                      \* faulty: does not try again
    /\ WsGo("ended", "done")
    /\ UNCHANGED <<inHand, connected, retry, channelVars, linkVars>>

WsEnded ==
    /\ WsGo("ended", IF shutdown THEN "done" ELSE "wait")
    /\ UNCHANGED <<inHand, connected, retry, channelVars, linkVars>>

WsWaited ==
    /\ WsGo("wait", "top")
    /\ retry' = IF connected THEN BaseRetry ELSE NextRetry(retry)
    /\ UNCHANGED <<inHand, connected, channelVars, linkVars>>

WsStep ==
    /\ \/ WsTop \/ WsConnect \/ WsSubscribe \/ WsSubscribeErr \/ WsNextLog
       \/ WsSend \/ WsSendFails \/ WsStreamEnd \/ WsEnded \/ WsWaited
    /\ UNCHANGED <<chainVars, bfVars>>

Next == Node \/ Owner \/ BackfillStep \/ WsStep

Spec == Init /\ [][Next]_vars

(***************************************************************************)
(* Tokio runs every ready task, and calls and sleeps come to an end, with  *)
(* either result.  A full mpsc channel serves its senders in turn, so a    *)
(* sender that finds room again and again gets it: strong fairness.  The   *)
(* fetch task keeps reading while the source exists.                       *)
(***************************************************************************)
Fairness ==
    /\ WF_vars(Owner /\ (NextEvent \/ (shutdown /\ DropSource)))
    /\ WF_vars(BackfillStep)
    /\ SF_vars(BackfillStep /\ BackfillSend)
    /\ WF_vars(WsStep)
    /\ SF_vars(WsStep /\ (WsSend \/ WsSendFails))

FairSpec == Spec /\ Fairness

(* A network that never refuses for ever: attempts succeed again and again. *)
ReachableSpec ==
    /\ FairSpec
    /\ SF_vars(WsStep /\ WsConnect /\ ws' = "subscribe")
    /\ SF_vars(WsStep /\ WsSubscribe)

-----------------------------------------------------------------------------
(* Properties *)

SentBy(via) == Select(sent, {m \in Messages : m.via = via})
LogsSentBy(via) == [i \in DOMAIN SentBy(via) |-> SentBy(via)[i].log]
Kept(logs) == Select(logs, {l \in Logs : ~l.removed})

(* Nothing the node pushed is lost, repeated or reordered between the      *)
(* subscription and the channel, whether the channel fills up, the link    *)
(* breaks with logs on their way or the subscription is made again, until  *)
(* the source is dropped (stream loop of run_ws_loop, publish_log).        *)
LiveIsRelayed ==
    ~shutdown => Kept(pushed) = LogsSentBy("ws") \o inHand \o Kept(feed)

(* A backfill that came to its end while the source was in use has sent    *)
(* exactly one log of each block of its range, in order, apart from the    *)
(* chunks whose request failed (chunk arithmetic of run_backfill).         *)
BackfillCoversRange ==
    (bf = "done" /\ latest > 0 /\ ~shutdown) =>
        /\ {LogsSentBy("http")[i].block : i \in DOMAIN LogsSentBy("http")}
                = ((First(latest)..latest) \cap Blocks) \ skipped
        /\ \A i, j \in DOMAIN LogsSentBy("http") :
                i < j => LogsSentBy("http")[i].block < LogsSentBy("http")[j].block

(* A dropped source leaves no backfill task behind: not one waiting for    *)
(* room in the channel, nor one in the retry loop (run_backfill).          *)
BackfillStops == ~open ~> bf = "done"

(* Nor a WebSocket task, provided a silent connection is not silent for    *)
(* ever: the task sees the flag only when the stream gives it something.   *)
Silent == ws = "stream" /\ linked /\ feed = <<>>
WsStopsUnlessSilent == []<>~Silent => (~open ~> ws = "done")

(* A source in use whose connection broke subscribes again, when the       *)
(* network lets it (retry loop of run_ws_loop).                            *)
SubscribesAgain == (ws = "ended" /\ ~shutdown) ~> (ws = "stream" \/ shutdown)

(* Attempts that never lead to a subscription wait longer and longer, up   *)
(* to the longest wait (current_retry of run_ws_loop).                     *)
BacksOff == <>[](ws # "stream" /\ ~shutdown) => <>(retry = MaxRetry)

(* A consumer that has read all there was knows every block from the       *)
(* first one replayed: the replay meets the live subscription, and a new   *)
(* subscription continues where the broken one ended.                      *)
CaughtUp == /\ bf = "done" /\ latest > 0 /\ skipped = {} /\ ~shutdown
            /\ ws = "stream" /\ linked /\ feed = <<>>
NoBlockMissed ==
    CaughtUp => \A b \in Blocks \cap (First(latest)..head) :
                    \E i \in DOMAIN sent : sent[i].log.block = b
=============================================================================
