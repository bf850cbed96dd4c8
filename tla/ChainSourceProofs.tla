------------------------- MODULE ChainSourceProofs -------------------------
(***************************************************************************)
(* What holds of the chain source for every chain, channel and range: the  *)
(* types, the relay of the subscription's logs and the replay of the       *)
(* backfill's.                                                             *)
(*                                                                         *)
(* Both properties need to know at which points of the two tasks a log is  *)
(* in hand, and the backfill's how far its range has been replayed while a *)
(* chunk is on its way.                                                    *)
(***************************************************************************)
EXTENDS ChainSource, SequenceLemmas

(* where a log is in hand, and that it is not a removed one *)
Points ==
    /\ ~open => shutdown
    /\ ws = "send" <=> inHand # <<>>
    /\ \A i \in DOMAIN inHand : ~inHand[i].removed

(* what the backfill has sent or is about to send, and how far that goes *)
Replayed == LogsSentBy("http") \o batch
Covered  == IF bf = "publish" THEN ChunkEnd(current, latest) ELSE current - 1

InRange ==
    /\ bf = "top" => latest = 0 /\ batch = <<>> /\ Replayed = <<>> /\ skipped = {}
    /\ bf \in {"chunk", "publish"} => latest > 0
    /\ latest > 0 => bf # "top" /\ First(latest) <= current /\ current <= latest + 1
    /\ bf = "publish" => current <= latest
    /\ bf # "publish" => batch = <<>>
    /\ bf = "done" /\ ~shutdown /\ latest > 0 => current > latest

Increasing(logs) == \A i, j \in DOMAIN logs : i < j => logs[i].block < logs[j].block
BlocksOf(logs)   == {logs[i].block : i \in DOMAIN logs}

Coverage ==
    ~shutdown /\ latest > 0 =>
        /\ BlocksOf(Replayed) = ((First(latest)..Covered) \cap Blocks) \ skipped
        /\ skipped \subseteq First(latest)..Covered
        /\ Increasing(Replayed)

IInv == TypeOK /\ Points /\ LiveIsRelayed /\ InRange /\ Coverage

-----------------------------------------------------------------------------
(* The helpers *)

(* a chunk ends in its range and the next begins behind it *)
LEMMA ChunkBounds ==
    ASSUME NEW from \in Nat, NEW last \in Nat, from <= last
    PROVE  /\ ChunkEnd(from, last) \in from..last
           /\ NextChunk(from, last) = ChunkEnd(from, last) + 1
BY SourceAssumption DEF ChunkEnd, NextChunk, Chunk, Lesser

(* the replay begins in the chain *)
LEMMA FirstBounds ==
    ASSUME NEW last \in Nat
    PROVE  First(last) \in 0..last
BY SourceAssumption DEF First, Lesser

(* one log of each block, in order *)
LEMMA GotLogs ==
    ASSUME TypeOK, NEW from \in Nat, NEW to \in Nat, from <= to, to <= MaxBlock
    PROVE  /\ GetLogs(from, to) \in Seq(Logs)
           /\ BlocksOf(GetLogs(from, to)) = (from..to) \cap Blocks
           /\ Increasing(GetLogs(from, to))
<1> DEFINE a == IF from = 0 THEN 1 ELSE from
           n == to - a + 1
           logs == [i \in 1..n |-> Live(a + i - 1, fork[a + i - 1])]
<1>1. GetLogs(from, to) = logs
  BY DEF GetLogs, LogsIn
<1>2. a \in Nat /\ a > 0 /\ n \in Nat /\ (from..to) \cap Blocks = a..to
  BY SourceAssumption DEF Blocks
<1>3. \A i \in 1..n : a + i - 1 \in Blocks
  BY <1>2, SourceAssumption DEF Blocks
<1>4. \A i \in 1..n : logs[i] \in Logs /\ logs[i].block = a + i - 1
  BY <1>3 DEF TypeOK, Live, Logs
<1>5. logs \in Seq(Logs) /\ DOMAIN logs = 1..n
  <2>1. logs \in [1..n -> Logs]
    BY <1>4
  <2> QED BY <1>2, <2>1
<1> HIDE DEF logs
<1>6. Increasing(logs)
  BY <1>2, <1>4, <1>5 DEF Increasing
<1>7. BlocksOf(logs) = a..to
  <2>1. \A b \in a..to : b - a + 1 \in 1..n /\ a + (b - a + 1) - 1 = b
    BY <1>2
  <2>2. \A i \in 1..n : a + i - 1 \in a..to
    BY <1>2
  <2>3. BlocksOf(logs) = {logs[i].block : i \in 1..n}
    BY <1>5 DEF BlocksOf
  <2>4. a..to \subseteq BlocksOf(logs)
    BY <1>4, <2>1, <2>3
  <2>5. BlocksOf(logs) \subseteq a..to
    BY <1>4, <2>2, <2>3
  <2> QED BY <2>4, <2>5
<1> QED BY <1>1, <1>2, <1>5, <1>6, <1>7

(* what a task has sent are logs *)
LEMMA SentType ==
    ASSUME TypeOK, NEW via
    PROVE  SentBy(via) \in Seq(Messages) /\ LogsSentBy(via) \in Seq(Logs)
<1> DEFINE s == SentBy(via)
<1>1. s \in Seq(Messages \cap {m \in Messages : m.via = via})
  BY SelectType DEF TypeOK, SentBy
<1>2. s \in Seq(Messages)
  BY <1>1, SeqMonotonic
<1>3. LogsSentBy(via) = [i \in DOMAIN s |-> s[i].log]
  BY DEF LogsSentBy
<1> HIDE DEF s
<1>4. \A i \in DOMAIN s : s[i].log \in Logs
  <2>1. \A i \in DOMAIN s : s[i] \in Messages
    BY <1>2
  <2> QED BY <2>1 DEF Messages
<1>5. [i \in DOMAIN s |-> s[i].log] \in Seq(Logs)
  BY <1>2, <1>4
<1> QED BY <1>2, <1>3, <1>5 DEF s

(* a message is one more of its task's, and none of the other's *)
LEMMA SentAppend ==
    ASSUME TypeOK, NEW log \in Logs, NEW via \in {"http", "ws"}, NEW task,
           sent' = Append(sent, [log |-> log, via |-> via])
    PROVE  LogsSentBy(task)' = IF via = task THEN Append(LogsSentBy(task), log)
                               ELSE LogsSentBy(task)
<1> DEFINE m == [log |-> log, via |-> via]
           T == {x \in Messages : x.via = task}
           s == SentBy(task)
           t == SentBy(task)'
<1>1. m \in Messages /\ (m \in T <=> via = task) /\ m.log = log
  BY DEF Messages
<1>2. sent \in Seq(Messages) /\ s = Select(sent, T) /\ t = Select(Append(sent, m), T)
  BY DEF TypeOK, SentBy
<1> HIDE DEF m, T
<1>3. t = IF m \in T THEN Append(s, m) ELSE s
  BY <1>1, <1>2, SelectAppend
<1>4. s \in Seq(Messages)
  BY SentType
<1>5. /\ LogsSentBy(task) = [i \in DOMAIN s |-> s[i].log]
      /\ LogsSentBy(task)' = [i \in DOMAIN t |-> t[i].log]
  BY DEF LogsSentBy
<1> HIDE DEF s, t
<1>6. CASE via = task
  <2>1. t = Append(s, m)
    BY <1>1, <1>3, <1>6
  <2>2. [i \in DOMAIN t |-> t[i].log] = Append([i \in DOMAIN s |-> s[i].log], log)
    BY <1>1, <1>4, <2>1
  <2> QED BY <1>5, <1>6, <2>2
<1>7. CASE via # task
  BY <1>1, <1>3, <1>5, <1>7
<1> QED BY <1>6, <1>7

-----------------------------------------------------------------------------
(* The types *)

(* a push keeps the types *)
LEMMA PushType ==
    ASSUME TypeOK, NEW logs \in Seq(Logs), Push(logs)
    PROVE  feed' \in Seq(Logs) /\ pushed' \in Seq(Logs)
<1>1. feed \o logs \in Seq(Logs) /\ pushed \o logs \in Seq(Logs)
  BY ConcatProperties DEF TypeOK
<1> QED BY <1>1 DEF Push, TypeOK

(* so does a send *)
LEMMA SendType ==
    ASSUME TypeOK, NEW log \in Logs, NEW via \in {"http", "ws"}, Send(log, via)
    PROVE  /\ sent' \in Seq(Messages) /\ taken' \in 0..Len(sent') /\ Len(sent') - taken' <= Capacity
           /\ shutdown' \in BOOLEAN /\ open' \in BOOLEAN
<1>1. [log |-> log, via |-> via] \in Messages
  BY DEF Messages
<1>2. sent' \in Seq(Messages) /\ Len(sent') = Len(sent) + 1
  BY <1>1 DEF TypeOK, Send
<1> QED BY <1>2, SourceAssumption DEF TypeOK, Send, HasRoom

(* The types hold at the start *)
LEMMA TypeInit == Init => TypeOK
<1> SUFFICES ASSUME Init PROVE TypeOK
  OBVIOUS
<1>1. <<>> \in Seq(Logs) /\ <<>> \in Seq(Messages) /\ Len(<<>>) = 0
  OBVIOUS
<1>2. BaseRetry \in BaseRetry..MaxRetry /\ Capacity \in Nat /\ MaxBlock \in Nat
  BY SourceAssumption DEF MaxRetry
<1>3. head \in 0..MaxBlock /\ fork \in [Blocks -> {0, 1}] /\ skipped \subseteq 0..MaxBlock
  BY DEF Init
<1>4. feed \in Seq(Logs) /\ pushed \in Seq(Logs) /\ batch \in Seq(Logs) /\ inHand \in Seq(Logs)
  BY <1>1 DEF Init
<1>5. sent \in Seq(Messages) /\ taken \in 0..Len(sent) /\ Len(sent) - taken <= Capacity
      /\ Len(inHand) <= 1
  BY <1>1, <1>2, SourceAssumption DEF Init
<1>6. latest \in 0..MaxBlock /\ current \in 0..(MaxBlock + 1) /\ retry \in BaseRetry..MaxRetry
  BY <1>2 DEF Init
<1>7. /\ linked \in BOOLEAN /\ shutdown \in BOOLEAN /\ open \in BOOLEAN /\ connected \in BOOLEAN
      /\ bf \in {"top", "chunk", "publish", "done"} /\ ws = "top"
  BY DEF Init
<1> QED BY <1>3, <1>4, <1>5, <1>6, <1>7 DEF TypeOK

(* and every step keeps them; the bounds of the replay are needed for its position *)
LEMMA TypeStep ==
    ASSUME TypeOK, Points, InRange, [Next]_vars
    PROVE  TypeOK'
<1> USE DEF chainVars, linkVars, channelVars, bfVars, wsVars
<1>1. CASE Node
  <2>1. CASE Mine
    <3>1. head + 1 \in Blocks /\ <<Live(head + 1, 0)>> \in Seq(Logs)
      BY <2>1, SourceAssumption DEF Mine, TypeOK, Blocks, Live, Logs
    <3>2. feed' \in Seq(Logs) /\ pushed' \in Seq(Logs)
      BY <2>1, <3>1, PushType DEF Mine
    <3> QED BY <1>1, <2>1, <3>1, <3>2 DEF Node, Mine, TypeOK, Blocks
  <2>2. CASE Reorg
    <3>1. <<Gone(head, 0), Live(head, 1)>> \in Seq(Logs)
      BY <2>2, SourceAssumption DEF Reorg, TypeOK, Blocks, Live, Gone, Logs
    <3>2. feed' \in Seq(Logs) /\ pushed' \in Seq(Logs)
      BY <2>2, <3>1, PushType DEF Reorg
    <3> QED BY <1>1, <2>2, <3>2 DEF Node, Reorg, TypeOK, Blocks
  <2>3. CASE Disconnect
    BY <1>1, <2>3 DEF Node, Disconnect, TypeOK
  <2> QED BY <1>1, <2>1, <2>2, <2>3 DEF Node
<1>2. CASE Owner
  <2>1. CASE NextEvent
    <3>1. taken' \in 0..Len(sent) /\ Len(sent) - taken' <= Capacity
      BY <2>1, SourceAssumption DEF NextEvent, TypeOK
    <3> QED BY <1>2, <2>1, <3>1 DEF Owner, NextEvent, TypeOK
  <2>2. CASE DropSource
    BY <1>2, <2>2 DEF Owner, DropSource, TypeOK
  <2> QED BY <1>2, <2>1, <2>2 DEF Owner
<1>3. CASE BackfillStep
  <2>1. CASE BackfillStopped \/ BackfillEnd
    BY <1>3, <2>1 DEF BackfillStep, BackfillStopped, BackfillEnd, BfGo, TypeOK
  <2>2. CASE BackfillBegin
    <3>0. head \in Nat /\ head <= MaxBlock
      BY SourceAssumption DEF TypeOK
    <3>1. head \in Nat /\ head <= MaxBlock /\ First(head) \in 0..head
      BY <3>0, FirstBounds
    <3> QED BY <1>3, <2>2, <3>1, SourceAssumption DEF BackfillStep, BackfillBegin, BfGo, TypeOK
  <2>3. CASE BackfillChunk
    <3>1. current \in Nat /\ latest \in Nat /\ current <= latest /\ latest <= MaxBlock
      BY <2>3, SourceAssumption DEF BackfillChunk, TypeOK
    <3>2. ChunkEnd(current, latest) \in current..latest
      BY <3>1, ChunkBounds
    <3>3. GetLogs(current, ChunkEnd(current, latest)) \in Seq(Logs)
      BY <3>1, <3>2, GotLogs, SourceAssumption
    <3>4. batch' \in Seq(Logs) /\ skipped' \subseteq 0..MaxBlock
      <4>1. current..ChunkEnd(current, latest) \subseteq 0..MaxBlock
        BY <3>1, <3>2, SourceAssumption
      <4> QED BY <2>3, <3>3, <4>1 DEF BackfillChunk, TypeOK
    <3> QED BY <1>3, <2>3, <3>4 DEF BackfillStep, BackfillChunk, BfGo, TypeOK
  <2>4. CASE BackfillSend
    <3>1. Head(batch) \in Logs /\ Tail(batch) \in Seq(Logs)
      BY <2>4 DEF BackfillSend, TypeOK
    <3>2. CASE Send(Head(batch), "http") /\ batch' = Tail(batch)
      <4>1. /\ sent' \in Seq(Messages) /\ taken' \in 0..Len(sent')
            /\ Len(sent') - taken' <= Capacity /\ shutdown' \in BOOLEAN /\ open' \in BOOLEAN
        BY <3>1, <3>2, SendType
      <4> QED BY <1>3, <2>4, <3>1, <3>2, <4>1 DEF BackfillStep, BackfillSend, TypeOK
    <3>3. CASE SendFails /\ batch' = IF shutdown THEN <<>> ELSE Tail(batch)
      <4>1. batch' \in Seq(Logs)
        BY <3>1, <3>3
      <4> QED BY <1>3, <2>4, <3>3, <4>1 DEF BackfillStep, BackfillSend, SendFails, TypeOK
    <3> QED BY <2>4, <3>2, <3>3 DEF BackfillSend
  <2>5. CASE BackfillAdvance
    <3>1. current \in Nat /\ latest \in Nat /\ current <= latest /\ latest <= MaxBlock
      BY <2>5, SourceAssumption DEF BackfillAdvance, BfGo, TypeOK, InRange
    <3>2. NextChunk(current, latest) \in 0..(MaxBlock + 1)
      BY <3>1, ChunkBounds, SourceAssumption
    <3> QED BY <1>3, <2>5, <3>2 DEF BackfillStep, BackfillAdvance, BfGo, TypeOK
  <2> QED BY <1>3, <2>1, <2>2, <2>3, <2>4, <2>5 DEF BackfillStep
<1>4. CASE WsStep
  <2>1. CASE WsTop \/ WsSubscribeErr \/ WsEnded
    BY <1>4, <2>1 DEF WsStep, WsTop, WsSubscribeErr, WsEnded, WsGo, TypeOK
  <2>2. CASE WsSubscribe
    BY <1>4, <2>2 DEF WsStep, WsSubscribe, WsGo, TypeOK
  <2>6. CASE WsConnect
    <3>1. retry' \in BaseRetry..MaxRetry
      BY <2>6, SourceAssumption DEF WsConnect, MaxRetry, TypeOK
    <3> QED BY <1>4, <2>6, <3>1 DEF WsStep, WsConnect, WsGo, TypeOK
  <2>7. CASE WsWaited
    <3>1. retry' \in BaseRetry..MaxRetry
      BY <2>7, SourceAssumption DEF WsWaited, NextRetry, Lesser, MaxRetry, TypeOK
    <3> QED BY <1>4, <2>7, <3>1 DEF WsStep, WsWaited, WsGo, TypeOK
  <2>3. CASE WsNextLog
    <3>1. Tail(feed) \in Seq(Logs) /\ <<Head(feed)>> \in Seq(Logs) /\ Len(<<Head(feed)>>) = 1
      BY <2>3 DEF WsNextLog, TypeOK
    <3>2. inHand' \in Seq(Logs) /\ Len(inHand') <= 1 /\ feed' \in Seq(Logs)
      <4>1. inHand' = <<Head(feed)>> \/ inHand' = inHand
        BY <2>3 DEF WsNextLog
      <4>2. feed' = Tail(feed)
        BY <2>3 DEF WsNextLog
      <4>3. inHand \in Seq(Logs) /\ Len(inHand) <= 1
        BY DEF TypeOK
      <4>4. CASE inHand' = inHand
        BY <3>1, <4>2, <4>3, <4>4
      <4>5. CASE inHand' = <<Head(feed)>>
        <5>1. inHand' \in Seq(Logs)
          BY <3>1, <4>5
        <5>2. Len(inHand') = 1
          BY <3>1, <4>5
        <5>3. feed' \in Seq(Logs)
          BY <3>1, <4>2
        <5> QED BY <5>1, <5>2, <5>3
      <4> QED BY <4>1, <4>4, <4>5
    <3>3. ws' \in {"send", "stream"}
      BY <2>3 DEF WsNextLog, WsGo
    <3> QED BY <1>4, <2>3, <3>2, <3>3 DEF WsStep, WsNextLog, TypeOK
  <2>4. CASE WsSend
    <3>1. Head(inHand) \in Logs
      BY <2>4 DEF WsSend, WsGo, Points, TypeOK
    <3>2. /\ sent' \in Seq(Messages) /\ taken' \in 0..Len(sent')
          /\ Len(sent') - taken' <= Capacity /\ shutdown' \in BOOLEAN /\ open' \in BOOLEAN
      BY <2>4, <3>1, SendType DEF WsSend
    <3> QED BY <1>4, <2>4, <3>2 DEF WsStep, WsSend, WsGo, TypeOK
  <2>5. CASE WsSendFails
    <3>1. <<>> \in Seq(Logs) /\ Len(<<>>) = 0
      OBVIOUS
    <3>2. inHand' \in Seq(Logs) /\ Len(inHand') <= 1
      BY <2>5, <3>1 DEF WsSendFails
    <3>3. ws' \in {"ended", "stream"} /\ linked' \in BOOLEAN /\ feed' \in Seq(Logs)
      BY <2>5, <3>1 DEF WsSendFails, WsGo, TypeOK
    <3> QED BY <1>4, <2>5, <3>2, <3>3 DEF WsStep, WsSendFails, SendFails, TypeOK
  <2>8. CASE WsStreamEnd
    <3>1. <<>> \in Seq(Logs)
      OBVIOUS
    <3> QED BY <1>4, <2>8, <3>1 DEF WsStep, WsStreamEnd, WsGo, TypeOK
  <2> QED BY <1>4, <2>1, <2>2, <2>3, <2>4, <2>5, <2>6, <2>7, <2>8 DEF WsStep
<1>5. CASE UNCHANGED vars
  BY <1>5 DEF vars, TypeOK
<1> QED BY <1>1, <1>2, <1>3, <1>4, <1>5 DEF Next

-----------------------------------------------------------------------------
(* The points of the tasks and the range of the backfill *)

(* Every step keeps what is in hand where it belongs *)
LEMMA PointsStep ==
    ASSUME TypeOK, Points, [Next]_vars
    PROVE  Points'
<1> USE DEF chainVars, linkVars, channelVars, bfVars, wsVars, Points
<1>1. CASE Node
  BY <1>1 DEF Node, Mine, Reorg, Disconnect
<1>2. CASE Owner
  BY <1>2 DEF Owner, NextEvent, DropSource
<1>3. CASE BackfillStep
  BY <1>3 DEF BackfillStep, BackfillStopped, BackfillBegin, BackfillChunk, BackfillSend, Send,
              SendFails, BackfillAdvance, BackfillEnd
<1>4. CASE WsStep
  <2>1. CASE WsTop \/ WsConnect \/ WsSubscribe \/ WsSubscribeErr \/ WsEnded \/ WsWaited
             \/ WsStreamEnd
    BY <1>4, <2>1 DEF WsStep, WsTop, WsConnect, WsSubscribe, WsSubscribeErr, WsEnded, WsWaited,
                     WsStreamEnd, WsGo
  <2>2. CASE WsNextLog
    <3>1. CASE Head(feed).removed
      BY <2>2, <3>1 DEF WsNextLog, WsGo
    <3>2. CASE ~Head(feed).removed
      <4>1. inHand' = <<Head(feed)>> /\ ws' = "send" /\ open' = open /\ shutdown' = shutdown
        BY <2>2, <3>2 DEF WsNextLog, WsGo
      <4> QED BY <3>2, <4>1
    <3> QED BY <3>1, <3>2
  <2>3. CASE WsSend \/ WsSendFails
    <3>1. inHand' = <<>> /\ ws' # "send" /\ open' = open /\ shutdown' = shutdown
      BY <2>3 DEF WsSend, Send, WsSendFails, SendFails, WsGo
    <3> QED BY <3>1
  <2> QED BY <1>4, <2>1, <2>2, <2>3 DEF WsStep
<1>5. CASE UNCHANGED vars
  BY <1>5 DEF vars
<1> QED BY <1>1, <1>2, <1>3, <1>4, <1>5 DEF Next

(* the steps of the others leave the backfill and its messages alone *)
LEMMA OthersKeepReplayed ==
    ASSUME TypeOK, Points, Node \/ Owner \/ WsStep \/ UNCHANGED vars
    PROVE  /\ UNCHANGED bfVars /\ Replayed' = Replayed /\ Covered' = Covered
           /\ shutdown => shutdown'
<1> USE DEF chainVars, linkVars, channelVars, bfVars, wsVars
<1>1. /\ UNCHANGED bfVars
      /\ shutdown => shutdown'
  BY DEF Node, Owner, NextEvent, DropSource, WsStep, WsTop, WsConnect, WsSubscribe, WsSubscribeErr,
         WsNextLog, WsSend, Send, WsSendFails, SendFails, WsStreamEnd, WsEnded, WsWaited, vars
<1>2. LogsSentBy("http")' = LogsSentBy("http")
  <2>1. CASE sent' = sent
    BY <2>1 DEF LogsSentBy, SentBy
  <2>2. CASE WsSend
    <3>1. Head(inHand) \in Logs /\ sent' = Append(sent, [log |-> Head(inHand), via |-> "ws"])
      BY <2>2 DEF WsSend, Send, WsGo, Points, TypeOK
    <3> QED BY <3>1, SentAppend
  <2>3. sent' = sent \/ WsSend
    BY DEF Node, Owner, NextEvent, DropSource, WsStep, WsTop, WsConnect, WsSubscribe,
           WsSubscribeErr, WsNextLog, WsSendFails, SendFails, WsStreamEnd, WsEnded, WsWaited, vars
  <2> QED BY <2>1, <2>2, <2>3
<1> QED BY <1>1, <1>2 DEF Replayed, Covered, ChunkEnd, Chunk, Lesser

(* a send moves a log from the batch to the channel *)
LEMMA SendKeepsReplayed ==
    ASSUME TypeOK, BackfillSend, Send(Head(batch), "http"), batch' = Tail(batch)
    PROVE  Replayed' = Replayed
<1>1. batch \in Seq(Logs) /\ batch # <<>> /\ Head(batch) \in Logs /\ Tail(batch) \in Seq(Logs)
  BY DEF BackfillSend, TypeOK
<1>2. LogsSentBy("http")' = Append(LogsSentBy("http"), Head(batch))
  BY <1>1, SentAppend DEF Send
<1>3. LogsSentBy("http") \in Seq(Logs)
  BY SentType
<1> DEFINE s == LogsSentBy("http")
<1>4. s \in Seq(Logs)
  BY <1>3
<1> HIDE DEF s
<1>5. Append(s, Head(batch)) \o Tail(batch) = s \o batch
  BY <1>1, <1>4
<1> QED BY <1>2, <1>5 DEF Replayed, s

(* Every step keeps the position of the replay in its range *)
LEMMA InRangeStep ==
    ASSUME TypeOK, Points, InRange, [Next]_vars
    PROVE  InRange'
<1>0. latest \in Nat /\ current \in Nat /\ head \in Nat
  BY SourceAssumption DEF TypeOK
<1>1. CASE Node \/ Owner \/ WsStep \/ UNCHANGED vars
  <2>1. /\ UNCHANGED bfVars /\ Replayed' = Replayed
        /\ shutdown => shutdown'
    BY <1>1, OthersKeepReplayed
  <2> QED BY <2>1 DEF InRange, bfVars, First, Lesser
<1>2. CASE BackfillStep
  <2>1. CASE BackfillStopped
    BY <1>2, <2>1 DEF BackfillStep, BackfillStopped, InRange, channelVars, First, Lesser
  <2>2. CASE BackfillBegin
    <3>1. First(head) \in 0..head
      BY <1>0, FirstBounds
    <3>2. First(latest)' = First(head)
      BY <2>2 DEF BackfillBegin, First, Lesser
    <3>3. bf = "top" /\ bf' = "chunk" /\ latest' = head /\ head > 0 /\ current' = First(head)
          /\ batch' = batch
      BY <2>2 DEF BackfillBegin, BfGo
    <3> QED BY <1>0, <3>1, <3>2, <3>3 DEF InRange
  <2>3. CASE BackfillChunk
    <3>1. bf' = "publish" /\ latest' = latest /\ current' = current /\ current <= latest /\ bf = "chunk"
      BY <2>3 DEF BackfillChunk, BfGo
    <3> QED BY <3>1 DEF InRange, First, Lesser
  <2>4. CASE BackfillSend
    <3>1. bf' = "publish" /\ bf = "publish" /\ latest' = latest /\ current' = current
      BY <2>4 DEF BackfillSend
    <3> QED BY <3>1 DEF InRange, First, Lesser
  <2>5. CASE BackfillAdvance
    <3>1. bf' = "chunk" /\ bf = "publish" /\ latest' = latest /\ batch = <<>> /\ batch' = batch
          /\ current' = NextChunk(current, latest)
      BY <2>5 DEF BackfillAdvance, BfGo
    <3>2. ChunkEnd(current, latest) \in current..latest
          /\ NextChunk(current, latest) = ChunkEnd(current, latest) + 1
      BY <1>0, <3>1, ChunkBounds DEF InRange
    <3>3. First(latest) <= current /\ latest > 0 /\ First(latest)' = First(latest) /\ First(latest) \in Int
      BY <1>0, <3>1, FirstBounds DEF InRange, First, Lesser
    <3> QED BY <1>0, <3>1, <3>2, <3>3 DEF InRange
  <2>6. CASE BackfillEnd
    <3>1. bf' = "done" /\ bf = "chunk" /\ latest' = latest /\ batch' = batch /\ current' = current
          /\ current > latest
      BY <2>6 DEF BackfillEnd, BfGo
    <3> QED BY <3>1 DEF InRange, First, Lesser
  <2> QED BY <1>2, <2>1, <2>2, <2>3, <2>4, <2>5, <2>6 DEF BackfillStep
<1> QED BY <1>1, <1>2 DEF Next

-----------------------------------------------------------------------------
(* The relay *)

(* what is kept are logs *)
LEMMA KeptType ==
    ASSUME NEW logs \in Seq(Logs)
    PROVE  Kept(logs) \in Seq(Logs)
<1>1. Kept(logs) \in Seq(Logs \cap {l \in Logs : ~l.removed})
  BY SelectType DEF Kept
<1> QED BY <1>1, SeqMonotonic

(* what is sent, in hand and on the way leaves room for what comes after it *)
LEMMA PushIsRelayed ==
    ASSUME TypeOK, LiveIsRelayed, NEW logs \in Seq(Logs), Push(logs),
           UNCHANGED <<shutdown, sent, inHand>>
    PROVE  LiveIsRelayed'
<1>1. CASE ~linked
  BY <1>1 DEF Push, LiveIsRelayed, Kept, LogsSentBy, SentBy
<1>2. CASE linked /\ ~shutdown
  <2> DEFINE a == LogsSentBy("ws")
             k == Kept(feed)
             l == Kept(logs)
             p == Kept(pushed)
  <2>1. a \in Seq(Logs) /\ inHand \in Seq(Logs) /\ k \in Seq(Logs) /\ l \in Seq(Logs)
    BY SentType, KeptType DEF TypeOK
  <2>2. p = (a \o inHand) \o k
    BY <1>2 DEF LiveIsRelayed
  <2>3. Kept(feed)' = k \o l /\ Kept(pushed)' = p \o l
    <3> DEFINE T == {m \in Logs : ~m.removed}
    <3>1. feed \in Seq(Logs) /\ pushed \in Seq(Logs)
      BY DEF TypeOK
    <3>2. Kept(feed)' = Select(feed \o logs, T) /\ Kept(pushed)' = Select(pushed \o logs, T)
      BY <1>2 DEF Push, Kept
    <3>3. k = Select(feed, T) /\ p = Select(pushed, T) /\ l = Select(logs, T)
      BY DEF Kept
    <3> HIDE DEF T, k, p, l
    <3>4. Select(feed \o logs, T) = Select(feed, T) \o Select(logs, T)
      BY <3>1, SelectConcat
    <3>5. Select(pushed \o logs, T) = Select(pushed, T) \o Select(logs, T)
      BY <3>1, SelectConcat
    <3> QED BY <3>2, <3>3, <3>4, <3>5
  <2>4. LogsSentBy("ws")' = a
    BY DEF LogsSentBy, SentBy
  <2> HIDE DEF a, k, l, p
  <2>5. \A b \in Seq(Logs) : (b \o k) \o l = b \o (k \o l)
    BY <2>1, ConcatAssociative
  <2>6. ((a \o inHand) \o k) \o l = (a \o inHand) \o (k \o l)
    <3> DEFINE b == a \o inHand
    <3>1. b \in Seq(Logs)
      BY <2>1, ConcatProperties
    <3> HIDE DEF b
    <3>2. (b \o k) \o l = b \o (k \o l)
      BY <2>5, <3>1
    <3> QED BY <3>2 DEF b
  <2> QED BY <2>2, <2>3, <2>4, <2>6 DEF LiveIsRelayed
<1>3. CASE shutdown
  BY <1>3 DEF LiveIsRelayed
<1> QED BY <1>1, <1>2, <1>3

(* a log taken from the subscription is in hand, or passed over as removed *)
LEMMA NextIsRelayed ==
    ASSUME TypeOK, Points, LiveIsRelayed, WsNextLog
    PROVE  LiveIsRelayed'
<1> SUFFICES ASSUME ~shutdown PROVE LiveIsRelayed'
  BY DEF WsNextLog, channelVars, LiveIsRelayed
<1> DEFINE a == LogsSentBy("ws")
           h == Head(feed)
           k == Kept(Tail(feed))
<1>1. feed \in Seq(Logs) /\ feed # <<>> /\ h \in Logs /\ Tail(feed) \in Seq(Logs)
  BY DEF WsNextLog, TypeOK
<1>2. a \in Seq(Logs) /\ k \in Seq(Logs)
  BY <1>1, SentType, KeptType
<1>3. Kept(feed) = (IF ~h.removed THEN <<h>> ELSE <<>>) \o k
  BY <1>1, SelectHead DEF Kept
<1>4. inHand = <<>> /\ Kept(pushed) = (a \o <<>>) \o Kept(feed)
  BY DEF WsNextLog, WsGo, Points, LiveIsRelayed
<1>5. LogsSentBy("ws")' = a /\ Kept(pushed)' = Kept(pushed) /\ Kept(feed)' = k
  BY DEF WsNextLog, channelVars, LogsSentBy, SentBy, Kept
<1>6. inHand' = IF ~h.removed THEN <<h>> ELSE <<>>
  BY <1>4 DEF WsNextLog
<1> HIDE DEF a, h, k
<1>7. CASE ~h.removed
  <2>1. (a \o <<>>) \o (<<h>> \o k) = (a \o <<h>>) \o k
    BY <1>1, <1>2
  <2> QED BY <1>3, <1>4, <1>5, <1>6, <1>7, <2>1 DEF LiveIsRelayed
<1>8. CASE h.removed
  <2>1. <<>> \o k = k
    BY <1>2
  <2> QED BY <1>3, <1>4, <1>5, <1>6, <1>8, <2>1 DEF LiveIsRelayed
<1> QED BY <1>7, <1>8

(* a log in hand is sent before any other *)
LEMMA SendIsRelayed ==
    ASSUME TypeOK, Points, LiveIsRelayed, WsSend, UNCHANGED linkVars
    PROVE  LiveIsRelayed'
<1> SUFFICES ASSUME ~shutdown PROVE LiveIsRelayed'
  BY DEF WsSend, Send, LiveIsRelayed
<1> DEFINE a == LogsSentBy("ws")
           h == Head(inHand)
           k == Kept(feed)
<1>1. h \in Logs /\ inHand = <<h>>
  <2>1. inHand \in Seq(Logs) /\ Len(inHand) <= 1 /\ inHand # <<>>
    BY DEF WsSend, WsGo, Points, TypeOK
  <2>2. Len(inHand) = 1
    <3> DEFINE n == Len(inHand)
    <3>1. n \in Nat \ {0}
      BY <2>1, EmptySeq
    <3>2. n <= 1
      BY <2>1
    <3> HIDE DEF n
    <3>3. n = 1
      BY <3>1, <3>2
    <3> QED BY <3>3 DEF n
  <2> QED BY <2>1, <2>2
<1>2. a \in Seq(Logs) /\ k \in Seq(Logs)
  BY SentType, KeptType DEF TypeOK
<1>3. LogsSentBy("ws")' = Append(a, h)
  BY <1>1, SentAppend DEF WsSend, Send
<1>4. inHand' = <<>> /\ Kept(feed)' = k /\ Kept(pushed)' = Kept(pushed)
  BY DEF WsSend, linkVars, Kept
<1>5. Kept(pushed) = (a \o <<h>>) \o k
  BY <1>1 DEF LiveIsRelayed
<1> HIDE DEF a, h, k
<1>6. (Append(a, h) \o <<>>) \o k = (a \o <<h>>) \o k
  BY <1>1, <1>2
<1> QED BY <1>3, <1>4, <1>5, <1>6 DEF LiveIsRelayed

(* Every step keeps the live logs in order *)
LEMMA RelayStep ==
    ASSUME TypeOK, Points, LiveIsRelayed, [Next]_vars
    PROVE  LiveIsRelayed'
<1> USE DEF chainVars, linkVars, channelVars, bfVars, wsVars
<1>1. CASE Mine /\ Node
  <2>1. <<Live(head + 1, 0)>> \in Seq(Logs)
    BY <1>1, SourceAssumption DEF Mine, TypeOK, Blocks, Live, Logs
  <2> QED BY <1>1, <2>1, PushIsRelayed DEF Mine, Node
<1>2. CASE Reorg /\ Node
  <2>1. <<Gone(head, 0), Live(head, 1)>> \in Seq(Logs)
    BY <1>2, SourceAssumption DEF Reorg, TypeOK, Blocks, Live, Gone, Logs
  <2> QED BY <1>2, <2>1, PushIsRelayed DEF Reorg, Node
<1>3. CASE BackfillStep /\ ~(BackfillSend /\ sent' # sent)
  <2>1. UNCHANGED <<shutdown, sent, inHand, feed, pushed>>
    BY <1>3 DEF BackfillStep, BackfillStopped, BackfillBegin, BackfillChunk, BackfillSend, Send,
                SendFails, BackfillAdvance, BackfillEnd
  <2> QED BY <2>1 DEF LiveIsRelayed, Kept, LogsSentBy, SentBy
<1>4. CASE BackfillStep /\ BackfillSend /\ sent' # sent
  <2>1. Head(batch) \in Logs
    BY <1>4 DEF BackfillSend, TypeOK
  <2>2. LogsSentBy("ws")' = LogsSentBy("ws")
    BY <1>4, <2>1, SentAppend DEF BackfillSend, Send, SendFails
  <2>3. UNCHANGED <<shutdown, inHand, feed, pushed>>
    BY <1>4 DEF BackfillStep, BackfillSend, Send, SendFails
  <2> QED BY <2>2, <2>3 DEF LiveIsRelayed, Kept
<1>5. CASE WsNextLog
  BY <1>5, NextIsRelayed
<1>6. CASE WsSend
  BY <1>6, SendIsRelayed DEF WsSend
<1>7. CASE WsSendFails
  <2>1. shutdown /\ shutdown'
    BY <1>7 DEF WsSendFails, SendFails, Points
  <2> QED BY <2>1 DEF LiveIsRelayed
<1>8. CASE \/ Node /\ Disconnect
           \/ Owner
           \/ UNCHANGED vars
           \/ WsStep /\ ~WsNextLog /\ ~WsSend /\ ~WsSendFails
  <2>1. UNCHANGED <<sent, inHand, feed, pushed>> /\ (shutdown => shutdown')
    BY <1>8 DEF Node, Disconnect, Owner, NextEvent, DropSource, WsStep, WsTop, WsConnect, WsSubscribe,
                WsSubscribeErr, WsStreamEnd, StreamOver, WsEnded, WsWaited, vars
  <2> QED BY <2>1 DEF LiveIsRelayed, Kept, LogsSentBy, SentBy
<1> QED BY <1>1, <1>2, <1>3, <1>4, <1>5, <1>6, <1>7, <1>8 DEF Next, Node, WsStep

-----------------------------------------------------------------------------
(* The replay *)

(* an increasing sequence and a later one are one *)
LEMMA IncreasingConcat ==
    ASSUME NEW s \in Seq(Logs), NEW t \in Seq(Logs), Increasing(s), Increasing(t),
           \A a \in BlocksOf(s), b \in BlocksOf(t) : a < b
    PROVE  Increasing(s \o t) /\ BlocksOf(s \o t) = BlocksOf(s) \cup BlocksOf(t)
<1> DEFINE m == Len(s)
           n == Len(t)
           u == s \o t
<1>1. /\ m \in Nat /\ n \in Nat /\ DOMAIN s = 1..m /\ DOMAIN t = 1..n /\ DOMAIN u = 1..(m + n)
      /\ \A i \in 1..m : u[i] = s[i]
      /\ \A i \in (m + 1)..(m + n) : u[i] = t[i - m]
  OBVIOUS
<1>2. \A i \in 1..m : s[i].block \in BlocksOf(s)
  BY <1>1 DEF BlocksOf
<1>3. \A i \in 1..n : t[i].block \in BlocksOf(t)
  BY <1>1 DEF BlocksOf
<1> HIDE DEF u, m, n
<1>4. \A i \in (m + 1)..(m + n) : i - m \in 1..n
  BY <1>1
<1>5. \A i \in 1..n : m + i \in (m + 1)..(m + n) /\ (m + i) - m = i
  BY <1>1
<1>6. 1..(m + n) = 1..m \cup (m + 1)..(m + n)
  BY <1>1
<1>7. Increasing(u)
  <2> SUFFICES ASSUME NEW i \in DOMAIN u, NEW j \in DOMAIN u, i < j
               PROVE  u[i].block < u[j].block
    BY DEF Increasing
  <2>1. CASE j \in 1..m
    <3>1. i \in 1..m
      BY <1>1, <2>1
    <3> QED BY <1>1, <2>1, <3>1 DEF Increasing
  <2>2. CASE i \in 1..m /\ j \in (m + 1)..(m + n)
    BY <1>1, <1>2, <1>3, <1>4, <2>2
  <2>3. CASE i \in (m + 1)..(m + n) /\ j \in (m + 1)..(m + n)
    <3>1. i - m \in 1..n /\ j - m \in 1..n /\ i - m < j - m
      BY <1>1, <1>4, <2>3
    <3> QED BY <1>1, <2>3, <3>1 DEF Increasing
  <2> QED BY <1>1, <1>6, <2>1, <2>2, <2>3
<1>8. BlocksOf(u) = BlocksOf(s) \cup BlocksOf(t)
  <2>1. BlocksOf(u) = {u[i].block : i \in 1..(m + n)}
    BY <1>1 DEF BlocksOf
  <2>2. BlocksOf(u) \subseteq BlocksOf(s) \cup BlocksOf(t)
    BY <1>1, <1>2, <1>3, <1>4, <1>6, <2>1
  <2>3. BlocksOf(s) \subseteq BlocksOf(u)
    BY <1>1, <1>6, <2>1 DEF BlocksOf
  <2>4. BlocksOf(t) \subseteq BlocksOf(u)
    <3>1. ASSUME NEW i \in 1..n PROVE t[i].block \in BlocksOf(u)
      <4>1. u[m + i] = t[i] /\ m + i \in 1..(m + n)
        BY <1>1, <1>5, <1>6
      <4> QED BY <2>1, <4>1
    <3> QED BY <1>1, <3>1 DEF BlocksOf
  <2> QED BY <2>2, <2>3, <2>4
<1> QED BY <1>7, <1>8 DEF u

(* Every step keeps the replay without gaps up to where it has come *)
LEMMA CoverageStep ==
    ASSUME TypeOK, Points, InRange, Coverage, [Next]_vars
    PROVE  Coverage'
<1>0. latest \in Nat /\ current \in Nat /\ head \in Nat /\ latest <= MaxBlock /\ MaxBlock \in Nat
  BY SourceAssumption DEF TypeOK
<1>1. CASE Node \/ Owner \/ WsStep \/ UNCHANGED vars
  <2>1. /\ UNCHANGED bfVars /\ Replayed' = Replayed /\ Covered' = Covered
        /\ shutdown => shutdown'
    BY <1>1, OthersKeepReplayed
  <2> QED BY <2>1 DEF Coverage, bfVars, First, Lesser, BlocksOf, Increasing
<1>2. CASE BackfillStep
  <2> SUFFICES ASSUME ~shutdown, ~shutdown' PROVE Coverage'
    BY <1>2 DEF Coverage, BackfillStep, BackfillStopped, BackfillBegin, BackfillChunk, BackfillSend,
                Send, SendFails, BackfillAdvance, BackfillEnd, channelVars
  <2>1. CASE BackfillStopped
    BY <2>1 DEF BackfillStopped
  <2>2. CASE BackfillBegin
    <3>1. Replayed' = <<>> /\ skipped' = {}
      BY <2>2 DEF BackfillBegin, BfGo, InRange, Replayed, LogsSentBy, SentBy, channelVars
    <3>2. First(head) \in Nat
      BY <1>0, FirstBounds
    <3>3. First(latest)' = First(head) /\ Covered' = First(head) - 1
      BY <2>2 DEF BackfillBegin, BfGo, First, Lesser, Covered
    <3>4. First(head)..(First(head) - 1) = {}
      BY <3>2
    <3> QED BY <3>1, <3>3, <3>4 DEF Coverage, BlocksOf, Increasing
  <2>3. CASE BackfillChunk
    <3> DEFINE to == ChunkEnd(current, latest)
               got == GetLogs(current, to)
               h == LogsSentBy("http")
               from == First(latest)
    <3>1. /\ bf = "chunk" /\ bf' = "publish" /\ latest' = latest /\ current' = current
          /\ current <= latest /\ latest > 0 /\ batch = <<>>
      BY <2>3 DEF BackfillChunk, BfGo, InRange
    <3>2. to \in current..latest /\ from \in Nat /\ from <= current
      BY <1>0, <3>1, ChunkBounds, FirstBounds DEF InRange
    <3>3. h \in Seq(Logs) /\ Replayed = h /\ LogsSentBy("http")' = h
      <4>1. h \in Seq(Logs)
        BY SentType
      <4>2. h \o <<>> = h
        BY <4>1, ConcatEmptySeq
      <4>3. LogsSentBy("http")' = h
        BY <2>3 DEF BackfillChunk, channelVars, LogsSentBy, SentBy
      <4> QED BY <3>1, <4>1, <4>2, <4>3 DEF Replayed
    <3>4. /\ BlocksOf(h) = ((from..(current - 1)) \cap Blocks) \ skipped
          /\ skipped \subseteq from..(current - 1) /\ Increasing(h)
      BY <3>1, <3>3 DEF Coverage, Covered
    <3>5. /\ got \in Seq(Logs) /\ BlocksOf(got) = (current..to) \cap Blocks /\ Increasing(got)
      BY <1>0, <3>2, GotLogs
    <3>6. First(latest)' = from /\ Covered' = to
      BY <3>1 DEF First, Lesser, Covered, ChunkEnd, Chunk
    <3>7. from..to = (from..(current - 1)) \cup (current..to)
          /\ (from..(current - 1)) \cap (current..to) = {}
      BY <1>0, <3>2
    <3> HIDE DEF h, got, to, from
    <3>8. CASE batch' = got /\ UNCHANGED skipped
      <4>1. \A a \in BlocksOf(h), b \in BlocksOf(got) : a < b
        BY <1>0, <3>2, <3>4, <3>5
      <4>2. Increasing(h \o got) /\ BlocksOf(h \o got) = BlocksOf(h) \cup BlocksOf(got)
        BY <3>3, <3>4, <3>5, <4>1, IncreasingConcat
      <4>3. Replayed' = h \o got
        BY <3>3, <3>8 DEF Replayed
      <4>4. BlocksOf(h \o got) = ((from..to) \cap Blocks) \ skipped /\ skipped \subseteq from..to
        BY <3>4, <3>5, <3>7, <4>2
      <4> QED BY <3>6, <3>8, <4>2, <4>3, <4>4 DEF Coverage, BlocksOf, Increasing
    <3>9. CASE skipped' = skipped \cup (current..to) /\ UNCHANGED batch
      <4>1. Replayed' = h
        BY <3>3, <3>9 DEF Replayed, h
      <4>2. BlocksOf(h) = ((from..to) \cap Blocks) \ skipped' /\ skipped' \subseteq from..to
        BY <3>4, <3>7, <3>9
      <4> QED BY <3>4, <3>6, <4>1, <4>2 DEF Coverage, BlocksOf, Increasing
    <3> QED BY <2>3, <3>8, <3>9 DEF BackfillChunk, got, to
  <2>4. CASE BackfillSend
    <3>1. Replayed' = Replayed
      <4>1. open
        BY <2>4 DEF BackfillSend, SendFails, Send, Points, BackfillStep
      <4> QED BY <2>4, <4>1, SendKeepsReplayed DEF BackfillSend, SendFails
    <3>2. bf' = bf /\ latest' = latest /\ current' = current /\ skipped' = skipped
      BY <2>4 DEF BackfillSend
    <3> QED BY <3>1, <3>2 DEF Coverage, Covered, ChunkEnd, Chunk, First, Lesser, BlocksOf, Increasing
  <2>5. CASE BackfillAdvance
    <3>1. bf' = "chunk" /\ bf = "publish" /\ latest' = latest /\ batch' = batch /\ skipped' = skipped
          /\ current' = NextChunk(current, latest)
      BY <2>5 DEF BackfillAdvance, BfGo
    <3>2. ChunkEnd(current, latest) \in current..latest
          /\ NextChunk(current, latest) = ChunkEnd(current, latest) + 1
      BY <1>0, <3>1, ChunkBounds DEF InRange
    <3>3. Covered' = Covered
      BY <1>0, <3>1, <3>2 DEF Covered
    <3>4. Replayed' = Replayed
      BY <2>5, <3>1 DEF BackfillAdvance, Replayed, LogsSentBy, SentBy, channelVars
    <3> QED BY <3>1, <3>3, <3>4 DEF Coverage, First, Lesser, BlocksOf, Increasing
  <2>6. CASE BackfillEnd
    <3>1. bf' = "done" /\ bf = "chunk" /\ latest' = latest /\ batch' = batch /\ current' = current
          /\ skipped' = skipped
      BY <2>6 DEF BackfillEnd, BfGo
    <3>2. Replayed' = Replayed /\ Covered' = Covered
      BY <2>6, <3>1 DEF BackfillEnd, Replayed, LogsSentBy, SentBy, channelVars, Covered
    <3> QED BY <3>1, <3>2 DEF Coverage, First, Lesser, BlocksOf, Increasing
  <2> QED BY <1>2, <2>1, <2>2, <2>3, <2>4, <2>5, <2>6 DEF BackfillStep
<1> QED BY <1>1, <1>2 DEF Next

-----------------------------------------------------------------------------
(* The invariant *)

(* The invariant holds at the start *)
LEMMA InvInit == Init => IInv
<1> SUFFICES ASSUME Init PROVE IInv
  OBVIOUS
<1>1. TypeOK
  BY TypeInit
<1>2. Points
  BY DEF Init, Points
<1>3. SentBy("ws") = <<>> /\ SentBy("http") = <<>> /\ Kept(pushed) = <<>> /\ Kept(feed) = <<>>
  BY SelectEmpty DEF Init, SentBy, Kept
<1>4. LogsSentBy("ws") = <<>> /\ LogsSentBy("http") = <<>>
  BY <1>3 DEF LogsSentBy
<1>5. LiveIsRelayed
  <2>1. inHand = <<>> /\ (<<>> \o <<>>) \o <<>> = <<>>
    BY DEF Init
  <2> QED BY <1>3, <1>4, <2>1 DEF LiveIsRelayed
<1>6. Replayed = <<>>
  BY <1>4 DEF Init, Replayed
<1>7. InRange /\ Coverage
  BY <1>6 DEF Init, InRange, Coverage
<1> QED BY <1>1, <1>2, <1>5, <1>7 DEF IInv

(* The inductive invariant of the chain source. *)
THEOREM SourceInvariant == Spec => []IInv
<1>1. Init => IInv
  BY InvInit
<1>2. IInv /\ [Next]_vars => IInv'
  BY TypeStep, PointsStep, RelayStep, InRangeStep, CoverageStep DEF IInv
<1> QED BY <1>1, <1>2, PTL DEF Spec

(* The types of the source's state, and a channel that never holds more     *)
(* than its capacity.                                                       *)
THEOREM TypeSafety == Spec => []TypeOK
<1>1. IInv => TypeOK
  BY DEF IInv
<1> QED BY <1>1, SourceInvariant, PTL

(* What the node pushed is sent, in hand or on the way, in its order,       *)
(* however often the link breaks and whatever the channel holds.            *)
THEOREM RelaySafety == Spec => []LiveIsRelayed
<1>1. IInv => LiveIsRelayed
  BY DEF IInv
<1> QED BY <1>1, SourceInvariant, PTL

(* A backfill that came to its end has sent one log of each block of its    *)
(* range, in order, for every range and chunk size, those of 0 included.    *)
THEOREM BackfillSafety == Spec => []BackfillCoversRange
<1>1. IInv => BackfillCoversRange
  <2> SUFFICES ASSUME IInv, bf = "done", latest > 0, ~shutdown PROVE BackfillCoversRange
    BY DEF BackfillCoversRange
  <2>1. latest \in Nat /\ current \in Nat /\ current > latest /\ current <= latest + 1 /\ batch = <<>>
    BY SourceAssumption DEF IInv, TypeOK, InRange
  <2>2. LogsSentBy("http") \in Seq(Logs)
    BY SentType DEF IInv
  <2>3. Replayed = LogsSentBy("http")
    BY <2>1, <2>2, ConcatEmptySeq DEF Replayed
  <2>4. Covered = latest
    BY <2>1 DEF Covered
  <2> QED BY <2>3, <2>4 DEF IInv, Coverage, BackfillCoversRange, BlocksOf, Increasing
<1> QED BY <1>1, SourceInvariant, PTL
=============================================================================
