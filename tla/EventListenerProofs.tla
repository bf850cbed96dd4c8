------------------------ MODULE EventListenerProofs ------------------------
(***************************************************************************)
(* Theorems about EventListener, for every value of its constants: what is *)
(* stored, who runs after stop(), what each sink sees of each event, the   *)
(* source's order, and the ordered feed.                                   *)
(***************************************************************************)
EXTENDS EventListener, SequenceTheorems, TLAPS

-----------------------------------------------------------------------------
(* Sequences                                                               *)

(* A non-empty sequence is its head followed by its tail. *)
LEMMA HeadThenTail ==
    ASSUME NEW S, NEW s \in Seq(S), s # <<>>
    PROVE  s = <<Head(s)>> \o Tail(s)
<1>1. /\ Head(s) \in S /\ Tail(s) \in Seq(S)
      /\ Len(Tail(s)) = Len(s) - 1
      /\ \A i \in 1..Len(Tail(s)) : Tail(s)[i] = s[i + 1]
  BY HeadTailProperties
<1>2. /\ Len(s) \in Nat \ {0}
      /\ Head(s) = s[1]
  BY EmptySeq
<1>3. <<Head(s)>> \in Seq(S) /\ Len(<<Head(s)>>) = 1 /\ <<Head(s)>>[1] = s[1]
  BY <1>1, <1>2
<1> DEFINE u == <<Head(s)>> \o Tail(s)
<1>4. /\ u \in Seq(S) /\ Len(u) = Len(<<Head(s)>>) + Len(Tail(s))
      /\ \A i \in 1..(Len(<<Head(s)>>) + Len(Tail(s))) :
            u[i] = IF i <= Len(<<Head(s)>>) THEN <<Head(s)>>[i]
                   ELSE Tail(s)[i - Len(<<Head(s)>>)]
  BY <1>1, <1>3, ConcatProperties
<1>5. Len(s) = Len(u) /\ \A i \in 1..Len(s) : s[i] = u[i]
  <2> HIDE DEF u
  <2>1. Len(s) = Len(u)
    BY <1>1, <1>2, <1>3, <1>4
  <2>2. ASSUME NEW i \in 1..Len(s) PROVE s[i] = u[i]
    <3>1. CASE i = 1
      BY <3>1, <1>2, <1>3, <1>4, <2>1
    <3>2. CASE i > 1
      <4>1. i - 1 \in 1..Len(Tail(s))
        BY <3>2, <1>1, <1>2
      <4>2. Tail(s)[i - 1] = s[(i - 1) + 1]
        BY <4>1, <1>1
      <4>3. u[i] = Tail(s)[i - 1]
        BY <3>2, <1>1, <1>2, <1>3, <1>4, <2>1
      <4>4. (i - 1) + 1 = i
        BY <1>2
      <4> QED BY <4>2, <4>3, <4>4
    <3> QED BY <3>1, <3>2, <1>2
  <2> QED BY <2>1, <2>2
<1> QED
  <2> HIDE DEF u
  <2>1. s = u BY <1>4, <1>5, SeqEqual
  <2> QED BY <2>1 DEF u

-----------------------------------------------------------------------------
(* Starting.  Until it is spawned, the fetch task of a start has not run.  *)

Starting == {"storePump", "readSource"}

FetchNotSpawned ==
    /\ \A t \in Tasks : pump[t] = "none" => pub[t] = "none"
    /\ \A c \in Controllers : ctl[c] \in Starting =>
          \A t \in job[c] : pump[t] # "none" /\ pub[t] = "none"
    /\ \A c, d \in Controllers :
          c # d /\ ctl[c] \in Starting /\ ctl[d] \in Starting => job[c] \cap job[d] = {}

(***************************************************************************)
(* Types.  TypeOK is inductive together with what it does not say: which   *)
(* program points hold an event.                                           *)
(***************************************************************************)

Publishing == {"append", "closed", "push"}

HeldWhereNeeded ==
    /\ \A t \in Tasks :
          /\ pump[t] = "dispatch" => \E e \in Events : hand[t] = <<e>>
          /\ pump[t] # "dispatch" => hand[t] = <<>>
    /\ \A p \in Publishers :
          /\ pub[p] \in Publishing => \E e \in Events : outbox[p] = <<e>>
          /\ pub[p] \notin Publishing => outbox[p] = <<>>

TypeInv == TypeOK /\ HeldWhereNeeded

(* The initial state is well typed. *)
LEMMA TypeInvInit == Init => TypeInv
<1> SUFFICES ASSUME Init PROVE TypeInv
  OBVIOUS
<1>1. TypeOK
  <2>1. <<>> \in Seq(Events) /\ <<>> \in Seq(Tasks)
    OBVIOUS
  <2>2. nextSrc \in 1..(MaxSource + 1) /\ sinks \in 0..MaxSinks
    BY ListenerAssumption DEF Init
  <2>3. sinkIdx \in [Tasks -> 0..(MaxSinks + 1)]
    BY ListenerAssumption DEF Init
  <2>4. /\ ctl \in [Controllers -> CtlPcs] /\ pump \in [Tasks -> PumpPcs]
        /\ pub \in [Publishers -> PubPcs]
    BY DEF Init, PumpPcs, PubPcs, CtlPcs
  <2>5. /\ hand \in [Tasks -> Seq(Events)] /\ outbox \in [Publishers -> Seq(Events)]
        /\ seen \in [Sinks -> Seq(Events)] /\ job \in [Controllers -> SUBSET Tasks]
    BY <2>1 DEF Init
  <2> QED BY <2>1, <2>2, <2>3, <2>4, <2>5 DEF Init, QueueInit, TypeOK
<1>2. HeldWhereNeeded
  BY DEF Init, HeldWhereNeeded, Publishing
<1> QED BY <1>1, <1>2 DEF TypeInv

(* A pump step keeps the types, and an event in the hand of a pump. *)
LEMMA TypeInvPump ==
    ASSUME TypeInv, NEW t \in Tasks, PumpStep(t)
    PROVE  TypeInv'
<1> USE ListenerAssumption DEF TypeInv, PumpGo, queueVars, pubVars, ctlVars,
        setupVars, intake, delivery
<1>0. UNCHANGED <<pubVars, ctlVars, setupVars, intake>>
  BY DEF PumpStep
<1>1. CASE PumpCheck(t)
  BY <1>0, <1>1 DEF PumpCheck, TypeOK, HeldWhereNeeded, PumpPcs
<1>2. CASE DequeueReadClosed(t)
  BY <1>0, <1>2 DEF DequeueReadClosed, TypeOK, HeldWhereNeeded, PumpPcs
<1>3. CASE DequeueSome(t)
  <2>1. Head(items) \in Events /\ Tail(items) \in Seq(Events)
    BY <1>3, HeadTailProperties DEF DequeueSome, PopFront, TypeOK
  <2>2. <<Head(items)>> \in Seq(Events)
    BY <2>1
  <2> QED BY <1>0, <1>3, <2>1, <2>2 DEF DequeueSome, PopFront, TypeOK, HeldWhereNeeded, PumpPcs
<1>4. CASE DequeueEmpty(t)
  BY <1>0, <1>4 DEF DequeueEmpty, TypeOK, HeldWhereNeeded, PumpPcs
<1>5. CASE AwaitPermit(t)
  BY <1>0, <1>5 DEF AwaitPermit, TakePermit, TypeOK, HeldWhereNeeded, PumpPcs
<1>6. CASE AwaitPark(t)
  <2>1. Append(waiters, t) \in Seq(Tasks)
    BY DEF TypeOK
  <2> QED BY <1>0, <1>6, <2>1 DEF AwaitPark, Register, TypeOK, HeldWhereNeeded, PumpPcs
<1>7. CASE AwaitWoken(t)
  BY <1>0, <1>7 DEF AwaitWoken, TypeOK, HeldWhereNeeded, PumpPcs
<1>8. CASE DispatchLock(t)
  BY <1>0, <1>8 DEF DispatchLock, TypeOK, HeldWhereNeeded
<1>f. ASSUME FinishDispatch(t)
      PROVE  /\ pump' \in [Tasks -> PumpPcs] /\ hand' \in [Tasks -> Seq(Events)]
             /\ sinkIdx' \in [Tasks -> 0..(MaxSinks + 1)]
             /\ dispatched' \in Seq(Events)
             /\ HeldWhereNeeded'
  <2>1. dispatched \o hand[t] \in Seq(Events)
    BY ConcatProperties DEF TypeOK
  <2> QED BY <1>0, <1>f, <2>1 DEF FinishDispatch, TypeOK, HeldWhereNeeded, PumpPcs
<1>9. CASE HandToSink(t)
  <2>1. sinkIdx[t] \in Sinks /\ hand[t] \in Seq(Events) /\ hand[t] # <<>>
    <3>1. /\ sinkIdx[t] \in 0..(MaxSinks + 1) /\ sinks \in 0..MaxSinks
          /\ sinkIdx[t] > 0 /\ sinkIdx[t] <= sinks
      BY <1>9 DEF HandToSink, SinkLeft, TypeOK
    <3>2. sinkIdx[t] \in Sinks
      BY <3>1 DEF Sinks
    <3>3. PICK e \in Events : hand[t] = <<e>>
      BY <1>9 DEF HandToSink, HeldWhereNeeded
    <3>4. hand[t] # <<>>
      BY <3>3
    <3> QED BY <3>2, <3>4 DEF TypeOK
  <2>2. seen[sinkIdx[t]] \o hand[t] \in Seq(Events)
    BY <2>1, ConcatProperties DEF TypeOK
  <2>3. seen' \in [Sinks -> Seq(Events)]
    BY <1>9, <2>1, <2>2 DEF HandToSink, TypeOK
  <2>4. CASE DispatchNextSink(t) /\ UNCHANGED failed
    <3>0. sinkIdx[t] + 1 \in 0..(MaxSinks + 1)
      BY <2>1 DEF Sinks
    <3>1. sinkIdx' \in [Tasks -> 0..(MaxSinks + 1)]
      BY <2>4, <3>0 DEF DispatchNextSink, TypeOK
    <3> QED BY <1>0, <1>9, <2>3, <2>4, <3>1 DEF HandToSink, DispatchNextSink, TypeOK, HeldWhereNeeded
  <2>5. CASE AfterSinkErr(t) /\ failed' = failed \cup {<<sinkIdx[t], Head(hand[t])>>}
    <3>1. Head(hand[t]) \in Events
      BY <2>1, HeadTailProperties
    <3>2. failed' \in SUBSET (Sinks \X Events)
      BY <2>1, <2>5, <3>1 DEF TypeOK
    <3> QED BY <1>0, <1>9, <1>f, <2>3, <2>5, <3>2 DEF HandToSink, AfterSinkErr, TypeOK
  <2> QED BY <1>9, <2>4, <2>5 DEF HandToSink
<1>10. CASE DispatchEnd(t)
  BY <1>0, <1>10, <1>f DEF DispatchEnd, TypeOK
<1> QED
  BY <1>1, <1>2, <1>3, <1>4, <1>5, <1>6, <1>7, <1>8, <1>9, <1>10 DEF PumpStep

(* A step of publish keeps the types and the event in the outbox. *)
LEMMA TypeInvPublish ==
    ASSUME TypeInv, NEW p \in Publishers, PublishStep(p)
    PROVE  TypeInv'
<1> USE ListenerAssumption DEF TypeInv, PubGo, queueVars, pumpVars, ctlVars,
        setupVars, delivery, intake
<1>0. UNCHANGED <<pumpVars, ctlVars, setupVars, delivery>>
  BY DEF PublishStep
<1>a. AfterPublish(p) \in PubPcs \ Publishing
  BY DEF AfterPublish, PubPcs, Publishing
<1>1. CASE StoreAppend(p)
  <2>1. stored \o outbox[p] \in Seq(Events)
    BY ConcatProperties DEF TypeOK
  <2> QED BY <1>0, <1>1, <2>1 DEF StoreAppend, TypeOK, HeldWhereNeeded, PubPcs, Publishing
<1>2. CASE StoreErr(p)
  BY <1>0, <1>2, <1>a DEF StoreErr, GivesUpAfterStoreErr, TypeOK, HeldWhereNeeded
<1>3. CASE EnqueueReadClosed(p)
  <2>1. CASE closed
    <3>1. /\ PubGo(p, "closed", AfterPublish(p))
          /\ outbox' = [outbox EXCEPT ![p] = <<>>]
          /\ UNCHANGED <<queueVars, nextSrc, intake>>
      BY <1>3, <2>1, Zenon DEF EnqueueReadClosed
    <3> QED BY <1>0, <1>a, <3>1 DEF TypeOK, HeldWhereNeeded
  <2>2. CASE ~closed
    <3>1. PubGo(p, "closed", "push") /\ UNCHANGED <<outbox, queueVars, nextSrc, intake>>
      BY <1>3, <2>2, Zenon DEF EnqueueReadClosed
    <3> QED BY <1>0, <3>1 DEF TypeOK, HeldWhereNeeded, PubPcs, Publishing
  <2> QED BY <2>1, <2>2
<1>4. CASE EnqueuePush(p)
  <2>1. accepted \o outbox[p] \in Seq(Events)
    BY ConcatProperties DEF TypeOK
  <2>2. Append(items, Head(outbox[p])) \in Seq(Events)
    BY <1>4 DEF EnqueuePush, TypeOK, HeldWhereNeeded, Publishing
  <2> QED BY <1>0, <1>4, <2>1, <2>2
          DEF EnqueuePush, PushBack, TypeOK, HeldWhereNeeded, PubPcs, Publishing
<1>5. CASE EnqueueNotify(p)
  <2>1. waiters # <<>> => Tail(waiters) \in Seq(Tasks)
    BY HeadTailProperties DEF TypeOK
  <2>2. waiters' \in Seq(Tasks) /\ permit' \in BOOLEAN
    BY <1>5, <2>1 DEF EnqueueNotify, NotifyOne, TypeOK
  <2> QED BY <1>0, <1>5, <1>a, <2>2
          DEF EnqueueNotify, NotifyOne, TypeOK, HeldWhereNeeded, Publishing
<1> QED BY <1>1, <1>2, <1>3, <1>4, <1>5 DEF PublishStep

(* So does a step of a fetch task. *)
LEMMA TypeInvFetch ==
    ASSUME TypeInv, NEW t \in Tasks, FetchLoop(t) \/ FetchNext(t)
    PROVE  TypeInv'
<1> USE ListenerAssumption DEF TypeInv, PubGo, Outside, queueVars, pumpVars, ctlVars,
        setupVars, intake, delivery
<1>0. UNCHANGED Outside /\ t \in Publishers
  BY DEF FetchLoop, FetchNext, Publishers
<1>1. CASE FetchCheck(t)
  BY <1>0, <1>1 DEF FetchCheck, TypeOK, HeldWhereNeeded, PubPcs, Publishing
<1>2. CASE FetchSome(t)
  <2>1. nextSrc \in Events /\ nextSrc + 1 \in 1..(MaxSource + 1)
    BY <1>2 DEF FetchSome, TypeOK, Events
  <2>2. <<nextSrc>> \in Seq(Events)
    BY <2>1
  <2> QED BY <1>0, <1>2, <2>1, <2>2
          DEF FetchSome, TypeOK, HeldWhereNeeded, PubPcs, Publishing
<1>3. CASE FetchNothing(t)
  BY <1>0, <1>3 DEF FetchNothing, TypeOK, HeldWhereNeeded, PubPcs, Publishing
<1> QED BY <1>1, <1>2, <1>3 DEF FetchLoop, FetchNext

(* So does a call of publish. *)
LEMMA TypeInvCall ==
    ASSUME TypeInv, NEW m \in Manual, Call(m)
    PROVE  TypeInv'
<1> USE DEF TypeInv, PubGo, queueVars, pumpVars, ctlVars, setupVars, intake, delivery
<1>1. m \in Publishers /\ m \in Events /\ <<m>> \in Seq(Events)
  BY DEF Publishers, Events
<1> QED BY <1>1 DEF Call, CallPublish, TypeOK, HeldWhereNeeded, PubPcs, Publishing

(* So does a step of start or stop. *)
LEMMA TypeInvControl ==
    ASSUME TypeInv, FetchNotSpawned, NEW c \in Controllers,
           ControlCall(c) \/ ControlStep(c)
    PROVE  TypeInv'
<1> USE DEF TypeInv, CtlGo, OutsideControl, queueVars, setupVars, intake, delivery
<1>0. UNCHANGED OutsideControl
  BY DEF ControlCall, ControlStep
<1>1. CASE StartSwap(c) \/ StopSwap(c)
  BY <1>0, <1>1 DEF StartSwap, StopSwap, TypeOK, HeldWhereNeeded, CtlPcs
<1>2. CASE SpawnPump(c)
  BY <1>0, <1>2 DEF SpawnPump, FreshTasks, TypeOK, HeldWhereNeeded, CtlPcs, PumpPcs
<1>3. CASE StorePumpHandle(c) \/ StoreFetchHandle(c) \/ StartWithoutSource(c)
  BY <1>0, <1>3 DEF StorePumpHandle, StoreFetchHandle, StartWithoutSource, TypeOK,
                    HeldWhereNeeded, CtlPcs
<1>4. CASE SpawnFetch(c)
  <2>1. \A p \in job[c] : pub[p] = "none"
    BY <1>4 DEF SpawnFetch, FetchNotSpawned, Starting, TypeOK
  <2> QED BY <1>0, <1>4, <2>1 DEF SpawnFetch, TypeOK, HeldWhereNeeded, CtlPcs, PubPcs,
                                  Publishing
<1>5. CASE ShutdownSetClosed(c) \/ ShutdownNotify(c)
  <2>1. closed' \in BOOLEAN /\ waiters' \in Seq(Tasks)
    <3>1. CASE ShutdownSetClosed(c)
      BY <3>1 DEF ShutdownSetClosed, SetClosed, TypeOK
    <3>2. CASE ShutdownNotify(c)
      BY <3>2 DEF ShutdownNotify, NotifyWaiters, TypeOK
    <3> QED BY <1>5, <3>1, <3>2
  <2> QED BY <1>0, <1>5, <2>1 DEF ShutdownSetClosed, ShutdownNotify, SetClosed,
                                  NotifyWaiters, TypeOK, HeldWhereNeeded, CtlPcs
<1>6. CASE TakePumpHandle(c) \/ TakeFetchHandle(c)
  BY <1>0, <1>6 DEF TakePumpHandle, TakeFetchHandle, AwaitsFetchHandle, TypeOK,
                    HeldWhereNeeded, CtlPcs
<1>7. CASE JoinPump(c) \/ JoinFetch(c)
  BY <1>0, <1>7 DEF JoinPump, JoinFetch, TypeOK, HeldWhereNeeded, CtlPcs
<1> QED BY <1>1, <1>2, <1>3, <1>4, <1>5, <1>6, <1>7 DEF ControlCall, ControlStep

(* Every step keeps the types. *)
LEMMA TypeInvStep == TypeInv /\ FetchNotSpawned /\ [Next]_vars => TypeInv'
<1> SUFFICES ASSUME TypeInv, FetchNotSpawned, [Next]_vars PROVE TypeInv'
  OBVIOUS
<1>1. CASE Setup
  <2>1. source' \in BOOLEAN /\ sinks' \in 0..MaxSinks
    <3>1. CASE AttachSource
      BY <3>1 DEF AttachSource, TypeInv, TypeOK
    <3>2. CASE Subscribe
      BY <3>2, ListenerAssumption DEF Subscribe, TypeInv, TypeOK
    <3> QED BY <1>1, <3>1, <3>2 DEF Setup
  <2> QED BY <1>1, <2>1 DEF Setup, TypeInv, TypeOK, HeldWhereNeeded, queueVars,
                            pumpVars, pubVars, ctlVars, intake, delivery
<1>2. CASE UNCHANGED vars
  BY <1>2 DEF vars, TypeInv, TypeOK, HeldWhereNeeded, queueVars, pumpVars, pubVars,
              ctlVars, setupVars, intake, delivery
<1> QED
  BY <1>1, <1>2, TypeInvPump, TypeInvPublish, TypeInvFetch, TypeInvCall, TypeInvControl
     DEF Next

(* A fetch task has no state before the start that spawns it. *)
LEMMA FetchNotSpawnedStep == TypeInv /\ FetchNotSpawned /\ [Next]_vars => FetchNotSpawned'
<1> SUFFICES ASSUME TypeInv, FetchNotSpawned, [Next]_vars PROVE FetchNotSpawned'
  OBVIOUS
<1> USE DEF TypeInv, TypeOK, FetchNotSpawned, Starting, PumpGo, PubGo, CtlGo, queueVars,
            pumpVars, pubVars, ctlVars, setupVars, intake, delivery
<1>1. ASSUME NEW t \in Tasks, PumpStep(t) PROVE FetchNotSpawned'
  <2>1. UNCHANGED <<pub, ctl, job>>
    BY <1>1 DEF PumpStep
  <2>2. \A u \in Tasks : (pump'[u] = "none") <=> (pump[u] = "none")
    BY <1>1 DEF PumpStep, PumpCheck, DequeueReadClosed, DequeueSome, DequeueEmpty,
                AwaitPermit, AwaitPark, AwaitWoken, DispatchLock, HandToSink, DispatchEnd,
                DispatchNextSink, AfterSinkErr, FinishDispatch
  <2> QED BY <2>1, <2>2
<1>2. ASSUME UNCHANGED <<pump, ctl, job>>,
             \A t \in Tasks : (pub'[t] = "none") <=> (pub[t] = "none")
      PROVE  FetchNotSpawned'
  BY <1>2
<1>3. ASSUME NEW t \in Tasks, FetchLoop(t) \/ FetchNext(t) PROVE FetchNotSpawned'
  <2>1. /\ UNCHANGED <<pump, ctl, job>>
        /\ \A u \in Tasks : (pub'[u] = "none") <=> (pub[u] = "none")
    BY <1>3 DEF FetchLoop, FetchNext, FetchCheck, FetchSome, FetchNothing, Outside, Publishers
  <2> QED BY <1>2, <2>1
<1>4. ASSUME NEW p \in Publishers, PublishStep(p) PROVE FetchNotSpawned'
  <2>1. UNCHANGED <<pump, ctl, job>>
    BY <1>4 DEF PublishStep
  <2>2. \E a \in PubPcs \ {"none"}, b \in PubPcs \ {"none"} : PubGo(p, a, b)
    BY <1>4 DEF PublishStep, StoreAppend, StoreErr, GivesUpAfterStoreErr,
                EnqueueReadClosed, EnqueuePush, EnqueueNotify, AfterPublish, PubPcs
  <2> QED BY <1>2, <2>1, <2>2 DEF Publishers
<1>5. ASSUME NEW m \in Manual, Call(m) PROVE FetchNotSpawned'
  <2>1. UNCHANGED <<pump, ctl, job>> /\ PubGo(m, "none", "append") /\ m \notin Tasks
    BY <1>5, ListenerAssumption DEF Call, CallPublish
  <2> QED BY <1>2, <2>1 DEF Publishers
<1>6. ASSUME NEW c \in Controllers, ControlCall(c) \/ ControlStep(c) PROVE FetchNotSpawned'
  <2>1. CASE SpawnPump(c)
    BY <2>1 DEF SpawnPump, FreshTasks
  <2>2. CASE SpawnFetch(c)
    <3>1. \A t \in Tasks : pub'[t] = IF t \in job[c] THEN "check" ELSE pub[t]
      BY <2>2 DEF SpawnFetch, Publishers
    <3> QED BY <2>2, <3>1 DEF SpawnFetch
  <2>3. CASE StorePumpHandle(c)
    BY <2>3 DEF StorePumpHandle
  <2>a. ASSUME UNCHANGED <<pump, pub>>, NEW b, b \notin Starting,
               ctl' = [ctl EXCEPT ![c] = b],
               \A d \in Controllers \ {c} : job'[d] = job[d]
        PROVE  FetchNotSpawned'
    BY <2>a
  <2>4. CASE StartSwap(c) \/ StopSwap(c) \/ ShutdownSetClosed(c) \/ ShutdownNotify(c)
    <3>1. UNCHANGED <<pump, pub, job>> /\ \E b \in CtlPcs \ Starting : ctl' = [ctl EXCEPT ![c] = b]
      BY <2>4 DEF StartSwap, StopSwap, ShutdownSetClosed, ShutdownNotify, CtlPcs
    <3> QED BY <2>a, <3>1
  <2>5. CASE StartWithoutSource(c) \/ StoreFetchHandle(c) \/ JoinPump(c) \/ JoinFetch(c)
    <3>1. /\ UNCHANGED <<pump, pub>> /\ \E b \in CtlPcs \ Starting : ctl' = [ctl EXCEPT ![c] = b]
          /\ job' = [job EXCEPT ![c] = {}]
      BY <2>5 DEF StartWithoutSource, StoreFetchHandle, JoinPump, JoinFetch, CtlPcs
    <3> QED BY <2>a, <3>1
  <2>6. CASE TakePumpHandle(c) \/ TakeFetchHandle(c)
    <3>1. /\ UNCHANGED <<pump, pub>> /\ \E b \in CtlPcs \ Starting : ctl' = [ctl EXCEPT ![c] = b]
          /\ \E S \in SUBSET Tasks : job' = [job EXCEPT ![c] = S]
      BY <2>6 DEF TakePumpHandle, TakeFetchHandle, AwaitsFetchHandle, CtlPcs
    <3> QED BY <2>a, <3>1
  <2> QED BY <1>6, <2>1, <2>2, <2>3, <2>4, <2>5, <2>6 DEF ControlCall, ControlStep
<1>7. CASE Setup \/ UNCHANGED vars
  BY <1>7 DEF Setup, vars
<1> QED BY <1>1, <1>3, <1>4, <1>5, <1>6, <1>7 DEF Next

(* Every variable keeps its type, whatever the constants. *)
THEOREM TypeCorrect == Spec => []TypeOK
<1>1. Init => TypeInv /\ FetchNotSpawned
  <2>1. Init => FetchNotSpawned
    BY DEF Init, FetchNotSpawned, Starting, Publishers
  <2> QED BY <2>1, TypeInvInit
<1>2. TypeInv => TypeOK
  BY DEF TypeInv
<1> QED BY <1>1, <1>2, TypeInvStep, FetchNotSpawnedStep, PTL DEF Spec

-----------------------------------------------------------------------------
(* The store.  An event on its way into the queue is stored already.       *)

(* What a concatenation contains. *)
LEMMA InConcat ==
    ASSUME NEW S, NEW s \in Seq(S), NEW u \in Seq(S), NEW e
    PROVE  In(e, s \o u) <=> In(e, s) \/ In(e, u)
<1>1. /\ s \o u \in Seq(S) /\ Len(s \o u) = Len(s) + Len(u)
      /\ \A i \in 1..(Len(s) + Len(u)) :
            (s \o u)[i] = IF i <= Len(s) THEN s[i] ELSE u[i - Len(s)]
  BY ConcatProperties
<1>2. /\ DOMAIN s = 1..Len(s) /\ DOMAIN u = 1..Len(u) /\ DOMAIN (s \o u) = 1..Len(s \o u)
      /\ Len(s) \in Nat /\ Len(u) \in Nat
  BY <1>1, LenProperties
<1>3. ASSUME NEW i \in DOMAIN (s \o u), (s \o u)[i] = e PROVE In(e, s) \/ In(e, u)
  <2>1. CASE i <= Len(s)
    <3>1. i \in DOMAIN s /\ s[i] = e
      BY <1>1, <1>2, <1>3, <2>1
    <3> QED BY <3>1 DEF In
  <2>2. CASE i > Len(s)
    <3>1. i - Len(s) \in DOMAIN u
      BY <1>1, <1>2, <2>2
    <3>2. u[i - Len(s)] = e
      BY <1>1, <1>2, <1>3, <2>2
    <3> QED BY <3>1, <3>2 DEF In
  <2> QED BY <1>2, <2>1, <2>2
<1>4. ASSUME NEW i \in DOMAIN s, s[i] = e PROVE In(e, s \o u)
  <2>1. i \in DOMAIN (s \o u) /\ (s \o u)[i] = e
    BY <1>1, <1>2, <1>4
  <2> QED BY <2>1 DEF In
<1>5. ASSUME NEW i \in DOMAIN u, u[i] = e PROVE In(e, s \o u)
  <2>1. i + Len(s) \in DOMAIN (s \o u)
    BY <1>1, <1>2
  <2>2. (i + Len(s)) - Len(s) = i /\ ~(i + Len(s) <= Len(s)) /\ i + Len(s) \in 1..(Len(s) + Len(u))
    BY <1>2
  <2>3. (s \o u)[i + Len(s)] = u[(i + Len(s)) - Len(s)]
    BY <1>1, <2>2
  <2> QED BY <2>1, <2>2, <2>3, <1>5 DEF In
<1> QED BY <1>3, <1>4, <1>5 DEF In

StoredInv ==
    /\ \A e : In(e, accepted) => In(e, stored)
    /\ \A p \in Publishers :
          pub[p] \in {"closed", "push"} => \A e : In(e, outbox[p]) => In(e, stored)

(* An event past the append stays in the store. *)
LEMMA StoredStep == TypeInv /\ StoredInv /\ [Next]_vars => StoredInv'
<1> SUFFICES ASSUME TypeInv, StoredInv, [Next]_vars PROVE StoredInv'
  OBVIOUS
<1>1. ASSUME UNCHANGED intake,
             \A p \in Publishers : /\ pub'[p] \in {"closed", "push"}
                                   => /\ outbox'[p] = outbox[p]
                                      /\ pub[p] \in {"closed", "push"}
      PROVE  StoredInv'
  BY <1>1 DEF StoredInv, intake, In
<1>2. ASSUME NEW t \in Tasks, PumpStep(t) PROVE StoredInv'
  BY <1>1, <1>2 DEF PumpStep, pubVars
<1>3. ASSUME NEW t \in Tasks, FetchLoop(t) \/ FetchNext(t) PROVE StoredInv'
  <2>1. UNCHANGED intake /\ \E b \in PubPcs \ {"closed", "push"} :
            /\ pub' = [pub EXCEPT ![t] = b]
            /\ \A p \in Publishers \ {t} : outbox'[p] = outbox[p]
    BY <1>3 DEF FetchLoop, FetchNext, FetchCheck, FetchSome, FetchNothing, PubGo, Outside,
                PubPcs, TypeInv, TypeOK
  <2> QED BY <1>1, <2>1 DEF TypeInv, TypeOK
<1>4. ASSUME NEW p \in Publishers, PublishStep(p) PROVE StoredInv'
  <2> USE DEF PubGo
  <2>1. CASE StoreAppend(p)
    <3>1. /\ stored' = stored \o outbox[p] /\ UNCHANGED <<outbox, accepted>>
          /\ \A q \in Publishers \ {p} : pub'[q] = pub[q]
      BY <2>1 DEF StoreAppend, TypeInv, TypeOK
    <3>2. \A e : In(e, stored') <=> In(e, stored) \/ In(e, outbox[p])
      BY <3>1, InConcat DEF TypeInv, TypeOK
    <3> QED BY <3>1, <3>2 DEF StoredInv
  <2>2. CASE StoreErr(p) \/ EnqueueReadClosed(p) \/ EnqueueNotify(p)
    <3>1. UNCHANGED intake
      BY <2>2 DEF StoreErr, EnqueueReadClosed, EnqueueNotify
    <3>2. \A q \in Publishers \ {p} : pub'[q] = pub[q] /\ outbox'[q] = outbox[q]
      BY <2>2 DEF StoreErr, GivesUpAfterStoreErr, EnqueueReadClosed, EnqueueNotify, TypeInv,
                  TypeOK
    <3>3. pub'[p] \in {"closed", "push"} => outbox'[p] = outbox[p] /\ pub[p] = "closed"
      BY <2>2 DEF StoreErr, GivesUpAfterStoreErr, EnqueueReadClosed, EnqueueNotify,
                  AfterPublish, TypeInv, TypeOK
    <3> QED BY <1>1, <3>1, <3>2, <3>3
  <2>3. CASE EnqueuePush(p)
    <3>1. /\ accepted' = accepted \o outbox[p] /\ UNCHANGED stored /\ pub[p] = "push"
          /\ pub'[p] = "notify"
          /\ \A q \in Publishers \ {p} : pub'[q] = pub[q] /\ outbox'[q] = outbox[q]
      BY <2>3 DEF EnqueuePush, TypeInv, TypeOK
    <3>2. \A e : In(e, accepted') <=> In(e, accepted) \/ In(e, outbox[p])
      BY <3>1, InConcat DEF TypeInv, TypeOK
    <3> QED BY <3>1, <3>2 DEF StoredInv
  <2> QED BY <1>4, <2>1, <2>2, <2>3 DEF PublishStep
<1>5. ASSUME NEW m \in Manual, Call(m) PROVE StoredInv'
  <2>1. UNCHANGED intake /\ pub' = [pub EXCEPT ![m] = "append"]
        /\ outbox' = [outbox EXCEPT ![m] = <<m>>]
    BY <1>5 DEF Call, CallPublish, PubGo
  <2> QED BY <1>1, <2>1 DEF TypeInv, TypeOK
<1>6. ASSUME NEW c \in Controllers, ControlCall(c) \/ ControlStep(c) PROVE StoredInv'
  <2>1. UNCHANGED <<intake, outbox>>
    BY <1>6 DEF ControlCall, ControlStep, OutsideControl
  <2>2. \A p \in Publishers : pub'[p] \in {"closed", "push"} => pub[p] = pub'[p]
    BY <1>6 DEF ControlCall, ControlStep, StartSwap, SpawnPump, StorePumpHandle, SpawnFetch,
                StartWithoutSource, StoreFetchHandle, StopSwap, ShutdownSetClosed,
                ShutdownNotify, TakePumpHandle, JoinPump, TakeFetchHandle, JoinFetch
  <2> QED BY <1>1, <2>1, <2>2
<1>7. CASE Setup \/ UNCHANGED vars
  BY <1>1, <1>7 DEF Setup, vars, pubVars
<1> QED BY <1>2, <1>3, <1>4, <1>5, <1>6, <1>7 DEF Next

(* Whatever is pushed into the queue has been stored first, with any number *)
(* of publishers and with a store that fails at will.                       *)
THEOREM AcceptedStored == Spec => []AcceptedIsStored
<1>1. Init => TypeInv /\ FetchNotSpawned /\ StoredInv
  <2>1. Init => FetchNotSpawned
    BY DEF Init, FetchNotSpawned, Starting, Publishers
  <2>2. Init => StoredInv
    BY DEF Init, StoredInv, In
  <2> QED BY <2>1, <2>2, TypeInvInit
<1>2. StoredInv => AcceptedIsStored
  BY DEF StoredInv, AcceptedIsStored, In
<1> QED BY <1>1, <1>2, TypeInvStep, FetchNotSpawnedStep, StoredStep, PTL DEF Spec

-----------------------------------------------------------------------------
(* One caller.  When a single caller starts and stops the listener, every  *)
(* live task is owned: its caller has just spawned it, or waits for it, or *)
(* its handle is kept.                                                     *)

OneCaller == \E c : Controllers = {c}

AtStart == {"spawnPump", "storePump", "readSource", "storeFetch"}
AtStop  == {"close", "wake", "takePump", "joinPump", "takeFetch", "joinFetch"}

RunningInv ==
    \A c \in Controllers :
        /\ ctl[c] \in AtStart => running
        /\ ctl[c] \in AtStop => ~running
        /\ ctl[c] \in AtStart \ {"spawnPump"} => \E t \in Tasks : job[c] = {t}

PumpOwned ==
    \A c \in Controllers, t \in Tasks : PumpLive(t) =>
        \/ ctl[c] \in {"storePump", "joinPump"} /\ job[c] = {t}
        \/ ctl[c] \in {"readSource", "storeFetch", "close", "wake", "takePump"}
           /\ pumpHandle = {t}
        \/ ctl[c] = "idle" /\ running /\ pumpHandle = {t}

FetchOwned ==
    \A c \in Controllers, t \in Tasks : FetchLive(t) =>
        \/ ctl[c] \in {"storeFetch", "joinFetch"} /\ job[c] = {t}
        \/ ctl[c] \in AtStop \ {"joinFetch"} /\ fetchHandle = {t}
        \/ ctl[c] = "idle" /\ running /\ fetchHandle = {t}

OwnedInv == RunningInv /\ PumpOwned /\ FetchOwned

(* Steps outside start() and stop() create no task. *)
LEMMA OwnedFrame ==
    ASSUME OwnedInv, UNCHANGED ctlVars,
           \A t \in Tasks : PumpLive(t)' => PumpLive(t),
           \A t \in Tasks : FetchLive(t)' => FetchLive(t)
    PROVE  OwnedInv'
<1>1. UNCHANGED <<running, ctl, job, pumpHandle, fetchHandle>>
  BY DEF ctlVars
<1>2. RunningInv'
  BY <1>1 DEF OwnedInv, RunningInv
<1>3. PumpOwned'
  BY <1>1 DEF OwnedInv, PumpOwned
<1>4. FetchOwned'
  BY <1>1 DEF OwnedInv, FetchOwned
<1> QED BY <1>2, <1>3, <1>4 DEF OwnedInv

(* Steps of a single caller keep track of the tasks it started. *)
LEMMA OwnedControl ==
    ASSUME TypeInv, OwnedInv, NEW c, Controllers = {c}, ControlCall(c) \/ ControlStep(c)
    PROVE  OwnedInv'
<1> USE DEF OwnedInv, RunningInv, PumpOwned, FetchOwned, PumpLive, FetchLive, AtStart,
            AtStop, CtlGo, TypeInv, TypeOK
<1>1. CASE StartSwap(c)
  BY <1>1 DEF StartSwap, AlreadyRunning
<1>2. CASE StopSwap(c)
  BY <1>2 DEF StopSwap
<1>3. CASE SpawnPump(c)
  BY <1>3 DEF SpawnPump, FreshTasks
<1>4. CASE StorePumpHandle(c)
  BY <1>4 DEF StorePumpHandle
<1>5. CASE SpawnFetch(c)
  <2>1. /\ ctl[c] = "readSource" /\ ctl'[c] = "storeFetch"
        /\ UNCHANGED <<pump, running, job, pumpHandle, fetchHandle>>
    BY <1>5 DEF SpawnFetch
  <2>2. \A t \in Tasks : FetchLive(t)' => t \in job[c]
    BY <1>5, <2>1 DEF SpawnFetch, Publishers
  <2> QED BY <2>1, <2>2
<1>6. CASE StartWithoutSource(c)
  BY <1>6 DEF StartWithoutSource
<1>7. CASE StoreFetchHandle(c)
  BY <1>7 DEF StoreFetchHandle
<1>8. CASE ShutdownSetClosed(c)
  BY <1>8 DEF ShutdownSetClosed
<1>9. CASE ShutdownNotify(c)
  BY <1>9 DEF ShutdownNotify
<1>10. CASE TakePumpHandle(c)
  <2>1. /\ ctl[c] = "takePump" /\ job'[c] = pumpHandle
        /\ ctl'[c] = IF pumpHandle = {} THEN "takeFetch" ELSE "joinPump"
        /\ UNCHANGED <<pump, pub, running, fetchHandle>>
    BY <1>10 DEF TakePumpHandle
  <2>2. RunningInv' /\ FetchOwned'
    BY <2>1
  <2>3. ASSUME NEW t \in Tasks, PumpLive(t)' PROVE ctl'[c] = "joinPump" /\ job'[c] = {t}
    <3>1. pumpHandle = {t}
      BY <2>1, <2>3
    <3>2. pumpHandle # {}
      BY <3>1
    <3> QED BY <2>1, <3>1, <3>2
  <2>4. PumpOwned'
    BY <2>3 DEF PumpOwned
  <2> QED BY <2>2, <2>4 DEF OwnedInv
<1>11. CASE JoinPump(c)
  BY <1>11 DEF JoinPump
<1>12. CASE TakeFetchHandle(c)
  <2>1. /\ ctl[c] = "takeFetch" /\ job'[c] = fetchHandle
        /\ ctl'[c] = IF fetchHandle = {} THEN "idle" ELSE "joinFetch"
        /\ UNCHANGED <<pump, pub, running, pumpHandle>>
    BY <1>12 DEF TakeFetchHandle, AwaitsFetchHandle
  <2>2. RunningInv' /\ PumpOwned'
    BY <2>1
  <2>3. ASSUME NEW t \in Tasks, FetchLive(t)' PROVE ctl'[c] = "joinFetch" /\ job'[c] = {t}
    <3>1. fetchHandle = {t}
      BY <2>1, <2>3
    <3>2. fetchHandle # {}
      BY <3>1
    <3> QED BY <2>1, <3>1, <3>2
  <2>4. FetchOwned'
    BY <2>3 DEF FetchOwned
  <2> QED BY <2>2, <2>4 DEF OwnedInv
<1>13. CASE JoinFetch(c)
  BY <1>13 DEF JoinFetch
<1> QED BY <1>1, <1>2, <1>3, <1>4, <1>5, <1>6, <1>7, <1>8, <1>9, <1>10, <1>11, <1>12, <1>13
        DEF ControlCall, ControlStep

(* So does every step. *)
LEMMA OwnedStep == OneCaller /\ TypeInv /\ OwnedInv /\ [Next]_vars => OwnedInv'
<1> SUFFICES ASSUME OneCaller, TypeInv, OwnedInv, [Next]_vars PROVE OwnedInv'
  OBVIOUS
<1>1. ASSUME NEW t \in Tasks, PumpStep(t) PROVE OwnedInv'
  <2>1. UNCHANGED <<ctlVars, pub>>
    BY <1>1 DEF PumpStep, pubVars
  <2>2. \E a \in PumpPcs \ {"none", "done"}, b \in PumpPcs : PumpGo(t, a, b) \/ UNCHANGED pump
    BY <1>1 DEF PumpStep, PumpCheck, DequeueReadClosed, DequeueSome, DequeueEmpty,
                AwaitPermit, AwaitPark, AwaitWoken, DispatchLock, HandToSink, DispatchEnd,
                DispatchNextSink, AfterSinkErr, FinishDispatch, PumpGo, PumpPcs
  <2> QED BY <2>1, <2>2, OwnedFrame DEF PumpLive, FetchLive, PumpGo, TypeInv, TypeOK
<1>2. ASSUME NEW t \in Tasks, FetchLoop(t) \/ FetchNext(t) PROVE OwnedInv'
  <2>1. /\ UNCHANGED <<ctlVars, pump>>
        /\ \E a, b \in PubPcs : a \notin {"none", "done"} /\ PubGo(t, a, b)
    BY <1>2 DEF FetchLoop, FetchNext, FetchCheck, FetchSome, FetchNothing, PubGo, Outside,
                pumpVars, PubPcs
  <2> QED BY <2>1, OwnedFrame DEF PumpLive, FetchLive, PubGo, TypeInv, TypeOK, Publishers
<1>3. ASSUME NEW p \in Publishers, PublishStep(p) PROVE OwnedInv'
  <2>1. /\ UNCHANGED <<ctlVars, pump>>
        /\ \E a, b \in PubPcs : a \notin {"none", "done"} /\ PubGo(p, a, b)
    BY <1>3 DEF PublishStep, StoreAppend, StoreErr, GivesUpAfterStoreErr, EnqueueReadClosed,
                EnqueuePush, EnqueueNotify, AfterPublish, pumpVars, PubPcs
  <2> QED BY <2>1, OwnedFrame DEF PumpLive, FetchLive, PubGo, TypeInv, TypeOK, Publishers
<1>4. ASSUME NEW m \in Manual, Call(m) PROVE OwnedInv'
  <2>1. UNCHANGED <<ctlVars, pump>> /\ PubGo(m, "none", "append") /\ m \notin Tasks
    BY <1>4, ListenerAssumption DEF Call, CallPublish, pumpVars
  <2> QED BY <2>1, OwnedFrame DEF PumpLive, FetchLive, PubGo, TypeInv, TypeOK, Publishers
<1>5. ASSUME NEW c \in Controllers, ControlCall(c) \/ ControlStep(c) PROVE OwnedInv'
  BY <1>5, OwnedControl DEF OneCaller
<1>6. CASE Setup \/ UNCHANGED vars
  <2>1. UNCHANGED <<ctlVars, pump, pub>>
    BY <1>6 DEF Setup, vars, pumpVars, pubVars
  <2> QED BY <2>1, OwnedFrame DEF PumpLive, FetchLive
<1> QED BY <1>1, <1>2, <1>3, <1>4, <1>5, <1>6 DEF Next

(* Initially there are no tasks to keep track of. *)
LEMMA OwnedInit == Init => OwnedInv
BY DEF Init, OwnedInv, RunningInv, PumpOwned, FetchOwned, PumpLive, FetchLive, AtStart,
       AtStop, Publishers

(* Once stop() has returned to a single caller, no pump and no fetch task is *)
(* left, after any sequence of starts and stops.                             *)
THEOREM StoppedIsQuiet == OneCaller => (Spec => []QuietWhenStopped)
<1>1. Init => TypeInv /\ FetchNotSpawned /\ OwnedInv
  <2>1. Init => FetchNotSpawned
    BY DEF Init, FetchNotSpawned, Starting, Publishers
  <2> QED BY <2>1, TypeInvInit, OwnedInit
<1>2. OneCaller /\ OwnedInv => QuietWhenStopped
  BY DEF OneCaller, OwnedInv, PumpOwned, FetchOwned, QuietWhenStopped, Idle, AtStop
<1>3. ASSUME OneCaller PROVE Spec => []QuietWhenStopped
  BY <1>1, <1>2, <1>3, TypeInvStep, FetchNotSpawnedStep, OwnedStep, PTL DEF Spec
<1> QED BY <1>3

-----------------------------------------------------------------------------
(* The pipeline.  With one pump, what was pushed is what was dispatched,   *)
(* what the pump holds and what is queued, in this order.                  *)

OneHand == \A t, u \in Tasks : hand[t] # <<>> /\ hand[u] # <<>> => t = u

(* At most one pump holds an event. *)
LEMMA OwnedOneHand == OneCaller /\ TypeInv /\ OwnedInv => OneHand
<1> SUFFICES ASSUME OneCaller, TypeInv, OwnedInv,
                    NEW t \in Tasks, NEW u \in Tasks, hand[t] # <<>>, hand[u] # <<>>
             PROVE  t = u
  BY DEF OneHand
<1>1. PumpLive(t) /\ PumpLive(u)
  BY DEF TypeInv, HeldWhereNeeded, PumpLive
<1> QED BY <1>1 DEF OneCaller, OwnedInv, PumpOwned

(* dispatched, the pump's event h and the queue make up what was accepted. *)
Pipeline(h) ==
    /\ \A t \in Tasks : hand[t] # <<>> => hand[t] = h
    /\ h = <<>> \/ \E t \in Tasks : hand[t] = h
    /\ accepted = dispatched \o h \o items

PipelineInv == \E h \in Seq(Events) : Pipeline(h)

(* Steps that touch neither the queue nor a pump's event *)
LEMMA PipelineFrame ==
    ASSUME PipelineInv, UNCHANGED <<items, accepted, dispatched, hand>>
    PROVE  PipelineInv'
BY DEF PipelineInv, Pipeline

(* A dequeue moves the oldest event from the queue to the free hand. *)
LEMMA PipelineDequeue ==
    ASSUME TypeInv, OneHand', PipelineInv, NEW t \in Tasks, DequeueSome(t),
           UNCHANGED accepted
    PROVE  PipelineInv'
<1>1. PICK h \in Seq(Events) : Pipeline(h)
  BY DEF PipelineInv
<1>e. PICK e : e = Head(items)
  OBVIOUS
<1>2. /\ items \in Seq(Events) /\ items # <<>> /\ items' = Tail(items)
      /\ hand' = [hand EXCEPT ![t] = <<e>>] /\ UNCHANGED dispatched
      /\ dispatched \in Seq(Events) /\ hand[t] = <<>>
      /\ hand \in [Tasks -> Seq(Events)]
  BY <1>e DEF DequeueSome, PopFront, PumpGo, delivery, TypeInv, TypeOK, HeldWhereNeeded
<1>3. e \in Events /\ <<e>> \in Seq(Events) /\ Tail(items) \in Seq(Events) /\ <<e>> # <<>>
  BY <1>2, <1>e, HeadTailProperties
<1>4. \A u \in Tasks \ {t} : hand[u] = <<>>
  <2>1. hand'[t] # <<>> /\ \A u \in Tasks \ {t} : hand'[u] = hand[u]
    BY <1>2, <1>3
  <2> QED BY <2>1 DEF OneHand
<1>5. h = <<>>
  BY <1>1, <1>2, <1>4 DEF Pipeline
<1>6. accepted = (dispatched \o <<e>>) \o Tail(items)
  <2>1. accepted = dispatched \o items
    BY <1>1, <1>2, <1>5, ConcatEmptySeq DEF Pipeline
  <2>2. items = <<e>> \o Tail(items)
    BY <1>2, <1>e, HeadThenTail
  <2>3. (dispatched \o <<e>>) \o Tail(items) = dispatched \o (<<e>> \o Tail(items))
    <3>1. dispatched \in Seq(Events) /\ <<e>> \in Seq(Events) /\ Tail(items) \in Seq(Events)
      BY <1>2, <1>3
    <3> QED BY ONLY <3>1, ConcatAssociative
  <2> QED BY <2>1, <2>2, <2>3
<1>7. /\ \A u \in Tasks : hand'[u] # <<>> => hand'[u] = <<e>>
      /\ hand'[t] = <<e>>
  BY <1>2, <1>4
<1>8. accepted' = dispatched' \o <<e>> \o items'
  BY <1>2, <1>6
<1> QED BY <1>3, <1>7, <1>8 DEF PipelineInv, Pipeline

(* The end of a dispatch moves the event to the end of the dispatched ones. *)
LEMMA PipelineFinish ==
    ASSUME TypeInv, OneHand, PipelineInv, NEW t \in Tasks, FinishDispatch(t),
           UNCHANGED <<items, accepted>>
    PROVE  PipelineInv'
<1>1. PICK h \in Seq(Events) : Pipeline(h)
  BY DEF PipelineInv
<1>2. /\ hand[t] \in Seq(Events) /\ hand[t] # <<>>
      /\ hand' = [hand EXCEPT ![t] = <<>>] /\ dispatched' = dispatched \o hand[t]
      /\ items \in Seq(Events) /\ dispatched' \in Seq(Events)
      /\ hand \in [Tasks -> Seq(Events)]
  <2>1. PICK e \in Events : hand[t] = <<e>>
    BY DEF FinishDispatch, PumpGo, TypeInv, HeldWhereNeeded
  <2>2. hand[t] # <<>>
    BY <2>1
  <2>3. dispatched \o hand[t] \in Seq(Events)
    BY ConcatProperties DEF TypeInv, TypeOK
  <2> QED BY <2>2, <2>3 DEF FinishDispatch, TypeInv, TypeOK
<1>3. h = hand[t]
  BY <1>1, <1>2 DEF Pipeline
<1>4. \A u \in Tasks : hand'[u] = <<>>
  BY <1>2 DEF OneHand
<1>5. accepted' = dispatched' \o <<>> \o items'
  <2>1. accepted' = dispatched' \o items'
    BY <1>1, <1>2, <1>3 DEF Pipeline
  <2>2. dispatched' \o <<>> = dispatched'
    BY <1>2, ConcatEmptySeq
  <2> QED BY <2>1, <2>2
<1>6. <<>> \in Seq(Events)
  OBVIOUS
<1> QED BY <1>4, <1>5, <1>6 DEF PipelineInv, Pipeline

(* A push adds one event to the queue and to the accepted ones. *)
LEMMA PipelinePush ==
    ASSUME TypeInv, PipelineInv, NEW p \in Publishers, EnqueuePush(p),
           UNCHANGED <<dispatched, hand>>
    PROVE  PipelineInv'
<1>1. PICK h \in Seq(Events) : Pipeline(h)
  BY DEF PipelineInv
<1>2. PICK e \in Events : outbox[p] = <<e>>
  BY DEF EnqueuePush, PubGo, TypeInv, HeldWhereNeeded, Publishing
<1>3. /\ items' = Append(items, e) /\ accepted' = accepted \o <<e>>
      /\ items \in Seq(Events) /\ dispatched \in Seq(Events) /\ <<e>> \in Seq(Events)
  BY <1>2 DEF EnqueuePush, PushBack, TypeInv, TypeOK
<1>4. items' = items \o <<e>>
  BY <1>3, AppendIsConcat
<1>5. dispatched \o h \in Seq(Events)
  BY <1>3, ConcatProperties
<1>6. ((dispatched \o h) \o items) \o <<e>> = (dispatched \o h) \o (items \o <<e>>)
  BY <1>3, <1>5, ConcatAssociative
<1>7. accepted' = dispatched' \o h \o items'
  BY <1>1, <1>3, <1>4, <1>6 DEF Pipeline
<1> QED BY <1>1, <1>7 DEF PipelineInv, Pipeline

(* Every step keeps the pipeline. *)
LEMMA PipelineStep ==
    TypeInv /\ OneHand /\ OneHand' /\ PipelineInv /\ [Next]_vars => PipelineInv'
<1> SUFFICES ASSUME TypeInv, OneHand, OneHand', PipelineInv, [Next]_vars PROVE PipelineInv'
  OBVIOUS
<1>1. ASSUME NEW t \in Tasks, PumpStep(t) PROVE PipelineInv'
  <2>0. UNCHANGED accepted
    BY <1>1 DEF PumpStep, intake
  <2>1. CASE DequeueSome(t)
    BY <2>0, <2>1, PipelineDequeue
  <2>2. CASE HandToSink(t)
    <3>1. CASE DispatchNextSink(t)
      BY <2>0, <2>2, <3>1, PipelineFrame DEF HandToSink, DispatchNextSink, queueVars
    <3>2. CASE AfterSinkErr(t)
      BY <2>0, <2>2, <3>2, PipelineFinish DEF HandToSink, AfterSinkErr, queueVars
    <3> QED BY <2>2, <3>1, <3>2 DEF HandToSink
  <2>3. CASE DispatchEnd(t)
    BY <2>0, <2>3, PipelineFinish DEF DispatchEnd, queueVars
  <2>4. CASE PumpCheck(t) \/ DequeueReadClosed(t) \/ DequeueEmpty(t) \/ AwaitPermit(t)
             \/ AwaitPark(t) \/ AwaitWoken(t) \/ DispatchLock(t)
    BY <2>0, <2>4, PipelineFrame
       DEF PumpCheck, DequeueReadClosed, DequeueEmpty, AwaitPermit, AwaitPark, AwaitWoken,
           DispatchLock, TakePermit, Register, queueVars, delivery
  <2> QED BY <1>1, <2>1, <2>2, <2>3, <2>4 DEF PumpStep
<1>2. ASSUME NEW p \in Publishers, PublishStep(p) PROVE PipelineInv'
  <2>0. UNCHANGED <<dispatched, hand>>
    BY <1>2 DEF PublishStep, delivery, pumpVars
  <2>1. CASE EnqueuePush(p)
    BY <2>0, <2>1, PipelinePush
  <2>2. CASE StoreAppend(p) \/ StoreErr(p) \/ EnqueueReadClosed(p) \/ EnqueueNotify(p)
    BY <2>0, <2>2, PipelineFrame
       DEF StoreAppend, StoreErr, EnqueueReadClosed, EnqueueNotify, NotifyOne, queueVars, intake
  <2> QED BY <1>2, <2>1, <2>2 DEF PublishStep
<1>3. ASSUME NEW t \in Tasks, FetchLoop(t) \/ FetchNext(t) PROVE PipelineInv'
  BY <1>3, PipelineFrame DEF FetchLoop, FetchNext, Outside, queueVars, pumpVars, intake, delivery
<1>4. ASSUME NEW m \in Manual, Call(m) PROVE PipelineInv'
  BY <1>4, PipelineFrame DEF Call, CallPublish, queueVars, pumpVars, intake, delivery
<1>5. ASSUME NEW c \in Controllers, ControlCall(c) \/ ControlStep(c) PROVE PipelineInv'
  <2>1. UNCHANGED <<hand, accepted, dispatched>>
    BY <1>5 DEF ControlCall, ControlStep, OutsideControl, intake, delivery
  <2>2. UNCHANGED items
    BY <1>5 DEF ControlCall, ControlStep, StartSwap, SpawnPump, StorePumpHandle, SpawnFetch,
                StartWithoutSource, StoreFetchHandle, StopSwap, ShutdownSetClosed,
                ShutdownNotify, TakePumpHandle, JoinPump, TakeFetchHandle, JoinFetch,
                SetClosed, NotifyWaiters, queueVars
  <2> QED BY <2>1, <2>2, PipelineFrame
<1>6. CASE Setup \/ UNCHANGED vars
  BY <1>6, PipelineFrame DEF Setup, vars, queueVars, pumpVars, intake, delivery
<1> QED BY <1>1, <1>2, <1>3, <1>4, <1>5, <1>6 DEF Next

(* With a single caller nothing that was pushed is lost, duplicated or      *)
(* overtaken on its way to the sinks, through every stop and restart.       *)
THEOREM InOrderDelivery == OneCaller => (Spec => []NothingLostOrOvertaken)
<1>1. Init => TypeInv /\ FetchNotSpawned /\ OwnedInv /\ PipelineInv
  <2>1. Init => FetchNotSpawned
    BY DEF Init, FetchNotSpawned, Starting, Publishers
  <2>2. Init => PipelineInv
    <3> SUFFICES ASSUME Init PROVE PipelineInv
      OBVIOUS
    <3>1. <<>> \in Seq(Events)
      OBVIOUS
    <3>2. <<>> = <<>> \o <<>> \o <<>>
      BY <3>1, ConcatEmptySeq
    <3> QED BY <3>1, <3>2 DEF Init, QueueInit, PipelineInv, Pipeline
  <2> QED BY <2>1, <2>2, TypeInvInit, OwnedInit
<1>2. PipelineInv => NothingLostOrOvertaken
  BY DEF PipelineInv, Pipeline, NothingLostOrOvertaken
<1>3. ASSUME OneCaller PROVE Spec => []NothingLostOrOvertaken
  <2>1. TypeInv /\ OwnedInv => OneHand
    BY <1>3, OwnedOneHand
  <2> QED BY <1>1, <1>2, <1>3, <2>1, TypeInvStep, FetchNotSpawnedStep, OwnedStep,
             PipelineStep, PTL DEF Spec
<1> QED BY <1>3

-----------------------------------------------------------------------------
(* Sequences that repeat nothing                                           *)

Distinct(s) == \A i, j \in DOMAIN s : s[i] = s[j] => i = j

(* What an appended sequence contains, and when it repeats nothing. *)
LEMMA InAppend ==
    ASSUME NEW S, NEW s \in Seq(S), NEW x \in S
    PROVE  /\ \A e : In(e, Append(s, x)) <=> In(e, s) \/ e = x
           /\ Distinct(s) /\ ~In(x, s) => Distinct(Append(s, x))
<1>1. /\ Append(s, x) \in Seq(S) /\ Len(Append(s, x)) = Len(s) + 1
      /\ \A i \in 1..Len(s) : Append(s, x)[i] = s[i]
      /\ Append(s, x)[Len(s) + 1] = x
      /\ DOMAIN s = 1..Len(s) /\ DOMAIN Append(s, x) = 1..(Len(s) + 1) /\ Len(s) \in Nat
  BY AppendProperties, LenProperties
<1>2. ASSUME NEW e PROVE In(e, Append(s, x)) <=> In(e, s) \/ e = x
  BY <1>1 DEF In
<1>3. ASSUME Distinct(s), ~In(x, s), NEW i \in DOMAIN Append(s, x), NEW j \in DOMAIN Append(s, x),
             Append(s, x)[i] = Append(s, x)[j]
      PROVE  i = j
  BY <1>1, <1>3 DEF Distinct, In
<1> QED
  BY <1>2, <1>3 DEF Distinct

(* What the tail of a sequence without repetitions contains. *)
LEMMA InTail ==
    ASSUME NEW S, NEW s \in Seq(S), s # <<>>, Distinct(s)
    PROVE  /\ \A e : In(e, Tail(s)) <=> In(e, s) /\ e # Head(s)
           /\ Distinct(Tail(s)) /\ In(Head(s), s)
<1>1. /\ Tail(s) \in Seq(S) /\ Len(Tail(s)) = Len(s) - 1 /\ Len(s) \in Nat \ {0} /\ Head(s) = s[1]
      /\ \A i \in 1..Len(Tail(s)) : Tail(s)[i] = s[i + 1]
      /\ DOMAIN s = 1..Len(s) /\ DOMAIN Tail(s) = 1..Len(Tail(s))
  BY HeadTailProperties, EmptySeq, LenProperties
<1>2. \A i \in DOMAIN Tail(s) : i + 1 \in DOMAIN s /\ Tail(s)[i] = s[i + 1] /\ i + 1 # 1
  BY <1>1
<1>3. \A i \in DOMAIN s \ {1} : i - 1 \in DOMAIN Tail(s) /\ Tail(s)[i - 1] = s[i]
  <2> SUFFICES ASSUME NEW i \in DOMAIN s \ {1}
               PROVE  i - 1 \in DOMAIN Tail(s) /\ Tail(s)[i - 1] = s[i]
    OBVIOUS
  <2>1. i - 1 \in 1..Len(Tail(s)) /\ (i - 1) + 1 = i
    BY <1>1
  <2> QED
    BY <1>1, <2>1
<1>4. 1 \in DOMAIN s
  BY <1>1
<1>5. ASSUME NEW e PROVE In(e, Tail(s)) <=> In(e, s) /\ e # Head(s)
  <2>1. ASSUME NEW i \in DOMAIN Tail(s), Tail(s)[i] = e PROVE In(e, s) /\ e # Head(s)
    BY <1>1, <1>2, <1>4, <2>1 DEF In, Distinct
  <2>2. ASSUME NEW i \in DOMAIN s, s[i] = e, e # Head(s) PROVE In(e, Tail(s))
    <3>1. i - 1 \in DOMAIN Tail(s) /\ Tail(s)[i - 1] = e
      BY <1>1, <1>3, <2>2
    <3> QED
      BY <3>1 DEF In
  <2> QED
    BY <2>1, <2>2 DEF In
<1>6. ASSUME NEW i \in DOMAIN Tail(s), NEW j \in DOMAIN Tail(s), Tail(s)[i] = Tail(s)[j] PROVE i = j
  BY <1>1, <1>2, <1>6 DEF Distinct
<1> QED
  BY <1>1, <1>4, <1>5, <1>6 DEF In, Distinct

-----------------------------------------------------------------------------
(* An event is in one place: still to come, in one outbox, in the queue, in *)
(* one hand, or handled.  First up to the queue.                            *)

Held(e)    == \E t \in Tasks : hand[t] = <<e>>
Unheard(e) == \A s \in Sinks : ~In(e, seen[s]) /\ <<s, e>> \notin failed
Fresh(e)   == IF e \in Manual THEN pub[e] = "none" ELSE e >= nextSrc
Carried(e) == \E p \in Publishers : outbox[p] = <<e>>

IntakeInv ==
    /\ \A e \in Events : Fresh(e) \/ Carried(e) => ~In(e, accepted)
    /\ \A e \in Events : Fresh(e) => ~Carried(e)
    /\ \A e \in Events, p, q \in Publishers : outbox[p] = <<e>> /\ outbox[q] = <<e>> => p = q
    /\ Distinct(accepted)

(* Steps that take no event from the source or its caller and push none *)
LEMMA IntakeFrame ==
    ASSUME IntakeInv, accepted' = accepted, \A e \in Events : Fresh(e)' => Fresh(e),
           \A p \in Publishers : outbox'[p] = outbox[p] \/ outbox'[p] = <<>>
    PROVE  IntakeInv'
<1>1. \A e : <<e>> # <<>>
  OBVIOUS
<1> QED
  BY <1>1 DEF IntakeInv, Carried

(* A new event comes into an outbox. *)
LEMMA IntakeTake ==
    ASSUME TypeInv, IntakeInv, accepted' = accepted, NEW e \in Events, Fresh(e), ~Fresh(e)',
           \A f \in Events : Fresh(f)' => Fresh(f),
           NEW p \in Publishers, outbox' = [outbox EXCEPT ![p] = <<e>>]
    PROVE  IntakeInv'
<1>1. outbox'[p] = <<e>> /\ \A q \in Publishers \ {p} : outbox'[q] = outbox[q]
  BY DEF TypeInv, TypeOK
<1>2. \A f : <<f>> = <<e>> => f = e
  OBVIOUS
<1>3. \A f \in Events : Carried(f)' => f = e \/ Carried(f)
  BY <1>1, <1>2 DEF Carried
<1>4. ~Carried(e) /\ ~In(e, accepted)
  BY DEF IntakeInv
<1>5. \A f \in Events : Fresh(f)' \/ Carried(f)' => ~In(f, accepted)
  BY <1>3, <1>4 DEF IntakeInv
<1>6. \A f \in Events : Fresh(f)' => ~Carried(f)'
  BY <1>3 DEF IntakeInv
<1>7. \A f \in Events, q, r \in Publishers : outbox'[q] = <<f>> /\ outbox'[r] = <<f>> => q = r
  BY <1>1, <1>2, <1>4 DEF IntakeInv, Carried
<1> QED
  BY <1>5, <1>6, <1>7 DEF IntakeInv

(* An event goes from an outbox into the queue. *)
LEMMA IntakePush ==
    ASSUME TypeInv, IntakeInv, NEW p \in Publishers, EnqueuePush(p)
    PROVE  IntakeInv'
<1>1. PICK e \in Events : outbox[p] = <<e>>
  BY DEF EnqueuePush, PubGo, TypeInv, HeldWhereNeeded, Publishing
<1>2. /\ accepted' = Append(accepted, e) /\ accepted \in Seq(Events) /\ nextSrc' = nextSrc
      /\ outbox'[p] = <<>> /\ \A q \in Publishers \ {p} : outbox'[q] = outbox[q]
      /\ \A q \in Publishers : pub'[q] = "none" => pub[q] = "none"
  BY <1>1, AppendIsConcat DEF EnqueuePush, PubGo, TypeInv, TypeOK
<1>3. ~In(e, accepted) /\ ~Fresh(e)
  BY <1>1 DEF IntakeInv, Carried
<1>4. \A f \in Events : Fresh(f)' => Fresh(f)
  BY <1>2 DEF Fresh, Publishers
<1>5. \A f : <<f>> # <<>>
  OBVIOUS
<1>6. \A f \in Events : Carried(f)' => Carried(f) /\ f # e
  <2> SUFFICES ASSUME NEW f \in Events, NEW q \in Publishers, outbox'[q] = <<f>>
               PROVE  Carried(f) /\ f # e
    BY DEF Carried
  <2>1. q # p /\ outbox[q] = <<f>>
    BY <1>2, <1>5
  <2> QED
    BY <1>1, <2>1 DEF IntakeInv, Carried
<1>7. \A f \in Events : In(f, accepted') <=> In(f, accepted) \/ f = e
  BY <1>2, InAppend
<1>8. Distinct(accepted')
  BY <1>2, <1>3, InAppend DEF IntakeInv
<1>9. \A f \in Events, q, r \in Publishers : outbox'[q] = <<f>> /\ outbox'[r] = <<f>> => q = r
  BY <1>2, <1>5 DEF IntakeInv
<1> QED
  BY <1>3, <1>4, <1>6, <1>7, <1>8, <1>9 DEF IntakeInv

LEMMA IntakeStep == TypeInv /\ IntakeInv /\ [Next]_vars => IntakeInv'
<1> SUFFICES ASSUME TypeInv, IntakeInv, [Next]_vars PROVE IntakeInv'
  OBVIOUS
<1>a. ASSUME UNCHANGED <<accepted, nextSrc>>,
             \A m \in Manual : pub'[m] = "none" => pub[m] = "none",
             \A p \in Publishers : outbox'[p] = outbox[p] \/ outbox'[p] = <<>>
      PROVE  IntakeInv'
  BY <1>a, IntakeFrame DEF Fresh
<1>1. ASSUME NEW t \in Tasks, PumpStep(t) PROVE IntakeInv'
  BY <1>1, <1>a DEF PumpStep, pubVars, intake
<1>2. ASSUME NEW p \in Publishers, PublishStep(p) PROVE IntakeInv'
  <2>1. CASE EnqueuePush(p)
    BY <2>1, IntakePush
  <2>2. CASE StoreAppend(p) \/ StoreErr(p) \/ EnqueueReadClosed(p) \/ EnqueueNotify(p)
    <3>1. UNCHANGED <<accepted, nextSrc>>
      BY <2>2 DEF StoreAppend, StoreErr, EnqueueReadClosed, EnqueueNotify, intake
    <3>2. \E a \in PubPcs \ {"none"}, b \in PubPcs \ {"none"} : PubGo(p, a, b)
      BY <2>2 DEF StoreAppend, StoreErr, GivesUpAfterStoreErr, EnqueueReadClosed, EnqueueNotify,
                  AfterPublish, PubPcs
    <3>3. outbox' = outbox \/ outbox' = [outbox EXCEPT ![p] = <<>>]
      BY <2>2 DEF StoreAppend, StoreErr, GivesUpAfterStoreErr, EnqueueReadClosed, EnqueueNotify
    <3> QED
      BY <1>a, <3>1, <3>2, <3>3 DEF PubGo, Publishers, TypeInv, TypeOK
  <2> QED
    BY <1>2, <2>1, <2>2 DEF PublishStep
<1>3. ASSUME NEW t \in Tasks, FetchLoop(t) \/ FetchNext(t) PROVE IntakeInv'
  <2>0. t \in Publishers /\ t \notin Manual /\ UNCHANGED accepted
    BY <1>3, ListenerAssumption DEF Publishers, FetchLoop, FetchNext, Outside, intake
  <2>1. \A m \in Manual : pub'[m] = pub[m]
    BY <1>3, <2>0 DEF FetchLoop, FetchNext, FetchCheck, FetchSome, FetchNothing, PubGo, Publishers,
                      TypeInv, TypeOK
  <2>2. CASE FetchSome(t)
    <3>1. /\ nextSrc \in Events /\ nextSrc \notin Manual /\ nextSrc' = nextSrc + 1
          /\ outbox' = [outbox EXCEPT ![t] = <<nextSrc>>]
      <4>1. nextSrc \in 1..MaxSource
        BY <2>2, ListenerAssumption DEF FetchSome, TypeInv, TypeOK
      <4> QED
        BY <2>2, <4>1, ManualAssumption DEF FetchSome, Events
    <3>2. \A e \in Events : Fresh(e)' => Fresh(e)
      BY <2>1, <3>1, ListenerAssumption DEF Fresh, Events, TypeInv, TypeOK
    <3>3. Fresh(nextSrc)
      BY <3>1, ListenerAssumption DEF Fresh, TypeInv, TypeOK
    <3>4. PICK e \in Events : e = nextSrc
      BY <3>1
    <3>5. ~Fresh(e)'
      BY <3>1, <3>4, ListenerAssumption DEF Fresh, TypeInv, TypeOK
    <3> QED
      BY <2>0, <3>1, <3>2, <3>3, <3>4, <3>5, IntakeTake
  <2>3. CASE FetchCheck(t) \/ FetchNothing(t)
    BY <1>a, <2>0, <2>1, <2>3 DEF FetchCheck, FetchNothing
  <2> QED
    BY <1>3, <2>2, <2>3 DEF FetchLoop, FetchNext
<1>4. ASSUME NEW m \in Manual, Call(m) PROVE IntakeInv'
  <2>1. /\ m \in Events /\ m \in Publishers /\ UNCHANGED <<accepted, nextSrc>>
        /\ pub[m] = "none" /\ pub' = [pub EXCEPT ![m] = "append"]
        /\ outbox' = [outbox EXCEPT ![m] = <<m>>]
    BY <1>4 DEF Call, CallPublish, PubGo, Events, Publishers, intake
  <2>2. Fresh(m) /\ ~Fresh(m)'
    BY <2>1 DEF Fresh, TypeInv, TypeOK
  <2>3. \A e \in Events : Fresh(e)' => Fresh(e)
    BY <2>1 DEF Fresh, TypeInv, TypeOK
  <2> QED
    BY <2>1, <2>2, <2>3, IntakeTake
<1>5. ASSUME NEW c \in Controllers, ControlCall(c) \/ ControlStep(c) PROVE IntakeInv'
  <2>1. UNCHANGED <<accepted, nextSrc, outbox>>
    BY <1>5 DEF ControlCall, ControlStep, OutsideControl, intake
  <2>2. \A p \in Publishers : pub'[p] = "none" => pub[p] = "none"
    BY <1>5 DEF ControlCall, ControlStep, StartSwap, SpawnPump, StorePumpHandle, SpawnFetch,
                StartWithoutSource, StoreFetchHandle, StopSwap, ShutdownSetClosed,
                ShutdownNotify, TakePumpHandle, JoinPump, TakeFetchHandle, JoinFetch
  <2> QED
    BY <1>a, <2>1, <2>2 DEF Publishers
<1>6. CASE Setup \/ UNCHANGED vars
  BY <1>6, <1>a DEF Setup, vars, pubVars, intake
<1> QED
  BY <1>1, <1>2, <1>3, <1>4, <1>5, <1>6 DEF Next

-----------------------------------------------------------------------------
(* From the queue to the sinks: an event in a hand has been taken by the    *)
(* sinks before the one its dispatch has reached, and by no other.          *)

HeldInv ==
    \A e \in Events, t \in Tasks : hand[t] = <<e>> =>
        \A s \in Sinks : (In(e, seen[s]) <=> s < sinkIdx[t]) /\ <<s, e>> \notin failed

ChainInv ==
    \A e \in Events, s \in Sinks : s > 1 /\ In(e, seen[s]) =>
        In(e, seen[s - 1]) /\ <<s - 1, e>> \notin failed

DeliveryInv ==
    /\ \A e \in Events : In(e, items) \/ Held(e) \/ ~Unheard(e) => In(e, accepted)
    /\ Distinct(items)
    /\ \A e \in Events : In(e, items) => ~Held(e) /\ Unheard(e)
    /\ \A e \in Events, t, u \in Tasks : hand[t] = <<e>> /\ hand[u] = <<e>> => t = u
    /\ \A t \in Tasks : pump[t] # "dispatch" => sinkIdx[t] = 0
    /\ HeldInv /\ ChainInv

LEMMA DeliveryFrame ==
    ASSUME DeliveryInv, UNCHANGED <<items, accepted, hand, seen, failed, sinkIdx>>,
           \A t \in Tasks : pump'[t] # "dispatch" => pump[t] # "dispatch"
    PROVE  DeliveryInv'
BY DEF DeliveryInv, HeldInv, ChainInv, Held, Unheard

(* The queue takes an event that nobody has had yet. *)
LEMMA DeliveryPush ==
    ASSUME TypeInv, IntakeInv, DeliveryInv, NEW p \in Publishers, EnqueuePush(p),
           UNCHANGED <<pump, hand, seen, failed, sinkIdx>>
    PROVE  DeliveryInv'
<1>1. PICK e \in Events : outbox[p] = <<e>>
  BY DEF EnqueuePush, PubGo, TypeInv, HeldWhereNeeded, Publishing
<1>2. /\ accepted' = Append(accepted, e) /\ accepted \in Seq(Events)
      /\ items' = Append(items, e) /\ items \in Seq(Events)
  BY <1>1, AppendIsConcat DEF EnqueuePush, PushBack, TypeInv, TypeOK
<1>3. ~In(e, accepted)
  BY <1>1 DEF IntakeInv, Carried
<1>4. ~In(e, items) /\ ~Held(e) /\ Unheard(e)
  BY <1>3 DEF DeliveryInv
<1>5. \A f \in Events : /\ In(f, accepted') <=> In(f, accepted) \/ f = e
                        /\ In(f, items') <=> In(f, items) \/ f = e
  BY <1>2, InAppend
<1>6. Distinct(items')
  BY <1>2, <1>4, InAppend DEF DeliveryInv
<1>7. \A f : (Held(f)' <=> Held(f)) /\ (Unheard(f)' <=> Unheard(f))
  BY DEF Held, Unheard
<1> QED
  BY <1>4, <1>5, <1>6, <1>7 DEF DeliveryInv, HeldInv, ChainInv

(* A pump takes the oldest event of the queue into its hand. *)
LEMMA DeliveryDequeue ==
    ASSUME TypeInv, DeliveryInv, NEW t \in Tasks, DequeueSome(t), UNCHANGED accepted
    PROVE  DeliveryInv'
<1>1. PICK e : e = Head(items)
  OBVIOUS
<1>2. /\ items \in Seq(Events) /\ items # <<>> /\ items' = Tail(items)
      /\ hand'[t] = <<e>> /\ \A u \in Tasks \ {t} : hand'[u] = hand[u]
      /\ UNCHANGED <<sinkIdx, seen, failed>> /\ pump[t] # "dispatch"
      /\ pump'[t] = "dispatch" /\ \A u \in Tasks \ {t} : pump'[u] = pump[u]
  BY <1>1 DEF DequeueSome, PopFront, PumpGo, delivery, TypeInv, TypeOK
<1>3. e \in Events
  BY <1>1, <1>2, HeadTailProperties
<1>4. /\ \A f : In(f, items') <=> In(f, items) /\ f # e
      /\ Distinct(items') /\ In(e, items)
  BY <1>1, <1>2, InTail DEF DeliveryInv
<1>5. ~Held(e) /\ Unheard(e) /\ In(e, accepted) /\ sinkIdx[t] = 0
  BY <1>2, <1>3, <1>4 DEF DeliveryInv
<1>6. \A f : <<f>> = <<e>> => f = e
  OBVIOUS
<1>7. \A f \in Events : (Held(f)' => Held(f) \/ f = e) /\ (Unheard(f)' <=> Unheard(f))
  BY <1>2, <1>6 DEF Held, Unheard
<1>8. \A f \in Events, u, v \in Tasks : hand'[u] = <<f>> /\ hand'[v] = <<f>> => u = v
  BY <1>2, <1>5, <1>6 DEF DeliveryInv, Held
<1>9. HeldInv'
  <2> SUFFICES ASSUME NEW f \in Events, NEW u \in Tasks, hand'[u] = <<f>>, NEW s \in Sinks
               PROVE  (In(f, seen[s]) <=> s < sinkIdx[u]) /\ <<s, f>> \notin failed
    BY <1>2 DEF HeldInv
  <2>1. CASE u = t
    <3>1. ~(s < sinkIdx[u]) /\ f = e
      BY <1>2, <1>5, <1>6, <2>1 DEF Sinks
    <3> QED
      BY <1>5, <3>1 DEF Unheard
  <2>2. CASE u # t
    BY <1>2, <2>2 DEF DeliveryInv, HeldInv
  <2> QED
    BY <2>1, <2>2
<1>10. ChainInv'
  BY <1>2 DEF DeliveryInv, ChainInv
<1>11. \A u \in Tasks : pump'[u] # "dispatch" => sinkIdx'[u] = 0
  BY <1>2 DEF DeliveryInv
<1>12. \A f \in Events : In(f, items') \/ Held(f)' \/ ~Unheard(f)' => In(f, accepted')
  BY <1>4, <1>5, <1>7 DEF DeliveryInv
<1>13. \A f \in Events : In(f, items') => ~Held(f)' /\ Unheard(f)'
  BY <1>4, <1>7 DEF DeliveryInv
<1> QED
  BY <1>4, <1>8, <1>9, <1>10, <1>11, <1>12, <1>13 DEF DeliveryInv

(* The sink that a dispatch has reached is handed the event; what else      *)
(* happens is either DispatchNextSink or AfterSinkErr.                      *)
LEMMA HandedOver ==
    ASSUME TypeInv, DeliveryInv, NEW t \in Tasks, HandToSink(t)
    PROVE  \E e \in Events :
             /\ hand[t] = <<e>> /\ sinkIdx[t] \in Sinks /\ In(e, accepted) /\ ~In(e, items)
             /\ \A s \in Sinks, f \in Events : In(f, seen'[s]) <=> In(f, seen[s]) \/ (s = sinkIdx[t] /\ f = e)
             /\ \A u \in Tasks \ {t} : hand[u] # <<e>>
<1>1. PICK e \in Events : hand[t] = <<e>>
  BY DEF HandToSink, TypeInv, HeldWhereNeeded
<1>2. sinkIdx[t] \in Sinks
  <2>1. /\ sinkIdx[t] \in 0..(MaxSinks + 1) /\ sinks \in 0..MaxSinks
        /\ sinkIdx[t] > 0 /\ sinkIdx[t] <= sinks
    BY DEF HandToSink, SinkLeft, TypeInv, TypeOK
  <2> QED
    BY <2>1, ListenerAssumption DEF Sinks
<1>3. /\ seen' = [seen EXCEPT ![sinkIdx[t]] = Append(seen[sinkIdx[t]], e)]
      /\ seen[sinkIdx[t]] \in Seq(Events) /\ seen \in [Sinks -> Seq(Events)]
  <2>1. seen[sinkIdx[t]] \in Seq(Events) /\ seen \in [Sinks -> Seq(Events)]
    BY <1>2 DEF TypeInv, TypeOK
  <2>2. seen[sinkIdx[t]] \o <<e>> = Append(seen[sinkIdx[t]], e)
    BY <2>1, AppendIsConcat
  <2>3. seen' = [seen EXCEPT ![sinkIdx[t]] = seen[sinkIdx[t]] \o <<e>>]
    BY <1>1 DEF HandToSink
  <2> QED
    BY <2>1, <2>2, <2>3
<1>4. \A s \in Sinks, f \in Events : In(f, seen'[s]) <=> In(f, seen[s]) \/ (s = sinkIdx[t] /\ f = e)
  <2> SUFFICES ASSUME NEW s \in Sinks, NEW f \in Events
               PROVE  In(f, seen'[s]) <=> In(f, seen[s]) \/ (s = sinkIdx[t] /\ f = e)
    OBVIOUS
  <2>1. CASE s = sinkIdx[t]
    <3>1. seen'[s] = Append(seen[s], e) /\ seen[s] \in Seq(Events)
      BY <1>2, <1>3, <2>1
    <3> QED
      BY <2>1, <3>1, InAppend
  <2>2. CASE s # sinkIdx[t]
    <3>1. seen'[s] = seen[s]
      BY <1>3, <2>2
    <3> QED
      BY <2>2, <3>1
  <2> QED
    BY <2>1, <2>2
<1>5. In(e, accepted) /\ ~In(e, items) /\ \A u \in Tasks \ {t} : hand[u] # <<e>>
  BY <1>1 DEF DeliveryInv, Held
<1> QED
  BY <1>1, <1>2, <1>4, <1>5

LEMMA DeliveryNext ==
    ASSUME TypeInv, DeliveryInv, NEW t \in Tasks, HandToSink(t), DispatchNextSink(t),
           UNCHANGED <<accepted, failed>>
    PROVE  DeliveryInv'
<1> DEFINE s == sinkIdx[t]
<1>1. PICK e \in Events :
             /\ hand[t] = <<e>> /\ s \in Sinks /\ In(e, accepted) /\ ~In(e, items)
             /\ \A r \in Sinks, f \in Events : In(f, seen'[r]) <=> In(f, seen[r]) \/ (r = s /\ f = e)
             /\ \A u \in Tasks \ {t} : hand[u] # <<e>>
  BY HandedOver
<1>2. /\ UNCHANGED <<items, pump, hand, accepted, failed>> /\ pump[t] = "dispatch"
      /\ sinkIdx'[t] = s + 1 /\ \A u \in Tasks \ {t} : sinkIdx'[u] = sinkIdx[u]
  BY DEF HandToSink, DispatchNextSink, queueVars, TypeInv, TypeOK
<1> HIDE DEF s
<1>3. \A f : <<f>> = <<e>> => f = e
  OBVIOUS
<1>4. \A f \in Events : ~Unheard(f)' => ~Unheard(f) \/ f = e
  BY <1>1, <1>2 DEF Unheard
<1>5. \A f : Held(f)' <=> Held(f)
  BY <1>2 DEF Held
<1>6. HeldInv'
  <2> SUFFICES ASSUME NEW f \in Events, NEW u \in Tasks, hand[u] = <<f>>, NEW r \in Sinks
               PROVE  (In(f, seen'[r]) <=> r < sinkIdx'[u]) /\ <<r, f>> \notin failed
    BY <1>2 DEF HeldInv
  <2>1. (In(f, seen[r]) <=> r < sinkIdx[u]) /\ <<r, f>> \notin failed
    BY DEF DeliveryInv, HeldInv
  <2>2. CASE u = t
    <3>1. f = e /\ sinkIdx[u] = s
      BY <1>1, <1>3, <2>2 DEF s
    <3>2. r < s + 1 <=> r < s \/ r = s
      BY <1>1 DEF Sinks
    <3> QED
      BY <1>1, <1>2, <2>1, <2>2, <3>1, <3>2
  <2>3. CASE u # t
    <3>1. f # e
      BY <1>1, <2>3
    <3> QED
      BY <1>1, <1>2, <2>1, <2>3, <3>1
  <2> QED
    BY <2>2, <2>3
<1>7. ChainInv'
  <2> SUFFICES ASSUME NEW f \in Events, NEW r \in Sinks, r > 1, In(f, seen'[r])
               PROVE  In(f, seen'[r - 1]) /\ <<r - 1, f>> \notin failed
    BY <1>2 DEF ChainInv
  <2>1. r - 1 \in Sinks
    BY ListenerAssumption DEF Sinks
  <2>2. CASE In(f, seen[r])
    BY <1>1, <2>1, <2>2 DEF DeliveryInv, ChainInv
  <2>3. CASE r = s /\ f = e
    <3>1. r - 1 < sinkIdx[t]
      BY <2>3 DEF s, Sinks
    <3> QED
      BY <1>1, <2>1, <2>3, <3>1 DEF DeliveryInv, HeldInv
  <2> QED
    BY <1>1, <2>2, <2>3
<1> QED
  BY <1>1, <1>2, <1>4, <1>5, <1>6, <1>7 DEF DeliveryInv

(* A hand is emptied.  If that is because the sink it had reached failed,   *)
(* no later sink has the event.                                             *)
LEMMA DeliveryFinish ==
    ASSUME TypeInv, DeliveryInv, NEW t \in Tasks, FinishDispatch(t),
           UNCHANGED <<items, accepted>>,
           \/ UNCHANGED <<seen, failed>>
           \/ HandToSink(t) /\ failed' = failed \cup {<<sinkIdx[t], Head(hand[t])>>}
    PROVE  DeliveryInv'
<1> DEFINE s == sinkIdx[t]
<1>1. PICK e \in Events : hand[t] = <<e>>
  BY DEF FinishDispatch, PumpGo, TypeInv, HeldWhereNeeded
<1>2. /\ hand'[t] = <<>> /\ sinkIdx'[t] = 0
      /\ \A u \in Tasks \ {t} :
            hand'[u] = hand[u] /\ sinkIdx'[u] = sinkIdx[u] /\ pump'[u] = pump[u]
  BY DEF FinishDispatch, PumpGo, TypeInv, TypeOK
<1>3. \A f : <<f>> # <<>> /\ (<<f>> = <<e>> => f = e)
  OBVIOUS
<1>4. In(e, accepted) /\ ~In(e, items) /\ \A u \in Tasks \ {t} : hand[u] # <<e>>
  BY <1>1 DEF DeliveryInv, Held
<1>5. \A f : Held(f)' => Held(f)
  BY <1>2, <1>3 DEF Held
<1>6. \A f \in Events, u \in Tasks : hand'[u] = <<f>> =>
          u # t /\ hand[u] = <<f>> /\ f # e /\ sinkIdx'[u] = sinkIdx[u]
  BY <1>2, <1>3, <1>4
<1>7. (* what has become of the sinks *)
      /\ \A r \in Sinks, f \in Events \ {e} :
            (In(f, seen'[r]) <=> In(f, seen[r])) /\ (<<r, f>> \in failed' <=> <<r, f>> \in failed)
      /\ ChainInv'
  <2>1. CASE UNCHANGED <<seen, failed>>
    BY <2>1 DEF DeliveryInv, ChainInv
  <2>2. CASE HandToSink(t) /\ failed' = failed \cup {<<s, Head(hand[t])>>}
    <3>1. /\ s \in Sinks
          /\ \A r \in Sinks, f \in Events : In(f, seen'[r]) <=> In(f, seen[r]) \/ (r = s /\ f = e)
      BY <1>1, <1>3, <2>2, HandedOver
    <3>2. failed' = failed \cup {<<s, e>>}
      BY <1>1, <2>2
    <3>3. ASSUME NEW f \in Events, NEW r \in Sinks, r > 1, In(f, seen'[r])
          PROVE  In(f, seen'[r - 1]) /\ <<r - 1, f>> \notin failed'
      <4>1. r - 1 \in Sinks /\ r \in Nat
        BY <3>3, ListenerAssumption DEF Sinks
      <4>2. CASE In(f, seen[r])
        <5>1. In(f, seen[r - 1]) /\ <<r - 1, f>> \notin failed
          BY <3>3, <4>2 DEF DeliveryInv, ChainInv
        <5>2. f = e => r < s
          BY <1>1, <4>2 DEF DeliveryInv, HeldInv
        <5>3. f = e => r - 1 # s
          BY <3>1, <4>1, <5>2 DEF Sinks
        <5> QED
          BY <3>1, <3>2, <4>1, <5>1, <5>3
      <4>3. CASE r = s /\ f = e
        <5>1. r - 1 < s /\ r - 1 # s
          BY <4>1, <4>3
        <5>2. In(e, seen[r - 1]) /\ <<r - 1, e>> \notin failed
          BY <1>1, <4>1, <5>1 DEF DeliveryInv, HeldInv
        <5> QED
          BY <3>1, <3>2, <4>1, <4>3, <5>1, <5>2
      <4> QED
        BY <3>1, <3>3, <4>2, <4>3
    <3>4. ChainInv'
      BY <3>3 DEF ChainInv
    <3> QED
      BY <3>1, <3>2, <3>4
  <2> QED
    BY <2>1, <2>2
<1>8. HeldInv'
  BY <1>6, <1>7 DEF DeliveryInv, HeldInv
<1>9. \A f \in Events : f # e => (Unheard(f)' <=> Unheard(f))
  BY <1>7 DEF Unheard
<1>10. \A u \in Tasks : pump'[u] # "dispatch" => sinkIdx'[u] = 0
  BY <1>2 DEF DeliveryInv
<1> QED
  BY <1>4, <1>5, <1>6, <1>7, <1>8, <1>9, <1>10 DEF DeliveryInv

LEMMA DeliveryStep == TypeInv /\ IntakeInv /\ DeliveryInv /\ [Next]_vars => DeliveryInv'
<1> SUFFICES ASSUME TypeInv, IntakeInv, DeliveryInv, [Next]_vars PROVE DeliveryInv'
  OBVIOUS
<1>1. ASSUME NEW t \in Tasks, PumpStep(t) PROVE DeliveryInv'
  <2>0. UNCHANGED accepted
    BY <1>1 DEF PumpStep, intake
  <2>1. CASE DequeueSome(t)
    BY <2>0, <2>1, DeliveryDequeue
  <2>2. CASE HandToSink(t)
    <3>1. UNCHANGED items
      BY <2>2 DEF HandToSink, queueVars
    <3>2. CASE DispatchNextSink(t) /\ UNCHANGED failed
      BY <2>0, <2>2, <3>2, DeliveryNext
    <3>3. CASE AfterSinkErr(t) /\ failed' = failed \cup {<<sinkIdx[t], Head(hand[t])>>}
      BY <2>0, <2>2, <3>1, <3>3, DeliveryFinish DEF AfterSinkErr
    <3> QED
      BY <2>2, <3>2, <3>3 DEF HandToSink
  <2>3. CASE DispatchEnd(t)
    BY <2>0, <2>3, DeliveryFinish DEF DispatchEnd, queueVars
  <2>4. CASE DispatchLock(t)
    <3>1. /\ UNCHANGED <<items, pump, hand, seen, failed>> /\ pump[t] = "dispatch"
          /\ sinkIdx[t] = 0 /\ sinkIdx'[t] = 1
          /\ \A u \in Tasks \ {t} : sinkIdx'[u] = sinkIdx[u]
      BY <2>4 DEF DispatchLock, queueVars, delivery, TypeInv, TypeOK
    <3>2. \A r \in Sinks : ~(r < 1) /\ ~(r < 0)
      BY DEF Sinks
    <3>3. HeldInv'
      BY <3>1, <3>2 DEF DeliveryInv, HeldInv
    <3>4. \A f : (Held(f)' <=> Held(f)) /\ (Unheard(f)' <=> Unheard(f))
      BY <3>1 DEF Held, Unheard
    <3> QED
      BY <2>0, <3>1, <3>3, <3>4 DEF DeliveryInv, ChainInv
  <2>5. CASE PumpCheck(t) \/ DequeueReadClosed(t) \/ DequeueEmpty(t) \/ AwaitPermit(t)
             \/ AwaitPark(t) \/ AwaitWoken(t)
    <3>1. UNCHANGED <<items, hand, seen, failed, sinkIdx>>
      BY <2>5 DEF PumpCheck, DequeueReadClosed, DequeueEmpty, AwaitPermit, AwaitPark, AwaitWoken,
                  TakePermit, Register, queueVars, delivery
    <3>2. \E a, b \in PumpPcs \ {"dispatch"} : PumpGo(t, a, b)
      BY <2>5 DEF PumpCheck, DequeueReadClosed, DequeueEmpty, AwaitPermit, AwaitPark, AwaitWoken,
                  PumpPcs, PumpGo
    <3>3. \A u \in Tasks : pump'[u] # "dispatch" => pump[u] # "dispatch"
      BY <3>2 DEF PumpGo, TypeInv, TypeOK
    <3> QED
      BY <2>0, <3>1, <3>3, DeliveryFrame
  <2> QED
    BY <1>1, <2>1, <2>2, <2>3, <2>4, <2>5 DEF PumpStep
<1>2. ASSUME NEW p \in Publishers, PublishStep(p) PROVE DeliveryInv'
  <2>0. UNCHANGED <<pump, hand, sinkIdx, seen, failed>>
    BY <1>2 DEF PublishStep, delivery, pumpVars
  <2>1. CASE EnqueuePush(p)
    BY <2>0, <2>1, DeliveryPush
  <2>2. CASE StoreAppend(p) \/ StoreErr(p) \/ EnqueueReadClosed(p) \/ EnqueueNotify(p)
    BY <2>0, <2>2, DeliveryFrame
       DEF StoreAppend, StoreErr, EnqueueReadClosed, EnqueueNotify, NotifyOne, queueVars, intake
  <2> QED
    BY <1>2, <2>1, <2>2 DEF PublishStep
<1>3. ASSUME NEW t \in Tasks, FetchLoop(t) \/ FetchNext(t) PROVE DeliveryInv'
  BY <1>3, DeliveryFrame DEF FetchLoop, FetchNext, Outside, queueVars, pumpVars, intake, delivery
<1>4. ASSUME NEW m \in Manual, Call(m) PROVE DeliveryInv'
  BY <1>4, DeliveryFrame DEF Call, CallPublish, queueVars, pumpVars, intake, delivery
<1>5. ASSUME NEW c \in Controllers, ControlCall(c) \/ ControlStep(c) PROVE DeliveryInv'
  <2>1. UNCHANGED <<hand, sinkIdx, accepted, seen, failed>>
    BY <1>5 DEF ControlCall, ControlStep, OutsideControl, intake, delivery
  <2>2. UNCHANGED items
    BY <1>5 DEF ControlCall, ControlStep, StartSwap, SpawnPump, StorePumpHandle, SpawnFetch,
                StartWithoutSource, StoreFetchHandle, StopSwap, ShutdownSetClosed,
                ShutdownNotify, TakePumpHandle, JoinPump, TakeFetchHandle, JoinFetch,
                SetClosed, NotifyWaiters, queueVars
  <2>3. \A t \in Tasks : pump'[t] # "dispatch" => pump[t] # "dispatch"
    <3>1. CASE SpawnPump(c)
      <4>1. \E u \in Tasks : pump[u] = "none" /\ pump' = [pump EXCEPT ![u] = "check"]
        BY <3>1 DEF SpawnPump, FreshTasks
      <4> QED
        BY <4>1 DEF TypeInv, TypeOK
    <3>2. CASE ~SpawnPump(c)
      <4>1. UNCHANGED pump
        BY <1>5, <3>2 DEF ControlCall, ControlStep, StartSwap, StorePumpHandle, SpawnFetch,
                StartWithoutSource, StoreFetchHandle, StopSwap, ShutdownSetClosed,
                ShutdownNotify, TakePumpHandle, JoinPump, TakeFetchHandle, JoinFetch
      <4> QED
        BY <4>1
    <3> QED
      BY <3>1, <3>2
  <2> QED
    BY <2>1, <2>2, <2>3, DeliveryFrame
<1>6. CASE Setup \/ UNCHANGED vars
  BY <1>6, DeliveryFrame DEF Setup, vars, queueVars, pumpVars, intake, delivery
<1> QED
  BY <1>1, <1>2, <1>3, <1>4, <1>5, <1>6 DEF Next

LEMMA IntakeInit == Init => IntakeInv /\ DeliveryInv
<1> SUFFICES ASSUME Init PROVE IntakeInv /\ DeliveryInv
  OBVIOUS
<1>1. \A e : ~In(e, <<>>) /\ <<e>> # <<>>
  BY DEF In
<1>2. Distinct(<<>>)
  BY DEF Distinct
<1>3. IntakeInv
  BY <1>1, <1>2 DEF Init, IntakeInv, Carried
<1>4. DeliveryInv
  BY <1>1, <1>2 DEF Init, QueueInit, DeliveryInv, HeldInv, ChainInv, Held, Unheard
<1> QED
  BY <1>3, <1>4

(* A sink never sees an event that a sink before it refused, or has not     *)
(* seen, with any number of callers, pumps at work and failing sinks        *)
(* (dispatch of LocalEventListener).                                        *)
THEOREM SinksInTurn == Spec => []SinkSeesWhatEarlierTook
<1>1. Init => TypeInv /\ FetchNotSpawned /\ IntakeInv /\ DeliveryInv
  <2>1. Init => FetchNotSpawned
    BY DEF Init, FetchNotSpawned, Starting, Publishers
  <2> QED
    BY <2>1, TypeInvInit, IntakeInit
<1>2. TypeInv /\ DeliveryInv => SinkSeesWhatEarlierTook
  <2> SUFFICES ASSUME TypeInv, DeliveryInv, NEW s \in Sinks, s > 1, NEW i \in DOMAIN seen[s]
               PROVE  In(seen[s][i], seen[s - 1]) /\ <<s - 1, seen[s][i]>> \notin failed
    BY DEF SinkSeesWhatEarlierTook
  <2>1. seen[s][i] \in Events /\ In(seen[s][i], seen[s])
    BY DEF TypeInv, TypeOK, In
  <2> QED
    BY <2>1 DEF DeliveryInv, ChainInv
<1> QED
  BY <1>1, <1>2, TypeInvStep, FetchNotSpawnedStep, IntakeStep, DeliveryStep, PTL DEF Spec

-----------------------------------------------------------------------------
(* The source's order, with one caller.  Only one fetch task is at work,    *)
(* and what it carries is the newest event the source has given.            *)

OneFetch == \A t, u \in Tasks : FetchLive(t) /\ FetchLive(u) => t = u

LEMMA OwnedOneFetch == OneCaller /\ OwnedInv => OneFetch
<1> SUFFICES ASSUME OneCaller, OwnedInv, NEW t \in Tasks, NEW u \in Tasks,
                    FetchLive(t), FetchLive(u)
             PROVE  t = u
  BY DEF OneFetch
<1> QED
  BY DEF OneCaller, OwnedInv, FetchOwned, AtStop

Newest == nextSrc - 1

OrderInv ==
    /\ \A e \in Events \ Manual : In(e, stored) \/ In(e, accepted) => e < nextSrc
    /\ \A t \in Tasks : pub[t] \in Publishing =>
          /\ Newest \in 1..MaxSource /\ outbox[t] = <<Newest>>
          /\ pub[t] = "append" => ~In(Newest, stored)
          /\ ~In(Newest, accepted)
    /\ \A m \in Manual : outbox[m] = <<>> \/ outbox[m] = <<m>>
    /\ Increasing(stored) /\ Increasing(accepted)

LEMMA IncreasingAppend ==
    ASSUME NEW s \in Seq(Events), NEW x \in Events, Increasing(s),
           x \notin Manual => \A e \in Events \ Manual : In(e, s) => e < x
    PROVE  Increasing(Append(s, x))
<1>1. /\ \A i \in 1..Len(s) : Append(s, x)[i] = s[i] /\ s[i] \in Events
      /\ Append(s, x)[Len(s) + 1] = x
      /\ DOMAIN s = 1..Len(s) /\ DOMAIN Append(s, x) = 1..(Len(s) + 1) /\ Len(s) \in Nat
  BY AppendProperties, LenProperties
<1> SUFFICES ASSUME NEW i \in 1..(Len(s) + 1), NEW j \in 1..(Len(s) + 1), i < j,
                    Append(s, x)[i] \notin Manual, Append(s, x)[j] \notin Manual
             PROVE  Append(s, x)[i] < Append(s, x)[j]
  BY <1>1 DEF Increasing
<1>2. i \in 1..Len(s)
  BY <1>1
<1>3. CASE j \in 1..Len(s)
  BY <1>1, <1>2, <1>3 DEF Increasing
<1>4. CASE j = Len(s) + 1
  BY <1>1, <1>2, <1>4 DEF In
<1> QED
  BY <1>1, <1>3, <1>4

LEMMA OrderFrame ==
    ASSUME OrderInv, UNCHANGED <<nextSrc, stored, accepted>>,
           \A t \in Tasks : pub'[t] \in Publishing =>
               /\ pub[t] \in Publishing /\ outbox'[t] = outbox[t]
               /\ pub'[t] = "append" => pub[t] = "append",
           \A m \in Manual : outbox'[m] = outbox[m] \/ outbox'[m] = <<>> \/ outbox'[m] = <<m>>
    PROVE  OrderInv'
BY DEF OrderInv, Newest

(* A fetch task takes the next event; no other has one. *)
LEMMA OrderFetch ==
    ASSUME TypeInv, OneFetch, OrderInv, NEW t \in Tasks, FetchSome(t), UNCHANGED <<stored, accepted>>
    PROVE  OrderInv'
<1>1. /\ nextSrc \in 1..MaxSource /\ nextSrc' = nextSrc + 1 /\ pub[t] = "next"
      /\ outbox'[t] = <<nextSrc>>
      /\ \A u \in Publishers \ {t} : pub'[u] = pub[u] /\ outbox'[u] = outbox[u]
      /\ Tasks \subseteq Publishers /\ Manual \subseteq Publishers \ {t}
  BY ListenerAssumption DEF FetchSome, PubGo, TypeInv, TypeOK, Publishers
<1>2. Newest' = nextSrc /\ nextSrc \in Events \ Manual
  BY <1>1, ListenerAssumption, ManualAssumption DEF Newest, Events
<1>3. ~In(nextSrc, stored) /\ ~In(nextSrc, accepted)
  BY <1>1, <1>2, ListenerAssumption DEF OrderInv
<1>4. \A u \in Tasks : pub'[u] \in Publishing => u = t
  BY <1>1 DEF OneFetch, FetchLive, Publishing
<1>5. \A e \in Events \ Manual : In(e, stored) \/ In(e, accepted) => e < nextSrc'
  <2>1. \A e \in Events \ Manual : e \in Int
    BY ListenerAssumption DEF Events
  <2> QED
    BY <1>1, <2>1, ListenerAssumption DEF OrderInv
<1> QED
  BY <1>1, <1>2, <1>3, <1>4, <1>5 DEF OrderInv

(* What is appended to the store or pushed into the queue is newer than     *)
(* every event of the source in it.                                         *)
LEMMA OrderAppend ==
    ASSUME TypeInv, OneFetch, OrderInv, NEW p \in Publishers, StoreAppend(p) \/ EnqueuePush(p)
    PROVE  OrderInv'
<1>1. PICK e \in Events : outbox[p] = <<e>>
  BY DEF StoreAppend, EnqueuePush, PubGo, TypeInv, HeldWhereNeeded, Publishing
<1>2. /\ stored \in Seq(Events) /\ accepted \in Seq(Events) /\ nextSrc \in Nat
      /\ Tasks \subseteq Publishers /\ Manual \subseteq Publishers
  BY ListenerAssumption DEF TypeInv, TypeOK, Publishers
<1>a. /\ nextSrc' = nextSrc /\ pub[p] \in Publishing
      /\ \A q \in Publishers \ {p} : pub'[q] = pub[q] /\ outbox'[q] = outbox[q]
      /\ outbox'[p] = <<>> \/ outbox' = outbox
  BY DEF StoreAppend, EnqueuePush, PubGo, TypeInv, TypeOK, Publishing
<1>b. \/ /\ UNCHANGED <<accepted, outbox>> /\ stored' = Append(stored, e)
         /\ pub[p] = "append" /\ pub'[p] = "closed"
      \/ /\ UNCHANGED stored /\ accepted' = Append(accepted, e)
         /\ pub[p] = "push" /\ pub'[p] = "notify"
  <2>1. stored \o <<e>> = Append(stored, e) /\ accepted \o <<e>> = Append(accepted, e)
    BY <1>2, AppendIsConcat
  <2>2. CASE StoreAppend(p)
    BY <1>1, <2>1, <2>2 DEF StoreAppend, PubGo, TypeInv, TypeOK
  <2>3. CASE EnqueuePush(p)
    BY <1>1, <2>1, <2>3 DEF EnqueuePush, PubGo, TypeInv, TypeOK
  <2> QED
    BY <2>2, <2>3
<1>c. \A m \in Manual : outbox'[m] = <<>> \/ outbox'[m] = <<m>>
  BY <1>2, <1>a DEF OrderInv
<1>3. CASE p \in Tasks
  <2>1. Newest \in 1..MaxSource /\ e = Newest /\ Newest \notin Manual
    <3>1. Newest \in 1..MaxSource /\ outbox[p] = <<Newest>>
      BY <1>3, <1>a DEF OrderInv
    <3> QED
      BY <1>1, <3>1, ManualAssumption
  <2>2. \A t \in Tasks \ {p} : pub'[t] \notin Publishing
    <3>1. \A t \in Tasks : pub[t] \in Publishing => FetchLive(t)
      BY DEF FetchLive, Publishing
    <3>2. \A t \in Tasks : pub[t] \in Publishing => t = p
      BY <1>3, <1>a, <3>1 DEF OneFetch
    <3> QED
      BY <1>2, <1>a, <3>2
  <2>3. \A f \in Events \ Manual : f < nextSrc /\ f # Newest => f < Newest
    BY <1>2, ListenerAssumption DEF Events, Newest
  <2>4. e < nextSrc
    BY <1>2, <2>1 DEF Newest
  <2>5. CASE stored' = Append(stored, e) /\ UNCHANGED <<accepted, outbox>>
             /\ pub[p] = "append" /\ pub'[p] = "closed"
    <3>1. ~In(Newest, stored) /\ ~In(Newest, accepted) /\ outbox[p] = <<Newest>>
      BY <1>3, <2>5 DEF OrderInv, Publishing
    <3>2. Increasing(stored')
      BY <1>2, <2>1, <2>3, <2>5, <3>1, IncreasingAppend DEF OrderInv
    <3>3. \A f : In(f, stored') <=> In(f, stored) \/ f = e
      BY <1>2, <2>5, InAppend
    <3>4. \A f \in Events \ Manual : In(f, stored') \/ In(f, accepted') => f < nextSrc'
      BY <1>a, <2>4, <2>5, <3>3 DEF OrderInv
    <3> QED
      BY <1>a, <1>c, <2>1, <2>2, <2>5, <3>1, <3>2, <3>4 DEF OrderInv, Newest
  <2>6. CASE UNCHANGED stored /\ accepted' = Append(accepted, e)
             /\ pub[p] = "push" /\ pub'[p] = "notify"
    <3>1. ~In(Newest, accepted)
      BY <1>3, <2>6 DEF OrderInv, Publishing
    <3>2. Increasing(accepted')
      BY <1>2, <2>1, <2>3, <2>6, <3>1, IncreasingAppend DEF OrderInv
    <3>3. \A f : In(f, accepted') <=> In(f, accepted) \/ f = e
      BY <1>2, <2>6, InAppend
    <3>4. \A f \in Events \ Manual : In(f, stored') \/ In(f, accepted') => f < nextSrc'
      BY <1>a, <2>4, <2>6, <3>3 DEF OrderInv
    <3>5. \A t \in Tasks : pub'[t] \notin Publishing
      BY <2>2, <2>6 DEF Publishing
    <3> QED
      BY <1>c, <2>6, <3>2, <3>4, <3>5 DEF OrderInv
  <2> QED
    BY <1>b, <2>5, <2>6
<1>4. CASE p \in Manual /\ p \notin Tasks
  <2>1. e = p
    <3>1. <<e>> # <<>> /\ (<<e>> = <<p>> => e = p)
      OBVIOUS
    <3> QED
      BY <1>1, <1>4, <3>1 DEF OrderInv
  <2>2. e \in Manual /\ \A f \in 1..MaxSource : f # e
    BY <1>4, <2>1, ManualAssumption
  <2>3. Increasing(stored) /\ Increasing(accepted)
    BY DEF OrderInv
  <2>4. Increasing(Append(stored, e)) /\ Increasing(Append(accepted, e))
    BY <1>2, <2>2, <2>3, IncreasingAppend
  <2>5. /\ \A f : In(f, Append(stored, e)) <=> In(f, stored) \/ f = e
        /\ \A f : In(f, Append(accepted, e)) <=> In(f, accepted) \/ f = e
    BY <1>2, InAppend
  <2>6. \A t \in Tasks : pub'[t] = pub[t] /\ outbox'[t] = outbox[t]
    BY <1>2, <1>4, <1>a
  <2>7. /\ stored' = stored \/ stored' = Append(stored, e)
        /\ accepted' = accepted \/ accepted' = Append(accepted, e)
    BY <1>b
  <2>8. /\ \A f : In(f, stored') => In(f, stored) \/ f = e
        /\ \A f : In(f, accepted') => In(f, accepted) \/ f = e
    BY <2>5, <2>7
  <2>9. \A f \in Events \ Manual : In(f, stored') \/ In(f, accepted') => f < nextSrc'
    BY <1>a, <2>2, <2>8 DEF OrderInv
  <2>10. \A t \in Tasks : pub'[t] \in Publishing =>
          /\ Newest' \in 1..MaxSource /\ outbox'[t] = <<Newest'>>
          /\ pub'[t] = "append" => ~In(Newest', stored')
          /\ ~In(Newest', accepted')
    <3>1. Newest' = Newest
      BY <1>a DEF Newest
    <3> QED
      BY <2>2, <2>6, <2>8, <3>1 DEF OrderInv
  <2> QED
    BY <1>c, <2>3, <2>4, <2>7, <2>9, <2>10 DEF OrderInv
<1> QED
  BY <1>3, <1>4 DEF Publishers

LEMMA OrderStep == TypeInv /\ OneFetch /\ OrderInv /\ [Next]_vars => OrderInv'
<1> SUFFICES ASSUME TypeInv, OneFetch, OrderInv, [Next]_vars PROVE OrderInv'
  OBVIOUS
<1>0. Tasks \subseteq Publishers /\ Manual \subseteq Publishers /\ Tasks \cap Manual = {}
  BY ListenerAssumption DEF Publishers
<1>1. ASSUME NEW t \in Tasks, PumpStep(t) PROVE OrderInv'
  BY <1>1, OrderFrame DEF PumpStep, pubVars, intake
<1>2. ASSUME NEW p \in Publishers, PublishStep(p) PROVE OrderInv'
  <2>1. CASE StoreAppend(p) \/ EnqueuePush(p)
    BY <2>1, OrderAppend
  <2>2. CASE StoreErr(p) \/ EnqueueReadClosed(p) \/ EnqueueNotify(p)
    <3>1. UNCHANGED <<nextSrc, stored, accepted>>
      BY <2>2 DEF StoreErr, EnqueueReadClosed, EnqueueNotify, intake
    <3>2. \A q \in Publishers \ {p} : pub'[q] = pub[q] /\ outbox'[q] = outbox[q]
      BY <2>2 DEF StoreErr, GivesUpAfterStoreErr, EnqueueReadClosed, EnqueueNotify, PubGo,
                  TypeInv, TypeOK
    <3>3. \/ pub'[p] \notin Publishing
          \/ pub[p] = "closed" /\ pub'[p] = "push" /\ outbox'[p] = outbox[p]
      BY <2>2 DEF StoreErr, GivesUpAfterStoreErr, EnqueueReadClosed, EnqueueNotify, PubGo,
                  AfterPublish, Publishing, TypeInv, TypeOK
    <3>4. outbox'[p] = outbox[p] \/ outbox'[p] = <<>>
      BY <2>2 DEF StoreErr, GivesUpAfterStoreErr, EnqueueReadClosed, EnqueueNotify, TypeInv, TypeOK
    <3> QED
      BY <1>0, <3>1, <3>2, <3>3, <3>4, OrderFrame DEF Publishing
  <2> QED
    BY <1>2, <2>1, <2>2 DEF PublishStep
<1>3. ASSUME NEW t \in Tasks, FetchLoop(t) \/ FetchNext(t) PROVE OrderInv'
  <2>0. UNCHANGED <<stored, accepted>>
    BY <1>3 DEF FetchLoop, FetchNext, Outside, intake
  <2>1. CASE FetchSome(t)
    BY <2>0, <2>1, OrderFetch
  <2>2. CASE FetchCheck(t) \/ FetchNothing(t)
    <3>1. UNCHANGED <<outbox, nextSrc>> /\ \A u \in Tasks \ {t} : pub'[u] = pub[u]
      BY <1>0, <2>2 DEF FetchCheck, FetchNothing, PubGo, TypeInv, TypeOK
    <3>2. pub'[t] \notin Publishing
      BY <1>0, <2>2 DEF FetchCheck, FetchNothing, PubGo, TypeInv, TypeOK, Publishing
    <3> QED
      BY <2>0, <3>1, <3>2, OrderFrame
  <2> QED
    BY <1>3, <2>1, <2>2 DEF FetchLoop, FetchNext
<1>4. ASSUME NEW m \in Manual, Call(m) PROVE OrderInv'
  <2>1. /\ UNCHANGED <<nextSrc, stored, accepted>> /\ outbox' = [outbox EXCEPT ![m] = <<m>>]
        /\ pub' = [pub EXCEPT ![m] = "append"]
    BY <1>4 DEF Call, CallPublish, PubGo, intake
  <2>2. \A q \in Publishers \ {m} : pub'[q] = pub[q] /\ outbox'[q] = outbox[q]
    BY <2>1 DEF TypeInv, TypeOK
  <2>3. outbox'[m] = <<m>>
    BY <1>0, <2>1 DEF TypeInv, TypeOK
  <2> QED
    BY <1>0, <2>1, <2>2, <2>3, OrderFrame
<1>5. ASSUME NEW c \in Controllers, ControlCall(c) \/ ControlStep(c) PROVE OrderInv'
  <2>1. UNCHANGED <<nextSrc, outbox, stored, accepted>>
    BY <1>5 DEF ControlCall, ControlStep, OutsideControl, intake
  <2>2. \A t \in Tasks : pub'[t] \in Publishing => pub'[t] = pub[t]
    BY <1>0, <1>5 DEF ControlCall, ControlStep, StartSwap, SpawnPump, StorePumpHandle, SpawnFetch,
                StartWithoutSource, StoreFetchHandle, StopSwap, ShutdownSetClosed,
                ShutdownNotify, TakePumpHandle, JoinPump, TakeFetchHandle, JoinFetch, Publishing
  <2> QED
    BY <2>1, <2>2, OrderFrame
<1>6. CASE Setup \/ UNCHANGED vars
  BY <1>6, OrderFrame DEF Setup, vars, pubVars, intake
<1> QED
  BY <1>1, <1>2, <1>3, <1>4, <1>5, <1>6 DEF Next

-----------------------------------------------------------------------------
(* What the sinks have seen is what was dispatched, and the event in hand   *)
(* as far as its dispatch has come.                                         *)

(* Where the event in a hand is among the accepted ones *)
LEMMA HandPosition ==
    ASSUME TypeInv, PipelineInv, NEW t \in Tasks, NEW e \in Events, hand[t] = <<e>>
    PROVE  \E k \in DOMAIN accepted :
             /\ accepted[k] = e
             /\ \A f : In(f, dispatched) => \E i \in DOMAIN accepted : i < k /\ accepted[i] = f
<1>1. PICK h \in Seq(Events) : Pipeline(h)
  BY DEF PipelineInv
<1>2. h = <<e>>
  <2>1. <<e>> # <<>>
    OBVIOUS
  <2> QED
    BY <1>1, <2>1 DEF Pipeline
<1>3. /\ dispatched \in Seq(Events) /\ items \in Seq(Events) /\ <<e>> \in Seq(Events)
      /\ dispatched \o <<e>> \in Seq(Events)
      /\ accepted = (dispatched \o <<e>>) \o items
  BY <1>1, <1>2, ConcatProperties DEF Pipeline, TypeInv, TypeOK
<1> DEFINE n == Len(dispatched)
           d == dispatched \o <<e>>
<1>4. d = Append(dispatched, e)
  BY <1>3, AppendIsConcat
<1>5. /\ Len(d) = n + 1 /\ n \in Nat /\ DOMAIN dispatched = 1..n
      /\ d[n + 1] = e /\ \A i \in 1..n : d[i] = dispatched[i]
  BY <1>3, <1>4, AppendProperties, LenProperties
<1>6. /\ Len(accepted) = Len(d) + Len(items) /\ accepted \in Seq(Events)
      /\ \A i \in 1..(Len(d) + Len(items)) : i <= Len(d) => accepted[i] = d[i]
      /\ Len(items) \in Nat /\ DOMAIN accepted = 1..Len(accepted)
  BY <1>3, ConcatProperties, LenProperties
<1> HIDE DEF d, n
<1>7. n + 1 \in DOMAIN accepted /\ accepted[n + 1] = e
  BY <1>5, <1>6
<1>8. \A i \in DOMAIN dispatched : i \in DOMAIN accepted /\ i < n + 1 /\ accepted[i] = dispatched[i]
  BY <1>5, <1>6
<1> QED
  BY <1>7, <1>8 DEF In

SeenInv ==
    /\ \A s \in Sinks, e \in Events : In(e, seen[s]) =>
          In(e, dispatched) \/ \E t \in Tasks : hand[t] = <<e>> /\ s < sinkIdx[t]
    /\ \A t \in Tasks, s \in Sinks, e \in Events : hand[t] = <<e>> /\ s < sinkIdx[t] =>
          seen[s] # <<>> /\ seen[s][Len(seen[s])] = e
    /\ \A s \in Sinks : Increasing(seen[s])

LEMMA SeenFrame ==
    ASSUME SeenInv, UNCHANGED <<dispatched, seen>>,
           \A t \in Tasks, s \in Sinks, e \in Events :
               hand'[t] = <<e>> /\ s < sinkIdx'[t] <=> hand[t] = <<e>> /\ s < sinkIdx[t]
    PROVE  SeenInv'
BY DEF SeenInv

(* An event that a sink is handed comes after all that it was handed.       *)
LEMMA HandedInOrder ==
    ASSUME TypeInv, OneHand, PipelineInv, SeenInv, NEW t \in Tasks, HandToSink(t)
    PROVE  \E e \in Events, k \in DOMAIN accepted :
             /\ hand[t] = <<e>> /\ sinkIdx[t] \in Sinks /\ accepted[k] = e
             /\ seen' = [seen EXCEPT ![sinkIdx[t]] = Append(seen[sinkIdx[t]], e)]
             /\ \A f \in Events : In(f, seen[sinkIdx[t]]) =>
                   \E i \in DOMAIN accepted : i < k /\ accepted[i] = f
<1>1. PICK e \in Events : hand[t] = <<e>>
  BY DEF HandToSink, TypeInv, HeldWhereNeeded
<1>2. PICK k \in DOMAIN accepted :
             /\ accepted[k] = e
             /\ \A f : In(f, dispatched) => \E i \in DOMAIN accepted : i < k /\ accepted[i] = f
  BY <1>1, HandPosition
<1>3. sinkIdx[t] \in Sinks
  <2>1. /\ sinkIdx[t] \in 0..(MaxSinks + 1) /\ sinks \in 0..MaxSinks
        /\ sinkIdx[t] > 0 /\ sinkIdx[t] <= sinks
    BY DEF HandToSink, SinkLeft, TypeInv, TypeOK
  <2> QED
    BY <2>1, ListenerAssumption DEF Sinks
<1>4. seen' = [seen EXCEPT ![sinkIdx[t]] = Append(seen[sinkIdx[t]], e)]
  <2>1. seen[sinkIdx[t]] \in Seq(Events)
    BY <1>3 DEF TypeInv, TypeOK
  <2>2. seen[sinkIdx[t]] \o <<e>> = Append(seen[sinkIdx[t]], e)
    BY <2>1, AppendIsConcat
  <2> QED
    BY <1>1, <2>2 DEF HandToSink
<1>5. ASSUME NEW f \in Events, In(f, seen[sinkIdx[t]]) PROVE In(f, dispatched)
  <2> SUFFICES ASSUME NEW u \in Tasks, hand[u] = <<f>>, sinkIdx[t] < sinkIdx[u] PROVE FALSE
    BY <1>3, <1>5 DEF SeenInv
  <2>1. hand[u] # <<>> /\ hand[t] # <<>>
    BY <1>1
  <2>2. u = t
    BY <2>1 DEF OneHand
  <2> QED
    BY <1>3, <2>2 DEF Sinks
<1> QED
  BY <1>1, <1>2, <1>3, <1>4, <1>5

(* the last element of an appended sequence *)
LEMMA LastAppended ==
    ASSUME NEW S, NEW s \in Seq(S), NEW x \in S
    PROVE  Append(s, x) # <<>> /\ Append(s, x)[Len(Append(s, x))] = x
BY AppendProperties

LEMMA SeenHand ==
    ASSUME TypeInv, OneHand, PipelineInv, OrderInv, SeenInv, NEW t \in Tasks, HandToSink(t)
    PROVE  SeenInv'
<1> DEFINE s == sinkIdx[t]
<1>1. PICK e \in Events, k \in DOMAIN accepted :
             /\ hand[t] = <<e>> /\ s \in Sinks /\ accepted[k] = e
             /\ seen' = [seen EXCEPT ![s] = Append(seen[s], e)]
             /\ \A f \in Events : In(f, seen[s]) =>
                   \E i \in DOMAIN accepted : i < k /\ accepted[i] = f
  BY HandedInOrder
<1>2. /\ seen[s] \in Seq(Events) /\ seen'[s] = Append(seen[s], e)
      /\ \A r \in Sinks \ {s} : seen'[r] = seen[r]
  BY <1>1 DEF TypeInv, TypeOK
<1>3. \A r \in Sinks, f \in Events : In(f, seen'[r]) <=> In(f, seen[r]) \/ (r = s /\ f = e)
  <2> SUFFICES ASSUME NEW r \in Sinks, NEW f \in Events
               PROVE  In(f, seen'[r]) <=> In(f, seen[r]) \/ (r = s /\ f = e)
    OBVIOUS
  <2>1. In(f, Append(seen[s], e)) <=> In(f, seen[s]) \/ f = e
    BY <1>2, InAppend
  <2>2. CASE r = s
    BY <1>2, <2>1, <2>2
  <2>3. CASE r # s
    <3>1. seen'[r] = seen[r]
      BY <1>2, <2>3
    <3> QED
      BY <2>3, <3>1
  <2> QED
    BY <2>2, <2>3
<1>4. \A u \in Tasks \ {t} : hand[u] = <<>>
  <2>1. hand[t] # <<>>
    BY <1>1
  <2> QED
    BY <2>1 DEF OneHand
<1>5. Increasing(seen'[s])
  <2>1. e \notin Manual => \A f \in Events \ Manual : In(f, seen[s]) => f < e
    BY <1>1 DEF OrderInv, Increasing
  <2> QED
    BY <1>1, <1>2, <2>1, IncreasingAppend DEF SeenInv
<1>6. \A r \in Sinks : Increasing(seen'[r])
  BY <1>2, <1>5 DEF SeenInv
<1>7. \A f : <<f>> # <<>> /\ (<<f>> = <<e>> => f = e)
  OBVIOUS
<1>8. \A r \in Sinks, f \in Events : In(f, seen[r]) =>
          In(f, dispatched) \/ (f = e /\ r < s)
  BY <1>1, <1>4, <1>7 DEF SeenInv
<1>9. CASE DispatchNextSink(t)
  <2>1. /\ UNCHANGED <<hand, dispatched>> /\ sinkIdx'[t] = s + 1
        /\ \A u \in Tasks \ {t} : sinkIdx'[u] = sinkIdx[u]
    BY <1>9 DEF DispatchNextSink, TypeInv, TypeOK
  <2>2. \A r \in Sinks : r < s + 1 <=> r < s \/ r = s
    BY <1>1 DEF Sinks
  <2>3. \A r \in Sinks, f \in Events : In(f, seen'[r]) =>
            In(f, dispatched') \/ \E u \in Tasks : hand'[u] = <<f>> /\ r < sinkIdx'[u]
    BY <1>1, <1>3, <1>8, <2>1, <2>2
  <2>4. ASSUME NEW u \in Tasks, NEW r \in Sinks, NEW f \in Events, hand'[u] = <<f>>, r < sinkIdx'[u]
        PROVE  seen'[r] # <<>> /\ seen'[r][Len(seen'[r])] = f
    <3>1. u = t /\ f = e
      BY <1>1, <1>4, <1>7, <2>1, <2>4
    <3>2. CASE r = s
      BY <1>2, <3>1, <3>2, LastAppended
    <3>3. CASE r # s
      BY <1>1, <1>2, <2>1, <2>2, <2>4, <3>1, <3>3 DEF SeenInv
    <3> QED
      BY <3>2, <3>3
  <2> QED
    BY <1>6, <2>3, <2>4 DEF SeenInv
<1>10. CASE AfterSinkErr(t)
  <2>1. /\ dispatched' = dispatched \o <<e>> /\ hand'[t] = <<>>
        /\ \A u \in Tasks \ {t} : hand'[u] = hand[u]
    BY <1>1, <1>10 DEF AfterSinkErr, FinishDispatch, TypeInv, TypeOK
  <2>2. \A u \in Tasks : hand'[u] = <<>>
    BY <1>4, <2>1
  <2>3. \A f \in Events : In(f, dispatched) \/ f = e => In(f, dispatched')
    <3>1. dispatched' = Append(dispatched, e) /\ dispatched \in Seq(Events)
      BY <2>1, AppendIsConcat DEF TypeInv, TypeOK
    <3> QED
      BY <3>1, InAppend
  <2> QED
    BY <1>3, <1>6, <1>7, <1>8, <2>2, <2>3 DEF SeenInv
<1> QED
  BY <1>9, <1>10 DEF HandToSink

LEMMA SeenStep ==
    TypeInv /\ OneHand /\ PipelineInv /\ DeliveryInv /\ OrderInv /\ SeenInv /\ [Next]_vars
        => SeenInv'
<1> SUFFICES ASSUME TypeInv, OneHand, PipelineInv, DeliveryInv, OrderInv, SeenInv, [Next]_vars
             PROVE  SeenInv'
  OBVIOUS
<1>0. \A r \in Sinks : ~(r < 0) /\ ~(r < 1)
  BY DEF Sinks
<1>1. ASSUME NEW t \in Tasks, PumpStep(t) PROVE SeenInv'
  <2>1. CASE HandToSink(t)
    BY <2>1, SeenHand
  <2>2. CASE DequeueSome(t)
    <3>1. /\ UNCHANGED <<dispatched, seen, sinkIdx>> /\ pump[t] # "dispatch"
          /\ \A u \in Tasks \ {t} : hand'[u] = hand[u]
      BY <2>2 DEF DequeueSome, PumpGo, delivery, TypeInv, TypeOK
    <3>2. sinkIdx[t] = 0
      BY <3>1 DEF DeliveryInv
    <3> QED
      BY <1>0, <3>1, <3>2, SeenFrame
  <2>3. CASE DispatchLock(t)
    <3>1. /\ UNCHANGED <<dispatched, seen, hand>> /\ sinkIdx[t] = 0 /\ sinkIdx'[t] = 1
          /\ \A u \in Tasks \ {t} : sinkIdx'[u] = sinkIdx[u]
      BY <2>3 DEF DispatchLock, delivery, TypeInv, TypeOK
    <3> QED
      BY <1>0, <3>1, SeenFrame
  <2>4. CASE DispatchEnd(t)
    <3>1. PICK e \in Events : hand[t] = <<e>>
      BY <2>4 DEF DispatchEnd, FinishDispatch, PumpGo, TypeInv, HeldWhereNeeded
    <3>2. /\ dispatched' = dispatched \o <<e>> /\ hand'[t] = <<>> /\ UNCHANGED seen
          /\ \A u \in Tasks \ {t} : hand'[u] = hand[u]
      BY <2>4, <3>1 DEF DispatchEnd, FinishDispatch, TypeInv, TypeOK
    <3>3. \A f : <<f>> # <<>> /\ (<<f>> = <<e>> => f = e)
      OBVIOUS
    <3>4. \A u \in Tasks \ {t} : hand[u] = <<>>
      <4>1. hand[t] # <<>>
        BY <3>1, <3>3
      <4> QED
        BY <4>1 DEF OneHand
    <3>5. \A f \in Events : In(f, dispatched') <=> In(f, dispatched) \/ f = e
      <4>1. dispatched' = Append(dispatched, e) /\ dispatched \in Seq(Events)
        BY <3>2, AppendIsConcat DEF TypeInv, TypeOK
      <4> QED
        BY <4>1, InAppend
    <3>6. \A u \in Tasks : hand'[u] = <<>>
      BY <3>2, <3>4
    <3>7. \A r \in Sinks, f \in Events : In(f, seen[r]) => In(f, dispatched) \/ f = e
      BY <3>1, <3>3, <3>4 DEF SeenInv
    <3> QED
      BY <3>2, <3>3, <3>5, <3>6, <3>7 DEF SeenInv
  <2>5. CASE PumpCheck(t) \/ DequeueReadClosed(t) \/ DequeueEmpty(t) \/ AwaitPermit(t)
             \/ AwaitPark(t) \/ AwaitWoken(t)
    BY <2>5, SeenFrame
       DEF PumpCheck, DequeueReadClosed, DequeueEmpty, AwaitPermit, AwaitPark, AwaitWoken, delivery
  <2> QED
    BY <1>1, <2>1, <2>2, <2>3, <2>4, <2>5 DEF PumpStep
<1>2. ASSUME NEW p \in Publishers, PublishStep(p) PROVE SeenInv'
  BY <1>2, SeenFrame DEF PublishStep, delivery, pumpVars
<1>3. ASSUME NEW t \in Tasks, FetchLoop(t) \/ FetchNext(t) PROVE SeenInv'
  BY <1>3, SeenFrame DEF FetchLoop, FetchNext, Outside, pumpVars, delivery
<1>4. ASSUME NEW m \in Manual, Call(m) PROVE SeenInv'
  BY <1>4, SeenFrame DEF Call, pumpVars, delivery
<1>5. ASSUME NEW c \in Controllers, ControlCall(c) \/ ControlStep(c) PROVE SeenInv'
  BY <1>5, SeenFrame DEF ControlCall, ControlStep, OutsideControl, delivery
<1>6. CASE Setup \/ UNCHANGED vars
  BY <1>6, SeenFrame DEF Setup, vars, pumpVars, delivery
<1> QED
  BY <1>1, <1>2, <1>3, <1>4, <1>5, <1>6 DEF Next

-----------------------------------------------------------------------------
(* All of it together, for a single caller                                 *)

Orderly ==
    /\ TypeInv /\ FetchNotSpawned /\ OwnedInv /\ PipelineInv
    /\ IntakeInv /\ DeliveryInv /\ OrderInv /\ SeenInv

LEMMA OrderlyInit == Init => Orderly
<1> SUFFICES ASSUME Init PROVE Orderly
  OBVIOUS
<1>1. TypeInv /\ FetchNotSpawned /\ OwnedInv /\ IntakeInv /\ DeliveryInv
  <2>1. FetchNotSpawned
    BY DEF Init, FetchNotSpawned, Starting, Publishers
  <2> QED
    BY <2>1, TypeInvInit, OwnedInit, IntakeInit
<1>2. PipelineInv
  <2>1. <<>> \in Seq(Events)
    OBVIOUS
  <2>2. <<>> = <<>> \o <<>> \o <<>>
    BY <2>1, ConcatEmptySeq
  <2> QED
    BY <2>1, <2>2 DEF Init, QueueInit, PipelineInv, Pipeline
<1>3. \A e : ~In(e, <<>>) /\ <<e>> # <<>>
  BY DEF In
<1>4. Increasing(<<>>)
  BY DEF Increasing
<1>5. OrderInv
  <2>1. \A p \in Publishers : pub[p] = "none" /\ outbox[p] = <<>>
    BY DEF Init
  <2>2. Tasks \subseteq Publishers /\ Manual \subseteq Publishers /\ "none" \notin Publishing
    BY DEF Publishers, Publishing
  <2>3. stored = <<>> /\ accepted = <<>>
    BY DEF Init
  <2> QED
    BY <1>3, <1>4, <2>1, <2>2, <2>3 DEF OrderInv
<1>6. SeenInv
  <2>1. \A t \in Tasks : hand[t] = <<>>
    BY DEF Init
  <2>2. \A s \in Sinks : seen[s] = <<>>
    BY DEF Init
  <2> QED
    BY <1>3, <1>4, <2>1, <2>2 DEF SeenInv
<1> QED
  BY <1>1, <1>2, <1>5, <1>6 DEF Orderly

LEMMA OrderlyStep == OneCaller /\ Orderly /\ [Next]_vars => Orderly'
<1>0. OneCaller => (TypeInv /\ OwnedInv => OneHand)'
  <2>1. ASSUME OneCaller PROVE (TypeInv /\ OwnedInv => OneHand)'
    <3>1. TypeInv /\ OwnedInv => OneHand
      BY <2>1, OwnedOneHand
    <3> QED
      BY <3>1, PTL
  <2> QED
    BY <2>1
<1> SUFFICES ASSUME OneCaller, Orderly, [Next]_vars PROVE Orderly'
  OBVIOUS
<1>1. TypeInv' /\ FetchNotSpawned' /\ OwnedInv'
  BY TypeInvStep, FetchNotSpawnedStep, OwnedStep DEF Orderly
<1>2. OneHand /\ OneFetch
  BY OwnedOneHand, OwnedOneFetch DEF Orderly
<1>3. OneHand'
  BY <1>0, <1>1
<1>4. PipelineInv' /\ IntakeInv' /\ DeliveryInv' /\ OrderInv' /\ SeenInv'
  BY <1>2, <1>3, PipelineStep, IntakeStep, DeliveryStep, OrderStep, SeenStep DEF Orderly
<1> QED
  BY <1>1, <1>4 DEF Orderly

(* With a single caller the events of the source keep the source's order in *)
(* the store, in the queue and at every sink, through every stop and        *)
(* restart (fetch_loop, publish, pump_loop and dispatch).                   *)
THEOREM SourceInOrder == OneCaller => (Spec => []SourceOrderKept)
<1>1. Orderly => SourceOrderKept
  BY DEF Orderly, OrderInv, SeenInv, SourceOrderKept
<1>2. ASSUME OneCaller PROVE Spec => []SourceOrderKept
  <2>1. Orderly /\ [Next]_vars => Orderly'
    BY <1>2, OrderlyStep
  <2> QED
    BY <1>1, <2>1, OrderlyInit, PTL DEF Spec
<1> QED
  BY <1>2

-----------------------------------------------------------------------------
(* The ordered feed.  A push is Publish, a call of a sink is Hand, and any  *)
(* other step leaves the feed as it is.                                     *)

LEMMA FeedPublish ==
    ASSUME Orderly, NEW p \in Publishers, EnqueuePush(p), UNCHANGED seen
    PROVE  Feed!Publish
<1>1. PICK e \in Events : outbox[p] = <<e>>
  BY DEF EnqueuePush, PubGo, Orderly, TypeInv, HeldWhereNeeded, Publishing
<1>2. accepted' = Append(accepted, e)
  BY <1>1, AppendIsConcat DEF EnqueuePush, Orderly, TypeInv, TypeOK
<1>3. \A i \in DOMAIN accepted : accepted[i] # e
  BY <1>1 DEF Orderly, IntakeInv, Carried, In
<1> QED
  BY <1>2, <1>3 DEF Feed!Publish

LEMMA FeedHand ==
    ASSUME Orderly, OneHand, NEW t \in Tasks, HandToSink(t), UNCHANGED accepted
    PROVE  \E s \in Sinks : Feed!Hand(s)
<1> DEFINE s == sinkIdx[t]
<1>1. PICK e \in Events, k \in DOMAIN accepted :
             /\ hand[t] = <<e>> /\ s \in Sinks /\ accepted[k] = e
             /\ seen' = [seen EXCEPT ![s] = Append(seen[s], e)]
             /\ \A f \in Events : In(f, seen[s]) =>
                   \E i \in DOMAIN accepted : i < k /\ accepted[i] = f
  BY HandedInOrder DEF Orderly
<1> HIDE DEF s
<1>2. Feed!Beyond(k, s)
  <2> SUFFICES ASSUME NEW i \in DOMAIN seen[s], NEW j \in DOMAIN accepted, accepted[j] = seen[s][i]
               PROVE  j < k
    BY DEF Feed!Beyond
  <2>1. seen[s][i] \in Events /\ In(seen[s][i], seen[s])
    BY <1>1 DEF Orderly, TypeInv, TypeOK, In
  <2>2. PICK l \in DOMAIN accepted : l < k /\ accepted[l] = seen[s][i]
    BY <1>1, <2>1
  <2>3. l = j
    BY <2>2 DEF Orderly, IntakeInv, Distinct
  <2> QED
    BY <2>2, <2>3
<1>3. s > 1 => seen[s - 1] # <<>> /\ seen[s - 1][Len(seen[s - 1])] = accepted[k]
  <2> SUFFICES ASSUME s > 1
               PROVE  seen[s - 1] # <<>> /\ seen[s - 1][Len(seen[s - 1])] = e
    BY <1>1
  <2>1. s - 1 \in Sinks /\ s - 1 < sinkIdx[t]
    BY <1>1, ListenerAssumption DEF Sinks, s
  <2> QED
    BY <1>1, <2>1 DEF Orderly, SeenInv
<1>4. Feed!Hand(s)
  BY <1>1, <1>2, <1>3 DEF Feed!Hand
<1> QED
  BY <1>1, <1>4

LEMMA FeedStep ==
    ASSUME Orderly, OneHand, [Next]_vars
    PROVE  [Feed!FeedNext]_<<accepted, seen>>
<1>1. ASSUME NEW t \in Tasks, PumpStep(t) PROVE [Feed!FeedNext]_<<accepted, seen>>
  <2>0. UNCHANGED accepted
    BY <1>1 DEF PumpStep, intake
  <2>1. CASE HandToSink(t)
    BY <2>0, <2>1, FeedHand DEF Feed!FeedNext
  <2>2. CASE PumpCheck(t) \/ DequeueReadClosed(t) \/ DequeueSome(t) \/ DequeueEmpty(t)
             \/ AwaitPermit(t) \/ AwaitPark(t) \/ AwaitWoken(t) \/ DispatchLock(t) \/ DispatchEnd(t)
    BY <2>0, <2>2
       DEF PumpCheck, DequeueReadClosed, DequeueSome, DequeueEmpty, AwaitPermit, AwaitPark,
           AwaitWoken, DispatchLock, DispatchEnd, delivery
  <2> QED
    BY <1>1, <2>1, <2>2 DEF PumpStep
<1>2. ASSUME NEW p \in Publishers, PublishStep(p) PROVE [Feed!FeedNext]_<<accepted, seen>>
  <2>0. UNCHANGED seen
    BY <1>2 DEF PublishStep, delivery
  <2>1. CASE EnqueuePush(p)
    BY <2>0, <2>1, FeedPublish DEF Feed!FeedNext
  <2>2. CASE StoreAppend(p) \/ StoreErr(p) \/ EnqueueReadClosed(p) \/ EnqueueNotify(p)
    BY <2>0, <2>2 DEF StoreAppend, StoreErr, EnqueueReadClosed, EnqueueNotify, intake
  <2> QED
    BY <1>2, <2>1, <2>2 DEF PublishStep
<1>3. ASSUME NEW t \in Tasks, FetchLoop(t) \/ FetchNext(t) PROVE UNCHANGED <<accepted, seen>>
  BY <1>3 DEF FetchLoop, FetchNext, Outside, intake, delivery
<1>4. ASSUME NEW m \in Manual, Call(m) PROVE UNCHANGED <<accepted, seen>>
  BY <1>4 DEF Call, CallPublish, intake, delivery
<1>5. ASSUME NEW c \in Controllers, ControlCall(c) \/ ControlStep(c)
      PROVE  UNCHANGED <<accepted, seen>>
  BY <1>5 DEF ControlCall, ControlStep, OutsideControl, intake, delivery
<1>6. CASE Setup \/ UNCHANGED vars
  BY <1>6 DEF Setup, vars, intake, delivery
<1> QED
  BY <1>1, <1>2, <1>3, <1>4, <1>5, <1>6 DEF Next

(* With a single caller the listener implements the ordered feed: whatever  *)
(* its tasks do, a sink is handed events of the queue's log in the log's    *)
(* order, each at most once, and a later sink only what the sink before it  *)
(* was handed last.                                                         *)
THEOREM FeedImplemented == OneCaller => (Spec => ImplementsOrderedFeed)
<1>1. Init => Feed!FeedInit
  BY DEF Init, Feed!FeedInit
<1>2. ASSUME OneCaller PROVE Spec => ImplementsOrderedFeed
  <2>1. Orderly /\ [Next]_vars => Orderly'
    BY <1>2, OrderlyStep
  <2>2. Orderly => OneHand
    BY <1>2, OwnedOneHand DEF Orderly
  <2>3. Orderly /\ OneHand /\ [Next]_vars => [Feed!FeedNext]_<<accepted, seen>>
    BY FeedStep
  <2> QED
    BY <1>1, <2>1, <2>2, <2>3, OrderlyInit, PTL DEF Spec, ImplementsOrderedFeed, Feed!FeedSpec
<1> QED
  BY <1>2
=============================================================================
