---------------------------- MODULE StorageProofs ----------------------------
(***************************************************************************)
(* Proofs about Storage, for any pools and file names, any number of       *)
(* events, crashes and failing saves.                                      *)
(***************************************************************************)
EXTENDS Storage, TLAPS

Absents == {Nothing, Junk}

SaverPcs == {"idle", "upsert", "create", "write", "unlinked"}

(* what each variable is made of *)
Shape ==
    /\ up \in BOOLEAN /\ crashes \in Nat /\ failures \in Nat
    /\ chain \in [Ids -> Nat]
    /\ repository \in [Ids -> Snapshots \cup {Nothing}]
    /\ disk \in [Files -> Snapshots \cup Absents]
    /\ saver \in [pc : SaverPcs, event : Nat, snapshot : Snapshots \cup {Nothing}]
    /\ resync \in [pc : {"idle", "list", "upsert"}, todo : SUBSET Files, found : Seq(Snapshots)]
    /\ kept \in [Files -> Snapshots \cup {Nothing}]
    /\ damaged \in SUBSET Files
    /\ excused \in [Ids -> SUBSET Nat]

(* a save under way is that of a whole snapshot, which has the event *)
Saving ==
    saver.pc # "idle" =>
        /\ saver.snapshot \in Snapshots /\ saver.snapshot.whole
        /\ saver.event \in 1..chain[saver.snapshot.id]
        /\ saver.event \in saver.snapshot.seen

TypeInv == Shape /\ Saving /\ TypeOK

-----------------------------------------------------------------------------
(* Snapshots *)

LEMMA SnapshotFields ==
    ASSUME NEW s \in Snapshots
    PROVE  /\ s.id \in Ids /\ s.whole \in BOOLEAN
           /\ s.seen \in SUBSET (1..MaxEvents[s.id])
           /\ s \notin Absents
<1>1. PICK i \in Ids : s \in [id : {i}, whole : BOOLEAN, seen : SUBSET (1..MaxEvents[i])]
  BY DEF Snapshots
<1>2. s.id = i /\ s.whole \in BOOLEAN /\ s.seen \in SUBSET (1..MaxEvents[i])
  BY <1>1
<1> QED
  BY <1>2, MarkersAssumption DEF Absents

LEMMA SnapshotMade ==
    ASSUME NEW i \in Ids, NEW w \in BOOLEAN, NEW n \in SUBSET (1..MaxEvents[i])
    PROVE  [id |-> i, whole |-> w, seen |-> n] \in Snapshots
<1>1. [id |-> i, whole |-> w, seen |-> n]
          \in [id : {i}, whole : BOOLEAN, seen : SUBSET (1..MaxEvents[i])]
  OBVIOUS
<1> QED
  BY <1>1 DEF Snapshots

LEMMA CutFields ==
    ASSUME NEW s \in Snapshots
    PROVE  Cut(s) \in Snapshots /\ Cut(s).id = s.id /\ ~Cut(s).whole /\ Cut(s).seen = {}
<1>1. PICK i \in Ids : s \in [id : {i}, whole : BOOLEAN, seen : SUBSET (1..MaxEvents[i])]
  BY DEF Snapshots
<1>2. Cut(s) = [id |-> i, whole |-> FALSE, seen |-> {}] /\ s.id = i
  BY <1>1 DEF Cut
<1>3. [id |-> i, whole |-> FALSE, seen |-> {}] \in Snapshots
  BY SnapshotMade
<1> QED
  BY <1>2, <1>3

-----------------------------------------------------------------------------
(* Types *)

LEMMA InitTypes == Init => TypeInv
<1> SUFFICES ASSUME Init PROVE TypeInv
  OBVIOUS
<1> USE StorageAssumption DEF Init
<1>1. Shape
  BY DEF Shape, Absents, Idle, Done, SaverPcs
<1>2. Saving
  BY DEF Saving, Idle
<1>3. TypeOK
  <2>1. resync.found \in Seq(Snapshots) /\ resync.pc = "idle" /\ resync.todo \subseteq Files
    BY DEF Done
  <2>2. saver.pc = "idle"
    BY DEF Idle
  <2> QED
    BY <2>1, <2>2 DEF TypeOK
<1> QED
  BY <1>1, <1>2, <1>3 DEF TypeInv

(* What a step does to the variables that TypeOK speaks of, when their      *)
(* shape is known                                                           *)
LEMMA EventTypes == ASSUME TypeInv, NEW id \in Ids, Event(id) PROVE TypeInv'
<1> DEFINE n == chain[id] + 1
           taken == up /\ saver.pc = "idle" /\ (n = 1 \/ Usable(id))
           seen == IF n = 1 THEN {} ELSE repository[id].seen
           made == Snapshot(id, seen \cup {n})
<1>0. Shape /\ Saving /\ TypeOK
  BY DEF TypeInv
<1>1. n \in 1..MaxEvents[id] /\ chain[id] \in Nat /\ MaxEvents[id] \in Nat
  BY <1>0, StorageAssumption DEF Event, Shape
<1>2. chain' = [chain EXCEPT ![id] = n] /\ chain' \in [Ids -> Nat] /\ chain'[id] = n
  BY <1>0, <1>1 DEF Event, Shape
<1>3. ASSUME taken PROVE made \in Snapshots /\ made.whole /\ made.id = id /\ n \in made.seen
  <2>1. seen \in SUBSET (1..MaxEvents[id])
    <3>1. CASE n = 1
      BY <3>1
    <3>2. CASE n # 1
      <4>1. repository[id] \in Snapshots /\ repository[id].id = id
        BY <1>0, <1>3, <3>2 DEF Usable, Shape, TypeOK
      <4> QED
        BY <3>2, <4>1, SnapshotFields
    <3> QED
      BY <3>1, <3>2
  <2>2. seen \cup {n} \in SUBSET (1..MaxEvents[id])
    BY <2>1, <1>1
  <2> QED
    BY <2>2, SnapshotMade DEF Snapshot
<1>4. saver' = IF taken THEN [pc |-> "upsert", event |-> n, snapshot |-> made] ELSE saver
  BY DEF Event
<1>5. excused' = IF taken /\ resync.pc = "idle" THEN excused
                 ELSE [excused EXCEPT ![id] = @ \cup {n}]
  BY DEF Event
<1>6. UNCHANGED <<up, crashes, failures, repository, disk, resync, kept, damaged>>
      /\ restored' = "no"
  BY DEF Event
<1> HIDE DEF n, taken, seen, made
<1>7. Shape'
  <2>1. saver' \in [pc : SaverPcs, event : Nat, snapshot : Snapshots \cup {Nothing}]
    BY <1>0, <1>1, <1>3, <1>4 DEF Shape, SaverPcs
  <2>2. excused' \in [Ids -> SUBSET Nat]
    BY <1>0, <1>1, <1>5 DEF Shape
  <2> QED
    BY <1>0, <1>2, <1>6, <2>1, <2>2 DEF Shape
<1>8. Saving'
  <2>1. CASE taken
    BY <1>1, <1>2, <1>3, <1>4, <2>1 DEF Saving
  <2>2. CASE ~taken
    <3>1. saver' = saver
      BY <1>4, <2>2
    <3>2. \A i \in Ids : \A e \in 1..chain[i] : e \in 1..chain'[i]
      BY <1>0, <1>1, <1>2 DEF Shape, n
    <3>3. saver.snapshot \in Snapshots => saver.snapshot.id \in Ids
      BY SnapshotFields
    <3> QED
      BY <1>0, <3>1, <3>2, <3>3 DEF Saving
  <2> QED
    BY <2>1, <2>2
<1>9. TypeOK'
  <2>1. \A i \in Ids : chain'[i] \in 0..MaxEvents[i]
    <3>1. \A i \in Ids \ {id} : chain'[i] = chain[i]
      BY <1>0, <1>2 DEF Shape
    <3>2. \A i \in Ids : chain[i] \in 0..MaxEvents[i]
      BY <1>0 DEF TypeOK
    <3> QED
      BY <1>1, <1>2, <3>1, <3>2
  <2>2. \A i \in Ids : excused'[i] \subseteq 1..chain'[i]
    <3>1. \A i \in Ids : 1..chain[i] \subseteq 1..chain'[i]
      BY <1>0, <1>1, <1>2 DEF Shape, n
    <3>2. n \in 1..chain'[id]
      BY <1>1, <1>2
    <3>3. \A i \in Ids : excused[i] \subseteq 1..chain[i]
      BY <1>0 DEF TypeOK
    <3>4. CASE excused' = excused
      BY <3>1, <3>3, <3>4
    <3>5. CASE excused' = [excused EXCEPT ![id] = @ \cup {n}]
      BY <1>0, <3>1, <3>2, <3>3, <3>5 DEF Shape
    <3> QED
      BY <1>5, <3>4, <3>5
  <2>3. /\ saver'.pc \in SaverPcs
        /\ saver'.pc # "idle" => saver'.snapshot.whole
    BY <1>7, <1>8 DEF Shape, Saving
  <2> QED
    BY <1>0, <1>6, <2>1, <2>2, <2>3 DEF TypeOK, SaverPcs
<1> QED
  BY <1>7, <1>8, <1>9 DEF TypeInv

(* the event in hand is one that has come *)
LEMMA ExcuseTypes ==
    ASSUME TypeInv, Excuse(TRUE)
    PROVE  /\ excused' \in [Ids -> SUBSET Nat]
           /\ \A i \in Ids : excused'[i] \subseteq 1..chain[i]
<1>0. Shape /\ Saving /\ TypeOK
  BY DEF TypeInv
<1>1. \A i \in Ids : excused[i] \subseteq 1..chain[i]
  BY <1>0 DEF TypeOK
<1>2. CASE saver.pc = "idle"
  BY <1>0, <1>1, <1>2 DEF Excuse, Shape
<1>3. CASE saver.pc # "idle"
  <2>1. saver.snapshot.id \in Ids /\ saver.event \in 1..chain[saver.snapshot.id]
    BY <1>0, <1>3, SnapshotFields DEF Saving
  <2>2. excused' = [excused EXCEPT ![saver.snapshot.id] = @ \cup {saver.event}]
    BY <1>3 DEF Excuse
  <2>3. chain[saver.snapshot.id] \in Nat
    BY <1>0, <2>1 DEF Shape
  <2> QED
    BY <1>0, <1>1, <2>1, <2>2, <2>3 DEF Shape
<1> QED
  BY <1>2, <1>3

(* the path of a save under way is that of its pool *)
LEMMA SavedPath ==
    ASSUME TypeInv, saver.pc # "idle"
    PROVE  /\ saver.snapshot \in Snapshots /\ saver.snapshot.id \in Ids
           /\ Path \in Files /\ Path = SnapshotPath[saver.snapshot.id]
<1>1. saver.snapshot \in Snapshots
  BY DEF TypeInv, Saving
<1> QED
  BY <1>1, SnapshotFields, StorageAssumption DEF Path

LEMMA SaverTypes ==
    ASSUME TypeInv,
           \/ PersistUpsert \/ SaveCreate \/ SaveWrite
           \/ SaveFlush \/ SaveToUnlinked \/ SaveFails
    PROVE  TypeInv'
<1>0. Shape /\ Saving /\ TypeOK
  BY DEF TypeInv
<1>1. saver.pc # "idle" /\ saver.snapshot \in Snapshots /\ saver.snapshot.whole
  BY <1>0 DEF PersistUpsert, SaveCreate, SaveWrite, SaveFlush, Written, SaveToUnlinked, SaveFails,
              At, Saving
<1>2. saver.snapshot.id \in Ids /\ Path \in Files /\ Path = SnapshotPath[saver.snapshot.id]
  BY <1>1, SavedPath
<1>3. UNCHANGED <<up, chain, crashes, resync, restored>>
  BY DEF PersistUpsert, SaveCreate, SaveWrite, SaveFlush, SaveToUnlinked, SaveFails, process, history
<1>4. ASSUME NEW pc \in SaverPcs, Go(pc)
      PROVE  /\ saver' \in [pc : SaverPcs, event : Nat, snapshot : Snapshots \cup {Nothing}]
             /\ saver'.snapshot = saver.snapshot /\ saver'.event = saver.event
  BY <1>0, <1>4 DEF Go, Shape
<1>5. /\ Idle \in [pc : SaverPcs, event : Nat, snapshot : Snapshots \cup {Nothing}]
      /\ Idle.pc = "idle"
  BY DEF Idle, SaverPcs
<1>6. CASE PersistUpsert
  <2>1. Go("create") /\ UNCHANGED <<disk, failures, kept, damaged, excused>>
    BY <1>6 DEF PersistUpsert, process, history
  <2>2. repository' = [repository EXCEPT ![saver.snapshot.id] = saver.snapshot]
    BY <1>6 DEF PersistUpsert, Upsert
  <2>3. repository' \in [Ids -> Snapshots \cup {Nothing}]
    BY <1>0, <1>1, <2>2 DEF Shape
  <2>4. Shape'
    BY <1>0, <1>3, <1>4, <2>1, <2>3 DEF Shape, SaverPcs
  <2>5. Saving'
    BY <1>0, <1>1, <1>3, <1>4, <2>1 DEF Saving, SaverPcs
  <2>6. \A i \in Ids : repository'[i] # Nothing =>
            repository'[i] \in Snapshots /\ repository'[i].id = i
    BY <1>0, <1>1, <1>2, <2>2 DEF Shape, TypeOK
  <2> QED
    BY <1>0, <1>3, <2>1, <2>4, <2>5, <2>6 DEF TypeInv, TypeOK, Shape, Saving, SaverPcs
<1>7. CASE SaveCreate
  <2>1. /\ Go("write") /\ UNCHANGED <<repository, failures, kept, excused>>
        /\ disk' = [disk EXCEPT ![Path] = Junk] /\ damaged' = damaged \cup {Path}
    BY <1>7 DEF SaveCreate, process
  <2>2. disk' \in [Files -> Snapshots \cup Absents] /\ damaged' \in SUBSET Files
    BY <1>0, <1>2, <2>1 DEF Shape, Absents
  <2>3. Shape'
    BY <1>0, <1>3, <1>4, <2>1, <2>2 DEF Shape, SaverPcs
  <2>4. Saving'
    BY <1>0, <1>1, <1>3, <1>4, <2>1 DEF Saving, SaverPcs
  <2>5. \A f \in Files : disk'[f] \notin {Nothing, Junk} =>
            disk'[f] \in Snapshots /\ SnapshotPath[disk'[f].id] = f
    BY <1>0, <1>2, <2>1 DEF Shape, TypeOK
  <2> QED
    BY <1>0, <1>3, <2>1, <2>3, <2>4, <2>5 DEF TypeInv, TypeOK, Shape, Saving, SaverPcs
<1>8. CASE SaveWrite
  <2>1. UNCHANGED <<repository, failures, saver, kept, damaged, excused>>
    BY <1>8 DEF SaveWrite, process, history
  <2>2. PICK content \in {Cut(saver.snapshot), saver.snapshot} :
            disk' = [disk EXCEPT ![Path] = content]
    BY <1>8 DEF SaveWrite
  <2>3. content \in Snapshots /\ content.id = saver.snapshot.id
    BY <1>1, CutFields
  <2>4. disk' \in [Files -> Snapshots \cup Absents]
    BY <1>0, <1>2, <2>2, <2>3 DEF Shape
  <2>5. \A f \in Files : disk'[f] \notin {Nothing, Junk} =>
            disk'[f] \in Snapshots /\ SnapshotPath[disk'[f].id] = f
    BY <1>0, <1>2, <2>2, <2>3 DEF Shape, TypeOK
  <2>6. Shape' /\ Saving'
    BY <1>0, <1>3, <2>1, <2>4 DEF Shape, Saving
  <2> QED
    BY <1>0, <1>3, <2>1, <2>5, <2>6 DEF TypeInv, TypeOK
<1>9. CASE SaveFlush
  <2>1. /\ saver' = Idle /\ UNCHANGED <<repository, failures, disk, excused>>
        /\ kept' = [kept EXCEPT ![Path] = saver.snapshot] /\ damaged' = damaged \ {Path}
    BY <1>9 DEF SaveFlush, process
  <2>2. kept' \in [Files -> Snapshots \cup {Nothing}] /\ damaged' \in SUBSET Files
    BY <1>0, <1>1, <1>2, <2>1 DEF Shape
  <2>3. Shape' /\ Saving'
    BY <1>0, <1>3, <1>5, <2>1, <2>2 DEF Shape, Saving
  <2> QED
    BY <1>0, <1>3, <1>5, <2>1, <2>2, <2>3 DEF TypeInv, TypeOK
<1>10. CASE SaveToUnlinked \/ SaveFails
  <2>1. /\ saver' = Idle /\ Excuse(TRUE) /\ UNCHANGED <<repository, disk, kept, damaged>>
        /\ \/ failures' = failures
           \/ failures < MaxFailures /\ failures' = failures + 1
    BY <1>10 DEF SaveToUnlinked, SaveFails, process
  <2>2. /\ excused' \in [Ids -> SUBSET Nat]
        /\ \A i \in Ids : excused'[i] \subseteq 1..chain'[i]
    BY <1>3, <2>1, ExcuseTypes
  <2>3. failures' \in Nat /\ failures' \in 0..MaxFailures
    <3>1. failures \in Nat /\ failures \in 0..MaxFailures /\ MaxFailures \in Nat
      BY <1>0, StorageAssumption DEF Shape, TypeOK
    <3> QED
      BY <2>1, <3>1
  <2>4. Shape' /\ Saving'
    BY <1>0, <1>3, <1>5, <2>1, <2>2, <2>3 DEF Shape, Saving
  <2> QED
    BY <1>0, <1>3, <1>5, <2>1, <2>2, <2>3, <2>4 DEF TypeInv, TypeOK
<1> QED
  BY <1>6, <1>7, <1>8, <1>9, <1>10

LEMMA ResyncTypes ==
    ASSUME TypeInv, ResyncBegin \/ ResyncList \/ ResyncUpsert \/ ResyncEnd
    PROVE  TypeInv'
<1>0. Shape /\ Saving /\ TypeOK
  BY DEF TypeInv
<1>1. UNCHANGED <<up, chain, crashes, failures, disk, saver, kept, damaged>>
  BY DEF ResyncBegin, ResyncList, ResyncUpsert, ResyncEnd, process, history
<1>2. Saving'
  BY <1>0, <1>1 DEF Saving
<1> DEFINE Resyncs == [pc : {"idle", "list", "upsert"}, todo : SUBSET Files, found : Seq(Snapshots)]
<1>3. CASE ResyncBegin
  <2>1. /\ resync' = [pc |-> "list", todo |-> {f \in Files : disk[f] # Nothing}, found |-> <<>>]
        /\ Excuse(TRUE) /\ repository' = repository /\ restored' \in {"so far", "no"}
    BY <1>3 DEF ResyncBegin
  <2>2. resync' \in Resyncs
    <3>1. {f \in Files : disk[f] # Nothing} \in SUBSET Files /\ <<>> \in Seq(Snapshots)
      OBVIOUS
    <3> QED
      BY <2>1, <3>1
  <2>3. /\ excused' \in [Ids -> SUBSET Nat]
        /\ \A i \in Ids : excused'[i] \subseteq 1..chain'[i]
    BY <1>1, <2>1, ExcuseTypes
  <2>4. Shape'
    BY <1>0, <1>1, <2>1, <2>2, <2>3 DEF Shape
  <2> QED
    BY <1>0, <1>1, <1>2, <2>1, <2>2, <2>3, <2>4 DEF TypeInv, TypeOK
<1>4. CASE ResyncList
  <2>1. UNCHANGED <<repository, excused, restored>>
    BY <1>4 DEF ResyncList, history
  <2>2. resync' \in Resyncs
    <3>1. CASE resync.todo = {}
      BY <1>0, <1>4, <3>1 DEF ResyncList, Shape
    <3>2. CASE resync.todo # {}
      <4>1. PICK f \in resync.todo : resync' = Listed(disk[f], resync.found, resync.todo \ {f})
        BY <1>4, <3>2 DEF ResyncList
      <4>2. /\ f \in Files /\ disk[f] \in Snapshots \cup Absents
            /\ resync.found \in Seq(Snapshots) /\ resync.todo \in SUBSET Files
        BY <1>0, <4>1 DEF Shape
      <4>3. disk[f] \notin {Nothing, Junk} => Append(resync.found, disk[f]) \in Seq(Snapshots)
        BY <4>2 DEF Absents
      <4> QED
        BY <4>1, <4>2, <4>3 DEF Listed
    <3> QED
      BY <3>1, <3>2
  <2>3. Shape'
    BY <1>0, <1>1, <2>1, <2>2 DEF Shape
  <2> QED
    BY <1>0, <1>1, <1>2, <2>1, <2>2, <2>3 DEF TypeInv, TypeOK
<1>5. CASE ResyncUpsert
  <2>1. /\ UNCHANGED <<excused, restored>> /\ resync.found # <<>>
        /\ repository' = [repository EXCEPT ![Head(resync.found).id] = Head(resync.found)]
        /\ resync' = [resync EXCEPT !.found = Tail(@)]
    BY <1>5 DEF ResyncUpsert, history
  <2>2. resync.found \in Seq(Snapshots)
    BY <1>0 DEF Shape
  <2>3. Head(resync.found) \in Snapshots /\ Tail(resync.found) \in Seq(Snapshots)
    BY <2>1, <2>2
  <2>4. Head(resync.found).id \in Ids
    BY <2>3, SnapshotFields
  <2>5. resync' \in Resyncs
    BY <1>0, <2>1, <2>3 DEF Shape
  <2>6. /\ repository' \in [Ids -> Snapshots \cup {Nothing}]
        /\ \A i \in Ids : repository'[i] # Nothing =>
              repository'[i] \in Snapshots /\ repository'[i].id = i
    BY <1>0, <2>1, <2>3, <2>4 DEF Shape, TypeOK
  <2>7. Shape'
    BY <1>0, <1>1, <2>1, <2>5, <2>6 DEF Shape
  <2> QED
    BY <1>0, <1>1, <1>2, <2>1, <2>5, <2>6, <2>7 DEF TypeInv, TypeOK
<1>6. CASE ResyncEnd
  <2>1. /\ UNCHANGED <<repository, excused>> /\ resync' = Done /\ restored' \in {"yes", "no"}
    BY <1>6 DEF ResyncEnd
  <2>2. resync' \in Resyncs
    BY <2>1 DEF Done
  <2>3. Shape'
    BY <1>0, <1>1, <2>1, <2>2 DEF Shape
  <2> QED
    BY <1>0, <1>1, <1>2, <2>1, <2>2, <2>3 DEF TypeInv, TypeOK
<1> QED
  BY <1>3, <1>4, <1>5, <1>6

LEMMA OtherTypes ==
    ASSUME TypeInv, (\E id \in Ids : Remove(id)) \/ Crash \/ Restart
    PROVE  TypeInv'
<1>0. Shape /\ Saving /\ TypeOK
  BY DEF TypeInv
<1>1. ASSUME NEW id \in Ids, Remove(id) PROVE TypeInv'
  <2> DEFINE f == SnapshotPath[id]
  <2>1. /\ UNCHANGED <<up, chain, crashes, failures, repository, resync, excused>>
        /\ disk' = [disk EXCEPT ![f] = Nothing] /\ kept' = [kept EXCEPT ![f] = Nothing]
        /\ damaged' = damaged \ {f} /\ restored' = "no"
        /\ \/ Go("unlinked") /\ saver.pc = "write"
           \/ saver' = saver
    BY <1>1 DEF Remove, process
  <2>2. f \in Files
    BY StorageAssumption
  <2> HIDE DEF f
  <2>3. /\ disk' \in [Files -> Snapshots \cup Absents]
        /\ kept' \in [Files -> Snapshots \cup {Nothing}] /\ damaged' \in SUBSET Files
        /\ \A g \in Files : disk'[g] \notin {Nothing, Junk} =>
              disk'[g] \in Snapshots /\ SnapshotPath[disk'[g].id] = g
    BY <1>0, <2>1, <2>2 DEF Shape, TypeOK, Absents
  <2>4. /\ saver' \in [pc : SaverPcs, event : Nat, snapshot : Snapshots \cup {Nothing}]
        /\ saver'.snapshot = saver.snapshot /\ saver'.event = saver.event
        /\ saver'.pc # "idle" => saver.pc # "idle"
    BY <1>0, <2>1 DEF Go, Shape, SaverPcs
  <2>5. Shape' /\ Saving'
    BY <1>0, <2>1, <2>3, <2>4 DEF Shape, Saving
  <2> QED
    BY <1>0, <2>1, <2>3, <2>4, <2>5 DEF TypeInv, TypeOK, Shape, Saving, SaverPcs
<1>2. CASE Crash
  <2>1. /\ crashes' = crashes + 1 /\ crashes < MaxCrashes /\ up' = FALSE
        /\ repository' = [id \in Ids |-> Nothing] /\ saver' = Idle /\ resync' = Done
        /\ Excuse(TRUE) /\ restored' = "no" /\ UNCHANGED <<chain, failures, disk, kept, damaged>>
    BY <1>2 DEF Crash
  <2>2. /\ excused' \in [Ids -> SUBSET Nat]
        /\ \A i \in Ids : excused'[i] \subseteq 1..chain'[i]
    BY <2>1, ExcuseTypes
  <2>3. crashes' \in Nat /\ crashes' \in 0..MaxCrashes
    <3>1. crashes \in Nat /\ crashes \in 0..MaxCrashes /\ MaxCrashes \in Nat
      BY <1>0, StorageAssumption DEF Shape, TypeOK
    <3> QED
      BY <2>1, <3>1
  <2>4. saver'.pc = "idle" /\ resync'.found \in Seq(Snapshots)
        /\ resync'.pc = "idle" /\ resync'.todo = {}
    BY <2>1 DEF Idle, Done
  <2>5. Shape' /\ Saving'
    <3>1. Idle \in [pc : SaverPcs, event : Nat, snapshot : Snapshots \cup {Nothing}]
      BY DEF Idle, SaverPcs
    <3>2. Done \in [pc : {"idle", "list", "upsert"}, todo : SUBSET Files, found : Seq(Snapshots)]
      <4>1. {} \in SUBSET Files /\ <<>> \in Seq(Snapshots)
        OBVIOUS
      <4> QED
        BY <4>1 DEF Done
    <3>3. repository' \in [Ids -> Snapshots \cup {Nothing}]
      BY <2>1
    <3> QED
      BY <1>0, <2>1, <2>2, <2>3, <2>4, <3>1, <3>2, <3>3 DEF Shape, Saving
  <2> QED
    BY <1>0, <2>1, <2>2, <2>3, <2>4, <2>5 DEF TypeInv, TypeOK
<1>3. CASE Restart
  <2>1. up' = TRUE /\ UNCHANGED <<chain, crashes, failures, repository, disk, saver, resync,
                                  kept, damaged, excused, restored>>
    BY <1>3 DEF Restart, history
  <2>2. Shape' /\ Saving'
    BY <1>0, <2>1 DEF Shape, Saving
  <2> QED
    BY <1>0, <2>1, <2>2 DEF TypeInv, TypeOK
<1> QED
  BY <1>1, <1>2, <1>3

LEMMA StepTypes == TypeInv /\ [Next]_vars => TypeInv'
<1> SUFFICES ASSUME TypeInv, [Next]_vars PROVE TypeInv'
  OBVIOUS
<1>1. CASE Next
  BY <1>1, EventTypes, SaverTypes, ResyncTypes, OtherTypes DEF Next
<1>2. CASE UNCHANGED vars
  BY <1>2 DEF vars, process, history, TypeInv, Shape, Saving, TypeOK
<1> QED
  BY <1>1, <1>2

-----------------------------------------------------------------------------
(* What has become of each event.  A snapshot accounts for the events of    *)
(* its pool if it has them, if they are in hand, or if they are excused.    *)
(* For the repository this is LostIsExplained; it is inductive together     *)
(* with the same of the save under way, of the files, and of what a resync  *)
(* has read, by when every event in hand is excused.                        *)

Accounted(s, also, c, x) == \A e \in 1..c[s.id] : e \in s.seen \/ e \in also \/ e \in x[s.id]

Pending(id) == IF saver.pc # "idle" /\ saver.snapshot.id = id THEN {saver.event} ELSE {}

DownInv ==
    ~up => saver.pc = "idle" /\ resync.pc = "idle" /\ \A i \in Ids : repository[i] = Nothing

SaverInv == saver.pc # "idle" => Accounted(saver.snapshot, {}, chain, excused)

RepoInv == \A i \in Ids : Usable(i) => Accounted(repository[i], InHand(i), chain, excused)

DiskInv ==
    \A f \in Files : disk[f] \in Snapshots /\ disk[f].whole =>
        Accounted(disk[f], Pending(disk[f].id), chain, excused)

ResyncInv ==
    resync.pc # "idle" =>
        /\ \A i \in Ids : Pending(i) \subseteq excused[i]
        /\ \A k \in DOMAIN resync.found : resync.found[k].whole =>
              Accounted(resync.found[k], {}, chain, excused)

LossInv == DownInv /\ SaverInv /\ RepoInv /\ DiskInv /\ ResyncInv

LEMMA Keeps ==
    ASSUME NEW s, NEW a, NEW b, NEW c, NEW x, NEW y, Accounted(s, a, c, x),
           x[s.id] \subseteq y[s.id], a \subseteq b \cup y[s.id]
    PROVE  Accounted(s, b, c, y)
BY DEF Accounted

LEMMA ExcuseCovers ==
    ASSUME TypeInv, Excuse(TRUE)
    PROVE  \A i \in Ids : excused[i] \subseteq excused'[i] /\ Pending(i) \subseteq excused'[i]
<1>1. CASE saver.pc = "idle"
  BY <1>1 DEF Excuse, Pending
<1>2. CASE saver.pc # "idle"
  <2>1. excused' = [excused EXCEPT ![saver.snapshot.id] = @ \cup {saver.event}]
    BY <1>2 DEF Excuse
  <2> QED
    BY <1>2, <2>1 DEF Pending, TypeInv, Shape
<1> QED
  BY <1>1, <1>2

LEMMA EventLoss ==
    ASSUME TypeInv, TypeInv', LossInv, NEW id \in Ids, Event(id)
    PROVE  LossInv'
<1> DEFINE n == chain[id] + 1
           taken == up /\ saver.pc = "idle" /\ (n = 1 \/ Usable(id))
           seen == IF n = 1 THEN {} ELSE repository[id].seen
           made == Snapshot(id, seen \cup {n})
<1>0. Shape /\ Saving /\ TypeOK /\ DownInv /\ SaverInv /\ RepoInv /\ DiskInv /\ ResyncInv
  BY DEF TypeInv, LossInv
<1>1. /\ n \in Nat /\ chain[id] \in Nat /\ chain' = [chain EXCEPT ![id] = n]
      /\ chain'[id] = n /\ \A i \in Ids \ {id} : chain'[i] = chain[i]
  BY <1>0 DEF Event, Shape
<1>2. saver' = IF taken THEN [pc |-> "upsert", event |-> n, snapshot |-> made] ELSE saver
  BY DEF Event
<1>3. excused' = IF taken /\ resync.pc = "idle" THEN excused
                 ELSE [excused EXCEPT ![id] = @ \cup {n}]
  BY DEF Event
<1>4. UNCHANGED <<up, repository, disk, resync>>
  BY DEF Event
<1>5. made.id = id /\ made.seen = seen \cup {n} /\ made.whole
  BY DEF Snapshot
<1>6. /\ \A i \in Ids : excused[i] \subseteq excused'[i]
      /\ ~(taken /\ resync.pc = "idle") => n \in excused'[id]
  BY <1>0, <1>3 DEF Shape
<1>7. \A e \in 1..n : e = n \/ e \in 1..chain[id]
  BY <1>1
<1>8. n = 1 => 1..chain[id] = {}
  BY <1>1
<1>9. taken => saver.pc = "idle" /\ (n = 1 \/ Usable(id))
  OBVIOUS
<1>10. seen = IF n = 1 THEN {} ELSE repository[id].seen
  OBVIOUS
<1>11. ~taken \/ up
  OBVIOUS
<1> HIDE DEF n, taken, seen, made
(* a snapshot that accounted for the events before accounts for this one too *)
<1>12. ASSUME NEW s \in Snapshots, NEW a, NEW b, Accounted(s, a, chain, excused), a \subseteq b,
              s.id = id => n \in b \cup excused'[id]
       PROVE  Accounted(s, b, chain', excused')
  <2>1. s.id \in Ids
    BY SnapshotFields
  <2>2. CASE s.id = id
    BY <1>1, <1>6, <1>7, <1>12, <2>2 DEF Accounted
  <2>3. CASE s.id # id
    BY <1>1, <1>6, <1>12, <2>1, <2>3 DEF Accounted
  <2> QED
    BY <2>2, <2>3
<1>13. DownInv'
  BY <1>0, <1>2, <1>4, <1>11 DEF DownInv
<1>14. SaverInv'
  <2>1. CASE taken
    <3>1. \A e \in 1..chain[id] : e \in seen \/ e \in excused[id]
      <4>1. CASE n = 1
        BY <1>8, <4>1
      <4>2. CASE n # 1
        <5>1. Usable(id) /\ InHand(id) = {}
          BY <1>9, <2>1, <4>2 DEF InHand
        <5>2. Accounted(repository[id], {}, chain, excused) /\ repository[id].id = id
          BY <1>0, <5>1 DEF RepoInv, Usable, TypeOK
        <5> QED
          BY <1>10, <4>2, <5>2 DEF Accounted
      <4> QED
        BY <4>1, <4>2
    <3>2. Accounted(made, {}, chain', excused')
      BY <1>1, <1>5, <1>6, <1>7, <3>1 DEF Accounted
    <3> QED
      BY <1>2, <2>1, <3>2 DEF SaverInv
  <2>2. CASE ~taken
    <3>1. saver' = saver
      BY <1>2, <2>2
    <3>2. saver.pc # "idle" => saver.snapshot \in Snapshots
      BY <1>0 DEF Saving
    <3> QED
      BY <1>0, <1>6, <1>12, <2>2, <3>1, <3>2 DEF SaverInv
  <2> QED
    BY <2>1, <2>2
<1>15. ASSUME NEW i \in Ids
       PROVE  /\ InHand(i) \subseteq InHand(i)' /\ Pending(i) \subseteq Pending(i)'
              /\ i = id => n \in InHand(i)' \cup excused'[id]
              /\ i = id => n \in Pending(i)' \cup excused'[id]
              /\ ~taken => Pending(i)' = Pending(i)
              /\ taken => Pending(i)' \subseteq {n} /\ Pending(i) = {}
              /\ taken /\ i # id => Pending(i)' = {}
  <2>1. CASE taken
    <3>1. saver' = [pc |-> "upsert", event |-> n, snapshot |-> made] /\ saver.pc = "idle"
      BY <1>2, <1>9, <2>1
    <3>2. InHand(i) = {} /\ Pending(i) = {}
      BY <3>1 DEF InHand, Pending
    <3>3. InHand(i)' = (IF id = i THEN {n} ELSE {}) /\ Pending(i)' = (IF id = i THEN {n} ELSE {})
      BY <1>5, <3>1 DEF InHand, Pending
    <3> QED
      BY <2>1, <3>2, <3>3
  <2>2. CASE ~taken
    <3>1. saver' = saver
      BY <1>2, <2>2
    <3>2. InHand(i)' = InHand(i) /\ Pending(i)' = Pending(i)
      BY <3>1 DEF InHand, Pending
    <3> QED
      BY <1>6, <2>2, <3>2
  <2> QED
    BY <2>1, <2>2
<1>16. RepoInv'
  <2> SUFFICES ASSUME NEW i \in Ids, Usable(i)'
               PROVE  Accounted(repository'[i], InHand(i)', chain', excused')
    BY DEF RepoInv
  <2>1. Usable(i) /\ repository'[i] = repository[i]
    BY <1>4 DEF Usable
  <2>2. repository[i] \in Snapshots /\ repository[i].id = i
    BY <1>0, <2>1 DEF Usable, TypeOK
  <2>3. Accounted(repository[i], InHand(i), chain, excused)
    BY <1>0, <2>1 DEF RepoInv
  <2> QED
    BY <1>12, <1>15, <2>1, <2>2, <2>3
<1>17. DiskInv'
  <2> SUFFICES ASSUME NEW f \in Files, disk[f] \in Snapshots, disk[f].whole
               PROVE  Accounted(disk[f], Pending(disk[f].id)', chain', excused')
    BY <1>4 DEF DiskInv
  <2>1. PICK i \in Ids : i = disk[f].id
    BY SnapshotFields
  <2>2. Accounted(disk[f], Pending(i), chain, excused)
    BY <1>0, <2>1 DEF DiskInv
  <2>3. Accounted(disk[f], Pending(i)', chain', excused')
    BY <1>12, <1>15, <2>1, <2>2
  <2>4. Pending(i)' = Pending(disk[f].id)'
    BY <1>4, <2>1
  <2> QED
    BY <2>3, <2>4
<1>18. ResyncInv'
  <2> SUFFICES ASSUME resync.pc # "idle"
               PROVE  /\ \A i \in Ids : Pending(i)' \subseteq excused'[i]
                      /\ \A k \in DOMAIN resync.found : resync.found[k].whole =>
                            Accounted(resync.found[k], {}, chain', excused')
    BY <1>4 DEF ResyncInv
  <2>1. n \in excused'[id]
    BY <1>6
  <2>2. \A i \in Ids : Pending(i)' \subseteq excused'[i]
    BY <1>0, <1>6, <1>15, <2>1 DEF ResyncInv
  <2>3. \A k \in DOMAIN resync.found : resync.found[k] \in Snapshots
    BY <1>0 DEF Shape
  <2> QED
    BY <1>0, <1>12, <2>1, <2>2, <2>3 DEF ResyncInv
<1> QED
  BY <1>13, <1>14, <1>16, <1>17, <1>18 DEF LossInv

(* A step that is no event: what accounted for the events still does, if    *)
(* what is not in hand any more is excused.                                 *)
LEMMA QuietKeeps ==
    ASSUME TypeInv, NEW s \in Snapshots, NEW a, NEW b, Accounted(s, a, chain, excused),
           chain' = chain, \A i \in Ids : excused[i] \subseteq excused'[i],
           a \subseteq b \cup excused'[s.id]
    PROVE  Accounted(s, b, chain', excused')
<1>1. s.id \in Ids
  BY SnapshotFields
<1> QED
  BY <1>1, Keeps

LEMMA UpsertLoss == ASSUME TypeInv, LossInv, PersistUpsert PROVE LossInv'
<1>0. Shape /\ Saving /\ TypeOK /\ DownInv /\ SaverInv /\ RepoInv /\ DiskInv /\ ResyncInv
  BY DEF TypeInv, LossInv
<1>1. /\ up /\ saver.pc = "upsert" /\ saver' = [saver EXCEPT !.pc = "create"]
      /\ repository' = [repository EXCEPT ![saver.snapshot.id] = saver.snapshot]
      /\ UNCHANGED <<up, chain, disk, resync, excused>>
  BY DEF PersistUpsert, At, Go, Upsert, process, history
<1>2. saver'.pc = "create" /\ saver'.snapshot = saver.snapshot /\ saver'.event = saver.event
  BY <1>0, <1>1 DEF Shape
<1>3. saver.snapshot \in Snapshots /\ saver.snapshot.id \in Ids
  BY <1>1, SavedPath
<1>4. Accounted(saver.snapshot, {}, chain, excused)
  BY <1>0, <1>1 DEF SaverInv
<1>5. \A i : InHand(i)' = {} /\ Pending(i)' = Pending(i)
  BY <1>1, <1>2 DEF InHand, Pending
<1>6. RepoInv'
  <2> SUFFICES ASSUME NEW i \in Ids, Usable(i)'
               PROVE  Accounted(repository'[i], {}, chain, excused)
    BY <1>1, <1>5 DEF RepoInv
  <2>1. CASE i = saver.snapshot.id
    BY <1>0, <1>1, <1>4, <2>1 DEF Shape
  <2>2. CASE i # saver.snapshot.id
    <3>1. repository'[i] = repository[i] /\ InHand(i) = {}
      BY <1>0, <1>1, <2>2 DEF Shape, InHand
    <3>2. Usable(i)
      BY <3>1 DEF Usable
    <3> QED
      BY <1>0, <3>1, <3>2 DEF RepoInv
  <2> QED
    BY <2>1, <2>2
<1>7. DiskInv'
  BY <1>0, <1>1, <1>5 DEF DiskInv
<1>8. ResyncInv'
  BY <1>0, <1>1, <1>5 DEF ResyncInv
<1> QED
  BY <1>0, <1>1, <1>2, <1>4, <1>6, <1>7, <1>8 DEF LossInv, DownInv, SaverInv

LEMMA FileLoss == ASSUME TypeInv, LossInv, SaveCreate \/ SaveWrite PROVE LossInv'
<1>0. Shape /\ Saving /\ TypeOK /\ DownInv /\ SaverInv /\ RepoInv /\ DiskInv /\ ResyncInv
  BY DEF TypeInv, LossInv
<1>1. /\ up /\ saver.pc \in {"create", "write"} /\ UNCHANGED <<up, chain, repository, resync, excused>>
      /\ saver' = [saver EXCEPT !.pc = "write"] \/ saver' = saver
  BY DEF SaveCreate, SaveWrite, At, Go, process, history
<1>2. saver'.pc \in {"create", "write"} /\ saver'.snapshot = saver.snapshot /\ saver'.event = saver.event
  BY <1>0, <1>1 DEF Shape
<1>3. saver.snapshot \in Snapshots /\ Path \in Files
  BY <1>1, SavedPath
<1>4. Accounted(saver.snapshot, {}, chain, excused)
  BY <1>0, <1>1 DEF SaverInv
<1>5. \A i : InHand(i)' = InHand(i) /\ Pending(i)' = Pending(i)
  BY <1>1, <1>2 DEF InHand, Pending
<1>6. PICK content : /\ disk' = [disk EXCEPT ![Path] = content]
                     /\ content = Junk \/ content = saver.snapshot \/ ~content.whole
  <2>1. CASE SaveCreate
    BY <2>1 DEF SaveCreate
  <2>2. CASE SaveWrite
    BY <1>3, <2>2, CutFields DEF SaveWrite
  <2> QED
    BY <2>1, <2>2
<1>7. DiskInv'
  <2> SUFFICES ASSUME NEW f \in Files, disk'[f] \in Snapshots, disk'[f].whole
               PROVE  Accounted(disk'[f], Pending(disk[f].id)', chain, excused)
    BY <1>1 DEF DiskInv
  <2>1. CASE f = Path
    <3>1. disk'[f] = saver.snapshot
      BY <1>0, <1>3, <1>6, <2>1, MarkersAssumption DEF Shape
    <3> QED
      BY <1>4, <3>1 DEF Accounted
  <2>2. CASE f # Path
    <3>1. disk'[f] = disk[f]
      BY <1>0, <1>6, <2>2 DEF Shape
    <3>2. Pending(disk[f].id)' = Pending(disk[f].id)
      BY <1>1, <1>2, <3>1 DEF Pending
    <3> QED
      BY <1>0, <3>1, <3>2 DEF DiskInv
  <2> QED
    BY <2>1, <2>2
<1>8. RepoInv'
  BY <1>0, <1>1, <1>5 DEF RepoInv, Usable
<1>9. ResyncInv'
  BY <1>0, <1>1, <1>5 DEF ResyncInv
<1> QED
  BY <1>0, <1>1, <1>2, <1>4, <1>7, <1>8, <1>9 DEF LossInv, DownInv, SaverInv

(* the save is over, and the file has the event or nothing has it *)
LEMMA SavedLoss ==
    ASSUME TypeInv, LossInv, SaveFlush \/ SaveToUnlinked \/ SaveFails
    PROVE  LossInv'
<1>0. Shape /\ Saving /\ TypeOK /\ DownInv /\ SaverInv /\ RepoInv /\ DiskInv /\ ResyncInv
  BY DEF TypeInv, LossInv
<1>1. /\ up /\ saver.pc \in {"create", "write", "unlinked"} /\ saver' = Idle
      /\ UNCHANGED <<up, chain, repository, resync, disk>>
  BY DEF SaveFlush, Written, SaveToUnlinked, SaveFails, At, process
<1>2. saver.snapshot \in Snapshots /\ saver.snapshot.id \in Ids
  BY <1>1, SavedPath
<1>3. Accounted(saver.snapshot, {}, chain, excused)
  BY <1>0, <1>1 DEF SaverInv
<1>4. saver'.pc = "idle"
  BY <1>1 DEF Idle
<1>5. \A i : InHand(i)' = {} /\ InHand(i) = {} /\ Pending(i)' = {}
  BY <1>1, <1>4 DEF InHand, Pending
<1>6. \A i \in Ids : excused[i] \subseteq excused'[i]
  BY ExcuseCovers DEF SaveFlush, SaveToUnlinked, SaveFails
<1>7. DiskInv'
  <2> SUFFICES ASSUME NEW f \in Files, disk[f] \in Snapshots, disk[f].whole
               PROVE  Accounted(disk[f], {}, chain', excused')
    BY <1>1, <1>5 DEF DiskInv
  <2>1. PICK i \in Ids : i = disk[f].id
    BY SnapshotFields
  <2>2. Accounted(disk[f], Pending(i), chain, excused)
    BY <1>0, <2>1 DEF DiskInv
  <2>3. CASE SaveFlush
    <3>1. disk[Path] = saver.snapshot /\ Path = SnapshotPath[saver.snapshot.id]
      BY <1>1, <2>3, SavedPath DEF SaveFlush, Written
    <3>2. CASE i = saver.snapshot.id
      <4>1. f = Path
        <5>1. disk[f] \notin {Nothing, Junk}
          BY MarkersAssumption
        <5>2. SnapshotPath[disk[f].id] = f
          BY <1>0, <5>1 DEF TypeOK
        <5> QED
          BY <2>1, <3>1, <3>2, <5>2
      <4> QED
        BY <1>1, <1>3, <1>6, <3>1, <4>1, QuietKeeps
    <3>3. CASE i # saver.snapshot.id
      <4>1. Pending(i) = {}
        BY <3>3 DEF Pending
      <4> QED
        BY <1>1, <1>6, <2>2, <4>1, QuietKeeps
    <3> QED
      BY <3>2, <3>3
  <2>4. CASE SaveToUnlinked \/ SaveFails
    <3>1. Pending(i) \subseteq excused'[i]
      BY <2>4, ExcuseCovers DEF SaveToUnlinked, SaveFails
    <3> QED
      BY <1>1, <1>6, <2>1, <2>2, <3>1, QuietKeeps
  <2> QED
    BY <2>3, <2>4
<1>8. RepoInv'
  <2> SUFFICES ASSUME NEW i \in Ids, Usable(i)
               PROVE  Accounted(repository[i], {}, chain', excused')
    BY <1>1, <1>5 DEF RepoInv, Usable
  <2>1. repository[i] \in Snapshots /\ Accounted(repository[i], {}, chain, excused)
    BY <1>0, <1>5 DEF RepoInv, Usable, TypeOK
  <2> QED
    BY <1>1, <1>6, <2>1, QuietKeeps
<1>9. ResyncInv'
  <2> SUFFICES ASSUME resync.pc # "idle", NEW k \in DOMAIN resync.found, resync.found[k].whole
               PROVE  Accounted(resync.found[k], {}, chain', excused')
    BY <1>1, <1>5 DEF ResyncInv
  <2>1. resync.found[k] \in Snapshots /\ Accounted(resync.found[k], {}, chain, excused)
    BY <1>0 DEF ResyncInv, Shape
  <2> QED
    BY <1>1, <1>6, <2>1, QuietKeeps
<1> QED
  BY <1>0, <1>1, <1>4, <1>7, <1>8, <1>9 DEF LossInv, DownInv, SaverInv

LEMMA RemoveLoss == ASSUME TypeInv, LossInv, NEW id \in Ids, Remove(id) PROVE LossInv'
<1>0. Shape /\ Saving /\ TypeOK /\ DownInv /\ SaverInv /\ RepoInv /\ DiskInv /\ ResyncInv
  BY DEF TypeInv, LossInv
<1>1. /\ up /\ UNCHANGED <<up, chain, repository, resync, excused>>
      /\ disk' = [disk EXCEPT ![SnapshotPath[id]] = Nothing]
      /\ \/ saver' = saver
         \/ saver.pc = "write" /\ saver' = [saver EXCEPT !.pc = "unlinked"]
  BY DEF Remove, Go, process
<1>2. /\ saver'.snapshot = saver.snapshot /\ saver'.event = saver.event
      /\ (saver'.pc = "idle" <=> saver.pc = "idle")
      /\ (saver'.pc = "upsert" <=> saver.pc = "upsert")
  BY <1>0, <1>1 DEF Shape
<1>3. \A i : InHand(i)' = InHand(i) /\ Pending(i)' = Pending(i)
  BY <1>2 DEF InHand, Pending
<1>4. DiskInv'
  <2> SUFFICES ASSUME NEW f \in Files, disk'[f] \in Snapshots, disk'[f].whole
               PROVE  Accounted(disk'[f], Pending(disk[f].id)', chain, excused)
    BY <1>1 DEF DiskInv
  <2>1. disk'[f] = disk[f]
    BY <1>0, <1>1, MarkersAssumption DEF Shape
  <2>2. Pending(disk[f].id)' = Pending(disk[f].id)
    BY <1>2, <2>1 DEF Pending
  <2> QED
    BY <1>0, <2>1, <2>2 DEF DiskInv
<1>5. RepoInv'
  BY <1>0, <1>1, <1>3 DEF RepoInv, Usable
<1>6. ResyncInv'
  BY <1>0, <1>1, <1>3 DEF ResyncInv
<1> QED
  BY <1>0, <1>1, <1>2, <1>4, <1>5, <1>6 DEF LossInv, DownInv, SaverInv

LEMMA ResyncBeginLoss == ASSUME TypeInv, LossInv, ResyncBegin PROVE LossInv'
<1>0. Shape /\ Saving /\ TypeOK /\ DownInv /\ SaverInv /\ RepoInv /\ DiskInv /\ ResyncInv
  BY DEF TypeInv, LossInv
<1>1. /\ up /\ UNCHANGED <<up, chain, repository, saver, disk>> /\ Excuse(TRUE)
      /\ resync' = [pc |-> "list", todo |-> {f \in Files : disk[f] # Nothing}, found |-> <<>>]
  BY DEF ResyncBegin, process
<1>2. \A i \in Ids : excused[i] \subseteq excused'[i] /\ Pending(i) \subseteq excused'[i]
  BY <1>1, ExcuseCovers
<1>3. \A i : InHand(i)' = InHand(i) /\ Pending(i)' = Pending(i)
  BY <1>1 DEF InHand, Pending
<1>4. ASSUME NEW s \in Snapshots, NEW a, Accounted(s, a, chain, excused)
      PROVE  Accounted(s, a, chain', excused')
  BY <1>1, <1>2, <1>4, QuietKeeps
<1>5. SaverInv'
  BY <1>0, <1>1, <1>4 DEF SaverInv, Saving
<1>6. RepoInv'
  BY <1>0, <1>1, <1>3, <1>4 DEF RepoInv, Usable, TypeOK
<1>7. DiskInv'
  <2> SUFFICES ASSUME NEW f \in Files, disk[f] \in Snapshots, disk[f].whole
               PROVE  Accounted(disk[f], Pending(disk[f].id), chain', excused')
    <3>1. \A f \in Files : Pending(disk[f].id)' = Pending(disk[f].id)
      BY <1>1 DEF Pending
    <3> QED
      BY <1>1, <3>1 DEF DiskInv
  <2> QED
    BY <1>0, <1>4 DEF DiskInv
<1>8. ResyncInv'
  BY <1>1, <1>2, <1>3 DEF ResyncInv
<1> QED
  BY <1>0, <1>1, <1>5, <1>6, <1>7, <1>8 DEF LossInv, DownInv

LEMMA ResyncListLoss == ASSUME TypeInv, LossInv, ResyncList PROVE LossInv'
<1>0. Shape /\ Saving /\ TypeOK /\ DownInv /\ SaverInv /\ RepoInv /\ DiskInv /\ ResyncInv
  BY DEF TypeInv, LossInv
<1>1. /\ up /\ resync.pc = "list" /\ UNCHANGED <<up, chain, repository, saver, disk, excused>>
  BY DEF ResyncList, process, history
<1>2. \A i : InHand(i)' = InHand(i) /\ Pending(i)' = Pending(i)
  BY <1>1 DEF InHand, Pending
<1>3. \/ resync'.found = resync.found
      \/ \E f \in Files : disk[f] \in Snapshots /\ resync'.found = Append(resync.found, disk[f])
  <2>1. CASE resync.todo = {}
    BY <1>0, <2>1 DEF ResyncList, Shape
  <2>2. CASE resync.todo # {}
    <3>1. PICK f \in resync.todo : resync' = Listed(disk[f], resync.found, resync.todo \ {f})
      BY <2>2 DEF ResyncList
    <3>2. f \in Files /\ (disk[f] \in Snapshots \/ disk[f] \in {Nothing, Junk})
      BY <1>0 DEF Shape, Absents
    <3> QED
      BY <3>1, <3>2 DEF Listed
  <2> QED
    BY <2>1, <2>2
<1>4. ResyncInv'
  <2>1. resync.found \in Seq(Snapshots)
    BY <1>0 DEF Shape
  <2>2. CASE resync'.found = resync.found
    BY <1>0, <1>1, <1>2, <2>2 DEF ResyncInv
  <2>3. ASSUME NEW f \in Files, disk[f] \in Snapshots, resync'.found = Append(resync.found, disk[f])
        PROVE  ResyncInv'
    <3>1. disk[f].whole => Accounted(disk[f], {}, chain, excused)
      <4>1. disk[f].id \in Ids
        BY <2>3, SnapshotFields
      <4>2. Pending(disk[f].id) \subseteq excused[disk[f].id]
        BY <1>0, <1>1, <4>1 DEF ResyncInv
      <4> QED
        BY <1>0, <2>3, <4>2, Keeps DEF DiskInv
    <3>2. SUFFICES ASSUME NEW k \in DOMAIN resync'.found, resync'.found[k].whole
                   PROVE  Accounted(resync'.found[k], {}, chain, excused)
      BY <1>0, <1>1, <1>2 DEF ResyncInv
    <3>3. resync'.found[k] = disk[f] \/ (k \in DOMAIN resync.found /\ resync'.found[k] = resync.found[k])
      BY <2>1, <2>3
    <3> QED
      BY <1>0, <1>1, <3>1, <3>2, <3>3 DEF ResyncInv
  <2> QED
    BY <1>3, <2>2, <2>3
<1>5. RepoInv'
  BY <1>0, <1>1, <1>2 DEF RepoInv, Usable
<1>6. DiskInv'
  BY <1>0, <1>1, <1>2 DEF DiskInv
<1> QED
  BY <1>0, <1>1, <1>4, <1>5, <1>6 DEF LossInv, DownInv, SaverInv

LEMMA ResyncPutLoss == ASSUME TypeInv, LossInv, ResyncUpsert \/ ResyncEnd PROVE LossInv'
<1>0. Shape /\ Saving /\ TypeOK /\ DownInv /\ SaverInv /\ RepoInv /\ DiskInv /\ ResyncInv
  BY DEF TypeInv, LossInv
<1>1. /\ up /\ resync.pc = "upsert" /\ UNCHANGED <<up, chain, saver, disk, excused>>
  BY DEF ResyncUpsert, ResyncEnd, process, history
<1>2. \A i : InHand(i)' = InHand(i) /\ Pending(i)' = Pending(i)
  BY <1>1 DEF InHand, Pending
<1>3. DiskInv'
  BY <1>0, <1>1, <1>2 DEF DiskInv
<1>4. SaverInv' /\ DownInv'
  BY <1>0, <1>1 DEF SaverInv, DownInv
<1>5. CASE ResyncUpsert
  <2>1. /\ resync.found # <<>> /\ resync.found \in Seq(Snapshots)
        /\ repository' = [repository EXCEPT ![Head(resync.found).id] = Head(resync.found)]
        /\ resync'.found = Tail(resync.found)
    BY <1>0, <1>5 DEF ResyncUpsert, Shape
  <2>2. Head(resync.found) = resync.found[1] /\ 1 \in DOMAIN resync.found
    BY <2>1
  <2>3. Head(resync.found).whole => Accounted(Head(resync.found), {}, chain, excused)
    BY <1>0, <1>1, <2>2 DEF ResyncInv
  <2>4. RepoInv'
    <3> SUFFICES ASSUME NEW i \in Ids, Usable(i)'
                 PROVE  Accounted(repository'[i], InHand(i), chain, excused)
      BY <1>1, <1>2 DEF RepoInv
    <3>1. CASE i = Head(resync.found).id
      <4>1. repository'[i] = Head(resync.found)
        BY <1>0, <2>1, <3>1 DEF Shape
      <4> QED
        BY <2>3, <4>1, Keeps DEF Usable
    <3>2. CASE i # Head(resync.found).id
      BY <1>0, <2>1, <3>2 DEF Shape, Usable, RepoInv
    <3> QED
      BY <3>1, <3>2
  <2>5. ResyncInv'
    <3>1. \A k \in DOMAIN Tail(resync.found) :
              k + 1 \in DOMAIN resync.found /\ Tail(resync.found)[k] = resync.found[k + 1]
      BY <2>1
    <3> QED
      BY <1>0, <1>1, <1>2, <2>1, <3>1 DEF ResyncInv
  <2> QED
    BY <1>3, <1>4, <2>4, <2>5 DEF LossInv
<1>6. CASE ResyncEnd
  <2>1. repository' = repository /\ resync'.pc = "idle"
    BY <1>6 DEF ResyncEnd, Done
  <2>2. RepoInv' /\ ResyncInv'
    BY <1>0, <1>1, <1>2, <2>1 DEF RepoInv, Usable, ResyncInv
  <2> QED
    BY <1>3, <1>4, <2>2 DEF LossInv
<1> QED
  BY <1>5, <1>6

(* what was in hand is excused, what was in the repository is gone *)
LEMMA CrashLoss == ASSUME TypeInv, LossInv, Crash \/ Restart PROVE LossInv'
<1>0. Shape /\ Saving /\ TypeOK /\ DownInv /\ SaverInv /\ RepoInv /\ DiskInv /\ ResyncInv
  BY DEF TypeInv, LossInv
<1>1. CASE Crash
  <2>1. /\ UNCHANGED <<chain, disk>> /\ Excuse(TRUE)
        /\ \A i \in Ids : repository'[i] = Nothing
        /\ saver'.pc = "idle" /\ resync'.pc = "idle"
    BY <1>1 DEF Crash, Idle, Done
  <2>2. \A i \in Ids : excused[i] \subseteq excused'[i] /\ Pending(i) \subseteq excused'[i]
    BY <2>1, ExcuseCovers
  <2>3. DiskInv'
    <3> SUFFICES ASSUME NEW f \in Files, disk[f] \in Snapshots, disk[f].whole
                 PROVE  Accounted(disk[f], Pending(disk[f].id)', chain', excused')
      BY <2>1 DEF DiskInv
    <3>1. Accounted(disk[f], Pending(disk[f].id), chain, excused) /\ disk[f].id \in Ids
      BY <1>0, SnapshotFields DEF DiskInv
    <3> QED
      BY <2>1, <2>2, <3>1, QuietKeeps
  <2> QED
    BY <2>1, <2>3 DEF LossInv, DownInv, SaverInv, RepoInv, Usable, ResyncInv
<1>2. CASE Restart
  <2>1. up' /\ UNCHANGED <<chain, repository, disk, saver, resync, excused>>
    BY <1>2 DEF Restart, history
  <2>2. \A i : InHand(i)' = InHand(i) /\ Pending(i)' = Pending(i)
    BY <2>1 DEF InHand, Pending
  <2> QED
    BY <1>0, <2>1, <2>2 DEF LossInv, DownInv, SaverInv, RepoInv, Usable, DiskInv, ResyncInv
<1> QED
  BY <1>1, <1>2

LEMMA StillLoss == ASSUME LossInv, UNCHANGED vars PROVE LossInv'
<1>1. UNCHANGED <<up, chain, repository, disk, saver, resync, excused>>
  BY DEF vars, process, history
<1>2. \A i : InHand(i)' = InHand(i) /\ Pending(i)' = Pending(i)
  BY <1>1 DEF InHand, Pending
<1> QED
  BY <1>1, <1>2 DEF LossInv, DownInv, SaverInv, RepoInv, Usable, DiskInv, ResyncInv

LEMMA InitLoss == Init => LossInv
<1> SUFFICES ASSUME Init PROVE LossInv
  OBVIOUS
<1>1. /\ up /\ saver.pc = "idle" /\ resync.pc = "idle"
      /\ \A i \in Ids : repository[i] = Nothing
      /\ \A f \in Files : disk[f] = Nothing
  BY DEF Init, Idle, Done
<1> QED
  BY <1>1, MarkersAssumption DEF LossInv, DownInv, SaverInv, RepoInv, Usable, DiskInv, ResyncInv

LEMMA StepLoss == TypeInv /\ LossInv /\ [Next]_vars => LossInv'
<1> SUFFICES ASSUME TypeInv, LossInv, [Next]_vars PROVE LossInv'
  OBVIOUS
<1>1. TypeInv'
  BY StepTypes
<1>2. CASE Next
  BY <1>1, <1>2, EventLoss, RemoveLoss, UpsertLoss, FileLoss, SavedLoss, ResyncBeginLoss,
     ResyncListLoss, ResyncPutLoss, CrashLoss DEF Next
<1>3. CASE UNCHANGED vars
  BY <1>3, StillLoss
<1> QED
  BY <1>2, <1>3

-----------------------------------------------------------------------------
(* What a resync brings back.  While no save runs beside it, what it has    *)
(* read is what the files hold, and every file that is good is still to be  *)
(* read, has been read, or is in the repository.                            *)

Good(f) == kept[f] # Nothing /\ f \notin damaged

HasRead(f) == \E k \in DOMAIN resync.found : resync.found[k] = kept[f]

Back(f) == repository[kept[f].id] = kept[f]

KeptInv ==
    /\ \A f \in Files : kept[f] # Nothing => SnapshotPath[kept[f].id] = f
    /\ \A f \in Files : Good(f) => disk[f] = kept[f]
    /\ saver.pc = "write" => Path \in damaged
    /\ restored # "no" => saver.pc = "idle"

ReadInv ==
    restored = "so far" =>
        /\ resync.pc \in {"list", "upsert"}
        /\ \A k \in DOMAIN resync.found :
              disk[SnapshotPath[resync.found[k].id]] = resync.found[k]
        /\ \A f \in Files : Good(f) =>
              HasRead(f) \/ (IF resync.pc = "list" THEN f \in resync.todo ELSE Back(f))

BackInv == restored = "yes" => resync.pc = "idle" /\ \A f \in Files : Good(f) => Back(f)

RestoreInv == KeptInv /\ ReadInv /\ BackInv

LEMMA InitRestore == Init => RestoreInv
BY DEF Init, Idle, Done, RestoreInv, KeptInv, ReadInv, BackInv, Good

(* A save moves what is kept of the file it has emptied, and of no other    *)
LEMMA SaverRestore ==
    ASSUME TypeInv, RestoreInv,
           PersistUpsert \/ SaveCreate \/ SaveWrite \/ SaveFlush \/ SaveToUnlinked \/ SaveFails
    PROVE  RestoreInv'
<1>0. Shape /\ Saving /\ TypeOK /\ KeptInv
  BY DEF TypeInv, RestoreInv
<1>1. saver.pc # "idle" /\ restored' = restored
  BY DEF PersistUpsert, SaveCreate, SaveWrite, SaveFlush, SaveToUnlinked, SaveFails, Written,
         At, history
<1>2. restored = "no" /\ restored' = "no"
  BY <1>0, <1>1 DEF KeptInv
<1>3. Path \in Files /\ saver.snapshot \in Snapshots /\ Path = SnapshotPath[saver.snapshot.id]
  BY <1>1, SavedPath
<1>4. CASE PersistUpsert \/ SaveToUnlinked \/ SaveFails
  <2>1. saver'.pc # "write" /\ UNCHANGED <<disk, kept, damaged>>
    <3>1. CASE PersistUpsert
      <4>1. saver' = [saver EXCEPT !.pc = "create"] /\ UNCHANGED <<disk, kept, damaged>>
        BY <3>1 DEF PersistUpsert, Go, history
      <4>2. saver'.pc = "create"
        BY <1>0, <4>1 DEF Shape
      <4> QED
        BY <4>1, <4>2
    <3>2. CASE SaveToUnlinked \/ SaveFails
      <4>1. saver' = Idle /\ UNCHANGED <<disk, kept, damaged>>
        BY <3>2 DEF SaveToUnlinked, SaveFails
      <4>2. Idle.pc = "idle"
        BY DEF Idle
      <4> QED
        BY <4>1, <4>2
    <3> QED
      BY <1>4, <3>1, <3>2
  <2> QED
    BY <1>0, <1>2, <2>1 DEF RestoreInv, KeptInv, ReadInv, BackInv, Good
<1>5. CASE SaveCreate \/ SaveWrite
  <2>1. /\ saver'.snapshot = saver.snapshot /\ kept' = kept
        /\ damaged' = damaged \cup {Path}
        /\ \A f \in Files \ {Path} : disk'[f] = disk[f]
    <3>1. CASE SaveCreate
      BY <1>0, <3>1 DEF SaveCreate, Go, Shape
    <3>2. CASE SaveWrite
      BY <1>0, <3>2 DEF SaveWrite, At, history, Shape, KeptInv
    <3> QED
      BY <1>5, <3>1, <3>2
  <2>2. Path' = Path
    BY <2>1 DEF Path
  <2> QED
    BY <1>0, <1>2, <2>1, <2>2 DEF RestoreInv, KeptInv, ReadInv, BackInv, Good
<1>6. CASE SaveFlush
  <2>1. /\ saver'.pc = "idle" /\ disk' = disk /\ disk[Path] = saver.snapshot
        /\ kept' = [kept EXCEPT ![Path] = saver.snapshot] /\ damaged' = damaged \ {Path}
    BY <1>6 DEF SaveFlush, Written, Idle
  <2>2. kept'[Path] = saver.snapshot /\ \A f \in Files \ {Path} : kept'[f] = kept[f]
    BY <1>0, <1>3, <2>1 DEF Shape
  <2> QED
    BY <1>0, <1>2, <1>3, <2>1, <2>2 DEF RestoreInv, KeptInv, ReadInv, BackInv, Good
<1> QED
  BY <1>4, <1>5, <1>6

LEMMA OutsideRestore ==
    ASSUME TypeInv, RestoreInv, (\E id \in Ids : Event(id) \/ Remove(id)) \/ Crash \/ Restart
    PROVE  RestoreInv'
<1>0. Shape /\ Saving /\ TypeOK /\ KeptInv
  BY DEF TypeInv, RestoreInv
<1>1. CASE (\E id \in Ids : Event(id)) \/ Crash
  <2>1. restored' = "no" /\ UNCHANGED <<disk, kept, damaged>>
    BY <1>1 DEF Event, Crash
  <2>2. saver' = saver \/ saver'.pc # "write"
    <3>1. CASE Crash
      BY <3>1 DEF Crash, Idle
    <3>2. ASSUME NEW id \in Ids, Event(id)
          PROVE  \/ saver' = saver
                 \/ \E n, s : saver' = [pc |-> "upsert", event |-> n, snapshot |-> s]
      BY <3>2 DEF Event
    <3>3. ASSUME NEW n, NEW s, saver' = [pc |-> "upsert", event |-> n, snapshot |-> s]
          PROVE  saver'.pc # "write"
      BY <3>3
    <3> QED
      BY <1>1, <3>1, <3>2, <3>3
  <2> QED
    BY <1>0, <2>1, <2>2 DEF RestoreInv, KeptInv, ReadInv, BackInv, Good, Path
<1>2. ASSUME NEW id \in Ids, Remove(id) PROVE RestoreInv'
  <2> DEFINE g == SnapshotPath[id]
  <2>1. /\ restored' = "no" /\ g \in Files
        /\ disk' = [disk EXCEPT ![g] = Nothing] /\ kept' = [kept EXCEPT ![g] = Nothing]
        /\ damaged' = damaged \ {g}
    BY <1>2, StorageAssumption DEF Remove
  <2>2. IF saver.pc = "write" /\ Path = g THEN Go("unlinked") ELSE saver' = saver
    BY <1>2 DEF Remove
  <2> HIDE DEF g
  <2>3. kept'[g] = Nothing /\ \A f \in Files \ {g} : kept'[f] = kept[f] /\ disk'[f] = disk[f]
    BY <1>0, <2>1 DEF Shape
  <2>4. saver'.pc = "write" => saver.pc = "write" /\ Path' = Path /\ Path # g
    BY <1>0, <2>2 DEF Go, Shape, Path
  <2> QED
    BY <1>0, <2>1, <2>3, <2>4 DEF RestoreInv, KeptInv, ReadInv, BackInv, Good
<1>3. CASE Restart
  BY <1>3 DEF Restart, history, RestoreInv, KeptInv, ReadInv, BackInv, Good, HasRead, Back, Path
<1> QED
  BY <1>1, <1>2, <1>3

LEMMA ResyncRestore ==
    ASSUME TypeInv, RestoreInv, ResyncBegin \/ ResyncList \/ ResyncUpsert \/ ResyncEnd
    PROVE  RestoreInv'
<1>0. Shape /\ Saving /\ TypeOK /\ KeptInv /\ ReadInv /\ BackInv
  BY DEF TypeInv, RestoreInv
<1>1. UNCHANGED <<disk, saver, kept, damaged>>
  BY DEF ResyncBegin, ResyncList, ResyncUpsert, ResyncEnd, history
<1>2. Path' = Path /\ \A f : Good(f)' = Good(f)
  BY <1>1 DEF Path, Good
<1>3. resync.found \in Seq(Snapshots)
  BY <1>0 DEF Shape
<1>4. CASE ResyncBegin
  <2>1. /\ resync' = [pc |-> "list", todo |-> {f \in Files : disk[f] # Nothing}, found |-> <<>>]
        /\ restored' = IF saver.pc = "idle" THEN "so far" ELSE "no"
    BY <1>4 DEF ResyncBegin
  <2>2. KeptInv' /\ BackInv'
    BY <1>0, <1>1, <1>2, <2>1 DEF KeptInv, BackInv
  <2>3. \A f \in Files : Good(f) => f \in resync'.todo
    BY <1>0, <2>1 DEF KeptInv, Good
  <2>4. resync'.pc = "list" /\ DOMAIN resync'.found = {}
    <3>1. resync'.pc = "list" /\ resync'.found = <<>>
      BY <2>1
    <3>2. <<>> \in Seq(Snapshots) /\ Len(<<>>) = 0
      OBVIOUS
    <3> QED
      BY <3>1, <3>2
  <2>5. ReadInv'
    BY <1>2, <2>3, <2>4 DEF ReadInv
  <2> QED
    BY <2>2, <2>5 DEF RestoreInv
<1>5. CASE ResyncList
  <2>1. resync.pc = "list" /\ restored' = restored
    BY <1>5 DEF ResyncList, history
  <2>2. KeptInv' /\ BackInv'
    BY <1>0, <1>1, <1>2, <2>1 DEF KeptInv, BackInv
  <2>3. CASE resync.todo = {}
    <3>1. resync' = [resync EXCEPT !.pc = "upsert"]
      BY <1>5, <2>3 DEF ResyncList
    <3>2. resync'.pc = "upsert" /\ resync'.found = resync.found
      BY <1>0, <3>1 DEF Shape
    <3>3. ReadInv'
      BY <1>0, <1>1, <1>2, <2>1, <2>3, <3>2 DEF ReadInv, HasRead
    <3> QED
      BY <2>2, <3>3 DEF RestoreInv
  <2>4. CASE resync.todo # {}
    <3>1. PICK f \in resync.todo : resync' = Listed(disk[f], resync.found, resync.todo \ {f})
      BY <1>5, <2>4 DEF ResyncList
    <3>2. resync'.pc = "list" /\ resync'.todo = resync.todo \ {f}
      BY <3>1 DEF Listed
    <3>3. f \in Files
      BY <1>0 DEF Shape
    <3>4. ASSUME restored = "so far" PROVE ReadInv'
      <4>1. CASE disk[f] \in {Nothing, Junk}
        <5>1. resync'.found = resync.found
          BY <3>1, <4>1 DEF Listed
        <5>2. ~Good(f)
          BY <1>0, <3>3, <4>1, MarkersAssumption DEF KeptInv, Good, Shape
        <5> QED
          BY <1>0, <1>1, <1>2, <2>1, <3>2, <5>1, <5>2 DEF ReadInv, HasRead
      <4>2. CASE disk[f] \notin {Nothing, Junk}
        <5>1. resync'.found = Append(resync.found, disk[f])
          BY <3>1, <4>2 DEF Listed
        <5>2. disk[f] \in Snapshots /\ SnapshotPath[disk[f].id] = f
          BY <1>0, <3>3, <4>2 DEF TypeOK
        <5>3. /\ \A k \in DOMAIN resync'.found :
                    \/ resync'.found[k] = disk[f]
                    \/ k \in DOMAIN resync.found /\ resync'.found[k] = resync.found[k]
              /\ \A k \in DOMAIN resync.found :
                    k \in DOMAIN resync'.found /\ resync'.found[k] = resync.found[k]
              /\ \E k \in DOMAIN resync'.found : resync'.found[k] = disk[f]
          <6>1. Len(resync.found) + 1 \in DOMAIN resync'.found
            BY <1>3, <5>1, <5>2
          <6>2. resync'.found[Len(resync.found) + 1] = disk[f]
            BY <1>3, <5>1, <5>2
          <6> QED
            BY <1>3, <5>1, <5>2, <6>1, <6>2
        <5>4. \A k \in DOMAIN resync'.found :
                  disk[SnapshotPath[resync'.found[k].id]] = resync'.found[k]
          BY <1>0, <3>4, <5>2, <5>3 DEF ReadInv
        <5>5. \A g \in Files : Good(g) =>
                  (\E k \in DOMAIN resync'.found : resync'.found[k] = kept[g])
                  \/ g \in resync.todo \ {f}
          <6> SUFFICES ASSUME NEW g \in Files, Good(g), g \notin resync.todo \ {f}
                       PROVE  \E k \in DOMAIN resync'.found : resync'.found[k] = kept[g]
            OBVIOUS
          <6>1. CASE g = f
            BY <1>0, <5>3, <6>1 DEF KeptInv
          <6>2. CASE g # f
            BY <1>0, <2>1, <3>4, <5>3, <6>2 DEF ReadInv, HasRead
          <6> QED
            BY <6>1, <6>2
        <5> QED
          BY <1>1, <1>2, <3>2, <5>4, <5>5 DEF ReadInv, HasRead
      <4> QED
        BY <4>1, <4>2
    <3> QED
      BY <2>1, <2>2, <3>4 DEF RestoreInv, ReadInv
  <2> QED
    BY <2>3, <2>4
<1>6. CASE ResyncUpsert
  <2> DEFINE s == Head(resync.found)
  <2>1. /\ resync.pc = "upsert" /\ restored' = restored /\ resync.found # <<>>
        /\ repository' = [repository EXCEPT ![s.id] = s]
        /\ resync' = [resync EXCEPT !.found = Tail(resync.found)]
    BY <1>6 DEF ResyncUpsert, history
  <2>2. KeptInv' /\ BackInv'
    BY <1>0, <1>1, <1>2, <2>1 DEF KeptInv, BackInv
  <2>3. resync'.pc = "upsert" /\ resync'.found = Tail(resync.found)
    BY <1>0, <2>1 DEF Shape
  <2>4. s \in Snapshots /\ s.id \in Ids /\ s = resync.found[1] /\ 1 \in DOMAIN resync.found
    BY <1>3, <2>1, SnapshotFields
  <2>5. repository'[s.id] = s /\ \A i \in Ids \ {s.id} : repository'[i] = repository[i]
    BY <1>0, <2>1, <2>4 DEF Shape
  <2> HIDE DEF s
  <2>6. /\ \A k \in DOMAIN Tail(resync.found) :
              k + 1 \in DOMAIN resync.found /\ Tail(resync.found)[k] = resync.found[k + 1]
        /\ \A k \in DOMAIN resync.found \ {1} :
              k - 1 \in DOMAIN Tail(resync.found) /\ Tail(resync.found)[k - 1] = resync.found[k]
    BY <1>3, <2>1
  <2>7. ASSUME restored = "so far" PROVE ReadInv'
    <3>1. \A k \in DOMAIN resync'.found :
              disk[SnapshotPath[resync'.found[k].id]] = resync'.found[k]
      <4> SUFFICES ASSUME NEW k \in DOMAIN Tail(resync.found)
                   PROVE  LET t == Tail(resync.found)[k] IN disk[SnapshotPath[t.id]] = t
        BY <2>3
      <4>1. PICK j \in DOMAIN resync.found : Tail(resync.found)[k] = resync.found[j]
        BY <2>6
      <4> QED
        BY <1>0, <2>7, <4>1 DEF ReadInv
    <3>2. ASSUME NEW f \in Files, Good(f) PROVE HasRead(f)' \/ Back(f)'
      <4>1. kept[f] \in Snapshots /\ kept[f].id \in Ids /\ SnapshotPath[kept[f].id] = f /\ disk[f] = kept[f]
        BY <1>0, <3>2, SnapshotFields DEF Good, KeptInv, Shape
      <4>2. disk[SnapshotPath[s.id]] = s
        BY <1>0, <2>4, <2>7 DEF ReadInv
      <4>3. CASE s.id = kept[f].id
        BY <1>1, <2>5, <4>1, <4>2, <4>3 DEF Back
      <4>4. CASE s.id # kept[f].id
        <5>1. CASE Back(f)
          BY <1>1, <2>5, <4>1, <4>4, <5>1 DEF Back
        <5>2. CASE HasRead(f)
          <6>1. PICK k \in DOMAIN resync.found : resync.found[k] = kept[f]
            BY <5>2 DEF HasRead
          <6>2. k # 1
            BY <2>4, <4>4, <6>1
          <6>3. \E j \in DOMAIN resync'.found : resync'.found[j] = kept[f]
            BY <2>3, <2>6, <6>1, <6>2
          <6> QED
            BY <1>1, <6>3 DEF HasRead
        <5> QED
          BY <1>0, <2>1, <2>7, <3>2, <5>1, <5>2 DEF ReadInv
      <4> QED
        BY <4>3, <4>4
    <3> QED
      BY <1>1, <1>2, <2>3, <3>1, <3>2 DEF ReadInv
  <2> QED
    BY <2>1, <2>2, <2>7 DEF RestoreInv, ReadInv
<1>7. CASE ResyncEnd
  <2>1. /\ resync.pc = "upsert" /\ resync.found = <<>> /\ repository' = repository
        /\ resync'.pc = "idle" /\ restored' = IF restored = "so far" THEN "yes" ELSE "no"
    BY <1>7 DEF ResyncEnd, Done
  <2>2. ASSUME restored = "so far", NEW f \in Files, Good(f) PROVE Back(f)
    <3>1. DOMAIN resync.found = {}
      <4>1. resync.found = <<>>
        BY <2>1
      <4>2. <<>> \in Seq(Snapshots) /\ Len(<<>>) = 0
        OBVIOUS
      <4> QED
        BY <4>1, <4>2
    <3> QED
      BY <1>0, <2>1, <2>2, <3>1 DEF ReadInv, HasRead
  <2>3. \A f : Back(f)' = Back(f)
    BY <1>1, <2>1 DEF Back
  <2>4. KeptInv'
    BY <1>0, <1>1, <1>2, <2>1 DEF KeptInv
  <2> QED
    BY <1>2, <2>1, <2>2, <2>3, <2>4 DEF RestoreInv, ReadInv, BackInv
<1> QED
  BY <1>4, <1>5, <1>6, <1>7

LEMMA StepRestore == TypeInv /\ RestoreInv /\ [Next]_vars => RestoreInv'
<1> SUFFICES ASSUME TypeInv, RestoreInv, [Next]_vars PROVE RestoreInv'
  OBVIOUS
<1>1. CASE (\E id \in Ids : Event(id) \/ Remove(id)) \/ Crash \/ Restart
  BY <1>1, OutsideRestore
<1>2. CASE PersistUpsert \/ SaveCreate \/ SaveWrite \/ SaveFlush \/ SaveToUnlinked \/ SaveFails
  BY <1>2, SaverRestore
<1>3. CASE ResyncBegin \/ ResyncList \/ ResyncUpsert \/ ResyncEnd
  BY <1>3, ResyncRestore
<1>4. CASE UNCHANGED vars
  BY <1>4 DEF vars, history, RestoreInv, KeptInv, ReadInv, BackInv, Good, HasRead, Back, Path
<1> QED
  BY <1>1, <1>2, <1>3, <1>4 DEF Next

-----------------------------------------------------------------------------
(* Theorems *)

(* The variables keep their types whatever is saved, removed, cut short or  *)
(* read back; a usable file holds a pool whose name is its own              *)
(* (FileSnapshotStore, full_resync).                                        *)
THEOREM Typed == Spec => []TypeOK
<1>1. Spec => []TypeInv
  BY InitTypes, StepTypes, PTL DEF Spec
<1>2. TypeInv => TypeOK
  BY DEF TypeInv
<1> QED
  BY <1>1, <1>2, PTL

(* A state that can be used lacks an event only where a crash, a save that  *)
(* failed, or a resync beside its handling explains it, for any number of   *)
(* pools and of pools that share a file (persist_snapshot, full_resync).    *)
THEOREM LostIsAccounted == Spec => []LostIsExplained
<1>1. Spec => [](TypeInv /\ LossInv)
  BY InitTypes, StepTypes, InitLoss, StepLoss, PTL DEF Spec
<1>2. TypeInv /\ LossInv => LostIsExplained
  <2> SUFFICES ASSUME TypeInv, LossInv, NEW id \in Ids, Usable(id)
               PROVE  (1..chain[id]) \ (repository[id].seen \cup InHand(id)) \subseteq excused[id]
    BY DEF LostIsExplained
  <2>1. repository[id].id = id /\ Accounted(repository[id], InHand(id), chain, excused)
    BY DEF TypeInv, TypeOK, LossInv, RepoInv, Usable
  <2> QED
    BY <2>1 DEF Accounted
<1> QED
  BY <1>1, <1>2, PTL

(* When a resync that nothing ran beside has ended, every pool whose file   *)
(* was saved whole, and neither removed nor taken by another pool since, is *)
(* in the repository as it was saved, for any number of pools, crashes and  *)
(* failing saves (full_resync, list, snapshot_path).                        *)
THEOREM RestoredIsKept == Spec => []ResyncRestores
<1>1. Spec => [](TypeInv /\ RestoreInv)
  BY InitTypes, StepTypes, InitRestore, StepRestore, PTL DEF Spec
<1>2. RestoreInv => ResyncRestores
  BY DEF RestoreInv, BackInv, ResyncRestores, Good, Back
<1> QED
  BY <1>1, <1>2, PTL
=============================================================================
