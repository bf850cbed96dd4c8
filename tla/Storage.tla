------------------------------- MODULE Storage -------------------------------
(***************************************************************************)
(* FileSnapshotStore (state/snapshot.rs) under a handler that persists what*)
(* it has brought up to date, and BasicStateSyncer::full_resync, which     *)
(* puts the stored snapshots back into the repository.  The process can    *)
(* stop between any two steps; files outlive it, the repository does not.  *)
(*                                                                         *)
(* A pool's state is the set of the events it has taken in, numbered in    *)
(* the order of the chain; the first is the one that creates the pool.     *)
(* Saving is not atomic: File::create empties the file, and what is        *)
(* written after that may be there in part.  The id and the reserves come  *)
(* first: a file that ends after them is read as a snapshot of the pool    *)
(* whose `extra' no pool state can be made from.                           *)
(***************************************************************************)
EXTENDS Integers, Sequences

CONSTANTS
    Ids,         \* pool identifiers
    Files,       \* names of snapshot files
    SnapshotPath, \* the name each pool's file gets, not always its own
    MaxEvents,   \* bound: events of each pool
    MaxCrashes,  \* bound: crashes
    MaxFailures, \* bound: saves that fail
    Nothing,     \* no file, no state, no save
    Junk         \* a file that is empty, or cut before the end of the reserves

ASSUME StorageAssumption ==
    /\ SnapshotPath \in [Ids -> Files]
    /\ MaxEvents \in [Ids -> Nat]
    /\ {MaxCrashes, MaxFailures} \subseteq Nat

VARIABLES
    up,         \* the process runs
    chain,      \* events of each pool so far
    repository, \* the state of each pool
    disk,       \* the content of each file
    saver,      \* the handler of one event: where it is, the event, the snapshot
    resync,     \* full_resync: where it is, files to read, snapshots to upsert
    crashes, failures,
    kept,       \* history: the last snapshot saved whole to each file
    damaged,    \* history: files whose last save was cut short
    excused,    \* history: events of each pool that may be missing
    restored    \* history: a resync that nothing else ran beside or after

process == <<up, chain, crashes, failures>>
history == <<kept, damaged, excused, restored>>
vars == <<process, repository, disk, saver, resync, history>>

Snapshot(id, seen) == [id |-> id, whole |-> TRUE, seen |-> seen]

Cut(snapshot) == [id |-> snapshot.id, whole |-> FALSE, seen |-> {}]

Snapshots == UNION {[id : {i}, whole : BOOLEAN, seen : SUBSET (1..MaxEvents[i])] : i \in Ids}

ASSUME MarkersAssumption == Nothing \notin Snapshots /\ Junk \notin Snapshots

Idle == [pc |-> "idle", event |-> 0, snapshot |-> Nothing]
Done == [pc |-> "idle", todo |-> {}, found |-> <<>>]

TypeOK ==
    /\ up \in BOOLEAN
    /\ \A id \in Ids : chain[id] \in 0..MaxEvents[id]
    /\ \A id \in Ids : repository[id] # Nothing =>
          repository[id] \in Snapshots /\ repository[id].id = id
    /\ \A f \in Files : disk[f] \notin {Nothing, Junk} =>
          disk[f] \in Snapshots /\ SnapshotPath[disk[f].id] = f
    /\ saver.pc \in {"idle", "upsert", "create", "write", "unlinked"}
    /\ saver.pc # "idle" => saver.snapshot.whole
    /\ resync.pc \in {"idle", "list", "upsert"} /\ resync.todo \subseteq Files
    /\ resync.found \in Seq(Snapshots)
    /\ crashes \in 0..MaxCrashes /\ failures \in 0..MaxFailures
    /\ damaged \subseteq Files
    /\ \A id \in Ids : excused[id] \subseteq 1..chain[id]
    /\ restored \in {"no", "so far", "yes"}

Init ==
    /\ up = TRUE /\ crashes = 0 /\ failures = 0
    /\ chain = [id \in Ids |-> 0]
    /\ repository = [id \in Ids |-> Nothing]
    /\ disk = [f \in Files |-> Nothing]
    /\ saver = Idle /\ resync = Done
    /\ kept = [f \in Files |-> Nothing]
    /\ damaged = {}
    /\ excused = [id \in Ids |-> {}]
    /\ restored = "no"

Usable(id) == repository[id] # Nothing /\ repository[id].whole

(* the event whose handling has not ended may be missing *)
Excuse(condition) ==
    excused' = IF condition /\ saver.pc # "idle"
               THEN [excused EXCEPT ![saver.snapshot.id] = @ \cup {saver.event}]
               ELSE excused

-----------------------------------------------------------------------------
(* A handler: get, upsert, save *)

(* PairCreated makes a new state; any other event is passed over without a *)
(* state, and refused if from_snapshot refuses the one there is            *)
Event(id) ==
    LET n == chain[id] + 1
        taken == up /\ saver.pc = "idle" /\ (n = 1 \/ Usable(id))
        seen == IF n = 1 THEN {} ELSE repository[id].seen
    IN /\ up => saver.pc = "idle"
       /\ n <= MaxEvents[id]
       /\ chain' = [chain EXCEPT ![id] = n]
       /\ saver' = IF taken THEN [pc |-> "upsert", event |-> n,
                                  snapshot |-> Snapshot(id, seen \cup {n})]
                   ELSE saver
       /\ excused' = IF taken /\ resync.pc = "idle" THEN excused
                     ELSE [excused EXCEPT ![id] = @ \cup {n}]
       /\ restored' = "no"
       /\ UNCHANGED <<up, crashes, failures, repository, disk, resync, kept, damaged>>

At(pc) == up /\ saver.pc = pc
Go(pc) == saver' = [saver EXCEPT !.pc = pc]
Path   == SnapshotPath[saver.snapshot.id]

UpsertNothing == repository' = repository                            \* faulty

Upsert == repository' = [repository EXCEPT ![saver.snapshot.id] = saver.snapshot]

PersistUpsert ==
    /\ At("upsert") /\ Go("create") /\ Upsert
    /\ UNCHANGED <<process, disk, resync, history>>

SaveCreate ==
    /\ At("create") /\ Go("write")
    /\ disk' = [disk EXCEPT ![Path] = Junk]
    /\ damaged' = damaged \cup {Path}
    /\ UNCHANGED <<process, repository, resync, kept, excused, restored>>

SaveWrite ==
    /\ At("write")
    /\ \E content \in {Cut(saver.snapshot), saver.snapshot} :
          /\ disk[Path] # saver.snapshot
          /\ disk' = [disk EXCEPT ![Path] = content]
    /\ UNCHANGED <<process, repository, saver, resync, history>>

Written == At("write") /\ disk[Path] = saver.snapshot

SaveFlush ==
    /\ Written /\ saver' = Idle
    /\ kept' = [kept EXCEPT ![Path] = saver.snapshot]
    /\ damaged' = damaged \ {Path}
    /\ UNCHANGED <<process, repository, disk, resync, excused, restored>>

SaveToUnlinked ==
    /\ At("unlinked") /\ saver' = Idle
    /\ Excuse(TRUE)
    /\ UNCHANGED <<process, repository, disk, resync, kept, damaged, restored>>

(* no directory, no file, not all written; or the snapshot does not serialise *)
SaveFails ==
    /\ At("create") \/ At("write")
    /\ failures < MaxFailures /\ failures' = failures + 1
    /\ saver' = Idle
    /\ Excuse(TRUE)
    /\ UNCHANGED <<up, chain, crashes, repository, disk, resync, kept, damaged, restored>>

Remove(id) ==
    /\ up /\ disk[SnapshotPath[id]] # Nothing
    /\ disk' = [disk EXCEPT ![SnapshotPath[id]] = Nothing]
    /\ kept' = [kept EXCEPT ![SnapshotPath[id]] = Nothing]
    /\ damaged' = damaged \ {SnapshotPath[id]}
    /\ IF saver.pc = "write" /\ Path = SnapshotPath[id] THEN Go("unlinked") ELSE UNCHANGED saver
    /\ restored' = "no"
    /\ UNCHANGED <<process, repository, resync, excused>>

-----------------------------------------------------------------------------
(* full_resync, for whichever pool it is asked for *)

ResyncBegin ==
    /\ up /\ resync.pc = "idle"
    /\ resync' = [pc |-> "list", todo |-> {f \in Files : disk[f] # Nothing}, found |-> <<>>]
    /\ Excuse(TRUE)
    /\ restored' = IF saver.pc = "idle" THEN "so far" ELSE "no"
    /\ UNCHANGED <<process, repository, disk, saver, kept, damaged>>

ListedUnparsed(content, found, todo) ==                           \* faulty
    [pc |-> "list", todo |-> todo,
     found |-> IF content = Nothing THEN found ELSE Append(found, content)]

ListedUntilJunk(content, found, todo) ==                          \* faulty
    IF content \in {Nothing, Junk} THEN [pc |-> "list", todo |-> {}, found |-> found]
    ELSE [pc |-> "list", todo |-> todo, found |-> Append(found, content)]

(* a file that does not parse, or is gone, is skipped *)
Listed(content, found, todo) ==
    [pc |-> "list", todo |-> todo,
     found |-> IF content \in {Nothing, Junk} THEN found ELSE Append(found, content)]

ResyncList ==
    /\ up /\ resync.pc = "list"
    /\ IF resync.todo = {} THEN resync' = [resync EXCEPT !.pc = "upsert"]
       ELSE \E f \in resync.todo :
               resync' = Listed(disk[f], resync.found, resync.todo \ {f})
    /\ UNCHANGED <<process, repository, disk, saver, history>>

ResyncUpsert ==
    /\ up /\ resync.pc = "upsert" /\ resync.found # <<>>
    /\ LET snapshot == Head(resync.found)
       IN repository' = [repository EXCEPT ![snapshot.id] = snapshot]
    /\ resync' = [resync EXCEPT !.found = Tail(@)]
    /\ UNCHANGED <<process, disk, saver, history>>

ResyncEnd ==
    /\ up /\ resync.pc = "upsert" /\ resync.found = <<>>
    /\ resync' = Done
    /\ restored' = IF restored = "so far" THEN "yes" ELSE "no"
    /\ UNCHANGED <<process, repository, disk, saver, kept, damaged, excused>>

-----------------------------------------------------------------------------

Crash ==
    /\ up /\ up' = FALSE
    /\ crashes < MaxCrashes /\ crashes' = crashes + 1
    /\ repository' = [id \in Ids |-> Nothing]
    /\ saver' = Idle /\ resync' = Done
    /\ Excuse(TRUE)
    /\ restored' = "no"
    /\ UNCHANGED <<chain, failures, disk, kept, damaged>>

Restart ==
    /\ ~up /\ up' = TRUE
    /\ UNCHANGED <<chain, crashes, failures, repository, disk, saver, resync, history>>

Next ==
    \/ \E id \in Ids : Event(id) \/ Remove(id)
    \/ PersistUpsert \/ SaveCreate \/ SaveWrite \/ SaveFlush \/ SaveToUnlinked \/ SaveFails
    \/ ResyncBegin \/ ResyncList \/ ResyncUpsert \/ ResyncEnd
    \/ Crash \/ Restart

Spec == Init /\ [][Next]_vars

-----------------------------------------------------------------------------
(* Properties *)

(* The event that is being handled *)
InHand(id) == IF saver.pc = "upsert" /\ saver.snapshot.id = id THEN {saver.event} ELSE {}

(* Whatever order saves, resyncs and crashes come in, a state that can be   *)
(* used lacks an event only if it came while the process was down or had no *)
(* state to put it in, if its save failed or was cut short, or if a resync  *)
(* ran beside its handling: a resync that listed an older file takes the    *)
(* event away again (persist_snapshot, save, full_resync).                  *)
LostIsExplained ==
    \A id \in Ids : Usable(id) =>
        (1..chain[id]) \ (repository[id].seen \cup InHand(id)) \subseteq excused[id]

(* A resync that nothing runs beside brings back every pool as it was last  *)
(* saved, whatever has become of the other files; only a pool whose file    *)
(* another pool's save has taken, or whose save was cut short, is not there *)
(* (list skips what does not parse, snapshot_path, save).                   *)
ResyncRestores ==
    restored = "yes" =>
        \A f \in Files : kept[f] # Nothing /\ f \notin damaged => repository[kept[f].id] = kept[f]
=============================================================================
