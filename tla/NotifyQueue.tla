---------------------------- MODULE NotifyQueue ----------------------------
(***************************************************************************)
(* InMemoryEventQueue (event/queue.rs): a VecDeque behind a mutex, a tokio *)
(* Notify and an atomic `closed' flag.  Every operator below is one step a *)
(* task takes without another task getting in between: one atomic access,  *)
(* one critical section, or one call on the Notify.  The tasks that string *)
(* these steps together, with their program counters, are in               *)
(* EventListener.                                                          *)
(*                                                                         *)
(* tokio's Notify: notify_one hands its wake-up to the task that has waited*)
(* longest, and leaves a single permit behind when nobody waits;           *)
(* notify_waiters wakes whoever is registered at that instant and leaves   *)
(* nothing behind.                                                         *)
(***************************************************************************)
EXTENDS Naturals, Sequences

VARIABLES items,    \* inner: the queued events, oldest first
          closed,   \* closed: set by shutdown and never reset
          permit,   \* notify: a stored notify_one
          waiters   \* notify: the tasks registered in notified(), oldest first

queueVars == <<items, closed, permit, waiters>>

QueueInit ==
    /\ items = <<>>
    /\ closed = FALSE
    /\ permit = FALSE
    /\ waiters = <<>>

PushFront(e) ==                                  \* faulty
    /\ items' = <<e>> \o items
    /\ UNCHANGED <<closed, permit, waiters>>

(* inner.lock(); push_back(event) *)
PushBack(e) ==
    /\ items' = Append(items, e)
    /\ UNCHANGED <<closed, permit, waiters>>

PeekFront ==                                     \* faulty
    /\ items # <<>>
    /\ UNCHANGED <<items, closed, permit, waiters>>

(* inner.lock(); pop_front(), when it returns Some *)
PopFront ==
    /\ items # <<>>
    /\ items' = Tail(items)
    /\ UNCHANGED <<closed, permit, waiters>>

NotifyOneNoPermit ==                             \* faulty
    /\ waiters' = IF waiters = <<>> THEN <<>> ELSE Tail(waiters)
    /\ UNCHANGED <<items, closed, permit>>

NotifyOne ==
    /\ IF waiters = <<>>
       THEN permit' = TRUE /\ UNCHANGED waiters
       ELSE waiters' = Tail(waiters) /\ UNCHANGED permit
    /\ UNCHANGED <<items, closed>>

(* notified().await when a permit is there: it is consumed, without waiting *)
TakePermit ==
    /\ permit
    /\ permit' = FALSE
    /\ UNCHANGED <<items, closed, waiters>>

(* notified().await without a permit: the task registers and sleeps *)
Register(t) ==
    /\ ~permit
    /\ waiters' = Append(waiters, t)
    /\ UNCHANGED <<items, closed, permit>>

(* The two steps of do_shutdown. *)
SetClosed ==
    /\ closed' = TRUE
    /\ UNCHANGED <<items, permit, waiters>>

NotifyWaiters ==
    /\ waiters' = <<>>
    /\ UNCHANGED <<items, closed, permit>>
=============================================================================
