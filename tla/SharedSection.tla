----------------------------- MODULE SharedSection -----------------------------
(***************************************************************************)
(* CSharedSection (threads/SharedSection.h): a readers/writer lock built   *)
(* from a recursive mutex `sec', a count of readers and a condition        *)
(* variable on which writers wait for that count to be 0.  A writer keeps  *)
(* `sec' locked; a reader only passes through it.                          *)
(*                                                                         *)
(* Threads use it through CSharedLock objects (a member of SharedLock      *)
(* here, held by the thread that constructed it) and CExclusiveLock        *)
(* objects (counted per thread by the recursion depth of `sec').           *)
(*                                                                         *)
(* A thread that has a CSharedLock does not ask for the exclusive lock: it *)
(* would wait for itself.  That is the one rule users must keep.           *)
(***************************************************************************)
EXTENDS Integers, FiniteSets

CONSTANTS
  Thread,
  SharedLock,   \* CSharedLock objects
  MaxDepth,     \* bound on nested CExclusiveLocks of one thread
  NULL

ASSUME SharedSectionAssumption ==
  /\ NULL \notin Thread
  /\ MaxDepth \in Nat \ {0}
  /\ IsFiniteSet(SharedLock)

VARIABLES
  owner,         \* the thread that has locked sec between two steps
  depth,         \* how many times
  sharedCount,
  holder,        \* of a CSharedLock: the thread that has it, or NULL
  pc             \* of a thread: "run", "blocked" in the condition variable,
                 \* or "notified" and waiting to lock sec again

vars == <<owner, depth, sharedCount, holder, pc>>

Held == {l \in SharedLock : holder[l] # NULL}
HasShared(t) == \E l \in SharedLock : holder[l] = t

Init ==
  /\ owner = NULL
  /\ depth = 0
  /\ sharedCount = 0
  /\ holder = [l \in SharedLock |-> NULL]
  /\ pc = [t \in Thread |-> "run"]

-------------------------------------------------------------------------------

\* t can lock the recursive mutex now.
CanEnter(t) == owner \in {NULL, t}

\* The rest of lock(), sec locked: wait if there are readers, else keep sec.
LockOrWait(t) ==
  \/ /\ sharedCount = 0
     /\ owner' = t
     /\ depth' = depth + 1
     /\ pc' = [pc EXCEPT ![t] = "run"]
  \/ /\ sharedCount # 0
     /\ pc' = [pc EXCEPT ![t] = "blocked"]
     /\ UNCHANGED <<owner, depth>>

lock(t) ==
  /\ pc[t] = "run"
  /\ ~HasShared(t)
  /\ CanEnter(t)
  /\ depth < MaxDepth
  /\ LockOrWait(t)
  /\ UNCHANGED <<sharedCount, holder>>

\* A notified writer has sec again and tests sharedCount again.
Relock(t) ==
  /\ pc[t] = "notified"
  /\ CanEnter(t)
  /\ LockOrWait(t)
  /\ UNCHANGED <<sharedCount, holder>>

\* Mutant: the readers are not looked at.
try_lock_NoReaders(t) ==
  /\ pc[t] = "run"
  /\ CanEnter(t)
  /\ depth < MaxDepth
  /\ owner' = t
  /\ depth' = depth + 1
  /\ UNCHANGED <<sharedCount, holder, pc>>

\* try_lock succeeds; when it fails it leaves everything as it was.
try_lock(t) ==
  /\ pc[t] = "run"
  /\ CanEnter(t)
  /\ depth < MaxDepth
  /\ sharedCount = 0
  /\ owner' = t
  /\ depth' = depth + 1
  /\ UNCHANGED <<sharedCount, holder, pc>>

\* One level of sec is unlocked; after the last one it is free.
unlock(t) ==
  /\ pc[t] = "run"
  /\ owner = t
  /\ depth' = depth - 1
  /\ owner' = IF depth = 1 THEN NULL ELSE t
  /\ UNCHANGED <<sharedCount, holder, pc>>

\* lock_shared, and try_lock_shared when it succeeds.
lock_shared(t, l) ==
  /\ pc[t] = "run"
  /\ holder[l] = NULL
  /\ CanEnter(t)
  /\ sharedCount' = sharedCount + 1
  /\ holder' = [holder EXCEPT ![l] = t]
  /\ UNCHANGED <<owner, depth, pc>>

\* Mutant: a reader that is not the last is not counted down.
unlock_shared_NoCount(t, l) ==
  /\ pc[t] = "run"
  /\ holder[l] = t
  /\ CanEnter(t)
  /\ sharedCount' = IF sharedCount = 1 THEN 0 ELSE sharedCount
  /\ holder' = [holder EXCEPT ![l] = NULL]
  /\ UNCHANGED <<owner, depth, pc>>

\* Mutant: the last reader does not notify.
unlock_shared_NoNotify(t, l) ==
  /\ pc[t] = "run"
  /\ holder[l] = t
  /\ CanEnter(t)
  /\ sharedCount' = sharedCount - 1
  /\ holder' = [holder EXCEPT ![l] = NULL]
  /\ UNCHANGED <<owner, depth, pc>>

\* The last reader wakes all the writers.
unlock_shared(t, l) ==
  /\ pc[t] = "run"
  /\ holder[l] = t
  /\ CanEnter(t)
  /\ sharedCount' = sharedCount - 1
  /\ holder' = [holder EXCEPT ![l] = NULL]
  /\ pc' = IF sharedCount = 1
           THEN [u \in Thread |-> IF pc[u] = "blocked" THEN "notified" ELSE pc[u]]
           ELSE pc
  /\ UNCHANGED <<owner, depth>>

Next ==
  \E t \in Thread :
    \/ lock(t) \/ Relock(t) \/ try_lock(t) \/ unlock(t)
    \/ \E l \in SharedLock : lock_shared(t, l) \/ unlock_shared(t, l)

Spec == Init /\ [][Next]_vars

(***************************************************************************)
(* A notified writer gets sec, and threads give back the locks they have,  *)
(* the last level of a nested one too.  sec is free again and again rather *)
(* than for good, hence strong fairness.                                   *)
(***************************************************************************)
FairSpec ==
  /\ Spec
  /\ \A t \in Thread :
       /\ SF_vars(Relock(t))
       /\ WF_vars(unlock(t)) /\ SF_vars(unlock(t) /\ depth = 1)
       /\ \A l \in SharedLock : SF_vars(unlock_shared(t, l))

-------------------------------------------------------------------------------
(* Properties *)

\* The type of every variable; depth is positive exactly while sec is locked.
TypeOK ==
  /\ owner \in Thread \cup {NULL}
  /\ depth \in Nat
  /\ depth = 0 <=> owner = NULL
  /\ sharedCount \in Nat
  /\ holder \in [SharedLock -> Thread \cup {NULL}]
  /\ pc \in [Thread -> {"run", "blocked", "notified"}]

(***************************************************************************)
(* Readers and a writer exclude each other: while a thread has the         *)
(* exclusive lock no other thread has a shared one (lock l.41 leaves sec   *)
(* while it waits; lock_shared l.45 does not look at who waits).           *)
(***************************************************************************)
MutualExclusion ==
  owner # NULL => \A l \in SharedLock : holder[l] \in {NULL, owner}

\* The count is the number of CSharedLocks that are held.
CountExact == sharedCount = Cardinality(Held)

(***************************************************************************)
(* No lost wakeup: a writer that is blocked and not notified waits for     *)
(* somebody who will notify it, a reader (unlock_shared l.47).             *)
(***************************************************************************)
NoLostWakeup ==
  \A t \in Thread : pc[t] = "blocked" => sharedCount > 0 /\ ~HasShared(t) /\ owner # t

(***************************************************************************)
(* A writer waits for ever only while readers keep arriving: lock_shared   *)
(* passes a waiting writer, so nothing better holds.  No other writer and  *)
(* no try_lock can keep it out.                                            *)
(***************************************************************************)
WriterServed ==
  \A t \in Thread :
    <>[](pc[t] # "run") =>
      []<><<\E u \in Thread : \E l \in SharedLock : lock_shared(u, l)>>_vars

===============================================================================
