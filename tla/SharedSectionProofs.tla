-------------------------- MODULE SharedSectionProofs --------------------------
(***************************************************************************)
(* The safety invariants of SharedSection for any number of threads,       *)
(* CSharedLocks and nesting levels.  They are inductive together, once     *)
(* what is said of a blocked writer is said of a notified one too.         *)
(***************************************************************************)
EXTENDS SharedSection, FiniteSetTheorems, TLAPS

\* A thread inside lock()'s wait has no lock of either kind.
WaitsWithNothing ==
  \A t \in Thread : pc[t] # "run" => ~HasShared(t) /\ owner # t

IInv ==
  /\ TypeOK
  /\ MutualExclusion
  /\ CountExact
  /\ NoLostWakeup
  /\ WaitsWithNothing

-------------------------------------------------------------------------------

\* The CSharedLocks that are held are counted by a natural number, which is 0
\* exactly when nobody holds one.
LEMMA HeldCount ==
  /\ IsFiniteSet(Held)
  /\ Cardinality(Held) \in Nat
  /\ Cardinality(Held) = 0 <=> Held = {}
<1>1. IsFiniteSet(SharedLock)
  BY SharedSectionAssumption
<1>2. Held \in SUBSET SharedLock
  BY DEF Held
<1>3. IsFiniteSet(Held)
  BY <1>1, <1>2, FS_Subset
<1> QED
  BY <1>3, FS_CardinalityType, FS_EmptySet

\* Without readers, no CSharedLock has a holder (sharedCount is exact).
LEMMA NoReaders ==
  ASSUME CountExact, sharedCount = 0
  PROVE  \A l \in SharedLock : holder[l] = NULL
<1>1. Held = {}
  BY HeldCount DEF CountExact
<1> QED
  BY <1>1 DEF Held

\* With readers, some CSharedLock has a holder.
LEMMA SomeReader ==
  ASSUME CountExact, sharedCount # 0
  PROVE  \E l \in SharedLock : holder[l] # NULL
<1>1. Held # {}
  BY HeldCount DEF CountExact
<1> QED
  BY <1>1 DEF Held

\* lock() waits only for other threads: a thread without a CSharedLock that
\* has locked sec and finds readers does not have sec from an outer lock().
LEMMA WaitsForOthers ==
  ASSUME IInv, NEW t \in Thread, ~HasShared(t), sharedCount # 0
  PROVE  owner # t
<1>1. PICK l \in SharedLock : holder[l] # NULL
  BY SomeReader DEF IInv
<1> QED
  BY <1>1, SharedSectionAssumption DEF IInv, MutualExclusion, HasShared

\* Nobody holds or waits for the lock at first.
LEMMA InitInv == Init => IInv
<1> SUFFICES ASSUME Init PROVE IInv
  OBVIOUS
<1>1. TypeOK
  BY DEF Init, TypeOK
<1>2. Held = {}
  BY DEF Init, Held
<1>3. CountExact
  BY <1>2, FS_EmptySet DEF Init, CountExact
<1> QED
  BY <1>1, <1>3 DEF Init, IInv, MutualExclusion, NoLostWakeup, WaitsWithNothing

\* The part of lock() after sec is locked, for a thread in `run' or `notified'.
LEMMA LockOrWaitInv ==
  ASSUME IInv, NEW t \in Thread, CanEnter(t), ~HasShared(t), LockOrWait(t),
         UNCHANGED <<sharedCount, holder>>
  PROVE  IInv'
<1>0. Held' = Held /\ \A u \in Thread : HasShared(u)' = HasShared(u)
  BY DEF Held, HasShared
<1>1. CASE sharedCount = 0 /\ owner' = t /\ depth' = depth + 1
           /\ pc' = [pc EXCEPT ![t] = "run"]
  <2>1. \A l \in SharedLock : holder[l] = NULL
    BY <1>1, NoReaders DEF IInv
  <2>2. TypeOK'
    BY <1>1, SharedSectionAssumption DEF IInv, TypeOK
  <2>3. MutualExclusion'
    BY <2>1 DEF MutualExclusion
  <2>4. CountExact'
    BY <1>0 DEF IInv, CountExact
  <2>5. NoLostWakeup' /\ WaitsWithNothing'
    BY <1>0, <1>1 DEF IInv, TypeOK, CanEnter, NoLostWakeup, WaitsWithNothing
  <2> QED
    BY <2>2, <2>3, <2>4, <2>5 DEF IInv
<1>2. CASE sharedCount # 0 /\ pc' = [pc EXCEPT ![t] = "blocked"]
           /\ UNCHANGED <<owner, depth>>
  <2>1. owner # t
    BY <1>2, WaitsForOthers
  <2>2. TypeOK'
    BY <1>2 DEF IInv, TypeOK
  <2>3. MutualExclusion' /\ CountExact'
    BY <1>0, <1>2 DEF IInv, MutualExclusion, CountExact
  <2>4. NoLostWakeup' /\ WaitsWithNothing'
    BY <1>0, <1>2, <2>1 DEF IInv, TypeOK, NoLostWakeup, WaitsWithNothing
  <2> QED
    BY <2>2, <2>3, <2>4 DEF IInv
<1> QED
  BY <1>1, <1>2 DEF LockOrWait

\* lock() by a thread that has no CSharedLock keeps the invariant.
LEMMA lockInv ==
  ASSUME IInv, NEW t \in Thread, lock(t)
  PROVE  IInv'
BY LockOrWaitInv DEF lock

\* A notified thread has no CSharedLock: it could not have got one since.
LEMMA RelockInv ==
  ASSUME IInv, NEW t \in Thread, Relock(t)
  PROVE  IInv'
<1>1. ~HasShared(t)
  BY DEF IInv, WaitsWithNothing, Relock
<1> QED
  BY <1>1, LockOrWaitInv DEF Relock

\* try_lock succeeds only without readers.
LEMMA try_lockInv ==
  ASSUME IInv, NEW t \in Thread, try_lock(t)
  PROVE  IInv'
<1>1. \A l \in SharedLock : holder[l] = NULL
  BY NoReaders DEF IInv, try_lock
<1>2. Held' = Held /\ \A u \in Thread : HasShared(u)' = HasShared(u)
  BY DEF Held, HasShared, try_lock
<1>3. TypeOK'
  BY SharedSectionAssumption DEF IInv, TypeOK, try_lock
<1>4. MutualExclusion' /\ CountExact'
  BY <1>1, <1>2 DEF IInv, MutualExclusion, CountExact, try_lock
<1>5. NoLostWakeup' /\ WaitsWithNothing'
  BY <1>2 DEF IInv, NoLostWakeup, WaitsWithNothing, try_lock, CanEnter
<1> QED
  BY <1>3, <1>4, <1>5 DEF IInv

\* unlock gives back one level of sec, the last one frees it.
LEMMA unlockInv ==
  ASSUME IInv, NEW t \in Thread, unlock(t)
  PROVE  IInv'
<1>1. Held' = Held /\ \A u \in Thread : HasShared(u)' = HasShared(u)
  BY DEF Held, HasShared, unlock
<1>2. TypeOK'
  BY SharedSectionAssumption DEF IInv, TypeOK, unlock
<1>3. MutualExclusion' /\ CountExact'
  BY <1>1 DEF IInv, MutualExclusion, CountExact, unlock
<1>4. NoLostWakeup' /\ WaitsWithNothing'
  BY <1>1, SharedSectionAssumption DEF IInv, NoLostWakeup, WaitsWithNothing, unlock
<1> QED
  BY <1>2, <1>3, <1>4 DEF IInv

\* A reader passes through sec: no other thread is the writer.
LEMMA lock_sharedInv ==
  ASSUME IInv, NEW t \in Thread, NEW l \in SharedLock, lock_shared(t, l)
  PROVE  IInv'
<1>1. holder' = [holder EXCEPT ![l] = t] /\ holder[l] = NULL /\ t # NULL
  BY SharedSectionAssumption DEF lock_shared
<1>2. Held' = Held \cup {l} /\ l \notin Held
  BY <1>1 DEF IInv, TypeOK, Held
<1>3. Cardinality(Held') = Cardinality(Held) + 1
  BY <1>2, HeldCount, FS_AddElement
<1>4. TypeOK'
  BY <1>1 DEF IInv, TypeOK, lock_shared
<1>5. MutualExclusion'
  BY <1>1 DEF IInv, TypeOK, MutualExclusion, lock_shared, CanEnter
<1>6. CountExact'
  BY <1>3 DEF IInv, CountExact, lock_shared
<1>7. \A u \in Thread : HasShared(u)' => HasShared(u) \/ u = t
  BY <1>1 DEF IInv, TypeOK, HasShared
<1>8. NoLostWakeup' /\ WaitsWithNothing'
  BY <1>7 DEF IInv, TypeOK, NoLostWakeup, WaitsWithNothing, lock_shared
<1> QED
  BY <1>4, <1>5, <1>6, <1>8 DEF IInv

\* The last reader leaves no writer blocked.
LEMMA unlock_sharedInv ==
  ASSUME IInv, NEW t \in Thread, NEW l \in SharedLock, unlock_shared(t, l)
  PROVE  IInv'
<1>1. holder' = [holder EXCEPT ![l] = NULL] /\ holder[l] = t /\ t # NULL
  BY SharedSectionAssumption DEF unlock_shared
<1>2. Held' = Held \ {l} /\ l \in Held
  BY <1>1 DEF IInv, TypeOK, Held
<1>3. Cardinality(Held') = Cardinality(Held) - 1 /\ Cardinality(Held) > 0
  <2>1. Cardinality(Held \ {l}) = Cardinality(Held) - 1
    BY <1>2, HeldCount, FS_RemoveElement
  <2>2. Held # {}
    BY <1>2
  <2> QED
    BY <1>2, <2>1, <2>2, HeldCount
<1>4. sharedCount \in Nat /\ sharedCount > 0 /\ sharedCount' = sharedCount - 1
  BY <1>3 DEF IInv, TypeOK, CountExact, unlock_shared
<1>5. \A u \in Thread : pc'[u] # "run" => pc[u] # "run"
  BY DEF IInv, TypeOK, unlock_shared
<1>6. \A u \in Thread : pc'[u] = "blocked" => pc[u] = "blocked" /\ sharedCount # 1
  BY DEF IInv, TypeOK, unlock_shared
<1>7. TypeOK'
  BY <1>1, <1>4 DEF IInv, TypeOK, unlock_shared
<1>8. MutualExclusion'
  BY <1>1 DEF IInv, TypeOK, MutualExclusion, unlock_shared
<1>9. CountExact'
  BY <1>3 DEF IInv, CountExact, unlock_shared
<1>10. \A u \in Thread : HasShared(u)' => HasShared(u)
  BY <1>1, SharedSectionAssumption DEF IInv, TypeOK, HasShared
<1>11. NoLostWakeup' /\ WaitsWithNothing'
  BY <1>4, <1>5, <1>6, <1>10 DEF IInv, NoLostWakeup, WaitsWithNothing, unlock_shared
<1> QED
  BY <1>7, <1>8, <1>9, <1>11 DEF IInv

\* Every step of the lock keeps the invariant: one case for each action.
LEMMA NextInv == IInv /\ [Next]_vars => IInv'
<1> SUFFICES ASSUME IInv, [Next]_vars PROVE IInv'
  OBVIOUS
<1>1. CASE UNCHANGED vars
  BY <1>1 DEF vars, IInv, TypeOK, MutualExclusion, CountExact, NoLostWakeup,
     WaitsWithNothing, HasShared, Held
<1>2. ASSUME NEW t \in Thread,
             lock(t) \/ Relock(t) \/ try_lock(t) \/ unlock(t)
      PROVE  IInv'
  BY <1>2, lockInv, RelockInv, try_lockInv, unlockInv
<1>3. ASSUME NEW t \in Thread, NEW l \in SharedLock,
             lock_shared(t, l) \/ unlock_shared(t, l)
      PROVE  IInv'
  BY <1>3, lock_sharedInv, unlock_sharedInv
<1> QED
  BY <1>1, <1>2, <1>3 DEF Next

\* The inductive invariant holds in every behaviour of the lock.
LEMMA Invariant == Spec => []IInv
<1> QED
  BY InitInv, NextInv, PTL DEF Spec

(***************************************************************************)
(* Readers and a writer exclude each other, however lock and CSharedLock   *)
(* objects are nested and interleaved (SharedSection.h l.41-47).           *)
(***************************************************************************)
THEOREM ReadersAndWriterExclude == Spec => []MutualExclusion
<1>1. IInv => MutualExclusion
  BY DEF IInv
<1> QED
  BY <1>1, Invariant, PTL

(***************************************************************************)
(* A writer that is blocked and not notified waits for a reader other than *)
(* itself, who will notify it (unlock_shared l.47).                        *)
(***************************************************************************)
THEOREM NoWriterForgotten == Spec => []NoLostWakeup
<1>1. IInv => NoLostWakeup
  BY DEF IInv
<1> QED
  BY <1>1, Invariant, PTL

(***************************************************************************)
(* sharedCount is the number of CSharedLocks held: never negative, and 0   *)
(* only when the last one was given back.                                  *)
(***************************************************************************)
THEOREM ReadersCounted == Spec => [](TypeOK /\ CountExact)
<1>1. IInv => TypeOK /\ CountExact
  BY DEF IInv
<1> QED
  BY <1>1, Invariant, PTL

===============================================================================
