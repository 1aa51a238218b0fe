--------------------------- MODULE JobManagerProofs ---------------------------
(***************************************************************************)
(* The safety invariants of JobManager, for every number of jobs, worker   *)
(* threads, callbacks and priorities, and that it implements JobService.   *)
(***************************************************************************)
EXTENDS JobManagerImpl, FiniteSetTheorems, SequenceTheorems, TLAPS

-------------------------------------------------------------------------------
(* The inductive invariant *)

\* A job waits in the queue of its own priority.
Filed == \A p \in Priority : \A j \in Queued(p) : item[j].priority = p

\* A worker has a job exactly while it is busy, and a copy of a callback
\* exactly around the calls of client code.
Locals ==
  \A w \in Worker :
    /\ pc[w] \notin BusyPC => held[w] = NULL
    /\ copied[w] # NULL => pc[w] \in {"progress", "notify", "callback"}

\* A manager that is stopping or has stopped has nothing queued.
Stopping ==
  /\ ~m_running => AllQueued = {}
  /\ canceller = "draining" => ~m_running

IInv ==
  /\ TypeOK
  /\ JobHeldOnce
  /\ WorkerBound
  /\ PriorityReserve
  /\ NoStrandedJob
  /\ DrainedQuiet
  /\ Filed
  /\ Locals
  /\ Stopping

-------------------------------------------------------------------------------
(* Queues *)

\* No job is at two places of the queues q.
Distinct(q) ==
  \A p, r \in Priority : \A i \in 1..Len(q[p]), k \in 1..Len(q[r]) :
    q[p][i] = q[r][k] => p = r /\ i = k

\* The queues without place k of priority p, and with j at the end of p.
Without(q, p, k) == [q EXCEPT ![p] = RemoveAt(@, k)]
With(q, p, j) == [q EXCEPT ![p] = Append(@, j)]

\* The elements of a sequence are those at its places.
LEMMA Elements ==
  ASSUME NEW S, NEW s \in Seq(S)
  PROVE  /\ ToSet(s) = {s[i] : i \in 1..Len(s)}
         /\ ToSet(s) \subseteq S
         /\ s = <<>> <=> ToSet(s) = {}
<1>1. DOMAIN s = 1..Len(s) /\ Len(s) \in Nat /\ \A i \in 1..Len(s) : s[i] \in S
  BY LenProperties, ElementOfSeq
<1>2. s = <<>> <=> Len(s) = 0
  BY EmptySeq
<1>3. ToSet(s) = {s[i] : i \in 1..Len(s)}
  BY <1>1 DEF ToSet
<1>4. ToSet(s) \subseteq S
  BY <1>1, <1>3
<1>5. s = <<>> <=> ToSet(s) = {}
  <2>1. Len(s) = 0 => 1..Len(s) = {}
    BY <1>1
  <2>2. Len(s) # 0 => 1 \in 1..Len(s)
    BY <1>1
  <2> QED
    BY <1>2, <1>3, <2>1, <2>2
<1> QED
  BY <1>3, <1>4, <1>5

\* What Append makes of a queue.
LEMMA Appended ==
  ASSUME NEW S, NEW s \in Seq(S), NEW e \in S
  PROVE  /\ Append(s, e) \in Seq(S)
         /\ Len(Append(s, e)) = Len(s) + 1
         /\ \A i \in 1..(Len(s) + 1) : Append(s, e)[i] = IF i <= Len(s) THEN s[i] ELSE e
         /\ ToSet(Append(s, e)) = ToSet(s) \cup {e}
<1>1. /\ Append(s, e) \in Seq(S)
      /\ Len(Append(s, e)) = Len(s) + 1
      /\ \A i \in 1..Len(s) : Append(s, e)[i] = s[i]
      /\ Append(s, e)[Len(s) + 1] = e
      /\ Len(s) \in Nat
  BY AppendProperties, LenProperties
<1>2. \A i \in 1..(Len(s) + 1) : Append(s, e)[i] = IF i <= Len(s) THEN s[i] ELSE e
  BY <1>1
<1>3. ToSet(Append(s, e)) = {Append(s, e)[i] : i \in 1..Len(Append(s, e))}
  BY <1>1, Elements
<1>4. ToSet(s) = {s[i] : i \in 1..Len(s)}
  BY Elements
<1>5. {Append(s, e)[i] : i \in 1..(Len(s) + 1)} = {s[i] : i \in 1..Len(s)} \cup {e}
  BY <1>1
<1>6. ToSet(Append(s, e)) = ToSet(s) \cup {e}
  BY <1>1, <1>3, <1>4, <1>5
<1> QED
  BY <1>1, <1>2, <1>6

\* What RemoveAt leaves of a queue: the places after k move down by one.
LEMMA Removed ==
  ASSUME NEW S, NEW s \in Seq(S), NEW k \in 1..Len(s)
  PROVE  /\ RemoveAt(s, k) \in Seq(S)
         /\ Len(RemoveAt(s, k)) = Len(s) - 1
         /\ \A i \in 1..(Len(s) - 1) :
              RemoveAt(s, k)[i] = s[IF i < k THEN i ELSE i + 1]
<1> DEFINE a == SubSeq(s, 1, k - 1)
           b == SubSeq(s, k + 1, Len(s))
<1>1. Len(s) \in Nat /\ \A i \in 1..Len(s) : s[i] \in S
  BY LenProperties, ElementOfSeq
<1>2. /\ a \in Seq(S)
      /\ Len(a) = k - 1
      /\ \A i \in 1..(k - 1) : a[i] = s[i]
  <2>1. \A i \in 1..(k - 1) : s[i] \in S
    BY <1>1
  <2>2. /\ a \in Seq(S)
        /\ Len(a) = IF 1 <= k - 1 THEN k - 1 - 1 + 1 ELSE 0
        /\ \A i \in 1..(k - 1 - 1 + 1) : a[i] = s[1 + i - 1]
    BY <1>1, <2>1, SubSeqProperties
  <2> QED
    BY <1>1, <2>2
<1>3. /\ b \in Seq(S)
      /\ Len(b) = Len(s) - k
      /\ \A i \in 1..(Len(s) - k) : b[i] = s[k + i]
  <2>1. \A i \in (k + 1)..Len(s) : s[i] \in S
    BY <1>1
  <2>2. /\ b \in Seq(S)
        /\ Len(b) = IF k + 1 <= Len(s) THEN Len(s) - (k + 1) + 1 ELSE 0
        /\ \A i \in 1..(Len(s) - (k + 1) + 1) : b[i] = s[(k + 1) + i - 1]
    BY <1>1, <2>1, SubSeqProperties
  <2> QED
    BY <1>1, <2>2
<1>4. RemoveAt(s, k) = a \o b
  BY DEF RemoveAt
<1>5. /\ a \o b \in Seq(S)
      /\ Len(a \o b) = Len(a) + Len(b)
      /\ \A i \in 1..(Len(a) + Len(b)) :
           (a \o b)[i] = IF i <= Len(a) THEN a[i] ELSE b[i - Len(a)]
  BY <1>2, <1>3, ConcatProperties
<1> HIDE DEF a, b
<1>6. \A i \in 1..(Len(s) - 1) : (a \o b)[i] = s[IF i < k THEN i ELSE i + 1]
  <2> TAKE i \in 1..(Len(s) - 1)
  <2>1. (a \o b)[i] = IF i <= k - 1 THEN a[i] ELSE b[i - (k - 1)]
    BY <1>1, <1>2, <1>3, <1>5
  <2>2. CASE i < k
    BY <1>1, <1>2, <2>1, <2>2
  <2>3. CASE ~(i < k)
    <3>1. i - (k - 1) \in 1..(Len(s) - k) /\ k + (i - (k - 1)) = i + 1
      BY <1>1, <2>3
    <3> QED
      BY <1>1, <1>3, <2>1, <2>3, <3>1
  <2> QED
    BY <2>2, <2>3
<1> QED
  BY <1>1, <1>2, <1>3, <1>4, <1>5, <1>6

\* If no element was at two places, exactly the one at k is gone.
LEMMA RemovedElements ==
  ASSUME NEW S, NEW s \in Seq(S), NEW k \in 1..Len(s),
         \A i, l \in 1..Len(s) : s[i] = s[l] => i = l
  PROVE  ToSet(RemoveAt(s, k)) = ToSet(s) \ {s[k]}
<1> DEFINE r == RemoveAt(s, k)
<1>1. /\ Len(s) \in Nat /\ k \in Int
      /\ r \in Seq(S)
      /\ Len(r) = Len(s) - 1
      /\ \A i \in 1..(Len(s) - 1) : r[i] = s[IF i < k THEN i ELSE i + 1]
  <2>1. Len(s) \in Nat /\ k \in Int
    BY LenProperties
  <2>2. /\ RemoveAt(s, k) \in Seq(S)
        /\ Len(RemoveAt(s, k)) = Len(s) - 1
        /\ \A i \in 1..(Len(s) - 1) :
             RemoveAt(s, k)[i] = s[IF i < k THEN i ELSE i + 1]
    BY Removed, Zenon
  <2> QED
    BY <2>1, <2>2
<1> HIDE DEF r
<1>2. ToSet(s) = {s[i] : i \in 1..Len(s)} /\ ToSet(r) = {r[i] : i \in 1..Len(r)}
  BY <1>1, Elements
<1>3. ASSUME NEW i \in 1..Len(r)
      PROVE  r[i] \in ToSet(s) /\ r[i] # s[k]
  <2>1. PICK n \in 1..Len(s) : n # k /\ r[i] = s[n]
    <3>1. CASE i < k
      BY <1>1, <3>1
    <3>2. CASE ~(i < k)
      BY <1>1, <3>2
    <3> QED
      BY <3>1, <3>2
  <2> QED
    BY <1>2, <2>1
<1>4. ASSUME NEW n \in 1..Len(s), n # k
      PROVE  s[n] \in ToSet(r)
  <2>1. CASE n < k
    <3>1. n \in 1..Len(r) /\ r[n] = s[n]
      BY <1>1, <2>1
    <3> QED
      BY <1>2, <3>1
  <2>2. CASE n > k
    <3>1. n - 1 \in 1..Len(r) /\ r[n - 1] = s[n]
      BY <1>1, <2>2
    <3> QED
      BY <1>2, <3>1
  <2> QED
    BY <1>1, <1>4, <2>1, <2>2
<1>5. ToSet(r) = ToSet(s) \ {s[k]}
  <2>1. ToSet(r) \subseteq ToSet(s) \ {s[k]}
    BY <1>2, <1>3
  <2>2. ToSet(s) \ {s[k]} \subseteq ToSet(r)
    BY <1>2, <1>4
  <2> QED
    BY <2>1, <2>2
<1> QED
  BY <1>5 DEF r

\* Taking the head is removing the first.
LEMMA TailRemoves ==
  ASSUME NEW S, NEW s \in Seq(S), s # <<>>
  PROVE  Tail(s) = RemoveAt(s, 1) /\ 1 \in 1..Len(s) /\ Head(s) = s[1]
<1>1. Len(s) \in Nat \ {0} /\ \A i \in 1..Len(s) : s[i] \in S
  BY EmptySeq, ElementOfSeq
<1>2. Tail(s) = SubSeq(s, 2, Len(s)) /\ Tail(s) \in Seq(S)
  BY TailIsSubSeq, HeadTailProperties
<1>3. SubSeq(s, 1, 0) = <<>>
  BY SubSeqEmpty
<1>4. RemoveAt(s, 1) = SubSeq(s, 1, 0) \o SubSeq(s, 2, Len(s))
  BY DEF RemoveAt
<1> QED
  BY <1>1, <1>2, <1>3, <1>4, ConcatEmptySeq

(***************************************************************************)
(* A queue loses one place: no job is at two places still, and the job     *)
(* that was there is in no queue any more.                                 *)
(***************************************************************************)
LEMMA OneLess ==
  ASSUME NEW q \in [Priority -> Seq(Job)], Distinct(q),
         NEW p \in Priority, NEW k \in 1..Len(q[p])
  PROVE  /\ Without(q, p, k) \in [Priority -> Seq(Job)]
         /\ Distinct(Without(q, p, k))
         /\ \A x \in Priority : \A j :
              j \in ToSet(Without(q, p, k)[x]) <=> j \in ToSet(q[x]) /\ j # q[p][k]
         /\ \A x \in Priority : Without(q, p, k)[x] # <<>> => q[x] # <<>>
         /\ q[p][k] \in ToSet(q[p])
<1> DEFINE r == Without(q, p, k)
<1>0. r = [q EXCEPT ![p] = RemoveAt(@, k)]
  BY DEF Without
<1> HIDE DEF r
<1>1. q[p] \in Seq(Job) /\ \A x \in Priority : q[x] \in Seq(Job) /\ Len(q[x]) \in Nat
  BY LenProperties
<1>2. /\ r[p] \in Seq(Job)
      /\ Len(r[p]) = Len(q[p]) - 1
      /\ \A i \in 1..(Len(q[p]) - 1) : r[p][i] = q[p][IF i < k THEN i ELSE i + 1]
  BY <1>0, <1>1, Removed
<1>3. \A x \in Priority : x # p => r[x] = q[x]
  BY <1>0
<1>4. r \in [Priority -> Seq(Job)]
  BY <1>0, <1>1, <1>2
<1>5. Distinct(r)
  <2>1. ASSUME NEW x \in Priority, NEW i \in 1..Len(r[x])
        PROVE  \E m \in 1..Len(q[x]) : /\ r[x][i] = q[x][m]
                                       /\ m = IF x = p /\ ~(i < k) THEN i + 1 ELSE i
    <3>1. CASE x = p
      <4>1. r[p][i] = q[p][IF i < k THEN i ELSE i + 1]
        BY <1>1, <1>2, <3>1
      <4>2. (IF i < k THEN i ELSE i + 1) \in 1..Len(q[p])
        BY <1>1, <1>2, <3>1
      <4> QED
        BY <3>1, <4>1, <4>2
    <3>2. CASE x # p
      BY <1>3, <3>2
    <3> QED
      BY <3>1, <3>2
  <2>2. SUFFICES ASSUME NEW x \in Priority, NEW y \in Priority,
                        NEW i \in 1..Len(r[x]), NEW l \in 1..Len(r[y]),
                        r[x][i] = r[y][l]
                 PROVE  x = y /\ i = l
    BY DEF Distinct
  <2>3. PICK m \in 1..Len(q[x]) : /\ r[x][i] = q[x][m]
                                  /\ m = IF x = p /\ ~(i < k) THEN i + 1 ELSE i
    BY <2>1
  <2>4. PICK n \in 1..Len(q[y]) : /\ r[y][l] = q[y][n]
                                  /\ n = IF y = p /\ ~(l < k) THEN l + 1 ELSE l
    BY <2>1
  <2>5. x = y /\ m = n
    <3>1. q[x][m] = q[y][n]
      BY <2>2, <2>3, <2>4
    <3> QED
      BY <3>1 DEF Distinct
  <2>6. i \in Int /\ l \in Int /\ k \in Int
    OBVIOUS
  <2> QED
    BY <2>3, <2>4, <2>5, <2>6
<1>6. \A x \in Priority : /\ ToSet(r[x]) = {r[x][i] : i \in 1..Len(r[x])}
                          /\ ToSet(q[x]) = {q[x][i] : i \in 1..Len(q[x])}
  BY <1>1, <1>4, Elements
<1>7. ASSUME NEW x \in Priority
      PROVE  ToSet(r[x]) = ToSet(q[x]) \ {q[p][k]}
  <2>1. CASE x # p
    <3>1. q[p][k] \notin ToSet(q[x])
      BY <1>6, <2>1 DEF Distinct
    <3> QED
      BY <1>3, <2>1, <3>1
  <2>2. CASE x = p
    <3>1. \A i, l \in 1..Len(q[p]) : q[p][i] = q[p][l] => i = l
      BY DEF Distinct
    <3>2. r[p] = RemoveAt(q[p], k)
      BY <1>0
    <3> QED
      BY <1>1, <2>2, <3>1, <3>2, RemovedElements
  <2> QED
    BY <2>1, <2>2
<1>8. \A x \in Priority : r[x] # <<>> => q[x] # <<>>
  <2>1. \A x \in Priority : /\ r[x] = <<>> <=> ToSet(r[x]) = {}
                            /\ q[x] = <<>> <=> ToSet(q[x]) = {}
    BY <1>1, <1>4, Elements
  <2> QED
    BY <1>7, <2>1
<1>9. q[p][k] \in ToSet(q[p])
  BY <1>6
<1> QED
  BY <1>4, <1>5, <1>7, <1>8, <1>9 DEF r

\* A queue gains a job that is in none.
LEMMA OneMore ==
  ASSUME NEW q \in [Priority -> Seq(Job)], Distinct(q),
         NEW p \in Priority, NEW j \in Job, \A x \in Priority : j \notin ToSet(q[x])
  PROVE  /\ With(q, p, j) \in [Priority -> Seq(Job)]
         /\ Distinct(With(q, p, j))
         /\ \A x \in Priority : \A i :
              i \in ToSet(With(q, p, j)[x]) <=> i \in ToSet(q[x]) \/ (x = p /\ i = j)
         /\ \A x \in Priority : x # p => With(q, p, j)[x] = q[x]
<1> DEFINE r == With(q, p, j)
<1>0. r = [q EXCEPT ![p] = Append(@, j)]
  BY DEF With
<1> HIDE DEF r
<1>1. \A x \in Priority : q[x] \in Seq(Job) /\ Len(q[x]) \in Nat
  BY LenProperties
<1>2. /\ r[p] \in Seq(Job)
      /\ Len(r[p]) = Len(q[p]) + 1
      /\ \A i \in 1..(Len(q[p]) + 1) : r[p][i] = IF i <= Len(q[p]) THEN q[p][i] ELSE j
      /\ ToSet(r[p]) = ToSet(q[p]) \cup {j}
  BY <1>0, <1>1, Appended
<1>3. \A x \in Priority : x # p => r[x] = q[x]
  BY <1>0
<1>4. r \in [Priority -> Seq(Job)]
  BY <1>0, <1>1, <1>2
<1>5. \A x \in Priority : \A i \in 1..Len(q[x]) : q[x][i] # j
  BY <1>1, Elements
<1>6. Distinct(r)
  <2> SUFFICES ASSUME NEW x \in Priority, NEW y \in Priority,
                      NEW i \in 1..Len(r[x]), NEW l \in 1..Len(r[y]),
                      r[x][i] = r[y][l]
               PROVE  x = y /\ i = l
    BY DEF Distinct
  <2>1. \/ i \in 1..Len(q[x]) /\ r[x][i] = q[x][i]
        \/ x = p /\ i = Len(q[p]) + 1 /\ r[x][i] = j
    BY <1>1, <1>2, <1>3
  <2>2. \/ l \in 1..Len(q[y]) /\ r[y][l] = q[y][l]
        \/ y = p /\ l = Len(q[p]) + 1 /\ r[y][l] = j
    BY <1>1, <1>2, <1>3
  <2> QED
    BY <1>5, <2>1, <2>2 DEF Distinct
<1> QED
  BY <1>2, <1>3, <1>4, <1>6 DEF r

-------------------------------------------------------------------------------
(* Workers and the event *)

\* Each job in process occupies a worker, and a busy worker is on the list.
OneWorkerEach ==
  /\ m_workers = {w \in Worker : pc[w] \in BusyPC \cup IdlePC}
  /\ m_processing = {held[w] : w \in Busy}

\* Both lists are finite, and there are enough workers for the jobs in process.
WorkersSuffice ==
  /\ IsFiniteSet(m_processing) /\ Cardinality(m_processing) \in Nat
  /\ IsFiniteSet(m_workers) /\ Cardinality(m_workers) \in Nat
  /\ Cardinality(m_processing) <= Cardinality(m_workers)

\* So workers are never fewer than the jobs in process.
LEMMA ProcessingBound == OneWorkerEach => WorkersSuffice
<1> SUFFICES ASSUME OneWorkerEach PROVE WorkersSuffice
  OBVIOUS
<1>1. m_workers \in SUBSET Worker /\ Busy \in SUBSET m_workers
  BY DEF OneWorkerEach, Busy
<1>2. IsFiniteSet(m_workers) /\ Cardinality(m_workers) \in Nat
  BY <1>1, ManagerAssumption, FS_Subset, FS_CardinalityType
<1>3. /\ IsFiniteSet(Busy) /\ Cardinality(Busy) \in Nat
      /\ Cardinality(Busy) <= Cardinality(m_workers)
  BY <1>1, <1>2, FS_Subset, FS_CardinalityType
<1> DEFINE f == [w \in Busy |-> held[w]]
<1>4. f \in Surjection(Busy, m_processing)
  BY DEF Surjection, OneWorkerEach
<1>5. /\ IsFiniteSet(m_processing)
      /\ Cardinality(m_processing) <= Cardinality(Busy)
  BY <1>3, <1>4, FS_Surjection
<1>6. Cardinality(m_processing) \in Nat
  BY <1>5, FS_CardinalityType
<1> QED
  BY <1>2, <1>3, <1>5, <1>6 DEF WorkersSuffice

\* The same of the state a step leads to.
LEMMA ProcessingBoundNext == OneWorkerEach' => WorkersSuffice'
BY ProcessingBound, PTL

\* What the invariant says of the two lists the manager counts.
LEMMA Counts ==
  ASSUME IInv
  PROVE  /\ WorkersSuffice
         /\ m_processing = {} <=> Busy = {}
<1>1. OneWorkerEach
  BY DEF IInv, JobHeldOnce, WorkerBound, OneWorkerEach
<1> QED
  BY <1>1, ProcessingBound DEF OneWorkerEach

\* The limits of the priorities: positive above the pausable one, growing.
LEMMA Limits ==
  /\ \A p \in Priority : p \in Nat /\ GetMaxWorkers(p) \in Nat /\ GetMaxWorkers(p) > 0
  /\ \A p \in Priority : GetMaxWorkers(p) <= max_workers
  /\ \A p, q \in Priority : p <= q => GetMaxWorkers(p) <= GetMaxWorkers(q)
BY ManagerAssumption DEF Priority, PRIORITY_LOW_PAUSABLE, GetMaxWorkers

\* A priority at its limit means that some worker is busy.
LEMMA AtLimit ==
  ASSUME IInv, NEW p \in Priority, Cardinality(m_processing) >= GetMaxWorkers(p)
  PROVE  \E w \in Worker : pc[w] \in BusyPC /\ WillLook(w)
<1>1. m_processing # {}
  BY Counts, Limits, FS_EmptySet DEF WorkersSuffice
<1>2. PICK w \in Worker : pc[w] \in BusyPC
  BY <1>1, Counts DEF Busy
<1>3. w \in m_workers
  BY <1>2 DEF IInv, WorkerBound
<1>4. pc[w] \notin {"sleep", "wait"}
  BY <1>2 DEF BusyPC
<1> QED
  BY <1>2, <1>3, <1>4 DEF WillLook

\* The operations of m_jobEvent on its type, its waiters and its flag.
LEMMA EventOperations ==
  ASSUME NEW e \in EventType(Worker), NEW w \in Worker
  PROVE  /\ SetEvent(e) \in EventType(Worker)
         /\ SetEvent(e).signaled = TRUE /\ SetEvent(e).waiters = e.waiters
         /\ PassThrough(e) \in EventType(Worker)
         /\ PassThrough(e).waiters = e.waiters
         /\ BeginWait(e, w) \in EventType(Worker)
         /\ BeginWait(e, w).waiters = e.waiters \cup {w}
         /\ BeginWait(e, w).signaled = e.signaled
         /\ EndWait(e, w) \in EventType(Worker)
         /\ EndWait(e, w).waiters = e.waiters \ {w}
<1>1. /\ e.signaled \in BOOLEAN /\ e.manualReset \in BOOLEAN /\ e.waiters \subseteq Worker
      /\ e = [manualReset |-> e.manualReset, signaled |-> e.signaled, waiters |-> e.waiters]
  BY DEF EventType
<1>2. /\ SetEvent(e) \in EventType(Worker)
      /\ SetEvent(e).signaled = TRUE /\ SetEvent(e).waiters = e.waiters
  BY <1>1 DEF EventType, SetEvent
<1>3. PassThrough(e) \in EventType(Worker) /\ PassThrough(e).waiters = e.waiters
  BY <1>1 DEF EventType, PassThrough, prepReturn
<1>4. /\ BeginWait(e, w) \in EventType(Worker)
      /\ BeginWait(e, w).waiters = e.waiters \cup {w}
      /\ BeginWait(e, w).signaled = e.signaled
  BY <1>1 DEF EventType, BeginWait
<1>5. EndWait(e, w) \in EventType(Worker) /\ EndWait(e, w).waiters = e.waiters \ {w}
  BY <1>1 DEF EventType, EndWait, prepReturn
<1> QED
  BY <1>2, <1>3, <1>4, <1>5

-------------------------------------------------------------------------------
(* What steps leave alone *)

\* A step that moves no job and makes no worker busy or free keeps what is
\* said of owners, priorities and queues.
LEMMA Unmoved ==
  ASSUME IInv, Busy' = Busy, UNCHANGED <<m_jobQueue, m_processing, item, heap, held>>
  PROVE  JobHeldOnce' /\ PriorityReserve' /\ Filed' /\ AllQueued' = AllQueued
<1>1. (\A p \in Priority : Queued(p)' = Queued(p)) /\ AllQueued' = AllQueued
  BY DEF Queued, AllQueued
<1>2. JobHeldOnce'
  BY <1>1 DEF IInv, JobHeldOnce
<1>3. PriorityReserve'
  BY DEF IInv, PriorityReserve
<1>4. Filed'
  BY <1>1 DEF IInv, Filed
<1> QED
  BY <1>1, <1>2, <1>3, <1>4

\* A step after which the list of workers is exact and no longer than before.
LEMMA BoundKept ==
  ASSUME IInv, JobHeldOnce', m_workers' \subseteq m_workers,
         m_workers' = {w \in Worker : pc'[w] \in BusyPC \cup IdlePC},
         m_jobEvent'.waiters = {w \in Worker : pc'[w] = "wait"}
  PROVE  WorkerBound'
<1>1. WorkersSuffice'
  BY ProcessingBoundNext DEF OneWorkerEach, JobHeldOnce
<1>2. Cardinality(m_workers') <= Cardinality(m_workers)
  BY Counts, FS_Subset DEF WorkersSuffice
<1>3. Cardinality(m_workers') <= max_workers
  BY <1>1, <1>2, Counts, ManagerAssumption DEF IInv, WorkerBound, WorkersSuffice
<1> QED
  BY <1>1, <1>3 DEF WorkerBound, WorkersSuffice

\* While a worker is on the list, CancelJobs has not returned.
LEMMA NotDrained ==
  ASSUME IInv, NEW w \in Worker, pc[w] \in BusyPC \cup IdlePC
  PROVE  m_running \/ canceller # "idle"
BY DEF IInv, WorkerBound, DrainedQuiet

\* A worker between two places at which it has the same job.
LEMMA BusyStep ==
  ASSUME IInv, NEW w \in Worker, pc[w] \in BusyPC,
         NEW x \in BusyPC, pc' = [pc EXCEPT ![w] = x],
         NEW c \in Callback \cup {NULL}, copied' = [copied EXCEPT ![w] = c],
         c # NULL => x \in {"progress", "notify", "callback"},
         UNCHANGED <<m_running, m_pauseJobs, m_jobCounter, m_jobQueue, m_processing,
                     item, m_workers, m_jobEvent, heap, held, canceller>>
  PROVE  IInv'
<1>1. \A v \in Worker : pc'[v] = IF v = w THEN x ELSE pc[v]
  BY DEF IInv, TypeOK
<1>2. TypeOK'
  BY DEF IInv, TypeOK, PC
<1>3. Busy' = Busy
  BY <1>1 DEF Busy
<1>4. JobHeldOnce' /\ PriorityReserve' /\ Filed' /\ AllQueued' = AllQueued
  BY <1>3, Unmoved
<1>5. "wait" \notin BusyPC /\ "sleep" \notin BusyPC
  BY DEF BusyPC
<1>6. WorkerBound'
  <2>1. m_workers' = {v \in Worker : pc'[v] \in BusyPC \cup IdlePC}
    BY <1>1 DEF IInv, WorkerBound
  <2>2. m_jobEvent'.waiters = {v \in Worker : pc'[v] = "wait"}
    BY <1>1, <1>5 DEF IInv, WorkerBound
  <2> QED
    BY <1>4, <2>1, <2>2, BoundKept
<1>7. NoStrandedJob'
  <2>1. \A v \in Worker : WillLook(v) => WillLook(v)'
    BY <1>1, <1>5 DEF WillLook
  <2> QED
    BY <2>1 DEF IInv, NoStrandedJob
<1>8. DrainedQuiet'
  BY NotDrained DEF DrainedQuiet
<1>9. Locals'
  BY <1>1 DEF IInv, TypeOK, Locals
<1>10. Stopping'
  BY <1>4 DEF IInv, Stopping
<1> QED
  BY <1>2, <1>4, <1>6, <1>7, <1>8, <1>9, <1>10 DEF IInv

\* A worker without a job that stays in GetNextJob.
LEMMA IdleStep ==
  ASSUME IInv, NEW w \in Worker, pc[w] \in IdlePC,
         NEW x \in IdlePC, pc' = [pc EXCEPT ![w] = x],
         m_jobEvent' \in EventType(Worker),
         m_jobEvent'.waiters = {v \in Worker : pc'[v] = "wait"},
         NoStrandedJob',
         UNCHANGED <<m_running, m_pauseJobs, m_jobCounter, m_jobQueue, m_processing,
                     item, m_workers, heap, held, copied, canceller>>
  PROVE  IInv'
<1>1. \A v \in Worker : pc'[v] = IF v = w THEN x ELSE pc[v]
  BY DEF IInv, TypeOK
<1>2. TypeOK'
  BY DEF IInv, TypeOK, PC
<1>3. \A y \in IdlePC : y \notin BusyPC
  BY DEF BusyPC, IdlePC
<1>4. Busy' = Busy
  BY <1>1, <1>3 DEF Busy
<1>5. JobHeldOnce' /\ PriorityReserve' /\ Filed' /\ AllQueued' = AllQueued
  BY <1>4, Unmoved
<1>6. WorkerBound'
  <2>1. m_workers' = {v \in Worker : pc'[v] \in BusyPC \cup IdlePC}
    BY <1>1 DEF IInv, WorkerBound
  <2> QED
    BY <1>5, <2>1, BoundKept
<1>7. DrainedQuiet'
  BY NotDrained DEF DrainedQuiet
<1>8. Locals'
  <2>1. copied[w] = NULL
    BY DEF IInv, Locals, IdlePC
  <2> QED
    BY <1>1, <1>3, <2>1 DEF IInv, Locals
<1>9. Stopping'
  BY <1>5 DEF IInv, Stopping
<1> QED
  BY <1>2, <1>5, <1>6, <1>7, <1>8, <1>9 DEF IInv

-------------------------------------------------------------------------------
(* The initial states *)

\* Nothing is queued and no thread exists at first.
LEMMA InitInv == Init => IInv
<1> SUFFICES ASSUME Init PROVE IInv
  OBVIOUS
<1>1. TypeOK
  <2>1. NewEvent(FALSE, FALSE) \in EventType(Worker)
    BY DEF NewEvent, EventType
  <2>2. m_jobCounter \in 0..(IdSpace - 1) /\ NoItem \in WorkItem
    BY ManagerAssumption DEF Init, NoItem, WorkItem, Priority, PRIORITY_LOW_PAUSABLE
  <2>3. m_jobQueue \in [Priority -> Seq(Job)]
    BY DEF Init
  <2> QED
    BY <2>1, <2>2, <2>3 DEF Init, TypeOK, PC
<1>2. Busy = {} /\ \A w \in Worker : pc[w] \notin BusyPC \cup IdlePC \cup {"wait"}
  BY DEF Init, Busy, BusyPC, IdlePC
<1>3. \A p \in Priority : m_jobQueue[p] = <<>> /\ Queued(p) = {}
  <2>1. ToSet(<<>>) = {}
    BY EmptySeq, Elements
  <2> QED
    BY <2>1 DEF Init, Queued
<1>4. AllQueued = {}
  BY <1>3 DEF AllQueued
<1>5. JobHeldOnce
  BY <1>2, <1>3, <1>4 DEF Init, JobHeldOnce
<1>6. WorkerBound
  <2>1. m_workers = {} /\ m_processing = {} /\ m_jobEvent.waiters = {}
    BY DEF Init, NewEvent
  <2> QED
    BY <1>2, <2>1, FS_EmptySet, ManagerAssumption DEF WorkerBound
<1>7. PriorityReserve
  <2>1. \A p \in Priority : {j \in m_processing : item[j].priority <= p} = {}
    BY DEF Init
  <2> SUFFICES ASSUME NEW p \in Priority
               PROVE  Cardinality({j \in m_processing : item[j].priority <= p})
                        <= GetMaxWorkers(p)
    BY DEF PriorityReserve, GetMaxWorkers
  <2>2. Cardinality({j \in m_processing : item[j].priority <= p}) = 0
    BY <2>1, FS_EmptySet
  <2> QED
    BY <2>2, Limits
<1>8. NoStrandedJob /\ Filed
  BY <1>3 DEF NoStrandedJob, Filed
<1>9. DrainedQuiet /\ Locals /\ Stopping
  BY <1>4 DEF Init, DrainedQuiet, Locals, Stopping
<1> QED
  BY <1>1, <1>5, <1>6, <1>7, <1>8, <1>9 DEF IInv

-------------------------------------------------------------------------------
(* A worker in GetNextJob *)

\* PopJob moves the head of a queue to m_processing and to one worker.
LEMMA TakeJobInv ==
  ASSUME IInv, NEW w \in Worker, TakeJob(w)
  PROVE  IInv'
<1>1. PICK p \in Priority :
        /\ Poppable(p)
        /\ m_jobQueue' = [m_jobQueue EXCEPT ![p] = Tail(@)]
        /\ m_processing' = m_processing \cup {Head(m_jobQueue[p])}
        /\ held' = [held EXCEPT ![w] = Head(m_jobQueue[p])]
        /\ pc' = [pc EXCEPT ![w] = "work"]
  BY DEF TakeJob, PopJob
<1> DEFINE h == m_jobQueue[p][1]
<1>2. m_jobQueue \in [Priority -> Seq(Job)] /\ m_jobQueue[p] \in Seq(Job)
  BY DEF IInv, TypeOK
<1>3. /\ Tail(m_jobQueue[p]) = RemoveAt(m_jobQueue[p], 1)
      /\ 1 \in 1..Len(m_jobQueue[p])
      /\ Head(m_jobQueue[p]) = h
  BY <1>1, <1>2, TailRemoves DEF Poppable
<1>4. Distinct(m_jobQueue)
  BY DEF IInv, JobHeldOnce, Distinct
<1>5. /\ m_jobQueue' \in [Priority -> Seq(Job)]
      /\ Distinct(m_jobQueue')
      /\ \A x \in Priority : ToSet(m_jobQueue'[x]) = ToSet(m_jobQueue[x]) \ {h}
      /\ \A x \in Priority : m_jobQueue'[x] # <<>> => m_jobQueue[x] # <<>>
      /\ h \in ToSet(m_jobQueue[p])
  <2>1. m_jobQueue' = Without(m_jobQueue, p, 1)
    BY <1>1, <1>3 DEF Without
  <2>2. Without(m_jobQueue, p, 1) \in [Priority -> Seq(Job)]
    BY <1>2, <1>3, <1>4, OneLess
  <2>3. Distinct(Without(m_jobQueue, p, 1))
    BY <1>2, <1>3, <1>4, OneLess
  <2>4. \A x \in Priority : \A j :
          j \in ToSet(Without(m_jobQueue, p, 1)[x])
            <=> j \in ToSet(m_jobQueue[x]) /\ j # m_jobQueue[p][1]
    BY <1>2, <1>3, <1>4, OneLess
  <2>5. \A x \in Priority : Without(m_jobQueue, p, 1)[x] # <<>> => m_jobQueue[x] # <<>>
    BY <1>2, <1>3, <1>4, OneLess
  <2>6. m_jobQueue[p][1] \in ToSet(m_jobQueue[p])
    BY <1>2, <1>3, <1>4, OneLess
  <2> QED
    BY <2>1, <2>2, <2>3, <2>4, <2>5, <2>6
<1>6. /\ m_processing' = m_processing \cup {h}
      /\ held' = [held EXCEPT ![w] = h]
      /\ pc' = [pc EXCEPT ![w] = "work"]
      /\ pc[w] \in {"next", "last"}
      /\ UNCHANGED <<m_running, m_pauseJobs, m_jobCounter, item, m_workers, m_jobEvent,
                     heap, copied, canceller>>
  BY <1>1, <1>3 DEF TakeJob
<1>7. /\ h \in Queued(p) /\ h \in AllQueued /\ h \in Job
      /\ h \notin m_processing /\ item[h].priority = p
  <2>1. h \in Queued(p) /\ h \in AllQueued
    BY <1>5 DEF Queued, AllQueued
  <2>2. h \in heap /\ h \notin m_processing /\ heap \subseteq Job
    BY <2>1 DEF IInv, JobHeldOnce, TypeOK
  <2> QED
    BY <2>1, <2>2 DEF IInv, Filed
<1> HIDE DEF h
<1>8. \A v \in Worker : /\ pc'[v] = (IF v = w THEN "work" ELSE pc[v])
                        /\ held'[v] = (IF v = w THEN h ELSE held[v])
  BY <1>6 DEF IInv, TypeOK
<1>9. w \notin Busy /\ Busy' = Busy \cup {w}
  BY <1>6, <1>8 DEF Busy, BusyPC
<1>10. AllQueued' = AllQueued \ {h} /\ \A x \in Priority : Queued(x)' = Queued(x) \ {h}
  BY <1>5 DEF AllQueued, Queued
<1>11. TypeOK'
  BY <1>5, <1>6, <1>7 DEF IInv, TypeOK, PC, BusyPC
<1>12. JobHeldOnce'
  <2>1. m_processing' = {held'[v] : v \in Busy'}
    <3>1. \A v \in Busy : v # w /\ v \in Worker
      BY <1>9 DEF Busy
    <3>2. {held'[v] : v \in Busy'} = {held[v] : v \in Busy} \cup {h}
      BY <1>8, <1>9, <3>1
    <3> QED
      BY <1>6, <3>2 DEF IInv, JobHeldOnce
  <2>2. \A v, u \in Busy' : held'[v] = held'[u] => v = u
    BY <1>7, <1>8, <1>9 DEF IInv, JobHeldOnce, Busy
  <2>3. AllQueued' \cap m_processing' = {} /\ heap' = AllQueued' \cup m_processing'
    BY <1>6, <1>7, <1>10 DEF IInv, JobHeldOnce
  <2> QED
    BY <1>5, <2>1, <2>2, <2>3 DEF JobHeldOnce, Distinct
<1>13. WorkerBound'
  <2>1. m_workers' = {v \in Worker : pc'[v] \in BusyPC \cup IdlePC}
    BY <1>6, <1>8 DEF IInv, WorkerBound, BusyPC, IdlePC
  <2>2. m_jobEvent'.waiters = {v \in Worker : pc'[v] = "wait"}
    BY <1>6, <1>8 DEF IInv, WorkerBound
  <2> QED
    BY <1>6, <1>12, <2>1, <2>2, BoundKept
<1>14. PriorityReserve'
  <2> SUFFICES ASSUME NEW q \in Priority
               PROVE  Cardinality({j \in m_processing' : item'[j].priority <= q})
                        <= GetMaxWorkers(q)
    BY DEF PriorityReserve, GetMaxWorkers
  <2>1. IsFiniteSet(m_processing) /\ Cardinality(m_processing) \in Nat
    BY Counts DEF WorkersSuffice
  <2>2. IsFiniteSet(m_processing') /\ Cardinality(m_processing') = Cardinality(m_processing) + 1
    BY <1>6, <1>7, <2>1, FS_AddElement
  <2>3. CASE p <= q
    <3>1. Cardinality({j \in m_processing' : item'[j].priority <= q}) <= Cardinality(m_processing')
      BY <2>2, FS_Subset
    <3>2. Cardinality({j \in m_processing' : item'[j].priority <= q}) \in Nat
      BY <2>2, FS_Subset, FS_CardinalityType
    <3>3. Cardinality(m_processing) < GetMaxWorkers(p) /\ GetMaxWorkers(p) <= GetMaxWorkers(q)
      BY <1>1, <2>3, Limits DEF Poppable
    <3> QED
      BY <2>1, <2>2, <3>1, <3>2, <3>3, Limits
  <2>4. CASE ~(p <= q)
    <3>1. {j \in m_processing' : item'[j].priority <= q} = {j \in m_processing : item[j].priority <= q}
      BY <1>6, <1>7, <2>4
    <3> QED
      BY <3>1 DEF IInv, PriorityReserve
  <2> QED
    BY <2>3, <2>4
<1>15. NoStrandedJob'
  <2>1. WillLook(w)'
    BY <1>6, <1>8 DEF IInv, WorkerBound, WillLook, IdlePC
  <2> QED
    BY <2>1 DEF NoStrandedJob
<1>16. DrainedQuiet'
  BY <1>6, NotDrained DEF DrainedQuiet, IdlePC
<1>17. Filed'
  BY <1>6, <1>10 DEF IInv, Filed
<1>18. Locals'
  BY <1>6, <1>8 DEF IInv, Locals, BusyPC
<1>19. Stopping'
  BY <1>6, <1>10 DEF IInv, Stopping
<1> QED
  BY <1>11, <1>12, <1>13, <1>14, <1>15, <1>16, <1>17, <1>18, <1>19 DEF IInv

\* A worker goes to sleep only if no job may run; a job that waits means then
\* that its priority is at its limit, and a busy worker will look.
LEMMA GoToSleepInv ==
  ASSUME IInv, NEW w \in Worker, GoToSleep(w)
  PROVE  IInv'
<1>1. \A v \in Worker : pc'[v] = IF v = w THEN "sleep" ELSE pc[v]
  BY DEF IInv, TypeOK, GoToSleep
<1>2. pc[w] \in IdlePC /\ "sleep" \in IdlePC /\ pc[w] \notin BusyPC
  BY DEF GoToSleep, IdlePC, BusyPC
<1>3. m_jobEvent' \in EventType(Worker)
  BY DEF IInv, TypeOK, GoToSleep
<1>4. m_jobEvent'.waiters = {v \in Worker : pc'[v] = "wait"}
  BY <1>1 DEF IInv, WorkerBound, GoToSleep
<1>5. NoStrandedJob'
  <2> SUFFICES ASSUME NEW p \in Priority \ {PRIORITY_LOW_PAUSABLE}, m_jobQueue[p] # <<>>
               PROVE  \E v \in Worker : WillLook(v)'
    BY DEF NoStrandedJob, GoToSleep
  <2>1. ~(Cardinality(m_processing) < GetMaxWorkers(p))
    BY DEF GoToSleep, NothingToPop, Poppable
  <2>2. Cardinality(m_processing) >= GetMaxWorkers(p)
    BY <2>1, Counts, Limits DEF WorkersSuffice
  <2>3. PICK v \in Worker : pc[v] \in BusyPC /\ WillLook(v)
    BY <2>2, AtLimit
  <2>4. WillLook(v)'
    BY <1>1, <1>2, <2>3 DEF WillLook, GoToSleep
  <2> QED
    BY <2>4
<1> QED
  BY <1>2, <1>3, <1>4, <1>5, IdleStep DEF GoToSleep

\* A worker that is about to wait finds the event set, or is counted by it.
LEMMA WaitJobEventInv ==
  ASSUME IInv, NEW w \in Worker, WaitJobEvent(w)
  PROVE  IInv'
<1>0. m_jobEvent \in EventType(Worker) /\ m_workers' = m_workers /\ m_jobQueue' = m_jobQueue
  BY DEF IInv, TypeOK, WaitJobEvent
<1>1. CASE /\ m_jobEvent.signaled
           /\ m_jobEvent' = PassThrough(m_jobEvent)
           /\ pc' = [pc EXCEPT ![w] = "next"]
  <2>1. \A v \in Worker : pc'[v] = IF v = w THEN "next" ELSE pc[v]
    BY <1>1 DEF IInv, TypeOK
  <2>2. pc[w] \in IdlePC /\ "next" \in IdlePC
    BY DEF WaitJobEvent, IdlePC
  <2>3. m_jobEvent' \in EventType(Worker) /\ m_jobEvent'.waiters = m_jobEvent.waiters
    BY <1>0, <1>1, EventOperations
  <2>4. m_jobEvent'.waiters = {v \in Worker : pc'[v] = "wait"}
    BY <2>1, <2>3 DEF IInv, WorkerBound, WaitJobEvent
  <2>5. WillLook(w)'
    BY <1>0, <2>1, <2>2 DEF WillLook, IInv, WorkerBound
  <2>6. NoStrandedJob'
    BY <2>5 DEF NoStrandedJob
  <2> QED
    BY <1>1, <2>2, <2>3, <2>4, <2>6, IdleStep DEF WaitJobEvent
<1>2. CASE /\ ~m_jobEvent.signaled
           /\ m_jobEvent' = BeginWait(m_jobEvent, w)
           /\ pc' = [pc EXCEPT ![w] = "wait"]
  <2>1. \A v \in Worker : pc'[v] = IF v = w THEN "wait" ELSE pc[v]
    BY <1>2 DEF IInv, TypeOK
  <2>2. pc[w] \in IdlePC /\ "wait" \in IdlePC /\ pc[w] = "sleep"
    BY DEF WaitJobEvent, IdlePC
  <2>3. /\ m_jobEvent' \in EventType(Worker)
        /\ m_jobEvent'.waiters = m_jobEvent.waiters \cup {w}
    <3>1. BeginWait(m_jobEvent, w) \in EventType(Worker)
      BY <1>0, EventOperations
    <3>2. BeginWait(m_jobEvent, w).waiters = m_jobEvent.waiters \cup {w}
      BY DEF BeginWait, IInv, TypeOK, EventType
    <3> QED
      BY <1>2, <3>1, <3>2
  <2>4. m_jobEvent'.waiters = {v \in Worker : pc'[v] = "wait"}
    BY <2>1, <2>3 DEF IInv, WorkerBound
  <2>5. \A v \in Worker : WillLook(v) => v # w /\ WillLook(v)'
    BY <1>0, <1>2, <2>1, <2>2 DEF WillLook
  <2>6. NoStrandedJob'
    BY <1>0, <2>5 DEF IInv, NoStrandedJob
  <2> QED
    BY <1>2, <2>2, <2>3, <2>4, <2>6, IdleStep DEF WaitJobEvent
<1> QED
  BY <1>1, <1>2 DEF WaitJobEvent, ReturnsAtOnce

\* A worker whose wait ends resets the event only when it goes to look itself.
LEMMA WakeUpInv ==
  ASSUME IInv, NEW w \in Worker, WakeUp(w)
  PROVE  IInv'
<1> DEFINE x == IF m_jobEvent.signaled THEN "next" ELSE "last"
<1>0. m_jobEvent \in EventType(Worker) /\ m_workers' = m_workers /\ m_jobQueue' = m_jobQueue
  BY DEF IInv, TypeOK, WakeUp
<1>1. pc' = [pc EXCEPT ![w] = x] /\ x \in {"next", "last"}
  BY DEF WakeUp
<1> HIDE DEF x
<1>2. \A v \in Worker : pc'[v] = IF v = w THEN x ELSE pc[v]
  BY <1>1 DEF IInv, TypeOK
<1>3. pc[w] \in IdlePC /\ x \in IdlePC
  BY <1>1 DEF WakeUp, IdlePC
<1>4. /\ m_jobEvent' \in EventType(Worker)
      /\ m_jobEvent'.waiters = m_jobEvent.waiters \ {w}
  BY <1>0, EventOperations DEF WakeUp
<1>5. m_jobEvent'.waiters = {v \in Worker : pc'[v] = "wait"}
  BY <1>1, <1>2, <1>4 DEF IInv, WorkerBound
<1>6. WillLook(w)'
  BY <1>0, <1>1, <1>2, <1>3 DEF WillLook, IInv, WorkerBound
<1>7. NoStrandedJob'
  BY <1>6 DEF NoStrandedJob
<1> QED
  BY <1>1, <1>3, <1>4, <1>5, <1>7, IdleStep DEF WakeUp

\* A worker leaves the list only if no job may run: as for GoToSleep.
LEMMA RemoveWorkerInv ==
  ASSUME IInv, NEW w \in Worker, RemoveWorker(w)
  PROVE  IInv'
<1>1. \A v \in Worker : pc'[v] = IF v = w THEN "exit" ELSE pc[v]
  BY DEF IInv, TypeOK, RemoveWorker
<1>2. pc[w] \in {"last", "next"} /\ pc[w] \in IdlePC /\ pc[w] \notin BusyPC
  BY DEF RemoveWorker, IdlePC, BusyPC
<1>3. "exit" \notin BusyPC \cup IdlePC
  BY DEF IdlePC, BusyPC
<1>4. TypeOK'
  BY DEF IInv, TypeOK, RemoveWorker, PC
<1>5. Busy' = Busy
  BY <1>1, <1>2, <1>3 DEF Busy
<1>6. JobHeldOnce' /\ PriorityReserve' /\ Filed' /\ AllQueued' = AllQueued
  BY <1>5, Unmoved DEF RemoveWorker
<1>7. WorkerBound'
  <2>1. m_workers' = {v \in Worker : pc'[v] \in BusyPC \cup IdlePC}
    BY <1>1, <1>3 DEF IInv, WorkerBound, RemoveWorker
  <2>2. m_jobEvent'.waiters = {v \in Worker : pc'[v] = "wait"}
    BY <1>1, <1>2 DEF IInv, WorkerBound, RemoveWorker
  <2>3. m_workers' \subseteq m_workers
    BY DEF RemoveWorker
  <2> QED
    BY <1>6, <2>1, <2>2, <2>3, BoundKept
<1>8. NoStrandedJob'
  <2> SUFFICES ASSUME NEW p \in Priority \ {PRIORITY_LOW_PAUSABLE}, m_jobQueue[p] # <<>>
               PROVE  \E v \in Worker : WillLook(v)'
    BY DEF NoStrandedJob, RemoveWorker
  <2>1. ~(Cardinality(m_processing) < GetMaxWorkers(p))
    BY DEF RemoveWorker, NothingToPop, Poppable
  <2>2. Cardinality(m_processing) >= GetMaxWorkers(p)
    BY <2>1, Counts, Limits DEF WorkersSuffice
  <2>3. PICK v \in Worker : pc[v] \in BusyPC /\ WillLook(v)
    BY <2>2, AtLimit
  <2>4. WillLook(v)'
    BY <1>1, <1>2, <2>3 DEF WillLook, RemoveWorker
  <2> QED
    BY <2>4
<1>9. DrainedQuiet'
  BY <1>2, NotDrained DEF DrainedQuiet, RemoveWorker
<1>10. Locals'
  <2>1. held[w] = NULL /\ copied[w] = NULL
    BY <1>2 DEF IInv, Locals
  <2> QED
    BY <1>1, <2>1 DEF IInv, Locals, RemoveWorker
<1>11. Stopping'
  BY <1>6 DEF IInv, Stopping, RemoveWorker
<1> QED
  BY <1>4, <1>6, <1>7, <1>8, <1>9, <1>10, <1>11 DEF IInv

\* The second removal, by the worker's destructor, finds it gone.
LEMMA EndThreadInv ==
  ASSUME IInv, NEW w \in Worker, EndThread(w)
  PROVE  IInv'
<1>1. \A v \in Worker : pc'[v] = IF v = w THEN "none" ELSE pc[v]
  BY DEF IInv, TypeOK, EndThread
<1>2. pc[w] \notin BusyPC \cup IdlePC /\ "none" \notin BusyPC \cup IdlePC /\ pc[w] = "exit"
  BY DEF EndThread, IdlePC, BusyPC
<1>3. m_workers' = m_workers
  BY <1>2 DEF IInv, WorkerBound, EndThread
<1>4. TypeOK'
  BY DEF IInv, TypeOK, EndThread, PC
<1>5. Busy' = Busy
  BY <1>1, <1>2 DEF Busy
<1>6. JobHeldOnce' /\ PriorityReserve' /\ Filed' /\ AllQueued' = AllQueued
  BY <1>5, Unmoved DEF EndThread
<1>7. WorkerBound'
  <2>1. m_workers' = {v \in Worker : pc'[v] \in BusyPC \cup IdlePC}
    BY <1>1, <1>2, <1>3 DEF IInv, WorkerBound
  <2>2. m_jobEvent'.waiters = {v \in Worker : pc'[v] = "wait"}
    BY <1>1, <1>2 DEF IInv, WorkerBound, EndThread
  <2> QED
    BY <1>3, <1>6, <2>1, <2>2, BoundKept
<1>8. NoStrandedJob'
  <2>1. \A v \in Worker : WillLook(v) => WillLook(v)'
    BY <1>1, <1>3 DEF WillLook, EndThread
  <2> QED
    BY <2>1 DEF IInv, NoStrandedJob, EndThread
<1>9. DrainedQuiet'
  BY <1>3 DEF IInv, DrainedQuiet, EndThread
<1>10. Locals'
  <2>1. held[w] = NULL /\ copied[w] = NULL
    BY <1>2 DEF IInv, Locals
  <2> QED
    BY <1>1, <2>1 DEF IInv, Locals, EndThread
<1>11. Stopping'
  BY <1>6 DEF IInv, Stopping, EndThread
<1> QED
  BY <1>4, <1>6, <1>7, <1>8, <1>9, <1>10, <1>11 DEF IInv

-------------------------------------------------------------------------------
(* A worker with a job *)

\* The steps of a worker that keeps its job move nothing between the lists.
LEMMA RunningInv ==
  ASSUME IInv, NEW w \in Worker,
         OnJobProgress(w) \/ ProgressReturns(w) \/ OnJobComplete(w) \/ CallClient(w)
           \/ ClientReturns(w)
  PROVE  IInv'
<1>1. /\ {"work", "progress", "notify", "callback", "erase"} \subseteq BusyPC
      /\ copied[w] \in Callback \cup {NULL}
  BY DEF BusyPC, IInv, TypeOK
<1>2. ASSUME pc[w] = "work"
      PROVE  item[held[w]].callback \in Callback \cup {NULL}
  <2>1. held[w] \in m_processing /\ m_processing \subseteq Job
    BY <1>1, <1>2 DEF IInv, TypeOK, JobHeldOnce, Busy
  <2> QED
    BY <2>1 DEF IInv, TypeOK, WorkItem
<1>3. CASE OnJobProgress(w)
  BY <1>1, <1>2, <1>3, BusyStep DEF OnJobProgress
<1>4. CASE ProgressReturns(w)
  BY <1>1, <1>4, BusyStep DEF ProgressReturns
<1>5. CASE OnJobComplete(w)
  <2> DEFINE x == IF item[held[w]].callback = NULL THEN "erase" ELSE "notify"
  <2>1. x \in BusyPC /\ (item[held[w]].callback # NULL => x \in {"progress", "notify", "callback"})
    BY <1>1
  <2> QED
    BY <1>1, <1>2, <1>5, <2>1, BusyStep DEF OnJobComplete
<1>6. CASE CallClient(w)
  <2>1. copied' = [copied EXCEPT ![w] = copied[w]]
    BY <1>6 DEF CallClient, IInv, TypeOK
  <2> QED
    BY <1>1, <1>6, <2>1, BusyStep DEF CallClient
<1>7. CASE ClientReturns(w)
  BY <1>1, <1>7, BusyStep DEF ClientReturns
<1> QED
  BY <1>3, <1>4, <1>5, <1>6, <1>7

\* The worker deletes its job: nobody else has it.
LEMMA FreeJobInv ==
  ASSUME IInv, NEW w \in Worker, FreeJob(w)
  PROVE  IInv'
<1> DEFINE h == held[w]
<1>1. /\ m_processing' = m_processing \ {h}
      /\ item' = [item EXCEPT ![h] = NoItem]
      /\ heap' = heap \ {h}
      /\ held' = [held EXCEPT ![w] = NULL]
      /\ pc' = [pc EXCEPT ![w] = "next"]
      /\ pc[w] = "erase"
      /\ UNCHANGED <<m_running, m_pauseJobs, m_jobCounter, m_jobQueue, m_workers,
                     m_jobEvent, copied, canceller>>
  BY DEF FreeJob
<1>2. pc[w] \in BusyPC /\ w \in Busy /\ "next" \notin BusyPC /\ "next" \in IdlePC
  BY <1>1 DEF Busy, BusyPC, IdlePC
<1>3. \A v \in Worker : /\ pc'[v] = (IF v = w THEN "next" ELSE pc[v])
                        /\ held'[v] = (IF v = w THEN NULL ELSE held[v])
  BY <1>1 DEF IInv, TypeOK
<1>4. Busy' = Busy \ {w}
  BY <1>2, <1>3 DEF Busy
<1>5. h \in m_processing /\ h \notin AllQueued /\ h \in Job
  <2>1. h \in m_processing
    BY <1>2 DEF IInv, JobHeldOnce
  <2> QED
    BY <2>1 DEF IInv, JobHeldOnce, TypeOK
<1>6. \A v \in Busy : v # w => held[v] # h
  BY <1>2 DEF IInv, JobHeldOnce
<1> HIDE DEF h
<1>7. AllQueued' = AllQueued /\ \A p \in Priority : Queued(p)' = Queued(p)
  BY <1>1 DEF AllQueued, Queued
<1>8. \A j \in Job : j # h => item'[j] = item[j]
  BY <1>1 DEF IInv, TypeOK
<1>9. TypeOK'
  <2>1. NoItem \in WorkItem
    BY ManagerAssumption DEF NoItem, WorkItem, Priority, PRIORITY_LOW_PAUSABLE
  <2> QED
    BY <1>1, <1>2, <2>1 DEF IInv, TypeOK, PC
<1>10. JobHeldOnce'
  <2>1. m_processing' = {held'[v] : v \in Busy'}
    <3>1. m_processing = {held[v] : v \in Busy}
      BY DEF IInv, JobHeldOnce
    <3>2. \A v \in Busy' : v \in Busy /\ held'[v] = held[v] /\ held[v] # h
      BY <1>3, <1>4, <1>6 DEF Busy
    <3>3. {held'[v] : v \in Busy'} = {held[v] : v \in Busy} \ {h}
      <4>1. \A v \in Busy : held[v] # h => v \in Busy'
        BY <1>4 DEF h
      <4> QED
        BY <3>2, <4>1
    <3> QED
      BY <1>1, <3>1, <3>3
  <2>2. \A v, u \in Busy' : held'[v] = held'[u] => v = u
    BY <1>3, <1>4 DEF IInv, JobHeldOnce, Busy
  <2>3. AllQueued' \cap m_processing' = {} /\ heap' = AllQueued' \cup m_processing'
    BY <1>1, <1>5, <1>7 DEF IInv, JobHeldOnce
  <2>4. Distinct(m_jobQueue')
    BY <1>1 DEF IInv, JobHeldOnce, Distinct
  <2> QED
    BY <2>1, <2>2, <2>3, <2>4 DEF JobHeldOnce, Distinct
<1>11. WorkerBound'
  <2>1. m_workers' = {v \in Worker : pc'[v] \in BusyPC \cup IdlePC}
    BY <1>1, <1>2, <1>3 DEF IInv, WorkerBound
  <2>2. m_jobEvent'.waiters = {v \in Worker : pc'[v] = "wait"}
    BY <1>1, <1>3 DEF IInv, WorkerBound
  <2> QED
    BY <1>1, <1>10, <2>1, <2>2, BoundKept
<1>12. PriorityReserve'
  <2> SUFFICES ASSUME NEW q \in Priority
               PROVE  Cardinality({j \in m_processing' : item'[j].priority <= q})
                        <= GetMaxWorkers(q)
    BY DEF PriorityReserve, GetMaxWorkers
  <2> DEFINE S == {j \in m_processing : item[j].priority <= q}
             T == {j \in m_processing' : item'[j].priority <= q}
  <2>1. m_processing \subseteq Job
    BY DEF IInv, TypeOK
  <2>2. T \subseteq S /\ S \subseteq m_processing
    BY <1>1, <1>8, <2>1
  <2>3. IsFiniteSet(S)
    BY <2>2, Counts, FS_Subset DEF WorkersSuffice
  <2>4. Cardinality(T) <= Cardinality(S) /\ Cardinality(T) \in Nat /\ Cardinality(S) \in Nat
    BY <2>2, <2>3, FS_Subset, FS_CardinalityType
  <2>5. Cardinality(S) <= GetMaxWorkers(q)
    BY DEF IInv, PriorityReserve
  <2> QED
    BY <2>4, <2>5, Limits
<1>13. NoStrandedJob'
  <2>1. w \in m_workers'
    BY <1>1, <1>2 DEF IInv, WorkerBound
  <2>2. WillLook(w)'
    BY <1>3, <2>1 DEF WillLook
  <2> QED
    BY <2>2 DEF NoStrandedJob
<1>14. DrainedQuiet'
  BY <1>1, <1>2, NotDrained DEF DrainedQuiet
<1>15. Filed'
  <2>1. \A p \in Priority : \A j \in Queued(p) : j \in AllQueued /\ j \in Job
    BY DEF AllQueued, IInv, JobHeldOnce, TypeOK
  <2> QED
    BY <1>5, <1>7, <1>8, <2>1 DEF IInv, Filed
<1>16. Locals'
  <2>1. copied[w] = NULL
    BY <1>1 DEF IInv, Locals
  <2> QED
    BY <1>1, <1>3, <2>1 DEF IInv, Locals
<1>17. Stopping'
  BY <1>1, <1>7 DEF IInv, Stopping
<1> QED
  BY <1>9, <1>10, <1>11, <1>12, <1>13, <1>14, <1>15, <1>16, <1>17 DEF IInv

-------------------------------------------------------------------------------
(* Clients *)

\* StartWorkers makes no worker busy, keeps the list exact and within
\* max_workers, and leaves a worker that will look for a job of a priority.
LEMMA Started ==
  ASSUME IInv, NEW p \in Priority, StartWorkers(p)
  PROVE  /\ m_workers' \subseteq Worker
         /\ m_jobEvent' \in EventType(Worker)
         /\ pc' \in [Worker -> PC]
         /\ Busy' = Busy
         /\ m_workers' = {w \in Worker : pc'[w] \in BusyPC \cup IdlePC}
         /\ m_jobEvent'.waiters = {w \in Worker : pc'[w] = "wait"}
         /\ Cardinality(m_workers') <= max_workers
         /\ \E w \in Worker : WillLook(w)'
         /\ \A w \in Worker : pc[w] \in BusyPC \cup IdlePC => pc'[w] = pc[w]
<1>0. /\ m_workers \subseteq Worker /\ m_jobEvent \in EventType(Worker) /\ pc \in [Worker -> PC]
      /\ m_workers = {w \in Worker : pc[w] \in BusyPC \cup IdlePC}
      /\ m_jobEvent.waiters = {w \in Worker : pc[w] = "wait"}
      /\ Cardinality(m_workers) <= max_workers
  BY DEF IInv, TypeOK, WorkerBound
<1>1. /\ IsFiniteSet(m_workers) /\ Cardinality(m_workers) \in Nat
      /\ Cardinality(m_processing) \in Nat
      /\ GetMaxWorkers(p) \in Nat /\ GetMaxWorkers(p) <= max_workers /\ max_workers \in Nat
  BY Counts, Limits, ManagerAssumption DEF WorkersSuffice
<1>2. CASE /\ Cardinality(m_processing) >= GetMaxWorkers(p)
           /\ UNCHANGED <<m_workers, m_jobEvent, pc>>
  <2>1. PICK w \in Worker : pc[w] \in BusyPC /\ WillLook(w)
    BY <1>2, AtLimit
  <2>2. WillLook(w)'
    BY <1>2, <2>1 DEF WillLook
  <2> QED
    BY <1>0, <1>2, <2>2 DEF Busy
<1>3. CASE /\ Cardinality(m_processing) < Cardinality(m_workers)
           /\ m_jobEvent' = SetEvent(m_jobEvent)
           /\ UNCHANGED <<m_workers, pc>>
  <2>1. m_workers # {}
    BY <1>1, <1>3, FS_EmptySet
  <2>2. PICK w \in Worker : w \in m_workers
    BY <1>0, <2>1
  <2>3. /\ m_jobEvent' \in EventType(Worker)
        /\ m_jobEvent'.signaled = TRUE /\ m_jobEvent'.waiters = m_jobEvent.waiters
    BY <1>0, <1>3, <2>2, EventOperations
  <2>4. WillLook(w)'
    BY <1>3, <2>2, <2>3 DEF WillLook
  <2> QED
    BY <1>0, <1>3, <2>3, <2>4 DEF Busy
<1>4. CASE /\ Cardinality(m_processing) < GetMaxWorkers(p)
           /\ Cardinality(m_processing) >= Cardinality(m_workers)
           /\ \E w \in Worker :
                /\ pc[w] = "none"
                /\ m_workers' = m_workers \cup {w}
                /\ pc' = [pc EXCEPT ![w] = "next"]
           /\ UNCHANGED m_jobEvent
  <2>1. PICK w \in Worker : /\ pc[w] = "none"
                            /\ m_workers' = m_workers \cup {w}
                            /\ pc' = [pc EXCEPT ![w] = "next"]
    BY <1>4
  <2>2. \A v \in Worker : pc'[v] = IF v = w THEN "next" ELSE pc[v]
    BY <1>0, <2>1
  <2>3. "next" \in IdlePC /\ "next" \notin BusyPC /\ "none" \notin BusyPC \cup IdlePC
    BY DEF IdlePC, BusyPC
  <2>4. m_workers' \subseteq Worker /\ pc' \in [Worker -> PC]
    BY <1>0, <2>1 DEF PC, IdlePC
  <2>5. Busy' = Busy
    BY <2>1, <2>2, <2>3 DEF Busy
  <2>6. m_workers' = {v \in Worker : pc'[v] \in BusyPC \cup IdlePC}
    BY <1>0, <2>1, <2>2, <2>3
  <2>7. m_jobEvent'.waiters = {v \in Worker : pc'[v] = "wait"}
    BY <1>0, <1>4, <2>1, <2>2
  <2>8. Cardinality(m_workers') <= max_workers
    <3>1. w \notin m_workers
      BY <1>0, <2>1, <2>3
    <3>2. Cardinality(m_workers \cup {w}) = Cardinality(m_workers) + 1
      BY <1>1, <3>1, FS_AddElement
    <3> QED
      BY <1>1, <1>4, <2>1, <3>2
  <2>9. WillLook(w)'
    BY <2>1, <2>2 DEF WillLook
  <2>10. \A v \in Worker : pc[v] \in BusyPC \cup IdlePC => pc'[v] = pc[v]
    BY <2>1, <2>2, <2>3
  <2>11. m_jobEvent' \in EventType(Worker)
    BY <1>0, <1>4
  <2> QED
    BY <2>4, <2>5, <2>6, <2>7, <2>8, <2>9, <2>10, <2>11
<1> QED
  BY <1>2, <1>3, <1>4 DEF StartWorkers

\* The counter stays within an unsigned int and skips 0.
LEMMA NextIdType == ASSUME IInv PROVE NextId \in 0..(IdSpace - 1) /\ NextId \in JobId
<1> DEFINE n == (m_jobCounter + 1) % IdSpace
<1>1. m_jobCounter + 1 \in Nat /\ IdSpace \in Nat /\ IdSpace > 1
  BY ManagerAssumption DEF IInv, TypeOK
<1>2. n \in 0..(IdSpace - 1)
  BY <1>1
<1>3. NextId = IF n = 0 THEN 1 ELSE n
  BY DEF NextId
<1> QED
  BY <1>1, <1>2, <1>3 DEF JobId

\* AddJob gives the job to one queue, and sees to a worker that will look.
LEMMA AddJobInv ==
  ASSUME IInv, NEW j \in Job, NEW c \in Callback \cup {NULL}, NEW p \in Priority,
         AddJob(j, c, p)
  PROVE  IInv'
<1>1. j \notin AllQueued /\ j \notin m_processing /\ \A x \in Priority : j \notin ToSet(m_jobQueue[x])
  <2>1. j \notin AllQueued /\ j \notin m_processing
    BY DEF IInv, JobHeldOnce, AddJob
  <2> QED
    BY <2>1 DEF AllQueued, Queued
<1>2. Distinct(m_jobQueue) /\ m_jobQueue \in [Priority -> Seq(Job)]
  BY DEF IInv, JobHeldOnce, Distinct, TypeOK
<1>3. /\ m_jobQueue' \in [Priority -> Seq(Job)]
      /\ Distinct(m_jobQueue')
      /\ \A x \in Priority : \A i :
           i \in ToSet(m_jobQueue'[x]) <=> i \in ToSet(m_jobQueue[x]) \/ (x = p /\ i = j)
      /\ \A x \in Priority : x # p => m_jobQueue'[x] = m_jobQueue[x]
  <2>1. m_jobQueue' = With(m_jobQueue, p, j)
    BY DEF AddJob, With
  <2>2. With(m_jobQueue, p, j) \in [Priority -> Seq(Job)] /\ Distinct(With(m_jobQueue, p, j))
    BY <1>1, <1>2, OneMore
  <2>3. \A x \in Priority : \A i :
          i \in ToSet(With(m_jobQueue, p, j)[x]) <=> i \in ToSet(m_jobQueue[x]) \/ (x = p /\ i = j)
    BY <1>1, <1>2, OneMore
  <2>4. \A x \in Priority : x # p => With(m_jobQueue, p, j)[x] = m_jobQueue[x]
    BY <1>1, <1>2, OneMore
  <2> QED
    BY <2>1, <2>2, <2>3, <2>4
<1>4. /\ AllQueued' = AllQueued \cup {j}
      /\ \A x \in Priority : Queued(x)' = IF x = p THEN Queued(x) \cup {j} ELSE Queued(x)
  BY <1>3 DEF AllQueued, Queued
<1>5. /\ item' = [item EXCEPT ![j] = [id |-> NextId, callback |-> c, priority |-> p]]
      /\ heap' = heap \cup {j}
      /\ UNCHANGED <<m_running, m_pauseJobs, m_processing, held, copied, canceller>>
      /\ m_running /\ StartWorkers(p) /\ m_jobCounter' = NextId
  BY DEF AddJob
<1>6. \A i \in Job : item'[i] = IF i = j THEN [id |-> NextId, callback |-> c, priority |-> p]
                                ELSE item[i]
  BY <1>5 DEF IInv, TypeOK
<1>7. /\ m_workers' \subseteq Worker /\ m_jobEvent' \in EventType(Worker) /\ pc' \in [Worker -> PC]
      /\ Busy' = Busy
      /\ m_workers' = {w \in Worker : pc'[w] \in BusyPC \cup IdlePC}
      /\ m_jobEvent'.waiters = {w \in Worker : pc'[w] = "wait"}
      /\ Cardinality(m_workers') <= max_workers
      /\ \E w \in Worker : WillLook(w)'
      /\ \A w \in Worker : pc[w] \in BusyPC \cup IdlePC => pc'[w] = pc[w]
  BY <1>5, Started
<1>8. TypeOK'
  <2>1. [id |-> NextId, callback |-> c, priority |-> p] \in WorkItem
    BY NextIdType DEF WorkItem
  <2>2. item' \in [Job -> WorkItem]
    BY <1>5, <2>1 DEF IInv, TypeOK
  <2> QED
    BY <1>3, <1>5, <1>7, <2>2, NextIdType DEF IInv, TypeOK
<1>9. JobHeldOnce'
  <2>1. m_processing' = {held'[w] : w \in Busy'}
    BY <1>5, <1>7 DEF IInv, JobHeldOnce
  <2>2. \A v, w \in Busy' : held'[v] = held'[w] => v = w
    BY <1>5, <1>7 DEF IInv, JobHeldOnce
  <2>3. AllQueued' \cap m_processing' = {} /\ heap' = AllQueued' \cup m_processing'
    BY <1>1, <1>4, <1>5 DEF IInv, JobHeldOnce
  <2> QED
    BY <1>3, <2>1, <2>2, <2>3 DEF JobHeldOnce, Distinct
<1>10. WorkerBound'
  <2>1. WorkersSuffice'
    BY <1>7, <1>9, ProcessingBoundNext DEF OneWorkerEach, JobHeldOnce
  <2> QED
    BY <1>7, <2>1 DEF WorkerBound, WorkersSuffice
<1>11. PriorityReserve'
  <2> SUFFICES ASSUME NEW q \in Priority
               PROVE  Cardinality({i \in m_processing' : item'[i].priority <= q})
                        <= GetMaxWorkers(q)
    BY DEF PriorityReserve, GetMaxWorkers
  <2>1. m_processing \subseteq Job
    BY DEF IInv, TypeOK
  <2>2. {i \in m_processing' : item'[i].priority <= q} = {i \in m_processing : item[i].priority <= q}
    BY <1>1, <1>5, <1>6, <2>1
  <2> QED
    BY <2>2 DEF IInv, PriorityReserve
<1>12. NoStrandedJob'
  BY <1>7 DEF NoStrandedJob
<1>13. DrainedQuiet'
  BY <1>5 DEF DrainedQuiet
<1>14. Filed'
  <2>1. \A x \in Priority : \A i \in Queued(x) : i \in Job /\ i # j
    <3>1. \A x \in Priority : \A i \in Queued(x) : i \in AllQueued
      BY DEF AllQueued
    <3> QED
      BY <1>1, <3>1 DEF IInv, JobHeldOnce, TypeOK
  <2> QED
    BY <1>4, <1>6, <2>1 DEF IInv, Filed
<1>15. Locals'
  <2> SUFFICES ASSUME NEW w \in Worker
               PROVE  /\ pc'[w] \notin BusyPC => held'[w] = NULL
                      /\ copied'[w] # NULL => pc'[w] \in {"progress", "notify", "callback"}
    BY DEF Locals
  <2>1. pc'[w] \in BusyPC <=> pc[w] \in BusyPC
    BY <1>7 DEF Busy
  <2>2. copied[w] # NULL => pc[w] \in BusyPC
    BY DEF IInv, Locals, BusyPC
  <2> QED
    BY <1>5, <1>7, <2>1, <2>2 DEF IInv, Locals
<1>16. Stopping'
  BY <1>5 DEF IInv, Stopping
<1> QED
  BY <1>8, <1>9, <1>10, <1>11, <1>12, <1>13, <1>14, <1>15, <1>16 DEF IInv

\* CancelJob of a job that waits: it is in no list and deleted.
LEMMA CancelQueuedInv ==
  ASSUME IInv, NEW id, CancelQueued(id),
         UNCHANGED <<m_running, m_pauseJobs, m_jobCounter, m_processing, m_workers,
                     m_jobEvent, pc, held, copied, canceller>>
  PROVE  IInv'
<1>0. PICK p \in Priority : \E k \in 1..Len(m_jobQueue[p]) :
        /\ m_jobQueue' = Without(m_jobQueue, p, k)
        /\ item' = [item EXCEPT ![m_jobQueue[p][k]] = NoItem]
        /\ heap' = heap \ {m_jobQueue[p][k]}
  BY DEF CancelQueued, Without
<1>1. PICK k \in 1..Len(m_jobQueue[p]) :
        /\ m_jobQueue' = Without(m_jobQueue, p, k)
        /\ item' = [item EXCEPT ![m_jobQueue[p][k]] = NoItem]
        /\ heap' = heap \ {m_jobQueue[p][k]}
  BY <1>0
<1> DEFINE h == m_jobQueue[p][k]
<1>2. Distinct(m_jobQueue) /\ m_jobQueue \in [Priority -> Seq(Job)]
  BY DEF IInv, JobHeldOnce, Distinct, TypeOK
<1>3. /\ m_jobQueue' \in [Priority -> Seq(Job)]
      /\ Distinct(m_jobQueue')
      /\ \A x \in Priority : \A j : j \in ToSet(m_jobQueue'[x]) <=> j \in ToSet(m_jobQueue[x]) /\ j # h
      /\ \A x \in Priority : m_jobQueue'[x] # <<>> => m_jobQueue[x] # <<>>
      /\ h \in ToSet(m_jobQueue[p])
  <2>1. Without(m_jobQueue, p, k) \in [Priority -> Seq(Job)] /\ Distinct(Without(m_jobQueue, p, k))
    BY <1>2, OneLess
  <2>2. \A x \in Priority : \A j :
          j \in ToSet(Without(m_jobQueue, p, k)[x])
            <=> j \in ToSet(m_jobQueue[x]) /\ j # m_jobQueue[p][k]
    BY <1>2, OneLess
  <2>3. \A x \in Priority : Without(m_jobQueue, p, k)[x] # <<>> => m_jobQueue[x] # <<>>
    BY <1>2, OneLess
  <2>4. m_jobQueue[p][k] \in ToSet(m_jobQueue[p])
    BY <1>2, OneLess
  <2> QED
    BY <1>1, <2>1, <2>2, <2>3, <2>4
<1>4. item' = [item EXCEPT ![h] = NoItem] /\ heap' = heap \ {h}
  BY <1>1
<1>5. h \in AllQueued /\ h \in heap /\ h \in Job /\ h \notin m_processing
  <2>1. h \in AllQueued
    BY <1>3 DEF AllQueued, Queued
  <2> QED
    BY <2>1 DEF IInv, JobHeldOnce, TypeOK
<1> HIDE DEF h
<1>6. AllQueued' = AllQueued \ {h} /\ \A x \in Priority : Queued(x)' = Queued(x) \ {h}
  BY <1>3 DEF AllQueued, Queued
<1>7. \A j \in Job : j # h => item'[j] = item[j]
  BY <1>4 DEF IInv, TypeOK
<1>8. TypeOK'
  <2>1. NoItem \in WorkItem
    BY ManagerAssumption DEF NoItem, WorkItem, Priority, PRIORITY_LOW_PAUSABLE
  <2> QED
    BY <1>3, <1>4, <2>1 DEF IInv, TypeOK
<1>9. JobHeldOnce'
  <2>1. Busy' = Busy
    BY DEF Busy
  <2>2. m_processing' = {held'[w] : w \in Busy'}
    BY <2>1 DEF IInv, JobHeldOnce
  <2>3. \A v, w \in Busy' : held'[v] = held'[w] => v = w
    BY <2>1 DEF IInv, JobHeldOnce
  <2>4. AllQueued' \cap m_processing' = {} /\ heap' = AllQueued' \cup m_processing'
    BY <1>4, <1>5, <1>6 DEF IInv, JobHeldOnce
  <2> QED
    BY <1>3, <2>2, <2>3, <2>4 DEF JobHeldOnce, Distinct
<1>10. WorkerBound'
  BY DEF IInv, WorkerBound
<1>11. PriorityReserve'
  <2> SUFFICES ASSUME NEW q \in Priority
               PROVE  Cardinality({j \in m_processing' : item'[j].priority <= q})
                        <= GetMaxWorkers(q)
    BY DEF PriorityReserve, GetMaxWorkers
  <2>1. m_processing \subseteq Job
    BY DEF IInv, TypeOK
  <2>2. {j \in m_processing' : item'[j].priority <= q} = {j \in m_processing : item[j].priority <= q}
    BY <1>5, <1>7, <2>1
  <2> QED
    BY <2>2 DEF IInv, PriorityReserve
<1>12. NoStrandedJob'
  <2>1. \A v \in Worker : WillLook(v)' <=> WillLook(v)
    BY DEF WillLook
  <2> QED
    BY <1>3, <2>1 DEF IInv, NoStrandedJob
<1>13. DrainedQuiet'
  BY <1>5 DEF IInv, DrainedQuiet
<1>14. Filed'
  <2>1. \A x \in Priority : \A j \in Queued(x) : j \in AllQueued /\ j \in Job
    BY DEF AllQueued, IInv, JobHeldOnce, TypeOK
  <2> QED
    BY <1>6, <1>7, <2>1 DEF IInv, Filed
<1>15. Locals'
  BY DEF IInv, Locals
<1>16. Stopping'
  BY <1>6 DEF IInv, Stopping
<1> QED
  BY <1>8, <1>9, <1>10, <1>11, <1>12, <1>13, <1>14, <1>15, <1>16 DEF IInv

\* A step that changes no more than callbacks, flags and the event.
LEMMA FlagsStep ==
  ASSUME IInv, TypeOK', DrainedQuiet', Stopping',
         UNCHANGED <<m_jobQueue, m_processing, m_workers, heap, pc, held, copied>>,
         \A j \in Job : item'[j].priority = item[j].priority,
         m_jobEvent'.waiters = m_jobEvent.waiters,
         m_jobEvent.signaled => m_jobEvent'.signaled
  PROVE  IInv'
<1>1. Busy' = Busy /\ AllQueued' = AllQueued /\ \A p \in Priority : Queued(p)' = Queued(p)
  BY DEF Busy, AllQueued, Queued
<1>2. \A j \in m_processing \cup AllQueued : j \in Job
  BY DEF IInv, TypeOK, JobHeldOnce
<1>3. JobHeldOnce'
  BY <1>1 DEF IInv, JobHeldOnce
<1>4. WorkerBound'
  BY DEF IInv, WorkerBound
<1>5. PriorityReserve'
  <2> SUFFICES ASSUME NEW q \in Priority
               PROVE  Cardinality({j \in m_processing' : item'[j].priority <= q})
                        <= GetMaxWorkers(q)
    BY DEF PriorityReserve, GetMaxWorkers
  <2>1. {j \in m_processing' : item'[j].priority <= q} = {j \in m_processing : item[j].priority <= q}
    BY <1>2
  <2> QED
    BY <2>1 DEF IInv, PriorityReserve
<1>6. NoStrandedJob'
  <2>1. \A v \in Worker : WillLook(v) => WillLook(v)'
    BY DEF WillLook
  <2> QED
    BY <2>1 DEF IInv, NoStrandedJob
<1>7. Filed'
  <2>1. \A p \in Priority : \A j \in Queued(p) : j \in Job
    BY <1>2 DEF AllQueued
  <2> QED
    BY <1>1, <2>1 DEF IInv, Filed
<1>8. Locals'
  BY DEF IInv, Locals
<1> QED
  BY <1>3, <1>4, <1>5, <1>6, <1>7, <1>8 DEF IInv

\* CancelJob deletes a job that waits or clears the callback of one in process.
LEMMA CancelJobInv ==
  ASSUME IInv, NEW id, CancelJob(id)
  PROVE  IInv'
<1>1. CASE CancelQueued(id)
  BY <1>1, CancelQueuedInv DEF CancelJob
<1>2. CASE CancelProcessing(id)
  <2>1. PICK j \in m_processing : item' = [item EXCEPT ![j].callback = NULL]
    BY <1>2 DEF CancelProcessing
  <2>2. UNCHANGED <<m_running, m_pauseJobs, m_jobCounter, m_jobQueue, m_processing,
                    m_workers, m_jobEvent, heap, pc, held, copied, canceller>>
    BY <1>2 DEF CancelJob, CancelProcessing
  <2>3. j \in Job /\ item \in [Job -> WorkItem]
    BY DEF IInv, TypeOK
  <2>4. item' \in [Job -> WorkItem] /\ \A i \in Job : item'[i].priority = item[i].priority
    BY <2>1, <2>3 DEF WorkItem
  <2>5. TypeOK'
    BY <2>2, <2>4 DEF IInv, TypeOK
  <2>6. DrainedQuiet' /\ Stopping'
    BY <2>2 DEF IInv, DrainedQuiet, Stopping, AllQueued, Queued
  <2> QED
    BY <2>2, <2>4, <2>5, <2>6, FlagsStep
<1> QED
  BY <1>1, <1>2 DEF CancelJob

\* Pausing touches only the pausable priority, which promises nothing.
LEMMA PauseInv ==
  ASSUME IInv, PauseJobs \/ UnPauseJobs
  PROVE  IInv'
<1>1. /\ m_pauseJobs' \in BOOLEAN
      /\ UNCHANGED <<m_running, m_jobCounter, m_jobQueue, m_processing, item, m_workers,
                     m_jobEvent, heap, pc, held, copied, canceller>>
  BY DEF PauseJobs, UnPauseJobs
<1>2. TypeOK'
  BY <1>1 DEF IInv, TypeOK
<1>3. DrainedQuiet' /\ Stopping'
  BY <1>1 DEF IInv, DrainedQuiet, Stopping, AllQueued, Queued
<1> QED
  BY <1>1, <1>2, <1>3, FlagsStep

-------------------------------------------------------------------------------
(* Shutdown *)

\* The jobs that wait are gone, those in process lose their callbacks.
LEMMA CancelJobsInv ==
  ASSUME IInv, CancelJobs
  PROVE  IInv'
<1>1. /\ m_running' = FALSE /\ canceller' = "draining"
      /\ heap' = heap \ AllQueued
      /\ m_jobQueue' = [p \in Priority |-> <<>>]
      /\ item' = [j \in Job |-> IF j \in m_processing THEN [item[j] EXCEPT !.callback = NULL]
                                                      ELSE NoItem]
      /\ UNCHANGED <<m_pauseJobs, m_jobCounter, m_processing, m_workers, m_jobEvent, pc,
                     held, copied>>
  BY DEF CancelJobs
<1>2. \A p \in Priority : m_jobQueue'[p] = <<>> /\ Queued(p)' = {}
  <2>1. ToSet(<<>>) = {}
    BY EmptySeq, Elements
  <2> QED
    BY <1>1, <2>1 DEF Queued
<1>3. AllQueued' = {} /\ Busy' = Busy
  BY <1>1, <1>2 DEF AllQueued, Busy
<1>4. TypeOK'
  <2>1. NoItem \in WorkItem
    BY ManagerAssumption DEF NoItem, WorkItem, Priority, PRIORITY_LOW_PAUSABLE
  <2>2. \A j \in Job : [item[j] EXCEPT !.callback = NULL] \in WorkItem
    BY DEF IInv, TypeOK, WorkItem
  <2>3. item' \in [Job -> WorkItem]
    BY <1>1, <2>1, <2>2
  <2>4. m_jobQueue' \in [Priority -> Seq(Job)]
    BY <1>1
  <2> QED
    BY <1>1, <2>3, <2>4 DEF IInv, TypeOK
<1>5. JobHeldOnce'
  <2>1. m_processing' = {held'[w] : w \in Busy'}
    BY <1>1, <1>3 DEF IInv, JobHeldOnce
  <2>2. \A v, w \in Busy' : held'[v] = held'[w] => v = w
    BY <1>1, <1>3 DEF IInv, JobHeldOnce
  <2>3. AllQueued' \cap m_processing' = {} /\ heap' = AllQueued' \cup m_processing'
    BY <1>1, <1>3 DEF IInv, JobHeldOnce
  <2>4. Distinct(m_jobQueue')
    BY <1>2, EmptySeq DEF Distinct
  <2> QED
    BY <2>1, <2>2, <2>3, <2>4 DEF JobHeldOnce, Distinct
<1>6. WorkerBound'
  BY <1>1 DEF IInv, WorkerBound
<1>7. PriorityReserve'
  <2> SUFFICES ASSUME NEW q \in Priority
               PROVE  Cardinality({j \in m_processing' : item'[j].priority <= q})
                        <= GetMaxWorkers(q)
    BY DEF PriorityReserve, GetMaxWorkers
  <2>1. \A j \in m_processing : item'[j].priority = item[j].priority
    BY <1>1 DEF IInv, TypeOK, WorkItem
  <2>2. {j \in m_processing' : item'[j].priority <= q} = {j \in m_processing : item[j].priority <= q}
    BY <1>1, <2>1
  <2> QED
    BY <2>2 DEF IInv, PriorityReserve
<1>8. NoStrandedJob' /\ Filed'
  BY <1>2 DEF NoStrandedJob, Filed
<1>9. DrainedQuiet' /\ Stopping'
  BY <1>1, <1>3 DEF DrainedQuiet, Stopping
<1>10. Locals'
  BY <1>1 DEF IInv, Locals
<1> QED
  BY <1>4, <1>5, <1>6, <1>7, <1>8, <1>9, <1>10 DEF IInv

\* Setting the event strands nobody.
LEMMA DrainRoundInv ==
  ASSUME IInv, DrainRound
  PROVE  IInv'
<1>1. PICK w \in Worker : w \in m_workers
  BY DEF DrainRound, IInv, TypeOK
<1>2. /\ m_jobEvent' \in EventType(Worker)
      /\ m_jobEvent'.signaled = TRUE /\ m_jobEvent'.waiters = m_jobEvent.waiters
  BY <1>1, EventOperations DEF DrainRound, IInv, TypeOK
<1>3. TypeOK'
  BY <1>2 DEF DrainRound, IInv, TypeOK
<1>4. DrainedQuiet'
  BY DEF DrainRound, DrainedQuiet
<1>5. Stopping'
  BY DEF DrainRound, IInv, Stopping, AllQueued, Queued
<1> QED
  BY <1>2, <1>3, <1>4, <1>5, FlagsStep DEF DrainRound

\* CancelJobs returns when no worker is left: none is busy, so no job is left.
LEMMA DrainedInv ==
  ASSUME IInv, Drained
  PROVE  IInv'
<1>1. /\ m_workers = {} /\ canceller = "draining" /\ canceller' = "idle"
      /\ UNCHANGED <<m_running, m_pauseJobs, m_jobCounter, m_jobQueue, m_processing, item,
                     m_workers, m_jobEvent, heap, pc, held, copied>>
  BY DEF Drained
<1>2. \A w \in Worker : pc[w] \notin BusyPC
  BY <1>1 DEF IInv, WorkerBound
<1>3. m_processing = {}
  BY <1>2, Counts DEF Busy
<1>4. AllQueued = {} /\ heap = {}
  BY <1>1, <1>3 DEF IInv, Stopping, JobHeldOnce
<1>5. \A w \in Worker : held[w] = NULL /\ copied[w] = NULL
  <2>1. {"progress", "notify", "callback"} \subseteq BusyPC
    BY DEF BusyPC
  <2> QED
    BY <1>2, <2>1 DEF IInv, Locals
<1>6. TypeOK' /\ DrainedQuiet'
  BY <1>1, <1>4, <1>5 DEF IInv, TypeOK, DrainedQuiet
<1>7. Stopping'
  BY <1>1 DEF IInv, Stopping, AllQueued, Queued
<1> QED
  BY <1>1, <1>6, <1>7, FlagsStep

\* Restart accepts jobs again, with none there.
LEMMA RestartInv ==
  ASSUME IInv, Restart
  PROVE  IInv'
<1>1. TypeOK' /\ DrainedQuiet' /\ Stopping'
  BY DEF Restart, IInv, TypeOK, DrainedQuiet, Stopping, AllQueued, Queued
<1> QED
  BY <1>1, FlagsStep DEF Restart

-------------------------------------------------------------------------------
(* The invariant and its consequences *)

\* Every step of the manager keeps the invariant: one case for each action.
LEMMA NextInv == IInv /\ [Next]_vars => IInv'
<1> SUFFICES ASSUME IInv, [Next]_vars PROVE IInv'
  OBVIOUS
<1>1. CASE UNCHANGED vars
  <2>1. /\ UNCHANGED <<m_running, m_pauseJobs, m_jobCounter, m_jobQueue, m_processing, item,
                       m_workers, m_jobEvent, heap, pc, held, copied, canceller>>
    BY <1>1 DEF vars
  <2>2. TypeOK'
    BY <2>1 DEF IInv, TypeOK
  <2>3. DrainedQuiet' /\ Stopping'
    BY <2>1 DEF IInv, DrainedQuiet, Stopping, AllQueued, Queued
  <2> QED
    BY <2>1, <2>2, <2>3, FlagsStep
<1>2. CASE ClientStep
  BY <1>2, AddJobInv, CancelJobInv, PauseInv DEF ClientStep
<1>3. CASE ShutdownStep
  BY <1>3, CancelJobsInv, DrainRoundInv, DrainedInv, RestartInv DEF ShutdownStep
<1>4. ASSUME NEW w \in Worker, WorkerStep(w)
      PROVE  IInv'
  <2>1. CASE GetNextJobStep(w)
    BY <2>1, TakeJobInv, GoToSleepInv, WaitJobEventInv, WakeUpInv, RemoveWorkerInv,
       EndThreadInv DEF GetNextJobStep
  <2>2. CASE FreeJob(w)
    BY <2>2, FreeJobInv
  <2> QED
    BY <1>4, <2>1, <2>2, RunningInv DEF WorkerStep
<1> QED
  BY <1>1, <1>2, <1>3, <1>4 DEF Next

\* The inductive invariant holds in every behaviour of the manager.
LEMMA Invariant == Spec => []IInv
<1> QED
  BY InitInv, NextInv, PTL DEF Spec

\* Every variable keeps its type: the counter stays within an unsigned int, and
\* only worker threads wait for the event.
THEOREM TypeCorrect == Spec => []TypeOK
<1>1. IInv => TypeOK
  BY DEF IInv
<1> QED
  BY <1>1, Invariant, PTL

\* A job that is cancelled in its worker keeps its id.
LEMMA CallbackCleared ==
  ASSUME NEW x \in WorkItem
  PROVE  [x EXCEPT !.callback = NULL].id = x.id
BY DEF WorkItem

\* A step gives an id to a job only in AddJob, and takes one from a job only
\* when it is deleted.
LEMMA IdsKept ==
  ASSUME IInv, \A j \in heap : item[j].id \in JobId, [Next]_vars
  PROVE  \A j \in heap' : item'[j].id \in JobId
<1>1. item \in [Job -> WorkItem] /\ heap \subseteq Job /\ heap = AllQueued \cup m_processing
  BY DEF IInv, TypeOK, JobHeldOnce
<1>2. ASSUME UNCHANGED <<item, heap>>
      PROVE  \A j \in heap' : item'[j].id \in JobId
  BY <1>2
<1>3. ASSUME NEW j \in Job, NEW c \in Callback \cup {NULL}, NEW p \in Priority, AddJob(j, c, p)
      PROVE  \A i \in heap' : item'[i].id \in JobId
  <2>1. /\ item' = [item EXCEPT ![j] = [id |-> NextId, callback |-> c, priority |-> p]]
        /\ heap' = heap \cup {j}
    BY <1>3 DEF AddJob
  <2> QED
    BY <1>1, <2>1, NextIdType
<1>4. ASSUME NEW h \in heap, item' = [item EXCEPT ![h] = NoItem], heap' = heap \ {h}
      PROVE  \A j \in heap' : item'[j].id \in JobId
  BY <1>1, <1>4
<1>5. ASSUME NEW id \in JobId, CancelJob(id)
      PROVE  \A j \in heap' : item'[j].id \in JobId
  <2>1. CASE CancelQueued(id)
    <3>1. PICK p \in Priority : \E k \in 1..Len(m_jobQueue[p]) :
            /\ item' = [item EXCEPT ![m_jobQueue[p][k]] = NoItem]
            /\ heap' = heap \ {m_jobQueue[p][k]}
      BY <2>1 DEF CancelQueued
    <3>2. PICK k \in 1..Len(m_jobQueue[p]) :
            /\ item' = [item EXCEPT ![m_jobQueue[p][k]] = NoItem]
            /\ heap' = heap \ {m_jobQueue[p][k]}
      BY <3>1
    <3>3. m_jobQueue[p] \in Seq(Job)
      BY DEF IInv, TypeOK
    <3>4. m_jobQueue[p][k] \in heap
      BY <1>1, <3>3, Elements DEF AllQueued, Queued
    <3> QED
      BY <1>4, <3>2, <3>4
  <2>2. CASE CancelProcessing(id)
    <3>1. PICK i \in m_processing : item' = [item EXCEPT ![i].callback = NULL] /\ heap' = heap
      BY <2>2 DEF CancelProcessing
    <3>2. i \in Job /\ item[i] \in WorkItem
      BY <1>1
    <3>3. \A j \in Job : item'[j].id = item[j].id
      BY <1>1, <3>1, <3>2, CallbackCleared
    <3> QED
      BY <1>1, <3>1, <3>3
  <2> QED
    BY <1>5, <2>1, <2>2 DEF CancelJob
<1>6. ASSUME CancelJobs
      PROVE  \A j \in heap' : item'[j].id \in JobId
  <2>1. /\ heap' = heap \ AllQueued
        /\ item' = [j \in Job |-> IF j \in m_processing THEN [item[j] EXCEPT !.callback = NULL]
                                 ELSE NoItem]
    BY <1>6 DEF CancelJobs
  <2>2. \A j \in heap' : j \in m_processing /\ j \in heap /\ j \in Job
    BY <1>1, <2>1
  <2>3. \A j \in heap' : item'[j] = [item[j] EXCEPT !.callback = NULL]
    BY <2>1, <2>2
  <2>4. \A j \in heap' : item'[j].id = item[j].id
    <3> SUFFICES ASSUME NEW j \in heap'
                 PROVE  item'[j].id = item[j].id
      OBVIOUS
    <3>1. item[j] \in WorkItem /\ item'[j] = [item[j] EXCEPT !.callback = NULL]
      BY <1>1, <2>2, <2>3
    <3> QED
      BY <3>1, CallbackCleared
  <2> QED
    BY <2>2, <2>4
<1>7. ASSUME NEW w \in Worker, FreeJob(w)
      PROVE  \A j \in heap' : item'[j].id \in JobId
  <2>1. held[w] \in heap
    BY <1>1, <1>7 DEF IInv, JobHeldOnce, Busy, BusyPC, FreeJob
  <2> QED
    BY <1>4, <1>7, <2>1 DEF FreeJob
<1>8. CASE ClientStep
  BY <1>2, <1>3, <1>5, <1>8 DEF ClientStep, PauseJobs, UnPauseJobs
<1>9. CASE ShutdownStep
  BY <1>2, <1>6, <1>9 DEF ShutdownStep, DrainRound, Drained, Restart
<1>10. ASSUME NEW w \in Worker, WorkerStep(w)
       PROVE  \A j \in heap' : item'[j].id \in JobId
  <2>1. CASE GetNextJobStep(w)
    BY <1>2, <2>1 DEF GetNextJobStep, TakeJob, GoToSleep, WaitJobEvent, WakeUp, RemoveWorker, EndThread
  <2> QED
    BY <1>2, <1>7, <1>10, <2>1
       DEF WorkerStep, OnJobProgress, ProgressReturns, OnJobComplete, CallClient, ClientReturns
<1> QED
  BY <1>2, <1>8, <1>9, <1>10 DEF Next, vars

(***************************************************************************)
(* A job the manager has never has the id 0, however often the counter     *)
(* wraps and whichever jobs are cancelled, completed or drained.           *)
(***************************************************************************)
THEOREM IdsAreValid == Spec => []HeldIdsValid
<1> DEFINE Valid == \A j \in heap : item[j].id \in JobId
<1>1. Init => Valid
  BY DEF Init
<1>2. IInv /\ Valid /\ [Next]_vars => Valid'
  BY IdsKept
<1>3. IInv /\ Valid => HeldIdsValid
  BY DEF IInv, JobHeldOnce, HeldIdsValid
<1> HIDE DEF Valid
<1> QED
  BY <1>1, <1>2, <1>3, Invariant, PTL DEF Spec

(***************************************************************************)
(* Every job has exactly one owner until it is deleted: none is run twice, *)
(* deleted twice, used after its deletion or lost, whatever clients add    *)
(* and cancel while workers take, finish and time out.                     *)
(***************************************************************************)
THEOREM JobsHaveOneOwner == Spec => []JobHeldOnce
<1>1. IInv => JobHeldOnce
  BY DEF IInv
<1> QED
  BY <1>1, Invariant, PTL

(***************************************************************************)
(* The list of workers is the live ones, never more than max_workers and   *)
(* never fewer than the jobs in process.                                   *)
(***************************************************************************)
THEOREM WorkersBounded == Spec => []WorkerBound
<1>1. IInv => WorkerBound
  BY DEF IInv
<1> QED
  BY <1>1, Invariant, PTL

(***************************************************************************)
(* Jobs of a priority and those below it never take the workers that       *)
(* GetMaxWorkers keeps for the priorities above.                           *)
(***************************************************************************)
THEOREM PrioritiesReserved == Spec => []PriorityReserve
<1>1. IInv => PriorityReserve
  BY DEF IInv
<1> QED
  BY <1>1, Invariant, PTL

(***************************************************************************)
(* No lost wakeup: while a job that cannot be paused waits, a worker that  *)
(* is awake, or that the event will wake, is on the manager's list.        *)
(***************************************************************************)
THEOREM NoLostWakeup == Spec => []NoStrandedJob
<1>1. IInv => NoStrandedJob
  BY DEF IInv
<1> QED
  BY <1>1, Invariant, PTL

(***************************************************************************)
(* When CancelJobs has returned the manager has no job and no worker, and  *)
(* nobody is about to call a client.                                       *)
(***************************************************************************)
THEOREM DrainedIsQuiet == Spec => []DrainedQuiet
<1>1. IInv => DrainedQuiet
  BY DEF IInv
<1> QED
  BY <1>1, Invariant, PTL

-------------------------------------------------------------------------------
(* Refinement of JobService *)

(***************************************************************************)
(* JobManager implements JobService: the initial states map to initial     *)
(* states, and each critical section is one step of the service or none.   *)
(*                                                                         *)
(* The inductive invariant above says where a job is: the jobs in a queue  *)
(* are those of the heap that are not in process, and a job in process has *)
(* one worker, whose place is the status of the job.                       *)
(***************************************************************************)

\* What the place of its worker makes of a job.
StatusAt(p) ==
  IF p \in {"work", "progress"} THEN "running"
  ELSE IF p \in {"notify", "callback"} THEN "reporting" ELSE "ended"

ReportAt(w) == IF pc[w] \in {"notify", "callback"} THEN copied[w] ELSE NULL

\* The mapping, job by job and worker by worker.
Mapped ==
  /\ statusBar \in [Job -> {"none", "queued", "running", "reporting", "ended"}]
  /\ reportBar \in [Job -> Callback \cup {NULL}]
  /\ \A j \in Job :
       /\ j \in heap \ m_processing => statusBar[j] = "queued"
       /\ j \notin heap => statusBar[j] = "none"
       /\ j \notin m_processing => reportBar[j] = NULL
  /\ \A w \in Busy :
       /\ held[w] \in m_processing
       /\ statusBar[held[w]] = StatusAt(pc[w])
       /\ reportBar[held[w]] = ReportAt(w)
  /\ \A j \in m_processing : \E w \in Busy : held[w] = j
  /\ \A v, w \in Busy : held[v] = held[w] => v = w
  /\ m_processing \subseteq heap /\ heap \subseteq Job

LEMMA Mapping == IInv => Mapped
<1> SUFFICES ASSUME IInv
             PROVE  Mapped
  OBVIOUS
<1>1. /\ AllQueued = heap \ m_processing /\ m_processing \subseteq heap /\ heap \subseteq Job
      /\ m_processing = {held[w] : w \in Busy}
      /\ \A v, w \in Busy : held[v] = held[w] => v = w
  BY DEF IInv, TypeOK, JobHeldOnce
<1>2. \A w \in Busy : pc[w] \in {"work", "progress", "notify", "callback", "erase"}
  BY DEF Busy, BusyPC
<1>3. \A j \in Job : /\ j \in heap \ m_processing => statusBar[j] = "queued"
                     /\ j \notin heap => statusBar[j] = "none"
  BY <1>1 DEF statusBar
<1>4. \A j \in Job : j \notin m_processing => reportBar[j] = NULL
  BY <1>1 DEF reportBar
<1>5. ASSUME NEW w \in Busy
      PROVE  /\ held[w] \in m_processing
             /\ statusBar[held[w]] = StatusAt(pc[w])
             /\ reportBar[held[w]] = ReportAt(w)
  <2>1. held[w] \in m_processing /\ held[w] \in Job /\ held[w] \notin AllQueued
    BY <1>1
  <2>2. \A v \in Busy : held[v] = held[w] => v = w
    BY <1>1
  <2>3. statusBar[held[w]] = StatusAt(pc[w])
    BY <1>2, <2>1, <2>2 DEF statusBar, StatusAt
  <2>4. (CHOOSE v \in Busy : held[v] = held[w]) = w
    BY <2>2
  <2>5. reportBar[held[w]] = ReportAt(w)
    BY <2>1, <2>2, <2>4 DEF reportBar, ReportAt
  <2> QED
    BY <2>1, <2>3, <2>5
<1>6. statusBar \in [Job -> {"none", "queued", "running", "reporting", "ended"}]
  BY DEF statusBar
<1>7. reportBar \in [Job -> Callback \cup {NULL}]
  <2>1. \A j \in Job : reportBar[j] \in Callback \cup {NULL}
    BY <1>1, <1>4, <1>5 DEF ReportAt, IInv, TypeOK, Busy
  <2> QED
    BY <2>1 DEF reportBar
<1> QED
  BY <1>1, <1>3, <1>4, <1>5, <1>6, <1>7 DEF Mapped

(***************************************************************************)
(* A step leaves alone what the service knows of the jobs outside of S if  *)
(* these are in the heap and in process as before, with workers at places  *)
(* that mean the same.                                                     *)
(***************************************************************************)
LEMMA Others ==
  ASSUME Mapped, Mapped', NEW S,
         \A j \in Job \ S : /\ j \in heap' <=> j \in heap
                            /\ j \in m_processing' <=> j \in m_processing,
         \A w \in Busy : held[w] \notin S =>
           /\ w \in Busy' /\ held'[w] = held[w]
           /\ StatusAt(pc'[w]) = StatusAt(pc[w]) /\ ReportAt(w)' = ReportAt(w)
  PROVE  \A j \in Job \ S : statusBar'[j] = statusBar[j] /\ reportBar'[j] = reportBar[j]
<1> SUFFICES ASSUME NEW j \in Job \ S
             PROVE  statusBar'[j] = statusBar[j] /\ reportBar'[j] = reportBar[j]
  OBVIOUS
<1>1. CASE j \in m_processing
  <2>1. PICK w \in Busy : held[w] = j
    BY <1>1 DEF Mapped
  <2>2. /\ w \in Busy' /\ held'[w] = j
        /\ StatusAt(pc'[w]) = StatusAt(pc[w]) /\ ReportAt(w)' = ReportAt(w)
    BY <2>1
  <2>3. statusBar[j] = StatusAt(pc[w]) /\ reportBar[j] = ReportAt(w)
    BY <2>1 DEF Mapped
  <2>4. statusBar'[j] = StatusAt(pc'[w]) /\ reportBar'[j] = ReportAt(w)'
    BY <2>2 DEF Mapped
  <2> QED
    BY <2>2, <2>3, <2>4
<1>2. CASE j \notin m_processing
  BY <1>2 DEF Mapped
<1> QED
  BY <1>1, <1>2

\* What a step does to one job is what it does to the mapped variables.
LEMMA Assembled ==
  ASSUME Mapped, Mapped', NEW i \in Job,
         \A j \in Job \ {i} : statusBar'[j] = statusBar[j] /\ reportBar'[j] = reportBar[j]
  PROVE  /\ statusBar' = [statusBar EXCEPT ![i] = statusBar'[i]]
         /\ reportBar' = [reportBar EXCEPT ![i] = reportBar'[i]]
         /\ reportBar'[i] = reportBar[i] => reportBar' = reportBar
<1>1. /\ statusBar \in [Job -> {"none", "queued", "running", "reporting", "ended"}]
      /\ reportBar \in [Job -> Callback \cup {NULL}]
      /\ statusBar' \in [Job -> {"none", "queued", "running", "reporting", "ended"}]
      /\ reportBar' \in [Job -> Callback \cup {NULL}]
  BY DEF Mapped
<1> QED
  BY <1>1

\* A step that the service does not see.
LEMMA Unseen ==
  ASSUME Mapped, Mapped', UNCHANGED <<heap, m_processing, phaseBar, clientBar>>,
         \A w \in Busy : /\ w \in Busy' /\ held'[w] = held[w]
                         /\ StatusAt(pc'[w]) = StatusAt(pc[w]) /\ ReportAt(w)' = ReportAt(w)
  PROVE  UNCHANGED Service!vars
<1>1. \A j \in Job \ {} : statusBar'[j] = statusBar[j] /\ reportBar'[j] = reportBar[j]
  BY Others
<1>2. statusBar' = statusBar
  BY <1>1 DEF statusBar
<1>3. reportBar' = reportBar
  BY <1>1 DEF reportBar
<1> QED
  BY <1>2, <1>3 DEF Service!vars

-------------------------------------------------------------------------------
(* Steps *)

\* At first there is no job and the service accepts.
LEMMA InitMaps == Init => Service!Init
<1> SUFFICES ASSUME Init
             PROVE  Service!Init
  OBVIOUS
<1>1. AllQueued = {}
  <2>1. \A p \in Priority : Queued(p) = {}
    BY Elements DEF Init, Queued, ToSet
  <2> QED
    BY <2>1 DEF AllQueued
<1>2. Busy = {} /\ m_processing = {}
  BY DEF Init, Busy, BusyPC
<1>3. phaseBar = "accepting"
  BY DEF Init, phaseBar
<1>4. statusBar = [j \in Job |-> "none"] /\ reportBar = [j \in Job |-> NULL]
  BY <1>1, <1>2 DEF statusBar, reportBar
<1>5. clientBar = [j \in Job |-> NULL]
  BY DEF Init, clientBar, NoItem
<1> QED
  BY <1>3, <1>4, <1>5 DEF Service!Init

\* AddJob: the job is submitted.
LEMMA AddJobMaps ==
  ASSUME IInv, Mapped, Mapped', NEW j \in Job, NEW c \in Callback \cup {NULL}, NEW p \in Priority,
         AddJob(j, c, p)
  PROVE  Service!Submit(j, c)
<1>1. /\ phaseBar = "accepting" /\ phaseBar' = phaseBar
      /\ j \notin heap /\ heap' = heap \cup {j} /\ j \notin m_processing
      /\ UNCHANGED <<m_processing, held, copied>>
  BY DEF AddJob, phaseBar, Mapped
<1>2. Busy' = Busy /\ \A w \in Busy : pc'[w] = pc[w]
  <2>1. StartWorkers(p)
    BY DEF AddJob
  <2> QED
    BY <2>1, Started DEF Busy
<1>3. \A w \in Busy : held[w] # j /\ ReportAt(w)' = ReportAt(w)
  BY <1>1, <1>2 DEF Mapped, ReportAt
<1>4. \A i \in Job \ {j} : statusBar'[i] = statusBar[i] /\ reportBar'[i] = reportBar[i]
  BY <1>1, <1>2, <1>3, Others
<1>5. statusBar[j] = "none" /\ statusBar'[j] = "queued" /\ reportBar[j] = NULL /\ reportBar'[j] = NULL
  BY <1>1 DEF Mapped
<1>6. statusBar' = [statusBar EXCEPT ![j] = "queued"] /\ reportBar' = reportBar
  BY <1>4, <1>5, Assembled
<1>7. clientBar' = [clientBar EXCEPT ![j] = c]
  BY DEF AddJob, clientBar, IInv, TypeOK
<1> QED
  BY <1>1, <1>5, <1>6, <1>7 DEF Service!Submit

\* CancelJob of a job that waits or that a worker has.
LEMMA CancelJobMaps ==
  ASSUME IInv, Mapped, Mapped', NEW id \in JobId, CancelJob(id)
  PROVE  \E j \in Job : Service!Cancel(j)
<1>1. /\ phaseBar' = phaseBar /\ Busy' = Busy
      /\ UNCHANGED <<m_processing, held, copied, pc>>
      /\ \A w \in Busy : ReportAt(w)' = ReportAt(w)
  BY DEF CancelJob, phaseBar, Busy, ReportAt
<1>2. CASE CancelQueued(id)
  <2>1. PICK p \in Priority : \E k \in 1..Len(m_jobQueue[p]) :
          /\ item' = [item EXCEPT ![m_jobQueue[p][k]] = NoItem]
          /\ heap' = heap \ {m_jobQueue[p][k]}
    BY <1>2 DEF CancelQueued
  <2>2. PICK j \in AllQueued : item' = [item EXCEPT ![j] = NoItem] /\ heap' = heap \ {j}
    <3>1. \A q \in Priority : m_jobQueue[q] \in Seq(Job)
      BY DEF IInv, TypeOK
    <3>2. \A q \in Priority : \A k \in 1..Len(m_jobQueue[q]) : m_jobQueue[q][k] \in Queued(q)
      BY <3>1, Elements DEF Queued
    <3> QED
      BY <2>1, <3>2 DEF AllQueued
  <2>3. j \in Job /\ j \in heap /\ j \notin m_processing
    BY DEF IInv, TypeOK, JobHeldOnce
  <2>4. \A i \in Job \ {j} : statusBar'[i] = statusBar[i] /\ reportBar'[i] = reportBar[i]
    BY <1>1, <2>2, Others
  <2>5. statusBar[j] = "queued" /\ statusBar'[j] = "none" /\ reportBar[j] = NULL /\ reportBar'[j] = NULL
    BY <1>1, <2>2, <2>3 DEF Mapped
  <2>6. statusBar' = [statusBar EXCEPT ![j] = "none"] /\ reportBar' = reportBar
    BY <2>3, <2>4, <2>5, Assembled
  <2>7. clientBar' = [clientBar EXCEPT ![j] = NULL]
    BY <2>2, <2>3 DEF clientBar, NoItem, IInv, TypeOK
  <2> QED
    BY <1>1, <2>3, <2>5, <2>6, <2>7 DEF Service!Cancel
<1>3. CASE CancelProcessing(id)
  <2>1. PICK j \in m_processing : item' = [item EXCEPT ![j].callback = NULL] /\ heap' = heap
    BY <1>3 DEF CancelProcessing
  <2>2. PICK w \in Busy : held[w] = j
    BY DEF Mapped
  <2>3. j \in Job /\ statusBar[j] \notin {"none", "queued"}
    BY <2>2 DEF Mapped, StatusAt
  <2>4. \A i \in Job \ {} : statusBar'[i] = statusBar[i] /\ reportBar'[i] = reportBar[i]
    BY <1>1, <2>1, Others
  <2>5. statusBar' = [statusBar EXCEPT ![j] = IF @ = "queued" THEN "none" ELSE @] /\ reportBar' = reportBar
    <3>1. statusBar' = statusBar /\ reportBar' = reportBar
      BY <2>4 DEF statusBar, reportBar
    <3> QED
      BY <2>3, <3>1 DEF Mapped
  <2>6. clientBar' = [clientBar EXCEPT ![j] = NULL]
    BY <2>1, <2>3 DEF clientBar, IInv, TypeOK, WorkItem
  <2> QED
    BY <1>1, <2>3, <2>5, <2>6 DEF Service!Cancel
<1> QED
  BY <1>2, <1>3 DEF CancelJob

\* TakeJob: only a manager that accepts has a job to start.
LEMMA TakeJobMaps ==
  ASSUME IInv, Mapped, Mapped', NEW w \in Worker, TakeJob(w)
  PROVE  \E j \in Job : Service!Start(j)
<1>1. PICK p \in Priority :
        /\ m_jobQueue[p] # <<>>
        /\ m_processing' = m_processing \cup {Head(m_jobQueue[p])}
        /\ held' = [held EXCEPT ![w] = Head(m_jobQueue[p])]
        /\ pc' = [pc EXCEPT ![w] = "work"]
  BY DEF TakeJob, PopJob, Poppable
<1> DEFINE j == Head(m_jobQueue[p])
<1>2. j \in AllQueued
  BY <1>1, TailRemoves, Elements DEF IInv, TypeOK, AllQueued, Queued
<1>3. /\ m_processing' = m_processing \cup {j} /\ held' = [held EXCEPT ![w] = j]
      /\ pc' = [pc EXCEPT ![w] = "work"]
      /\ UNCHANGED <<m_running, canceller, heap, copied, item>>
  BY <1>1 DEF TakeJob
<1> HIDE DEF j
<1>4. j \in Job /\ j \in heap /\ j \notin m_processing
  BY <1>2 DEF IInv, TypeOK, JobHeldOnce
<1>5. phaseBar = "accepting" /\ UNCHANGED <<phaseBar, clientBar>>
  BY <1>2, <1>3 DEF phaseBar, clientBar, IInv, Stopping
<1>6. /\ w \notin Busy /\ w \in Busy' /\ held'[w] = j /\ pc'[w] = "work"
      /\ \A v \in Busy : v \in Busy' /\ held'[v] = held[v] /\ pc'[v] = pc[v]
  BY <1>3 DEF IInv, TypeOK, TakeJob, Busy, BusyPC
<1>7. \A v \in Busy : ReportAt(v)' = ReportAt(v)
  BY <1>3, <1>6 DEF ReportAt
<1>8. \A i \in Job \ {j} : statusBar'[i] = statusBar[i] /\ reportBar'[i] = reportBar[i]
  BY <1>3, <1>6, <1>7, Others
<1>9. statusBar[j] = "queued" /\ statusBar'[j] = "running" /\ reportBar[j] = NULL /\ reportBar'[j] = NULL
  <2>1. statusBar'[j] = StatusAt(pc'[w]) /\ reportBar'[j] = ReportAt(w)'
    BY <1>6 DEF Mapped
  <2> QED
    BY <1>4, <1>6, <2>1 DEF Mapped, StatusAt, ReportAt
<1>10. statusBar' = [statusBar EXCEPT ![j] = "running"] /\ reportBar' = reportBar
  BY <1>4, <1>8, <1>9, Assembled
<1> QED
  BY <1>4, <1>5, <1>9, <1>10 DEF Service!Start

(***************************************************************************)
(* A worker that goes on with its job: what the service sees of it is the  *)
(* change of the job's status and report.                                  *)
(***************************************************************************)
LEMMA BusyMaps ==
  ASSUME IInv, Mapped, Mapped', NEW w \in Busy, NEW x \in BusyPC, pc' = [pc EXCEPT ![w] = x],
         NEW c, copied' = [copied EXCEPT ![w] = c],
         UNCHANGED <<m_running, m_processing, item, heap, held, canceller>>
  PROVE  /\ held[w] \in Job /\ UNCHANGED <<phaseBar, clientBar>>
         /\ statusBar[held[w]] = StatusAt(pc[w]) /\ reportBar[held[w]] = ReportAt(w)
         /\ statusBar' = [statusBar EXCEPT ![held[w]] = StatusAt(x)]
         /\ reportBar' = [reportBar EXCEPT ![held[w]] =
                            IF x \in {"notify", "callback"} THEN c ELSE NULL]
<1> DEFINE j == held[w]
           r == IF x \in {"notify", "callback"} THEN c ELSE NULL
<1>1. w \in Worker /\ pc \in [Worker -> PC] /\ copied \in [Worker -> Callback \cup {NULL}]
  BY DEF IInv, TypeOK, Busy
<1>2. /\ Busy' = Busy /\ pc'[w] = x /\ ReportAt(w)' = r
      /\ \A v \in Busy \ {w} : pc'[v] = pc[v] /\ ReportAt(v)' = ReportAt(v)
  BY <1>1 DEF Busy, ReportAt
<1>3. j \in Job /\ j \in m_processing /\ \A v \in Busy : held[v] = j => v = w
  BY DEF Mapped
<1>4. UNCHANGED <<phaseBar, clientBar>>
  BY DEF phaseBar, clientBar
<1>5. \A i \in Job \ {j} : statusBar'[i] = statusBar[i] /\ reportBar'[i] = reportBar[i]
  BY <1>2, <1>3, Others
<1>6. /\ statusBar[j] = StatusAt(pc[w]) /\ reportBar[j] = ReportAt(w)
      /\ statusBar'[j] = StatusAt(x) /\ reportBar'[j] = r
  BY <1>2 DEF Mapped
<1> HIDE DEF r
<1>7. statusBar' = [statusBar EXCEPT ![j] = StatusAt(x)] /\ reportBar' = [reportBar EXCEPT ![j] = r]
  BY <1>3, <1>5, <1>6, Assembled
<1> QED
  BY <1>3, <1>4, <1>6, <1>7 DEF r

\* DoWork has returned: the job ends, with a report if its client is still there.
LEMMA OnJobCompleteMaps ==
  ASSUME IInv, Mapped, Mapped', NEW w \in Worker, OnJobComplete(w)
  PROVE  \E j \in Job : Service!End(j)
<1> DEFINE x == IF item[held[w]].callback = NULL THEN "erase" ELSE "notify"
<1>1. w \in Busy /\ x \in BusyPC /\ pc[w] = "work"
  BY DEF OnJobComplete, Busy, BusyPC
<1>2. /\ pc' = [pc EXCEPT ![w] = x] /\ copied' = [copied EXCEPT ![w] = item[held[w]].callback]
      /\ UNCHANGED <<m_running, m_processing, item, heap, held, canceller>>
  BY DEF OnJobComplete
<1> HIDE DEF x
<1>3. /\ held[w] \in Job /\ UNCHANGED <<phaseBar, clientBar>>
      /\ statusBar[held[w]] = StatusAt(pc[w])
      /\ statusBar' = [statusBar EXCEPT ![held[w]] = StatusAt(x)]
      /\ reportBar' = [reportBar EXCEPT ![held[w]] =
                         IF x \in {"notify", "callback"} THEN item[held[w]].callback ELSE NULL]
  BY <1>1, <1>2, BusyMaps
<1>4. clientBar[held[w]] = item[held[w]].callback
  BY <1>3 DEF clientBar
<1>5. statusBar[held[w]] = "running"
  BY <1>1, <1>3 DEF StatusAt
<1>6. /\ StatusAt(x) = IF clientBar[held[w]] = NULL THEN "ended" ELSE "reporting"
      /\ (IF x \in {"notify", "callback"} THEN item[held[w]].callback ELSE NULL) = clientBar[held[w]]
  BY <1>4 DEF StatusAt, x
<1> QED
  BY <1>3, <1>5, <1>6 DEF Service!End

\* OnJobProgress comes and goes, and the report begins: nothing to see.
LEMMA CallsUnseen ==
  ASSUME IInv, Mapped, Mapped', NEW w \in Worker,
         OnJobProgress(w) \/ ProgressReturns(w) \/ CallClient(w)
  PROVE  UNCHANGED Service!vars
<1>1. /\ w \in Busy /\ UNCHANGED <<m_running, m_processing, item, heap, held, canceller>>
      /\ UNCHANGED <<phaseBar, clientBar>>
  BY DEF OnJobProgress, ProgressReturns, CallClient, Busy, BusyPC, phaseBar, clientBar
<1>2. \A v \in Busy : v \in Busy' /\ StatusAt(pc'[v]) = StatusAt(pc[v]) /\ ReportAt(v)' = ReportAt(v)
  BY DEF IInv, TypeOK, OnJobProgress, ProgressReturns, CallClient, Busy, BusyPC, StatusAt, ReportAt
<1> QED
  BY <1>1, <1>2, Unseen

\* The client's OnJobComplete has returned.
LEMMA ClientReturnsMaps ==
  ASSUME IInv, Mapped, Mapped', NEW w \in Worker, ClientReturns(w)
  PROVE  \E j \in Job : Service!Reported(j)
<1>1. /\ w \in Busy /\ "erase" \in BusyPC /\ pc[w] = "callback"
      /\ pc' = [pc EXCEPT ![w] = "erase"] /\ copied' = [copied EXCEPT ![w] = NULL]
      /\ UNCHANGED <<m_running, m_processing, item, heap, held, canceller>>
  BY DEF ClientReturns, Busy, BusyPC
<1>2. /\ held[w] \in Job /\ UNCHANGED <<phaseBar, clientBar>>
      /\ statusBar[held[w]] = StatusAt(pc[w])
      /\ statusBar' = [statusBar EXCEPT ![held[w]] = StatusAt("erase")]
      /\ reportBar' = [reportBar EXCEPT ![held[w]] = NULL]
  BY <1>1, BusyMaps
<1> QED
  BY <1>1, <1>2 DEF StatusAt, Service!Reported

\* The job is deleted.
LEMMA FreeJobMaps ==
  ASSUME IInv, Mapped, Mapped', NEW w \in Worker, FreeJob(w)
  PROVE  \E j \in Job : Service!Retire(j)
<1> DEFINE j == held[w]
<1>1. w \in Busy /\ pc[w] = "erase"
  BY DEF FreeJob, Busy, BusyPC
<1>2. /\ j \in Job /\ j \in m_processing /\ j \in heap
      /\ statusBar[j] = "ended" /\ reportBar[j] = NULL
      /\ \A v \in Busy : held[v] = j => v = w
  BY <1>1 DEF Mapped, StatusAt, ReportAt
<1>3. /\ m_processing' = m_processing \ {j} /\ heap' = heap \ {j}
      /\ item' = [item EXCEPT ![j] = NoItem]
      /\ held' = [held EXCEPT ![w] = NULL] /\ pc' = [pc EXCEPT ![w] = "next"]
      /\ UNCHANGED <<m_running, canceller, copied>>
  BY DEF FreeJob
<1> HIDE DEF j
<1>4. \A v \in Busy : v # w => v \in Busy' /\ held'[v] = held[v] /\ pc'[v] = pc[v]
  BY <1>3 DEF IInv, TypeOK, Busy
<1>5. \A v \in Busy : held[v] # j => /\ v \in Busy' /\ held'[v] = held[v]
                                     /\ StatusAt(pc'[v]) = StatusAt(pc[v]) /\ ReportAt(v)' = ReportAt(v)
  BY <1>3, <1>4 DEF ReportAt, j
<1>6. \A i \in Job \ {j} : statusBar'[i] = statusBar[i] /\ reportBar'[i] = reportBar[i]
  BY <1>3, <1>5, Others
<1>7. statusBar'[j] = "none" /\ reportBar'[j] = NULL
  BY <1>2, <1>3 DEF Mapped
<1>8. statusBar' = [statusBar EXCEPT ![j] = "none"] /\ reportBar' = reportBar
  BY <1>2, <1>6, <1>7, Assembled
<1>9. clientBar' = [clientBar EXCEPT ![j] = NULL] /\ phaseBar' = phaseBar
  BY <1>2, <1>3 DEF clientBar, phaseBar, NoItem, IInv, TypeOK
<1> QED
  BY <1>2, <1>8, <1>9 DEF Service!Retire

\* CancelJobs: jobs that wait are deleted, the others lose their clients.
LEMMA CancelJobsMaps ==
  ASSUME IInv, Mapped, Mapped', CancelJobs
  PROVE  Service!Stop
<1>1. heap' = m_processing /\ UNCHANGED <<m_processing, pc, held, copied>>
  BY DEF CancelJobs, IInv, JobHeldOnce
<1>2. Busy' = Busy /\ \A w \in Busy : ReportAt(w)' = ReportAt(w)
  BY <1>1 DEF Busy, ReportAt
<1>3. \A j \in Job \ (heap \ m_processing) : statusBar'[j] = statusBar[j] /\ reportBar'[j] = reportBar[j]
  BY <1>1, <1>2, Others DEF Mapped
<1>4. \A j \in heap \ m_processing : statusBar[j] = "queued" /\ statusBar'[j] = "none"
                                     /\ reportBar[j] = NULL /\ reportBar'[j] = NULL
  BY <1>1 DEF Mapped
<1>5. \A j \in Job \ (heap \ m_processing) : statusBar[j] # "queued"
  BY DEF Mapped, StatusAt
<1>6. statusBar' = [j \in Job |-> IF statusBar[j] = "queued" THEN "none" ELSE statusBar[j]]
  <2>1. statusBar' \in [Job -> {"none", "queued", "running", "reporting", "ended"}]
    BY DEF Mapped
  <2> QED
    BY <1>3, <1>4, <1>5, <2>1
<1>7. reportBar' = reportBar
  <2>1. reportBar \in [Job -> Callback \cup {NULL}] /\ reportBar' \in [Job -> Callback \cup {NULL}]
    BY DEF Mapped
  <2> QED
    BY <1>3, <1>4, <2>1
<1>8. clientBar' = [j \in Job |-> NULL]
  BY DEF CancelJobs, clientBar, NoItem, IInv, TypeOK, WorkItem
<1>9. phaseBar' = "stopping"
  BY DEF CancelJobs, phaseBar
<1> QED
  BY <1>6, <1>7, <1>8, <1>9 DEF Service!Stop

\* CancelJobs returns when there is no job left.
LEMMA DrainedMaps ==
  ASSUME IInv, Mapped, Mapped', Drained
  PROVE  Service!Stopped
<1>1. /\ ~m_running /\ canceller = "draining" /\ canceller' = "idle" /\ m_workers = {}
      /\ UNCHANGED <<m_running, m_processing, item, heap, held, copied, pc>>
  BY DEF Drained, IInv, Stopping
<1>2. m_processing = {}
  BY <1>1, Counts DEF IInv, WorkerBound, Busy
<1>3. heap = {}
  BY <1>1, <1>2 DEF IInv, Stopping, JobHeldOnce
<1>4. \A j \in Job : statusBar[j] = "none"
  BY <1>3 DEF Mapped
<1>5. phaseBar = "stopping" /\ phaseBar' = "stopped" /\ clientBar' = clientBar
  BY <1>1 DEF phaseBar, clientBar
<1>6. statusBar' = statusBar /\ reportBar' = reportBar
  <2>1. \A j \in Job : statusBar'[j] = "none" /\ reportBar'[j] = NULL /\ reportBar[j] = NULL
    BY <1>1, <1>2, <1>3 DEF Mapped
  <2> QED
    BY <1>4, <2>1 DEF statusBar, reportBar
<1> QED
  BY <1>4, <1>5, <1>6 DEF Service!Stopped

\* Restart follows a CancelJobs that has returned.
LEMMA RestartMaps ==
  ASSUME IInv, Mapped, Mapped', Restart
  PROVE  Service!Restart
<1>1. phaseBar = "stopped" /\ phaseBar' = "accepting" /\ clientBar' = clientBar
  BY DEF Restart, phaseBar, clientBar
<1>2. /\ UNCHANGED <<m_processing, heap, held, copied, pc>> /\ Busy' = Busy
      /\ \A w \in Busy : ReportAt(w)' = ReportAt(w)
  BY DEF Restart, Busy, ReportAt
<1>3. \A j \in Job \ {} : statusBar'[j] = statusBar[j] /\ reportBar'[j] = reportBar[j]
  BY <1>2, Others
<1>4. statusBar' = statusBar /\ reportBar' = reportBar
  BY <1>3 DEF statusBar, reportBar
<1> QED
  BY <1>1, <1>4 DEF Service!Restart

\* The rest of what workers and the shutdown do is the manager's own affair.
LEMMA OtherStepsUnseen ==
  ASSUME IInv, Mapped, Mapped',
         \/ PauseJobs \/ UnPauseJobs \/ DrainRound \/ UNCHANGED vars
         \/ \E w \in Worker : \/ GoToSleep(w) \/ WaitJobEvent(w) \/ WakeUp(w)
                              \/ RemoveWorker(w) \/ EndThread(w)
  PROVE  UNCHANGED Service!vars
<1>1. /\ UNCHANGED <<m_running, m_processing, item, heap, held, copied, canceller>>
      /\ UNCHANGED <<phaseBar, clientBar>>
  BY DEF PauseJobs, UnPauseJobs, DrainRound, GoToSleep, WaitJobEvent, WakeUp, RemoveWorker, EndThread,
         vars, phaseBar, clientBar
<1>2. \A v \in Busy : pc'[v] = pc[v]
  BY DEF IInv, TypeOK, Busy, BusyPC, PauseJobs, UnPauseJobs, DrainRound, GoToSleep, WaitJobEvent, WakeUp,
         RemoveWorker, EndThread, vars
<1>3. \A v \in Busy : v \in Busy' /\ ReportAt(v)' = ReportAt(v)
  BY <1>1, <1>2 DEF Busy, ReportAt
<1> QED
  BY <1>1, <1>2, <1>3, Unseen

LEMMA StepMaps == IInv /\ Mapped /\ Mapped' /\ [Next]_vars => [Service!Next]_(Service!vars)
<1> SUFFICES ASSUME IInv, Mapped, Mapped', [Next]_vars
             PROVE  Service!Next \/ UNCHANGED Service!vars
  BY DEF Service!vars
<1>1. CASE ClientStep
  BY <1>1, AddJobMaps, CancelJobMaps, OtherStepsUnseen DEF ClientStep, Service!Next
<1>2. CASE ShutdownStep
  BY <1>2, CancelJobsMaps, DrainedMaps, RestartMaps, OtherStepsUnseen DEF ShutdownStep, Service!Next
<1>3. ASSUME NEW w \in Worker, WorkerStep(w)
      PROVE  Service!Next \/ UNCHANGED Service!vars
  BY <1>3, TakeJobMaps, OnJobCompleteMaps, CallsUnseen, ClientReturnsMaps, FreeJobMaps, OtherStepsUnseen
     DEF WorkerStep, GetNextJobStep, Service!Next
<1>4. CASE UNCHANGED vars
  BY <1>4, OtherStepsUnseen
<1> QED
  BY <1>1, <1>2, <1>3, <1>4 DEF Next

(***************************************************************************)
(* CJobManager keeps what JobService promises its clients: a job is        *)
(* started once, ends once and is then reported to its client unless it    *)
(* was cancelled before its end, and after CancelJobs there is neither a   *)
(* job nor a report.                                                       *)
(***************************************************************************)
THEOREM ManagerImplementsService == Spec => ImplementsService
<1>1. Init => Service!Init
  BY InitMaps
<1>2. [](IInv /\ Mapped) /\ [][Next]_vars => [][Service!Next]_(Service!vars)
  BY StepMaps, PTL
<1>3. Spec => [](IInv /\ Mapped)
  BY Invariant, Mapping, PTL
<1> QED
  BY <1>1, <1>2, <1>3, PTL DEF Spec, ImplementsService, Service!Spec

===============================================================================
