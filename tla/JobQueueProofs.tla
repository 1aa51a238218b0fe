----------------------------- MODULE JobQueueProofs -----------------------------
(***************************************************************************)
(* The safety invariants of JobQueue for any number of jobs, workers, keys *)
(* and jobs at once, on top of JobManagerProofs: every step of the queue   *)
(* is a step of the manager or leaves it alone.                            *)
(*                                                                         *)
(* That the manager has the jobs of the queue's entries needs the ids: as  *)
(* long as the counter does not wrap no two jobs have the same, so that    *)
(* CancelJob of an entry's id cancels the entry's job and no other.  That  *)
(* OnJobComplete erases the entry of the job that is complete, and not     *)
(* that of another, needs the jobs to be unique, which AddJob sees to.     *)
(***************************************************************************)
EXTENDS JobQueue, JobManagerProofs

-------------------------------------------------------------------------------
(* The inductive invariant, part by part *)

\* The two lists: no job is at two places of them.
Lists(jobs, entries) ==
  /\ jobs \in Seq(Job) /\ IsInjective(jobs)
  /\ entries \subseteq [job : Job, id : 0..(IdSpace - 1)]
  /\ IsFiniteSet(entries) /\ Cardinality(entries) <= m_jobsAtOnce
  /\ \A e \in entries : e.job \notin ToSet(jobs)
  /\ \A e, f \in entries : e.job = f.job => e = f

\* No two jobs in them are equal, but for those that were deleted.
Unique(jobs, entries, k) ==
  \A i, j \in ToSet(jobs) \cup {e.job : e \in entries} : k[i] # NULL /\ k[i] = k[j] => i = j

\* EntryAnswered, for these entries and workers that have told the queue.
Answering(entries, t) ==
  m_running =>
    \A e \in entries :
      /\ e.job \in heap
      /\ item[e.job].id = e.id
      /\ item[e.job].callback = Queue
      /\ \A w \in Busy : held[w] = e.job => pc[w] # "erase" /\ w \notin t

\* OneOwner, for these jobs.
Owning(jobs, k) ==
  /\ heap \cap ToSet(jobs) = {}
  /\ \A j \in heap \cup ToSet(jobs) : k[j] # NULL
  /\ m_running => \A j \in Job : k[j] # NULL => j \in heap \cup ToSet(jobs)

\* The counter cannot wrap while jobs wait, and no two jobs have an id.
Counting(jobs) ==
  /\ m_jobCounter + Len(jobs) < IdSpace
  /\ \A j \in heap : item[j].id \in 1..m_jobCounter
  /\ \A i, j \in heap : item[i].id = item[j].id => i = j

QTypes ==
  /\ key \in [Job -> Key \cup {NULL}]
  /\ told \subseteq Worker /\ \A w \in told : pc[w] = "callback"
  /\ cancelling \in BOOLEAN

QIInv ==
  /\ IInv
  /\ QTypes
  /\ Lists(waiting, inProcess)
  /\ Unique(waiting, inProcess, key)
  /\ Answering(inProcess, told)
  /\ Owning(waiting, key)
  /\ Counting(waiting)

-------------------------------------------------------------------------------
(* Lists *)

\* A job is put at the end or at the beginning.
LEMMA Put ==
  ASSUME NEW s \in Seq(Job), IsInjective(s), NEW j \in Job, j \notin ToSet(s)
  PROVE  /\ Append(s, j) \in Seq(Job) /\ IsInjective(Append(s, j)) /\ Len(Append(s, j)) = Len(s) + 1
         /\ ToSet(Append(s, j)) = ToSet(s) \cup {j}
         /\ <<j>> \o s \in Seq(Job) /\ IsInjective(<<j>> \o s) /\ Len(<<j>> \o s) = Len(s) + 1
         /\ ToSet(<<j>> \o s) = ToSet(s) \cup {j}
<1> DEFINE a == Append(s, j)
           b == <<j>> \o s
<1>1. /\ Len(s) \in Nat /\ DOMAIN s = 1..Len(s)
      /\ \A i \in 1..Len(s) : s[i] \in ToSet(s)
      /\ \A i, k \in 1..Len(s) : s[i] = s[k] => i = k
  BY LenProperties DEF ToSet, IsInjective
<1>2. /\ a \in Seq(Job) /\ Len(a) = Len(s) + 1 /\ ToSet(a) = ToSet(s) \cup {j}
      /\ DOMAIN a = 1..(Len(s) + 1)
      /\ \A i \in 1..(Len(s) + 1) : a[i] = IF i <= Len(s) THEN s[i] ELSE j
  BY Appended, LenProperties
<1>3. /\ b \in Seq(Job) /\ Len(b) = Len(s) + 1 /\ DOMAIN b = 1..(Len(s) + 1)
      /\ \A i \in 1..(Len(s) + 1) : b[i] = IF i = 1 THEN j ELSE s[i - 1]
  <2>1. <<j>> \in Seq(Job) /\ Len(<<j>>) = 1 /\ <<j>>[1] = j
    OBVIOUS
  <2>2. /\ b \in Seq(Job) /\ Len(b) = 1 + Len(s)
        /\ \A i \in 1..(1 + Len(s)) : b[i] = IF i <= 1 THEN <<j>>[i] ELSE s[i - 1]
    BY <2>1, ConcatProperties
  <2> QED
    BY <1>1, <2>1, <2>2, LenProperties
<1> HIDE DEF a, b
<1>4. IsInjective(a)
  BY <1>1, <1>2 DEF IsInjective
<1>5. ASSUME NEW i \in 1..(Len(s) + 1), i # 1
      PROVE  i - 1 \in 1..Len(s) /\ b[i] = s[i - 1]
  BY <1>1, <1>3, <1>5
<1>6. IsInjective(b)
  <2> SUFFICES ASSUME NEW i \in 1..(Len(s) + 1), NEW k \in 1..(Len(s) + 1), b[i] = b[k]
               PROVE  i = k
    BY <1>3 DEF IsInjective
  <2>1. i \in Int /\ k \in Int
    OBVIOUS
  <2>2. CASE i = 1 \/ k = 1
    BY <1>1, <1>3, <1>5, <2>2
  <2>3. CASE i # 1 /\ k # 1
    <3>1. i - 1 = k - 1
      BY <1>1, <1>5, <2>3
    <3> QED
      BY <2>1, <3>1
  <2> QED
    BY <2>2, <2>3
<1>7. ToSet(b) = ToSet(s) \cup {j}
  <2>1. \A i \in 1..Len(s) : i + 1 \in 1..(Len(s) + 1) /\ b[i + 1] = s[i]
    BY <1>1, <1>3
  <2>2. 1 \in 1..(Len(s) + 1) /\ b[1] = j
    BY <1>1, <1>3
  <2>3. \A i \in 1..(Len(s) + 1) : b[i] \in ToSet(s) \cup {j}
    BY <1>1, <1>3, <1>5
  <2>4. ToSet(b) \subseteq ToSet(s) \cup {j}
    BY <1>3, <2>3 DEF ToSet
  <2>5. ToSet(s) \subseteq ToSet(b)
    BY <1>1, <1>3, <2>1 DEF ToSet
  <2>6. j \in ToSet(b)
    BY <1>3, <2>2 DEF ToSet
  <2> QED
    BY <2>4, <2>5, <2>6
<1> QED
  BY <1>2, <1>3, <1>4, <1>6, <1>7 DEF a, b

\* A job is taken from some place, or from the last one.
LEMMA Took ==
  ASSUME NEW s \in Seq(Job), IsInjective(s)
  PROVE  /\ \A k \in 1..Len(s) :
              /\ RemoveAt(s, k) \in Seq(Job) /\ IsInjective(RemoveAt(s, k))
              /\ Len(RemoveAt(s, k)) = Len(s) - 1
              /\ s[k] \in ToSet(s) /\ ToSet(RemoveAt(s, k)) = ToSet(s) \ {s[k]}
         /\ s # <<>> =>
              /\ Front(s) \in Seq(Job) /\ IsInjective(Front(s)) /\ Len(Front(s)) = Len(s) - 1
              /\ Last(s) \in ToSet(s) /\ ToSet(Front(s)) = ToSet(s) \ {Last(s)}
<1>1. /\ Len(s) \in Nat /\ DOMAIN s = 1..Len(s)
      /\ \A i, k \in 1..Len(s) : s[i] = s[k] => i = k
  BY LenProperties DEF IsInjective
<1>2. ASSUME NEW k \in 1..Len(s)
      PROVE  /\ RemoveAt(s, k) \in Seq(Job) /\ IsInjective(RemoveAt(s, k))
             /\ Len(RemoveAt(s, k)) = Len(s) - 1
             /\ s[k] \in ToSet(s) /\ ToSet(RemoveAt(s, k)) = ToSet(s) \ {s[k]}
  <2> DEFINE r == RemoveAt(s, k)
  <2>1. /\ r \in Seq(Job) /\ Len(r) = Len(s) - 1
        /\ \A i \in 1..(Len(s) - 1) : r[i] = s[IF i < k THEN i ELSE i + 1]
    BY Removed
  <2>2. ToSet(r) = ToSet(s) \ {s[k]}
    BY <1>1, RemovedElements
  <2> HIDE DEF r
  <2>3. DOMAIN r = 1..(Len(s) - 1)
    BY <2>1, LenProperties
  <2>4. IsInjective(r)
    <3> SUFFICES ASSUME NEW i \in 1..(Len(s) - 1), NEW l \in 1..(Len(s) - 1), r[i] = r[l]
                 PROVE  i = l
      BY <2>3 DEF IsInjective
    <3> DEFINE x == IF i < k THEN i ELSE i + 1
               y == IF l < k THEN l ELSE l + 1
    <3>1. x \in 1..Len(s) /\ y \in 1..Len(s) /\ s[x] = s[y]
      BY <1>1, <2>1
    <3>2. x = y
      BY <1>1, <3>1
    <3> QED
      BY <3>2
  <2>5. s[k] \in ToSet(s)
    BY <1>1 DEF ToSet
  <2> QED
    BY <2>1, <2>2, <2>4, <2>5 DEF r
<1>3. ASSUME s # <<>>
      PROVE  Len(s) \in 1..Len(s) /\ Front(s) = RemoveAt(s, Len(s)) /\ Last(s) = s[Len(s)]
  <2>1. Len(s) \in 1..Len(s)
    BY <1>1, <1>3, EmptySeq
  <2>2. Front(s) \in Seq(Job)
    <3>1. \A i \in 1..(Len(s) - 1) : s[i] \in Job
      BY <1>1, ElementOfSeq
    <3> QED
      BY <1>1, <3>1, SubSeqProperties DEF Front
  <2>3. SubSeq(s, Len(s) + 1, Len(s)) = <<>>
    BY <1>1, SubSeqEmpty
  <2>4. RemoveAt(s, Len(s)) = Front(s) \o <<>>
    BY <2>3 DEF RemoveAt, Front
  <2> QED
    BY <2>1, <2>2, <2>4, ConcatEmptySeq DEF Last
<1> QED
  BY <1>2, <1>3

-------------------------------------------------------------------------------
(* What the manager's steps do to its jobs *)

\* A number is its own remainder by a greater one.
LEMMA SmallRemainder ==
  ASSUME NEW a \in Nat, NEW b \in Nat \ {0}, a < b
  PROVE  a % b = a
OBVIOUS

\* AddJob adds one job, with the next id; workers that have jobs keep them.
LEMMA AddJobEffect ==
  ASSUME IInv, NEW j \in Job, AddJob(j, Queue, m_priority), m_jobCounter + 1 < IdSpace
  PROVE  /\ m_running' = m_running /\ m_jobCounter' = m_jobCounter + 1 /\ NextId = m_jobCounter + 1
         /\ j \notin heap /\ heap' = heap \cup {j}
         /\ item'[j].id = NextId /\ item'[j].callback = Queue
         /\ \A i \in Job : i # j => item'[i] = item[i]
         /\ held' = held
         /\ \A w \in Worker : pc'[w] = pc[w] \/ (pc[w] = "none" /\ pc'[w] = "next")
<1>1. NextId = m_jobCounter + 1 /\ m_running' = m_running /\ m_jobCounter' = NextId
  <2>1. /\ m_jobCounter + 1 \in Nat /\ IdSpace \in Nat \ {0} /\ m_jobCounter + 1 < IdSpace
        /\ m_jobCounter + 1 # 0
    BY ManagerAssumption DEF IInv, TypeOK
  <2>2. (m_jobCounter + 1) % IdSpace = m_jobCounter + 1
    BY <2>1, SmallRemainder
  <2> QED
    BY <2>1, <2>2 DEF NextId, AddJob
<1>2. /\ j \notin heap /\ heap' = heap \cup {j}
      /\ item'[j].id = NextId /\ item'[j].callback = Queue
      /\ \A i \in Job : i # j => item'[i] = item[i]
      /\ held' = held
  BY DEF IInv, TypeOK, AddJob
<1>3. \A w \in Worker : pc'[w] = pc[w] \/ (pc[w] = "none" /\ pc'[w] = "next")
  BY DEF IInv, TypeOK, AddJob, StartWorkers
<1> QED
  BY <1>1, <1>2, <1>3

\* CancelJob concerns the jobs with the id.
LEMMA CancelEffect ==
  ASSUME IInv, NEW id, CancelId(id)
  PROVE  /\ UNCHANGED <<m_running, m_jobCounter, pc, held>>
         /\ heap' \subseteq heap
         /\ \A j \in heap' : /\ item'[j].id = item[j].id
                             /\ item[j].id # id => item'[j] = item[j]
         /\ \A j \in heap : item[j].id # id => j \in heap'
<1>1. heap \subseteq Job /\ m_processing \subseteq Job /\ item \in [Job -> WorkItem]
  BY DEF IInv, TypeOK
<1>2. CASE UNCHANGED managerVars
  BY <1>2 DEF managerVars, vars
<1>3. CASE CancelJob(id) /\ CancelQueued(id)
  <2>1. PICK p \in Priority : \E k \in 1..Len(m_jobQueue[p]) :
          /\ item[m_jobQueue[p][k]].id = id
          /\ item' = [item EXCEPT ![m_jobQueue[p][k]] = NoItem]
          /\ heap' = heap \ {m_jobQueue[p][k]}
    BY <1>3 DEF CancelQueued
  <2>2. PICK x : item[x].id = id /\ item' = [item EXCEPT ![x] = NoItem] /\ heap' = heap \ {x}
    BY <2>1
  <2>3. UNCHANGED <<m_running, m_jobCounter, pc, held>>
    BY <1>3 DEF CancelJob
  <2> QED
    BY <1>1, <2>2, <2>3
<1>4. CASE CancelJob(id) /\ CancelProcessing(id)
  <2>1. PICK j \in m_processing : item[j].id = id /\ item' = [item EXCEPT ![j].callback = NULL] /\ heap' = heap
    BY <1>4 DEF CancelProcessing
  <2>2. UNCHANGED <<m_running, m_jobCounter, pc, held>>
    BY <1>4 DEF CancelJob
  <2>3. item'[j].id = item[j].id /\ \A i \in Job : i # j => item'[i] = item[i]
    BY <1>1, <2>1 DEF WorkItem
  <2> QED
    BY <1>1, <2>1, <2>2, <2>3
<1> QED
  BY <1>2, <1>3, <1>4 DEF CancelId, CancelJob

\* A worker frees no job but its own, after the client's OnJobComplete or
\* when the job has no callback; it takes a job only when it has none.
LEMMA WorkerEffect ==
  ASSUME IInv, NEW w \in Worker, WorkerStep(w)
  PROVE  /\ UNCHANGED <<m_running, m_jobCounter>>
         /\ heap' \subseteq heap
         /\ \A j \in heap' : item'[j] = item[j]
         /\ \A j \in heap : j \notin heap' => w \in Busy /\ pc[w] = "erase" /\ j = held[w]
         /\ \A v \in Worker : v # w => pc'[v] = pc[v] /\ held'[v] = held[v]
         /\ w \in Busy' =>
              \/ pc'[w] = "work"
              \/ /\ w \in Busy /\ held'[w] = held[w]
                 /\ pc'[w] = "erase" => pc[w] = "callback" \/ item[held[w]].callback = NULL
<1>1. CASE GetNextJobStep(w)
  BY <1>1 DEF GetNextJobStep, TakeJob, PopJob, GoToSleep, WaitJobEvent, WakeUp, RemoveWorker, EndThread,
              IInv, TypeOK, Busy, BusyPC
<1>2. CASE OnJobProgress(w) \/ ProgressReturns(w) \/ OnJobComplete(w) \/ CallClient(w) \/ ClientReturns(w)
  BY <1>2 DEF OnJobProgress, ProgressReturns, OnJobComplete, CallClient, ClientReturns, IInv, TypeOK, Busy,
              BusyPC
<1>3. CASE FreeJob(w)
  BY <1>3 DEF FreeJob, IInv, TypeOK, Busy, BusyPC
<1> QED
  BY <1>1, <1>2, <1>3 DEF WorkerStep

\* The manager's CancelJobs; once it is stopped it stays so.
LEMMA ShutdownEffect ==
  ASSUME IInv, CancelJobs \/ DrainRound \/ Drained
  PROVE  /\ UNCHANGED <<m_jobCounter, pc, held>>
         /\ heap' \subseteq heap
         /\ \A j \in heap' : item'[j].id = item[j].id
         /\ m_running' => m_running /\ heap' = heap /\ item' = item
<1>1. CASE CancelJobs
  <2>1. heap' = heap \ AllQueued /\ heap' \subseteq m_processing /\ m_processing \subseteq Job
    BY <1>1 DEF CancelJobs, IInv, TypeOK, JobHeldOnce
  <2>2. \A j \in m_processing : item'[j].id = item[j].id
    BY <1>1, <2>1 DEF CancelJobs, IInv, TypeOK, WorkItem
  <2> QED
    BY <1>1, <2>1, <2>2 DEF CancelJobs
<1>2. CASE DrainRound \/ Drained
  BY <1>2 DEF DrainRound, Drained
<1> QED
  BY <1>1, <1>2

-------------------------------------------------------------------------------
(* Steps *)

\* Entries go, and what the manager has deleted is deleted.
LEMMA EntriesGo ==
  ASSUME QIInv, IInv', QTypes', Answering(inProcess, told)', waiting' = waiting, inProcess' \subseteq inProcess,
         Deleted, heap' \subseteq heap, m_jobCounter' = m_jobCounter, m_running' => m_running,
         \A j \in heap' : item'[j].id = item[j].id
  PROVE  QIInv'
<1>1. /\ heap \subseteq Job /\ waiting \in Seq(Job) /\ ToSet(waiting) \subseteq Job
      /\ \A e \in inProcess : e.job \in Job
  BY Elements DEF QIInv, IInv, TypeOK, Lists
<1>2. \A j \in Job : key'[j] = IF j \in heap \ heap' THEN NULL ELSE key[j]
  BY DEF Deleted
<1>3. Lists(waiting, inProcess)'
  <2>1. IsFiniteSet(inProcess') /\ Cardinality(inProcess') <= Cardinality(inProcess)
        /\ Cardinality(inProcess') \in Nat /\ Cardinality(inProcess) \in Nat
    BY FS_Subset, FS_CardinalityType DEF QIInv, Lists
  <2>2. Cardinality(inProcess') <= m_jobsAtOnce
    BY <2>1, QueueAssumption DEF QIInv, Lists
  <2> QED
    BY <2>1, <2>2 DEF QIInv, Lists
<1>4. Unique(waiting, inProcess, key)'
  BY <1>1, <1>2 DEF QIInv, Unique
<1>5. Owning(waiting, key)'
  BY <1>1, <1>2 DEF QIInv, Owning
<1>6. Counting(waiting)'
  BY DEF QIInv, Counting
<1> QED
  BY <1>3, <1>4, <1>5, <1>6 DEF QIInv

\* A worker of the manager goes on; it leaves the callback when the queue was told.
LEMMA QWorkerStepInv ==
  ASSUME QIInv, NEW w \in Worker, QWorkerStep(w)
  PROVE  QIInv'
<1>1. WorkerStep(w) /\ IInv /\ IInv'
  BY NextInv DEF QIInv, QWorkerStep, Next
<1>2. /\ UNCHANGED <<m_running, m_jobCounter>>
      /\ heap' \subseteq heap
      /\ \A j \in heap' : item'[j] = item[j]
      /\ \A j \in heap : j \notin heap' => w \in Busy /\ pc[w] = "erase" /\ j = held[w]
      /\ \A v \in Worker : v # w => pc'[v] = pc[v] /\ held'[v] = held[v]
      /\ w \in Busy' =>
           \/ pc'[w] = "work"
           \/ /\ w \in Busy /\ held'[w] = held[w]
              /\ pc'[w] = "erase" => pc[w] = "callback" \/ item[held[w]].callback = NULL
  BY <1>1, WorkerEffect
<1>3. /\ pc[w] = "callback" => w \in told
      /\ told' \subseteq told /\ w \notin told' /\ Deleted
      /\ UNCHANGED <<waiting, inProcess, cancelling>>
  BY DEF QIInv, QTypes, QWorkerStep
<1>4. QTypes'
  <2>1. key' \in [Job -> Key \cup {NULL}]
    BY <1>3 DEF QIInv, QTypes, Deleted
  <2> QED
    BY <1>2, <1>3, <2>1 DEF QIInv, QTypes
<1>5. Answering(inProcess, told)'
  <2> SUFFICES ASSUME m_running, NEW e \in inProcess
               PROVE  /\ e.job \in heap' /\ item'[e.job].id = e.id /\ item'[e.job].callback = Queue
                      /\ \A v \in Busy' : held'[v] = e.job => pc'[v] # "erase" /\ v \notin told'
    BY <1>2, <1>3 DEF Answering
  <2>1. /\ e.job \in heap /\ item[e.job].id = e.id /\ item[e.job].callback = Queue
        /\ \A v \in Busy : held[v] = e.job => pc[v] # "erase" /\ v \notin told
    BY DEF QIInv, Answering
  <2>2. e.job \in heap' /\ item'[e.job] = item[e.job]
    BY <1>2, <2>1
  <2>3. ASSUME NEW v \in Busy', held'[v] = e.job
        PROVE  pc'[v] # "erase" /\ v \notin told'
    <3>1. Queue # NULL
      BY QueueAssumption, ManagerAssumption
    <3>2. CASE v = w
      BY <1>2, <1>3, <2>1, <2>3, <3>1, <3>2
    <3>3. CASE v # w
      <4>1. v \in Worker /\ v \in Busy /\ held[v] = e.job
        BY <1>2, <2>3, <3>3 DEF Busy
      <4> QED
        BY <1>2, <1>3, <2>1, <3>3, <4>1
    <3> QED
      BY <3>2, <3>3
  <2> QED
    BY <2>1, <2>2, <2>3
<1> QED
  BY <1>1, <1>2, <1>3, <1>4, <1>5, EntriesGo

\* The manager is stopped: nothing is promised of the entries any more.
LEMMA QShutdownStepInv ==
  ASSUME QIInv, QShutdownStep
  PROVE  QIInv'
<1>1. IInv /\ IInv'
  BY NextInv DEF QIInv, QShutdownStep, Next, ShutdownStep
<1>2. /\ UNCHANGED <<m_jobCounter, pc, held>>
      /\ heap' \subseteq heap
      /\ \A j \in heap' : item'[j].id = item[j].id
      /\ m_running' => m_running /\ heap' = heap /\ item' = item
  BY <1>1, ShutdownEffect DEF QShutdownStep
<1>3. Deleted /\ UNCHANGED <<waiting, inProcess, told, cancelling>>
  BY DEF QShutdownStep
<1>4. QTypes'
  BY <1>2, <1>3 DEF QIInv, QTypes, Deleted
<1>5. Answering(inProcess, told)'
  BY <1>2, <1>3 DEF QIInv, Answering, Busy
<1> QED
  BY <1>1, <1>2, <1>3, <1>4, <1>5, EntriesGo

\* The job of an entry is cancelled, and no job of another.
LEMMA EntryCancelled ==
  ASSUME QIInv, NEW e \in inProcess, CancelId(e.id), inProcess' = inProcess \ {e}, Deleted,
         waiting' = waiting, told' = told, cancelling' \in BOOLEAN
  PROVE  QIInv'
<1>1. IInv /\ IInv'
  <2>1. CASE CancelJob(e.id)
    BY <2>1, CancelJobInv DEF QIInv
  <2>2. CASE UNCHANGED managerVars
    BY <2>2, NextInv DEF QIInv, managerVars
  <2> QED
    BY <2>1, <2>2 DEF QIInv, CancelId
<1>2. /\ UNCHANGED <<m_running, m_jobCounter, pc, held>>
      /\ heap' \subseteq heap
      /\ \A j \in heap' : /\ item'[j].id = item[j].id
                          /\ item[j].id # e.id => item'[j] = item[j]
      /\ \A j \in heap : item[j].id # e.id => j \in heap'
  BY <1>1, CancelEffect
<1>3. QTypes'
  BY <1>2 DEF QIInv, QTypes, Deleted
<1>4. Answering(inProcess, told)'
  <2> SUFFICES ASSUME m_running, NEW f \in inProcess, f # e
               PROVE  /\ f.job \in heap' /\ item'[f.job].id = f.id /\ item'[f.job].callback = Queue
                      /\ \A v \in Busy' : held'[v] = f.job => pc'[v] # "erase" /\ v \notin told'
    BY <1>2 DEF Answering
  <2>1. /\ f.job \in heap /\ item[f.job].id = f.id /\ item[f.job].callback = Queue
        /\ e.job \in heap /\ item[e.job].id = e.id
        /\ \A v \in Busy : held[v] = f.job => pc[v] # "erase" /\ v \notin told
    BY DEF QIInv, Answering
  <2>2. f.id # e.id
    BY <2>1 DEF QIInv, Lists, Counting
  <2> QED
    BY <1>2, <2>1, <2>2 DEF Busy
<1> QED
  BY <1>1, <1>2, <1>3, <1>4, EntriesGo

(***************************************************************************)
(* QueueNextJob, on the lists, keys and workers that its caller has made:  *)
(* the last job moves from one list to the other, and to the manager when  *)
(* it accepts it.                                                          *)
(***************************************************************************)
LEMMA NextJob ==
  ASSUME IInv, NEW jobs, NEW entries, NEW k, NEW t,
         Lists(jobs, entries), Unique(jobs, entries, k), Answering(entries, t), Owning(jobs, k), Counting(jobs),
         QueueNextJob(jobs, entries)
  PROVE  /\ IInv'
         /\ Lists(waiting', inProcess') /\ Unique(waiting', inProcess', k)
         /\ Answering(inProcess, t)' /\ Owning(waiting, k)' /\ Counting(waiting)'
         /\ \A w \in Worker : pc[w] = "callback" => pc'[w] = "callback"
<1>1. jobs \in Seq(Job) /\ ToSet(jobs) \subseteq Job /\ Len(jobs) \in Nat /\ heap \subseteq Job
      /\ m_jobCounter \in Nat /\ IdSpace \in Nat /\ IdSpace > 1
  BY Elements, LenProperties, ManagerAssumption DEF Lists, IInv, TypeOK
<1>2. CASE waiting' = jobs /\ inProcess' = entries /\ UNCHANGED managerVars
  <2>1. IInv'
    BY <1>2, NextInv DEF managerVars
  <2> QED
    BY <1>2, <2>1 DEF Answering, Owning, Counting, Busy, managerVars, vars
<1>3. ASSUME jobs # <<>>, Cardinality(entries) < m_jobsAtOnce, waiting' = Front(jobs),
             NEW id \in 0..(IdSpace - 1), inProcess' = entries \cup {[job |-> Last(jobs), id |-> id]}
      PROVE  /\ Lists(waiting', inProcess') /\ Unique(waiting', inProcess', k)
             /\ ToSet(waiting') = ToSet(jobs) \ {Last(jobs)} /\ Last(jobs) \in ToSet(jobs)
             /\ Len(waiting') = Len(jobs) - 1
  <2> DEFINE j == Last(jobs)
             n == [job |-> j, id |-> id]
  <2>1. /\ waiting' \in Seq(Job) /\ IsInjective(waiting') /\ Len(waiting') = Len(jobs) - 1
        /\ j \in ToSet(jobs) /\ ToSet(waiting') = ToSet(jobs) \ {j}
    BY <1>1, <1>3, Took DEF Lists
  <2> HIDE DEF j
  <2>2. /\ inProcess' \subseteq [job : Job, id : 0..(IdSpace - 1)]
        /\ \A e \in inProcess' : e = n \/ (e \in entries /\ e.job # j)
        /\ n.job = j
    BY <1>1, <1>3, <2>1 DEF Lists, j
  <2>3. IsFiniteSet(inProcess') /\ Cardinality(inProcess') <= m_jobsAtOnce
    <3>1. IsFiniteSet(entries) /\ Cardinality(entries) \in Nat
      BY FS_CardinalityType DEF Lists
    <3> HIDE DEF n
    <3>2. /\ IsFiniteSet(entries \cup {n})
          /\ Cardinality(entries \cup {n}) =
               IF n \in entries THEN Cardinality(entries) ELSE Cardinality(entries) + 1
      BY <3>1, FS_AddElement
    <3>3. Cardinality(entries \cup {n}) <= Cardinality(entries) + 1
      BY <3>1, <3>2
    <3>4. Cardinality(entries \cup {n}) \in Nat
      BY <3>2, FS_CardinalityType
    <3>5. inProcess' = entries \cup {n}
      BY <1>3 DEF n, j
    <3>6. Cardinality(entries \cup {n}) <= m_jobsAtOnce
      BY <1>3, <3>1, <3>3, <3>4, QueueAssumption
    <3> QED
      BY <3>2, <3>5, <3>6
  <2>4. Lists(waiting', inProcess')
    BY <2>1, <2>2, <2>3 DEF Lists
  <2>5. ToSet(waiting') \cup {e.job : e \in inProcess'} = ToSet(jobs) \cup {e.job : e \in entries}
    BY <1>3, <2>1, <2>2 DEF j
  <2>6. Unique(waiting', inProcess', k)
    BY <2>5 DEF Unique
  <2> QED
    BY <2>1, <2>4, <2>6 DEF j
<1>4. CASE /\ jobs # <<>> /\ Cardinality(entries) < m_jobsAtOnce /\ waiting' = Front(jobs)
           /\ ~m_running /\ inProcess' = entries \cup {[job |-> Last(jobs), id |-> 0]} /\ UNCHANGED managerVars
  <2>1. IInv'
    BY <1>4, NextInv DEF managerVars
  <2>2. /\ Lists(waiting', inProcess') /\ Unique(waiting', inProcess', k)
        /\ ToSet(waiting') = ToSet(jobs) \ {Last(jobs)} /\ Last(jobs) \in ToSet(jobs)
        /\ Len(waiting') = Len(jobs) - 1
    <3>1. 0 \in 0..(IdSpace - 1)
      BY <1>1
    <3> QED
      BY <1>3, <1>4, <3>1
  <2>3. Answering(inProcess, t)' /\ Owning(waiting, k)' /\ Counting(waiting)'
    BY <1>1, <1>4, <2>2 DEF Answering, Owning, Counting, managerVars, vars
  <2> QED
    BY <1>4, <2>1, <2>2, <2>3 DEF managerVars, vars
<1>5. CASE /\ jobs # <<>> /\ Cardinality(entries) < m_jobsAtOnce /\ waiting' = Front(jobs)
           /\ AddJob(Last(jobs), Queue, m_priority)
           /\ inProcess' = entries \cup {[job |-> Last(jobs), id |-> NextId]}
  <2> DEFINE j == Last(jobs)
             n == [job |-> j, id |-> NextId]
  <2>1. NextId \in 0..(IdSpace - 1) /\ Len(jobs) > 0
    BY <1>1, <1>5, NextIdType, EmptySeq
  <2>2. /\ Lists(waiting', inProcess') /\ Unique(waiting', inProcess', k)
        /\ ToSet(waiting') = ToSet(jobs) \ {j} /\ j \in ToSet(jobs)
        /\ Len(waiting') = Len(jobs) - 1
    BY <1>3, <1>5, <2>1
  <2>3. j \in Job
    BY <1>1, <2>2
  <2>4. IInv'
    BY <1>5, <2>3, NextInv, QueueAssumption DEF Next, ClientStep
  <2>5. m_jobCounter + 1 < IdSpace
    BY <1>1, <2>1 DEF Counting
  <2> HIDE DEF j
  <2>6. /\ m_running' = m_running /\ m_jobCounter' = m_jobCounter + 1 /\ NextId = m_jobCounter + 1
        /\ j \notin heap /\ heap' = heap \cup {j}
        /\ item'[j].id = NextId /\ item'[j].callback = Queue
        /\ \A i \in Job : i # j => item'[i] = item[i]
        /\ held' = held
        /\ \A w \in Worker : pc'[w] = pc[w] \/ (pc[w] = "none" /\ pc'[w] = "next")
    BY <1>5, <2>3, <2>5, AddJobEffect DEF j
  <2>7. Answering(inProcess, t)'
    <3> SUFFICES ASSUME m_running, NEW e \in inProcess'
                 PROVE  /\ e.job \in heap' /\ item'[e.job].id = e.id /\ item'[e.job].callback = Queue
                        /\ \A v \in Busy' : held'[v] = e.job => pc'[v] # "erase" /\ v \notin t
      BY <2>6 DEF Answering
    <3>1. \A v \in Busy' : v \in Busy /\ pc'[v] = pc[v]
      BY <2>6 DEF Busy, BusyPC
    <3>2. CASE e = [job |-> j, id |-> NextId]
      <4>1. \A v \in Busy : held[v] # j
        BY <2>6 DEF IInv, JobHeldOnce
      <4> QED
        BY <2>6, <3>1, <3>2, <4>1
    <3>3. CASE e \in entries
      <4>1. e.job \in heap /\ item[e.job].id = e.id /\ item[e.job].callback = Queue
            /\ \A v \in Busy : held[v] = e.job => pc[v] # "erase" /\ v \notin t
        BY <3>3 DEF Answering
      <4>2. e.job \in Job /\ e.job # j
        BY <1>1, <2>6, <4>1
      <4> QED
        BY <2>6, <3>1, <4>1, <4>2
    <3> QED
      BY <1>5, <3>2, <3>3 DEF j
  <2>8. Owning(waiting, k)'
    BY <1>1, <2>2, <2>6 DEF Owning
  <2>9. Counting(waiting)'
    <3>1. \A i \in heap : item'[i].id \in 1..m_jobCounter /\ item'[i] = item[i]
      BY <1>1, <2>6 DEF Counting
    <3> QED
      BY <1>1, <2>2, <2>6, <3>1 DEF Counting
  <2> QED
    BY <2>2, <2>4, <2>6, <2>7, <2>8, <2>9
<1> QED
  BY <1>2, <1>4, <1>5 DEF QueueNextJob

\* A new job is in no list and equals none that is.
LEMMA QAddJobInv ==
  ASSUME QIInv, NEW j \in Job, NEW k \in Key, QAddJob(j, k)
  PROVE  QIInv'
<1> DEFINE jobs == IF m_lifo THEN Append(waiting, j) ELSE <<j>> \o waiting
<1>1. /\ key[j] = NULL /\ m_jobCounter + Len(waiting) + 1 < IdSpace /\ ~HasJob(j, k)
      /\ key' = [key EXCEPT ![j] = k] /\ QueueNextJob(jobs, inProcess)
      /\ UNCHANGED <<told, cancelling>>
  BY DEF QAddJob
<1>2. /\ waiting \in Seq(Job) /\ ToSet(waiting) \subseteq Job /\ Len(waiting) \in Nat /\ heap \subseteq Job
      /\ m_jobCounter \in Nat /\ IdSpace \in Nat
      /\ j \notin ToSet(waiting) /\ j \notin heap /\ k # NULL
      /\ \A i \in Job : key'[i] = IF i = j THEN k ELSE key[i]
  BY <1>1, Elements, LenProperties, ManagerAssumption, QueueAssumption
     DEF QIInv, IInv, TypeOK, QTypes, Lists, Owning
<1>3. /\ jobs \in Seq(Job) /\ IsInjective(jobs) /\ Len(jobs) = Len(waiting) + 1
      /\ ToSet(jobs) = ToSet(waiting) \cup {j}
  BY <1>2, Put DEF QIInv, Lists
<1> HIDE DEF jobs
<1>4. /\ \A i \in ToSet(waiting) : key[i] # k
      /\ \A e \in inProcess : key[e.job] # k /\ e.job # j /\ e.job \in Job
  <2>1. \A i \in ToSet(waiting) : \E l \in 1..Len(waiting) : waiting[l] = i
    BY <1>2, Elements
  <2> QED
    BY <1>1, <2>1 DEF HasJob, QIInv, Lists
<1>5. Lists(jobs, inProcess)
  BY <1>3, <1>4 DEF QIInv, Lists
<1>6. Unique(jobs, inProcess, key')
  BY <1>2, <1>3, <1>4 DEF QIInv, Unique
<1>7. Answering(inProcess, told)
  BY DEF QIInv
<1>8. Owning(jobs, key')
  BY <1>1, <1>2, <1>3 DEF QIInv, Owning
<1>9. Counting(jobs)
  BY <1>1, <1>2, <1>3 DEF QIInv, Counting
<1>10. /\ IInv'
       /\ Lists(waiting', inProcess') /\ Unique(waiting', inProcess', key')
       /\ Answering(inProcess, told)' /\ Owning(waiting, key)' /\ Counting(waiting)'
       /\ \A w \in Worker : pc[w] = "callback" => pc'[w] = "callback"
  <2>1. IInv
    BY DEF QIInv
  <2>2. ASSUME NEW js, NEW es, NEW ks, NEW t, js = jobs, es = inProcess, ks = key', t = told
        PROVE  /\ IInv'
               /\ Lists(waiting', inProcess') /\ Unique(waiting', inProcess', ks)
               /\ Answering(inProcess, t)' /\ Owning(waiting, ks)' /\ Counting(waiting)'
               /\ \A w \in Worker : pc[w] = "callback" => pc'[w] = "callback"
    <3>1. /\ Lists(js, es) /\ Unique(js, es, ks) /\ Answering(es, t) /\ Owning(js, ks) /\ Counting(js)
          /\ QueueNextJob(js, es)
      BY <1>1, <1>5, <1>6, <1>7, <1>8, <1>9, <2>2
    <3> QED
      BY <2>1, <3>1, NextJob
  <2>3. told' = told
    BY <1>1
  <2> QED
    BY <2>2, <2>3 DEF Answering, Owning
<1>11. QTypes'
  BY <1>1, <1>10 DEF QIInv, QTypes
<1> QED
  BY <1>10, <1>11 DEF QIInv

(***************************************************************************)
(* The entry that equals the job that is complete is that job's: the jobs  *)
(* are unique, and until the manager is stopped none of an entry is freed. *)
(***************************************************************************)
LEMMA QOnJobCompleteInv ==
  ASSUME QIInv, NEW w \in Worker, QOnJobComplete(w)
  PROVE  QIInv'
<1>1. PICK found \in Find(key[held[w]]) : QueueNextJob(waiting, inProcess \ found)
  BY DEF QOnJobComplete
<1>2. pc[w] = "callback" /\ told' = told \cup {w} /\ UNCHANGED <<key, cancelling>>
  BY DEF QOnJobComplete
<1> DEFINE entries == inProcess \ found
           t == told \cup {w}
<1>3. w \in Busy /\ held[w] \in heap
  BY <1>2 DEF QIInv, IInv, JobHeldOnce, Busy, BusyPC
<1>4. Lists(waiting, entries)
  <2>1. IsFiniteSet(entries) /\ Cardinality(entries) <= Cardinality(inProcess)
        /\ Cardinality(entries) \in Nat /\ Cardinality(inProcess) \in Nat
    BY FS_Subset, FS_CardinalityType DEF QIInv, Lists
  <2>2. Cardinality(entries) <= m_jobsAtOnce
    BY <2>1, QueueAssumption DEF QIInv, Lists
  <2> QED
    BY <2>1, <2>2 DEF QIInv, Lists
<1>5. Unique(waiting, entries, key)
  BY DEF QIInv, Unique
<1>6. Answering(entries, t)
  <2> SUFFICES ASSUME m_running, NEW e \in entries
               PROVE  e.job # held[w]
    BY DEF QIInv, Answering
  <2> SUFFICES ASSUME e.job = held[w]
               PROVE  FALSE
    OBVIOUS
  <2>1. key[held[w]] # NULL
    BY <1>3 DEF QIInv, Owning
  <2>2. \A f \in inProcess : key[f.job] # NULL
    BY DEF QIInv, Answering, Owning
  <2>3. \A f \in inProcess : key[f.job] = key[held[w]] => f = e
    BY <2>2 DEF QIInv, Unique, Lists
  <2>4. e \in inProcess /\ e \notin found /\ key[e.job] = key[held[w]]
    OBVIOUS
  <2>5. \A x \in Find(key[held[w]]) : x = {e}
    BY <2>2, <2>3, <2>4 DEF Find
  <2> QED
    BY <2>4, <2>5
<1>7. IInv /\ Owning(waiting, key) /\ Counting(waiting)
  BY DEF QIInv
<1> HIDE DEF entries, t
<1>8. /\ IInv'
      /\ Lists(waiting', inProcess') /\ Unique(waiting', inProcess', key)
      /\ Answering(inProcess, t)' /\ Owning(waiting, key)' /\ Counting(waiting)'
      /\ \A v \in Worker : pc[v] = "callback" => pc'[v] = "callback"
  <2>1. ASSUME NEW js, NEW es, NEW ks, NEW ts, js = waiting, es = entries, ks = key, ts = t
        PROVE  /\ IInv'
               /\ Lists(waiting', inProcess') /\ Unique(waiting', inProcess', ks)
               /\ Answering(inProcess, ts)' /\ Owning(waiting, ks)' /\ Counting(waiting)'
               /\ \A v \in Worker : pc[v] = "callback" => pc'[v] = "callback"
    <3>1. /\ Lists(js, es) /\ Unique(js, es, ks) /\ Answering(es, ts) /\ Owning(js, ks) /\ Counting(js)
          /\ QueueNextJob(js, es)
      BY <1>1, <1>4, <1>5, <1>6, <1>7, <2>1 DEF entries
    <3> QED
      BY <1>7, <3>1, NextJob
  <2>2. t' = t /\ key' = key
    BY <1>2 DEF t
  <2> QED
    BY <2>1, <2>2 DEF Answering, Owning
<1>9. QTypes'
  BY <1>2, <1>8 DEF QIInv, QTypes
<1> QED
  BY <1>2, <1>8, <1>9 DEF QIInv, t, Answering

\* A job that waits is cancelled.
LEMMA WaitingCancelled ==
  ASSUME QIInv, NEW n \in 1..Len(waiting), waiting' = RemoveAt(waiting, n),
         key' = [key EXCEPT ![waiting[n]] = NULL],
         UNCHANGED <<managerVars, inProcess, told, cancelling>>
  PROVE  QIInv'
<1> DEFINE j == waiting[n]
<1>1. /\ waiting' \in Seq(Job) /\ IsInjective(waiting') /\ Len(waiting') = Len(waiting) - 1
      /\ j \in ToSet(waiting) /\ ToSet(waiting') = ToSet(waiting) \ {j}
      /\ Len(waiting) \in Nat /\ ToSet(waiting) \subseteq Job
  BY Took, Elements, LenProperties DEF QIInv, Lists
<1> HIDE DEF j
<1>2. /\ \A i \in Job : key'[i] = IF i = j THEN NULL ELSE key[i]
      /\ key' \in [Job -> Key \cup {NULL}]
  BY DEF QIInv, QTypes, j
<1>3. /\ UNCHANGED <<m_running, m_jobCounter, heap, item, pc, held>>
      /\ heap \subseteq Job /\ m_jobCounter \in Nat /\ IdSpace \in Nat
  BY ManagerAssumption DEF managerVars, vars, QIInv, IInv, TypeOK
<1>4. IInv'
  BY NextInv DEF QIInv, managerVars
<1>5. QTypes'
  BY <1>2, <1>3 DEF QIInv, QTypes
<1>6. Lists(waiting, inProcess)'
  BY <1>1 DEF QIInv, Lists
<1>7. Unique(waiting, inProcess, key)'
  BY <1>1, <1>2 DEF QIInv, Lists, Unique
<1>8. Answering(inProcess, told)'
  BY <1>3 DEF QIInv, Answering, Busy
<1>9. Owning(waiting, key)'
  BY <1>1, <1>2, <1>3 DEF QIInv, Owning
<1>10. Counting(waiting)'
  BY <1>1, <1>3 DEF QIInv, Counting
<1> QED
  BY <1>4, <1>5, <1>6, <1>7, <1>8, <1>9, <1>10 DEF QIInv

\* CancelJob: of an entry, or else of a job that waits.
LEMMA QCancelJobInv ==
  ASSUME QIInv, NEW k \in Key, QCancelJob(k)
  PROVE  QIInv'
<1>1. PICK found \in Find(k) :
        \/ \E e \in found :
             /\ CancelId(e.id)
             /\ inProcess' = inProcess \ found
             /\ Deleted
             /\ UNCHANGED waiting
        \/ /\ \E i \in 1..Len(waiting) :
                /\ waiting' = RemoveAt(waiting, i)
                /\ key' = [key EXCEPT ![waiting[i]] = NULL]
           /\ UNCHANGED <<managerVars, inProcess>>
  BY DEF QCancelJob
<1>2. told' = told /\ cancelling' = cancelling /\ cancelling' \in BOOLEAN
  BY DEF QCancelJob, QIInv, QTypes
<1>3. ASSUME NEW e \in found, CancelId(e.id), inProcess' = inProcess \ found, Deleted, UNCHANGED waiting
      PROVE  QIInv'
  <2>1. found = {e} /\ e \in inProcess
    BY DEF Find
  <2> QED
    BY <1>2, <1>3, <2>1, EntryCancelled
<1>4. ASSUME NEW i \in 1..Len(waiting), waiting' = RemoveAt(waiting, i),
             key' = [key EXCEPT ![waiting[i]] = NULL], UNCHANGED <<managerVars, inProcess>>
      PROVE  QIInv'
  BY <1>2, <1>4, WaitingCancelled
<1> QED
  BY <1>1, <1>3, <1>4

\* CancelJobs begins, and steps that leave the queue alone.
LEMMA QUnmovedInv ==
  ASSUME QIInv, UNCHANGED <<managerVars, waiting, inProcess, key, told>>, cancelling' \in BOOLEAN
  PROVE  QIInv'
<1>1. IInv'
  BY NextInv DEF QIInv, managerVars
<1>2. UNCHANGED <<m_running, m_jobCounter, heap, item, pc, held>>
  BY DEF managerVars, vars
<1> QED
  BY <1>1, <1>2 DEF QIInv, QTypes, Answering, Owning, Counting, Busy

\* The jobs that wait are deleted, when no entry is left.
LEMMA QCancelEndInv ==
  ASSUME QIInv, QCancelEnd
  PROVE  QIInv'
<1>1. /\ inProcess' = {} /\ waiting' = <<>> /\ told' = told /\ cancelling' = FALSE /\ UNCHANGED managerVars
      /\ inProcess = {}
      /\ \A j \in Job : key'[j] = IF j \in ToSet(waiting) THEN NULL ELSE key[j]
  BY DEF QCancelEnd
<1>2. ToSet(waiting') = {} /\ waiting' \in Seq(Job) /\ IsInjective(waiting') /\ Len(waiting') = 0
      /\ Len(waiting) \in Nat
  BY <1>1, LenProperties DEF ToSet, IsInjective, QIInv, Lists
<1>3. IInv'
  BY <1>1, NextInv DEF QIInv, managerVars
<1>4. /\ UNCHANGED <<m_running, m_jobCounter, heap, item, pc, held>>
      /\ heap \subseteq Job /\ m_jobCounter \in Nat /\ IdSpace \in Nat
  BY <1>1, ManagerAssumption DEF managerVars, vars, QIInv, IInv, TypeOK
<1>5. QTypes'
  BY <1>1, <1>4 DEF QIInv, QTypes, QCancelEnd
<1>6. Lists(waiting, inProcess)' /\ Unique(waiting, inProcess, key)' /\ Answering(inProcess, told)'
  BY <1>1, <1>2 DEF QIInv, Lists, Unique, Answering
<1>7. Owning(waiting, key)'
  BY <1>1, <1>2, <1>4 DEF QIInv, Owning
<1>8. Counting(waiting)'
  BY <1>2, <1>4 DEF QIInv, Counting
<1> QED
  BY <1>3, <1>5, <1>6, <1>7, <1>8 DEF QIInv

-------------------------------------------------------------------------------
(* The inductive invariant *)

\* At first the queue is empty and nothing is allocated.
LEMMA QInitInv == QInit => QIInv
<1> SUFFICES ASSUME QInit
             PROVE  QIInv
  OBVIOUS
<1>1. IInv
  BY InitInv DEF QInit
<1>2. ToSet(waiting) = {} /\ waiting \in Seq(Job) /\ IsInjective(waiting) /\ Len(waiting) = 0
  BY DEF QInit, ToSet, IsInjective
<1>3. Lists(waiting, inProcess)
  BY <1>2, FS_EmptySet, QueueAssumption DEF QInit, Lists
<1>4. heap = {} /\ m_jobCounter = 0
  BY DEF QInit, Init
<1>5. QTypes /\ Unique(waiting, inProcess, key) /\ Answering(inProcess, told) /\ Owning(waiting, key)
  BY <1>2, <1>4 DEF QInit, QTypes, Unique, Answering, Owning
<1>6. Counting(waiting)
  BY <1>2, <1>4, ManagerAssumption DEF Counting
<1> QED
  BY <1>1, <1>3, <1>5, <1>6 DEF QIInv

\* No step leaves the invariant.
LEMMA QNextInv ==
  ASSUME QIInv, [PlainNext \/ CancelNext \/ QShutdownStep]_allVars
  PROVE  QIInv'
<1>1. CASE PlainNext
  BY <1>1, QAddJobInv, QOnJobCompleteInv, QWorkerStepInv DEF PlainNext
<1>2. ASSUME NEW k \in Key, QCancelJob(k)
      PROVE  QIInv'
  BY <1>2, QCancelJobInv
<1>3. CASE QCancelJobs
  BY <1>3, QUnmovedInv DEF QCancelJobs
<1>4. CASE QCancelEntry
  <2>1. PICK e \in inProcess : CancelId(e.id) /\ inProcess' = inProcess \ {e}
    BY <1>4 DEF QCancelEntry
  <2>2. Deleted /\ UNCHANGED <<waiting, told, cancelling>> /\ cancelling' \in BOOLEAN
    BY <1>4 DEF QCancelEntry, QIInv, QTypes
  <2> QED
    BY <2>1, <2>2, EntryCancelled
<1>5. CASE QCancelEnd
  BY <1>5, QCancelEndInv
<1>6. CASE QShutdownStep
  BY <1>6, QShutdownStepInv
<1>7. CASE UNCHANGED allVars
  BY <1>7, QUnmovedInv DEF allVars, queueVars, managerVars, QIInv, QTypes
<1> QED
  BY <1>1, <1>2, <1>3, <1>4, <1>5, <1>6, <1>7 DEF CancelNext

\* The inductive invariant.
LEMMA QInvariant == QSpec => []QIInv
BY QInitInv, QNextInv, PTL DEF QSpec

-------------------------------------------------------------------------------
(* The theorems *)

\* m_processing has at most m_jobsAtOnce entries, whatever is completed or
\* cancelled twice, before and after the manager is stopped.
THEOREM EntriesBounded == QSpec => []QTypeOK
<1>1. QIInv => QTypeOK
  BY DEF QIInv, QTypes, Lists, QTypeOK
<1> QED
  BY <1>1, QInvariant, PTL

\* A list has as many jobs as places.
LEMMA ListCounted ==
  ASSUME NEW s \in Seq(Job), IsInjective(s)
  PROVE  IsFiniteSet(ToSet(s)) /\ Cardinality(ToSet(s)) = Len(s)
<1>1. Len(s) \in Nat /\ DOMAIN s = 1..Len(s) /\ s \in [1..Len(s) -> Job]
  BY LenProperties
<1>2. IsFiniteSet(1..Len(s)) /\ Cardinality(1..Len(s)) = Len(s)
  BY <1>1, FS_Interval
<1>3. s \in Surjection(1..Len(s), ToSet(s)) /\ s \in Injection(1..Len(s), ToSet(s))
  BY <1>1 DEF ToSet, IsInjective, Surjection, Injection
<1> QED
  BY <1>2, <1>3, FS_Surjection

\* The entries have as many jobs as there are entries.
LEMMA EntriesCounted ==
  ASSUME NEW entries, IsFiniteSet(entries), \A e, f \in entries : e.job = f.job => e = f
  PROVE  /\ IsFiniteSet({e.job : e \in entries})
         /\ Cardinality({e.job : e \in entries}) = Cardinality(entries)
<1> DEFINE g == [e \in entries |-> e.job]
           T == {e.job : e \in entries}
<1>1. g \in Surjection(entries, T) /\ g \in Injection(entries, T)
  BY DEF Surjection, Injection, IsInjective
<1> QED
  BY <1>1, FS_Surjection

\* No two jobs of the queue, waiting or handed to the manager, are equal.
THEOREM NoDuplicateJobs == QSpec => []JobsUnique
<1>1. ASSUME QIInv
      PROVE  JobsUnique
  <2> DEFINE W == ToSet(waiting)
             E == {e.job : e \in inProcess}
  <2>1. \A i, j \in Has \cap Allocated : key[i] = key[j] => i = j
    BY <1>1 DEF QIInv, Unique, Has, Allocated
  <2>2. /\ IsFiniteSet(W) /\ Cardinality(W) = Len(waiting)
        /\ IsFiniteSet(E) /\ Cardinality(E) = Cardinality(inProcess)
        /\ Len(waiting) \in Nat /\ Cardinality(inProcess) \in Nat
    BY <1>1, ListCounted, EntriesCounted, LenProperties, FS_CardinalityType DEF QIInv, Lists
  <2>3. W \cap E = {} /\ Has = W \cup E
    BY <1>1 DEF QIInv, Lists, Has
  <2> HIDE DEF W, E
  <2>4. Cardinality(W \cup E) = Cardinality(W) + Cardinality(E) - Cardinality(W \cap E)
    BY <2>2, FS_Union
  <2>5. Cardinality(W \cap E) = 0
    BY <2>3, FS_EmptySet
  <2>6. Len(waiting) + Cardinality(inProcess) = Cardinality(Has)
    BY <2>2, <2>3, <2>4, <2>5
  <2> QED
    BY <2>1, <2>6 DEF JobsUnique
<1> QED
  BY <1>1, QInvariant, PTL

\* Until the manager is stopped, every entry will see its OnJobComplete.
THEOREM EntriesAnswered == QSpec => []EntryAnswered
<1>1. QIInv => EntryAnswered
  BY DEF QIInv, Answering, EntryAnswered
<1> QED
  BY <1>1, QInvariant, PTL

\* A job is the queue's or the manager's to delete, never both's, and until
\* the manager is stopped never nobody's.
THEOREM JobsOwned == QSpec => []OneOwner
<1>1. ASSUME QIInv
      PROVE  OneOwner
  <2>1. heap \subseteq Job /\ ToSet(waiting) \subseteq Job
    BY <1>1, Elements DEF QIInv, IInv, TypeOK, Lists
  <2> QED
    BY <1>1, <2>1 DEF QIInv, Owning, OneOwner, Allocated
<1> QED
  BY <1>1, QInvariant, PTL

===============================================================================
