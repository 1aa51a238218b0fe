------------------------------- MODULE JobQueue -------------------------------
(***************************************************************************)
(* CJobQueue (utils/JobManager.cpp): a client of CJobManager that hands it *)
(* at most m_jobsAtOnce of its jobs at a time and the next one when it is  *)
(* told that one is complete.  Composed with JobManager: the jobs of this  *)
(* module are run by that module's workers, whose OnJobComplete calls the  *)
(* queue.  CTextureCache, the thumb loaders, CCDDARipper and others are    *)
(* CJobQueues.                                                             *)
(*                                                                         *)
(* The queue's methods hold its own m_section, and call the manager under  *)
(* it.  Each makes at most one call that takes the manager's lock, so it   *)
(* is one step here, except CancelJobs, which makes one per job.           *)
(***************************************************************************)
EXTENDS JobManager

CONSTANTS
  Queue,          \* the CJobQueue as an IJobCallback
  Key,            \* what operator== of the queue's jobs compares
  m_lifo,         \* last in, first out
  m_jobsAtOnce,   \* how many jobs the manager gets at once
  m_priority      \* the priority it gets them with

ASSUME QueueAssumption ==
  /\ Queue \in Callback
  /\ NULL \notin Key
  /\ m_lifo \in BOOLEAN
  /\ m_jobsAtOnce \in Nat \ {0}
  /\ m_priority \in Priority

VARIABLES
  waiting,      \* CJobQueue::m_jobQueue; QueueNextJob takes its last job
  inProcess,    \* CJobQueue::m_processing, the job and the id of each entry
  key,          \* of each job that is allocated; NULL: it is deleted
  told,         \* workers whose call of the queue's OnJobComplete has returned
  cancelling    \* a thread is in CancelJobs and holds the queue's m_section

managerVars == vars
queueVars == <<waiting, inProcess, key, told, cancelling>>
allVars == <<vars, queueVars>>

QInit ==
  /\ Init
  /\ waiting = <<>>
  /\ inProcess = {}
  /\ key = [j \in Job |-> NULL]
  /\ told = {}
  /\ cancelling = FALSE

-------------------------------------------------------------------------------
(* Helpers *)

Allocated == {j \in Job : key[j] # NULL}

\* Jobs the manager deletes in a step are gone.
Deleted == key' = [j \in Job |-> IF j \in heap \ heap' THEN NULL ELSE key[j]]

(***************************************************************************)
(* find in m_processing compares with operator== of each entry's job.  The *)
(* possible results, as the set of the entry found: an entry whose job was *)
(* deleted (the manager's CancelJobs does that) is read after it was       *)
(* freed, and either answer of the comparison is possible.                 *)
(***************************************************************************)
Find(k) ==
  LET equal == {e \in inProcess : key[e.job] = k}
      freed == {e \in inProcess : key[e.job] = NULL}
  IN  {{e} : e \in equal \cup freed} \cup (IF equal = {} THEN {{}} ELSE {})

\* Mutant: a job that is being processed may be added again.
HasJob_WaitingOnly(j, k) == \E i \in 1..Len(waiting) : key[waiting[i]] = k

\* AddJob's test for a job it has already; its duplicate is deleted at once.
\* A new job whose address an entry still has is found equal to itself.
HasJob(j, k) ==
  \/ \E i \in 1..Len(waiting) : key[waiting[i]] = k
  \/ \E e \in inProcess : key[e.job] = k \/ e.job = j

\* Mutant: m_jobsAtOnce is not looked at.
QueueNextJob_NoLimit(jobs, entries) ==
  \/ /\ jobs # <<>>
     /\ waiting' = Front(jobs)
     /\ AddJob(Last(jobs), Queue, m_priority)
     /\ inProcess' = entries \cup {[job |-> Last(jobs), id |-> NextId]}
  \/ /\ jobs = <<>>
     /\ waiting' = jobs
     /\ inProcess' = entries
     /\ UNCHANGED managerVars

(***************************************************************************)
(* QueueNextJob, on the two lists as the caller leaves them.  The manager  *)
(* refuses jobs when it is stopped and returns the id 0: the queue records *)
(* that as it records any id.                                              *)
(***************************************************************************)
QueueNextJob(jobs, entries) ==
  \/ /\ jobs # <<>>
     /\ Cardinality(entries) < m_jobsAtOnce
     /\ waiting' = Front(jobs)
     /\ \/ /\ AddJob(Last(jobs), Queue, m_priority)
           /\ inProcess' = entries \cup {[job |-> Last(jobs), id |-> NextId]}
        \/ /\ ~m_running
           /\ inProcess' = entries \cup {[job |-> Last(jobs), id |-> 0]}
           /\ UNCHANGED managerVars
  \/ /\ jobs = <<>> \/ Cardinality(entries) >= m_jobsAtOnce
     /\ waiting' = jobs
     /\ inProcess' = entries
     /\ UNCHANGED managerVars

\* CJobManager::CancelJob of an id, which may be unknown to the manager.
CancelId(id) ==
  \/ CancelJob(id)
  \/ id \notin LiveIds /\ UNCHANGED managerVars

-------------------------------------------------------------------------------
(* The queue *)

(***************************************************************************)
(* AddJob of a new job.  The bound: as many jobs as there are ids, so that *)
(* the manager's counter does not wrap.                                    *)
(***************************************************************************)
QAddJob(j, k) ==
  /\ ~cancelling
  /\ key[j] = NULL
  /\ m_jobCounter + Len(waiting) + 1 < IdSpace
  /\ ~HasJob(j, k)
  /\ key' = [key EXCEPT ![j] = k]
  /\ QueueNextJob(IF m_lifo THEN Append(waiting, j) ELSE <<j>> \o waiting, inProcess)
  /\ UNCHANGED <<told, cancelling>>

\* Mutant: the entry of the completed job is kept.
QOnJobComplete_NotErased(w) ==
  /\ ~cancelling
  /\ pc[w] = "callback" /\ copied[w] = Queue
  /\ w \notin told
  /\ QueueNextJob(waiting, inProcess)
  /\ told' = told \cup {w}
  /\ UNCHANGED <<key, cancelling>>

\* OnJobComplete, in a worker: erases the entry that equals the job.
QOnJobComplete(w) ==
  /\ ~cancelling
  /\ pc[w] = "callback" /\ copied[w] = Queue
  /\ w \notin told
  /\ \E found \in Find(key[held[w]]) : QueueNextJob(waiting, inProcess \ found)
  /\ told' = told \cup {w}
  /\ UNCHANGED <<key, cancelling>>

\* CancelJob of a job that equals k.
QCancelJob(k) ==
  /\ ~cancelling
  /\ \E found \in Find(k) :
       \/ \E e \in found :
            /\ CancelId(e.id)
            /\ inProcess' = inProcess \ found
            /\ Deleted
            /\ UNCHANGED waiting
       \/ /\ found = {}
          /\ \E i \in 1..Len(waiting) :
               /\ key[waiting[i]] = k
               /\ waiting' = RemoveAt(waiting, i)
               /\ key' = [key EXCEPT ![waiting[i]] = NULL]
          /\ UNCHANGED <<managerVars, inProcess>>
  /\ UNCHANGED <<told, cancelling>>

\* CancelJobs, also the destructor: one call of the manager per entry.
QCancelJobs ==
  /\ ~cancelling
  /\ cancelling' = TRUE
  /\ UNCHANGED <<managerVars, waiting, inProcess, key, told>>

QCancelEntry ==
  /\ cancelling
  /\ \E e \in inProcess : CancelId(e.id) /\ inProcess' = inProcess \ {e}
  /\ Deleted
  /\ UNCHANGED <<waiting, told, cancelling>>

\* Mutant: the jobs that wait are dropped and not deleted.
QCancelEnd_NotFreed ==
  /\ cancelling
  /\ inProcess = {}
  /\ waiting' = <<>>
  /\ cancelling' = FALSE
  /\ UNCHANGED <<managerVars, inProcess, key, told>>

\* The jobs that wait are deleted.
QCancelEnd ==
  /\ cancelling
  /\ inProcess = {}
  /\ waiting' = <<>>
  /\ key' = [j \in Job |-> IF j \in ToSet(waiting) THEN NULL ELSE key[j]]
  /\ cancelling' = FALSE
  /\ UNCHANGED <<managerVars, inProcess, told>>

-------------------------------------------------------------------------------
(* The manager and its workers *)

QWorkerStep(w) ==
  /\ WorkerStep(w)
  /\ pc[w] = "callback" => w \in told
  /\ told' = IF pc[w] = "callback" THEN told \ {w} ELSE told
  /\ Deleted
  /\ UNCHANGED <<waiting, inProcess, cancelling>>

\* The application stops the manager and never restarts it.
QShutdownStep ==
  /\ CancelJobs \/ DrainRound \/ Drained
  /\ Deleted
  /\ UNCHANGED <<waiting, inProcess, told, cancelling>>

-------------------------------------------------------------------------------

\* Jobs are added and run.
PlainNext ==
  \/ \E j \in Job, k \in Key : QAddJob(j, k)
  \/ \E w \in Worker : QOnJobComplete(w) \/ QWorkerStep(w)

\* They are cancelled too.
CancelNext ==
  \/ \E k \in Key : QCancelJob(k)
  \/ QCancelJobs \/ QCancelEntry \/ QCancelEnd

QCancelSpec == QInit /\ [][PlainNext \/ CancelNext]_allVars
QSpec == QInit /\ [][PlainNext \/ CancelNext \/ QShutdownStep]_allVars

\* As in JobManager; a worker gets the queue's m_section, CancelJobs runs on.
QFairness ==
  /\ \A w \in Worker :
       /\ WF_allVars(QWorkerStep(w) /\ Proceed(w))
       /\ SF_allVars(QWorkerStep(w) /\ OnJobComplete(w))
       /\ SF_allVars(QOnJobComplete(w))
  /\ WF_allVars(QCancelEntry) /\ WF_allVars(QCancelEnd)

QCancelFairSpec == QCancelSpec /\ QFairness

-------------------------------------------------------------------------------
(* Invariants *)

\* The type of the queue's variables; m_processing has at most m_jobsAtOnce
\* entries, whatever is completed or cancelled twice.
QTypeOK ==
  /\ waiting \in Seq(Job)
  /\ inProcess \subseteq [job : Job, id : 0..(IdSpace - 1)]
  /\ Cardinality(inProcess) <= m_jobsAtOnce
  /\ key \in [Job -> Key \cup {NULL}]
  /\ told \subseteq Worker
  /\ cancelling \in BOOLEAN

(***************************************************************************)
(* "Jobs are unique": no two jobs the queue has, waiting or handed to the  *)
(* manager, are equal (AddJob l.126-132 compares with both lists, and      *)
(* OnJobComplete l.97-100 erases one entry).                               *)
(***************************************************************************)
Has == ToSet(waiting) \cup {e.job : e \in inProcess}

JobsUnique ==
  /\ \A i, j \in Has \cap Allocated : key[i] = key[j] => i = j
  /\ Len(waiting) + Cardinality(inProcess) = Cardinality(Has)

(***************************************************************************)
(* An entry of m_processing will see its OnJobComplete: the manager has    *)
(* the job under the entry's id with the queue as its callback, and has    *)
(* not told the queue of it yet.  Otherwise the entry takes a place of     *)
(* m_jobsAtOnce for ever and the queue stops.  The manager's CancelJobs    *)
(* ends this: it deletes the jobs and does not tell the queue.             *)
(***************************************************************************)
EntryAnswered ==
  m_running =>
    \A e \in inProcess :
      /\ e.job \in heap
      /\ item[e.job].id = e.id
      /\ item[e.job].callback = Queue
      /\ \A w \in Busy : held[w] = e.job => pc[w] # "erase" /\ w \notin told

(***************************************************************************)
(* A job has one owner who deletes it: the queue while it waits, then the  *)
(* manager (AddJob l.123-139, CancelJob l.105-121 and CancelJobs l.153-160 *)
(* against the manager's own deletes).  Until the manager is stopped, no   *)
(* job is forgotten by both; after that an added job has no owner.         *)
(***************************************************************************)
OneOwner ==
  /\ heap \cap ToSet(waiting) = {}
  /\ heap \cup ToSet(waiting) \subseteq Allocated
  /\ m_running => Allocated = heap \cup ToSet(waiting)

(***************************************************************************)
(* A job that waits is handed to the manager (or cancelled) eventually:    *)
(* the queue goes on by itself until it is empty.                          *)
(***************************************************************************)
QueueServed == \A j \in Job : j \in ToSet(waiting) ~> j \notin ToSet(waiting)

===============================================================================
