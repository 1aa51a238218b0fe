------------------------------ MODULE JobManager ------------------------------
(***************************************************************************)
(* CJobManager (utils/JobManager.cpp): the process-wide pool of worker     *)
(* threads that runs CJob objects by priority.                             *)
(*                                                                         *)
(* Every method of the manager is a critical section of m_section, so an   *)
(* action below is the code between two points where that lock is free.    *)
(* The interleavings are those of the CJobWorker threads (one pc each),    *)
(* of clients that add, cancel and pause, and of one thread that shuts the *)
(* manager down with CancelJobs.                                           *)
(*                                                                         *)
(* A member of Job is a CJob object; it is re-used once it was deleted, as *)
(* the allocator may do.  `heap' is the set of jobs that were handed over  *)
(* and not deleted yet.                                                    *)
(***************************************************************************)
EXTENDS Integers, Sequences, FiniteSets, SequencesExt, CEvent

CONSTANTS
  Job,             \* CJob objects
  Worker,          \* CJobWorker threads
  Callback,        \* IJobCallback objects
  NULL,            \* the null pointer
  PRIORITY_HIGH,   \* the greatest priority; 3 in Job.h, 0 is LOW_PAUSABLE
  max_workers,     \* 5 in GetMaxWorkers
  IdSpace          \* 2^32: job ids are unsigned ints

ASSUME ManagerAssumption ==
  /\ PRIORITY_HIGH \in Nat
  /\ max_workers \in Nat /\ max_workers > PRIORITY_HIGH
  /\ IdSpace \in Nat /\ IdSpace > 1
  /\ NULL \notin Job \cup Callback
  /\ IsFiniteSet(Job) /\ IsFiniteSet(Worker)

PRIORITY_LOW_PAUSABLE == 0
Priority == PRIORITY_LOW_PAUSABLE..PRIORITY_HIGH
JobId == 1..(IdSpace - 1)

VARIABLES
  m_running,      \* accepting jobs
  m_pauseJobs,    \* PRIORITY_LOW_PAUSABLE jobs are held back
  m_jobCounter,   \* the id given last
  m_jobQueue,     \* for each priority, the jobs waiting, oldest first
  m_processing,   \* the jobs that a worker has taken
  item,           \* the CWorkItem of a job while a queue or m_processing has one
  m_workers,      \* the workers the manager counts on
  m_jobEvent,     \* auto-reset event the sleeping workers wait for
  heap,           \* the jobs that are allocated and owned by the manager
  pc,             \* where each worker thread is
  held,           \* the job a worker is running or completing
  copied,         \* the callback in the worker's local copy of the work item
  canceller       \* the thread in CancelJobs: "idle" or "draining"

vars == <<m_running, m_pauseJobs, m_jobCounter, m_jobQueue, m_processing, item,
          m_workers, m_jobEvent, heap, pc, held, copied, canceller>>

\* The fields of a CWorkItem beside m_job, and the value of a job without one.
WorkItem == [id : 0..(IdSpace - 1), callback : Callback \cup {NULL}, priority : Priority]
NoItem == [id |-> 0, callback |-> NULL, priority |-> PRIORITY_LOW_PAUSABLE]

(***************************************************************************)
(* Where a worker thread can be:                                           *)
(*   none      no such thread                                              *)
(*   next      at the head of GetNextJob's loop                            *)
(*   sleep     between lock.Leave and m_jobEvent.WaitMSec                  *)
(*   wait      blocked in WaitMSec                                         *)
(*   last      after a timeout: looks for a job once more                  *)
(*   work      in DoWork                                                   *)
(*   progress  in the client's OnJobProgress                               *)
(*   notify    in OnJobComplete, callback copied and m_section left        *)
(*   callback  in the client's OnJobComplete                               *)
(*   erase     about to erase the item and delete the job                  *)
(*   exit      removed from m_workers, the thread has not ended yet        *)
(***************************************************************************)
BusyPC == {"work", "progress", "notify", "callback", "erase"}
IdlePC == {"next", "sleep", "wait", "last"}
PC == {"none", "exit"} \cup BusyPC \cup IdlePC

Init ==
  /\ m_running = TRUE
  /\ m_pauseJobs = FALSE
  /\ m_jobCounter = 0
  /\ m_jobQueue = [p \in Priority |-> <<>>]
  /\ m_processing = {}
  /\ item = [j \in Job |-> NoItem]
  /\ m_workers = {}
  /\ m_jobEvent = NewEvent(FALSE, FALSE)
  /\ heap = {}
  /\ pc = [w \in Worker |-> "none"]
  /\ held = [w \in Worker |-> NULL]
  /\ copied = [w \in Worker |-> NULL]
  /\ canceller = "idle"

-------------------------------------------------------------------------------
(* Helpers *)

\* PRIORITY_HIGH may use all the workers, each priority below it one less.
GetMaxWorkers(p) == max_workers - (PRIORITY_HIGH - p)

Queued(p) == ToSet(m_jobQueue[p])
AllQueued == UNION {Queued(p) : p \in Priority}

\* Mutant: the counter wraps to 0, which is the answer for a refused job.
NextId_Zero == (m_jobCounter + 1) % IdSpace

\* The next value of the unsigned counter, which skips 0.
NextId == LET n == (m_jobCounter + 1) % IdSpace IN IF n = 0 THEN 1 ELSE n

LiveIds == {item[j].id : j \in AllQueued \cup m_processing}

(***************************************************************************)
(* StartWorkers: nothing when the priority may not use another worker; an  *)
(* event when a worker is not processing; else a new thread.               *)
(***************************************************************************)
StartWorkers(p) ==
  \/ /\ Cardinality(m_processing) >= GetMaxWorkers(p)
     /\ UNCHANGED <<m_workers, m_jobEvent, pc>>
  \/ /\ Cardinality(m_processing) < GetMaxWorkers(p)
     /\ Cardinality(m_processing) < Cardinality(m_workers)
     /\ m_jobEvent' = SetEvent(m_jobEvent)
     /\ UNCHANGED <<m_workers, pc>>
  \/ /\ Cardinality(m_processing) < GetMaxWorkers(p)
     /\ Cardinality(m_processing) >= Cardinality(m_workers)
     /\ \E w \in Worker :
          /\ pc[w] = "none"
          /\ m_workers' = m_workers \cup {w}
          /\ pc' = [pc EXCEPT ![w] = "next"]
     /\ UNCHANGED m_jobEvent

\* Mutant: PopJob leaves no workers for higher priorities.
Poppable_NoReserve(p) ==
  /\ ~(p = PRIORITY_LOW_PAUSABLE /\ m_pauseJobs)
  /\ m_jobQueue[p] # <<>>
  /\ Cardinality(m_processing) < max_workers

\* PopJob may take the head of priority p.
Poppable(p) ==
  /\ ~(p = PRIORITY_LOW_PAUSABLE /\ m_pauseJobs)
  /\ m_jobQueue[p] # <<>>
  /\ Cardinality(m_processing) < GetMaxWorkers(p)

NothingToPop == \A p \in Priority : ~Poppable(p)

\* PopJob: the head of the highest priority that may run now.
PopJob(w) ==
  \E p \in Priority :
    /\ Poppable(p)
    /\ \A q \in Priority : q > p => ~Poppable(q)
    /\ m_jobQueue' = [m_jobQueue EXCEPT ![p] = Tail(@)]
    /\ m_processing' = m_processing \cup {Head(m_jobQueue[p])}
    /\ held' = [held EXCEPT ![w] = Head(m_jobQueue[p])]
    /\ pc' = [pc EXCEPT ![w] = "work"]

-------------------------------------------------------------------------------
(* Clients *)

(***************************************************************************)
(* AddJob.  Job ids repeat after 2^32 - 1 additions; the bound of the      *)
(* model is that a job does not live that long: an id that a live job has  *)
(* is not given again (IdSpace is small for TLC, so the wrap is reached).  *)
(* A refused AddJob (~m_running) returns 0 and changes nothing.            *)
(***************************************************************************)
AddJob(j, c, p) ==
  /\ m_running
  /\ j \notin heap
  /\ NextId \notin LiveIds
  /\ m_jobCounter' = NextId
  /\ item' = [item EXCEPT ![j] = [id |-> NextId, callback |-> c, priority |-> p]]
  /\ m_jobQueue' = [m_jobQueue EXCEPT ![p] = Append(@, j)]
  /\ heap' = heap \cup {j}
  /\ StartWorkers(p)
  /\ UNCHANGED <<m_running, m_pauseJobs, m_processing, held, copied, canceller>>

\* Mutant: the job is deleted and stays in its queue.
CancelQueued_NotErased(id) ==
  \E p \in Priority : \E k \in 1..Len(m_jobQueue[p]) :
    /\ item[m_jobQueue[p][k]].id = id
    /\ item' = [item EXCEPT ![m_jobQueue[p][k]] = NoItem]
    /\ heap' = heap \ {m_jobQueue[p][k]}
    /\ UNCHANGED m_jobQueue

\* CancelJob of an id that waits: the job is deleted.
CancelQueued(id) ==
  \E p \in Priority : \E k \in 1..Len(m_jobQueue[p]) :
    /\ item[m_jobQueue[p][k]].id = id
    /\ m_jobQueue' = [m_jobQueue EXCEPT ![p] = RemoveAt(@, k)]
    /\ item' = [item EXCEPT ![m_jobQueue[p][k]] = NoItem]
    /\ heap' = heap \ {m_jobQueue[p][k]}

\* CancelJob of an id that a worker has taken: only the callback is removed.
CancelProcessing(id) ==
  \E j \in m_processing :
    /\ item[j].id = id
    /\ \A p \in Priority : \A i \in Queued(p) : item[i].id # id
    /\ item' = [item EXCEPT ![j].callback = NULL]
    /\ UNCHANGED <<m_jobQueue, heap>>

CancelJob(id) ==
  /\ CancelQueued(id) \/ CancelProcessing(id)
  /\ UNCHANGED <<m_running, m_pauseJobs, m_jobCounter, m_processing, m_workers,
                 m_jobEvent, pc, held, copied, canceller>>

PauseJobs ==
  /\ ~m_pauseJobs
  /\ m_pauseJobs' = TRUE
  /\ UNCHANGED <<m_running, m_jobCounter, m_jobQueue, m_processing, item, m_workers,
                 m_jobEvent, heap, pc, held, copied, canceller>>

UnPauseJobs ==
  /\ m_pauseJobs
  /\ m_pauseJobs' = FALSE
  /\ UNCHANGED <<m_running, m_jobCounter, m_jobQueue, m_processing, item, m_workers,
                 m_jobEvent, heap, pc, held, copied, canceller>>

-------------------------------------------------------------------------------
(* Shutdown *)

\* Mutant: the callbacks of the jobs in process stay.
CancelJobs_KeepCallbacks ==
  /\ canceller = "idle"
  /\ m_running' = FALSE
  /\ heap' = heap \ AllQueued
  /\ m_jobQueue' = [p \in Priority |-> <<>>]
  /\ item' = [j \in Job |-> IF j \in m_processing THEN item[j] ELSE NoItem]
  /\ canceller' = "draining"
  /\ UNCHANGED <<m_pauseJobs, m_jobCounter, m_processing, m_workers, m_jobEvent, pc,
                 held, copied>>

\* CancelJobs up to its first lock.Leave.
CancelJobs ==
  /\ canceller = "idle"
  /\ m_running' = FALSE
  /\ heap' = heap \ AllQueued
  /\ m_jobQueue' = [p \in Priority |-> <<>>]
  /\ item' = [j \in Job |->
                IF j \in m_processing THEN [item[j] EXCEPT !.callback = NULL] ELSE NoItem]
  /\ canceller' = "draining"
  /\ UNCHANGED <<m_pauseJobs, m_jobCounter, m_processing, m_workers, m_jobEvent, pc,
                 held, copied>>

\* One round of CancelJobs' loop: wake whoever sleeps.
DrainRound ==
  /\ canceller = "draining"
  /\ m_workers # {}
  /\ m_jobEvent' = SetEvent(m_jobEvent)
  /\ UNCHANGED <<m_running, m_pauseJobs, m_jobCounter, m_jobQueue, m_processing, item,
                 m_workers, heap, pc, held, copied, canceller>>

\* Mutant: CancelJobs sets the event once and does not wait for the workers.
Drained_NoWait ==
  /\ canceller = "draining"
  /\ canceller' = "idle"
  /\ UNCHANGED <<m_running, m_pauseJobs, m_jobCounter, m_jobQueue, m_processing, item,
                 m_workers, m_jobEvent, heap, pc, held, copied>>

\* The loop's test fails: CancelJobs returns.
Drained ==
  /\ canceller = "draining"
  /\ m_workers = {}
  /\ canceller' = "idle"
  /\ UNCHANGED <<m_running, m_pauseJobs, m_jobCounter, m_jobQueue, m_processing, item,
                 m_workers, m_jobEvent, heap, pc, held, copied>>

\* Restart is called after CancelJobs has returned.
Restart ==
  /\ canceller = "idle"
  /\ ~m_running
  /\ m_running' = TRUE
  /\ UNCHANGED <<m_pauseJobs, m_jobCounter, m_jobQueue, m_processing, item, m_workers,
                 m_jobEvent, heap, pc, held, copied, canceller>>

-------------------------------------------------------------------------------
(* A worker in GetNextJob *)

TakeJob(w) ==
  /\ pc[w] \in {"next", "last"}
  /\ PopJob(w)
  /\ UNCHANGED <<m_running, m_pauseJobs, m_jobCounter, item, m_workers, m_jobEvent,
                 heap, copied, canceller>>

\* Mutant: GetNextJob's loop does not test m_running.
GoToSleep_Always(w) ==
  /\ pc[w] = "next"
  /\ NothingToPop
  /\ pc' = [pc EXCEPT ![w] = "sleep"]
  /\ UNCHANGED <<m_running, m_pauseJobs, m_jobCounter, m_jobQueue, m_processing, item,
                 m_workers, m_jobEvent, heap, held, copied, canceller>>

\* No job: GetNextJob leaves the lock before it waits.
GoToSleep(w) ==
  /\ pc[w] = "next"
  /\ m_running
  /\ NothingToPop
  /\ pc' = [pc EXCEPT ![w] = "sleep"]
  /\ UNCHANGED <<m_running, m_pauseJobs, m_jobCounter, m_jobQueue, m_processing, item,
                 m_workers, m_jobEvent, heap, held, copied, canceller>>

WaitJobEvent(w) ==
  /\ pc[w] = "sleep"
  /\ \/ /\ ReturnsAtOnce(m_jobEvent)
        /\ m_jobEvent' = PassThrough(m_jobEvent)
        /\ pc' = [pc EXCEPT ![w] = "next"]
     \/ /\ ~ReturnsAtOnce(m_jobEvent)
        /\ m_jobEvent' = BeginWait(m_jobEvent, w)
        /\ pc' = [pc EXCEPT ![w] = "wait"]
  /\ UNCHANGED <<m_running, m_pauseJobs, m_jobCounter, m_jobQueue, m_processing, item,
                 m_workers, heap, held, copied, canceller>>

\* WaitMSec returns: with TRUE back to the loop, with FALSE to the last look.
WakeUp(w) ==
  /\ pc[w] = "wait"
  /\ m_jobEvent' = EndWait(m_jobEvent, w)
  /\ pc' = [pc EXCEPT ![w] = IF m_jobEvent.signaled THEN "next" ELSE "last"]
  /\ UNCHANGED <<m_running, m_pauseJobs, m_jobCounter, m_jobQueue, m_processing, item,
                 m_workers, heap, held, copied, canceller>>

\* Mutant: no last look after the time limit.
RemoveWorker_NoLastLook(w) ==
  /\ \/ pc[w] = "last"
     \/ pc[w] = "next" /\ ~m_running
  /\ m_workers' = m_workers \ {w}
  /\ pc' = [pc EXCEPT ![w] = "exit"]
  /\ UNCHANGED <<m_running, m_pauseJobs, m_jobCounter, m_jobQueue, m_processing, item,
                 m_jobEvent, heap, held, copied, canceller>>

\* No job after the time limit, or the manager stops: RemoveWorker.
RemoveWorker(w) ==
  /\ \/ pc[w] = "last"
     \/ pc[w] = "next" /\ ~m_running
  /\ NothingToPop
  /\ m_workers' = m_workers \ {w}
  /\ pc' = [pc EXCEPT ![w] = "exit"]
  /\ UNCHANGED <<m_running, m_pauseJobs, m_jobCounter, m_jobQueue, m_processing, item,
                 m_jobEvent, heap, held, copied, canceller>>

\* The thread deletes its CJobWorker, whose destructor removes it once more.
EndThread(w) ==
  /\ pc[w] = "exit"
  /\ m_workers' = m_workers \ {w}
  /\ pc' = [pc EXCEPT ![w] = "none"]
  /\ UNCHANGED <<m_running, m_pauseJobs, m_jobCounter, m_jobQueue, m_processing, item,
                 m_jobEvent, heap, held, copied, canceller>>

-------------------------------------------------------------------------------
(* A worker with a job *)

\* CJob::ShouldCancel in DoWork: the callback is read under the lock and
\* called after it is left.  A cancelled job has none and returns TRUE.
OnJobProgress(w) ==
  /\ pc[w] = "work"
  /\ item[held[w]].callback # NULL
  /\ copied' = [copied EXCEPT ![w] = item[held[w]].callback]
  /\ pc' = [pc EXCEPT ![w] = "progress"]
  /\ UNCHANGED <<m_running, m_pauseJobs, m_jobCounter, m_jobQueue, m_processing, item,
                 m_workers, m_jobEvent, heap, held, canceller>>

ProgressReturns(w) ==
  /\ pc[w] = "progress"
  /\ copied' = [copied EXCEPT ![w] = NULL]
  /\ pc' = [pc EXCEPT ![w] = "work"]
  /\ UNCHANGED <<m_running, m_pauseJobs, m_jobCounter, m_jobQueue, m_processing, item,
                 m_workers, m_jobEvent, heap, held, canceller>>

\* DoWork has returned (or thrown): OnJobComplete copies the item and leaves
\* the lock.
OnJobComplete(w) ==
  /\ pc[w] = "work"
  /\ held[w] \in m_processing
  /\ copied' = [copied EXCEPT ![w] = item[held[w]].callback]
  /\ pc' = [pc EXCEPT ![w] = IF item[held[w]].callback = NULL THEN "erase" ELSE "notify"]
  /\ UNCHANGED <<m_running, m_pauseJobs, m_jobCounter, m_jobQueue, m_processing, item,
                 m_workers, m_jobEvent, heap, held, canceller>>

\* The call of the client's OnJobComplete begins.
CallClient(w) ==
  /\ pc[w] = "notify"
  /\ pc' = [pc EXCEPT ![w] = "callback"]
  /\ UNCHANGED <<m_running, m_pauseJobs, m_jobCounter, m_jobQueue, m_processing, item,
                 m_workers, m_jobEvent, heap, held, copied, canceller>>

\* The call returns (or throws).
ClientReturns(w) ==
  /\ pc[w] = "callback"
  /\ copied' = [copied EXCEPT ![w] = NULL]
  /\ pc' = [pc EXCEPT ![w] = "erase"]
  /\ UNCHANGED <<m_running, m_pauseJobs, m_jobCounter, m_jobQueue, m_processing, item,
                 m_workers, m_jobEvent, heap, held, canceller>>

\* Mutant: the job is deleted and its item stays in m_processing.
FreeJob_NotErased(w) ==
  /\ pc[w] = "erase"
  /\ heap' = heap \ {held[w]}
  /\ held' = [held EXCEPT ![w] = NULL]
  /\ pc' = [pc EXCEPT ![w] = "next"]
  /\ UNCHANGED <<m_running, m_pauseJobs, m_jobCounter, m_jobQueue, m_processing, item,
                 m_workers, m_jobEvent, copied, canceller>>

\* The item is erased and the job deleted; nobody else can reach it between.
FreeJob(w) ==
  /\ pc[w] = "erase"
  /\ m_processing' = m_processing \ {held[w]}
  /\ item' = [item EXCEPT ![held[w]] = NoItem]
  /\ heap' = heap \ {held[w]}
  /\ held' = [held EXCEPT ![w] = NULL]
  /\ pc' = [pc EXCEPT ![w] = "next"]
  /\ UNCHANGED <<m_running, m_pauseJobs, m_jobCounter, m_jobQueue, m_workers,
                 m_jobEvent, copied, canceller>>

-------------------------------------------------------------------------------

ClientStep ==
  \/ \E j \in Job, c \in Callback \cup {NULL}, p \in Priority : AddJob(j, c, p)
  \/ \E id \in JobId : CancelJob(id)
  \/ PauseJobs
  \/ UnPauseJobs

ShutdownStep == CancelJobs \/ DrainRound \/ Drained \/ Restart

\* What a worker does between two calls of client code.
GetNextJobStep(w) ==
  \/ TakeJob(w) \/ GoToSleep(w) \/ WaitJobEvent(w) \/ WakeUp(w)
  \/ RemoveWorker(w) \/ EndThread(w)

WorkerStep(w) ==
  \/ GetNextJobStep(w)
  \/ OnJobProgress(w) \/ ProgressReturns(w) \/ OnJobComplete(w)
  \/ CallClient(w) \/ ClientReturns(w) \/ FreeJob(w)

Next ==
  \/ ClientStep
  \/ ShutdownStep
  \/ \E w \in Worker : WorkerStep(w)

Spec == Init /\ [][Next]_vars

(***************************************************************************)
(* Fairness.  Every worker thread is scheduled, gets the lock it asks for, *)
(* and its timed wait returns after 30 seconds.  A client's callback       *)
(* returns.  DoWork calls ShouldCancel a finite number of times and then   *)
(* returns (strong fairness: the calls in between disable the return).     *)
(* The thread in CancelJobs keeps running.  Clients promise nothing.       *)
(***************************************************************************)
Proceed(w) ==
  \/ GetNextJobStep(w) \/ ProgressReturns(w)
  \/ CallClient(w) \/ ClientReturns(w) \/ FreeJob(w)

FairSpec ==
  /\ Spec
  /\ \A w \in Worker : WF_vars(Proceed(w)) /\ SF_vars(OnJobComplete(w))
  /\ WF_vars(DrainRound) /\ WF_vars(Drained)

-------------------------------------------------------------------------------
(* Invariants *)

Busy == {w \in Worker : pc[w] \in BusyPC}

\* The type of every variable.
TypeOK ==
  /\ m_running \in BOOLEAN
  /\ m_pauseJobs \in BOOLEAN
  /\ m_jobCounter \in 0..(IdSpace - 1)
  /\ m_jobQueue \in [Priority -> Seq(Job)]
  /\ m_processing \subseteq Job
  /\ item \in [Job -> WorkItem]
  /\ m_workers \subseteq Worker
  /\ m_jobEvent \in EventType(Worker)
  /\ heap \subseteq Job
  /\ pc \in [Worker -> PC]
  /\ held \in [Worker -> Job \cup {NULL}]
  /\ copied \in [Worker -> Callback \cup {NULL}]
  /\ canceller \in {"idle", "draining"}

(***************************************************************************)
(* A job the manager has, queued or taken by a worker, has an id its       *)
(* client can cancel it by.  0 would tell the client that the job was      *)
(* refused (AddJob l.223), and no CancelJob would reach it: the counter    *)
(* has to skip it when it wraps, with jobs of all ages around (l.226-229). *)
(***************************************************************************)
HeldIdsValid == \A j \in AllQueued \cup m_processing : item[j].id \in JobId

(***************************************************************************)
(* A job has one owner: it waits at one place of one queue, or one worker  *)
(* has taken it, and the jobs with an owner are exactly the ones not yet   *)
(* deleted.  So no job runs twice, is deleted twice, is used after it was  *)
(* deleted or is lost (PopJob l.280-302, CancelJob l.240-259, CancelJobs   *)
(* l.191-214 and OnJobComplete l.391-417 each move it under the lock).     *)
(***************************************************************************)
JobHeldOnce ==
  /\ \A p, q \in Priority : \A i \in 1..Len(m_jobQueue[p]), k \in 1..Len(m_jobQueue[q]) :
       m_jobQueue[p][i] = m_jobQueue[q][k] => p = q /\ i = k
  /\ AllQueued \cap m_processing = {}
  /\ heap = AllQueued \cup m_processing
  /\ m_processing = {held[w] : w \in Busy}
  /\ \A v, w \in Busy : held[v] = held[w] => v = w

(***************************************************************************)
(* The manager's list is the workers that live and have not decided to     *)
(* end, and the event's waiters are those blocked in WaitMSec.  The list   *)
(* never exceeds max_workers, and never is shorter than the jobs in        *)
(* process: StartWorkers' test for a sleeping thread relies on that.       *)
(***************************************************************************)
WorkerBound ==
  /\ m_workers = {w \in Worker : pc[w] \in BusyPC \cup IdlePC}
  /\ m_jobEvent.waiters = {w \in Worker : pc[w] = "wait"}
  /\ Cardinality(m_processing) <= Cardinality(m_workers)
  /\ Cardinality(m_workers) <= max_workers

(***************************************************************************)
(* "Lower priority jobs are executed only if there are sufficient spare    *)
(* worker threads free to allow for higher priority jobs": jobs of         *)
(* priority p or lower never occupy more than GetMaxWorkers(p) workers, so *)
(* max_workers - GetMaxWorkers(p) workers stay free for jobs above p.      *)
(***************************************************************************)
PriorityReserve ==
  \A p \in Priority :
    Cardinality({j \in m_processing : item[j].priority <= p}) <= GetMaxWorkers(p)

(***************************************************************************)
(* No lost wakeup: while a job that cannot be paused waits, some worker    *)
(* the manager counts on is going to call PopJob again: it is not asleep,  *)
(* or the event it sleeps on is set.  Nothing else would start the job     *)
(* (StartWorkers l.261-278 sets an event instead of starting a thread;     *)
(* GetNextJob l.347-371 sleeps, times out and leaves).                     *)
(***************************************************************************)
WillLook(w) ==
  /\ w \in m_workers
  /\ pc[w] \in {"sleep", "wait"} => m_jobEvent.signaled

NoStrandedJob ==
  \A p \in Priority \ {PRIORITY_LOW_PAUSABLE} :
    m_jobQueue[p] # <<>> => \E w \in Worker : WillLook(w)

(***************************************************************************)
(* "Should be called prior to destroying any objects that may be being     *)
(* used as callbacks": once CancelJobs has returned nothing is queued, in  *)
(* process or allocated, and no worker holds a copy of a callback, until   *)
(* Restart (CancelJobs l.191-214 waits for the workers one by one).        *)
(***************************************************************************)
DrainedQuiet ==
  ~m_running /\ canceller = "idle" =>
    /\ heap = {}
    /\ m_workers = {}
    /\ \A w \in Worker : copied[w] = NULL /\ held[w] = NULL

-------------------------------------------------------------------------------
(* Liveness, under FairSpec *)

(***************************************************************************)
(* A job that cannot be paused leaves its queue unless jobs of a higher    *)
(* priority wait; for PRIORITY_HIGH there are none, so it always runs (or  *)
(* is cancelled), however many jobs clients add.                           *)
(***************************************************************************)
JobServed ==
  \A j \in Job : \A p \in Priority \ {PRIORITY_LOW_PAUSABLE} :
    j \in Queued(p) ~> \/ j \notin Queued(p)
                       \/ \E q \in Priority : q > p /\ m_jobQueue[q] # <<>>

\* CancelJobs returns: its loop l.206-213 ends, with workers asleep, timing
\* out, at work or inside a client's callback when it begins.
CancelJobsReturns == canceller = "draining" ~> canceller = "idle"

\* A job a worker has taken is completed and deleted.
JobCompleted == \A j \in Job : j \in m_processing ~> j \notin m_processing

===============================================================================
