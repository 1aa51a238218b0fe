--------------------------------- MODULE Thread ---------------------------------
(***************************************************************************)
(* CThread (threads/Thread.cpp) with the threads it spawns and its owner,  *)
(* who creates it, stops it and in the end deletes it.  What the thread    *)
(* does in between, Process, ends by itself or when m_bStop is set; a      *)
(* module that EXTENDS this one may say more.                              *)
(*                                                                         *)
(* A thread that has said it is over (m_ThreadId = 0) has still to set     *)
(* m_TermEvent and to leave m_CriticalSection, so there may be more than   *)
(* one thread for one CThread.  pthread_create publishes m_ThreadId before *)
(* the new thread starts.  m_StopEvent goes with m_bStop; auto-deleted     *)
(* threads are those of JobManager.                                        *)
(***************************************************************************)
EXTENDS Naturals, FiniteSets

CONSTANTS
  Threads,        \* what the system has for the CThread to run on
  None            \* no thread

ASSUME ThreadAssumption == None \notin Threads

VARIABLES
  m_ThreadId,         \* m_ThreadId # 0
  m_bStop, m_TermEvent,
  m_CriticalSection,  \* who has it
  tpc,                \* per thread: its place in staticThread
  cpc, ret, bWait,    \* the owner's place, where StopThread returns to, its parameter
  alive,              \* the CThread exists
  waited,             \* history: StopThread(true) has returned, and no Create since
  early               \* history: the last Create came before the old thread's m_TermEvent.Set()

history == <<waited, early>>

threadVars == <<m_ThreadId, m_bStop, m_TermEvent, m_CriticalSection, tpc, cpc, ret, bWait, alive, history>>

ThreadInit ==
  /\ m_ThreadId = FALSE /\ m_bStop = FALSE /\ m_TermEvent = FALSE
  /\ m_CriticalSection = None
  /\ tpc = [t \in Threads |-> "none"]
  /\ cpc = "idle" /\ ret = "idle" /\ bWait = FALSE
  /\ alive = TRUE
  /\ waited = TRUE /\ early = FALSE

-------------------------------------------------------------------------------
(* The thread *)

\* IsRunning.
IsRunning == m_ThreadId

\* The places of a thread that has not ended its Process.
InProcess(t) == tpc[t] \notin {"none", "term", "leave"}

\* Process returns, because it is done or because m_bStop is set.
ProcessReturns(t) ==
  /\ tpc[t] = "process"
  /\ tpc' = [tpc EXCEPT ![t] = "exit"]
  /\ UNCHANGED <<m_ThreadId, m_bStop, m_TermEvent, m_CriticalSection, cpc, ret, bWait, alive, history>>

\* "lock during termination", and m_ThreadId = 0.
EndThread(t) ==
  /\ tpc[t] = "exit"
  /\ m_CriticalSection = None
  /\ m_CriticalSection' = t
  /\ m_ThreadId' = FALSE
  /\ tpc' = [tpc EXCEPT ![t] = "term"]
  /\ UNCHANGED <<m_bStop, m_TermEvent, cpc, ret, bWait, alive, history>>

\* m_TermEvent.Set().
SetTermEvent(t) ==
  /\ tpc[t] = "term"
  /\ m_TermEvent' = TRUE
  /\ tpc' = [tpc EXCEPT ![t] = "leave"]
  /\ UNCHANGED <<m_ThreadId, m_bStop, m_CriticalSection, cpc, ret, bWait, alive, history>>

\* TermHandler() and lock.Leave(); nothing of the CThread is used after it.
LeaveThread(t) ==
  /\ tpc[t] = "leave"
  /\ m_CriticalSection' = None
  /\ tpc' = [tpc EXCEPT ![t] = "none"]
  /\ UNCHANGED <<m_ThreadId, m_bStop, m_TermEvent, cpc, ret, bWait, alive, history>>

-------------------------------------------------------------------------------
(* The owner *)

\* Mutant: the end of the last thread is still signaled.
Create_NoReset(start) ==
  \E t \in Threads :
    /\ tpc[t] = "none"
    /\ tpc' = [tpc EXCEPT ![t] = start]
    /\ m_ThreadId' = TRUE /\ m_bStop' = FALSE
    /\ waited' = FALSE /\ early' = (\E u \in Threads : tpc[u] = "term")
    /\ UNCHANGED m_TermEvent

\* Create; `start' is where the new thread begins.
Create(start) ==
  \E t \in Threads :
    /\ tpc[t] = "none"
    /\ tpc' = [tpc EXCEPT ![t] = start]
    /\ m_ThreadId' = TRUE /\ m_bStop' = FALSE /\ m_TermEvent' = FALSE
    /\ waited' = FALSE /\ early' = (\E u \in Threads : tpc[u] = "term")

\* An owner creates the thread when it is not running; some have not waited for the last one.
CreateThread ==
  /\ cpc = "idle" /\ alive
  /\ ~IsRunning
  /\ Create("process")
  /\ UNCHANGED <<m_CriticalSection, cpc, ret, bWait, alive>>

\* Mutant: whoever stops the thread forgets it at once.
StopThread_Forgets(wait, next) ==
  /\ m_bStop' = TRUE /\ m_ThreadId' = FALSE
  /\ cpc' = "stop" /\ ret' = next /\ bWait' = wait
  /\ UNCHANGED <<m_TermEvent, m_CriticalSection, tpc, alive, history>>

\* Mutant: the thread is waited for and not told to stop.
StopThread_NotTold(wait, next) ==
  /\ cpc' = "stop" /\ ret' = next /\ bWait' = wait
  /\ UNCHANGED <<m_ThreadId, m_bStop, m_TermEvent, m_CriticalSection, tpc, alive, history>>

\* StopThread up to the lock; `next' is where it returns to.
StopThread(wait, next) ==
  /\ m_bStop' = TRUE
  /\ cpc' = "stop" /\ ret' = next /\ bWait' = wait
  /\ UNCHANGED <<m_ThreadId, m_TermEvent, m_CriticalSection, tpc, alive, history>>

\* StopThread returns.
StopReturns ==
  /\ cpc' = ret
  /\ waited' = (waited \/ bWait)
  /\ UNCHANGED early

\* The lock, and what it is for: the thread is over, or it is waited for.
TestThreadId ==
  /\ cpc = "stop"
  /\ m_CriticalSection = None
  /\ IF m_ThreadId /\ bWait THEN cpc' = "wait" /\ UNCHANGED history ELSE StopReturns
  /\ UNCHANGED <<m_ThreadId, m_bStop, m_TermEvent, m_CriticalSection, tpc, ret, bWait, alive>>

\* WaitForThreadExit.
ThreadExited ==
  /\ cpc = "wait"
  /\ m_TermEvent
  /\ StopReturns
  /\ UNCHANGED <<m_ThreadId, m_bStop, m_TermEvent, m_CriticalSection, tpc, ret, bWait, alive>>

StopIdle == cpc = "idle" /\ alive /\ \E wait \in BOOLEAN : StopThread(wait, "idle")

\* Mutant: only ~CThread stops the thread.
Delete_Once == cpc = "idle" /\ alive /\ StopThread(TRUE, "free")

(***************************************************************************)
(* The owner deletes it: whoever derives from CThread stops it in his own  *)
(* destructor, an owner of a plain one before it; ~CThread does so again.  *)
(***************************************************************************)
Delete == cpc = "idle" /\ alive /\ StopThread(TRUE, "destructor")

BaseDestructor == cpc = "destructor" /\ StopThread(TRUE, "free")

FreeThread ==
  /\ cpc = "free"
  /\ alive' = FALSE /\ cpc' = "idle"
  /\ UNCHANGED <<m_ThreadId, m_bStop, m_TermEvent, m_CriticalSection, tpc, ret, bWait, history>>

\* After that, a new one may be made in its place.
NewThread ==
  /\ cpc = "idle" /\ ~alive /\ \A t \in Threads : tpc[t] = "none"
  /\ alive' = TRUE
  /\ m_ThreadId' = FALSE /\ m_bStop' = FALSE /\ m_TermEvent' = FALSE
  /\ waited' = TRUE /\ early' = FALSE
  /\ UNCHANGED <<m_CriticalSection, tpc, cpc, ret, bWait>>

ThreadEnds == \E t \in Threads : EndThread(t) \/ SetTermEvent(t) \/ LeaveThread(t)

Stopping == TestThreadId \/ ThreadExited

Next ==
  \/ \E t \in Threads : ProcessReturns(t)
  \/ ThreadEnds
  \/ Stopping
  \/ CreateThread \/ StopIdle \/ Delete \/ BaseDestructor \/ FreeThread \/ NewThread

(***************************************************************************)
(* Fairness: the system runs its threads, an event and a lock let those    *)
(* through who wait for them, and Process returns when m_bStop is set.     *)
(***************************************************************************)
Fairness ==
  /\ \A t \in Threads : WF_threadVars(m_bStop /\ ProcessReturns(t))
  /\ WF_threadVars(ThreadEnds)
  /\ WF_threadVars(Stopping)
  /\ WF_threadVars(BaseDestructor) /\ WF_threadVars(FreeThread)

Spec == ThreadInit /\ [][Next]_threadVars /\ Fairness

-------------------------------------------------------------------------------
(* Properties *)

\* Every variable has its type, and a thread has the lock exactly where it ends.
TypeOK ==
  /\ m_ThreadId \in BOOLEAN /\ m_bStop \in BOOLEAN /\ m_TermEvent \in BOOLEAN
  /\ m_CriticalSection \in Threads \cup {None}
  /\ \A t \in Threads : m_CriticalSection = t <=> tpc[t] \in {"term", "leave"}
  /\ tpc \in [Threads -> {"none", "process", "exit", "term", "leave"}]
  /\ cpc \in {"idle", "stop", "wait", "destructor", "free"}
  /\ ret \in {"idle", "destructor", "free"}
  /\ {bWait, alive, waited, early} \subseteq BOOLEAN

(***************************************************************************)
(* At most one thread is in Process, and it is the one m_ThreadId is about *)
(* (Thread.cpp:86): the members of a derived class belong to one thread.   *)
(***************************************************************************)
OneProcess ==
  /\ \A t, u \in Threads : InProcess(t) /\ InProcess(u) => t = u
  /\ m_ThreadId <=> \E t \in Threads : InProcess(t)

(***************************************************************************)
(* When StopThread(true) has returned, the thread is out of Process, for   *)
(* good: "wait for the thread to terminate" (PAPlayer.cpp:536).  This      *)
(* fails only when Create came between m_ThreadId = 0 and                  *)
(* m_TermEvent.Set() of the thread before, whose end is then taken for     *)
(* the new one's.                                                          *)
(***************************************************************************)
StopWaits == waited /\ ~early => \A t \in Threads : ~InProcess(t)

(***************************************************************************)
(* The thread has left m_CriticalSection before the CThread is freed       *)
(* (Thread.cpp:133-140): the second StopThread, in ~CThread, sees to it    *)
(* (with the exception of StopWaits).                                      *)
(***************************************************************************)
NoUseAfterFree == alive \/ early \/ \A t \in Threads : tpc[t] = "none"

(***************************************************************************)
(* StopThread and the destructor return (Thread.cpp:159): the end of the   *)
(* thread is neither missed nor waited for with the lock it needs.         *)
(***************************************************************************)
OwnerReturns == (cpc # "idle") ~> (cpc = "idle")

===============================================================================
