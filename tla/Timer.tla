--------------------------------- MODULE Timer ---------------------------------
(***************************************************************************)
(* CTimer (threads/Timer.cpp) on top of CThread, without its clock: a      *)
(* timer that is neither stopped nor interrupted expires at some time.     *)
(* Timers here do not repeat.                                              *)
(*                                                                         *)
(* A module that EXTENDS this one has the callback, as a step from "fire"  *)
(* to "fired", and the calls of the owner.                                 *)
(***************************************************************************)
EXTENDS Thread

VARIABLE m_eventTimeout     \* an auto-reset event with one waiter

timerVars == <<threadVars, m_eventTimeout>>

TimerInit == ThreadInit /\ m_eventTimeout = FALSE

timerPlaces == {"none", "loop", "wait", "fire", "fired", "exit", "term", "leave"}

-------------------------------------------------------------------------------
(* Process *)

Go(t, from, to) == tpc[t] = from /\ tpc' = [tpc EXCEPT ![t] = to]

threadRest == <<m_ThreadId, m_bStop, m_TermEvent, m_CriticalSection, cpc, ret, bWait, alive, history>>

\* while (!m_bStop)
TestStop(t) ==
  /\ Go(t, "loop", IF m_bStop THEN "exit" ELSE "wait")
  /\ UNCHANGED <<threadRest, m_eventTimeout>>

\* WaitMSec returns true, which resets the event.
WaitInterrupted(t) ==
  /\ m_eventTimeout
  /\ m_eventTimeout' = FALSE
  /\ Go(t, "wait", "loop")
  /\ UNCHANGED threadRest

\* It returns false, and the time has come.
TimeoutExpires(t) ==
  /\ ~m_eventTimeout
  /\ Go(t, "wait", "fire")
  /\ UNCHANGED <<threadRest, m_eventTimeout>>

\* The callback has returned: "stop if this is not an interval timer".
TimeoutReturns(t) ==
  /\ Go(t, "fired", "exit")
  /\ UNCHANGED <<threadRest, m_eventTimeout>>

Process(t) == TestStop(t) \/ WaitInterrupted(t) \/ TimeoutExpires(t) \/ TimeoutReturns(t)

TimerThread ==
  \/ \E t \in Threads : Process(t)
  \/ ThreadEnds /\ UNCHANGED m_eventTimeout

-------------------------------------------------------------------------------
(* The calls of the owner *)

\* Start: nothing is done, and false returned, while the thread is running.
Start ==
  IF IsRunning
  THEN UNCHANGED <<m_ThreadId, m_bStop, m_TermEvent, tpc, history>>
  ELSE Create("loop")

\* Stop up to its test; it returns at `next'.
Stop(wait, next) ==
  IF IsRunning
  THEN /\ cpc' = "flag" /\ ret' = next /\ bWait' = wait
       /\ UNCHANGED <<m_ThreadId, m_bStop, m_TermEvent, m_CriticalSection, tpc, alive, history,
                      m_eventTimeout>>
  ELSE /\ cpc' = next
       /\ UNCHANGED <<m_ThreadId, m_bStop, m_TermEvent, m_CriticalSection, tpc, ret, bWait, alive,
                      history, m_eventTimeout>>

\* m_bStop = true, m_eventTimeout.Set(), and StopThread up to its lock.
SetStop ==
  /\ cpc = "flag"
  /\ m_eventTimeout' = TRUE
  /\ StopThread(bWait, ret)

TimerStopping == SetStop \/ (Stopping /\ UNCHANGED m_eventTimeout)

===============================================================================
