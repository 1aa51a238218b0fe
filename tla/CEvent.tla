-------------------------------- MODULE CEvent --------------------------------
(***************************************************************************)
(* The value of one CEvent (threads/Event.h) and its operations, as        *)
(* operators that take a value and return the next one: every method of    *)
(* the class runs under the event's own mutex, so an owner of an event     *)
(* makes one of these steps at a time.  `waiters' is the set of threads    *)
(* that are between numWaits++ and numWaits--; the code counts them.       *)
(*                                                                         *)
(* A wait has two steps.  BeginWait enters the condition variable (or      *)
(* returns at once when the event is signaled); EndWait is the return,     *)
(* after a notification or after the time limit.  TightConditionVariable   *)
(* re-checks the predicate, so a spurious wakeup is not a step.            *)
(***************************************************************************)

NewEvent(manual, initially) ==
  [manualReset |-> manual, signaled |-> initially, waiters |-> {}]

EventType(Thread) ==
  [manualReset : BOOLEAN, signaled : BOOLEAN, waiters : SUBSET Thread]

\* Set: the groups of the event are notified by CEventGroup's module.
SetEvent(e) == [e EXCEPT !.signaled = TRUE]

ResetEvent(e) == [e EXCEPT !.signaled = FALSE]

(***************************************************************************)
(* prepReturn: an auto-reset event is reset by the last waiter to leave;   *)
(* a waiter that leaves others behind leaves the event signaled for them.  *)
(***************************************************************************)
prepReturn(e) ==
  [e EXCEPT !.signaled = @ /\ (e.manualReset \/ e.waiters # {})]

\* A thread that finds the event signaled returns TRUE without blocking.
ReturnsAtOnce(e) == e.signaled

PassThrough(e) == prepReturn(e)

BeginWait(e, t) == [e EXCEPT !.waiters = @ \cup {t}]

EndWait(e, t) == prepReturn([e EXCEPT !.waiters = @ \ {t}])

===============================================================================
