------------------------------ MODULE EventGroup ------------------------------
(***************************************************************************)
(* CEvent and CEventGroup (threads/Event.h, Event.cpp): threads that wait  *)
(* for any of several events (CEventGroup::wait), threads that wait for    *)
(* one of them (CEvent::Wait, WaitMSec) and threads that set them.         *)
(*                                                                         *)
(* CEvent::Set has two critical sections: the event's own, and the one     *)
(* that tells the group under groupListMutex and the group's mutex.  Other *)
(* threads run in between.  A group wait holds the group's mutex up to the *)
(* block in its condition variable and again after it.  Its scan reads the *)
(* events without their mutexes: a Set during the scan is a Set after it.  *)
(* Its last part resets the event with WaitMSec(0), which takes the mutex  *)
(* of the event only then, so threads that wait for the event or set it    *)
(* run before that.  The group is constructed over all the events.         *)
(***************************************************************************)
EXTENDS Integers, Sequences, CEvent, SequencesExt

CONSTANTS
  events,        \* the group's vector: the CEvent objects in order
  ManualReset,   \* those constructed with manual = true
  GroupWaiter,   \* threads that call CEventGroup::wait
  EventWaiter,   \* threads that wait for one event
  Setter,        \* threads that call CEvent::Set and Reset
  NULL

Event == ToSet(events)

ASSUME GroupAssumption ==
  /\ events \in Seq(Event) /\ IsInjective(events)
  /\ ManualReset \subseteq Event
  /\ NULL \notin Event
  /\ GroupWaiter \cap EventWaiter = {}

VARIABLES
  event,      \* the value of each CEvent
  signaled,   \* CEventGroup::signaled
  gWaiters,   \* the threads counted in CEventGroup::numWaits
  pc,         \* of a waiter: "idle", "blocked" or "returned"; of a group
              \* waiter that has the group's mutex and is about to reset the
              \* event also "leaving", and "resetting" inside WaitMSec(0)
  result,     \* what a waiter's last call returned; NULL: timeout
  target,     \* the event an EventWaiter is blocked on
  setting,    \* the event a Setter has set and not told the group of yet
  owed        \* history: the EventWaiters that were blocked on their event
              \* when it was set, with no Reset of it since

vars == <<event, signaled, gWaiters, pc, result, target, setting, owed>>

Waiter == GroupWaiter \cup EventWaiter

Init ==
  /\ event = [e \in Event |-> NewEvent(e \in ManualReset, FALSE)]
  /\ signaled = NULL
  /\ gWaiters = {}
  /\ pc = [t \in Waiter |-> "idle"]
  /\ result = [t \in Waiter |-> NULL]
  /\ target = [t \in EventWaiter |-> NULL]
  /\ setting = [s \in Setter |-> NULL]
  /\ owed = {}

\* Nobody has the group's mutex between two steps.
MutexFree == \A t \in GroupWaiter : pc[t] \notin {"leaving", "resetting"}

-------------------------------------------------------------------------------
(* Setting *)

\* The threads that are blocked on e in a wait of its own.
BlockedOn(e) == {t \in EventWaiter : pc[t] = "blocked" /\ target[t] = e}

\* The first half of CEvent::Set: the flag, and the event's own waiters.
SetFlag(s, e) ==
  /\ setting[s] = NULL
  /\ event' = [event EXCEPT ![e] = SetEvent(@)]
  /\ setting' = [setting EXCEPT ![s] = e]
  /\ owed' = owed \cup BlockedOn(e)
  /\ UNCHANGED <<signaled, gWaiters, pc, result, target>>

\* Mutant: the group is not told.
SetGroup_NotTold(s) ==
  /\ setting[s] # NULL
  /\ MutexFree
  /\ setting' = [setting EXCEPT ![s] = NULL]
  /\ UNCHANGED <<event, signaled, gWaiters, pc, result, target, owed>>

\* The second half: CEventGroup::Set.
SetGroup(s) ==
  /\ setting[s] # NULL
  /\ MutexFree
  /\ signaled' = setting[s]
  /\ setting' = [setting EXCEPT ![s] = NULL]
  /\ UNCHANGED <<event, gWaiters, pc, result, target, owed>>

Reset(s, e) ==
  /\ setting[s] = NULL
  /\ event[e].signaled
  /\ event' = [event EXCEPT ![e] = ResetEvent(@)]
  /\ owed' = owed \ BlockedOn(e)
  /\ UNCHANGED <<signaled, gWaiters, pc, result, target, setting>>

-------------------------------------------------------------------------------
(* CEventGroup::wait *)

Signaled == {i \in 1..Len(events) : event[events[i]].signaled}

\* The scan of the child events: the first that is signaled.
FirstSignaled ==
  IF Signaled = {} THEN NULL
  ELSE events[CHOOSE i \in Signaled : \A k \in Signaled : i <= k]

\* Mutant: whoever leaves first clears the group's event.
LeaveGroup_ClearAlways(t, r, others) ==
  /\ gWaiters' = others
  /\ result' = [result EXCEPT ![t] = r]
  /\ signaled' = NULL
  /\ pc' = [pc EXCEPT ![t] = IF others = {} /\ r # NULL THEN "leaving" ELSE "returned"]

(***************************************************************************)
(* The end of a wait that found r in `signaled', with `others' still in    *)
(* theirs: the last to leave will reset the event and then forget it.      *)
(***************************************************************************)
LeaveGroup(t, r, others) ==
  /\ gWaiters' = others
  /\ result' = [result EXCEPT ![t] = r]
  /\ signaled' = r
  /\ pc' = [pc EXCEPT ![t] = IF others = {} /\ r # NULL THEN "leaving" ELSE "returned"]

GroupWait(t) ==
  /\ pc[t] = "idle"
  /\ MutexFree
  /\ \/ /\ FirstSignaled # NULL
        /\ LeaveGroup(t, FirstSignaled, gWaiters)
     \/ /\ FirstSignaled = NULL
        /\ signaled' = NULL
        /\ gWaiters' = gWaiters \cup {t}
        /\ pc' = [pc EXCEPT ![t] = "blocked"]
        /\ UNCHANGED result
  /\ UNCHANGED <<event, target, setting, owed>>

\* The condition variable's predicate holds: the thread has the mutex again.
GroupWake(t) ==
  /\ pc[t] = "blocked"
  /\ MutexFree
  /\ signaled # NULL
  /\ LeaveGroup(t, signaled, gWaiters \ {t})
  /\ UNCHANGED <<event, target, setting, owed>>

\* The time limit of wait(milliseconds).
GroupTimeout(t) ==
  /\ pc[t] = "blocked"
  /\ MutexFree
  /\ signaled = NULL
  /\ LeaveGroup(t, NULL, gWaiters \ {t})
  /\ UNCHANGED <<event, target, setting, owed>>

\* Mutant: the group resets the event it returns with Reset().
ResetReturned_Reset(t) ==
  /\ pc[t] = "leaving"
  /\ event' = [event EXCEPT ![result[t]] = IF @.manualReset THEN @ ELSE ResetEvent(@)]
  /\ pc' = [pc EXCEPT ![t] = "returned"]
  /\ signaled' = NULL
  /\ UNCHANGED <<gWaiters, result, target, setting, owed>>

\* WaitMSec(0) of the event the group returns.  Somebody may have taken its
\* signal meanwhile: then it waits, for no time, like any waiter.
ResetReturned(t) ==
  /\ pc[t] = "leaving"
  /\ LET e == result[t] IN
       \/ /\ ReturnsAtOnce(event[e])
          /\ event' = [event EXCEPT ![e] = PassThrough(@)]
          /\ pc' = [pc EXCEPT ![t] = "returned"]
          /\ signaled' = NULL
       \/ /\ ~ReturnsAtOnce(event[e])
          /\ event' = [event EXCEPT ![e] = BeginWait(@, t)]
          /\ pc' = [pc EXCEPT ![t] = "resetting"]
          /\ UNCHANGED signaled
  /\ UNCHANGED <<gWaiters, result, target, setting, owed>>

ResetTimeout(t) ==
  /\ pc[t] = "resetting"
  /\ event' = [event EXCEPT ![result[t]] = EndWait(@, t)]
  /\ pc' = [pc EXCEPT ![t] = "returned"]
  /\ signaled' = NULL
  /\ UNCHANGED <<gWaiters, result, target, setting, owed>>

-------------------------------------------------------------------------------
(* CEvent::Wait and WaitMSec *)

Wait(t, e) ==
  /\ pc[t] = "idle"
  /\ \/ /\ ReturnsAtOnce(event[e])
        /\ event' = [event EXCEPT ![e] = PassThrough(@)]
        /\ pc' = [pc EXCEPT ![t] = "returned"]
        /\ result' = [result EXCEPT ![t] = e]
        /\ UNCHANGED target
     \/ /\ ~ReturnsAtOnce(event[e])
        /\ event' = [event EXCEPT ![e] = BeginWait(@, t)]
        /\ pc' = [pc EXCEPT ![t] = "blocked"]
        /\ target' = [target EXCEPT ![t] = e]
        /\ UNCHANGED result
  /\ UNCHANGED <<signaled, gWaiters, setting, owed>>

\* WaitMSec returns whether the event is signaled; Wait has no time limit.
WaitReturns(t) ==
  /\ pc[t] = "blocked"
  /\ event' = [event EXCEPT ![target[t]] = EndWait(@, t)]
  /\ pc' = [pc EXCEPT ![t] = "returned"]
  /\ result' = [result EXCEPT ![t] = IF event[target[t]].signaled THEN target[t] ELSE NULL]
  /\ target' = [target EXCEPT ![t] = NULL]
  /\ owed' = owed \ {t}
  /\ UNCHANGED <<signaled, gWaiters, setting>>

\* The caller goes on with the result and may wait again.
Return(t) ==
  /\ pc[t] = "returned"
  /\ pc' = [pc EXCEPT ![t] = "idle"]
  /\ result' = [result EXCEPT ![t] = NULL]
  /\ UNCHANGED <<event, signaled, gWaiters, target, setting, owed>>

-------------------------------------------------------------------------------

Next ==
  \/ \E s \in Setter : SetGroup(s) \/ \E e \in Event : SetFlag(s, e) \/ Reset(s, e)
  \/ \E t \in GroupWaiter :
       \/ GroupWait(t) \/ GroupWake(t) \/ GroupTimeout(t)
       \/ ResetReturned(t) \/ ResetTimeout(t)
  \/ \E t \in EventWaiter : WaitReturns(t) \/ \E e \in Event : Wait(t, e)
  \/ \E t \in Waiter : Return(t)

Spec == Init /\ [][Next]_vars

\* Threads in Set finish it, a thread whose predicate holds gets to run; both
\* need the group's mutex, which is free again and again (strong fairness).
\* No wait has to time out but the one of no length.
FairSpec ==
  /\ Spec
  /\ \A s \in Setter : SF_vars(SetGroup(s))
  /\ \A t \in GroupWaiter :
       SF_vars(GroupWake(t)) /\ WF_vars(ResetReturned(t)) /\ WF_vars(ResetTimeout(t))
  /\ \A t \in EventWaiter : WF_vars(WaitReturns(t) /\ event[target[t]].signaled)

-------------------------------------------------------------------------------
(* Properties *)

\* The type of every variable; the counts of waiters are those of the threads
\* inside a wait.
TypeOK ==
  /\ event \in [Event -> EventType(Waiter)]
  /\ owed \subseteq EventWaiter
  /\ signaled \in Event \cup {NULL}
  /\ gWaiters = {t \in GroupWaiter : pc[t] = "blocked"}
  /\ \A e \in Event :
       event[e].waiters = {t \in EventWaiter : pc[t] = "blocked" /\ target[t] = e}
                            \cup {t \in GroupWaiter : pc[t] = "resetting" /\ result[t] = e}
  /\ pc \in [Waiter -> {"idle", "blocked", "leaving", "resetting", "returned"}]
  /\ result \in [Waiter -> Event \cup {NULL}]
  /\ target \in [EventWaiter -> Event \cup {NULL}]
  /\ setting \in [Setter -> Event \cup {NULL}]

(***************************************************************************)
(* No lost signal: while a thread is blocked in the group and an event of  *)
(* the group is signaled, the group has an event to give it, or a setter   *)
(* is on its way to the group.  `signaled' is shared by all the waiters,   *)
(* each of which clears it (wait l.118, l.146) and looks again.            *)
(***************************************************************************)
NoLostSignal ==
  (\E t \in GroupWaiter : pc[t] = "blocked") /\ Signaled # {} =>
    \/ signaled # NULL
    \/ \E s \in Setter : setting[s] # NULL /\ event[setting[s]].signaled

(***************************************************************************)
(* A thread that was blocked on an event when it was set is told so when   *)
(* its wait ends, by a notification or by its time limit: WaitMSec returns *)
(* TRUE unless the event was Reset meanwhile.  In between other threads    *)
(* leave their waits for the event, come and pass through, wait in the     *)
(* group, and the group resets the event it returned (wait l.140-147).     *)
(***************************************************************************)
WaitersReleased ==
  [][\A t \in owed : pc'[t] = "returned" => result'[t] = target[t]]_vars

(***************************************************************************)
(* A group waiter that is blocked while events are signaled returns, or    *)
(* others take the signals: nobody sleeps on a signal that stays.          *)
(***************************************************************************)
GroupReleased ==
  \A t \in GroupWaiter :
    pc[t] = "blocked" /\ Signaled # {} ~> pc[t] # "blocked" \/ Signaled = {}

===============================================================================
