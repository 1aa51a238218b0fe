--------------------------- MODULE EventGroupProofs ---------------------------
(***************************************************************************)
(* The safety properties of EventGroup for any events and threads.         *)
(* NoLostSignal alone is not inductive: a Reset may take away the event    *)
(* that the last setter is on its way with while another event stays       *)
(* signaled.  What holds is stronger: as long as the group has no event to *)
(* give, every event that is signaled has a setter of its own on its way,  *)
(* since the scan of the last thread to block found none, and the group    *)
(* forgets its event only when it has no more waiters.  WaitersReleased    *)
(* follows from OwedIsThere, which needs the exact waiters of TypeOK: who  *)
(* takes the signal of an auto-reset event was the last of its waiters.    *)
(***************************************************************************)
EXTENDS EventGroup, WellFoundedInduction, TLAPS

\* The places of the two kinds of wait, and what is known in them.
Places ==
  \A t \in EventWaiter :
    /\ pc[t] \in {"idle", "blocked", "returned"}
    /\ pc[t] = "blocked" => target[t] # NULL

\* A group wait that is about to reset its event was the last of the group's.
LastToLeave ==
  \A t \in GroupWaiter :
    pc[t] \in {"leaving", "resetting"} => result[t] # NULL /\ gWaiters = {}

\* While threads are blocked in a group that has no event to give them,
\* whoever signaled an event is on the way to the group.
EverySignalTold ==
  gWaiters # {} /\ signaled = NULL =>
    \A e \in Event : event[e].signaled => \E s \in Setter : setting[s] = e

\* A signal that is owed is still there.
OwedIsThere ==
  \A t \in owed : pc[t] = "blocked" /\ event[target[t]].signaled

IInv ==
  /\ TypeOK
  /\ Places
  /\ LastToLeave
  /\ EverySignalTold
  /\ OwedIsThere

-------------------------------------------------------------------------------

\* The scan of wait stops at an event that is signaled, if there is one.
LEMMA ScanFinds ==
  /\ FirstSignaled = NULL => \A e \in Event : ~event[e].signaled
  /\ FirstSignaled # NULL => FirstSignaled \in Event
<1>1. events \in Seq(Event) /\ NULL \notin Event
  BY GroupAssumption
<1>2. \A e \in Event : \E i \in 1..Len(events) : events[i] = e
  BY <1>1 DEF Event, ToSet
<1>3. Signaled # {} => \E i \in Signaled : \A k \in Signaled : i <= k
  <2> SUFFICES ASSUME Signaled # {}
               PROVE  \E i \in Signaled : \A k \in Signaled : i <= k
    OBVIOUS
  <2>1. Len(events) \in Nat
    BY <1>1
  <2>2. Signaled \subseteq Nat
    BY <2>1 DEF Signaled
  <2>3. OpToRel(<, Nat) = {ab \in Nat \X Nat : ab[1] < ab[2]}
    BY DEF OpToRel
  <2>4. IsWellFoundedOn({ab \in Nat \X Nat : ab[1] < ab[2]}, Nat)
    BY Zenon, <2>3, NatLessThanWellFounded
  <2>5. PICK i \in Signaled :
               \A k \in Signaled : ~(<<k, i>> \in {ab \in Nat \X Nat : ab[1] < ab[2]})
    BY <2>2, <2>4, WFMin
  <2>6. \A a, b \in Nat : a < b => <<a, b>> \in {ab \in Nat \X Nat : ab[1] < ab[2]}
    OBVIOUS
  <2>7. \A k \in Signaled : ~(k < i)
    BY <2>2, <2>5, <2>6
  <2> QED
    BY <2>2, <2>7
<1>4. Signaled # {} => FirstSignaled \in Event
  <2>1. ASSUME Signaled # {}
        PROVE  (CHOOSE i \in Signaled : \A k \in Signaled : i <= k) \in Signaled
    BY <1>3, <2>1
  <2>2. \A i \in Signaled : events[i] \in Event
    BY <1>1 DEF Signaled
  <2> QED
    BY <2>1, <2>2 DEF FirstSignaled
<1>5. Signaled = {} => \A e \in Event : ~event[e].signaled
  BY <1>2 DEF Signaled
<1> QED
  BY <1>1, <1>4, <1>5 DEF FirstSignaled

-------------------------------------------------------------------------------
(* The values of CEvent *)

\* Every operation returns an event; what it does to the waiters and the signal.
LEMMA EventOperations ==
  ASSUME NEW x \in EventType(Waiter)
  PROVE  /\ SetEvent(x) \in EventType(Waiter) /\ SetEvent(x).waiters = x.waiters
         /\ SetEvent(x).signaled
         /\ ResetEvent(x) \in EventType(Waiter) /\ ResetEvent(x).waiters = x.waiters
         /\ ~ResetEvent(x).signaled
         /\ PassThrough(x) \in EventType(Waiter) /\ PassThrough(x).waiters = x.waiters
         /\ PassThrough(x).signaled => x.signaled
         /\ x.signaled /\ ~PassThrough(x).signaled => PassThrough(x).waiters = {}
<1>1. SetEvent(x) \in EventType(Waiter) /\ SetEvent(x).waiters = x.waiters /\ SetEvent(x).signaled
  BY DEF EventType, SetEvent
<1>2. ResetEvent(x) \in EventType(Waiter) /\ ResetEvent(x).waiters = x.waiters /\ ~ResetEvent(x).signaled
  BY DEF EventType, ResetEvent
<1>3. /\ PassThrough(x) \in EventType(Waiter) /\ PassThrough(x).waiters = x.waiters
      /\ PassThrough(x).signaled => x.signaled
      /\ x.signaled /\ ~PassThrough(x).signaled => PassThrough(x).waiters = {}
  BY DEF EventType, PassThrough, prepReturn
<1> QED
  BY <1>1, <1>2, <1>3

\* The two steps of a wait by t.
LEMMA WaitOperations ==
  ASSUME NEW x \in EventType(Waiter), NEW t \in Waiter
  PROVE  /\ BeginWait(x, t) \in EventType(Waiter) /\ BeginWait(x, t).waiters = x.waiters \cup {t}
         /\ BeginWait(x, t).signaled = x.signaled
         /\ EndWait(x, t) \in EventType(Waiter) /\ EndWait(x, t).waiters = x.waiters \ {t}
         /\ EndWait(x, t).signaled => x.signaled
         /\ x.signaled /\ ~EndWait(x, t).signaled => EndWait(x, t).waiters = {}
BY DEF EventType, BeginWait, EndWait, prepReturn

-------------------------------------------------------------------------------
(* The inductive invariant *)

\* At first no event is signaled and no thread waits.
LEMMA InitInv == Init => IInv
<1> SUFFICES ASSUME Init
             PROVE  IInv
  OBVIOUS
<1>1. \A e \in Event : event[e] \in EventType(Waiter) /\ event[e].waiters = {} /\ ~event[e].signaled
  BY GroupAssumption DEF Init, EventType, NewEvent
<1>2. event \in [Event -> EventType(Waiter)]
  BY <1>1 DEF Init
<1>3. TypeOK
  BY <1>1, <1>2 DEF Init, TypeOK, Waiter
<1> QED
  BY <1>1, <1>3 DEF Init, IInv, Places, LastToLeave, EverySignalTold, OwedIsThere, Waiter

\* The setter is on its way to the group with the event it has signaled.
LEMMA SetFlagInv ==
  ASSUME IInv, NEW s \in Setter, NEW e \in Event, SetFlag(s, e)
  PROVE  IInv'
<1>1. event' \in [Event -> EventType(Waiter)] /\ \A d \in Event : event'[d].waiters = event[d].waiters
  BY EventOperations DEF IInv, TypeOK, SetFlag
<1>2. \A d \in Event : event'[d].signaled => event[d].signaled \/ d = e
  BY DEF IInv, TypeOK, SetFlag
<1>3. TypeOK'
  BY <1>1 DEF IInv, TypeOK, SetFlag, BlockedOn
<1>4. Places' /\ LastToLeave'
  BY DEF IInv, Places, LastToLeave, SetFlag
<1>5. EverySignalTold'
  BY <1>2, GroupAssumption DEF IInv, TypeOK, EverySignalTold, SetFlag
<1>6. OwedIsThere'
  <2>1. /\ event'[e].signaled /\ \A d \in Event : event[d].signaled => event'[d].signaled
        /\ \A t \in EventWaiter : target[t] # NULL => target[t] \in Event
    BY EventOperations DEF IInv, TypeOK, SetFlag
  <2> QED
    BY <2>1 DEF IInv, TypeOK, Places, OwedIsThere, BlockedOn, SetFlag
<1> QED
  BY <1>3, <1>4, <1>5, <1>6 DEF IInv

\* Now the group has an event to give.
LEMMA SetGroupInv ==
  ASSUME IInv, NEW s \in Setter, SetGroup(s)
  PROVE  IInv'
<1>1. TypeOK'
  BY DEF IInv, TypeOK, SetGroup
<1>2. Places' /\ LastToLeave'
  BY DEF IInv, Places, LastToLeave, SetGroup
<1>3. EverySignalTold'
  BY DEF IInv, TypeOK, EverySignalTold, SetGroup
<1>4. OwedIsThere'
  BY DEF IInv, OwedIsThere, SetGroup
<1> QED
  BY <1>1, <1>2, <1>3, <1>4 DEF IInv

\* Fewer events are signaled, and the others keep their setters.
LEMMA ResetInv ==
  ASSUME IInv, NEW s \in Setter, NEW e \in Event, Reset(s, e)
  PROVE  IInv'
<1>1. event' \in [Event -> EventType(Waiter)] /\ \A d \in Event : event'[d].waiters = event[d].waiters
  BY EventOperations DEF IInv, TypeOK, Reset
<1>2. \A d \in Event : event'[d].signaled => event[d].signaled
  BY EventOperations DEF IInv, TypeOK, Reset
<1>3. TypeOK'
  BY <1>1 DEF IInv, TypeOK, Reset
<1>4. Places' /\ LastToLeave'
  BY DEF IInv, Places, LastToLeave, Reset
<1>5. EverySignalTold'
  BY <1>2 DEF IInv, EverySignalTold, Reset
<1>6. OwedIsThere'
  <2>1. \A t \in owed' : t \in owed /\ target[t] # e
    BY DEF IInv, TypeOK, OwedIsThere, BlockedOn, Reset
  <2>2. \A d : d # e => event'[d] = event[d]
    BY DEF IInv, TypeOK, Reset
  <2> QED
    BY <2>1, <2>2 DEF IInv, OwedIsThere, Reset
<1> QED
  BY <1>3, <1>4, <1>5, <1>6 DEF IInv

\* The end of a group wait: whoever is the last to leave holds the mutex.
LEMMA LeaveGroupInv ==
  ASSUME IInv, NEW t \in GroupWaiter, MutexFree, pc[t] \in {"idle", "blocked"},
         NEW r \in Event \cup {NULL}, r = NULL => signaled = NULL,
         LeaveGroup(t, r, gWaiters \ {t}), UNCHANGED <<event, target, setting, owed>>
  PROVE  IInv'
<1>1. t \in Waiter /\ t \notin EventWaiter
  BY GroupAssumption DEF Waiter
<1>2. pc'[t] \in {"leaving", "returned"} /\ \A u \in Waiter \ {t} : pc'[u] = pc[u] /\ result'[u] = result[u]
  BY <1>1 DEF IInv, TypeOK, LeaveGroup
<1>3. gWaiters' = {u \in GroupWaiter : pc'[u] = "blocked"}
  BY <1>1, <1>2 DEF IInv, TypeOK, LeaveGroup, Waiter
<1>4. ASSUME NEW e \in Event
      PROVE  event'[e].waiters = {u \in EventWaiter : pc'[u] = "blocked" /\ target'[u] = e}
                     \cup {u \in GroupWaiter : pc'[u] = "resetting" /\ result'[u] = e}
  BY <1>1, <1>2 DEF IInv, TypeOK, MutexFree, Waiter
<1>5. TypeOK'
  BY <1>1, <1>3, <1>4 DEF IInv, TypeOK, LeaveGroup
<1>6. Places'
  BY <1>1, <1>2 DEF IInv, Places, Waiter
<1>7. LastToLeave'
  BY <1>1, <1>2 DEF IInv, TypeOK, LastToLeave, LeaveGroup, MutexFree, Waiter
<1>8. EverySignalTold'
  BY DEF IInv, EverySignalTold, LeaveGroup
<1>9. OwedIsThere'
  BY <1>1, <1>2 DEF IInv, TypeOK, OwedIsThere, Waiter
<1> QED
  BY <1>5, <1>6, <1>7, <1>8, <1>9 DEF IInv

\* A thread blocks in the group only when its scan found no event signaled.
LEMMA GroupWaitInv ==
  ASSUME IInv, NEW t \in GroupWaiter, GroupWait(t)
  PROVE  IInv'
<1>1. CASE FirstSignaled # NULL
  <2>1. FirstSignaled \in Event /\ gWaiters \ {t} = gWaiters
    BY <1>1, ScanFinds DEF IInv, TypeOK, GroupWait
  <2> QED
    BY <1>1, <2>1, LeaveGroupInv DEF GroupWait
<1>2. CASE FirstSignaled = NULL
  <2>1. t \in Waiter /\ t \notin EventWaiter
    BY GroupAssumption DEF Waiter
  <2>2. pc'[t] = "blocked" /\ \A u \in Waiter \ {t} : pc'[u] = pc[u]
    BY <1>2, <2>1 DEF IInv, TypeOK, GroupWait
  <2>3. gWaiters' = {u \in GroupWaiter : pc'[u] = "blocked"}
    BY <1>2, <2>1, <2>2 DEF IInv, TypeOK, GroupWait, Waiter
  <2>4. ASSUME NEW e \in Event
        PROVE  event'[e].waiters = {u \in EventWaiter : pc'[u] = "blocked" /\ target'[u] = e}
                       \cup {u \in GroupWaiter : pc'[u] = "resetting" /\ result'[u] = e}
    BY <1>2, <2>1, <2>2 DEF IInv, TypeOK, GroupWait, MutexFree, Waiter
  <2>5. TypeOK'
    BY <1>2, <2>1, <2>3, <2>4 DEF IInv, TypeOK, GroupWait
  <2>6. Places' /\ LastToLeave'
    BY <1>2, <2>1, <2>2 DEF IInv, Places, LastToLeave, GroupWait, MutexFree, Waiter
  <2>7. EverySignalTold'
    BY <1>2, ScanFinds DEF EverySignalTold, GroupWait
  <2>8. OwedIsThere'
    BY <2>1, <2>2 DEF IInv, TypeOK, OwedIsThere, GroupWait, Waiter
  <2> QED
    BY <2>5, <2>6, <2>7, <2>8 DEF IInv
<1> QED
  BY <1>1, <1>2

\* The event that is reset last is forgotten when nobody waits for the group.
LEMMA ResetReturnedInv ==
  ASSUME IInv, NEW t \in GroupWaiter, ResetReturned(t) \/ ResetTimeout(t)
  PROVE  IInv'
<1>1. result[t] \in Event /\ gWaiters = {} /\ t \in Waiter /\ t \notin EventWaiter
  BY GroupAssumption DEF IInv, TypeOK, LastToLeave, Waiter, ResetReturned, ResetTimeout
<1>2. /\ pc' \in [Waiter -> {"idle", "blocked", "leaving", "resetting", "returned"}]
      /\ pc[t] # "blocked" /\ pc'[t] # "blocked"
      /\ \A u \in Waiter \ {t} : pc'[u] = pc[u]
      /\ UNCHANGED <<gWaiters, result, target, setting, owed>>
      /\ signaled' \in {NULL, signaled}
  BY <1>1 DEF IInv, TypeOK, ResetReturned, ResetTimeout
<1>3. PICK x \in EventType(Waiter) :
        /\ event' = [event EXCEPT ![result[t]] = x]
        /\ x.waiters = IF pc'[t] = "resetting" THEN event[result[t]].waiters \cup {t}
                       ELSE event[result[t]].waiters \ {t}
        /\ event[result[t]].signaled /\ ~x.signaled => x.waiters = {}
  <2>1. event[result[t]] \in EventType(Waiter)
    BY <1>1 DEF IInv, TypeOK
  <2>2. CASE ResetReturned(t)
    <3>1. t \notin event[result[t]].waiters
      BY <1>1, <2>2 DEF IInv, TypeOK, ResetReturned
    <3>2. CASE ReturnsAtOnce(event[result[t]])
      <4>1. pc'[t] = "returned" /\ event' = [event EXCEPT ![result[t]] = PassThrough(event[result[t]])]
        BY <1>1, <2>2, <3>2 DEF IInv, TypeOK, ResetReturned
      <4>2. /\ PassThrough(event[result[t]]) \in EventType(Waiter)
            /\ PassThrough(event[result[t]]).waiters = event[result[t]].waiters \ {t}
            /\ event[result[t]].signaled /\ ~PassThrough(event[result[t]]).signaled =>
                 PassThrough(event[result[t]]).waiters = {}
        BY <2>1, <3>1, EventOperations
      <4> QED
        BY <4>1, <4>2
    <3>3. CASE ~ReturnsAtOnce(event[result[t]])
      <4>1. pc'[t] = "resetting" /\ event' = [event EXCEPT ![result[t]] = BeginWait(event[result[t]], t)]
        BY <1>1, <2>2, <3>3 DEF IInv, TypeOK, ResetReturned
      <4>2. /\ BeginWait(event[result[t]], t) \in EventType(Waiter)
            /\ BeginWait(event[result[t]], t).waiters = event[result[t]].waiters \cup {t}
            /\ BeginWait(event[result[t]], t).signaled = event[result[t]].signaled
        BY <1>1, <2>1, WaitOperations
      <4> QED
        BY <4>1, <4>2
    <3> QED
      BY <3>2, <3>3
  <2>3. CASE ResetTimeout(t)
    <3>1. pc'[t] = "returned" /\ event' = [event EXCEPT ![result[t]] = EndWait(event[result[t]], t)]
      BY <1>1, <2>3 DEF IInv, TypeOK, ResetTimeout
    <3>2. /\ EndWait(event[result[t]], t) \in EventType(Waiter)
          /\ EndWait(event[result[t]], t).waiters = event[result[t]].waiters \ {t}
          /\ event[result[t]].signaled /\ ~EndWait(event[result[t]], t).signaled =>
               EndWait(event[result[t]], t).waiters = {}
      BY <1>1, <2>1, WaitOperations
    <3> QED
      BY <3>1, <3>2
  <2> QED
    BY <2>2, <2>3
<1>4. event' \in [Event -> EventType(Waiter)]
  BY <1>3 DEF IInv, TypeOK
<1>5. ASSUME NEW e \in Event
      PROVE  event'[e].waiters = {u \in EventWaiter : pc'[u] = "blocked" /\ target'[u] = e}
                     \cup {u \in GroupWaiter : pc'[u] = "resetting" /\ result'[u] = e}
  BY <1>1, <1>2, <1>3 DEF IInv, TypeOK, Waiter
<1>6. gWaiters' = {u \in GroupWaiter : pc'[u] = "blocked"}
  BY <1>1, <1>2 DEF IInv, TypeOK, Waiter
<1>7. TypeOK'
  BY <1>2, <1>4, <1>5, <1>6 DEF IInv, TypeOK
<1>8. Places' /\ LastToLeave'
  BY <1>1, <1>2, GroupAssumption DEF IInv, Places, LastToLeave, Waiter
<1>9. EverySignalTold'
  BY <1>1, <1>2 DEF EverySignalTold
<1>10. OwedIsThere'
  <2> SUFFICES ASSUME NEW u \in owed'
               PROVE  pc'[u] = "blocked" /\ event'[target'[u]].signaled
    BY DEF OwedIsThere
  <2>1. /\ u \in EventWaiter /\ u \in Waiter \ {t} /\ target[u] \in Event
        /\ pc[u] = "blocked" /\ event[target[u]].signaled /\ u \in event[target[u]].waiters
    BY <1>1, <1>2 DEF IInv, TypeOK, Places, OwedIsThere, Waiter
  <2>2. target[u] = result[t] => event'[target[u]].signaled
    BY <1>3, <2>1 DEF IInv, TypeOK
  <2>3. target[u] # result[t] => event'[target[u]] = event[target[u]]
    BY <1>3, <2>1 DEF IInv, TypeOK
  <2> QED
    BY <1>2, <2>1, <2>2, <2>3
<1> QED
  BY <1>7, <1>8, <1>9, <1>10 DEF IInv

\* What a step of a wait for one event leaves to the rest of the invariant:
\* it counts the thread as a waiter exactly while it is blocked, and signals
\* nothing.
LEMMA EventWaiterInv ==
  ASSUME IInv, NEW t \in EventWaiter, NEW e \in Event, NEW p \in {"blocked", "returned"},
         pc[t] = "blocked" => target[t] = e,
         pc[t] \in {"idle", "blocked"},
         pc' = [pc EXCEPT ![t] = p],
         target' \in [EventWaiter -> Event \cup {NULL}],
         \A u \in EventWaiter \ {t} : target'[u] = target[u],
         p = "blocked" => target'[t] = e,
         result' \in [Waiter -> Event \cup {NULL}],
         \A u \in Waiter \ {t} : result'[u] = result[u],
         event' = [event EXCEPT ![e] = event'[e]],
         event'[e] \in EventType(Waiter),
         event'[e].signaled => event[e].signaled,
         event'[e].waiters = IF p = "blocked" THEN event[e].waiters \cup {t} ELSE event[e].waiters \ {t},
         event[e].signaled /\ ~event'[e].signaled => event'[e].waiters = {},
         owed' = owed \ {t},
         UNCHANGED <<signaled, gWaiters, setting>>
  PROVE  IInv'
<1>1. t \in Waiter /\ t \notin GroupWaiter
  BY GroupAssumption DEF Waiter
<1>2. pc' \in [Waiter -> {"idle", "blocked", "leaving", "resetting", "returned"}]
      /\ pc'[t] = p /\ \A u \in Waiter \ {t} : pc'[u] = pc[u]
  BY <1>1 DEF IInv, TypeOK
<1>3. event' \in [Event -> EventType(Waiter)] 
      /\ \A d \in Event \ {e} : event'[d] = event[d]
  BY DEF IInv, TypeOK
<1>4. ASSUME NEW d \in Event
      PROVE  event'[d].waiters = {u \in EventWaiter : pc'[u] = "blocked" /\ target'[u] = d}
                     \cup {u \in GroupWaiter : pc'[u] = "resetting" /\ result'[u] = d}
  BY <1>1, <1>2, <1>3 DEF IInv, TypeOK, Waiter
<1>5. gWaiters' = {u \in GroupWaiter : pc'[u] = "blocked"}
  BY <1>1, <1>2 DEF IInv, TypeOK, Waiter
<1>6. TypeOK'
  BY <1>2, <1>3, <1>4, <1>5 DEF IInv, TypeOK
<1>7. Places' /\ LastToLeave'
  BY <1>1, <1>2, GroupAssumption DEF IInv, Places, LastToLeave, Waiter
<1>8. EverySignalTold'
  BY <1>3 DEF IInv, EverySignalTold
<1>9. OwedIsThere'
  <2> SUFFICES ASSUME NEW u \in owed'
               PROVE  pc'[u] = "blocked" /\ event'[target'[u]].signaled
    BY DEF OwedIsThere
  <2>1. /\ u \in EventWaiter \ {t} /\ u \in Waiter \ {t} /\ target[u] \in Event
        /\ pc[u] = "blocked" /\ event[target[u]].signaled /\ u \in event[target[u]].waiters
    BY <1>1 DEF IInv, TypeOK, Places, OwedIsThere, Waiter
  <2>2. target[u] = e => event'[target[u]].signaled
    BY <2>1
  <2>3. target[u] # e => event'[target[u]] = event[target[u]]
    BY <1>3, <2>1
  <2> QED
    BY <1>2, <2>1, <2>2, <2>3
<1> QED
  BY <1>6, <1>7, <1>8, <1>9 DEF IInv

\* A wait that returns at once was not counted, one that blocks is from now on.
LEMMA WaitInv ==
  ASSUME IInv, NEW t \in EventWaiter, NEW e \in Event, Wait(t, e)
  PROVE  IInv'
<1>1. t \in Waiter /\ t \notin GroupWaiter /\ event[e] \in EventType(Waiter)
  BY GroupAssumption DEF IInv, TypeOK, Waiter
<1>2. t \notin event[e].waiters
  BY <1>1 DEF IInv, TypeOK, Wait
<1>3. owed' = owed /\ owed = owed \ {t}
  BY DEF IInv, OwedIsThere, Wait
<1>4. CASE ReturnsAtOnce(event[e])
  <2>1. event'[e] = PassThrough(event[e]) /\ event' = [event EXCEPT ![e] = event'[e]]
    BY <1>4 DEF IInv, TypeOK, Wait
  <2>2. /\ event'[e] \in EventType(Waiter) /\ event'[e].waiters = event[e].waiters \ {t}
        /\ event'[e].signaled => event[e].signaled
        /\ event[e].signaled /\ ~event'[e].signaled => event'[e].waiters = {}
    BY <1>1, <1>2, <2>1, EventOperations
  <2>3. target' = target /\ result' = [result EXCEPT ![t] = e]
    BY <1>4 DEF Wait
  <2>4. result' \in [Waiter -> Event \cup {NULL}] /\ \A u \in Waiter \ {t} : result'[u] = result[u]
    BY <1>1, <2>3 DEF IInv, TypeOK
  <2>5. target' \in [EventWaiter -> Event \cup {NULL}]
    BY <2>3 DEF IInv, TypeOK
  <2>6. /\ pc[t] = "idle" /\ pc' = [pc EXCEPT ![t] = "returned"]
        /\ UNCHANGED <<signaled, gWaiters, setting>>
    BY <1>4 DEF Wait
  <2> QED
    BY <1>3, <2>1, <2>2, <2>3, <2>4, <2>5, <2>6, EventWaiterInv
<1>5. CASE ~ReturnsAtOnce(event[e])
  <2>1. event'[e] = BeginWait(event[e], t) /\ event' = [event EXCEPT ![e] = event'[e]]
    BY <1>5 DEF IInv, TypeOK, Wait
  <2>2. /\ event'[e] \in EventType(Waiter) /\ event'[e].waiters = event[e].waiters \cup {t}
        /\ event'[e].signaled = event[e].signaled
    BY <1>1, <2>1, WaitOperations
  <2>3. /\ target' \in [EventWaiter -> Event \cup {NULL}] /\ target'[t] = e
        /\ \A u \in EventWaiter \ {t} : target'[u] = target[u]
    BY <1>5 DEF IInv, TypeOK, Wait
  <2>4. result' = result /\ result' \in [Waiter -> Event \cup {NULL}]
    BY <1>5 DEF IInv, TypeOK, Wait
  <2>5. /\ pc[t] = "idle" /\ pc' = [pc EXCEPT ![t] = "blocked"]
        /\ UNCHANGED <<signaled, gWaiters, setting>>
    BY <1>5 DEF Wait
  <2> QED
    BY <1>3, <2>1, <2>2, <2>3, <2>4, <2>5, EventWaiterInv
<1> QED
  BY <1>4, <1>5

\* The thread is counted no more.
LEMMA WaitReturnsInv ==
  ASSUME IInv, NEW t \in EventWaiter, WaitReturns(t)
  PROVE  IInv'
<1> DEFINE e == target[t]
<1>1. t \in Waiter /\ e \in Event /\ event[e] \in EventType(Waiter)
  BY DEF IInv, TypeOK, Places, Waiter, WaitReturns
<1>2. event'[e] = EndWait(event[e], t) /\ event' = [event EXCEPT ![e] = event'[e]]
  BY <1>1 DEF IInv, TypeOK, WaitReturns
<1>3. /\ event'[e] \in EventType(Waiter) /\ event'[e].waiters = event[e].waiters \ {t}
      /\ event'[e].signaled => event[e].signaled
      /\ event[e].signaled /\ ~event'[e].signaled => event'[e].waiters = {}
  BY <1>1, <1>2, WaitOperations
<1>4. /\ target' \in [EventWaiter -> Event \cup {NULL}]
      /\ \A u \in EventWaiter \ {t} : target'[u] = target[u]
  BY DEF IInv, TypeOK, WaitReturns
<1>5. result' \in [Waiter -> Event \cup {NULL}] /\ \A u \in Waiter \ {t} : result'[u] = result[u]
  BY <1>1 DEF IInv, TypeOK, WaitReturns
<1>6. /\ pc[t] = "blocked" /\ pc' = [pc EXCEPT ![t] = "returned"]
      /\ owed' = owed \ {t} /\ UNCHANGED <<signaled, gWaiters, setting>>
  BY DEF WaitReturns
<1> HIDE DEF e
<1>7. e = target[t]
  BY DEF e
<1> QED
  BY <1>1, <1>2, <1>3, <1>4, <1>5, <1>6, <1>7, EventWaiterInv

\* A thread that has returned is in no wait.
LEMMA ReturnInv ==
  ASSUME IInv, NEW t \in Waiter, Return(t)
  PROVE  IInv'
<1>1. pc'[t] = "idle" /\ \A u \in Waiter \ {t} : pc'[u] = pc[u] /\ result'[u] = result[u]
  BY DEF IInv, TypeOK, Return
<1>2. TypeOK'
  BY <1>1 DEF IInv, TypeOK, Return, Waiter
<1>3. Places' /\ LastToLeave'
  BY <1>1 DEF IInv, Places, LastToLeave, Return, Waiter
<1>4. EverySignalTold'
  BY DEF IInv, EverySignalTold, Return
<1>5. OwedIsThere'
  BY <1>1 DEF IInv, TypeOK, OwedIsThere, Return, Waiter
<1> QED
  BY <1>2, <1>3, <1>4, <1>5 DEF IInv

LEMMA StepInv == IInv /\ [Next]_vars => IInv'
<1> SUFFICES ASSUME IInv, [Next]_vars
             PROVE  IInv'
  OBVIOUS
<1>1. ASSUME NEW t \in GroupWaiter, GroupWake(t)
      PROVE  IInv'
  <2>1. signaled \in Event \cup {NULL}
    BY DEF IInv, TypeOK
  <2> QED
    BY <1>1, <2>1, LeaveGroupInv DEF GroupWake
<1>2. ASSUME NEW t \in GroupWaiter, GroupTimeout(t)
      PROVE  IInv'
  BY <1>2, LeaveGroupInv DEF GroupTimeout
<1>3. CASE UNCHANGED vars
  BY <1>3 DEF IInv, TypeOK, Places, LastToLeave, EverySignalTold, OwedIsThere, vars
<1> QED
  BY <1>1, <1>2, <1>3, SetFlagInv, SetGroupInv, ResetInv, GroupWaitInv, ResetReturnedInv,
     WaitInv, WaitReturnsInv, ReturnInv DEF Next

LEMMA Invariance == Spec => []IInv
BY InitInv, StepInv, PTL DEF Spec

-------------------------------------------------------------------------------

(***************************************************************************)
(* No thread stays blocked in CEventGroup::wait beside an event that is    *)
(* signaled unless the group knows it or is about to be told.              *)
(***************************************************************************)
THEOREM SignalsAreNotLost == Spec => []NoLostSignal
<1>1. IInv => NoLostSignal
  <2> SUFFICES ASSUME IInv, NEW t \in GroupWaiter, pc[t] = "blocked", Signaled # {}, signaled = NULL
               PROVE  \E s \in Setter : setting[s] # NULL /\ event[setting[s]].signaled
    BY DEF NoLostSignal
  <2>1. PICK i \in Signaled : events[i] \in Event /\ event[events[i]].signaled
    BY GroupAssumption DEF Signaled
  <2>2. gWaiters # {}
    BY DEF IInv, TypeOK
  <2>3. PICK s \in Setter : setting[s] = events[i]
    BY <2>1, <2>2 DEF IInv, EverySignalTold
  <2> QED
    BY <2>1, <2>3, GroupAssumption
<1> QED
  BY <1>1, Invariance, PTL

(***************************************************************************)
(* A thread that was blocked on an event when it was set has its wait end  *)
(* with the event, unless the event was Reset: other waiters of the event  *)
(* and the group's WaitMSec(0) leave the signal to those who are blocked.  *)
(***************************************************************************)
THEOREM WaitersAreReleased == Spec => WaitersReleased
<1> DEFINE Told == \A t \in owed : pc'[t] = "returned" => result'[t] = target[t]
<1>1. IInv /\ [Next]_vars => [Told]_vars
  <2> SUFFICES ASSUME IInv, Next, NEW t \in owed, pc'[t] = "returned"
               PROVE  result'[t] = target[t]
    OBVIOUS
  <2>1. /\ t \in EventWaiter /\ t \in Waiter /\ t \notin GroupWaiter
        /\ pc[t] = "blocked" /\ event[target[t]].signaled
    BY GroupAssumption DEF IInv, TypeOK, OwedIsThere, Waiter
  <2>2. pc \in [Waiter -> {"idle", "blocked", "leaving", "resetting", "returned"}]
        /\ result \in [Waiter -> Event \cup {NULL}]
    BY DEF IInv, TypeOK
  <2>3. WaitReturns(t)
    <3>1. \A u \in GroupWaiter :
            ~GroupWait(u) /\ ~GroupWake(u) /\ ~GroupTimeout(u) /\ ~ResetReturned(u) /\ ~ResetTimeout(u)
      BY <2>1, <2>2 DEF GroupWait, GroupWake, GroupTimeout, ResetReturned, ResetTimeout, LeaveGroup, Waiter
    <3>2. \A u \in EventWaiter : \A e \in Event : ~Wait(u, e)
      BY <2>1, <2>2 DEF Wait, Waiter
    <3>3. \A u \in Waiter : ~Return(u)
      BY <2>1, <2>2 DEF Return
    <3>4. \A u \in EventWaiter : WaitReturns(u) => u = t
      BY <2>1, <2>2 DEF WaitReturns, Waiter
    <3>5. \A s \in Setter : ~SetGroup(s) /\ \A e \in Event : ~SetFlag(s, e) /\ ~Reset(s, e)
      BY <2>1 DEF SetGroup, SetFlag, Reset
    <3> QED
      BY <3>1, <3>2, <3>3, <3>4, <3>5 DEF Next
  <2> QED
    BY <2>1, <2>2, <2>3 DEF WaitReturns
<1> QED
  BY <1>1, Invariance, PTL DEF Spec, WaitersReleased

===============================================================================
