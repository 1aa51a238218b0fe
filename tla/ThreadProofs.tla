------------------------------ MODULE ThreadProofs ------------------------------
(***************************************************************************)
(* The safety invariants of Thread, and then those of Touch, whose timer   *)
(* runs on such a thread, for any set of threads.  For Thread, three facts *)
(* make them inductive: a thread that has still to set m_TermEvent while   *)
(* another is in Process was overtaken by a Create (`early'), m_TermEvent  *)
(* is set only after the end of Process, and the destructors have waited   *)
(* once when they stop the thread for the second time.                     *)
(***************************************************************************)
EXTENDS Touch, SequenceTheorems, TLAPS

USE DEF history

\* Only a Create that came early meets a thread that will set m_TermEvent.
Overtaken == m_ThreadId /\ (\E t \in Threads : tpc[t] = "term") => early

\* m_TermEvent says that the thread m_ThreadId was about is over.
TermIsOver == m_TermEvent /\ ~early => ~m_ThreadId

(***************************************************************************)
(* ~CThread comes after a StopThread(true) has returned, so that its own   *)
(* finds no thread in Process and waits only for m_CriticalSection.        *)
(***************************************************************************)
Destructors ==
  /\ cpc \in {"stop", "wait"} /\ ret # "idle" => bWait
  /\ cpc = "destructor" \/ (cpc \in {"stop", "wait"} /\ ret = "free") => waited
  /\ cpc = "wait" /\ ret = "free" => early
  /\ cpc = "free" => early \/ \A t \in Threads : tpc[t] = "none"

IInv ==
  /\ TypeOK
  /\ OneProcess
  /\ Overtaken
  /\ TermIsOver
  /\ StopWaits
  /\ Destructors
  /\ NoUseAfterFree

-------------------------------------------------------------------------------

\* At first there is a CThread and no thread.
LEMMA InitInv == ThreadInit => IInv
BY ThreadAssumption DEF ThreadInit, IInv, TypeOK, OneProcess, InProcess, Overtaken, TermIsOver, StopWaits,
       Destructors, NoUseAfterFree

\* A thread that returns from Process has still to end.
LEMMA ProcessReturnsInv ==
  ASSUME IInv, NEW t \in Threads, ProcessReturns(t)
  PROVE  IInv'
<1>1. TypeOK' /\ \A u \in Threads : InProcess(u)' <=> InProcess(u)
  BY DEF IInv, TypeOK, InProcess, ProcessReturns
<1>2. OneProcess' /\ StopWaits'
  BY <1>1 DEF IInv, TypeOK, OneProcess, StopWaits, ProcessReturns
<1>3. Overtaken' /\ TermIsOver'
  BY DEF IInv, TypeOK, Overtaken, TermIsOver, ProcessReturns
<1>4. Destructors' /\ NoUseAfterFree'
  BY DEF IInv, TypeOK, Destructors, NoUseAfterFree, ProcessReturns
<1> QED
  BY <1>1, <1>2, <1>3, <1>4 DEF IInv

\* m_ThreadId = 0 is right: the thread that ends was the only one in Process.
LEMMA EndThreadInv ==
  ASSUME IInv, NEW t \in Threads, EndThread(t)
  PROVE  IInv'
<1>1. TypeOK'
  BY ThreadAssumption DEF IInv, TypeOK, EndThread
<1>2. \A u \in Threads : ~InProcess(u)'
  BY DEF IInv, TypeOK, OneProcess, InProcess, EndThread
<1>3. OneProcess' /\ StopWaits'
  BY <1>2 DEF IInv, TypeOK, OneProcess, StopWaits, EndThread
<1>4. Overtaken' /\ TermIsOver'
  BY DEF IInv, TypeOK, Overtaken, TermIsOver, EndThread
<1>5. Destructors' /\ NoUseAfterFree'
  BY DEF IInv, TypeOK, Destructors, NoUseAfterFree, EndThread
<1> QED
  BY <1>1, <1>3, <1>4, <1>5 DEF IInv

\* Whoever sets m_TermEvent has no other thread in Process, unless overtaken.
LEMMA SetTermEventInv ==
  ASSUME IInv, NEW t \in Threads, SetTermEvent(t)
  PROVE  IInv'
<1>1. TypeOK' /\ \A u \in Threads : InProcess(u)' <=> InProcess(u)
  BY ThreadAssumption DEF IInv, TypeOK, InProcess, SetTermEvent
<1>2. OneProcess' /\ StopWaits'
  BY <1>1 DEF IInv, TypeOK, OneProcess, StopWaits, SetTermEvent
<1>3. Overtaken' /\ TermIsOver'
  BY DEF IInv, TypeOK, Overtaken, TermIsOver, SetTermEvent
<1>4. Destructors' /\ NoUseAfterFree'
  BY DEF IInv, TypeOK, Destructors, NoUseAfterFree, SetTermEvent
<1> QED
  BY <1>1, <1>2, <1>3, <1>4 DEF IInv

\* The last step of a thread gives m_CriticalSection back.
LEMMA LeaveThreadInv ==
  ASSUME IInv, NEW t \in Threads, LeaveThread(t)
  PROVE  IInv'
<1>1. m_CriticalSection = t
  BY DEF IInv, TypeOK, LeaveThread
<1>2. TypeOK' /\ \A u \in Threads : InProcess(u)' <=> InProcess(u)
  BY <1>1, ThreadAssumption DEF IInv, TypeOK, InProcess, LeaveThread
<1>3. OneProcess' /\ StopWaits'
  BY <1>2 DEF IInv, TypeOK, OneProcess, StopWaits, LeaveThread
<1>4. Overtaken' /\ TermIsOver'
  BY DEF IInv, TypeOK, Overtaken, TermIsOver, LeaveThread
<1>5. Destructors' /\ NoUseAfterFree'
  BY DEF IInv, TypeOK, Destructors, NoUseAfterFree, LeaveThread
<1> QED
  BY <1>2, <1>3, <1>4, <1>5 DEF IInv

\* The new thread is the only one in Process.
LEMMA CreateThreadInv ==
  ASSUME IInv, CreateThread
  PROVE  IInv'
<1>1. PICK t \in Threads : tpc[t] = "none" /\ tpc' = [tpc EXCEPT ![t] = "process"]
  BY DEF CreateThread, Create
<1> USE DEF CreateThread, Create, IsRunning
<1>2. TypeOK'
  BY <1>1, ThreadAssumption DEF IInv, TypeOK
<1>3. \A u \in Threads : InProcess(u)' <=> u = t
  BY <1>1 DEF IInv, TypeOK, OneProcess, InProcess
<1>4. OneProcess' /\ StopWaits'
  BY <1>3 DEF IInv, OneProcess, StopWaits
<1>5. Overtaken' /\ TermIsOver'
  BY <1>1 DEF IInv, TypeOK, Overtaken, TermIsOver
<1>6. Destructors' /\ NoUseAfterFree'
  BY DEF IInv, TypeOK, Destructors, NoUseAfterFree
<1> QED
  BY <1>2, <1>4, <1>5, <1>6 DEF IInv

-------------------------------------------------------------------------------
(* The owner's stops *)

\* What no step of the owner but Create and NewThread touches.
LEMMA Unchanged ==
  ASSUME IInv, UNCHANGED <<m_ThreadId, m_TermEvent, m_CriticalSection, tpc, early>>
  PROVE  /\ OneProcess' /\ Overtaken' /\ TermIsOver'
         /\ \A t \in Threads : InProcess(t)' <=> InProcess(t)
BY DEF IInv, OneProcess, InProcess, Overtaken, TermIsOver

\* A StopThread that begins, for the owner or one of the two destructors.
LEMMA StopThreadInv ==
  ASSUME IInv, StopIdle \/ Delete \/ BaseDestructor
  PROVE  IInv'
<1>1. PICK wait \in BOOLEAN, next \in {"idle", "destructor", "free"} :
        /\ StopThread(wait, next)
        /\ next # "idle" => wait
        /\ next = "free" => cpc = "destructor"
  BY DEF StopIdle, Delete, BaseDestructor
<1>2. TypeOK'
  BY <1>1 DEF IInv, TypeOK, StopThread
<1>3. OneProcess' /\ Overtaken' /\ TermIsOver' /\ StopWaits'
  BY <1>1, Unchanged DEF IInv, StopWaits, StopThread
<1>4. Destructors' /\ NoUseAfterFree'
  BY <1>1 DEF IInv, Destructors, NoUseAfterFree, StopThread
<1> QED
  BY <1>2, <1>3, <1>4 DEF IInv

\* With the lock: a thread that has to be waited for is waited for.
LEMMA TestThreadIdInv ==
  ASSUME IInv, TestThreadId
  PROVE  IInv'
<1> USE DEF TestThreadId, StopReturns
<1>1. TypeOK'
  BY DEF IInv, TypeOK
<1>2. OneProcess' /\ Overtaken' /\ TermIsOver' /\ \A t \in Threads : InProcess(t)' <=> InProcess(t)
  BY Unchanged
<1>3. m_ThreadId \/ \A t \in Threads : tpc[t] = "none"
  BY ThreadAssumption DEF IInv, TypeOK, OneProcess, InProcess
<1>4. StopWaits'
  BY <1>2 DEF IInv, TypeOK, StopWaits, OneProcess
<1>5. Destructors'
  BY <1>3 DEF IInv, TypeOK, Destructors, StopWaits, OneProcess
<1>6. NoUseAfterFree'
  BY DEF IInv, NoUseAfterFree
<1> QED
  BY <1>1, <1>2, <1>4, <1>5, <1>6 DEF IInv

\* m_TermEvent is set: the thread is over, if the event is not an older thread's.
LEMMA ThreadExitedInv ==
  ASSUME IInv, ThreadExited
  PROVE  IInv'
<1> USE DEF ThreadExited, StopReturns
<1>1. TypeOK'
  BY DEF IInv, TypeOK
<1>2. OneProcess' /\ Overtaken' /\ TermIsOver' /\ \A t \in Threads : InProcess(t)' <=> InProcess(t)
  BY Unchanged
<1>3. StopWaits'
  BY <1>2 DEF IInv, TypeOK, StopWaits, OneProcess, TermIsOver
<1>4. Destructors' /\ NoUseAfterFree'
  BY DEF IInv, TypeOK, Destructors, NoUseAfterFree
<1> QED
  BY <1>1, <1>2, <1>3, <1>4 DEF IInv

\* The CThread is freed, and another made when nothing is left of it.
LEMMA FreeThreadInv ==
  ASSUME IInv, FreeThread \/ NewThread
  PROVE  IInv'
<1>1. CASE FreeThread
  <2> USE <1>1 DEF FreeThread
  <2>1. TypeOK'
    BY DEF IInv, TypeOK
  <2>2. OneProcess' /\ Overtaken' /\ TermIsOver' /\ StopWaits'
    BY Unchanged DEF IInv, StopWaits
  <2>3. Destructors' /\ NoUseAfterFree'
    BY DEF IInv, Destructors, NoUseAfterFree
  <2> QED
    BY <2>1, <2>2, <2>3 DEF IInv
<1>2. CASE NewThread
  <2> USE <1>2 DEF NewThread
  <2>1. TypeOK'
    BY DEF IInv, TypeOK
  <2>2. OneProcess' /\ Overtaken' /\ TermIsOver' /\ StopWaits'
    BY DEF IInv, OneProcess, InProcess, Overtaken, TermIsOver, StopWaits
  <2>3. Destructors' /\ NoUseAfterFree'
    BY DEF IInv, Destructors, NoUseAfterFree
  <2> QED
    BY <2>1, <2>2, <2>3 DEF IInv
<1> QED
  BY <1>1, <1>2

\* Every step keeps the invariant.
LEMMA NextInv == IInv /\ [Next]_threadVars => IInv'
<1> SUFFICES ASSUME IInv, [Next]_threadVars PROVE IInv'
  OBVIOUS
<1>1. CASE UNCHANGED threadVars
  BY <1>1 DEF threadVars, IInv, TypeOK, OneProcess, InProcess, Overtaken, TermIsOver, StopWaits,
              Destructors, NoUseAfterFree
<1>2. CASE \E t \in Threads : ProcessReturns(t)
  BY <1>2, ProcessReturnsInv
<1>3. CASE ThreadEnds
  BY <1>3, EndThreadInv, SetTermEventInv, LeaveThreadInv DEF ThreadEnds
<1>4. CASE Stopping
  BY <1>4, TestThreadIdInv, ThreadExitedInv DEF Stopping
<1>5. CASE CreateThread \/ StopIdle \/ Delete \/ BaseDestructor \/ FreeThread \/ NewThread
  BY <1>5, CreateThreadInv, StopThreadInv, FreeThreadInv
<1> QED
  BY <1>1, <1>2, <1>3, <1>4, <1>5 DEF Next

\* The inductive invariant of Thread.
LEMMA Invariant == Spec => []IInv
BY InitInv, NextInv, PTL DEF Spec

-------------------------------------------------------------------------------

(***************************************************************************)
(* However often a CThread is created and stopped, at most one thread is   *)
(* in Process, and m_ThreadId says whether one is.                         *)
(***************************************************************************)
THEOREM OneThreadInProcess == Spec => []OneProcess
BY Invariant, PTL DEF IInv

(***************************************************************************)
(* When StopThread(true) has returned the thread is out of Process, unless *)
(* it was created between m_ThreadId = 0 and m_TermEvent.Set() of the one  *)
(* before.                                                                 *)
(***************************************************************************)
THEOREM StopHasWaited == Spec => []StopWaits
BY Invariant, PTL DEF IInv

(***************************************************************************)
(* No thread uses the CThread after its destructors have run.              *)
(***************************************************************************)
THEOREM FreedAfterTheEnd == Spec => []NoUseAfterFree
BY Invariant, PTL DEF IInv

-------------------------------------------------------------------------------
(***************************************************************************)
(* Touch, whose timer runs on such a thread, for any set of threads.  What *)
(* the state of the gesture means is true between two events only; the     *)
(* inductive invariant says what is known of the event that is handled,    *)
(* also while HandleTouchInput is in the middle of CTimer::Stop, which it  *)
(* calls with m_critical, so that OnTimeout stays outside.                 *)
(***************************************************************************)

\* What the state of the gesture says when n fingers are on the screen.
Means(n) ==
  /\ n = 0 => m_gestureState = "Unknown"
  /\ m_gestureState \in Single \cup {"Pan"} => 0 \in valid
  /\ m_gestureState \in Multi => valid = Pointers /\ n = 2
  /\ m_gestureState = "MultiTouchDone" => 0 \in valid /\ n = 1

\* Inside of CTimer::Stop the place of HandleTouchInput is the one it returns to.
Place == IF cpc \in {"flag", "stop", "wait"} THEN ret ELSE cpc

Types ==
  /\ m_gestureState \in States
  /\ valid \subseteq Pointers
  /\ fingers \in Seq(BOOLEAN) /\ Len(fingers) <= MaxFingers
  /\ event \in Events
  /\ Place \in {"idle", "event", "up", "move", "down"}

\* The fingers have changed already, the state has not: it means those before the event.
Handling ==
  /\ Place = "idle" => Means(Len(fingers))
  /\ Place = "event" /\ event.kind = "Abort" => Len(fingers) = 0
  /\ Place = "event" /\ event.kind = "Down" =>
       event.pointer < Len(fingers) /\ Means(Len(fingers) - 1)
  /\ Place = "up" \/ (Place = "event" /\ event.kind = "Up") =>
       event.pointer <= Len(fingers) /\ Means(Len(fingers) + 1)
  /\ Place = "move" \/ (Place = "event" /\ event.kind = "Move") =>
       Len(fingers) # 0 /\ Means(Len(fingers))
  /\ Place = "down" => Len(fingers) = 2 /\ valid = Pointers

TouchInv == Types /\ Handling

-------------------------------------------------------------------------------

\* An event has a kind and the index of a finger.
LEMMA EventIs ==
  /\ \A p \in Pointers : /\ Down(p) \in Events /\ Down(p).kind = "Down" /\ Down(p).pointer = p
                         /\ Up(p) \in Events /\ Up(p).kind = "Up" /\ Up(p).pointer = p
                         /\ Move(p) \in Events /\ Move(p).kind = "Move" /\ Move(p).pointer = p
  /\ Abort \in Events /\ Abort.kind = "Abort"
  /\ \A e \in Events : e.kind \in {"Down", "Up", "Move", "Abort"} /\ e.pointer \in {0, 1}
BY DEF Events, Down, Up, Move, Abort, Pointers

\* How many fingers there can be.
LEMMA OneOrTwo ==
  ASSUME NEW n \in Nat
  PROVE  (n < 2 => n \in {0, 1}) /\ (n + 1 = 2 => n = 1) /\ (1 < n /\ n <= 2 => n = 2 /\ n - 1 = 1)
OBVIOUS

LEMMA TouchInitInv == Init => TouchInv
BY EventIs, TouchAssumption DEF Init, TimerInit, ThreadInit, TouchInv, Types, Handling, Means, Place,
   States, Single, Multi, Pointers

\* The screen changes and the event is next: the state means the fingers before it.
LEMMA ScreenInv == TouchInv /\ Screen => TouchInv'
<1> SUFFICES ASSUME TouchInv, Screen
             PROVE  TouchInv'
  OBVIOUS
<1>1. /\ cpc = "idle" /\ cpc' = "event" /\ Place = "idle" /\ Place' = "event"
      /\ UNCHANGED <<m_gestureState, valid>>
  BY DEF Place, Screen, FingerDown, FingerUp, FingersMove, TouchCancelled, OnTouchEvent
<1>2. \A n : Means(n)' <=> Means(n)
  BY <1>1 DEF Means
<1>3. /\ Means(Len(fingers)) /\ fingers \in Seq(BOOLEAN) /\ Len(fingers) \in Nat
      /\ Len(fingers) <= MaxFingers /\ MaxFingers \in Nat
      /\ m_gestureState \in States /\ valid \subseteq Pointers
  BY <1>1, TouchAssumption DEF TouchInv, Types, Handling
<1>4. CASE \E p \in Pointers, far \in SUBSET Pointers : FingerDown(p, far)
  <2>1. PICK p \in Pointers, far \in SUBSET Pointers : FingerDown(p, far)
    BY <1>4
  <2> DEFINE n == Len(fingers)
  <2>2. /\ n < MaxFingers /\ p <= n /\ event' = Down(p)
        /\ fingers' = [i \in 1..(n + 1) |-> IF i <= p THEN fingers[i] ELSE i > p + 1 /\ i - 1 \in far]
    BY <2>1 DEF FingerDown, OnTouchEvent
  <2>3. p \in Nat /\ n \in Nat
    BY <1>3 DEF Pointers
  <2>4. \A i \in 1..(n + 1) :
          (IF i <= p THEN fingers[i] ELSE i > p + 1 /\ i - 1 \in far) \in BOOLEAN
    <3> SUFFICES ASSUME NEW i \in 1..(n + 1), i <= p
                 PROVE  fingers[i] \in BOOLEAN
      OBVIOUS
    <3>1. i \in 1..Len(fingers)
      BY <2>2, <2>3
    <3> QED
      BY <1>3, <3>1
  <2>5. fingers' \in [1..(n + 1) -> BOOLEAN]
    BY <2>2, <2>4
  <2>6. fingers' \in Seq(BOOLEAN) /\ Len(fingers') = n + 1
    BY <2>3, <2>5
  <2>7. event' \in Events /\ event'.kind = "Down" /\ event'.pointer = p
    BY <2>2, EventIs
  <2>8. Len(fingers') - 1 = Len(fingers) /\ p < Len(fingers') /\ Len(fingers') <= MaxFingers
    BY <1>3, <2>2, <2>3, <2>6
  <2> QED
    BY <1>1, <1>2, <1>3, <2>6, <2>7, <2>8 DEF TouchInv, Types, Handling
<1>5. CASE \E p \in Pointers : FingerUp(p)
  <2>1. PICK p \in Pointers : FingerUp(p)
    BY <1>5
  <2> DEFINE before == SubSeq(fingers, 1, p)
             behind == SubSeq(fingers, p + 2, Len(fingers))
  <2>2. p < Len(fingers) /\ event' = Up(p) /\ fingers' = before \o behind
    BY <2>1 DEF FingerUp, OnTouchEvent
  <2>3. p \in Nat
    BY DEF Pointers
  <2>4. /\ before \in Seq(BOOLEAN) /\ Len(before) = p
        /\ behind \in Seq(BOOLEAN) /\ Len(behind) = Len(fingers) - (p + 1)
    BY <1>3, <2>2, <2>3
  <2> HIDE DEF before, behind
  <2>5. fingers' \in Seq(BOOLEAN) /\ Len(fingers') = Len(before) + Len(behind)
    BY <2>2, <2>4, ConcatProperties
  <2>6. event' \in Events /\ event'.kind = "Up" /\ event'.pointer = p
    BY <2>2, EventIs
  <2>7. Len(fingers') + 1 = Len(fingers) /\ p <= Len(fingers') /\ Len(fingers') <= MaxFingers
    BY <1>3, <2>2, <2>3, <2>4, <2>5
  <2> QED
    BY <1>1, <1>2, <1>3, <2>5, <2>6, <2>7 DEF TouchInv, Types, Handling
<1>6. CASE \E far \in SUBSET Pointers : FingersMove(far)
  <2>1. PICK far \in SUBSET Pointers : FingersMove(far)
    BY <1>6
  <2>2. /\ fingers # <<>> /\ event' = Move(0)
        /\ fingers' = [i \in DOMAIN fingers |-> fingers[i] \/ i - 1 \in far]
    BY <2>1 DEF FingersMove, OnTouchEvent
  <2>3. DOMAIN fingers = 1 .. Len(fingers)
    BY <1>3
  <2>4. \A i \in 1 .. Len(fingers) : (fingers[i] \/ i - 1 \in far) \in BOOLEAN
    OBVIOUS
  <2>5. fingers' \in [1 .. Len(fingers) -> BOOLEAN] /\ Len(fingers) # 0
    BY <1>3, <2>2, <2>3, <2>4
  <2>6. fingers' \in Seq(BOOLEAN) /\ Len(fingers') = Len(fingers)
    BY <1>3, <2>5
  <2>7. event' \in Events /\ event'.kind = "Move"
    BY <2>2, EventIs DEF Pointers
  <2> QED
    BY <1>1, <1>2, <1>3, <2>5, <2>6, <2>7 DEF TouchInv, Types, Handling
<1>7. CASE TouchCancelled
  <2>1. fingers' = <<>> /\ event' = Abort
    BY <1>7 DEF TouchCancelled, OnTouchEvent
  <2>2. fingers' \in Seq(BOOLEAN) /\ Len(fingers') = 0 /\ event' \in Events /\ event'.kind = "Abort"
    BY <2>1, EventIs
  <2> QED
    BY <1>1, <1>3, <2>2 DEF TouchInv, Types, Handling
<1> QED
  BY <1>4, <1>5, <1>6, <1>7 DEF Screen

\* The end of a call of CTimer::Stop is known from its beginning.
LEMMA StoppingInv ==
  ASSUME TouchInv, TimerStopping, UNCHANGED <<touchVars, fingers, event>>
  PROVE  TouchInv'
<1>1. cpc \in {"flag", "stop", "wait"} /\ Place' = Place
  BY DEF Place, TouchInv, Types, TimerStopping, SetStop, StopThread, Stopping, TestThreadId,
         ThreadExited, StopReturns
<1> QED
  BY <1>1 DEF touchVars, TouchInv, Types, Handling, Means

\* A step of HandleTouchInput other than those inside of CTimer::Stop.
LEMMA HandleInv ==
  ASSUME TouchInv, UNCHANGED <<fingers, event>>,
         \/ HandleAbort \/ HandleFirstDown \/ HandleSecondDown \/ HandleUp \/ HandleMove
         \/ Unexpected \/ SecondDown \/ PointerUp \/ PointerMove
  PROVE  TouchInv'
<1> USE DEF TouchInv, Types, Handling, Means, Place, Handle, Handled, Pointers, States, Single, Multi
<1>1. event.kind \in {"Down", "Up", "Move", "Abort"} /\ event.pointer \in {0, 1}
        /\ Len(fingers) \in Nat
  BY EventIs
<1>2. CASE HandleAbort
  BY <1>1, <1>2 DEF HandleAbort
<1>3. CASE HandleFirstDown
  BY <1>1, <1>3 DEF HandleFirstDown, StartAndReturn
<1>4. CASE HandleSecondDown
  <2>1. event.pointer = 1 /\ Len(fingers) = 2 /\ Means(1)
    <3>1. event.pointer = 1 /\ 1 < Len(fingers) /\ Len(fingers) <= MaxFingers /\ Means(Len(fingers) - 1)
      BY <1>4 DEF HandleSecondDown
    <3>2. Len(fingers) <= 2
      BY <1>1, <3>1, TouchAssumption
    <3>3. Len(fingers) = 2 /\ Len(fingers) - 1 = 1
      BY <1>1, <3>1, <3>2, OneOrTwo
    <3> QED
      BY <3>1, <3>3
  <2>2. CASE m_gestureState \in Single \cup {"MultiTouchDone"}
    <3>1. valid' = Pointers /\ Place' = "down" /\ m_gestureState' = m_gestureState
      BY <1>4, <2>1, <2>2 DEF HandleSecondDown, Stop
    <3> QED
      BY <2>1, <3>1
  <2>3. CASE m_gestureState \notin Single \cup {"MultiTouchDone"}
    <3>1. valid' = valid \ {1} /\ Place' = "idle" /\ m_gestureState' = m_gestureState
            /\ m_gestureState \in {"Unknown", "Pan"}
      BY <1>4, <2>1, <2>3 DEF HandleSecondDown
    <3> QED
      BY <2>1, <3>1
  <2> QED
    BY <2>2, <2>3
<1>5. CASE HandleUp
  BY <1>1, <1>5 DEF HandleUp, Stop, touchVars
<1>6. CASE HandleMove
  BY <1>1, <1>6 DEF HandleMove, Stop, touchVars
<1>7. CASE Unexpected
  BY <1>1, <1>7 DEF Unexpected, touchVars
<1>8. CASE SecondDown
  <2>1. Place = "down" /\ Place' = "idle" /\ valid' = valid /\ m_gestureState' = "MultiTouchStart"
    BY <1>8 DEF SecondDown, StartAndReturn
  <2> QED
    BY <2>1
<1>9. CASE PointerUp
  <2>1. event.pointer <= Len(fingers) /\ Means(Len(fingers) + 1) /\ Place' = "idle"
    BY <1>9 DEF PointerUp
  <2>2. CASE m_gestureState \in Multi
    <3>1. Len(fingers) + 1 = 2 /\ valid = Pointers
      BY <2>1, <2>2
    <3>2. valid' = Pointers /\ m_gestureState' = "MultiTouchDone"
      BY <1>9, <2>2, <3>1 DEF PointerUp
    <3>3. Len(fingers) = 1
      BY <1>1, <3>1, OneOrTwo
    <3> QED
      BY <2>1, <3>2, <3>3
  <2>3. CASE m_gestureState \notin Multi
    <3>1. valid' \subseteq valid /\ m_gestureState' = "Unknown"
      BY <1>9, <2>3 DEF PointerUp
    <3> QED
      BY <2>1, <3>1
  <2> QED
    BY <2>2, <2>3
<1>10. CASE PointerMove
  BY <1>1, <1>10 DEF PointerMove
<1> QED
  BY <1>2, <1>3, <1>4, <1>5, <1>6, <1>7, <1>8, <1>9, <1>10

\* A touch that was held is still a touch of the same fingers.
LEMMA OnTimeoutInv ==
  ASSUME TouchInv, NEW t \in Threads, OnTimeout(t)
  PROVE  TouchInv'
<1>1. UNCHANGED <<cpc, ret, valid, fingers, event>>
  BY DEF OnTimeout, threadRest
<1>2. \/ m_gestureState' = m_gestureState
      \/ m_gestureState = "SingleTouch" /\ m_gestureState' = "SingleTouchHold"
      \/ m_gestureState = "MultiTouchStart" /\ m_gestureState' = "MultiTouchHold"
  BY DEF OnTimeout
<1>3. \A n : Means(n) => Means(n)'
  BY <1>1, <1>2 DEF Means, Single, Multi
<1>4. m_gestureState' \in States /\ Place' = Place
  BY <1>1, <1>2 DEF TouchInv, Types, States, Single, Multi, Place
<1> QED
  BY <1>1, <1>3, <1>4 DEF TouchInv, Types, Handling

LEMMA TouchNextInv == TouchInv /\ [TouchNext]_vars => TouchInv'
<1> SUFFICES ASSUME TouchInv, [TouchNext]_vars
             PROVE  TouchInv'
  OBVIOUS
<1>1. CASE UNCHANGED vars \/ (TimerThread /\ UNCHANGED <<touchVars, fingers, event>>)
  <2>1. UNCHANGED <<cpc, ret, touchVars, fingers, event>>
    BY <1>1 DEF vars, timerVars, threadVars, TimerThread, Process, TestStop, WaitInterrupted,
                TimeoutExpires, TimeoutReturns, ThreadEnds, EndThread, SetTermEvent, LeaveThread,
                threadRest
  <2> QED
    BY <2>1 DEF touchVars, TouchInv, Types, Handling, Means, Place
<1>2. CASE Screen
  BY <1>2, ScreenInv
<1>3. CASE HandleTouchInput /\ UNCHANGED <<fingers, event>>
  BY <1>3, StoppingInv, HandleInv DEF HandleTouchInput
<1>4. CASE \E t \in Threads : OnTimeout(t)
  BY <1>4, OnTimeoutInv
<1> QED
  BY <1>1, <1>2, <1>3, <1>4 DEF TouchNext

\* The inductive invariant of Touch.
LEMMA TouchInvariant == TouchSpec => []TouchInv
BY TouchInitInv, TouchNextInv, PTL DEF TouchSpec

-------------------------------------------------------------------------------

(***************************************************************************)
(* Between two events the state of the gesture names the fingers there are *)
(* and their pointers are valid (GenericTouchInputHandler.h:73-90).        *)
(***************************************************************************)
THEOREM StateNamesFingers == TouchSpec => []StateMeansFingers
<1>1. TouchInv => StateMeansFingers
  BY DEF TouchInv, Types, Handling, Means, Place, StateMeansFingers, Single, Multi
<1> QED
  BY <1>1, TouchInvariant, PTL

===============================================================================
