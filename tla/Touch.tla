--------------------------------- MODULE Touch ---------------------------------
(***************************************************************************)
(* CGenericTouchInputHandler (input/touch/generic), which makes gestures   *)
(* of the touches of one or two fingers.  Its owner is the input thread,   *)
(* here that of Android (android/activity/AndroidTouch.cpp), and m_holdTimer *)
(* a Timer whose callback recognises a touch that was held.                *)
(*                                                                         *)
(* Everything happens under m_critical, which the input thread has from    *)
(* the beginning of HandleTouchInput to its end, also while it stops the   *)
(* timer; the steps in between are those of CTimer::Stop.  The timer       *)
(* thread has it for the one step that is OnTimeout.                       *)
(*                                                                         *)
(* A pointer is what the handler knows of the finger with that index: it   *)
(* is valid when `down' is, and moving when it has gone far enough.  The   *)
(* gesture detectors, coordinates and the calls of the action handler are  *)
(* left out.                                                               *)
(***************************************************************************)
EXTENDS Timer, Sequences

CONSTANT MaxFingers       \* 1 or 2 (TOUCH_MAX_POINTERS)

ASSUME TouchAssumption == MaxFingers \in {1, 2}

VARIABLES
  m_gestureState,
  valid, moving,          \* m_pointers: those with a valid `down', those with moving = true
  fingers,                \* the fingers on the screen, by their index + 1: whether each is far
                          \* from where the pointer with its index came down
  event                   \* the event that is handled

touchVars == <<m_gestureState, valid, moving>>
vars == <<timerVars, touchVars, fingers, event>>

Pointers == {0, 1}
Down(p) == [kind |-> "Down", pointer |-> p]
Up(p) == [kind |-> "Up", pointer |-> p]
Move(p) == [kind |-> "Move", pointer |-> p]
Abort == [kind |-> "Abort", pointer |-> 0]
Events == {Abort} \cup UNION {{Down(p), Up(p), Move(p)} : p \in Pointers}

Single == {"SingleTouch", "SingleTouchHold"}
Multi == {"MultiTouchStart", "MultiTouchHold", "MultiTouch"}
States == {"Unknown", "Pan", "MultiTouchDone"} \cup Single \cup Multi

Init ==
  /\ TimerInit
  /\ m_gestureState = "Unknown"
  /\ valid = {} /\ moving = {}
  /\ fingers = <<>>
  /\ event = Abort

-------------------------------------------------------------------------------
(* The screen *)

(***************************************************************************)
(* UpdateTouchPointer for every finger that the event is about.  A pointer *)
(* that is not valid is compared with (-1, -1), so it is moving.           *)
(***************************************************************************)
UpdatePointers(seen) ==
  moving' = moving \cup {p \in Pointers : p < Len(seen) /\ (p \notin valid \/ seen[p + 1])}

\* onTouchEvent: the pointers are updated, and the event is next.
OnTouchEvent(e, seen) ==
  /\ cpc = "idle" /\ cpc' = "event"
  /\ UpdatePointers(seen)
  /\ event' = e
  /\ UNCHANGED <<m_ThreadId, m_bStop, m_TermEvent, m_CriticalSection, tpc, ret, bWait, alive, history,
                 m_eventTimeout, m_gestureState, valid>>

\* A finger comes down and gets any index, as the identifiers are that Android
\* has free.  Those behind are compared with another pointer now (`far').
FingerDown(p, far) ==
  /\ Len(fingers) < MaxFingers /\ p <= Len(fingers)
  /\ fingers' = [i \in 1..(Len(fingers) + 1) |-> IF i <= p THEN fingers[i] ELSE i > p + 1 /\ i - 1 \in far]
  /\ OnTouchEvent(Down(p), fingers')

\* One is lifted; those behind it change their index.
FingerUp(p) ==
  /\ p < Len(fingers)
  /\ fingers' = SubSeq(fingers, 1, p) \o SubSeq(fingers, p + 2, Len(fingers))
  /\ OnTouchEvent(Up(p), fingers)

\* Fingers move: far (`far' is the set of those), or not to speak of.  The index is 0.
FingersMove(far) ==
  /\ fingers # <<>>
  /\ fingers' = [i \in DOMAIN fingers |-> fingers[i] \/ i - 1 \in far]
  /\ OnTouchEvent(Move(0), fingers')

\* The system takes the touch away.
TouchCancelled ==
  /\ fingers # <<>>
  /\ fingers' = <<>>
  /\ OnTouchEvent(Abort, fingers)

Screen ==
  \/ \E p \in Pointers, far \in SUBSET Pointers : FingerDown(p, far)
  \/ \E p \in Pointers : FingerUp(p)
  \/ \E far \in SUBSET Pointers : FingersMove(far)
  \/ TouchCancelled

-------------------------------------------------------------------------------
(* HandleTouchInput *)

Handle(kind) == cpc = "event" /\ event.kind = kind

\* Nothing but the pointers and the state changes, and HandleTouchInput returns.
Handled ==
  /\ cpc' = "idle"
  /\ UNCHANGED <<m_ThreadId, m_bStop, m_TermEvent, m_CriticalSection, tpc, ret, bWait, alive, history,
                 m_eventTimeout>>

\* The timer is started, if it is not running, and HandleTouchInput returns.
StartAndReturn ==
  /\ Start
  /\ cpc' = "idle"
  /\ UNCHANGED <<m_CriticalSection, ret, bWait, alive, m_eventTimeout>>

HandleAbort ==
  /\ Handle("Abort")
  /\ m_gestureState' = "Unknown"
  /\ valid' = {} /\ moving' = {}
  /\ Handled

\* The primary pointer: "we start by assuming that it's a single touch".
HandleFirstDown ==
  /\ Handle("Down") /\ event.pointer = 0
  /\ valid' = valid \cup {0} /\ moving' = moving \ {0}
  /\ m_gestureState' = "SingleTouch"
  /\ StartAndReturn

\* Another pointer counts when there may be a multi touch, and is ignored otherwise.
HandleSecondDown ==
  /\ Handle("Down") /\ event.pointer = 1
  /\ moving' = moving \ {1}
  /\ UNCHANGED m_gestureState
  /\ IF m_gestureState \in Single \cup {"MultiTouchDone"}
     THEN valid' = valid \cup {1} /\ Stop(TRUE, "down")
     ELSE valid' = valid \ {1} /\ Handled

\* After Stop(true).
SecondDown ==
  /\ cpc = "down"
  /\ m_gestureState' = "MultiTouchStart"
  /\ UNCHANGED <<valid, moving>>
  /\ IF m_gestureState \in Single
     THEN StartAndReturn
     ELSE /\ cpc' = "idle"
          /\ UNCHANGED <<m_ThreadId, m_bStop, m_TermEvent, m_CriticalSection, tpc, ret, bWait, alive,
                         history, m_eventTimeout>>

\* "unexpected event => abort"
Unexpected ==
  /\ cpc = "event"
  /\ event.kind \in {"Up", "Move"}
  /\ \/ event.pointer \notin valid
     \/ m_gestureState = "Unknown"
     \/ event.kind = "Move" /\ m_gestureState = "MultiTouchDone"
  /\ UNCHANGED touchVars
  /\ Handled

HandleUp ==
  /\ Handle("Up")
  /\ event.pointer \in valid /\ m_gestureState # "Unknown"
  /\ Stop(FALSE, "up")
  /\ UNCHANGED touchVars

\* Mutant: a finger that is left over does not become the primary one.
PointerUp_NoMove ==
  /\ cpc = "up"
  /\ m_gestureState' = IF m_gestureState \in Multi THEN "MultiTouchDone" ELSE "Unknown"
  /\ valid' = valid \ {event.pointer} /\ moving' = moving \ {event.pointer}
  /\ Handled

(***************************************************************************)
(* After Stop: of two pointers one is left, and will be the primary one;   *)
(* otherwise the gesture is over.                                          *)
(***************************************************************************)
PointerUp ==
  /\ cpc = "up"
  /\ IF m_gestureState \in Multi
     THEN /\ m_gestureState' = "MultiTouchDone"
          /\ IF event.pointer = 0
             THEN /\ valid' = {p \in Pointers : 1 \in valid}
                  /\ moving' = {p \in Pointers : 1 \in moving}
             ELSE UNCHANGED <<valid, moving>>
     ELSE /\ m_gestureState' = "Unknown"
          /\ valid' = valid \ {event.pointer}
          /\ moving' = moving \ {event.pointer}
  /\ Handled

\* The timer is stopped as soon as any pointer is moving.
HandleMove ==
  /\ Handle("Move")
  /\ event.pointer \in valid /\ m_gestureState \notin {"Unknown", "MultiTouchDone"}
  /\ UNCHANGED touchVars
  /\ IF moving \cap valid # {}
     THEN Stop(FALSE, "move")
     ELSE /\ cpc' = "move"
          /\ UNCHANGED <<m_ThreadId, m_bStop, m_TermEvent, m_CriticalSection, tpc, ret, bWait, alive,
                         history, m_eventTimeout>>

PointerMove ==
  /\ cpc = "move"
  /\ m_gestureState' =
       CASE m_gestureState = "SingleTouch" /\ event.pointer \in moving -> "Pan"
         [] m_gestureState = "MultiTouchStart" -> "MultiTouch"
         [] OTHER -> m_gestureState
  /\ UNCHANGED <<valid, moving>>
  /\ Handled

HandleTouchInput ==
  \/ HandleAbort \/ HandleFirstDown \/ HandleSecondDown \/ HandleUp \/ HandleMove \/ Unexpected
  \/ SecondDown \/ PointerUp \/ PointerMove
  \/ TimerStopping /\ UNCHANGED <<touchVars, event>>

-------------------------------------------------------------------------------
(* OnTimeout *)

m_criticalFree == cpc \in {"idle", "event"}

\* A touch that was held is recognised, of one finger or of two.
OnTimeout(t) ==
  /\ m_criticalFree
  /\ Go(t, "fire", "fired")
  /\ m_gestureState' =
       CASE m_gestureState = "SingleTouch" -> "SingleTouchHold"
         [] m_gestureState = "MultiTouchStart" /\ moving = {} -> "MultiTouchHold"
         [] OTHER -> m_gestureState
  /\ UNCHANGED <<threadRest, m_eventTimeout, valid, moving, fingers, event>>

TouchNext ==
  \/ Screen
  \/ HandleTouchInput /\ UNCHANGED <<fingers, event>>
  \/ \E t \in Threads : OnTimeout(t)
  \/ TimerThread /\ UNCHANGED <<touchVars, fingers, event>>

(***************************************************************************)
(* Fairness: the input thread goes on with an event, the timer's thread    *)
(* runs, a time limit expires.  Fingers do what they like.                 *)
(***************************************************************************)
TouchFairness ==
  /\ WF_vars(HandleTouchInput /\ UNCHANGED <<fingers, event>>)
  /\ \A t \in Threads : WF_vars(OnTimeout(t))
  /\ WF_vars(TimerThread /\ UNCHANGED <<touchVars, fingers, event>>)

TouchSpec == Init /\ [][TouchNext]_vars /\ TouchFairness

-------------------------------------------------------------------------------
(* Properties *)

\* Every variable has its type.
TouchTypeOK ==
  /\ m_gestureState \in States
  /\ valid \subseteq Pointers /\ moving \subseteq Pointers
  /\ Len(fingers) <= MaxFingers /\ \A i \in DOMAIN fingers : fingers[i] \in BOOLEAN
  /\ event \in Events
  /\ m_eventTimeout \in BOOLEAN /\ alive
  /\ m_CriticalSection \in Threads \cup {None}
  /\ tpc \in [Threads -> timerPlaces]
  /\ cpc \in {"idle", "event", "down", "up", "move", "flag", "stop", "wait"}

(***************************************************************************)
(* Between two events the state of the gesture says how many fingers there *)
(* are, as GenericTouchInputHandler.h:73-90 has it, and the pointers it is *)
(* about are valid; whatever order the fingers came and were lifted in,    *)
(* with the touch held meanwhile or a second finger ignored.               *)
(***************************************************************************)
StateMeansFingers ==
  cpc = "idle" =>
    /\ m_gestureState \in Single \cup {"Pan"} => 0 \in valid /\ fingers # <<>>
    /\ m_gestureState \in Multi => valid = Pointers /\ Len(fingers) = 2
    /\ m_gestureState = "MultiTouchDone" => 0 \in valid /\ Len(fingers) = 1

(***************************************************************************)
(* HandleTouchInput answers (ITouchInputHandler.h: "True if the event was  *)
(* handled otherwise false"): the input thread is never stuck in it.       *)
(***************************************************************************)
HandleReturns == (cpc # "idle") ~> (cpc = "idle")

===============================================================================
