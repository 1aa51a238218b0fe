----------------------------- MODULE ActorProtocol -----------------------------
(***************************************************************************)
(* Actor::Protocol and Actor::Message (utils/ActorProtocol.cpp), between   *)
(* threads that send to an actor and the actor, whose loop and disposal    *)
(* are those of CActiveAESink (cores/AudioEngine/Engines/ActiveAE/         *)
(* ActiveAESink.cpp); CActiveAE, VDPAU and VAAPI have the same.            *)
(*                                                                         *)
(* Messages go round: freeMessages stands for freeMessageQueue.  A         *)
(* synchronous message is released twice, by its sender and by the actor,  *)
(* and freed by whoever comes second.                                      *)
(*                                                                         *)
(* Which of the free messages is at the head of their queue is left open,  *)
(* and a message that was never allocated is as good as a free one.  What  *)
(* a message holds while it is free is not looked at.  One that no queue   *)
(* holds yet belongs to its thread alone: GetMessage, filling it and       *)
(* pushing it are one step.                                                *)
(* containerOutEvent has one thread that waits for it and so is a flag.    *)
(***************************************************************************)
EXTENDS Integers, Sequences, SequencesExt

CONSTANTS
  Senders,      \* the threads that send messages to the actor
  Messages,     \* the messages; a bound on how many there are at once
  None          \* NULL, and the actor as a sender

ASSUME ActorAssumption == None \notin Messages \cup Senders

VARIABLES
  msgs,                                        \* the messages
  outMessages, inMessages, freeMessages,
  containerOutEvent, m_bStop,
  pc, msg, retMsg,                             \* per sender: place, message sent, message received
  apc, amsg,                                   \* the actor's place and message
  dpc,                                         \* the place in Dispose, or "no"
  dropped                                      \* history: messages nobody will release any more

queues == <<outMessages, inMessages>>
senderVars == <<pc, msg, retMsg>>
actorVars == <<apc, amsg>>
vars == <<msgs, freeMessages, queues, containerOutEvent, m_bStop, senderVars, actorVars, dpc, dropped>>

\* from: the sender, or None for the actor; answers: the message this is the reply to.
Message(from, sync, answers) ==
  [from |-> from, isSync |-> sync, isSyncFini |-> FALSE, isSyncTimeout |-> FALSE,
   event |-> FALSE, replyMessage |-> None, answers |-> answers]

Blank == Message(None, FALSE, None)

Init ==
  /\ msgs = [m \in Messages |-> Blank]
  /\ outMessages = <<>> /\ inMessages = <<>> /\ freeMessages = Messages
  /\ containerOutEvent = FALSE /\ m_bStop = FALSE
  /\ pc = [s \in Senders |-> "idle"]
  /\ msg = [s \in Senders |-> None] /\ retMsg = [s \in Senders |-> None]
  /\ apc = "loop" /\ amsg = None
  /\ dpc = "no"
  /\ dropped = {}

-------------------------------------------------------------------------------
(* Messages *)

\* GetMessage.
GetMessage(m) == m \in freeMessages /\ freeMessages' = freeMessages \ {m}

\* Mutant: a synchronous message is freed by whoever releases it first.
Release_First(m) ==
  /\ freeMessages' = freeMessages \cup {m}
  /\ msgs' = [msgs EXCEPT ![m] = Blank]

(***************************************************************************)
(* Message::Release: the first release of a synchronous message is only    *)
(* noted.  Otherwise nobody else has the message, which is freed.          *)
(***************************************************************************)
Release(m) ==
  /\ IF msgs[m].isSync /\ ~msgs[m].isSyncFini
     THEN /\ msgs' = [msgs EXCEPT ![m].isSyncFini = TRUE]
          /\ UNCHANGED freeMessages
     ELSE /\ msgs' = [msgs EXCEPT ![m] = Blank]
          /\ freeMessages' = freeMessages \cup {m}

-------------------------------------------------------------------------------
(* The senders *)

\* SendOutMessage, or SendOutMessageSync up to the push.
SendOut(s, sync, m) ==
  /\ pc[s] = "idle"
  /\ GetMessage(m)
  /\ msgs' = [msgs EXCEPT ![m] = Message(s, sync, None)]
  /\ outMessages' = Append(outMessages, m)
  /\ msg' = [msg EXCEPT ![s] = IF sync THEN m ELSE None]
  /\ pc' = [pc EXCEPT ![s] = "tell"]
  /\ UNCHANGED <<inMessages, containerOutEvent, m_bStop, retMsg, actorVars, dpc, dropped>>

\* containerOutEvent->Set().
TellActor(s) ==
  /\ pc[s] = "tell"
  /\ containerOutEvent' = TRUE
  /\ pc' = [pc EXCEPT ![s] = IF msg[s] = None THEN "idle" ELSE "wait"]
  /\ UNCHANGED <<msgs, freeMessages, queues, m_bStop, msg, retMsg, actorVars, dpc, dropped>>

\* WaitMSec(timeout) returns true.
CallAnswered(s) ==
  /\ pc[s] = "wait"
  /\ msgs[msg[s]].event
  /\ retMsg' = [retMsg EXCEPT ![s] = msgs[msg[s]].replyMessage]
  /\ pc' = [pc EXCEPT ![s] = "release"]
  /\ UNCHANGED <<msgs, freeMessages, queues, containerOutEvent, m_bStop, msg, actorVars, dpc, dropped>>

\* It returns false.
CallTimesOut(s) ==
  /\ pc[s] = "wait"
  /\ ~msgs[msg[s]].event
  /\ pc' = [pc EXCEPT ![s] = "late"]
  /\ UNCHANGED <<msgs, freeMessages, queues, containerOutEvent, m_bStop, msg, retMsg, actorVars, dpc,
                 dropped>>

\* Mutant: a reply that came after the wait is not looked for.
GiveUp_NoLook(s) ==
  /\ pc[s] = "late"
  /\ msgs' = [msgs EXCEPT ![msg[s]].isSyncTimeout = TRUE]
  /\ pc' = [pc EXCEPT ![s] = "release"]
  /\ UNCHANGED <<freeMessages, queues, containerOutEvent, m_bStop, msg, retMsg, actorVars, dpc, dropped>>

\* Under the lock: the reply is there after all, or there will be none.
GiveUp(s) ==
  /\ pc[s] = "late"
  /\ LET reply == msgs[msg[s]].replyMessage
     IN  /\ retMsg' = [retMsg EXCEPT ![s] = reply]
         /\ msgs' = IF reply # None THEN msgs ELSE [msgs EXCEPT ![msg[s]].isSyncTimeout = TRUE]
  /\ pc' = [pc EXCEPT ![s] = "release"]
  /\ UNCHANGED <<freeMessages, queues, containerOutEvent, m_bStop, msg, actorVars, dpc, dropped>>

\* Mutant: the caller reads a reply although there is none.
ReleaseCall_AlwaysReply(s) ==
  /\ pc[s] = "release"
  /\ Release(msg[s])
  /\ msg' = [msg EXCEPT ![s] = None]
  /\ pc' = [pc EXCEPT ![s] = "got"]
  /\ UNCHANGED <<queues, containerOutEvent, m_bStop, retMsg, actorVars, dpc, dropped>>

\* msg->Release(), and the call returns.
ReleaseCall(s) ==
  /\ pc[s] = "release"
  /\ Release(msg[s])
  /\ msg' = [msg EXCEPT ![s] = None]
  /\ pc' = [pc EXCEPT ![s] = IF retMsg[s] = None THEN "idle" ELSE "got"]
  /\ UNCHANGED <<queues, containerOutEvent, m_bStop, retMsg, actorVars, dpc, dropped>>

\* A thread that may send also takes what the actor sends.
ReceiveIn(s) ==
  /\ pc[s] = "idle"
  /\ inMessages # <<>>
  /\ retMsg' = [retMsg EXCEPT ![s] = Head(inMessages)]
  /\ inMessages' = Tail(inMessages)
  /\ pc' = [pc EXCEPT ![s] = "got"]
  /\ UNCHANGED <<msgs, freeMessages, outMessages, containerOutEvent, m_bStop, msg, actorVars, dpc,
                 dropped>>

\* The caller has read the reply, or the message, and releases it.
ReleaseReceived(s) ==
  /\ pc[s] = "got"
  /\ Release(retMsg[s])
  /\ retMsg' = [retMsg EXCEPT ![s] = None]
  /\ pc' = [pc EXCEPT ![s] = "idle"]
  /\ UNCHANGED <<queues, containerOutEvent, m_bStop, msg, actorVars, dpc, dropped>>

SenderGoesOn(s) ==
  \/ TellActor(s) \/ CallAnswered(s) \/ CallTimesOut(s) \/ GiveUp(s)
  \/ ReleaseCall(s) \/ ReleaseReceived(s)

Sender(s) ==
  \/ \E sync \in BOOLEAN, m \in Messages : SendOut(s, sync, m)
  \/ ReceiveIn(s) \/ SenderGoesOn(s)

-------------------------------------------------------------------------------
(* The actor *)

(***************************************************************************)
(* The top of the loop: stop, go on with a message whose handler triggered *)
(* the state machine again, take the next message, or wait.                *)
(***************************************************************************)
Loop ==
  /\ apc = "loop"
  /\ IF m_bStop
     THEN /\ apc' = "ended" /\ amsg' = None
          /\ dropped' = dropped \cup ({amsg} \ {None})
          /\ UNCHANGED outMessages
     ELSE /\ UNCHANGED dropped
          /\ IF amsg # None THEN apc' = "again" /\ UNCHANGED <<amsg, outMessages>>
             ELSE IF outMessages # <<>>
                  THEN /\ apc' = "handle" /\ amsg' = Head(outMessages)
                       /\ outMessages' = Tail(outMessages)
                  ELSE apc' = "wait" /\ UNCHANGED <<amsg, outMessages>>
  /\ UNCHANGED <<msgs, freeMessages, inMessages, containerOutEvent, m_bStop, senderVars, dpc>>

\* Mutant: the event may be reset just before the wait.
Woken_ResetFirst ==
  /\ apc = "wait"
  /\ containerOutEvent
  /\ containerOutEvent' = FALSE
  /\ apc' \in {"loop", "wait"}
  /\ UNCHANGED <<msgs, freeMessages, queues, m_bStop, senderVars, amsg, dpc, dropped>>

\* m_outMsgEvent.WaitMSec(m_extTimeout) returns true.
Woken ==
  /\ apc = "wait"
  /\ containerOutEvent
  /\ containerOutEvent' = FALSE
  /\ apc' = "loop"
  /\ UNCHANGED <<msgs, freeMessages, queues, m_bStop, senderVars, amsg, dpc, dropped>>

\* It returns false: a message TIMEOUT for the state machine, which does not reply.
TimesOut(m) ==
  /\ apc = "wait"
  /\ ~containerOutEvent
  /\ GetMessage(m)
  /\ msgs' = [msgs EXCEPT ![m] = Message(None, FALSE, None)]
  /\ amsg' = m
  /\ apc' = "handle"
  /\ UNCHANGED <<queues, containerOutEvent, m_bStop, senderVars, dpc, dropped>>

\* The state machine keeps the message for another round; it does so once.
SelfTrigger ==
  /\ apc = "handle"
  /\ apc' = "loop"
  /\ UNCHANGED <<msgs, freeMessages, queues, containerOutEvent, m_bStop, senderVars, amsg, dpc, dropped>>

Handling == apc \in {"handle", "again"}

\* The message asks for no reply.
NoReply ==
  /\ Handling
  /\ apc' = "release"
  /\ UNCHANGED <<msgs, freeMessages, queues, containerOutEvent, m_bStop, senderVars, amsg, dpc, dropped>>

\* The queue without the messages that are purged, in its order.
Kept(purged) ==
  LET kept[i \in 0..Len(outMessages)] ==
        IF i = 0 THEN <<>>
        ELSE IF outMessages[i] \in purged THEN kept[i - 1]
             ELSE Append(kept[i - 1], outMessages[i])
  IN  kept[Len(outMessages)]

(***************************************************************************)
(* PurgeOut(signal) out of the handler.  Signals are left out: any of the  *)
(* queue's messages may have the one that is purged, calls among them,     *)
(* whose senders will wait out their time limits.                          *)
(***************************************************************************)
PurgeOut(purged) ==
  /\ Handling
  /\ purged \subseteq ToSet(outMessages)
  /\ outMessages' = Kept(purged)
  /\ dropped' = dropped \cup purged
  /\ apc' = "release"
  /\ UNCHANGED <<msgs, freeMessages, inMessages, containerOutEvent, m_bStop, senderVars, amsg, dpc>>

\* Reply to an asynchronous message: SendInMessage (of containerInEvent see above).
ReplyAsync(m) ==
  /\ Handling
  /\ ~msgs[amsg].isSync /\ msgs[amsg].from # None
  /\ GetMessage(m)
  /\ msgs' = [msgs EXCEPT ![m] = Message(None, FALSE, amsg)]
  /\ inMessages' = Append(inMessages, m)
  /\ apc' = "release"
  /\ UNCHANGED <<outMessages, containerOutEvent, m_bStop, senderVars, amsg, dpc, dropped>>

\* Mutant: the sender's giving up is not looked at.
StoreReply_Always ==
  \E m \in Messages :
    /\ GetMessage(m)
    /\ msgs' = [msgs EXCEPT ![m] = Message(None, FALSE, amsg), ![amsg].replyMessage = m]

\* The reply goes into the message, unless the sender has given up.
StoreReply ==
  IF msgs[amsg].isSyncTimeout
  THEN UNCHANGED <<msgs, freeMessages>>
  ELSE \E m \in Messages :
         /\ GetMessage(m)
         /\ msgs' = [msgs EXCEPT ![m] = Message(None, FALSE, amsg), ![amsg].replyMessage = m]

\* Reply to a synchronous message, under the lock.
ReplySync ==
  /\ Handling
  /\ msgs[amsg].isSync
  /\ StoreReply
  /\ apc' = "set"
  /\ UNCHANGED <<queues, containerOutEvent, m_bStop, senderVars, amsg, dpc, dropped>>

\* Outside of it: event->Set().
SetReplied ==
  /\ apc = "set"
  /\ msgs' = [msgs EXCEPT ![amsg].event = TRUE]
  /\ apc' = "release"
  /\ UNCHANGED <<freeMessages, queues, containerOutEvent, m_bStop, senderVars, amsg, dpc, dropped>>

ReleaseHandled ==
  /\ apc = "release"
  /\ Release(amsg)
  /\ amsg' = None
  /\ apc' = "loop"
  /\ UNCHANGED <<queues, containerOutEvent, m_bStop, senderVars, dpc, dropped>>

ActorGoesOn ==
  \/ Loop \/ Woken \/ SelfTrigger \/ NoReply \/ (\E purged \in SUBSET Messages : PurgeOut(purged))
  \/ (\E m \in Messages : ReplyAsync(m)) \/ ReplySync \/ SetReplied \/ ReleaseHandled

-------------------------------------------------------------------------------
(* Dispose, and Start again *)

Dispose ==
  /\ dpc = "no"
  /\ m_bStop' = TRUE
  /\ dpc' = "tell"
  /\ UNCHANGED <<msgs, freeMessages, queues, containerOutEvent, senderVars, actorVars, dropped>>

\* m_outMsgEvent.Set().
TellStop ==
  /\ dpc = "tell"
  /\ containerOutEvent' = TRUE
  /\ dpc' = "join"
  /\ UNCHANGED <<msgs, freeMessages, queues, m_bStop, senderVars, actorVars, dropped>>

\* StopThread has waited for the end of the thread; a round of Purge.
PurgeMessage ==
  /\ dpc = "join" /\ apc = "ended"
  /\ \/ /\ inMessages # <<>>
        /\ Release(Head(inMessages))
        /\ inMessages' = Tail(inMessages)
        /\ UNCHANGED outMessages
     \/ /\ inMessages = <<>> /\ outMessages # <<>>
        /\ Release(Head(outMessages))
        /\ outMessages' = Tail(outMessages)
        /\ UNCHANGED inMessages
  /\ UNCHANGED <<containerOutEvent, m_bStop, senderVars, actorVars, dpc, dropped>>

Disposed ==
  /\ dpc = "join" /\ apc = "ended"
  /\ inMessages = <<>> /\ outMessages = <<>>
  /\ dpc' = "done"
  /\ UNCHANGED <<msgs, freeMessages, queues, containerOutEvent, m_bStop, senderVars, actorVars, dropped>>

Start ==
  /\ dpc = "done"
  /\ m_bStop' = FALSE
  /\ apc' = "loop"
  /\ dpc' = "no"
  /\ UNCHANGED <<msgs, freeMessages, queues, containerOutEvent, senderVars, amsg, dropped>>

Disposer == Dispose \/ TellStop \/ PurgeMessage \/ Disposed \/ Start

Next == (\E s \in Senders : Sender(s)) \/ ActorGoesOn \/ (\E m \in Messages : TimesOut(m)) \/ Disposer

Spec == Init /\ [][Next]_vars

-------------------------------------------------------------------------------
(* Properties *)

MessageType ==
  [from : Senders \cup {None}, isSync : BOOLEAN, isSyncFini : BOOLEAN, isSyncTimeout : BOOLEAN,
   event : BOOLEAN, replyMessage : Messages \cup {None}, answers : Messages \cup {None}]

\* The type of every variable; a place that uses a message has one.
TypeOK ==
  /\ msgs \in [Messages -> MessageType]
  /\ freeMessages \subseteq Messages
  /\ {outMessages, inMessages} \subseteq Seq(Messages)
  /\ {containerOutEvent, m_bStop} \subseteq BOOLEAN
  /\ pc \in [Senders -> {"idle", "tell", "wait", "late", "release", "got"}]
  /\ msg \in [Senders -> Messages \cup {None}] /\ retMsg \in [Senders -> Messages \cup {None}]
  /\ apc \in {"loop", "wait", "handle", "again", "set", "release", "ended"}
  /\ amsg \in Messages \cup {None}
  /\ dpc \in {"no", "tell", "join", "done"}
  /\ \A s \in Senders : /\ pc[s] \in {"wait", "late", "release"} => msg[s] # None
                        /\ pc[s] = "got" => retMsg[s] # None
  /\ apc \in {"handle", "again", "set", "release"} => amsg # None
  /\ dropped \subseteq Messages

\* The reply a sender may still find in its message.
Reply(s) == IF pc[s] \in {"tell", "wait", "late"} /\ msg[s] # None
            THEN msgs[msg[s]].replyMessage ELSE None

\* The messages that some thread or queue will still look at.
InUse ==
  (ToSet(outMessages) \cup ToSet(inMessages) \cup {amsg}
     \cup {msg[s] : s \in Senders} \cup {retMsg[s] : s \in Senders}
     \cup {Reply(s) : s \in Senders}) \ {None}

(***************************************************************************)
(* A message is freed when the last thread that has it lets go, never      *)
(* before and never twice, however the reply, the sender's time limit and  *)
(* a Purge fall together.                                                  *)
(***************************************************************************)
FreedOnce ==
  /\ freeMessages \cap (InUse \cup dropped) = {}

(***************************************************************************)
(* No message is lost: it is free, in use, or one of those that PurgeOut   *)
(* or the end of the thread dropped.  A late reply is not left behind.     *)
(***************************************************************************)
NoLeak == Messages \subseteq freeMessages \cup InUse \cup dropped

(***************************************************************************)
(* The actor does not sleep while there is something to do: when it is in  *)
(* its wait (ActiveAESink.cpp, Process), a message in the queue or a stop  *)
(* has set the event or is about to.  No set is lost between the actor's   *)
(* look at the queue and its wait, or over Dispose and Start.              *)
(***************************************************************************)
NoSleepOnWork ==
  apc = "wait" /\ (outMessages # <<>> \/ m_bStop) =>
    \/ containerOutEvent
    \/ outMessages # <<>> /\ \E s \in Senders : pc[s] = "tell"
    \/ m_bStop /\ dpc = "tell"

\* Synchronous calls as their callers see them.
CallOf(s) ==
  IF msg[s] = None THEN "idle"
  ELSE IF pc[s] = "release" THEN IF retMsg[s] # None THEN "served" ELSE "failed"
  ELSE IF Reply(s) # None THEN "answered" ELSE "asked"

Calls == INSTANCE SyncCalls WITH Callers <- Senders, call <- [s \in Senders |-> CallOf(s)]

(***************************************************************************)
(* The port implements SyncCalls: a call gives up only without an answer   *)
(* and gets none afterwards; one that is answered returns with it.         *)
(***************************************************************************)
ImplementsSyncCalls == Calls!Spec

===============================================================================
