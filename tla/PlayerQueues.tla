------------------------------ MODULE PlayerQueues ------------------------------
(***************************************************************************)
(* The thread of CDVDPlayer and the threads of CDVDPlayerAudio and         *)
(* CDVDPlayerVideo (cores/dvdplayer), with a message queue each for the    *)
(* latter two and with CDVDMsgGeneralSynchronize, the message on which     *)
(* they wait for each other.                                               *)
(*                                                                         *)
(* A handler of the player's thread is the sequence of calls it makes on   *)
(* the queues and on such messages: `todo' holds those that are left.  The *)
(* threads of the streams interleave with the calls.                       *)
(*                                                                         *)
(* References are counted for the synchronize messages only.  An Acquire   *)
(* and the Release that follows it in the same critical section of a queue *)
(* are their sum.  The count's changes are taken to be atomic, which       *)
(* Release's --m_refs against AtomicIncrement is not on every processor.   *)
(***************************************************************************)
EXTENDS DVDMessageQueue

CONSTANTS
  Audio, Video,        \* the two stream players
  Owner,               \* the player's thread, as a source of a synchronize message
  Syncs,               \* the synchronize messages; a bound on how many exist at once
  MaxHandlers,         \* bound: how many handlers the player's thread begins
  MaxDecoderFlushes,   \* bound: how often a decoder loses its state
  MaxConverge          \* GetConvergeCount: how many packets a decoder needs again then

Players == {Audio, Video}

ASSUME PlayerAssumption ==
  /\ Audio # Video /\ Owner \notin Players
  /\ \A n \in {MaxHandlers, MaxDecoderFlushes, MaxConverge} : n \in Nat

VARIABLES
  queue,            \* m_messageQueue of each player
  sync,             \* the synchronize messages
  pc, item, ask,    \* per player: its thread's place, the item it has, the priority it asked Get for
  m_packets,        \* per player: the packets it keeps for its decoder
  todo,             \* the calls that are left of the player's current handler
  m_bStop,          \* CDVDPlayer has been told to stop
  waited,           \* history: what the handler's Wait has brought about: "emptied", "flushed" or "no"
  now,              \* history: the number of flushes so far, which packets are stamped with
  handlers, decoderFlushes   \* how many there have been

threadVars == <<pc, item, ask, m_packets>>
counters == <<now, handlers, decoderFlushes>>
vars == <<queue, sync, threadVars, todo, m_bStop, waited, counters>>

\* passed: history, a thread has passed Wait because all were there;
\* stopped: history, the player's thread has gone on without waiting for the others.
NewSync(sources) ==
  [sources |-> sources, reached |-> {}, refs |-> 1, late |-> FALSE,
   passed |-> FALSE, stopped |-> FALSE]

Everyone == Players \cup {Owner}

\* A message that has been deleted, or not been created.
Gone == [NewSync(Everyone) EXCEPT !.refs = 0]

\* Release, n times: with the last reference the message is deleted.
Drop(m, n) == IF m.refs = n THEN Gone ELSE [m EXCEPT !.refs = @ - n]

Nothing == Item(Message("none", 0), 0)

SyncOf(it) == it.message.id

\* Process has opened the streams it plays by default, and enters its loop.
Init ==
  /\ queue = [q \in Players |-> QueueInit(NewQueue)]
  /\ sync = [s \in Syncs |-> Gone]
  /\ pc = [q \in Players |-> "loop"]
  /\ item = [q \in Players |-> Nothing]
  /\ ask = [q \in Players |-> 0]
  /\ m_packets = [q \in Players |-> <<>>]
  /\ todo = <<>> /\ m_bStop = FALSE /\ waited = "no"
  /\ now = 0 /\ handlers = 0 /\ decoderFlushes = 0

-------------------------------------------------------------------------------
(* The threads of the streams: Get *)

\* The priority is Get's own and means nothing outside of it.
LeavesGet(q, place) ==
  /\ pc' = [pc EXCEPT ![q] = place]
  /\ ask' = [ask EXCEPT ![q] = 0]

(***************************************************************************)
(* A thread has Get's lock: it enters with a priority of 0 or 1, or it has *)
(* waited there, with the event set.  Only this thread resets the event,   *)
(* so the return of WaitMSec and the lock are one step.                    *)
(***************************************************************************)
InGet(q, p) ==
  \/ pc[q] = "loop" /\ p \in {0, 1}
  \/ pc[q] = "wait" /\ queue[q].m_hEvent /\ p = ask[q]

Take(q, p) ==
  /\ InGet(q, p)
  /\ ~queue[q].m_bAbortRequest
  /\ HasItem(queue[q], p)
  /\ item' = [item EXCEPT ![q] = Last(queue[q].list)]
  /\ queue' = [queue EXCEPT ![q] = TakeItem(@)]
  /\ LeavesGet(q, "handle")
  /\ UNCHANGED <<sync, m_packets, todo, m_bStop, waited, counters>>

WaitForItem(q, p) ==
  /\ InGet(q, p)
  /\ ~queue[q].m_bAbortRequest
  /\ ~HasItem(queue[q], p)
  /\ queue' = [queue EXCEPT ![q] = PrepareWait(@)]
  /\ ask' = [ask EXCEPT ![q] = p]
  /\ pc' = [pc EXCEPT ![q] = "wait"]
  /\ UNCHANGED <<sync, item, m_packets, todo, m_bStop, waited, counters>>

\* m_hEvent.WaitMSec returns false: MSGQ_TIMEOUT.
GetTimesOut(q) ==
  /\ pc[q] = "wait" /\ ~queue[q].m_hEvent
  /\ LeavesGet(q, "loop")
  /\ UNCHANGED <<queue, sync, item, m_packets, todo, m_bStop, waited, counters>>

\* MSGQ_ABORT: the thread leaves its loop and ends.
GetAborted(q) ==
  /\ \E p \in {0, 1} : InGet(q, p)
  /\ queue[q].m_bAbortRequest
  /\ LeavesGet(q, "ended")
  /\ UNCHANGED <<queue, sync, item, m_packets, todo, m_bStop, waited, counters>>

-------------------------------------------------------------------------------
(* The threads of the streams: what they do with a message *)

Handles(q, type) == pc[q] = "handle" /\ item[q].message.type = type

\* The item is released: the thread is done with it.
Done(q) ==
  /\ item' = [item EXCEPT ![q] = Nothing]
  /\ pc' = [pc EXCEPT ![q] = "loop"]

\* GENERAL_FLUSH and GENERAL_RESET: the decoder forgets all it has.
HandleFlush(q) ==
  /\ Handles(q, "flush") \/ Handles(q, "reset")
  /\ m_packets' = [m_packets EXCEPT ![q] = <<>>]
  /\ Done(q)
  /\ UNCHANGED <<queue, sync, ask, todo, m_bStop, waited, counters>>

\* PLAYER_SETSPEED.
HandleSpeed(q) ==
  /\ Handles(q, "speed")
  /\ Done(q)
  /\ UNCHANGED <<queue, sync, ask, m_packets, todo, m_bStop, waited, counters>>

\* Decode: the video player keeps the packets that its decoder would need again.
Keep(q) ==
  LET kept == Append(m_packets[q], item[q].message)
  IN  IF q # Video \/ MaxConverge = 0 THEN m_packets[q]
      ELSE IF Len(kept) > MaxConverge THEN Tail(kept) ELSE kept

Decode(q) ==
  /\ Handles(q, "packet")
  /\ m_packets' = [m_packets EXCEPT ![q] = Keep(q)]
  /\ Done(q)
  /\ UNCHANGED <<queue, sync, ask, todo, m_bStop, waited, counters>>

\* VC_FLUSHED: the decoder has lost its state, the packets go back to the queue.
DecoderFlushed(q) ==
  /\ q = Video /\ Handles(q, "packet")
  /\ decoderFlushes < MaxDecoderFlushes
  /\ decoderFlushes' = decoderFlushes + 1
  /\ m_packets' = [m_packets EXCEPT ![q] = Keep(q)]
  /\ pc' = [pc EXCEPT ![q] = "recover"]
  /\ UNCHANGED <<queue, sync, item, ask, todo, m_bStop, waited, now, handlers>>

\* Mutant: the packets that are put back wait for their turn.
Recover_NoPriority(q) ==
  /\ pc[q] = "recover" /\ m_packets[q] # <<>>
  /\ queue' = [queue EXCEPT ![q] = Put(@, Item(Head(m_packets[q]), 0))]
  /\ m_packets' = [m_packets EXCEPT ![q] = Tail(@)]
  /\ UNCHANGED <<sync, pc, item, ask, todo, m_bStop, waited, counters>>

\* One turn of the loop that puts them back, before all else.
Recover(q) ==
  /\ pc[q] = "recover" /\ m_packets[q] # <<>>
  /\ queue' = [queue EXCEPT ![q] = Put(@, Item(Head(m_packets[q]), item[q].priority + 10))]
  /\ m_packets' = [m_packets EXCEPT ![q] = Tail(@)]
  /\ UNCHANGED <<sync, pc, item, ask, todo, m_bStop, waited, counters>>

Recovered(q) ==
  /\ pc[q] = "recover" /\ m_packets[q] = <<>>
  /\ Done(q)
  /\ UNCHANGED <<queue, sync, ask, m_packets, todo, m_bStop, waited, counters>>

-------------------------------------------------------------------------------
(* CDVDMsgGeneralSynchronize *)

Reach(s, t) == [sync EXCEPT ![s].reached = @ \cup {t}]

AllReached(s) == Cardinality(sync[s].reached) >= sync[s].refs

\* Wait, when the message is not meant for this thread: it only releases it.
NotMeant(q) ==
  /\ Handles(q, "sync")
  /\ q \notin sync[SyncOf(item[q])].sources
  /\ pc' = [pc EXCEPT ![q] = "release"]
  /\ UNCHANGED <<queue, sync, item, ask, m_packets, todo, m_bStop, waited, counters>>

\* Wait(100, source) is entered.  It returns at once when all the others are there.
Arrive(q) ==
  /\ Handles(q, "sync")
  /\ LET s == SyncOf(item[q])
         all == Cardinality(sync[s].reached \cup {q}) >= sync[s].refs
     IN  /\ q \in sync[s].sources
         /\ sync' = [sync EXCEPT ![s].reached = @ \cup {q}, ![s].passed = @ \/ all]
         /\ pc' = [pc EXCEPT ![q] = IF all THEN "release" ELSE "meet"]
  /\ UNCHANGED <<queue, item, ask, m_packets, todo, m_bStop, waited, counters>>

(***************************************************************************)
(* It looks again when a Release notifies it, and when the condition       *)
(* variable returns for no reason.                                         *)
(***************************************************************************)
Meet(q) ==
  /\ pc[q] = "meet"
  /\ AllReached(SyncOf(item[q]))
  /\ sync' = [sync EXCEPT ![SyncOf(item[q])].passed = TRUE]
  /\ pc' = [pc EXCEPT ![q] = "release"]
  /\ UNCHANGED <<queue, item, ask, m_packets, todo, m_bStop, waited, counters>>

\* The time limit of the message has passed, for every thread from now on.
MeetLate(q) ==
  /\ pc[q] = "meet"
  /\ sync' = [sync EXCEPT ![SyncOf(item[q])].late = TRUE]
  /\ pc' = [pc EXCEPT ![q] = "release"]
  /\ UNCHANGED <<queue, item, ask, m_packets, todo, m_bStop, waited, counters>>

\* The 100 ms have passed: Wait returns false.
MeetRetry(q) ==
  /\ pc[q] = "meet"
  /\ ~sync[SyncOf(item[q])].late
  /\ pc' = [pc EXCEPT ![q] = "putBack"]
  /\ UNCHANGED <<queue, sync, item, ask, m_packets, todo, m_bStop, waited, counters>>

\* "push back as prio message, to process other prio messages"
PutBack(q) ==
  /\ pc[q] = "putBack"
  /\ queue' = [queue EXCEPT ![q] = Put(@, Item(item[q].message, 1))]
  /\ sync' = [sync EXCEPT ![SyncOf(item[q])].refs = @ + 1]
  /\ pc' = [pc EXCEPT ![q] = "release"]
  /\ UNCHANGED <<item, ask, m_packets, todo, m_bStop, waited, counters>>

\* pMsg->Release().
Release(q) ==
  /\ pc[q] = "release"
  /\ sync' = [sync EXCEPT ![SyncOf(item[q])] = Drop(@, 1)]
  /\ Done(q)
  /\ UNCHANGED <<queue, ask, m_packets, todo, m_bStop, waited, counters>>

-------------------------------------------------------------------------------
(* The handlers of the player's thread, as the calls they make *)

Call(name, q, message, priority) ==
  [call |-> name, q |-> q, message |-> message, priority |-> priority]

PutCall(q, message, priority) == Call("put", q, message, priority)
OwnCall(name, q) == Call(name, q, Nothing.message, 0)

\* Calls on the synchronize message s, which stands in the call's message.
SyncCall(name, s) == Call(name, Owner, Message("sync", s), 0)

\* The call the player's thread makes next.
Calls(name) == todo # <<>> /\ Head(todo).call = name

IsOpen(q) == queue[q].m_bInitialized
Open == {q \in Players : IsOpen(q)}

\* A handler starts when the one before it is through.
Idle == todo = <<>> /\ ~m_bStop

Begin(calls) ==
  /\ handlers < MaxHandlers
  /\ handlers' = handlers + 1
  /\ todo' = calls
  /\ waited' = "no"

\* A new synchronize message, under a number that none has at the moment.
Create(s, sources) ==
  /\ s \in Syncs
  /\ sync[s] = Gone
  /\ sync' = [sync EXCEPT ![s] = NewSync(sources)]

\* Which number that is does not matter.
Fresh == CHOOSE s \in Syncs : sync[s] = Gone \/ \A other \in Syncs : sync[other] # Gone

\* The audio player's call and then the video player's.
Both(calls) == <<calls[Audio], calls[Video]>>

\* The synchronize message is sent to a stream that is open.
SendTo(q, s, open) == IF q \in open THEN <<PutCall(q, Message("sync", s), 0)>> ELSE <<>>

\* Mutant: the player's thread releases its reference before the second player has one.
SynchronizeCalls_EarlyRelease(s, open) ==
  SendTo(Audio, s, open) \o <<SyncCall("release", s)>> \o SendTo(Video, s, open)

\* SynchronizePlayers, for the streams that are open: nobody waits in the player's thread.
SynchronizeCalls(s, open) ==
  SendTo(Audio, s, open) \o SendTo(Video, s, open) \o <<SyncCall("release", s)>>

\* OpenStream of a player that is closed.
OpenStream(q) ==
  /\ Idle /\ ~IsOpen(q)
  /\ Begin(<<OwnCall("init", q), OwnCall("create", q), OwnCall("clock", Owner)>>)
  /\ UNCHANGED <<queue, sync, threadVars, m_bStop, now, decoderFlushes>>

\* ProcessPacket: a packet for a stream that is open, put with the one call.
ProcessPacket(q) ==
  /\ Idle /\ IsOpen(q)
  /\ Begin(<<>>)
  /\ queue' = [queue EXCEPT ![q] = Put(@, Item(Message("packet", now), 0))]
  /\ UNCHANGED <<sync, threadVars, m_bStop, now, decoderFlushes>>

\* SetSpeed of a player that is open, put with the one call.
SetSpeed(q) ==
  /\ Idle /\ IsOpen(q)
  /\ Begin(<<>>)
  /\ queue' = [queue EXCEPT ![q] = Put(@, Item(Message("speed", 0), 1))]
  /\ UNCHANGED <<sync, threadVars, m_bStop, now, decoderFlushes>>

\* FlushBuffers(queued): the players forget what they have when they get there.
FlushQueued(s) ==
  /\ Idle
  /\ Create(s, Everyone)
  /\ LET reset == [q \in Players |-> PutCall(q, Message("reset", 0), 0)]
     IN  Begin(Both(reset) \o SynchronizeCalls(s, Open))
  /\ UNCHANGED <<queue, threadVars, m_bStop, now, decoderFlushes>>

(***************************************************************************)
(* FlushBuffers(not queued): what is in the queues is dropped and, at      *)
(* normal speed or paused, the player waits for both threads to have       *)
(* dropped what they have taken.                                           *)
(***************************************************************************)
FlushBuffers(s, normal) ==
  /\ Idle
  /\ now' = now + 1
  /\ LET drop(q) == <<OwnCall("flush", q), PutCall(q, Message("flush", 0), 1)>>
         send == [q \in Players |-> PutCall(q, Message("sync", s), 1)]
     IN  IF normal
         THEN /\ Create(s, Everyone)
              /\ Begin(drop(Audio) \o drop(Video) \o Both(send)
                       \o <<SyncCall("waitOrStop", s), SyncCall("release", s)>>)
         ELSE Begin(drop(Audio) \o drop(Video)) /\ UNCHANGED sync
  /\ UNCHANGED <<queue, threadVars, m_bStop, decoderFlushes>>

\* What CloseStream of a player does once its queue is empty or need not be.
CloseCalls(q) == <<OwnCall("abort", q), OwnCall("join", q), OwnCall("end", q),
                   OwnCall("clock", Owner)>>

\* CloseStream with the wait for an empty queue, WaitUntilEmpty.
CloseStreamWhenEmpty(q, s) ==
  /\ Idle /\ IsOpen(q)
  /\ Create(s, Everyone)
  /\ Begin(<<PutCall(q, Message("sync", s), 0), SyncCall("wait", s), SyncCall("release", s)>>
           \o CloseCalls(q))
  /\ UNCHANGED <<queue, threadVars, m_bStop, now, decoderFlushes>>

\* CloseStream without it, also from OnExit when the player was told to stop.
CloseStream(q) ==
  /\ todo = <<>> /\ IsOpen(q)
  /\ Begin(CloseCalls(q))
  /\ UNCHANGED <<queue, sync, threadVars, m_bStop, now, decoderFlushes>>

\* Another thread tells the player to stop, which it looks at in these two places.
Stop ==
  /\ ~m_bStop
  /\ todo = <<>> \/ Calls("waitOrStop")
  /\ m_bStop' = TRUE
  /\ UNCHANGED <<queue, sync, threadVars, todo, waited, counters>>

-------------------------------------------------------------------------------
(* The calls *)

Return == todo' = Tail(todo)

\* Whether a call's message is a synchronize message, whose references count.
IsSync(message) == message.type = "sync"

\* SendMessage: Put.  A queue that is not initialized only releases the message.
DoPut ==
  /\ Calls("put")
  /\ LET c == Head(todo)
     IN  /\ queue' = IF IsOpen(c.q)
                     THEN [queue EXCEPT ![c.q] = Put(@, Item(c.message, c.priority))] ELSE queue
         /\ sync' = IF IsSync(c.message) /\ IsOpen(c.q)
                    THEN [sync EXCEPT ![c.message.id].refs = @ + 1] ELSE sync
  /\ Return
  /\ UNCHANGED <<threadVars, m_bStop, waited, counters>>

DoFlush ==
  /\ Calls("flush")
  /\ queue' = [queue EXCEPT ![Head(todo).q] = FlushPackets(@)]
  /\ Return
  /\ UNCHANGED <<sync, threadVars, m_bStop, waited, counters>>

\* Wait(abort, 0): the player's thread is there, too; again after each 100 ms.
IsWaiting == Calls("wait") \/ Calls("waitOrStop")

OwnerArrives ==
  /\ IsWaiting
  /\ Owner \notin sync[Head(todo).message.id].reached
  /\ sync' = Reach(Head(todo).message.id, Owner)
  /\ UNCHANGED <<queue, threadVars, todo, m_bStop, waited, counters>>

\* What it may rely on afterwards: see Settled.
OwnerMeets ==
  /\ IsWaiting
  /\ LET s == Head(todo).message.id
     IN  /\ Owner \in sync[s].reached
         /\ AllReached(s)
         /\ sync' = [sync EXCEPT ![s].passed = TRUE]
  /\ waited' = IF sync[Head(todo).message.id].late THEN waited
               ELSE IF Calls("wait") THEN "emptied" ELSE "flushed"
  /\ Return
  /\ UNCHANGED <<queue, threadVars, m_bStop, counters>>

\* The time limit of the message has passed.
OwnerLate ==
  /\ IsWaiting
  /\ LET s == Head(todo).message.id
     IN  /\ Owner \in sync[s].reached
         /\ sync' = [sync EXCEPT ![s].late = TRUE]
  /\ Return
  /\ UNCHANGED <<queue, threadVars, m_bStop, waited, counters>>

\* Wait(100) has returned false and m_bStop is set.
OwnerStops ==
  /\ Calls("waitOrStop") /\ m_bStop
  /\ LET s == Head(todo).message.id
     IN  /\ Owner \in sync[s].reached
         /\ ~sync[s].late
         /\ sync' = [sync EXCEPT ![s].stopped = TRUE]
  /\ Return
  /\ UNCHANGED <<queue, threadVars, m_bStop, waited, counters>>

DoRelease ==
  /\ Calls("release")
  /\ sync' = [sync EXCEPT ![Head(todo).message.id] = Drop(@, 1)]
  /\ Return
  /\ UNCHANGED <<queue, threadVars, m_bStop, waited, counters>>

DoInit ==
  /\ Calls("init")
  /\ queue' = [queue EXCEPT ![Head(todo).q] = QueueInit(@)]
  /\ Return
  /\ UNCHANGED <<sync, threadVars, m_bStop, waited, counters>>

\* Create: the thread starts.  OpenStream has cleared what the decoder had before.
DoCreate ==
  /\ Calls("create")
  /\ pc' = [pc EXCEPT ![Head(todo).q] = "loop"]
  /\ m_packets' = [m_packets EXCEPT ![Head(todo).q] = <<>>]
  /\ Return
  /\ UNCHANGED <<queue, sync, item, ask, m_bStop, waited, counters>>

DoAbort ==
  /\ Calls("abort")
  /\ queue' = [queue EXCEPT ![Head(todo).q] = Abort(@)]
  /\ Return
  /\ UNCHANGED <<sync, threadVars, m_bStop, waited, counters>>

\* StopThread returns when the thread has ended.
DoJoin ==
  /\ Calls("join")
  /\ pc[Head(todo).q] = "ended"
  /\ pc' = [pc EXCEPT ![Head(todo).q] = "none"]
  /\ Return
  /\ UNCHANGED <<queue, sync, item, ask, m_packets, m_bStop, waited, counters>>

\* End, which releases the messages that are left.
DoEnd ==
  /\ Calls("end")
  /\ LET q == Head(todo).q
     IN  /\ sync' = [s \in Syncs |-> Drop(sync[s], Entries(queue[q], Message("sync", s)))]
         /\ queue' = [queue EXCEPT ![q] = End(@)]
  /\ Return
  /\ UNCHANGED <<threadVars, m_bStop, waited, counters>>

(***************************************************************************)
(* UpdateClockMaster: when the audio is open and the clock gets another    *)
(* master, the players are synchronized on the audio.                      *)
(***************************************************************************)
ClockKept ==
  /\ Calls("clock")
  /\ Return
  /\ UNCHANGED <<queue, sync, threadVars, m_bStop, waited, counters>>

ClockChanged(s) ==
  /\ Calls("clock") /\ IsOpen(Audio)
  /\ Create(s, {Audio})
  /\ todo' = SynchronizeCalls(s, Open) \o Tail(todo)
  /\ UNCHANGED <<queue, threadVars, m_bStop, waited, counters>>

-------------------------------------------------------------------------------

\* What a thread does when no time limit passes but the 100 ms of Wait.
ThreadStep(q) ==
  \/ \E p \in {0, 1} : Take(q, p) \/ WaitForItem(q, p)
  \/ GetAborted(q)
  \/ HandleFlush(q) \/ HandleSpeed(q)
  \/ Decode(q) \/ DecoderFlushed(q) \/ Recover(q) \/ Recovered(q)
  \/ NotMeant(q) \/ Arrive(q) \/ Meet(q) \/ MeetRetry(q) \/ PutBack(q) \/ Release(q)

\* The same for the player's thread, in a handler it has begun.
OwnerStep ==
  \/ DoPut \/ DoFlush \/ DoRelease
  \/ OwnerArrives \/ OwnerMeets \/ OwnerStops
  \/ DoInit \/ DoCreate \/ DoAbort \/ DoJoin \/ DoEnd
  \/ ClockKept \/ ClockChanged(Fresh)

Handler ==
  \/ \E q \in Players : OpenStream(q) \/ ProcessPacket(q) \/ SetSpeed(q) \/ CloseStream(q)
  \/ \E q \in Players : CloseStreamWhenEmpty(q, Fresh)
  \/ FlushQueued(Fresh)
  \/ \E normal \in BOOLEAN : FlushBuffers(Fresh, normal)

Next ==
  \/ \E q \in Players : ThreadStep(q) \/ GetTimesOut(q) \/ MeetLate(q)
  \/ OwnerStep \/ OwnerLate
  \/ Handler \/ Stop

Spec == Init /\ [][Next]_vars

(***************************************************************************)
(* The threads run; a Wait of 100 ms ends.  Neither the time limit of Get, *)
(* nor that of a synchronize message, nor another handler or packet is     *)
(* needed for anything.                                                    *)
(***************************************************************************)
FairSpec == Spec /\ WF_vars(OwnerStep) /\ \A q \in Players : WF_vars(ThreadStep(q))

-------------------------------------------------------------------------------
(* Properties *)

Messages == [type : {"none", "packet", "flush", "reset", "speed", "sync"}, id : Nat \cup Syncs]

\* The places of a list whose items count.
Counted(list) == {i \in 1 .. Len(list) : DataSize(list[i]) = 1}

QueueType ==
  \A q \in Players :
    /\ \A i \in 1 .. Len(queue[q].list) : queue[q].list[i].message \in Messages
    /\ \A i, j \in 1 .. Len(queue[q].list) :
         i < j => queue[q].list[i].priority <= queue[q].list[j].priority
    /\ queue[q].m_iDataSize = Cardinality(Counted(queue[q].list))

\* The variables have their types; a list is sorted by priority and m_iDataSize is the size of
\* what it holds of the demuxer's own packets, whatever is put back, taken or flushed in between.
TypeOK ==
  /\ QueueType
  /\ \A s \in Syncs : /\ sync[s].sources \subseteq Everyone
                      /\ sync[s].reached \subseteq sync[s].sources
                      /\ sync[s].refs \in Nat
  /\ pc \in [Players -> {"none", "loop", "wait", "handle", "recover", "meet", "putBack",
                         "release", "ended"}]
  /\ \A q \in Players : item[q].message \in Messages /\ ask[q] \in {0, 1}
  /\ \A q \in Players : Len(m_packets[q]) <= MaxConverge
  /\ m_bStop \in BOOLEAN /\ waited \in {"no", "emptied", "flushed"}

\* Who has the synchronize message, or will: in its queue, in its hands, or still to be sent.
Concerns(s, q) ==
  \/ Entries(queue[q], Message("sync", s)) > 0
  \/ item[q].message = Message("sync", s)
  \/ IsOpen(q) /\ PutCall(q, Message("sync", s), 0) \in Range(todo)
  \/ IsOpen(q) /\ PutCall(q, Message("sync", s), 1) \in Range(todo)

\* Wait: "waits until all threads waiting, released the object".  No thread gets past it, unless
\* its time is over or the player was stopped, while another one that is given the message has
\* yet to arrive.
SyncTogether ==
  \A s \in Syncs : sync[s].passed /\ ~sync[s].late /\ ~sync[s].stopped =>
    \A q \in Players : Concerns(s, q) /\ q \in sync[s].sources => q \in sync[s].reached

IsStale(message) == message.type = "packet" /\ message.id # now

HasPacket(list) == \E i \in 1 .. Len(list) : IsPacket(list[i])

\* What the player may rely on when its own Wait has returned because all were there.  After
\* FlushBuffers no packet from before the flush is left: in a queue, in the hands of a thread that
\* took it before, or among those its decoder may ask for again.  After WaitUntilEmpty the queue
\* that is about to be aborted has no packet.
Settled ==
  /\ waited = "flushed" => \A q \in Players :
       /\ \A i \in 1 .. Len(queue[q].list) : ~IsStale(queue[q].list[i].message)
       /\ ~IsStale(item[q].message)
       /\ IsOpen(q) => \A i \in 1 .. Len(m_packets[q]) : ~IsStale(m_packets[q][i])
  /\ waited = "emptied" =>
       \A q \in Players : OwnCall("abort", q) \in Range(todo) => ~HasPacket(queue[q].list)

HasSpeed(q) == \E i \in 1 .. Len(queue[q].list) : queue[q].list[i].message.type = "speed"

\* What a thread has been told that must not wait: a change of speed, or to end.
Told(q) == HasSpeed(q) \/ queue[q].m_bAbortRequest

\* A thread takes notice of a change of speed and of Abort, after which CloseStream ends its queue.
\* Nothing but Put and Abort wakes it from Get; and when it waits for another thread on a
\* synchronize message, which it puts back with the priority of the change of speed, the latter
\* still has its turn.
Heeded == (\E q \in Players : Told(q)) ~> (\A q \in Players : ~Told(q))

===============================================================================
