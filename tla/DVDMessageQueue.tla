---------------------------- MODULE DVDMessageQueue ----------------------------
(***************************************************************************)
(* The value of one CDVDMessageQueue (cores/dvdplayer/DVDMessageQueue.cpp) *)
(* and its operations, as operators that take a value and return the next  *)
(* one: each runs under m_section from its start to its end, except Get,   *)
(* whose wait its caller makes a step of its own.                          *)
(*                                                                         *)
(* A message is its type and a number that tells messages of one type      *)
(* apart; every packet has the size 1.  Time stamps, m_bEmptied (which     *)
(* only decides on a line of the log) and m_bCaching (never set) are left  *)
(* out.                                                                    *)
(***************************************************************************)
EXTENDS Naturals, Sequences, FiniteSets, SequencesExt

Message(type, id) == [type |-> type, id |-> id]

Item(message, priority) == [message |-> message, priority |-> priority]

NewQueue ==
  [list |-> <<>>, m_iDataSize |-> 0, m_hEvent |-> FALSE,
   m_bAbortRequest |-> FALSE, m_bInitialized |-> FALSE]

IsPacket(item) == item.message.type = "packet"

\* Only a packet of the lowest priority counts.
DataSize(item) == IF IsPacket(item) /\ item.priority = 0 THEN 1 ELSE 0

QueueInit(queue) ==
  [queue EXCEPT !.m_iDataSize = 0, !.m_bAbortRequest = FALSE, !.m_bInitialized = TRUE]

(***************************************************************************)
(* The list goes up in priority and is read from its end: an item is put   *)
(* before the first that has its priority, so that those are read first.   *)
(***************************************************************************)
Insert(list, item) ==
  LET i == SelectInSeq(list, LAMBDA other : item.priority <= other.priority)
  IN  IF i = 0 THEN Append(list, item) ELSE InsertAt(list, i, item)

\* Mutant: packets that are put back with a high priority are counted as well.
Put_CountsAll(queue, item) ==
  [queue EXCEPT !.list = Insert(@, item),
                !.m_iDataSize = @ + IF IsPacket(item) THEN 1 ELSE 0,
                !.m_hEvent = TRUE]

\* Put, for a queue that is initialized.
Put(queue, item) ==
  [queue EXCEPT !.list = Insert(@, item), !.m_iDataSize = @ + DataSize(item), !.m_hEvent = TRUE]

\* Get finds an item at the end of the list that has the priority asked for.
HasItem(queue, priority) == queue.list # <<>> /\ Last(queue.list).priority >= priority

TakeItem(queue) == [queue EXCEPT !.list = Front(@), !.m_iDataSize = @ - DataSize(Last(queue.list))]

\* It finds none, and resets the event before it leaves the lock to wait.
PrepareWait(queue) == [queue EXCEPT !.m_hEvent = FALSE]

\* What is left of a list without its packets.
Others(list) ==
  LET kept[i \in 0 .. Len(list)] ==
        IF i = 0 THEN <<>>
        ELSE IF IsPacket(list[i]) THEN kept[i - 1] ELSE Append(kept[i - 1], list[i])
  IN  kept[Len(list)]

\* Flush(DEMUXER_PACKET).
FlushPackets(queue) == [queue EXCEPT !.list = Others(@), !.m_iDataSize = 0]

\* Mutant: whoever waits for a message is not told.
Abort_NotTold(queue) == [queue EXCEPT !.m_bAbortRequest = TRUE]

Abort(queue) == [queue EXCEPT !.m_bAbortRequest = TRUE, !.m_hEvent = TRUE]

\* End, with the Flush(NONE) it makes.
End(queue) ==
  [queue EXCEPT !.list = <<>>, !.m_iDataSize = 0,
                !.m_bInitialized = FALSE, !.m_bAbortRequest = FALSE]

\* How many items of the list hold the message.
Entries(queue, message) ==
  Cardinality({i \in 1 .. Len(queue.list) : queue.list[i].message = message})

===============================================================================
