------------------------------- MODULE FileCache -------------------------------
(***************************************************************************)
(* CFileCache (filesystem/FileCache.cpp) on a CCircularCache: a thread     *)
(* that fills the cache from a slow source (Process), a reader of the file *)
(* (Read, Seek), and a thread that closes it.                              *)
(*                                                                         *)
(* A seek outside of what is cached is handed to the filler: the reader    *)
(* sets m_seekEvent and waits, without a time limit, for m_seekEnded.  The *)
(* filler polls m_seekEvent and at the end of the file waits for it in a   *)
(* group with the thread's m_StopEvent (CThread::AbortableWait).           *)
(*                                                                         *)
(* Each event has one thread that waits for it, so an auto-reset event is  *)
(* a flag that the wait clears.  m_space and m_written only shorten waits  *)
(* that are repeated every 5 or 50 ms: such a wait may end at any time and *)
(* they have no variable.  The same holds for the time limits and for the  *)
(* limiter of the write rate, which looks at m_seekEvent and sets it again.*)
(***************************************************************************)
EXTENDS CircularCache, FiniteSets

CONSTANTS
  Length,       \* of the source
  ChunkSize,    \* m_chunkSize: the most that is read from the source at once
  MaxRead,      \* bound on what the reader asks for at once
  MaxFaults     \* bound on the kinds of faults of one behaviour

ASSUME FileCacheAssumption ==
  /\ Length \in Nat /\ ChunkSize \in Nat \ {0} /\ MaxRead \in Nat \ {0}
  /\ MaxFaults \in Nat

VARIABLES
  cache,          \* *m_pCache
  source,         \* the position of m_source
  m_bStop,
  m_seekEvent, m_seekEnded, m_StopEvent,
  group,          \* AbortableWait's group: the event it was told of, or "none"
  m_seekPossible, m_seekPos, m_nSeekResult, m_readPos,
  fpc,            \* the filler's place in Process
  eof,            \* cacheReachEOF
  chunk,          \* the bytes of buffer not written yet: [at, len]
  rpc,            \* the reader's place in Read or Seek; "idle" between calls
  target,         \* iTarget of the seek under way
  cpc,            \* the place in Close of the thread that closes
  fault           \* history: the source failed a "seek" or a "read", or the
                  \* group was told "late" of an event

seekVars == <<m_seekPossible, m_seekPos, m_nSeekResult>>
fillerVars == <<fpc, eof, chunk, source>>
readerVars == <<rpc, target>>
vars == <<cache, m_bStop, m_seekEvent, m_seekEnded, m_StopEvent, group, m_readPos,
          seekVars, fillerVars, readerVars, cpc, fault>>

NoChunk == [at |-> 0, len |-> 0]

\* After Open: the filler starts, the source can seek or it cannot.
Init ==
  /\ cache = NewCache
  /\ source = 0
  /\ m_bStop = FALSE
  /\ m_seekEvent = FALSE /\ m_seekEnded = FALSE /\ m_StopEvent = FALSE
  /\ group = "none"
  /\ m_seekPossible \in BOOLEAN
  /\ m_seekPos = 0 /\ m_nSeekResult = "sought" /\ m_readPos = 0
  /\ fpc = "loop" /\ eof = FALSE /\ chunk = NoChunk
  /\ rpc = "idle" /\ target = 0
  /\ cpc = "open"
  /\ fault = {}

-------------------------------------------------------------------------------
(* The filler: Process *)

\* The source fails; it may do so while fewer than MaxFaults things have gone wrong.
Fails(f) ==
  /\ Cardinality(fault) < MaxFaults
  /\ fault' = fault \cup {f}

\* The test of m_bStop: the loop ends or its body begins.
LoopTop ==
  /\ fpc = "loop"
  /\ fpc' = IF m_bStop THEN "exit" ELSE "poll"
  /\ UNCHANGED <<cache, m_bStop, m_seekEvent, m_seekEnded, m_StopEvent, group, m_readPos,
                 seekVars, eof, chunk, source, readerVars, cpc, fault>>

\* No seek was asked for.
NoSeek ==
  /\ fpc = "poll"
  /\ ~m_seekEvent
  /\ fpc' = "fill"
  /\ UNCHANGED <<cache, m_bStop, m_seekEvent, m_seekEnded, m_StopEvent, group, m_readPos,
                 seekVars, eof, chunk, source, readerVars, cpc, fault>>

(***************************************************************************)
(* A seek was asked for: the source goes to the end of what will be cached *)
(* then.  If the source cannot do that the seek has ended all the same.    *)
(* (StopThread sets the event too, after the filler has tested m_bStop     *)
(* perhaps: it then seeks to an old m_seekPos once more.)                  *)
(***************************************************************************)
SeekSource ==
  /\ fpc = "poll"
  /\ m_seekEvent
  /\ m_seekEvent' = FALSE
  /\ LET newEnd == CachedDataEndPosIfSeekTo(cache, m_seekPos)
     IN
     /\ eof' = (newEnd = Length)
     /\ \/ /\ fpc' = "seek"
           /\ source' = IF eof' THEN source ELSE newEnd
           /\ m_nSeekResult' = IF eof' THEN m_nSeekResult ELSE "sought"
           /\ UNCHANGED <<m_seekPossible, fault>>
        \/ /\ ~eof'
           /\ Fails("seek")
           /\ fpc' = "sought"
           /\ m_nSeekResult' = "failed"
           /\ m_seekPossible' \in BOOLEAN
           /\ UNCHANGED source
  /\ UNCHANGED <<cache, m_bStop, m_seekEnded, m_StopEvent, group, m_readPos, m_seekPos,
                 chunk, readerVars, cpc>>

\* Mutant: the cache is not moved to the new position.
SeekCache_NoReset ==
  /\ fpc = "seek"
  /\ m_readPos' = m_seekPos
  /\ m_nSeekResult' = "sought"
  /\ fpc' = "sought"
  /\ UNCHANGED <<cache, m_bStop, m_seekEvent, m_seekEnded, m_StopEvent, group, m_seekPossible,
                 m_seekPos, eof, chunk, source, readerVars, cpc, fault>>

\* The source is there: the cache follows.
SeekCache ==
  /\ fpc = "seek"
  /\ cache' = Reset(cache, m_seekPos)
  /\ m_readPos' = m_seekPos
  /\ m_nSeekResult' = "sought"
  /\ fpc' = "sought"
  /\ UNCHANGED <<m_bStop, m_seekEvent, m_seekEnded, m_StopEvent, group, m_seekPossible,
                 m_seekPos, eof, chunk, source, readerVars, cpc, fault>>

\* m_seekEnded.Set().
SeekEnded ==
  /\ fpc = "sought"
  /\ m_seekEnded' = TRUE
  /\ fpc' = "fill"
  /\ UNCHANGED <<cache, m_bStop, m_seekEvent, m_StopEvent, group, m_readPos,
                 seekVars, eof, chunk, source, readerVars, cpc, fault>>

\* No room in the cache: wait 5 ms for some and begin again.
WaitForSpace ==
  /\ fpc = "fill"
  /\ GetMaxWriteSize(cache, ChunkSize) = 0 /\ ~eof
  /\ fpc' = "loop"
  /\ UNCHANGED <<cache, m_bStop, m_seekEvent, m_seekEnded, m_StopEvent, group, m_readPos,
                 seekVars, eof, chunk, source, readerVars, cpc, fault>>

\* The source delivers some of the bytes that fit.
ReadSource ==
  /\ fpc = "fill"
  /\ ~eof
  /\ \E n \in 1..GetMaxWriteSize(cache, ChunkSize) :
       /\ source + n <= Length
       /\ chunk' = [at |-> source, len |-> n]
       /\ source' = source + n
  /\ fpc' = "write"
  /\ UNCHANGED <<cache, m_bStop, m_seekEvent, m_seekEnded, m_StopEvent, group, m_readPos,
                 seekVars, eof, readerVars, cpc, fault>>

\* The source fails: the thread stops.
ReadFails ==
  /\ fpc = "fill"
  /\ ~eof /\ GetMaxWriteSize(cache, ChunkSize) > 0
  /\ m_bStop' = TRUE
  /\ Fails("read")
  /\ fpc' = "loop"
  /\ UNCHANGED <<cache, m_seekEvent, m_seekEnded, m_StopEvent, group, m_readPos,
                 seekVars, eof, chunk, source, readerVars, cpc>>

\* Nothing more to read, from the source or because all of it is cached.
HitEof ==
  /\ fpc = "fill"
  /\ eof \/ (source >= Length /\ GetMaxWriteSize(cache, ChunkSize) > 0)
  /\ cache' = EndOfInput(cache)
  /\ fpc' = "atEof"
  /\ UNCHANGED <<m_bStop, m_seekEvent, m_seekEnded, m_StopEvent, group, m_readPos,
                 seekVars, eof, chunk, source, readerVars, cpc, fault>>

\* Mutant: a stop that was signaled before the wait is not looked for.
BeginAbortableWait_NoStop ==
  /\ fpc = "atEof"
  /\ group' = IF m_seekEvent THEN "seek" ELSE "none"
  /\ fpc' = "waitSeek"
  /\ UNCHANGED <<cache, m_bStop, m_seekEvent, m_seekEnded, m_StopEvent, m_readPos,
                 seekVars, eof, chunk, source, readerVars, cpc, fault>>

\* AbortableWait: the group is built and scans its events.
BeginAbortableWait ==
  /\ fpc = "atEof"
  /\ group' = IF m_seekEvent THEN "seek" ELSE IF m_StopEvent THEN "stop" ELSE "none"
  /\ fpc' = "waitSeek"
  /\ UNCHANGED <<cache, m_bStop, m_seekEvent, m_seekEnded, m_StopEvent, m_readPos,
                 seekVars, eof, chunk, source, readerVars, cpc, fault>>

\* Mutant: the end-of-input flag stays after the wait.
SeekAtEof_KeepEof ==
  /\ fpc = "waitSeek"
  /\ group = "seek"
  /\ group' = "none"
  /\ m_seekEvent' = TRUE
  /\ fpc' = "loop"
  /\ UNCHANGED <<cache, m_bStop, m_seekEnded, m_StopEvent, m_readPos,
                 seekVars, eof, chunk, source, readerVars, cpc, fault>>

\* It returns WAIT_SIGNALED: m_seekEvent, which it has reset, is set again.
SeekAtEof ==
  /\ fpc = "waitSeek"
  /\ group = "seek"
  /\ group' = "none"
  /\ cache' = ClearEndOfInput(cache)
  /\ m_seekEvent' = TRUE
  /\ fpc' = "loop"
  /\ UNCHANGED <<m_bStop, m_seekEnded, m_StopEvent, m_readPos,
                 seekVars, eof, chunk, source, readerVars, cpc, fault>>

\* It returns WAIT_INTERRUPTED.
StopAtEof ==
  /\ fpc = "waitSeek"
  /\ group = "stop"
  /\ group' = "none"
  /\ fpc' = "exit"
  /\ UNCHANGED <<cache, m_bStop, m_seekEvent, m_seekEnded, m_StopEvent, m_readPos,
                 seekVars, eof, chunk, source, readerVars, cpc, fault>>

\* One round of the loop that writes the buffer, up to the look at m_seekEvent.
WriteChunk ==
  /\ fpc = "write"
  /\ \/ /\ m_bStop
        /\ fpc' = "loop"
        /\ chunk' = NoChunk
        /\ UNCHANGED cache
     \/ /\ ~m_bStop
        /\ LET k == WriteLen(cache, chunk.len)
           IN  /\ cache' = WriteToCache(cache, chunk.at, k)
               /\ chunk' = [at |-> chunk.at + k, len |-> chunk.len - k]
        /\ fpc' = "written"
  /\ UNCHANGED <<m_bStop, m_seekEvent, m_seekEnded, m_StopEvent, group, m_readPos,
                 seekVars, eof, source, readerVars, cpc, fault>>

\* A seek breaks off the writing; the rest of the buffer is forgotten.
AfterWrite ==
  /\ fpc = "written"
  /\ IF m_seekEvent \/ chunk.len = 0
     THEN fpc' = "loop" /\ chunk' = NoChunk
     ELSE fpc' = "write" /\ UNCHANGED chunk
  /\ UNCHANGED <<cache, m_bStop, m_seekEvent, m_seekEnded, m_StopEvent, group, m_readPos,
                 seekVars, eof, source, readerVars, cpc, fault>>

\* OnExit; then the thread sets m_TermEvent.
OnExit ==
  /\ fpc = "exit"
  /\ m_bStop' = TRUE
  /\ cache' = EndOfInput(cache)
  /\ m_seekEnded' = TRUE
  /\ fpc' = "ended"
  /\ UNCHANGED <<m_seekEvent, m_StopEvent, group, m_readPos,
                 seekVars, eof, chunk, source, readerVars, cpc, fault>>

Filler ==
  \/ LoopTop \/ NoSeek \/ SeekSource \/ SeekCache \/ SeekEnded \/ WaitForSpace \/ ReadSource
  \/ ReadFails \/ HitEof \/ BeginAbortableWait \/ SeekAtEof \/ StopAtEof
  \/ WriteChunk \/ AfterWrite \/ OnExit

-------------------------------------------------------------------------------
(* Signals *)

(***************************************************************************)
(* The second half of CEvent::Set: the group of AbortableWait is told, if  *)
(* there is one by now.  The first half sets the event's flag; the filler  *)
(* may have taken the flag in between and handled all it stood for.        *)
(***************************************************************************)
TellGroup(e, flag) ==
  /\ group' = IF fpc = "waitSeek" THEN e ELSE group
  /\ fault' = IF fpc = "waitSeek" /\ ~flag THEN fault \cup {"late"} ELSE fault

-------------------------------------------------------------------------------
(* The reader: Read and Seek, under CFileCache::m_sync *)

\* A call of Read begins, or goes on after its wait for data.
Reading == rpc = "readWait" \/ (rpc = "idle" /\ cpc = "open")

\* Read(n) finds data and delivers it, perhaps after a wait for it.
ReadData ==
  /\ Reading
  /\ Front(cache) > 0
  /\ \E n \in 1..MaxRead :
       LET k == ReadLen(cache, n)
       IN  /\ cache' = ReadFromCache(cache, k)
           /\ m_readPos' = m_readPos + k
  /\ rpc' = "idle"
  /\ UNCHANGED <<m_bStop, m_seekEvent, m_seekEnded, m_StopEvent, group,
                 seekVars, fillerVars, target, cpc, fault>>

\* The next Read will find nothing, and that the input has ended.
SeesEof == Reading /\ Front(cache) = 0 /\ cache.eoi

\* It returns 0.
ReadEof ==
  /\ SeesEof
  /\ rpc' = "idle"
  /\ UNCHANGED <<cache, m_bStop, m_seekEvent, m_seekEnded, m_StopEvent, group, m_readPos,
                 seekVars, fillerVars, target, cpc, fault>>

\* CACHE_RC_WOULD_BLOCK: WaitForData(1, 10000).
ReadWaits ==
  /\ rpc = "idle" /\ cpc = "open"
  /\ Front(cache) = 0 /\ ~cache.eoi
  /\ rpc' = "readWait"
  /\ UNCHANGED <<cache, m_bStop, m_seekEvent, m_seekEnded, m_StopEvent, group, m_readPos,
                 seekVars, fillerVars, target, cpc, fault>>

\* No data within ten seconds: WaitForData returns 0, and so does Read.
ReadTimesOut ==
  /\ rpc = "readWait"
  /\ Front(cache) = 0 /\ ~cache.eoi
  /\ rpc' = "idle"
  /\ UNCHANGED <<cache, m_bStop, m_seekEvent, m_seekEnded, m_StopEvent, group, m_readPos,
                 seekVars, fillerVars, target, cpc, fault>>

(***************************************************************************)
(* Seek to t: the cache has it, or it may have it soon (SeekWaits), or the *)
(* filler has to be asked, which takes a source that can seek.             *)
(***************************************************************************)
Seek(t) ==
  /\ rpc = "idle" /\ cpc = "open"
  /\ t # m_readPos
  /\ \/ /\ SeekWaits(cache, t)
        /\ cache' = SeekToEnd(cache)
        /\ rpc' = "seekWait" /\ target' = t
        /\ UNCHANGED <<m_nSeekResult, m_readPos>>
     \/ /\ ~SeekWaits(cache, t) /\ IsCachedPosition(cache, t)
        /\ cache' = SeekTo(cache, t)
        /\ m_nSeekResult' = "sought" /\ m_readPos' = t
        /\ UNCHANGED <<rpc, target>>
     \/ /\ ~SeekWaits(cache, t) /\ ~IsCachedPosition(cache, t)
        /\ m_nSeekResult' = "failed"
        /\ IF m_seekPossible THEN rpc' = "request" /\ target' = t
                             ELSE UNCHANGED <<rpc, target>>
        /\ UNCHANGED <<cache, m_readPos>>
  /\ UNCHANGED <<m_bStop, m_seekEvent, m_seekEnded, m_StopEvent, group, m_seekPossible,
                 m_seekPos, fillerVars, cpc, fault>>

\* The cache's wait for a position a little ahead ends, in time or not.
SeekWaitEnds ==
  /\ rpc = "seekWait"
  /\ \/ /\ IsCachedPosition(cache, target)
        /\ cache' = SeekTo(cache, target)
        /\ m_nSeekResult' = "sought" /\ m_readPos' = target
        /\ rpc' = "idle" /\ target' = 0
     \/ /\ ~IsCachedPosition(cache, target)
        /\ m_nSeekResult' = "failed"
        /\ IF m_seekPossible THEN rpc' = "request" /\ UNCHANGED target
                             ELSE rpc' = "idle" /\ target' = 0
        /\ UNCHANGED <<cache, m_readPos>>
  /\ UNCHANGED <<m_bStop, m_seekEvent, m_seekEnded, m_StopEvent, group, m_seekPossible,
                 m_seekPos, fillerVars, cpc, fault>>

\* The filler is asked, for a position not too close to the end: m_seekEvent.Set().
RequestSeek ==
  /\ rpc = "request"
  /\ m_seekPos' = AtMost(target, AtLeast(0, Length - ChunkSize))
  /\ m_seekEvent' = TRUE
  /\ rpc' = "telling"
  /\ UNCHANGED <<cache, m_bStop, m_seekEnded, m_StopEvent, group, m_seekPossible, m_nSeekResult,
                 m_readPos, fillerVars, target, cpc, fault>>

TellFiller ==
  /\ rpc = "telling"
  /\ TellGroup("seek", m_seekEvent)
  /\ rpc' = "waitEnded"
  /\ UNCHANGED <<cache, m_bStop, m_seekEvent, m_seekEnded, m_StopEvent, m_readPos,
                 seekVars, fillerVars, target, cpc>>

\* m_seekEnded.Wait() returns.
SeekAnswered ==
  /\ rpc = "waitEnded"
  /\ m_seekEnded
  /\ m_seekEnded' = FALSE
  /\ rpc' = IF m_seekPos < target THEN "remain" ELSE "finish"
  /\ UNCHANGED <<cache, m_bStop, m_seekEvent, m_StopEvent, group, m_readPos,
                 seekVars, fillerVars, target, cpc, fault>>

\* The cache seeks to p if it has it; CFileCache does not look at the result here.
SeekIfCached(c, p) == IF IsCachedPosition(c, p) THEN SeekTo(c, p) ELSE c

(***************************************************************************)
(* WaitForData for the bytes from m_seekPos to the target ends, in time    *)
(* with the data (the cache then seeks to the target, which may take       *)
(* another wait) or without.                                               *)
(***************************************************************************)
RemainingData ==
  /\ rpc = "remain"
  /\ \/ /\ Front(cache) >= target - m_seekPos
        /\ IF SeekWaits(cache, target)
           THEN cache' = SeekToEnd(cache) /\ rpc' = "remainWait"
           ELSE cache' = SeekIfCached(cache, target) /\ rpc' = "finish"
        /\ UNCHANGED target
     \/ /\ Front(cache) < target - m_seekPos
        /\ rpc' = "idle" /\ target' = 0
        /\ UNCHANGED cache
  /\ UNCHANGED <<m_bStop, m_seekEvent, m_seekEnded, m_StopEvent, group, m_readPos,
                 seekVars, fillerVars, cpc, fault>>

\* That wait of the cache ends, in time or not.
RemainingWaitEnds ==
  /\ rpc = "remainWait"
  /\ cache' = SeekIfCached(cache, target)
  /\ rpc' = "finish"
  /\ UNCHANGED <<m_bStop, m_seekEvent, m_seekEnded, m_StopEvent, group, m_readPos,
                 seekVars, fillerVars, target, cpc, fault>>

\* The end of Seek; it returns m_nSeekResult, which is what the filler left there.
FinishSeek ==
  /\ rpc = "finish"
  /\ m_readPos' = target
  /\ m_seekEvent' = FALSE
  /\ target' = 0
  /\ rpc' = "idle"
  /\ UNCHANGED <<cache, m_bStop, m_seekEnded, m_StopEvent, group,
                 seekVars, fillerVars, cpc, fault>>

Reader ==
  \/ ReadData \/ ReadEof \/ ReadWaits \/ ReadTimesOut
  \/ \E t \in 0..Length : Seek(t)
  \/ SeekWaitEnds \/ RequestSeek \/ TellFiller \/ SeekAnswered
  \/ RemainingData \/ RemainingWaitEnds \/ FinishSeek

\* The reader goes on with a call that it has begun.
ReaderGoesOn ==
  \/ (rpc # "idle" /\ (ReadData \/ ReadEof)) \/ ReadTimesOut
  \/ SeekWaitEnds \/ RequestSeek \/ TellFiller \/ SeekAnswered
  \/ RemainingData \/ RemainingWaitEnds \/ FinishSeek

-------------------------------------------------------------------------------
(* Close, by any thread *)

\* StopThread: m_bStop and the flag of m_seekEvent.
Close ==
  /\ cpc = "open"
  /\ m_bStop' = TRUE
  /\ m_seekEvent' = TRUE
  /\ cpc' = "tellSeek"
  /\ UNCHANGED <<cache, m_seekEnded, m_StopEvent, group, m_readPos,
                 seekVars, fillerVars, readerVars, fault>>

CloseTellsSeek ==
  /\ cpc = "tellSeek"
  /\ TellGroup("seek", m_seekEvent)
  /\ cpc' = "stop"
  /\ UNCHANGED <<cache, m_bStop, m_seekEvent, m_seekEnded, m_StopEvent, m_readPos,
                 seekVars, fillerVars, readerVars>>

\* CThread::StopThread: m_StopEvent.
StopThread ==
  /\ cpc = "stop"
  /\ m_bStop' = TRUE
  /\ m_StopEvent' = TRUE
  /\ cpc' = "tellStop"
  /\ UNCHANGED <<cache, m_seekEvent, m_seekEnded, group, m_readPos,
                 seekVars, fillerVars, readerVars, fault>>

CloseTellsStop ==
  /\ cpc = "tellStop"
  /\ TellGroup("stop", m_StopEvent)
  /\ cpc' = "join"
  /\ UNCHANGED <<cache, m_bStop, m_seekEvent, m_seekEnded, m_StopEvent, m_readPos,
                 seekVars, fillerVars, readerVars>>

\* The thread has ended and no call has m_sync: the buffer is deleted.
Closed ==
  /\ cpc = "join"
  /\ fpc = "ended"
  /\ rpc = "idle"
  /\ cpc' = "closed"
  /\ UNCHANGED <<cache, m_bStop, m_seekEvent, m_seekEnded, m_StopEvent, group, m_readPos,
                 seekVars, fillerVars, readerVars, fault>>

Closer == Close \/ CloseTellsSeek \/ StopThread \/ CloseTellsStop \/ Closed

Next == Filler \/ Reader \/ Closer

Spec == Init /\ [][Next]_vars

(***************************************************************************)
(* The filler runs and the source answers its calls.  A call of Read or    *)
(* Seek goes on, its timed waits end, and so does a Close that has begun.  *)
(***************************************************************************)
FairSpec ==
  /\ Spec
  /\ WF_vars(Filler) /\ WF_vars(ReaderGoesOn)
  /\ WF_vars(CloseTellsSeek) /\ WF_vars(StopThread) /\ WF_vars(CloseTellsStop)
  /\ WF_vars(Closed)

-------------------------------------------------------------------------------
(* Properties *)

\* The type of every variable, and the order of the cache's positions.
TypeOK ==
  /\ cache \in CacheType /\ Positions(cache)
  /\ source \in Nat
  /\ {m_bStop, m_seekEvent, m_seekEnded, m_StopEvent, m_seekPossible, eof} \subseteq BOOLEAN
  /\ group \in {"none", "seek", "stop"}
  /\ m_seekPos \in 0..Length /\ m_nSeekResult \in {"sought", "failed"} /\ m_readPos \in Nat
  /\ fpc \in {"loop", "poll", "seek", "sought", "fill", "write", "written", "atEof", "waitSeek",
              "exit", "ended"}
  /\ chunk \in [at : Nat, len : 0..ChunkSize]
  /\ rpc \in {"idle", "readWait", "seekWait", "request", "telling", "waitEnded", "remain",
              "remainWait", "finish"}
  /\ target \in 0..Length
  /\ cpc \in {"open", "tellSeek", "stop", "tellStop", "join", "closed"}
  /\ fault \subseteq {"seek", "read", "late"}

(***************************************************************************)
(* Between calls the position that the next Read is said to begin at is    *)
(* the cache's, whatever way the last seek went: in the cache, a little    *)
(* ahead of it, through the filler, or given up for lack of data.          *)
(***************************************************************************)
PositionAgrees ==
  rpc = "idle" /\ cpc = "open" /\ fault = {} /\ m_seekPossible => cache.cur = m_readPos

(***************************************************************************)
(* Read delivers the bytes of the source at the cache's position, in order *)
(* and without a gap, although the filler writes, wraps, throws away what  *)
(* it had read for a seek, and moves the source meanwhile.                 *)
(***************************************************************************)
ReadDelivers ==
  [][ReadData /\ fault \cap {"seek", "late"} = {} =>
       LET k == m_readPos' - m_readPos
       IN  BytesRead(cache, k) = [i \in 1..k |-> cache.cur + i - 1]]_vars

(***************************************************************************)
(* Read returns 0 for the end of the file at the end of the file only: the *)
(* flag of an earlier end of the input does not outlive a seek away.  (Of  *)
(* a source that cannot seek, a seek that fails skips what is cached.)     *)
(***************************************************************************)
EofIsTheEnd ==
  SeesEof /\ m_seekPossible => m_readPos >= Length \/ fault # {} \/ m_bStop

(***************************************************************************)
(* A call of Read or Seek returns, also when the file is closed meanwhile  *)
(* or the source cannot seek, as long as the source delivers.  So does     *)
(* Close: the filler sees the stop wherever it is, and a call that is      *)
(* under way lets go of m_sync.                                            *)
(***************************************************************************)
CallsReturn ==
  /\ rpc # "idle" ~> rpc = "idle" \/ "read" \in fault
  /\ cpc # "open" ~> cpc = "closed" \/ "read" \in fault

(***************************************************************************)
(* OnExit sets m_seekEnded "just in case someone's waiting...": also after *)
(* the source has failed a Read or Seek returns.                           *)
(***************************************************************************)
CallReturnsAfterFailure ==
  rpc # "idle" ~> rpc = "idle"

===============================================================================
