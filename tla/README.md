# Formal models of the job system, the threading primitives and what is built on them

This directory specifies parts of the media centre in `src/xbmc` in TLA+: what each
part's state is, what steps its threads can make, and what must hold whatever the order of
those steps. TLC checks the specifications on small instances, TLAPS proves most of their
invariants, and the refinements, for every instance. `PROJECT.json` lists components, runs, theorems, hazards
and, for each definition, the lines of C++ it stands for.

## 1. Inventory

### The core: threads, locks, jobs

| component | state | operations | how it interacts | hard behaviour | what makes it correct |
|---|---|---|---|---|---|
| `CJobManager` (`utils/JobManager.cpp`) | a queue per priority, `m_processing`, the list of workers, `m_running`, `m_pauseJobs`, a counter for ids, an auto-reset event | `AddJob`, `CancelJob`, `PauseJobs`, `UnPauseJobs`, `CancelJobs`, `Restart`; in workers `GetNextJob`, `OnJobProgress`, `OnJobComplete` | called by every part of the program; calls the clients' `IJobCallback` with no lock held | workers that sleep, time out and leave; callbacks copied before the lock is left; cancel against completion | a job has one owner, is never lost, high priorities find a worker, nothing runs after `CancelJobs` |
| `CJobQueue` (same file) | the jobs that wait, the entries handed to the manager | `AddJob`, `CancelJob`, `CancelJobs`, `OnJobComplete`, `QueueNextJob` | a client of `CJobManager`; base of `CTextureCache`, the thumb loaders, `CCDDARipper`, the file manager and others | entries against the manager's own list, equality of jobs instead of identity, late completions | jobs are unique, at most `m_jobsAtOnce` handed over, one owner deletes, the queue never stops |
| `CEvent`, `CEventGroup` (`threads/Event.*`) | flag, waiters, the group's flag and waiters | `Set`, `Reset`, `Wait`, `WaitMSec`, the group's `wait` | every thread; `CThread::AbortableWait` and `XBPython` use groups | `Set` in two critical sections, an auto-reset event with several waiters, a flag shared by a group's waiters | no signal lost or taken from a waiter |
| `CSharedSection` (`threads/SharedSection.h`) | recursive mutex, count of readers, condition variable | exclusive and shared lock, try and unlock | settings, the render manager, the player's clock, PAPlayer, VDPAU and VAAPI | wait and notify against readers, nesting | exclusion, exact count, no forgotten writer |
| `CThread`, `CTimer` | thread id, stop flag, start, stop and termination events; the timer's event and end time | `Create`, `StopThread`, `WaitForThreadExit`, the destructors; `Start`, `Stop`, `Restart` | base of most of the threads | destruction or another start against the end of the thread; a 32-bit clock | one thread at a time in `Process`, a stop that waits has waited, nothing used after the delete |
| Lock-free stack and queue | tagged pointers | push, pop | nothing but its own tests uses it at this commit | reuse of a node (ABA) | linearizable |

### What sits on the core

| component | state | operations | how it interacts | hard behaviour | what makes it correct |
|---|---|---|---|---|---|
| `Actor::Protocol` (`utils/ActorProtocol.cpp`) | two message queues, a pool of messages, per message the flags of its two owners | send with or without wait, reply, release, receive, purge | ActiveAE and its sink, VDPAU, VAAPI | a late reply against a time limit; disposal with messages under way | a message is freed once, by the last who has it; a call gets its answer or none |
| `CFileCache` on `CCircularCache` (`filesystem/`) | positions of the source, the cache and the reader; the buffer; three events | a filling thread; `Read`, `Seek`, `Close` | every file that is played or scanned over a slow path | a seek against the filling thread, the wrap of the buffer, close against a wait | positions agree, the bytes are the file's, every call returns |
| `CDVDMessageQueue`, `CDVDMsgGeneralSynchronize` and the threads of the player (`cores/dvdplayer/`) | a list sorted by priority, its data size, an event; per synchronize message who has arrived and its references | `Put`, `Get`, `Flush`, `Abort`, `End`; `Wait`, `Release` | the player's thread sends packets and commands to its audio and video players | flush against packets already taken, threads that wait for one another while more messages come, close | threads meet, nothing old is left after a flush, commands are heeded |
| `CGenericTouchInputHandler` (`input/touch/generic/`) | the state of the gesture, the pointers, the hold timer | `UpdateTouchPointer`, `HandleTouchInput`, `OnTimeout` | Android's input thread calls it; the hold timer is a `CTimer` | a timer that expires while it is stopped, fingers that are lifted in any order | the state of the gesture agrees with the fingers; every event is handled |

Not modelled yet:

* `CTextureCache`, `CGUILargeTextureManager`: images being cached, by URL; duplicates cancel
  one another through `CJobQueue`; callers poll for the end of a job.
* `CApplicationMessenger`: messages to the GUI thread, with and without wait.
* `CBackgroundInfoLoader`: threads that fill in a list of items until they are stopped.
* `CAnnouncementManager`, `CAlarmClock`, `CPlayListPlayer`, `CPVRManager`, `CEpgContainer`,
  `CSettingsManager`, `CXBMCRenderManager`, ActiveAE: their own state machines.
* MatchStick and Fling, the fork's own part (`matchstick/`, `android/jni/MatchStickApi.cpp`,
  `project/flint_xbmc`): a dialog that connects to a device, plays, seeks and disconnects; a
  broadcast receiver that carries the commands out and reports back; callbacks of the Flint
  library; a thread that lists the devices every 5 s. They share an answer, a device list and
  a play status without a lock, and the dialog keeps its own idea of whether it is connected.

Codecs, skins, databases, add-ons, network protocols and everything under `lib/` are I/O,
formats, layout or vendored code, and stay outside.

## 2. Plan

Done, in this order:

1. `CEvent`, `JobManager`, `JobService`, `JobManagerImpl`: the thread pool and what it promises.
2. `JobQueue` on top of `JobManager`.
3. `EventGroup` on top of `CEvent`; `SharedSection`.
4. `JobManagerProofs`, `SharedSectionProofs`.
5. `CircularCache` and, on top of it, `FileCache`.
6. `SyncCalls` and `ActorProtocol`, which implements it.
7. `DVDMessageQueue` and, on top of it, `PlayerQueues`.
8. `Thread`, on top of it `Timer`, and on top of both `Touch`.
9. `JobManagerProofs` goes on to the refinement of `JobService`; `ThreadProofs`, `EventGroupProofs`,
   `ActorProtocolProofs`, `JobQueueProofs`, `FileCacheProofs`; `ThreadProofs` goes on to `Touch`.
10. `PlayerQueuesProofs`. With it every safety property of the runs is a theorem.

Later modules, as far as models go: `Cast` (the dialog, receiver and discovery thread of the
fork), `TextureCache` composed with `JobQueue`, the clock of `CTimer` and of the timed waits, the
delayed settings of `CGUIDialogSettingsBase` on `Timer`, `LockFree`, `BackgroundInfoLoader`,
`ApplicationMessenger` with its locks as state.

## 3. Modules

### Common conventions

A critical section is one step: the code between two points where its lock is free. Where
the code leaves a lock in the middle (`lock.Leave()`, a condition variable, a call of a
client), there are two steps, and every other thread may run between them. A thread that
can be at several such points has a program counter. A value the code holds in a local
variable over such a point (`held`, `copied`, `target`, `setting`) is a variable.
Definitions named `X_Something` next to `X` with a comment "Mutant" are wrong variants of
`X`. They are in no specification; they serve to show that each property can fail.

### `CEvent`

The value of an event and its methods as operators. `waiters` is the set of threads the
code counts in `numWaits`. A wait is `BeginWait` and `EndWait`, or `PassThrough` when the
event is set. The condition variable re-tests its predicate, so a spurious wakeup changes
nothing.

### `JobManager`

| specification | code |
|---|---|
| `m_jobQueue`, `m_processing`, `m_workers`, `m_jobEvent`, `m_running`, `m_pauseJobs`, `m_jobCounter` | the members of the same name |
| `item[j]` | the `CWorkItem` of a job (id, callback, priority) |
| `heap` | the `CJob` objects handed over and not deleted |
| `pc`, `held`, `copied` | of a worker thread: its place in `Process`, `GetNextJob`, `OnJobProgress`, `OnJobComplete`; its job; the callback in its copy of the item |
| `AddJob`, `CancelJob`, `PauseJobs`, `UnPauseJobs`, `Restart` | the methods; one step each |
| `CancelJobs`, `DrainRound`, `Drained` | `CancelJobs` up to its loop, one round, its end |
| `TakeJob`, `GoToSleep`, `WaitJobEvent`, `WakeUp`, `RemoveWorker`, `EndThread` | `GetNextJob` cut at `lock.Leave()` and at the wait; the end of the thread with the destructor's second `RemoveWorker` |
| `OnJobProgress`, `ProgressReturns` | `CJob::ShouldCancel` |
| `OnJobComplete`, `CallClient`, `ClientReturns`, `FreeJob` | `OnJobComplete` cut at the call of the client |

The time limit of 30 seconds is a choice: a wait may end at any time. A job's address may
be used again when the job was deleted. The last part of `OnJobComplete` erases the item
under the lock and deletes the job after it: nobody else can reach the job by then, so this
is one step. `DoWork` and the client's callbacks may do anything that is one of the client
steps. Exceptions of both are caught in the code and end the call.

`JobService` says what clients may rely on: a job is submitted, started, ended and reported
to its client, unless cancelled before its end. A service that has stopped has no job and
makes no report. `JobManagerImpl` reads that state off the queues and the workers.

### `JobQueue`

EXTENDS `JobManager`: the queue is one more callback, its jobs are run by the manager's
workers. `waiting` is `CJobQueue::m_jobQueue`, `inProcess` its `m_processing`, `key` what
`operator==` of the jobs compares. `QAddJob`, `QOnJobComplete` and `QCancelJob` are the
methods with the nested call of the manager; `CancelJobs` is cut into one step per call of
the manager and holds the queue's lock in between. An entry may point to a job that the
manager has deleted. A comparison through it reads freed memory, and both answers are
possible (`Find`).

### `EventGroup`

One group over all the events. `SetFlag` and `SetGroup` are the two critical sections of
`CEvent::Set`. `GroupWait`, `GroupWake` and `GroupTimeout` are `CEventGroup::wait` up to and
after its block; `ResetReturned` and `ResetTimeout` are the `WaitMSec(0)` with which the
last thread to leave resets the event, with the group's mutex locked all the while
(`MutexFree`). `Wait` and `WaitReturns` are the event's own waits. The history variable `owed` is the
threads that were blocked on their event when it was set, with no `Reset` since: `WaitersReleased`
says what their waits return.

### `SharedSection`

The owner and depth of the recursive mutex, the count, who holds which `CSharedLock`, and
for each thread whether it is blocked in the condition variable or notified. A thread that
holds a shared lock may not ask for the exclusive one: it would wait for itself. The proof
shows that the thread which waits never owns an outer level of the mutex
(`WaitsForOthers`), so what a condition variable does with a doubly locked mutex plays no part.

### `CircularCache`, `FileCache`

`CircularCache` is the value of a cache and its methods as operators. A byte of the file is
represented by its position, so the buffer shows where each byte came from, and a read past
the end of the buffer yields `NoByte`.

| specification | code |
|---|---|
| `cache`, `source` | `*m_pCache`; the position of `m_source` |
| `m_seekEvent`, `m_seekEnded`, `m_StopEvent`, `group` | the events, each with one waiter and so a flag; what `AbortableWait`'s group was told |
| `fpc`, `eof`, `chunk` | the filling thread's place in `Process`, `cacheReachEOF`, the rest of its buffer |
| `rpc`, `target` | the reader's place in `Read` or `Seek`, `iTarget` |
| `cpc` | the place in `Close` of the thread that closes |
| `LoopTop`, `NoSeek`, `SeekSource`, `SeekCache`, `SeekEnded` | `Process`, l.232-264 |
| `WaitForSpace`, `ReadSource`, `ReadFails`, `HitEof`, `WriteChunk`, `AfterWrite` | l.284-347 |
| `BeginAbortableWait`, `SeekAtEof`, `StopAtEof`, `OnExit` | the wait at the end of the file, `OnExit` |
| `Read...`, `Seek...`, `RequestSeek`, `TellFiller`, `RemainingData`, `RemainingWaitEnds`, `FinishSeek` | `Read` and `Seek`, cut where they leave the cache's lock or signal the filling thread |
| `Close`, `CloseTellsSeek`, `StopThread`, `CloseTellsStop`, `Closed` | `Close` with both `StopThread`s |

`TellGroup` is the second critical section of `CEvent::Set`: the group that exists by then is
told of the event, even when its flag has been taken in between. The history variable `fault`
records that this has happened (`late`), or that the source has failed; the properties say
which of these they bear. Timed waits of 5 and 50 ms may end at any time; the limit on the
write rate delays only, and has no step.

### `SyncCalls`, `ActorProtocol`

`SyncCalls` is what a caller of `SendOutMessageSync` may rely on: it asks, is answered at
most once, and returns with the answer, or gives up while there is none and never gets one.
`ActorProtocol` has messages with the flags of the code, the queues of a port, the pool, any
number of senders, and the loop of `CActiveAESink` with its event, time limit and
self-trigger. `GiveUp` and `StoreReply` are the two critical sections of the port that settle
a late reply. `Dispose`, `PurgeMessage` and `Start` are the end of the actor and its next
start. Signals are left out, so `PurgeOut` takes any of the messages in the queue, calls among them
(the program's two calls of it purge `DEVICECHANGE`, which is sent without wait). Messages that it or the
end of the thread drop without a `Release` are in `dropped`. A message is reset when it is freed, which `GetMessage` does in the code: nobody
looks at it in between, and `FreedOnce` says so.

### `DVDMessageQueue`, `PlayerQueues`

`DVDMessageQueue` is the value of a queue and its operations as operators; `Get` is cut where
it leaves the lock to wait. In `PlayerQueues` a handler of the player's thread (`OpenStream`,
`ProcessPacket`, `SetSpeed`, `FlushBuffers` in its two forms, `CloseStream` with and without
the wait for an empty queue) puts the calls it makes into `todo`, and the actions `DoPut`,
`DoFlush`, `DoAbort`, `DoJoin` and so on make them one at a time, so that the two threads of
the streams run in between. `sync` has for each synchronize message its `sources`, who has
`reached` it and its references, which `Wait` compares; `late`, `passed` and `stopped` are
history. A handler that puts one message is one step. `Entries` and `m_iDataSize`'s `Counted` are
sizes of sets of places in the list, so that proofs can count. Packets carry the number of flushes
before them (`now`), which is how `Settled` tells old ones.

### `Thread`, `Timer`, `Touch`

A `CThread` may have several threads: one that has set `m_ThreadId` to 0 and not yet left its
function, and the one created after it. `tpc` has the place of each.

| specification | code |
|---|---|
| `EndThread`, `SetTermEvent`, `LeaveThread` | the end of `staticThread`, with `m_CriticalSection` from the first to the last |
| `CreateThread`, `StopThread`, `TestThreadId`, `ThreadExited` | the owner: `Create` when not running, `StopThread` cut at its lock and its wait |
| `Delete`, `BaseDestructor`, `FreeThread` | the destructor of the derived class and `~CThread`, each with a `StopThread(true)` |
| `waited`, `early` | history: a stop with wait has returned; the last `Create` came between `m_ThreadId = 0` and `m_TermEvent.Set()` of the thread before |
| `Timer.Process`, `Start`, `SetStop` | `CTimer::Process` around its callback, `Start`, `Stop` cut after its test |
| `Touch.Screen` | Android's events: `onTouchEvent` and the update of the pointers |
| `HandleFirstDown` ... `PointerMove` | `HandleTouchInput`, by event and state, cut where it stops the timer, with `m_critical` all the while |
| `OnTimeout` | the timer's callback, which needs `m_critical` |

`Touch` starts its timer whenever it is not running, so the threads of two touches overlap.
The fingers on the screen (`fingers`) are Android's; the handler knows them by index only. There are at
most two, as `TOUCH_MAX_POINTERS` has it, and a finger that comes down gets any index; the
others behind it move up. A third finger is not modelled: the handler refuses events of an
index above 1 (l.55), and with three fingers "two" in `StateMeansFingers` would be "two at least".

## 4. Runs

| run | instance | states | shows |
|---|---|---|---|
| `manager` | 2 jobs, 2 threads, 3 priorities, `max_workers` 3, ids 1 to 2 | 99,622 | the safety invariants, ids that skip 0, the refinement of `JobService`; jobs are served, `CancelJobs` returns, taken jobs are completed |
| `queue` | 3 jobs, 3 keys, 2 threads, one job at once, cancellations, stop of the manager | 135,240 | uniqueness, one owner, every entry is answered, entries never exceed their limit |
| `events` | an auto-reset and a manual-reset event, 2 group waiters, 2 event waiters, 2 setters | 120,768 | no signal lost on the way to the group, a thread blocked on an event that is set is told so, group waiters are released |
| `shared` | 3 threads, 3 shared locks, 2 nested exclusive locks | 502 | exclusion, count, no forgotten writer, starvation only by readers |
| `filecache` | a file of 3 bytes, a cache of 2, pieces of 2, one fault | 296,546 | reader and cache agree, the bytes are the file's, end of file only at the end, every call and `Close` return |
| `actor` | 2 senders, 4 messages | 1,004,140 | freed once, none lost, no sleep on a message or a stop, the refinement of `SyncCalls` |
| `players` | both players, 2 handlers, 2 synchronize messages, a decoder reset | 524,032 | threads meet, a flush and a wait for an empty queue keep their word, commands are heeded, the data size is exact |
| `thread` | 3 threads for one `CThread` | 644 | one thread in `Process`, a stop that waits has waited, nothing used after the delete, stop and destructor return |
| `touch` | 2 fingers, 2 threads for the timer | 114,916 | the state of the gesture agrees with the fingers |

Every module states a type invariant. It is a property of a run where it says more than types:
the bound on the entries in process (`JobQueue`), the order of the positions (`CircularCache`), a message
wherever a place needs one (`ActorProtocol`), the exact data size (`PlayerQueues`). That of
`JobManager` also admits the id 0, which an item has that was never used; that no job the manager
holds has it is `HeldIdsValid`.

### Disagreements between documents and code

Three runs check a sentence of the documentation and find a behaviour that contradicts it.

| run | property | what happens |
|---|---|---|
| `queue_stall` | `QueueServed` | `CJobQueue::CancelJob` of the job in process (l.105-121) frees its place and queues no other; the cancelled job's `OnJobComplete` never comes. `CTextureCache::OnJobProgress` cancels duplicates this way |
| `filecache_hang` | `CallReturnsAfterFailure` | `OnExit` sets `m_seekEnded` once, "just in case someone's waiting..." (`FileCache.cpp` l.365). After the source has failed a read, the first seek outside of the cache takes that signal and the second waits for ever, with `m_sync` held: `Close` never returns |
| `touch_deadlock` | `HandleReturns` | the second finger comes down when the hold timer has just expired: `HandleTouchInput` has `m_critical` and waits in `Stop(true)` (l.114) for the timer's thread, which waits for `m_critical` in `OnTimeout` (l.330) |

### Further observations, without a run

The job manager and its queue:

* `UnPauseJobs` (l.310-314) wakes nobody. A pausable job queued during the pause waits for
  another job to be added, or for a worker's time limit if one is still there. `JobServed`
  therefore speaks of the priorities above.
* An `OnJobComplete` under way when its job is cancelled erases the entry of a newer, equal
  job (l.98). `CancelJobs` and the destructor then leave that job with a callback into the
  queue, and a queue with `m_jobsAtOnce` 1 hands over another: TLC finds two of its jobs, neither
  of them cancelled, running at once.
* A cancelled job still runs when the next one of a sequential queue is handed over (l.111).
* A worker that has copied the work item (l.399) calls `OnJobComplete` after `CancelJob` has
  returned, which `JobManager.h` l.107 excludes.
* `IsProcessing` answers "nothing" while jobs are paused, also for priorities that pausing
  does not hold back (l.320, l.336). Two jobs added before an idle worker has woken up start
  no second worker (l.270). A job that a stopped manager refuses is deleted by nobody, and
  its entry in a `CJobQueue` keeps its place.

Events: a group wait can be woken by the second half of a `Set` whose signal another thread
had taken before that wait began, and return an event that was not signaled meanwhile.

The file cache:

* The same late notification makes the filling thread handle a seek twice; when the reader
  has gone on in between, `assert(m_writePos == cacheMaxPos)` (`FileCache.cpp` l.256) can fail.
* When the source fails a seek, `Seek` still sets `m_readPos` to the target (l.471), and the piece
  of the buffer that the seek interrupted is dropped: what is cached afterwards has a gap.
  `ReadDelivers` and `PositionAgrees` therefore exclude it.
* For a source that cannot seek, a failed seek a little ahead leaves the cache at its end with
  `m_readPos` unchanged: the unread bytes are skipped.
* A `Read` that waits 10 s in vain returns 0 (l.404-416), which callers take for the end.

The actor: `PurgeIn` and `PurgeOut` drop messages without `Release`; the sender of a call
among them waits for its whole limit, and nobody frees the message. A message kept for the self-trigger when the thread
stops is not released either. A `NEWSTREAM` that timed out but is handled nevertheless leaves
a stream nobody owns.

The player: `CDVDMsgGeneralSynchronize::Release` decrements `m_refs` under the message's own
lock with `--m_refs` (`DVDMessage.cpp` l.100), `Acquire` increments it atomically without that lock
(`DVDResource.h` l.32): an update can be lost. A waiter that has left because its time was over
stays counted in `reached`, so that another passes without the third. `GetLevel`
(`DVDMessageQueue.cpp` l.260) computes `100 * m_iDataSize` in an `int`, which overflows from 21 MiB on.

Threads and timers:

* An owner that goes by `IsRunning` and calls `Create` between l.136 and l.137 of `Thread.cpp`
  (`PAPlayer.cpp` l.284 may) has the event reset before the old thread sets it: the next
  `StopThread(true)` returns with the new thread in `Process`. Without the exception
  `early`, TLC finds `StopWaits` violated.
* `CTimer::Process` compares the 32-bit clock with the end time (`Timer.cpp` l.96), which `SystemClock.h`
  l.38 warns of: a timer whose thread wakes up late, when the clock has wrapped after the end
  time, waits for another 49 days.
* `TouchInputAbort` (l.68) does not stop the hold timer. The `Start` of the next touch is refused,
  and the old timer reports the new touch as held, however short it was. The same can happen after
  `Stop(false)`.
* `MultiTouchStart` becomes `MultiTouch` with any move, also of less than the distance that makes
  a pointer move. `m_pointers[1].moving` stays from the last multi touch until the next.
* `CGUIDialogSettingsBase`: a click restarts the delay timer (`GUIDialogSettingsBase.cpp` l.753). When
  the timer's thread, stopped by a change of focus, is ending, the click's `Restart` does
  nothing and the new value is applied only with the next click.

### Bounds, and why they are enough

* `Job`: with three jobs, one runs, one waits and one is added or cancelled; or two workers
  are busy and one job waits, which is the case for the limits of the priorities.
* `Worker`: threads, alive or ending. A step that would need a thread more than `Worker` has is
  not taken. `WorkerBound` is left to the proof: a third thread, with which it could fail, takes
  the liveness of the run out of reach.
* `PRIORITY_HIGH` 2 has three priorities with 1, 2 and 3 workers, so that a job waits behind a higher
  priority that is not the highest. The program's values are 3 and 5; the theorems hold for
  all values, and carry the safety of `manager` to any number of jobs and threads.
* `IdSpace` stands for 2^32. In `manager` it is so small that the counter wraps and skips 0.
  The guard `NextId \notin LiveIds` in `AddJob` says that a job does not live through a
  whole round of the counter. In the runs of `JobQueue` the counter does not wrap: `QAddJob`
  stops adding when the ids are used up, which also bounds those runs.
* `FileCache`: with a cache of two bytes, one of them protected behind the reader, and a file of
  three, the buffer wraps, pieces are written in one part or two, and positions lie before,
  in, a little after and well after what is cached. `SeekAhead` stands for the 100,000 bytes.
  `MaxFaults` 1: the source fails a seek or a read once, or an event's group is told late.
  The reader's requests are bounded by `MaxRead`. A closed file stays closed, so the runs are made
  without the check for deadlocks.
* `ActorProtocol`: four messages are two calls with their replies, so that a message is freed
  and taken again while the other call goes on. A handler triggers itself at most once.
* `PlayerQueues`: `MaxHandlers` 2 begun with both streams open: the second handler finds the
  first one's messages in queues and in hands. `Syncs` 2: one on its way while the next is
  sent. `MaxDecoderFlushes` and `MaxConverge` 1: one reset of a decoder with one packet kept. When
  the handlers are used up the system stops, hence no check for deadlocks.
* `Threads`: at the end of a thread `m_CriticalSection` is taken, so that a `CThread` has at most two
  threads, one that ends and one after it. Three in `thread` show that the third is not needed.
* Events: one event of each kind, so that the scan of a group has an order. With two event waiters
  one is blocked while the other comes, passes or leaves; with two group waiters one leaves the
  other behind; with two setters a second `Set` or a `Reset` falls between the halves of the first.
* `MaxFingers` 2 is `TOUCH_MAX_POINTERS`. A finger is far from its pointer or not; moves are not counted. The
  input thread may stop for good (`touch_deadlock`), hence no check for deadlocks.
* `MaxDepth` bounds nested exclusive locks at 2, one more than without nesting.
* Symmetry of jobs, threads and keys is used in the run `queue`, that of senders and messages in
  `actor`. Neither checks liveness.

### Fairness

* Worker threads are scheduled, get the locks they ask for and return from their timed wait
  (weak fairness of `Proceed`). The wait has a limit of 30 seconds in the code.
* Client callbacks return. `DoWork` returns after a finite number of calls of
  `ShouldCancel`, hence strong fairness of `OnJobComplete`, which those calls disable.
* The thread in `CancelJobs` goes on with its loop. A client promises nothing: it need not
  add, cancel or unpause anything.
* The queue's lock and the group's mutex are free again and again, not for good, hence
  strong fairness of the steps that need them. A notified writer gets the mutex, and
  holders give their locks back.
* The filling thread runs and the source answers it. A call of `Read` or `Seek` goes on and its
  timed waits end; `m_seekEnded.Wait()` ends only when the event is set. No further call is assumed.
* A `CThread` runs, and returns from `Process` when `m_bStop` is set; its lock and its event let go
  those who wait. The owner promises nothing but to end a stop or a destructor it has begun.
* The input thread goes on with an event, the timer's thread runs and gets `m_critical` when it is
  free, its time limit expires. Fingers promise nothing.
* The player's threads run and a `Wait` of 100 ms ends. Neither the time limit of `Get` nor the
  10 s or 40 s of a synchronize message is assumed to pass, nor another packet or handler.

## 5. Proofs

Each theorem holds for every value of the constants that the module's one assumption allows. Of
numbers of threads, messages, jobs or sizes these say no more than the code does: that a priority
has at least one worker, that a cache is larger than its back buffer, that a list of events
names none twice. Each component has an inductive invariant (`IInv`, `QIInv` in `JobQueueProofs`)
and three facts: it holds at first, each action keeps it (one lemma per action, or per group of
actions that touch the same state), and it implies the property. TLC has checked the inductive
invariants on the instances of the runs before they were proved, that of `FileCache` on a larger one too.

### `JobManagerProofs`

Any finite set of jobs and of threads, any callbacks, any `PRIORITY_HIGH`, any `max_workers` above it
(so that each priority has a worker) and any `IdSpace` above 1 (`ManagerAssumption`). The
invariants are not inductive by themselves; `IInv` adds:

* `Filed`: a job waits in the queue of its own priority. Needed for `PriorityReserve`: the
  limit `PopJob` tests is that of the queue, the one to keep is that of the job.
* `Locals`: a worker has a job exactly while it is busy, and a callback only around calls of
  clients. Needed for `DrainedQuiet`: no worker on the list means no job and no callback.
* `Stopping`: nothing is queued while the manager stops or has stopped.

The central step is `NoStrandedJob`. A worker that goes to sleep or leaves has found that no
priority may run now (`NothingToPop`). If a job waits in priority p nevertheless, p is at its limit, which is
positive (`Limits`), so some worker is busy (`AtLimit`) and will look again. The other
direction is `StartWorkers` (lemma `Started`): it does nothing only if the limit is reached,
sets the event only if some worker is on the list, and else starts one. `Counts` and
`ProcessingBound` relate the sizes of the two lists: every job in process has its own worker,
so `m_processing.size() < m_workers.size()` means that a worker has no job.

`HeldIdsValid` is kept because an item's id changes only in `AddJob`, where it is `NextId`, and the item
is one of a job the manager has (lemma `IdsKept`).

The refinement rests on the same invariant. By `JobHeldOnce` a job of the heap is in a queue or has one
worker (lemma `Mapping`), whose place is the status the job has for the service. So a step of one
worker changes the status of its own job only (lemma `Others`), and each critical section is one step of the
service or none. `CancelJobs` returns when the list of workers is empty: then nobody is busy,
nothing is in process (`Counts`), and the service may be said to have stopped.

### `JobQueueProofs`

On top of `JobManagerProofs`, whose `IInv` is part of `QIInv`: each step of the queue is one of the
manager or leaves it alone, so the manager's lemmas are used as they are. What is added:

* `Lists`, `Unique`: no job is at two places of the queue's lists, and no two of the jobs there that
  are still alive are equal. `OnJobComplete` erases an entry by equality (l.98); that it is the entry
  of the job that is complete follows from this.
* `Answering`, `Owning`: `EntryAnswered` and `OneOwner` with the workers between the client's
  callback and its end.
* `Counting`: no two jobs of the manager have an id in common. `CJobQueue::CancelJob` goes by the id,
  and cancels a stranger if two have the same. This is where the bound on ids matters: `QAddJob`
  stops before the counter wraps. For a queue that lives through 2^32 jobs nothing is claimed.

In the middle of `CancelJobs` the entries that are left still satisfy all of it.

### `EventGroupProofs`

`NoLostSignal` says that a setter is on its way when some event is signaled. It is not inductive:
a `Reset` may take away the event the setter is on its way with while another stays signaled.
`EverySignalTold` says it of every event: as long as the group has none to give, each event that is signaled has a
setter of its own on its way, since the scan of the last thread to block found none signaled.
`LastToLeave` says that the group forgets its event only without waiters. The scan finds the event
of the least index that is signaled, which exists because the natural numbers are well founded.
`WaitersReleased` is an action property. The only way for a wait of a thread in `owed` to end
otherwise is that its event is no longer signaled; `OwedIsThere` says that it is. It is kept because
the thread is among the event's waiters, and `prepReturn`, in whichever wait, leaves an event with
waiters signaled. The assumption names two things the code has by
construction: the group's events are a list, and a thread is in one kind of wait at a time.

### `SharedSectionProofs`

Any threads, any finite set of shared locks and any depth. `IInv` adds to the checked
invariants that a thread that waits has neither kind of lock.

### `ThreadProofs`

Any set of threads. `Overtaken`: a thread that has still to set `m_TermEvent` while another is in
`Process` was overtaken by an early `Create`. `TermIsOver`: the event is set only after the end of
`Process` of the thread `m_ThreadId` is about, unless early. `Destructors`: `~CThread` stops a thread
that the destructor of the derived class has already waited for, so its own wait ends at once and
what it waits for is `m_CriticalSection`. The exception `early` is the observation about
`PAPlayer` above.

The second part is about `Touch`: any threads for the timer, one or two fingers. `StateMeansFingers`
speaks of the time between two events. `Handling` says what is known in the middle of one: the
fingers have changed, the state has not. While `HandleTouchInput` is inside `CTimer::Stop` its place
is the one it returns to (`Place`); it has `m_critical` there, which keeps `OnTimeout` from changing
the state, so nothing about the timer is needed.

### `FileCacheProofs`

Any size of the cache and of its back buffer, any length of the file and any pieces. The first part is about the
values of `CircularCache`: every method keeps byte p of the file at `buf[p % Size]` for what the
cache holds (`Content`). The lemmas on `\div` and `%` show that two positions less than `Size` apart
have different places and that a piece up to the wrap has neighbouring ones. The second part is the
protocol:

* `Handshake`: a request for a seek is in one place: in `m_seekEvent`, under way in the filler, or in
  `m_seekEnded`; and none is there that the reader does not wait for.
* `Place`: where the cache's reader is at each point of `Seek`.
* `Filled`: the source goes on where the cache ends, but for the piece between the two or one that is
  dropped for a seek which will be served. `EofIsTheEnd` needs it, since `HitEof` goes by the source.
* `Stopping`: who has set `m_bStop`, and that the filler ends only then.

The protocol is claimed while nothing has failed and the file is open (`Calm`), the content of the
buffer also afterwards, unless a seek has failed or a group was told late (`Straight`); the
observations above show that these exceptions are the code's. `ReadDelivers` is an action property.

### `ActorProtocolProofs`

Any senders and messages. The argument is one of ownership. A message is free, on the
actor's side, or on its way to a sender (`OnePlace`), and there once (`Once`). Only a synchronous call has
two owners, and `isSyncFini` says that one of them has let go (`TwoReleases`): the second `Release`
frees it, which gives `FreedOnce` and `NoLeak`. `NotAnswered`: a call that the actor's side has not answered has
no reply and no event, and its sender waits for it or has said under the port's lock that it gave up. With
it each step maps to a step of `SyncCalls` or to none. `NoSleepOnWork` is inductive with `TypeOK`
alone. What `PurgeOut` keeps of a queue (`Kept`) is a recursive function; that it exists, and
keeps the messages that are not purged once each, is shown with a least counterexample. A call that is
purged stays one of the actor's side: its sender's `Release` is the first, and no second one comes.

### `PlayerQueuesProofs`

Any numbers of handlers, of synchronize messages, of packets in the queues and of decoder resets. The
constants may be any of which `PlayerAssumption` says that the two players and the player's thread are
three and the bounds are numbers. The first part is about lists: what `Insert`, `Front` and `Others`
make of a sorted list, its elements and how many of them are of a kind. `Others` is a recursive function;
what it keeps, in which order, is shown with a least counterexample. Then `IInv`, which adds:

* `Sized` with the order of a list in `Types`: a packet that was put back has a priority of 10 at
  least and is not counted, so `Put`, `TakeItem` and `FlushPackets` agree on what is.
* `Hands`: what a thread has in its hands at each place; `Lives`: a player that is closed has no thread and an
  empty queue, and `End` comes after the thread's end.
* `Handlers`: the calls that are left of a handler have an order (`Rank`), concern one synchronize message at
  most, with its `Release` after them. It stands for the program text of the handlers.
* `CountsFor`: `refs` is the number of entries in the queues, items in hands and the player's own. This
  is what the comparison in `Wait` relies on, and it counts: every put, take, put back, release and end
  of a queue has to keep it.
* `ReachesFor`, `PresentFor`: as long as nobody has got past the message and the player waits on it, each
  that has entered `Wait` has a reference, in its queue once it has put the message back, and the
  player, when it is there itself, has sent it to all. Then one that is given the message
  and is not there makes the references more than those who are there (lemma `AllThere`).
  Where the player does not wait, at most one of the two streams can be there, and the other's
  reference, or the one the player still has to send it with, makes two. So `TogetherFor` is kept.
* `FlushFirst`: the steps by which a thread becomes clean in `FlushBuffers`. Once the queue is
  flushed, an old packet in it was put back by the decoder, ahead of the flush message; that message is still
  to be sent, in the queue, in hand, or the thread is clean; the synchronize message comes behind it.
* `EmptiesFirst`: the message of `WaitUntilEmpty` has priority 0 when it is sent, so it is behind all packets.
* `HasSettled`: what `Settled` says until the next handler begins, with what keeps it so: after the
  player's `Wait` in `FlushBuffers` only the `Release` is left.

Each action has a lemma. An action of a thread leaves the other player alone (`Apart`); most leave
the number of references alone, too, and share `ThreadMeets`, `PlaceKeeps` or `SendingMeets`.

### Theorems

| module | theorem | of |
|---|---|---|
| `JobManagerProofs` | `TypeCorrect` | `TypeOK` |
| | `IdsAreValid` | `HeldIdsValid` |
| | `JobsHaveOneOwner` | `JobHeldOnce` |
| | `WorkersBounded` | `WorkerBound` |
| | `PrioritiesReserved` | `PriorityReserve` |
| | `NoLostWakeup` | `NoStrandedJob` |
| | `DrainedIsQuiet` | `DrainedQuiet` |
| | `ManagerImplementsService` | `ImplementsService` |
| `JobQueueProofs` | `EntriesBounded` | `QTypeOK` |
| | `NoDuplicateJobs` | `JobsUnique` |
| | `EntriesAnswered` | `EntryAnswered` |
| | `JobsOwned` | `OneOwner` |
| `EventGroupProofs` | `SignalsAreNotLost` | `NoLostSignal` |
| | `WaitersAreReleased` | `WaitersReleased` |
| `SharedSectionProofs` | `ReadersAndWriterExclude` | `MutualExclusion` |
| | `NoWriterForgotten` | `NoLostWakeup` |
| | `ReadersCounted` | `CountExact` |
| `ThreadProofs` | `OneThreadInProcess` | `OneProcess` |
| | `StopHasWaited` | `StopWaits` |
| | `FreedAfterTheEnd` | `NoUseAfterFree` |
| | `StateNamesFingers` | `StateMeansFingers` |
| `FileCacheProofs` | `PositionsInOrder` | `TypeOK` |
| | `ReaderIsThere` | `PositionAgrees` |
| | `EndIsTheEnd` | `EofIsTheEnd` |
| | `ReadDeliversTheSource` | `ReadDelivers` |
| `ActorProtocolProofs` | `PlacesHaveMessages` | `TypeOK` |
| | `LastReleaseFrees` | `FreedOnce` |
| | `NoMessageIsLost` | `NoLeak` |
| | `NoSignalMissed` | `NoSleepOnWork` |
| | `PortImplementsCalls` | `ImplementsSyncCalls` |
| `PlayerQueuesProofs` | `DataSizeIsExact` | `TypeOK` |
| | `ThreadsMeet` | `SyncTogether` |
| | `FlushSettles` | `Settled` |

### Only model-checked

* Liveness under fairness, which these provers do not reach: `JobServed`, `CancelJobsReturns`,
  `JobCompleted`, `GroupReleased`, `WriterServed`, `CallsReturn`, `Heeded`, `OwnerReturns`.
Every invariant and every action property of a passing run is a theorem of the table.
