# A TLA+ model of EventLoop

EventLoop is a C++ library around one single-threaded loop on `epoll(7)`:
`EpollRunner::run()` executes callbacks, timers and file descriptor listeners;
sockets, child processes and signals are built on these. One function,
`Runner::addCallback`, may be called from other threads. This directory models
the library's own logic in TLA+, checks it with TLC on small instances and
proves the central invariants with TLAPS for every instance.

Paths below are relative to the repository (`src/lib/...`, `include/...`);
`PROJECT.json` maps every definition to the lines it stands for.

## 1. Inventory

| Component | State it keeps | Operations | Talks to |
|---|---|---|---|
| `CallbackQueue` | `queue`, `queueLock`, `wakeUp` | `add`, `execute`, `pop` | any thread; `EpollRunner::wakeUp` under the lock |
| `EpollRunner` (loop) | `runnerThreadId`, event pipe | `run`, `wakeUp`, `addCallback`, `add/modify/delFDListener` | all of the below |
| `FDListenerMap`, `Epoll`, `FDMonitor`, `BaseEpollRunner` | map fd -> listener and events, the kernel's interest list, `addCount`, the fetched events, the set of fds deleted in this batch | `add`, `modify`, `del`, `wait`, dispatch | kernel, listeners |
| `Timer`, `TimerQueue` | multimap of nodes, each timer's iterator and callback | `schedule`, `cancel`, `execute`, `popFirst`, `getTimeout` | loop, clock |
| `SignalFD` (in `EpollRunner`) | original and handled signal sets, signal mask | ctor, `setSignals`, handler, dtor | `CallbackQueue`, kernel |
| `AsyncRunner` | timer fd | `step` | an outer loop that polls `getEventFD()` |
| `StreamSocket` | fd, output buffers, listener events, callbacks | `send`, `receive`, connect, event handler, `close` | runner, `StreamBuffer`, kernel |
| `SeqPacketSocket` | the same with message boundaries and control data | as `StreamSocket` | runner, kernel |
| `ListeningSocket` | fd | `accept`, event handler | runner, the application that makes sockets |
| `StreamBuffer` | list of shared buffers with used and free parts | append, cut, linearize, iterate | sockets |
| `ChildProcess` | pid, three pipe fds, input buffer | ctor (fork), event handler, `sigChildReceived`, `kill`, dtor | runner, kernel |
| `FileDescriptor` | fd | construct, assign, `swap`, `release`, `close` | `System::close` |
| `SigPipeSuppressor` | was `SIGPIPE` pending, was it blocked | ctor, dtor around a write | the thread's signal mask |
| `SignalSet` | a `sigset_t` | `set`, `unset`, iteration up to `MAX_SIGNAL` | `SignalFD`, applications |
| `UncaughtExceptionHandler` | reference count, saved handlers | `enable`, `disable` | the process's handlers |
| `Callee`, `WeakCallback`, `postponeDeletion` | a shared `Life`, a weak reference to it | construct, copy, execute | `CallbackQueue` |
| `SocketAddress` | union of addresses, used size | factories, raw memory, compare, `<<`, `>>` | kernel, sockets |
| `ControlMessage` | vector of bytes, used size | `append`, `reserve`, `markUsed`, iterate | `SeqPacketSocket`, kernel |
| Examples (echo servers and clients) | accepted sockets with timers, `doContinue` | accept, echo, time out, remove by callback | all of the above |
| `System`, `Dump*`, `TypeName`, exceptions | wrappers, printing | | |

What is hard here, and what makes each part correct:

* **Threads** (`CallbackQueue`, `EpollRunner`). `addCallback` only wakes the
  loop when the queue was empty, decides so from an id that is read and written
  without a common lock, and writes to a bounded pipe while it holds the queue's
  lock. Correct: no callback is left behind while the loop sleeps, callbacks run
  once and in order, `addCallback` returns.
* **Re-entrancy** (dispatch, timers, sockets, child processes). Listeners and
  callbacks may do anything to any other object in the middle of a batch:
  delete descriptors whose events were fetched already, close and reuse a
  number, destroy the timer that is executing. Correct: no event, iterator or
  callback is used after what it belongs to is gone.
* **Time**. The clock has a coarser resolution than timeouts, `epoll_wait` takes
  an `int`, and a timer is popped without comparing its time. Correct: a timer
  fires once, in time, unless withdrawn.
* **Partial failure**. A system call in the middle of an operation throws, and
  the state that the operation has changed already stays changed.
* **Kernel buffers** (sockets, pipes). Short writes, end of file, errors
  reported together with data.
* **State of the whole process** (signal mask, terminate handler, descriptor
  numbers). Several objects change it and each has to set back exactly its own
  part. Correct: the mask is the original one and the handled signals, the
  handler of before comes back, a descriptor has one owner.
* **Bytes from outside** (`SocketAddress`, `ControlMessage`). Sizes and contents
  that the kernel or the application wrote steer loops over memory. Correct: no
  access leaves the object, and what was written is read back.

## 2. Modules

| Module | Models | Theorems in |
|---|---|---|
| `WorkQueue` | what `addCallback` promises: a queue of callbacks (abstract) | |
| `CallbackQueue` | `CallbackQueue.cpp`, event pipe, `run`/`runImpl`/`wakeUp`; implements `WorkQueue` | `RunnerProofs` |
| `EventDispatch` | `FDListenerMap`, `Epoll`, `FDMonitor`, the batch loop of `runImpl` | `RunnerProofs` |
| `OneShotTimers` | what `Timer` promises (abstract) | |
| `TimerQueue` | `Timer`, `TimerQueue`, the waiting part of `runImpl`; implements `OneShotTimers` | `TimerProofs` |
| `StreamSocket` | `StreamSocket.cpp`, its kernel socket and peer | `StreamSocketProofs` |
| `SeqPacketSocket` | `SeqPacketSocket.cpp`, its kernel socket and peer | `SeqPacketSocketProofs` |
| `ChildProcess` | `ChildProcess.cpp`, its pipes, `SIGCHLD` and the child | `ChildProcessProofs` |
| `AsyncRunner` | `AsyncRunner.cpp`, the timer fd and the loop around it; extends `TimerQueue` | `TimerProofs` |
| `EchoServer` | `ListeningSocket.cpp`, the examples `EchoServer1`, `EchoServer2` and `EchoClient`, composed with the loop | `EchoServerProofs` |
| `ByteQueue` | what `StreamBuffer` promises (abstract) | |
| `StreamBuffer` | `StreamBuffer.cpp`, shared memory blocks; implements `ByteQueue` | `StreamBufferProofs` |
| `StreamBufferTests` | `tst/StreamBufferTest.cpp`, as behaviours of `StreamBuffer` | |
| `SignalSet` | `SignalSet.cpp` and its test | `SupportProofs` |
| `SignalMask` | `EpollRunner::SignalFD` and `SigPipeSuppressor.cpp` on one thread's mask | `SupportProofs` |
| `UncaughtExceptionHandler` | `UncaughtExceptionHandler.cpp` | `SupportProofs` |
| `FileDescriptor` | `FileDescriptor.cpp` and the descriptor calls of `System.cpp` | `SupportProofs` |
| `SocketAddress`, `SocketAddressTests` | `SocketAddress.cpp`; the expectations of `tst/SocketAddressTest.cpp` | `SupportProofs` |
| `ControlMessage`, `ControlMessageTests` | `ControlMessage.cpp/.hpp`; the expectations of `tst/ControlMessageTest.cpp` | `SupportProofs` |
| `WeakCallback` | `Callee.hpp`, `WeakCallback.hpp`, `PostponeDeletion.hpp` | `SupportProofs` |

`MC*` modules instantiate these for TLC; every `.cfg` belongs to one run.
`PROJECT.json` names the mutants: variants of single definitions, each a bug that
could be in that code, under which the named property must fail.

### How state and actions correspond to the code

**CallbackQueue.** `queue`, `lock` (`queueLock`) and `runnerThreadId` are the
members, `pipe` counts the ints in the event pipe, `visibleIds` holds what a
racing read of `runnerThreadId` may return. A producer's `addCallback` is three
steps, since other threads can run in between: `Add` (lock and push), `WakeUp`
(read `runnerThreadId`, which is written without the lock: the read may give
the old or the new value as long as no lock orders them), `Write` (the blocking
`write()`, with the lock held). The runner's steps follow `run` and `runImpl`
statement by statement: `PopCallback`/`PopNothing`, the callback, `canContinue`,
`Poll`, `epoll_wait` with its three outcomes, the handler that reads the pipe,
and leaving `run()` normally or by an exception from any user code.
`CanContinueAdds` says whether the `canContinue` function itself calls
`addCallback`.

**EventDispatch.** `map` is `FDListenerMap::map`, `interest` the kernel's list,
`addCount` the counter in `Epoll`, `batch` the events that were fetched and not
yet handled, `deleted`/`monitoring` the `FDMonitor`. Registrations are numbered
so that "the listener that is there now" and "the listener the event was fetched
for" can be told apart. User code (between batches and inside a listener) opens
and closes descriptors, adds, modifies and deletes listeners, also with the
errors that `epoll_ctl` returns after `FDListenerMap` has been changed. `refused`
remembers the descriptors to which that has happened in `addFDListener`.

**TimerQueue.** `queue` is the multimap as a set of nodes (time and a number that
orders equal times), `position` each timer's iterator, `cb` its callback. Time
is counted in ticks, `MS` of which are a millisecond: the clock
(`System::getMonotonicClock`) and the conversions in `isTimeout` and `wait`
truncate as the code does, and `ToInt` keeps the width of `int`. `due` and
`fired` are history for the refinement.

**StreamSocket.** The object's members, the position in `handleEventsCb` (its
four checks and the callbacks between them), and the kernel socket: its receive
queue, send buffer, `SO_ERROR` and the state of the connection. The events are
fetched at the beginning of the handler and used after the peer has gone on.
TCP and `AF_UNIX` differ in that `AF_UNIX` reports `HUP` while data are unread.

**ChildProcess.** Members (`pid`, descriptors, streams), the runner's listeners,
the children (running, zombie, reaped), the pipes, the pending `SIGCHLD` bit and
the handlers that `SignalFD` has put into the callback queue. `crashed` means
that an exception left the destructor.

**StreamBuffer.** `sb[o]` holds `buffers`, `usedSize` and `totalSize`; a buffer is
a part of a block of `mem`. Every operation is one action (the class is not
shared between threads); the hard part is that blocks are shared between
objects. `Careful` restricts the application to uses that the code can serve, see
the findings. `StreamBufferTests` interprets the repository's tests, call by
call and with their sizes, on a second instance of the module.

**SeqPacketSocket.** As `StreamSocket`, with numbered messages: `outputQueue` and
`sending` are the members, `wired` is what `sendmsg()` took, in order, and `again`
what it took repeatedly. `empty` marks messages of size zero, for which
`sendmsg()` returns the 0 that the code takes for "not sent". `link = "shut"` is a
peer that has ended its output only: `receive()` sees it as empty messages.

**AsyncRunner.** Extends `TimerQueue`: the timers and their operations are the
ones of that module, `wakeAt` and `expired` are the timer fd. `step()` is cut at
every point where application code runs (`where`): a batch of events with
`FDMonitor`, callbacks until none is left, a timer, and again, until the timer fd
is armed or disarmed. Any of them may throw. `unseen` records that something was
added that no completed `step()` has looked at.

**EchoServer.** The server's loop in phases (callbacks, a late timer, a batch of
events), the accept loop, accepted sockets at addresses that are reused, and
clients with their input and output. `StreamSocket` is reduced to what its own
module shows: bytes in order, output as the kernel takes it, one
`connectionClosedCb`. A removal callback is just the address that it holds.

**SignalMask.** `mask` and `pending` of the thread; per runner the members of
`SignalFD` (`handled`, `origBlocked`), the signals of its signal fd and its callback
queue. `SetSignals` computes the two sets of the code with the iteration of
`SignalSet` and makes the first of the three system calls of `setSignals`;
`UnblockSignals` and `UpdateFD` are the other two, with signals in between, and
`change` is what is left to do. The destructor of `SigPipeSuppressor` (`Release`) takes
what `sigTimedWait` takes, and what it then unblocks and has not taken is delivered.
Histories: `foreign` (a `SIGPIPE` is pending that was raised outside a suppressed
write), `ownPipe` (what became of the write's own one), `told` and `dropped` (the
signals that a step has passed to a handler, or whose callbacks it has destroyed).
`disciplined` and `failures` mark uses after which the mask cannot be right.

**FileDescriptor.** Open files are numbered, so that a number that was closed and
given out again is told apart. `raw` are descriptors that are plain ints, `others`
those of another thread. `System::close` is two steps when it is interrupted,
with the other thread in between.

**SocketAddress, ControlMessage.** One object each, as cells of memory with a used
size. All ways to make or change it are actions; comparison, text and
iteration are operators (`SocketAddress`) or steps of an iterator
(`ControlMessage`). Nothing restricts the used size that `setUsedSize` is given, and
differences of sizes wrap as their unsigned types do (`Modulus`, `SizeT`). Reading text has
three outcomes: an address, none (the failbit), and `TooLong` (the exception).

**WeakCallback, UncaughtExceptionHandler.** The members and, for the former, the
callback queue in the runner's thread. `copied` and `nested` are ghosts that mark
the uses which the code does not serve.

## 3. What the runs check and show

A run's property is often a conjunction of named parts, which are the ones that
the table explains: `SendsAndCloses == Flushed /\ CloseNoticed` (both sockets),
`ClosesProperly == CloseReason /\ EscapeOnlyAfterFailedSend` (`SeqPacketSocket`),
`ChildServed == DeathNoticed /\ InputEnds`, `MemorySound == TypeOK /\ SizesAgree /\
FreeIsPrivate`, `StepSound == AsyncTypeOK /\ BatchKnown /\ EventFDTells`, `SeenWorkRuns ==
SeenTimersFire /\ SeenCallbacksRun`, `ServedAndCleaned == Served /\ CleanedUp`,
`AddressSound == SaTypeOK /\ OneOfThree /\ TextStable /\ OutputInside`, `IterationSound ==
CmTypeOK /\ IteratorInside /\ AllSeen`, `TurnsSound == CallsTheLiving /\ DeletionHappens`, and
`ProcessRestored`, which joins the types with `MaskIsSum`, `PipeSuppressed` and
`HandlerRestored`. The type invariants of the sockets, `ChildProcess` and `EchoServer` are
conjuncts of `SendStateAgrees`, `CleanedUp` and `InOrder`.

| Run | Result |
|---|---|
| `callback_queue` | Three threads add callbacks while the runner enters, runs, leaves and re-enters `run()`. It never sleeps on a non-empty queue without a wake-up under way (`NoLostWakeUp`), `wakeUp` never blocks while the pipe holds all ints (`WriteNeverBlocks`), `addCallback` returns (`AddReturns`), callbacks start while `run()` goes on (`CallbacksStart`), once and in order (`Implements`: `WorkQueue`). |
| `pipe_full` (violation) | With fewer places in the pipe than callbacks, `addCallback` blocks for ever. |
| `event_dispatch` | Listeners delete, close, reuse and add descriptors inside a batch: an event reaches only the registration it was fetched for (`DispatchSafe`), and map, kernel and count agree after every failure, with one exception that the property names: the entry that `FDListenerMap::add` leaves when `epoll_ctl` refuses the descriptor (`KernelAgrees`). |
| `timer_queue` | Iterators stay valid (`PositionsValid`), callbacks stay with their scheduling (`CallbacksKept`), a timer fires once per scheduling and not two milliseconds too early (`KeepsPromise`; it says nothing of the order between timers), and eventually (`TimersFire`). |
| `stream_socket` | `sending`, output buffer and listened events agree (`SendStateAgrees`), a normal close has delivered all data on TCP (`NormalCloseIsComplete`), output leaves the buffer (`Flushed`), the end of the peer is noticed (`CloseNoticed`), and the only way for an exception out of the handler is a send that fails in `connectionEstablishedCb` (`EscapeOnlyAfterFailedSend`). |
| `seq_packet` | Every non-empty message goes to the kernel once and in order, sent directly or through the queue (`ExactlyOnce`); `SendStateAgrees`, `EscapeOnlyAfterFailedSend` and `CloseNoticed` as for streams; the reason of a close is right (`CloseReason`); queued messages leave unless an empty one is in the way (`Flushed`). |
| `child_process` | Two children: nothing is left of a child that was reported or destroyed, nor a pid that a destructor would kill (`CleanedUp`), pipes closed on `HUP` were drained (`DrainedBeforeClose`), deaths are noticed although signals merge (`DeathNoticed`), input arrives with its end (`InputEnds`). |
| `async_runner` | When the outer loop waits, the event descriptor stands for all that is pending (`EventFDTells`), batches refer to listeners that exist (`BatchKnown`), timers still implement `OneShotTimers` (`KeepsPromise`), and timers and callbacks that a `step()` has seen run (`SeenTimersFire`, `SeenCallbacksRun`). |
| `echo_server` | What is printed is what was typed, in order (`InOrder`), the plain references in removal callbacks are never stale (`RemovalsAreFresh`), every connection is accepted in the end although `accept()` fails for lack of descriptors (`Served`), and nothing is left of a client that has gone (`CleanedUp`). |
| `support` | The classes that share no state, one at a time: the signal mask is the sum of its parts (`MaskIsSum`); a pending signal reaches the handler of a runner that handles it, unless it is taken out of the set or the runner destroyed (`Reported`); the `SIGPIPE` of a suppressed write is neither delivered nor left behind, and one that was pending before is left (`PipeSuppressed`); the terminate handler comes back if there is one user at a time, and nothing is claimed of nested ones (`HandlerRestored`); descriptors have one owner (`OneOwner`); addresses with any used size are ordered against those of library and kernel (`OneOfThree`), read back from their text, with the exception only for a path that fills `sun_path` (`TextStable`), and printed without leaving the object (`OutputInside`); iteration over control messages of any content stays inside, but for the padding of the last message of an unaligned size (`IteratorInside`), and sees all messages, one that was cut off included (`AllSeen`); weak callbacks call exactly living callees (`CallsTheLiving`) and postponed deletions happen (`DeletionHappens`). |
| `stream_buffer` | Counters describe the list (`SizesAgree`), free memory is private (`FreeIsPrivate`), every object is a queue of bytes of its own (`ActsAsQueue`: `ByteQueue`); the models pass the repository's tests of `StreamBuffer`, `SocketAddress` and `ControlMessage` (`TestsPass`). |
| `stream_linearize` (violation) | `forceLinearize` behind a spare buffer returns garbage. |

**Bounds.** `callback_queue`: three producers, because two may hold stale views
of `runnerThreadId` while a third one holds the lock; six callbacks let `run()` be
left and entered several times; `PipeCap = MaxAdds` is the assumption under which
writes do not block, `PipeCap < MaxAdds` is `pipe_full`. `event_dispatch`: three
descriptors (the runner's own, one that is handled and one that is deleted and
reused) and four registrations. `timer_queue`: two timers, three schedulings,
timeouts that are zero, below and above a whole millisecond, and start times at
every phase of the clock's resolution. `stream_socket`: `recvmsg` takes two of
three units and the send buffer holds two of three, so that every short
transfer happens. `child_process`: two children share one `SIGCHLD`; one unit per
pipe is enough, as the handlers read until the pipe is empty.
`stream_buffer`: six calls, three bytes, words of two bytes and three blocks:
enough for allocate, append, append of a shared buffer, cut, linearize and read
in a row. `seq_packet`: four messages with room for two, so that messages wait
behind each other and behind an empty one. `async_runner`: one timer that is
scheduled twice, with timeouts of zero, one and two milliseconds, two
descriptors so that one listener deletes the other's. `echo_server`: two
clients, two addresses (one is reused), a limit of one or two descriptors,
one byte in each kernel buffer so that every transfer is short. `support`: two
runners with sets that overlap the original mask, `SIGPIPE` and a real-time
signal, one signal from outside at any moment, besides the `SIGPIPE` of each suppressed
write, and one failing call, after which the properties claim nothing (the safety part
is proved for any number of signals; that `Reported` holds with several signals from outside
is not checked, as the liveness check grows too large); used sizes below `offsetof(sun_path)`, inside, at the end of and above the
union; two handles, three numbers and four files (a number is reused); paths
that are empty, abstract, full, too long, with white space and with a NUL; two
messages of aligned and unaligned sizes, and any content the kernel writes; two
callees and three callbacks. Where `CHECK_DEADLOCK` is off the object really ends (a socket closed, a
child gone, the bound on calls reached).

**Fairness.** The runner's thread and the producers are threads that the
operating system schedules: weak fairness of their steps. In
`TimerQueue`, `StreamSocket` and `ChildProcess` the loop's steps are weakly fair
because level-triggered `epoll_wait` reports an event again until it is handled.
Time passes (`Tick`, `TimePasses`), and a timer fd whose time has come expires. In `AsyncRunner` the
outer loop polls and calls `step()`. In `SignalMask` a `setSignals()` that has begun
goes on and a suppressed write returns (weakly fair); reading a signal and calling the
handler are strongly fair: a suppressed write or a change of the set may
disable them for a moment, never for ever. In `EchoServer` the clients' processes
are scheduled and timeouts expire. In `StreamSocket` and `SeqPacketSocket` the peer keeps reading, in
`ChildProcess` a child that has its standard input open keeps reading: without
that, output may wait for ever and no code can help it. Nothing is
assumed of the application: it may stop adding, sending or cancelling any time.

## 4. What is proved

For every value of the constants, under the assumptions that the modules name:

* `RunnerProofs`, about `CallbackQueue` and, in its second half, about `EventDispatch`
  * `TypeCorrect`: types, and `queueLock` held by exactly the producer in `wakeUp`.
  * `WakeUpNotLost`: `~CanContinueAdds /\ Spec => []NoLostWakeUp`. The property
    is not inductive: a producer that has pushed and not yet written is also on
    its way, and it writes only if it reads the right id. `SleepInv` says that
    wherever the runner is between `execute()` and the end of `epoll_wait()`,
    producers can only read its own id (the lock in `pop` has published it), and a
    non-empty queue means an int in the pipe or a producer inside `addCallback`;
    `IdInv` gives the value of `runnerThreadId`.
  * `WritesDoNotBlock`: if no more callbacks are added than fit, by
    `WakeUpBudget` (each int in the pipe, and the one that the holder of the lock
    may write, is due to a push of its own).
  * `Refinement`: `Spec => Implements`, by `InOrder` (the queue holds, in order,
    exactly the callbacks that were added and not yet popped).
  * `EdTypeCorrect`, `KernelInStep`, `DispatchIsSafe`, from
    their conjunction with `MonitorInv` (a non-empty batch is monitored), which is
    what makes deletions inside a batch visible. `KernelInStep` is an equality of map
    and interest list for every descriptor but those in `refused`. Cardinalities come from
    `FiniteSetTheorems`.
* `TimerProofs`, about `TimerQueue` and about `AsyncRunner`, which uses the same queue
  in another loop. What the queue does by itself keeps `QueueInv` (nodes, iterators
  and callbacks agree, and a key is less than a millisecond before the time that
  was asked for), whichever loop drives it.
  * `TypeCorrect`, `IteratorsStayValid`, `CallbacksStayPaired`.
  * `PromiseKept`: `TimeoutsFit => (Spec => KeepsPromise)`, the refinement of
    `OneShotTimers`. `popFirst` compares no time, so that a timer is in time only if
    the loop was: `TimesOK` says that `epoll_wait` with a timeout never ends a
    millisecond before the first key, and that this is still so when the first
    timer is executed. `TimeoutsFit` leaves out timeouts that the cast to `int`
    wraps, where the promise really fails.
  * `AsyncPromiseKept`: the same for `AsyncRunner`, with no such hypothesis, since
    `step()` looks at the first timer's time itself before it executes it and the
    timer fd is armed with an `itimerspec`, not with an `int`.
  * `StepSoundAlways`: `AsyncSpec => []StepSound`. `EventFDTells` is about the waiting
    loop only; the inductive `TellsOK` says it from the end of `step()` on, and
    `BatchOK` and `LoopOK` what holds at each point where application code may
    interrupt `step()` or throw.
* `StreamSocketProofs`: `SendStateAgreement`, `NormalCloseIsCompleteAlways` and
  `EscapesOnlyAfterFailedSend`. None is inductive: the handler acts on events that
  `epoll_wait` reported some steps ago, while the peer went on and callbacks sent
  or closed. `EventsOK` says what such events still tell, `EarlyCloseOK` how the
  descriptor can have been closed before the check of incoming data, `ListenOK`
  when `EVENT_OUT` is asked for, `CountsOK` that no unit is lost on the way.
* `SeqPacketSocketProofs`: `SentExactlyOnce`, `SendStateAgreement` and
  `ClosesProperlyAlways`, from two invariants: `Order` (the numbers in the kernel are 1,
  2, ..., those in the queue the last ones given to `send`, none is missing
  between them, and only an empty message may be in both) and `Control`, as for
  streams. `Order` needs of `Control` that nothing is queued unless `sending`.
* `ChildProcessProofs`: `CleanedUpAlways` and `DrainedBeforeCloseAlways`, for any number
  of children. `ObjectOK` says which states of the object, the member `pid` and
  the process go together, `DataOK` where the units are that a child has written.
* `StreamBufferProofs`
  * `MemorySoundAlways`: `Careful => (Spec => []MemorySound)`.
  * `QueueImplemented`: `Careful => (Spec => ActsAsQueue)`, the refinement of `ByteQueue`,
    one lemma per operation of `StreamBuffer.cpp`.

  `FreeIsPrivate` is not enough for either: a cell that is free and used, or free
  twice, in the *same* list would do the same harm. `Sound` says that a free
  cell is at one place only of all lists. The proofs look at a list as the row
  of its cells: lemmas say what `Cells`, `Ends`, `FindLocation`, `TakeCells` and
  `DropCells` do for lists of any length, which changes of a row keep `Sound`
  (`Replaced`, `Inserted`, `Moved`, `Copied`), and what a step that stores bytes
  changes (`StoredAt`). The lemmas about lists of any length go through
  `LeastNumber` (a set of numbers has a smallest one, from `WFMin`), since
  induction theorems with an operator as parameter cannot be used here. Without
  `Careful` both statements are false: the run `stream_linearize` shows it for
  linearization.
* `EchoServerProofs`, for any number of clients, addresses (with two objects at one
  address one after the other), bytes, sizes of the kernel's buffers and limits of
  descriptors, under `EchoAssumption`:
  * `AlwaysInOrder`: `Spec => []InOrder`. Bytes are the numbers of their positions,
    so each buffer between the client's input and its output holds consecutive
    numbers that continue those ahead of it (`Pipeline`). The inductive `Flow` says it
    also of connections that wait in the backlog and of what is printed after the
    server has closed; `Objects` says that a connection has one object at most.
  * `AlwaysFresh`: `Spec => []RemovalsAreFresh`. A plain reference is used some steps
    after it was queued: `Removals` says that the addresses in the callback queue are
    exactly those of the objects that have asked, each once, `Objects` that what has
    asked exists. `Phases` says that no callback is queued while the loop waits and
    that an object with an event in the batch has an open connection and has not
    asked, so that no event asks a second time.
* `SupportProofs`, for any signals, runners, users, handles, descriptors, messages, paths,
  sizes and callees. The classes share no state: `MCInv` is the conjunction of their
  inductive invariants, and a step of one keeps the others'.
  * `FdTypeCorrect`, and `OwnedOnce`: `FdSpec => []OneOwner`. The property is inductive
    together with the types and `NotClosing` (a close is under way only after one was
    interrupted); each operation moves one number between the owners `fd`, `raw` and
    `others`, which is why "one owner" is stated for all three at once.
  * `AlwaysRestored`: `MCSpec => []ProcessRestored`. `MaskIsSum` speaks of the mask at one
    moment; what makes it come back is what the runners have saved. `Layers` says, for
    each signal, that the k-th runner has saved exactly the original mask and the
    signals of the runners before it, and looks through an active `SigPipeSuppressor`
    (`Lasting`). `setSignals` and the constructor walk a `SignalSet` with an iterator:
    `IteratedIs` proves that the walk visits exactly the members up to `MaxSignal`, by
    the least signal for which it would not. The hypotheses of `MaskIsSum`
    (`disciplined`, `failures = 0`) are those that the run needs too; in the middle of
    `setSignals` the mask still holds what `change` will unblock (`ChangeOK`).
    `PipeSuppressed` follows from `PipeBlocked`: during a suppressed write `SIGPIPE` is
    blocked, and a foreign one is pending exactly if the constructor has seen it, so that
    the destructor takes one only if none of it is foreign.
  * `AlwaysIterated`: `MCSpec => []IterationSound`. `Layout` says at which offset each
    message begins that was appended or received and not overwritten, and that the iterator
    is at the offset of the first message that it has not seen; `IteratorOK` keeps
    it aligned and at most one padding behind the end, whatever the lengths are
    that raw bytes contain; `CutOff` is about the one message of an unaligned size
    whose end `recvmsg()` has cut off. `CmAssumption` bounds the sizes by the width of `size_t`.
  * `AddressesSound`: `MCSpec => []AddressSound`. `Well` is what every operation keeps: the
    cell behind `sun_path` is zero (`UnixWithPad`), so that the loop of `outputUnix` ends
    inside the union although the path may fill `sun_path` and the length passed to it may
    be anything, a wrapped difference included; the cells of a port are bytes. Of the
    used size it says nothing but its width. That the text is read back is proved by families, through the
    regular expressions, `createUnix`, `createAbstractUnix` and `getAddrInfo`.
  * `AlwaysTheLiving`: `WcSpec => CallsTheLiving`. `TurnOK` says of a callback in the queue
    that its `Life` is its callee's or nobody's, `HeldLive` that a callee lives
    exactly as long as its owner or the queue holds it.

Only model-checked: all liveness (`AddReturns`, `CallbacksStart`, `TimersFire`,
`Flushed`, `CloseNoticed`, `DeathNoticed`, `InputEnds`, `SeenTimersFire`,
`SeenCallbacksRun`, `Served`, `CleanedUp` of the echo server, `Reported`, and
`DeletionHappens`, the second half of `TurnsSound`), since fairness is out of the
prover's reach; and `TestsPass`, which evaluates recursive definitions.

## 5. Findings

Two have a run that shows them; `PROJECT.json` quotes the documentation.

1. `EpollRunner.cpp:318`: a blocking write to the event pipe under `queueLock`
   (`pipe_full`).
2. `StreamBuffer.cpp:308`: linearization behind a spare buffer
   (`stream_linearize`). Copying a stream buffer that has free space is in the
   same class: both copies then append to the same memory.

The following are known from modelling. The models contain them, and the
properties say under which condition they hold:

* `EpollRunner.cpp:270`: a callback that `canContinue` adds wakes nobody (the
  assumption of `WakeUpNotLost`).
* `FDListenerMap.cpp:39`: the entry that a failed `addFDListener` leaves in the map; it
  makes every later one of the number throw `FDAlreadyAdded` (`refused` in `KernelAgrees`).
* `EpollRunner.cpp:304`: a timeout of 2^31 ms or more is narrowed to `int` (`ToInt`); timers
  come up to two milliseconds early through truncation (slack in `KeepsPromise`).
* `StreamSocket.cpp:194`, `SeqPacketSocket.cpp:260`: on `AF_UNIX`, `HUP` comes with unread data, and the
  socket is closed after one `recvmsg()` (`NormalCloseIsComplete` is for TCP,
  `CloseReason` says nothing of received messages).
* `StreamSocket.cpp:159`, `SeqPacketSocket.cpp:193`: a send that fails in
  `connectionEstablishedCb` closes the descriptor, and the handler goes on to use
  it: `InvalidFD` leaves the loop (`EscapeOnlyAfterFailedSend`).
* `EpollRunner.cpp:239`: a `run()` that is nested in a callback resets `runnerThreadId`
  although the outer one goes on; the outer thread then writes to its own pipe.
* `SeqPacketSocket.cpp:323`: an empty message is sent again for ever and blocks those
  behind it (`again`, `Flushed`); `SeqPacketSocket.cpp:250`: the end of input is delivered as an empty message.
* `ChildProcess.cpp:155`: `sigChildReceived` closes pipes undrained, and output is
  lost; `ChildProcess.cpp:142`: `kill()` keeps the pid, and a destruction after it throws
  (`crashed`).
* `AsyncRunner.cpp:102`: what is added outside `step()`, or before an exception
  that leaves it, does not arm the timer fd (`unseen`).
* `EpollRunner.cpp:143`: `setSignals` does not block real-time signals; a
  constructor that fails leaves signals blocked, a `signalfd()` that fails in
  `setSignals` leaves the old set in the descriptor (`failures`); runners that are not
  destroyed in reverse order restore a wrong mask (`disciplined`).
* `UncaughtExceptionHandler.cpp:89`: nested `enable()` saves the library's own handlers (`nested`).
* `SigPipeSuppressor.cpp:29`: a foreign `SIGPIPE` that arrives during the suppressed write is
  taken with the write's own (`foreign` in `PipeSuppressed`).
* `System.cpp:296`: `close(2)` is repeated after `EINTR` (`interrupted`).
* `Callee.hpp:32`: copies share a `Life`, so that `WeakCallback` calls a destroyed
  callee or drops the callbacks of a living one (`copied`).
* `SocketAddress.cpp:536`: a path that is too long makes `operator >>` throw instead of
  setting the failbit; the path `@` and white space are not read back. `SocketAddress.cpp:454`: a used size
  below `offsetof(sun_path)` wraps, and the whole path is printed (`OutputInside`). Two
  addresses with equal used sizes above the union are compared behind its end; this
  comparison is not modelled.
* `ControlMessage.hpp:164`: the iterator steps over the end of an unaligned buffer, by its padding (`IteratorInside`);
  `ControlMessage.hpp:115`: `reserve()` may go below the used size.
* Left to the application, with no promise to check: a callback that adds itself again
  (`CallbackQueue.cpp:39`) or a timer of zero timeout that schedules itself again
  (`AsyncRunner.cpp:145`) starves the rest; a `ListeningSocket` that is destroyed in its own
  callback (`ListeningSocket.cpp:101`); a callee that another thread destroys between
  `expired()` and the call (`WeakCallback.hpp:42`); a `SystemException` out of the
  user's callback, which closes the socket (`StreamSocket.cpp:173`).

## 6. What is not modelled, and the plan

Not modelled for good: printing (`Dump*`, `TypeName`), exceptions' texts,
interfaces without state (`Runner`, `MockableRunner`), build files and vendored
code. `System` is modelled by what its callers see of it: its calls are parts of
their actions, and `EINTR` is retried and not visible, except in `close()`
(`FileDescriptor`) and in that a timeout starts again (see the hazards). The
sequenced-packet examples repeat the structure of the stream ones. A `run()` inside
a callback of the same runner is left out. The unit tests of the other classes are mock
expectations about single calls, which the actions contain; those of
`StreamBuffer`, `SocketAddress`, `ControlMessage` and `SignalSet` are replayed or evaluated.

Every invariant of a passing run is proved, except `TestsPass`. What could be added: a
`run()` nested in a callback, which needs a stack of loops in `EventDispatch`, and the
sequenced-packet examples as a second instance of `EchoServer`.
