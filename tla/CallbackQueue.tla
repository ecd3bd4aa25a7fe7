--------------------------- MODULE CallbackQueue ---------------------------
(***************************************************************************)
(* The callback queue, the event pipe and the loop of EpollRunner: threads *)
(* push callbacks with Runner::addCallback while one thread runs           *)
(* EpollRunner::run().  File descriptors other than the pipe, and timers,  *)
(* are only seen as reasons for the loop to leave epoll_wait(); modules    *)
(* EventDispatch and TimerQueue model them.                                *)
(*                                                                         *)
(* A callback is the number it got when it was pushed.  The pipe holds     *)
(* whole ints (wakeUp writes sizeof(int) bytes, far below PIPE_BUF).       *)
(* runnerThreadId is read by producers under queueLock but written by the  *)
(* runner without it.  visibleIds is the set of values such a read can     *)
(* return: every value written since the runner last released queueLock,   *)
(* and the one before.                                                     *)
(***************************************************************************)
EXTENDS Naturals, Sequences

CONSTANTS Producers,       \* threads that only call addCallback
          Runner,          \* the thread that calls run()
          NoThread,        \* nobody holds queueLock; also boost::thread::id()
          PipeCap,         \* ints that fit in the event pipe
          ReadMax,         \* ints read at a time (32 bytes)
          MaxAdds,         \* bound: callbacks added in a behaviour
          CanContinueAdds  \* may the canContinue function call addCallback?

ASSUME ThreadsAssumption ==
    /\ Runner \notin Producers
    /\ NoThread \notin Producers
    /\ Runner # NoThread

ASSUME BoundsAssumption ==
    /\ PipeCap \in Nat \ {0}
    /\ ReadMax \in Nat \ {0}
    /\ MaxAdds \in Nat
    /\ CanContinueAdds \in BOOLEAN

VARIABLES
    queue,           \* CallbackQueue::queue
    added,           \* number of callbacks pushed so far
    last,            \* the callback popped last
    lock,            \* the producer holding queueLock, or NoThread
    tpc,             \* tpc[p]: where producer p is in addCallback
    pipe,            \* ints in the event pipe
    runnerThreadId,  \* EpollRunner::runnerThreadId
    visibleIds,      \* the values a producer may read from it
    rpc,             \* where the runner's thread is
    ret,             \* "ret" of CallbackQueue::execute
    pipeInBatch      \* the pipe is among the events not yet handled

queueVars  == <<queue, added, last>>
threadVars == <<lock, tpc>>
idVars     == <<runnerThreadId, visibleIds>>
loopVars   == <<rpc, ret, pipeInBatch>>
vars       == <<queueVars, threadVars, pipe, idVars, loopVars>>

-----------------------------------------------------------------------------
Init ==
    /\ queue = <<>> /\ added = 0 /\ last = 0
    /\ lock = NoThread
    /\ tpc = [p \in Producers |-> "idle"]
    /\ pipe = 0
    /\ runnerThreadId = NoThread
    /\ visibleIds = {NoThread}
    /\ rpc = "out" /\ ret = FALSE /\ pipeInBatch = FALSE

-----------------------------------------------------------------------------
(* Producers *)

\* queue.push_back(cb), under queueLock.
Push ==
    /\ added < MaxAdds
    /\ added' = added + 1
    /\ queue' = Append(queue, added + 1)
    /\ UNCHANGED last

\* Mutant of Add: the comparison with the queue's size is off by one.
AddWakesOnSecond(p) ==
    /\ tpc[p] = "idle"
    /\ lock = NoThread
    /\ Push
    /\ IF Len(queue') = 2
         THEN lock' = p /\ tpc' = [tpc EXCEPT ![p] = "wakeUp"]
         ELSE UNCHANGED threadVars
    /\ UNCHANGED <<pipe, idVars, loopVars>>

\* CallbackQueue::add in a producer: it keeps queueLock while it calls
\* wakeUp, which it does when the queue was empty.
Add(p) ==
    /\ tpc[p] = "idle"
    /\ lock = NoThread
    /\ Push
    /\ IF Len(queue') = 1
         THEN lock' = p /\ tpc' = [tpc EXCEPT ![p] = "wakeUp"]
         ELSE UNCHANGED threadVars
    /\ UNCHANGED <<pipe, idVars, loopVars>>

\* Mutant of WakeUp: an early return that leaves queueLock locked.
WakeUpKeepsLock(p) ==
    /\ tpc[p] = "wakeUp"
    /\ \E id \in visibleIds :
         tpc' = [tpc EXCEPT ![p] = IF id # NoThread THEN "write" ELSE "idle"]
    /\ UNCHANGED <<lock, queueVars, pipe, idVars, loopVars>>

\* wakeUp does nothing unless some other thread is in run().  For a producer
\* the second comparison of its condition is always true.
WakeUp(p) ==
    /\ tpc[p] = "wakeUp"
    /\ \E id \in visibleIds :
         IF id # NoThread
           THEN tpc' = [tpc EXCEPT ![p] = "write"] /\ UNCHANGED lock
           ELSE tpc' = [tpc EXCEPT ![p] = "idle"] /\ lock' = NoThread
    /\ UNCHANGED <<queueVars, pipe, idVars, loopVars>>

\* Mutant of Write: a wake-up takes the room of two.
WriteWide(p) ==
    /\ tpc[p] = "write"
    /\ pipe + 2 <= PipeCap
    /\ pipe' = pipe + 2
    /\ tpc' = [tpc EXCEPT ![p] = "idle"]
    /\ lock' = NoThread
    /\ UNCHANGED <<queueVars, idVars, loopVars>>

\* The write end of the pipe is blocking: no step while the pipe is full.
\* Returning from add releases queueLock.
Write(p) ==
    /\ tpc[p] = "write"
    /\ pipe < PipeCap
    /\ pipe' = pipe + 1
    /\ tpc' = [tpc EXCEPT ![p] = "idle"]
    /\ lock' = NoThread
    /\ UNCHANGED <<queueVars, idVars, loopVars>>

-----------------------------------------------------------------------------
(* The runner's thread *)

Goto(pc) == rpc' = pc /\ UNCHANGED <<ret, pipeInBatch>>

\* Mutant of PublishId: pop() does not take queueLock, nothing is published.
PublishNothing == UNCHANGED idVars

\* The runner releases queueLock: what it wrote before is now visible.
PublishId ==
    /\ visibleIds' = {runnerThreadId}
    /\ UNCHANGED runnerThreadId

\* An assignment to runnerThreadId, without queueLock.
SetId(id) ==
    /\ runnerThreadId' = id
    /\ visibleIds' = visibleIds \cup {id}

\* Where the runner's thread executes code of the application.
UserCode == {"out", "callback", "timer", "handle"}
                \cup (IF CanContinueAdds THEN {"checkEarly", "check"} ELSE {})

\* addCallback in the runner's thread: wakeUp finds either no id or its own.
AddOwn ==
    /\ rpc \in UserCode
    /\ lock = NoThread
    /\ Push
    /\ PublishId
    /\ UNCHANGED <<threadVars, pipe, loopVars>>

\* run(): remember the thread, enter runImpl.
Run ==
    /\ rpc = "out"
    /\ SetId(Runner)
    /\ rpc' = "execute" /\ ret' = FALSE
    /\ UNCHANGED <<queueVars, threadVars, pipe, pipeInBatch>>

\* Mutant of PopCallback: the newest callback first.
PopNewest ==
    /\ rpc = "execute"
    /\ lock = NoThread
    /\ queue # <<>>
    /\ last' = queue[Len(queue)]
    /\ queue' = SubSeq(queue, 1, Len(queue) - 1)
    /\ rpc' = "callback" /\ ret' = TRUE
    /\ PublishId
    /\ UNCHANGED <<added, threadVars, pipe, pipeInBatch>>

\* pop() returned a callback: execute() calls it.
PopCallback ==
    /\ rpc = "execute"
    /\ lock = NoThread
    /\ queue # <<>>
    /\ last' = Head(queue)
    /\ queue' = Tail(queue)
    /\ rpc' = "callback" /\ ret' = TRUE
    /\ PublishId
    /\ UNCHANGED <<added, threadVars, pipe, pipeInBatch>>

\* pop() returned nothing: execute() returns ret.
PopNothing ==
    /\ rpc = "execute"
    /\ lock = NoThread
    /\ queue = <<>>
    /\ Goto(IF ret THEN "checkEarly" ELSE "poll")
    /\ PublishId
    /\ UNCHANGED <<queueVars, threadVars, pipe>>

\* The callback returns and execute() goes on to the next pop().
CallbackReturns ==
    /\ rpc = "callback"
    /\ Goto("execute")
    /\ UNCHANGED <<queueVars, threadVars, pipe, idVars>>

\* canContinue() between execute() and the wait: "break" leaves the loop.
CheckEarly ==
    /\ rpc = "checkEarly"
    /\ \E continue \in BOOLEAN : Goto(IF continue THEN "poll" ELSE "exit")
    /\ UNCHANGED <<queueVars, threadVars, pipe, idVars>>

\* A timer that is already due is executed without waiting.
Poll ==
    /\ rpc = "poll"
    /\ \E due \in BOOLEAN : Goto(IF due THEN "timer" ELSE "wait")
    /\ UNCHANGED <<queueVars, threadVars, pipe, idVars>>

\* epoll_wait() returns every ready descriptor, the pipe among them.
WaitPipe ==
    /\ rpc = "wait"
    /\ pipe > 0
    /\ rpc' = "handle" /\ pipeInBatch' = TRUE
    /\ UNCHANGED <<queueVars, threadVars, pipe, idVars, ret>>

\* epoll_wait() returns because other descriptors are ready.
WaitOther ==
    /\ rpc = "wait"
    /\ pipe = 0
    /\ Goto("handle")
    /\ UNCHANGED <<queueVars, threadVars, pipe, idVars>>

\* epoll_wait() times out: nothing is ready.
WaitTimeout ==
    /\ rpc = "wait"
    /\ pipe = 0
    /\ Goto("timer")
    /\ UNCHANGED <<queueVars, threadVars, pipe, idVars>>

\* One read() of EventPipe::handleEventsCb; it repeats until a read returns
\* nothing, and no other listener runs in between.
ReadPipe ==
    /\ \/ rpc = "handle" /\ pipeInBatch
       \/ rpc = "readPipe"
    /\ IF pipe > 0
         THEN /\ pipe' = IF pipe > ReadMax THEN pipe - ReadMax ELSE 0
              /\ Goto("readPipe")
         ELSE /\ rpc' = "handle" /\ pipeInBatch' = FALSE
              /\ UNCHANGED <<pipe, ret>>
    /\ UNCHANGED <<queueVars, threadVars, idVars>>

\* Every event of the batch has been handled.
HandleReturns ==
    /\ rpc = "handle"
    /\ ~pipeInBatch
    /\ Goto("check")
    /\ UNCHANGED <<queueVars, threadVars, pipe, idVars>>

\* The first timer has been executed.
TimerReturns ==
    /\ rpc = "timer"
    /\ Goto("check")
    /\ UNCHANGED <<queueVars, threadVars, pipe, idVars>>

\* canContinue() at the end of the loop.
Check ==
    /\ rpc = "check"
    /\ \E continue \in BOOLEAN :
         /\ rpc' = IF continue THEN "execute" ELSE "exit"
         /\ ret' = FALSE
    /\ UNCHANGED <<queueVars, threadVars, pipe, idVars, pipeInBatch>>

\* An exception of application code leaves runImpl; what is queued stays.
Throw ==
    /\ rpc \in {"callback", "timer", "handle", "checkEarly", "check"}
    /\ rpc' = "exit" /\ pipeInBatch' = FALSE
    /\ UNCHANGED <<queueVars, threadVars, pipe, idVars, ret>>

\* ~ResetThreadIdInDestructor, on every way out of run().
ResetId ==
    /\ rpc = "exit"
    /\ SetId(NoThread)
    /\ Goto("out")
    /\ UNCHANGED <<queueVars, threadVars, pipe>>

-----------------------------------------------------------------------------
ProducerStep(p) == WakeUp(p) \/ Write(p)

RunnerStep ==
    \/ PopCallback \/ PopNothing \/ CallbackReturns \/ CheckEarly \/ Poll
    \/ WaitPipe \/ ReadPipe \/ HandleReturns \/ TimerReturns \/ Check \/ ResetId

Next ==
    \/ \E p \in Producers : Add(p) \/ ProducerStep(p)
    \/ RunnerStep
    \/ Run \/ AddOwn \/ WaitOther \/ WaitTimeout \/ Throw

Spec == Init /\ [][Next]_vars

\* A thread that has a step to take takes it; nothing obliges the application
\* to add a callback, to call run() or to throw, nor another descriptor to
\* become ready or a timer to expire.  Application code is assumed to return.
FairSpec ==
    /\ Spec
    /\ WF_vars(RunnerStep)
    /\ \A p \in Producers : WF_vars(ProducerStep(p))

-----------------------------------------------------------------------------
(* Properties *)

\* Type correctness; queueLock is held by exactly the producer inside wakeUp.
TypeOK ==
    /\ queue \in Seq(Nat) /\ added \in 0 .. MaxAdds /\ last \in Nat
    /\ lock \in Producers \cup {NoThread}
    /\ tpc \in [Producers -> {"idle", "wakeUp", "write"}]
    /\ pipe \in 0 .. PipeCap
    /\ runnerThreadId \in {Runner, NoThread}
    /\ visibleIds \subseteq {Runner, NoThread}
    /\ runnerThreadId \in visibleIds
    /\ rpc \in {"out", "execute", "callback", "checkEarly", "poll", "wait",
                "timer", "handle", "readPipe", "check", "exit"}
    /\ ret \in BOOLEAN /\ pipeInBatch \in BOOLEAN
    /\ \A p \in Producers : tpc[p] # "idle" <=> lock = p

\* The runner never sleeps in epoll_wait() on a queue that holds a callback
\* unless a wake-up is in the pipe or about to be written to it: adding only
\* wakes the runner when the queue was empty, and reads runnerThreadId without
\* synchronisation, so one missed wake-up would silence the queue for good.
NoLostWakeUp ==
    rpc = "wait" /\ queue # <<>> /\ lock = NoThread => pipe > 0

\* A producer inside wakeUp() can always write: the pipe is not full while
\* queueLock is held.
WriteNeverBlocks == \A p \in Producers : tpc[p] = "write" => pipe < PipeCap

\* addCallback returns (Runner.hpp: it "can be used for pushing work from
\* another thread to Runner thread").
AddReturns == \A p \in Producers : tpc[p] # "idle" ~> tpc[p] = "idle"

\* While the runner stays in run(), every callback is eventually started.
CallbacksStart ==
    \A c \in 1 .. MaxAdds :
        (c \in last + 1 .. added /\ rpc # "out") ~> (c <= last \/ rpc = "out")

\* Callbacks start exactly once, in the order in which they were added.
WQ == INSTANCE WorkQueue WITH accepted <- added, started <- last

Implements == WQ!Spec
=============================================================================
