----------------------------- MODULE TimerQueue -----------------------------
(***************************************************************************)
(* Timer, TimerQueue and the part of EpollRunner::runImpl that waits for   *)
(* and executes timers.                                                    *)
(*                                                                         *)
(* Time is counted in ticks, MS of them in a millisecond: durations have   *)
(* a finer resolution than the clock, which System::getMonotonicClock      *)
(* truncates to milliseconds.  A callback is the number of the schedule()  *)
(* call it was given to.  The multimap is the set of its nodes, ordered by *)
(* tte and, among equal keys, by insertion (ord); an iterator is the node  *)
(* it points to, or End.                                                   *)
(***************************************************************************)
EXTENDS Integers, Sequences

CONSTANTS Timers,        \* timer objects
          Timeouts,      \* arguments of schedule(), in ticks
          MS,            \* ticks in a millisecond
          IntMax,        \* the largest int that epoll_wait can be given
          End,           \* queue.end()
          Forever,       \* epoll_wait with a negative timeout
          MaxSchedules,  \* bound: schedule() calls in a behaviour
          MaxStart,      \* bound: latest time of a schedule() call
          MaxTime        \* bound: latest time

ASSUME TimeAssumption ==
    /\ MS \in Nat \ {0}
    /\ IntMax \in Nat
    /\ Timeouts \subseteq Int
    /\ MaxSchedules \in Nat /\ MaxStart \in Nat /\ MaxTime \in Nat

VARIABLES
    queue,     \* TimerQueue::queue
    position,  \* Timer::position
    cb,        \* Timer::cb, 0 when empty
    alive,     \* the timers that exist
    now,       \* real time
    pc,        \* "user", "poll", "wait" or "execute"
    wakeAt,    \* when the current epoll_wait times out
    due,       \* due[i]: when the i-th schedule() asked to be executed
    fired      \* the callback executed last

queueVars == <<queue, position, cb, alive>>
loopVars  == <<pc, wakeAt>>
ghostVars == <<due, fired>>
vars == <<queueVars, now, loopVars, ghostVars>>

\* A node of the multimap: its key and the timer it points to.
Node == [tte : Int, ord : Nat, timer : Timers]

ASSUME EndAssumption == End \notin Node
ASSUME ForeverAssumption == Forever \notin Int

Init ==
    /\ queue = {}
    /\ position = [t \in Timers |-> End]
    /\ cb = [t \in Timers |-> 0]
    /\ alive = {}
    /\ now = 0
    /\ pc = "user" /\ wakeAt = Forever
    /\ due = <<>> /\ fired = 0

-----------------------------------------------------------------------------
\* System::getMonotonicClock, in ticks.
MonotonicClock == (now \div MS) * MS

\* The first node of the multimap.
IsFirst(n) ==
    /\ n \in queue
    /\ \A m \in queue : n.tte < m.tte \/ (n.tte = m.tte /\ n.ord <= m.ord)

\* TimerQueue::getTimeout of a queue whose first node is n.
GetTimeout(n) ==
    IF n.tte < MonotonicClock THEN 0 ELSE n.tte - MonotonicClock

\* static_cast<int> of a number of milliseconds.
ToInt(ms) ==
    LET r == ms % (2 * (IntMax + 1))
    IN  IF r <= IntMax THEN r ELSE r - 2 * (IntMax + 1)

-----------------------------------------------------------------------------
(* The application: callbacks, listeners, and code outside run() *)

\* Mutant of Construct: the position is left singular, not end().
ConstructSingular(t) ==
    /\ pc = "user"
    /\ t \notin alive
    /\ alive' = alive \cup {t}
    /\ position' = [position EXCEPT ![t] = <<>>]
    /\ cb' = [cb EXCEPT ![t] = 0]
    /\ UNCHANGED <<queue, now, loopVars, ghostVars>>

Construct(t) ==
    /\ pc = "user"
    /\ t \notin alive
    /\ alive' = alive \cup {t}
    /\ position' = [position EXCEPT ![t] = End]
    /\ cb' = [cb EXCEPT ![t] = 0]
    /\ UNCHANGED <<queue, now, loopVars, ghostVars>>

\* TimerQueue::cancel: the node of the timer, if any, is erased.
Erased(t) == queue \ {position[t]}

\* Timer::schedule: the callback is replaced, the old node erased and a new
\* one inserted behind all nodes with the same key.
Schedule(t, d) ==
    LET i == Len(due) + 1
        n == [tte |-> MonotonicClock + d, ord |-> i, timer |-> t]
    IN  /\ pc = "user"
        /\ t \in alive
        /\ i <= MaxSchedules /\ now <= MaxStart
        /\ cb' = [cb EXCEPT ![t] = i]
        /\ queue' = Erased(t) \cup {n}
        /\ position' = [position EXCEPT ![t] = n]
        /\ due' = Append(due, now + d)
        /\ UNCHANGED <<alive, now, loopVars, fired>>

\* Mutant of Cancel: the callback is kept.
CancelKeepsCallback(t) ==
    /\ pc = "user"
    /\ t \in alive
    /\ queue' = Erased(t)
    /\ position' = [position EXCEPT ![t] = End]
    /\ UNCHANGED <<cb, alive, now, loopVars, ghostVars>>

\* Timer::cancel
Cancel(t) ==
    /\ pc = "user"
    /\ t \in alive
    /\ queue' = Erased(t)
    /\ position' = [position EXCEPT ![t] = End]
    /\ cb' = [cb EXCEPT ![t] = 0]
    /\ UNCHANGED <<alive, now, loopVars, ghostVars>>

\* Mutant of Destroy: the destructor does not cancel.
DestroyUncancelled(t) ==
    /\ pc = "user"
    /\ t \in alive
    /\ alive' = alive \ {t}
    /\ UNCHANGED <<queue, position, cb, now, loopVars, ghostVars>>

\* Timer::~Timer; a callback may destroy the timer that executes it.
Destroy(t) ==
    /\ pc = "user"
    /\ t \in alive
    /\ queue' = Erased(t)
    /\ position' = [position EXCEPT ![t] = End]
    /\ cb' = [cb EXCEPT ![t] = 0]
    /\ alive' = alive \ {t}
    /\ UNCHANGED <<now, loopVars, ghostVars>>

-----------------------------------------------------------------------------
(* The loop *)

\* The application returns to the loop (or calls run()).
UserReturns ==
    /\ pc = "user"
    /\ pc' = "poll"
    /\ UNCHANGED <<queueVars, now, wakeAt, ghostVars>>

\* No timer: NO_TIMEOUT is passed on, which epoll_wait takes as "forever".
PollEmpty ==
    /\ pc = "poll"
    /\ queue = {}
    /\ pc' = "wait" /\ wakeAt' = Forever
    /\ UNCHANGED <<queueVars, now, ghostVars>>

\* Mutant of PollDue: up to two milliseconds count as none.
PollDueEarly ==
    /\ pc = "poll"
    /\ \E n \in queue : IsFirst(n) /\ GetTimeout(n) < 2 * MS
    /\ pc' = "execute"
    /\ UNCHANGED <<queueVars, now, wakeAt, ghostVars>>

\* isTimeout: less than a millisecond left, the timer is executed at once.
PollDue ==
    /\ pc = "poll"
    /\ \E n \in queue : IsFirst(n) /\ GetTimeout(n) < MS
    /\ pc' = "execute"
    /\ UNCHANGED <<queueVars, now, wakeAt, ghostVars>>

\* Mutant of PollWait: the timeout does not reach epoll_wait.
PollWaitForever ==
    /\ pc = "poll"
    /\ \E n \in queue : IsFirst(n) /\ GetTimeout(n) >= MS
    /\ pc' = "wait" /\ wakeAt' = Forever
    /\ UNCHANGED <<queueVars, now, ghostVars>>

\* wait: epoll_wait is given the whole milliseconds, as an int.
PollWait ==
    /\ pc = "poll"
    /\ \E n \in queue :
         /\ IsFirst(n)
         /\ GetTimeout(n) >= MS
         /\ LET ms == ToInt(GetTimeout(n) \div MS)
            IN  wakeAt' = IF ms < 0 THEN Forever ELSE now + ms * MS
    /\ pc' = "wait"
    /\ UNCHANGED <<queueVars, now, ghostVars>>

\* epoll_wait returns 0, never before the time it was given.
WaitTimesOut ==
    /\ pc = "wait"
    /\ wakeAt # Forever
    /\ now >= wakeAt
    /\ pc' = "execute" /\ wakeAt' = Forever
    /\ UNCHANGED <<queueVars, now, ghostVars>>

\* epoll_wait returns events: listeners and callbacks run.
WaitEvents ==
    /\ pc = "wait"
    /\ pc' = "user" /\ wakeAt' = Forever
    /\ UNCHANGED <<queueVars, now, ghostVars>>

\* executeFirstTimer: the first node is erased without a look at its key, the
\* callback moved out of the timer and called.
ExecuteFirstTimer ==
    /\ pc = "execute"
    /\ \E n \in queue :
         /\ IsFirst(n)
         /\ queue' = queue \ {n}
         /\ position' = [position EXCEPT ![n.timer] = End]
         /\ fired' = cb[n.timer]
         /\ cb' = [cb EXCEPT ![n.timer] = 0]
    /\ pc' = "user"
    /\ UNCHANGED <<alive, now, wakeAt, due>>

Tick ==
    /\ now < MaxTime
    /\ now' = now + 1
    /\ UNCHANGED <<queueVars, loopVars, ghostVars>>

-----------------------------------------------------------------------------
UserStep ==
    \E t \in Timers :
        \/ Construct(t) \/ Cancel(t) \/ Destroy(t)
        \/ \E d \in Timeouts : Schedule(t, d)

LoopStep ==
    UserReturns \/ PollEmpty \/ PollDue \/ PollWait \/ WaitTimesOut \/ ExecuteFirstTimer

Next == UserStep \/ LoopStep \/ WaitEvents \/ Tick

Spec == Init /\ [][Next]_vars

\* The loop goes on (user code returns and run() is not left) and time passes.
FairSpec == Spec /\ WF_vars(LoopStep) /\ WF_vars(Tick)

-----------------------------------------------------------------------------
(* Properties *)

\* Type correctness.
TypeOK ==
    /\ queue \subseteq Node
    /\ position \in [Timers -> Node \cup {End}]
    /\ cb \in [Timers -> Nat]
    /\ alive \subseteq Timers
    /\ now \in Nat
    /\ pc \in {"user", "poll", "wait", "execute"}
    /\ wakeAt \in Int \cup {Forever}
    /\ due \in Seq(Int) /\ fired \in Nat

\* Iterators and nodes point at each other, whatever sequence of schedule,
\* cancel, execute and destroy led here: erase() never gets an iterator that
\* is no longer valid and the queue never holds a destroyed timer.
PositionsValid ==
    /\ \A t \in Timers : position[t] # End =>
         position[t] \in queue /\ position[t].timer = t
    /\ \A n \in queue : n.timer \in alive /\ position[n.timer] = n

\* A queued timer has the callback it was scheduled with last: execute() never
\* calls an empty function and a callback is not kept once it is withdrawn.
CallbacksKept ==
    \A t \in Timers :
        IF position[t] = End THEN cb[t] = 0
        ELSE cb[t] \in 1 .. Len(due) /\ cb[t] = position[t].ord

\* A pending scheduling is executed or withdrawn, however it is interleaved
\* with file descriptor events.
TimersFire ==
    \A i \in 1 .. MaxSchedules :
        (\E t \in Timers : cb[t] = i) ~> ~(\E t \in Timers : cb[t] = i)

\* What the application has pending: the callbacks of the queued timers.
Pending == [t \in Timers |-> IF position[t] = End THEN 0 ELSE cb[t]]

\* The queue and the loop keep the promise of Timer, with a slack of two
\* milliseconds: one lost when schedule() reads the clock, one when the loop
\* rounds the rest down.  Timer.hpp does not mention it ("Schedule to be
\* executed after the given timeout has passed.").
Lax == INSTANCE OneShotTimers WITH pending <- Pending, Slack <- 2 * MS

KeepsPromise == Lax!Spec
=============================================================================
