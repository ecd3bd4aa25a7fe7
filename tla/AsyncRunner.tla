----------------------------- MODULE AsyncRunner -----------------------------
(***************************************************************************)
(* AsyncRunner, driven by the loop of an other library (as the one of      *)
(* EchoServer2), which polls getEventFD() and calls step().                *)
(*                                                                         *)
(* The timers are those of TimerQueue.  Of its variables, wakeAt is the    *)
(* time at which the timer fd expires and pc says "user" when application  *)
(* code runs: outside step(), or in a listener, a callback or a timer that *)
(* step() calls (where).  That code may schedule and cancel timers, add    *)
(* callbacks and, inside step(), throw; listeners, which run while a batch *)
(* of events is handled, also add and delete listeners.                    *)
(***************************************************************************)
EXTENDS TimerQueue

CONSTANTS FDs,           \* descriptors the application listens to
          TimerFd,       \* the descriptor of TimerFD
          MaxCallbacks,  \* bound: callbacks waiting
          MaxEvents      \* bound: events, additions and deletions of FDs

ASSUME AsyncAssumption ==
    TimerFd \notin FDs /\ MaxCallbacks \in Nat /\ MaxEvents \in Nat

VARIABLES
    where,       \* who runs at pc = "user"
    expired,     \* the timer fd is readable
    registered,  \* the FDs that have a listener
    ready,       \* the FDs with something to read
    batch,       \* events of epoll.wait(0) that are not handled yet
    deleted,     \* fdsDeletedWhileHandlingEvents
    cbq,         \* number of callbacks waiting
    events,      \* events, additions and deletions of FDs so far
    unseen       \* a callback or timer was added that no step() has looked at

asyncVars == <<where, expired, registered, ready, batch, deleted, cbq, events, unseen>>
allVars == <<vars, asyncVars>>

\* The timers and listeners exist already.  How timers come and go is the
\* subject of TimerQueue.
AsyncInit ==
    /\ queue = {} /\ position = [t \in Timers |-> End] /\ cb = [t \in Timers |-> 0]
    /\ alive = Timers /\ now = 0 /\ pc = "user" /\ wakeAt = Forever
    /\ due = <<>> /\ fired = 0
    /\ where = "outside" /\ expired = FALSE
    /\ registered = FDs /\ ready = {} /\ batch = {} /\ deleted = {}
    /\ cbq = 0 /\ events = 0 /\ unseen = FALSE

-----------------------------------------------------------------------------
(* The kernel *)

\* What epoll_wait and a poll() of the epoll descriptor see.
Readable == (registered \cap ready) \cup (IF expired THEN {TimerFd} ELSE {})

TimerExpires ==
    /\ wakeAt # Forever /\ now >= wakeAt
    /\ expired' = TRUE /\ wakeAt' = Forever
    /\ UNCHANGED <<queueVars, now, pc, ghostVars, where, registered, ready, batch, deleted, cbq, events, unseen>>

Arrives(f) ==
    /\ f \notin ready /\ events < MaxEvents /\ now <= MaxStart
    /\ ready' = ready \cup {f} /\ events' = events + 1
    /\ UNCHANGED <<vars, where, expired, registered, batch, deleted, cbq, unseen>>

TimePasses == Tick /\ UNCHANGED asyncVars

-----------------------------------------------------------------------------
(* The application *)

Outside == where = "outside"

\* The timers of the application; only step() looks at the queue again.
UseTimer ==
    /\ \E t \in Timers :
          \/ Cancel(t) /\ UNCHANGED unseen
          \/ /\ \E d \in Timeouts : Schedule(t, d)
             /\ unseen' = (unseen \/ Outside)
    /\ UNCHANGED <<where, expired, registered, ready, batch, deleted, cbq, events>>

\* addCallback(): no wakeUp is set
AddCallback ==
    /\ pc = "user" /\ cbq < MaxCallbacks /\ now <= MaxStart
    /\ cbq' = cbq + 1 /\ unseen' = (unseen \/ Outside)
    /\ UNCHANGED <<vars, where, expired, registered, ready, batch, deleted, events>>

AddFDListener(f) ==
    /\ pc = "user" /\ where = "listener" /\ f \notin registered /\ events < MaxEvents
    /\ events' = events + 1
    /\ registered' = registered \cup {f}
    /\ UNCHANGED <<vars, where, expired, ready, batch, deleted, cbq, unseen>>

\* delFDListener()
DelFDListener(f) ==
    /\ pc = "user" /\ where = "listener" /\ f \in registered /\ events < MaxEvents
    /\ events' = events + 1
    /\ registered' = registered \ {f}
    /\ deleted' = deleted \cup {f}
    /\ UNCHANGED <<vars, where, expired, ready, batch, cbq, unseen>>

\* An exception of a listener, callback or timer leaves step(); the Guard of
\* the batch is destroyed, the timer fd is not armed.
Throw ==
    /\ pc = "user" /\ ~Outside
    /\ where' = "outside" /\ batch' = {} /\ deleted' = {} /\ unseen' = TRUE
    /\ UNCHANGED <<vars, expired, registered, ready, cbq, events>>

Application ==
    \/ UseTimer \/ AddCallback \/ Throw
    \/ \E f \in FDs : AddFDListener(f) \/ DelFDListener(f)

-----------------------------------------------------------------------------
(* The outer loop *)

\* poll() without a timeout
OuterPoll ==
    /\ pc = "user" /\ Outside
    /\ pc' = "outer"
    /\ UNCHANGED <<queueVars, now, wakeAt, ghostVars, asyncVars>>

\* epoll.wait(0) in step(): called when poll() has seen an event, and by an
\* application that likes to
Step ==
    /\ \/ pc = "outer" /\ Readable # {}
       \/ pc = "user" /\ Outside /\ unseen
    /\ pc' = "handle" /\ batch' = Readable
    /\ UNCHANGED <<queueVars, now, wakeAt, ghostVars, where, expired, registered, ready, deleted, cbq, events, unseen>>

-----------------------------------------------------------------------------
(* step() *)

\* TimerFD::handleEventsCb reads until there is nothing to read.
HandleTimerFD ==
    /\ pc = "handle" /\ TimerFd \in batch
    /\ batch' = batch \ {TimerFd} /\ expired' = FALSE
    /\ UNCHANGED <<vars, where, registered, ready, deleted, cbq, events, unseen>>

\* The listener of f is called and reads; a deleted one is skipped, and an
\* unknown one makes FDListenerMap::get throw.
HandleEvent(f) ==
    /\ pc = "handle" /\ f \in batch
    /\ batch' = batch \ {f}
    /\ IF f \in deleted
       THEN UNCHANGED <<pc, where, ready>>
       ELSE pc' = "user" /\ where' = "listener" /\ ready' = ready \ {f}
    /\ UNCHANGED <<queueVars, now, wakeAt, ghostVars, expired, registered, deleted, cbq, events, unseen>>

EventsHandled ==
    /\ pc = "handle" /\ batch = {}
    /\ pc' = "callbacks" /\ deleted' = {}
    /\ UNCHANGED <<queueVars, now, wakeAt, ghostVars, where, expired, registered, ready, batch, cbq, events, unseen>>

\* cbq.execute(): one turn of its loop
ExecuteCallback ==
    /\ pc = "callbacks" /\ cbq > 0
    /\ cbq' = cbq - 1
    /\ pc' = "user" /\ where' = "callback"
    /\ UNCHANGED <<queueVars, now, wakeAt, ghostVars, expired, registered, ready, batch, deleted, events, unseen>>

CallbacksExecuted ==
    /\ pc = "callbacks" /\ cbq = 0
    /\ pc' = "poll"
    /\ UNCHANGED <<queueVars, now, wakeAt, ghostVars, asyncVars>>

\* Mutant of Return: step() ends when it has executed a timer.
ReturnBreaks ==
    /\ pc = "user" /\ ~Outside
    /\ pc' = CASE where = "listener" -> "handle" [] where = "callback" -> "callbacks" [] OTHER -> "user"
    /\ where' = IF where = "timer" THEN "outside" ELSE where
    /\ UNCHANGED <<queueVars, now, wakeAt, ghostVars, expired, registered, ready, batch, deleted, cbq, events, unseen>>

\* Listeners return to the batch, callbacks and timers to cbq.execute().
Return ==
    /\ pc = "user" /\ ~Outside
    /\ pc' = IF where = "listener" THEN "handle" ELSE "callbacks"
    /\ UNCHANGED <<queueVars, now, wakeAt, ghostVars, asyncVars>>

\* Mutant of StepDue: the rest of the time is not looked at.
StepDueAnyway ==
    /\ pc = "poll" /\ queue # {}
    /\ pc' = "execute"
    /\ UNCHANGED <<queueVars, now, wakeAt, ghostVars, asyncVars>>

\* Less than a millisecond is left to the first timer: it is executed.
StepDue ==
    /\ PollDue
    /\ UNCHANGED asyncVars

StepExecutes ==
    /\ ExecuteFirstTimer
    /\ where' = "timer"
    /\ UNCHANGED <<expired, registered, ready, batch, deleted, cbq, events, unseen>>

\* Back to the outer loop, when the timer fd has been set to expire at the
\* given time; this also takes back an expiration.
Returns(expiry) ==
    /\ wakeAt' = expiry /\ expired' = FALSE
    /\ pc' = "user" /\ where' = "outside" /\ unseen' = FALSE
    /\ UNCHANGED <<queueVars, now, ghostVars, registered, ready, batch, deleted, cbq, events>>

Disarm ==
    /\ pc = "poll" /\ queue = {}
    /\ Returns(Forever)

\* Mutant of Arm: the timer fd is armed only when it is not armed already.
ArmOnce ==
    /\ pc = "poll"
    /\ \E n \in queue :
          /\ IsFirst(n) /\ GetTimeout(n) >= MS
          /\ Returns(IF wakeAt = Forever THEN now + GetTimeout(n) ELSE wakeAt)

\* The timer fd is armed with the rest of the first timer's time, which unlike
\* a timeout of epoll_wait is not cut to milliseconds.
Arm ==
    /\ pc = "poll"
    /\ \E n \in queue :
          /\ IsFirst(n) /\ GetTimeout(n) >= MS
          /\ Returns(now + GetTimeout(n))

-----------------------------------------------------------------------------
InStep ==
    \/ HandleTimerFD \/ (\E f \in FDs : HandleEvent(f)) \/ EventsHandled
    \/ ExecuteCallback \/ CallbacksExecuted \/ Return
    \/ StepDue \/ StepExecutes \/ Disarm \/ Arm

AsyncNext ==
    \/ TimerExpires \/ TimePasses \/ (\E f \in FDs : Arrives(f))
    \/ Application \/ OuterPoll \/ Step \/ InStep

\* Application code returns, the outer loop goes on and calls step() when the
\* descriptor becomes readable; time passes and the timer fd expires.
AsyncSpec ==
    /\ AsyncInit /\ [][AsyncNext]_allVars
    /\ WF_allVars(InStep) /\ WF_allVars(OuterPoll) /\ WF_allVars(pc = "outer" /\ Step)
    /\ WF_allVars(TimePasses) /\ WF_allVars(TimerExpires)

-----------------------------------------------------------------------------
(* Properties *)

\* Type correctness.
AsyncTypeOK ==
    /\ queue \subseteq Node /\ position \in [Timers -> Node \cup {End}]
    /\ pc \in {"user", "outer", "handle", "callbacks", "poll", "execute"}
    /\ wakeAt \in Int \cup {Forever}
    /\ where \in {"outside", "listener", "callback", "timer"}
    /\ expired \in BOOLEAN /\ unseen \in BOOLEAN
    /\ registered \subseteq FDs /\ ready \subseteq FDs /\ deleted \subseteq FDs
    /\ batch \subseteq FDs \cup {TimerFd}
    /\ cbq \in 0 .. MaxCallbacks /\ events \in 0 .. MaxEvents

\* While the outer loop waits, the descriptor it polls stands for all that is
\* pending: no callback waits, and the timer fd is readable or expires within a
\* millisecond after the first timer is due.  This is so whatever listeners,
\* callbacks and timers did inside step(), as long as nothing was added
\* outside it and no exception cut it short (executeTimersAndUpdateTimer).
EventFDTells ==
    pc = "outer" /\ ~unseen =>
        /\ cbq = 0
        /\ queue # {} => \/ expired
                         \/ /\ wakeAt # Forever
                            /\ \A n \in queue : wakeAt < n.tte + MS

\* step() looks up only listeners that exist, although listeners delete each
\* other's descriptors, and add them again, while a batch is handled.
BatchKnown == pc = "handle" => \A f \in batch \cap FDs : f \in registered \cup deleted

\* A timer whose scheduling a step() has seen is executed or withdrawn, however
\* the timer fd's expiration, other events and re-arming interleave.
SeenTimersFire ==
    \A i \in 1 .. MaxSchedules :
        (\E t \in Timers : cb[t] = i) ~> (unseen \/ ~\E t \in Timers : cb[t] = i)

\* A callback that is added inside step() does not wait for a later event.
SeenCallbacksRun == (cbq > 0) ~> (unseen \/ cbq = 0)

\* What listeners, callbacks and timers do inside step() leaves it with a batch
\* that it can handle, and the embedding loop with a descriptor that tells all.
StepSound == AsyncTypeOK /\ BatchKnown /\ EventFDTells

\* What step() has seen is executed in the end (executeTimersAndUpdateTimer).
SeenWorkRuns == SeenTimersFire /\ SeenCallbacksRun
=============================================================================
