---------------------------- MODULE TimerProofs ----------------------------
(***************************************************************************)
(* Proofs about TimerQueue and AsyncRunner, for any timers, timeouts,      *)
(* descriptors, bounds and resolution of the clock.                        *)
(*                                                                         *)
(* What Timer and TimerQueue do by themselves (QueueStep) keeps QueueInv,  *)
(* whatever loop drives them: EpollRunner's loop in TimerQueue, step() in  *)
(* AsyncRunner.  That a loop fires no timer too early needs TimesOK of the *)
(* one and LoopOK of the other.                                            *)
(***************************************************************************)
EXTENDS AsyncRunner, TLAPS

USE TimeAssumption, EndAssumption

-----------------------------------------------------------------------------
(* The clock *)

\* Whole milliseconds: less than one is lost.
LEMMA Rounded ==
  ASSUME NEW x \in Nat
  PROVE  x \div MS \in Nat /\ (x \div MS) * MS <= x /\ x < (x \div MS) * MS + MS
OBVIOUS

\* The clock is less than a millisecond slow.
LEMMA ClockBounds ==
  ASSUME now \in Nat
  PROVE  MonotonicClock \in Int /\ MonotonicClock <= now /\ now < MonotonicClock + MS
BY Rounded DEF MonotonicClock

\* Milliseconds compare as the ticks they stand for.
LEMMA FewerMilliseconds ==
  ASSUME NEW a \in Nat, NEW b \in Nat, a * MS < b * MS + MS
  PROVE  a <= b
<1>1. ASSUME a >= b + 1 PROVE FALSE
  <2>1. PICK c \in Nat : a = b + 1 + c
    BY <1>1
  <2>2. a * MS = b * MS + MS + c * MS /\ c * MS >= 0
    BY <2>1
  <2> QED
    BY <2>2
<1> QED
  BY <1>1

\* A number that fits an int is not changed by the cast.
LEMMA FitsInt ==
  ASSUME NEW ms \in Nat, ms <= IntMax
  PROVE  ToInt(ms) = ms
BY DEF ToInt

-----------------------------------------------------------------------------
(* Timer and TimerQueue, without a loop *)

\* The types of what does not belong to the loop
QueueTypeOK ==
    /\ queue \subseteq Node
    /\ position \in [Timers -> Node \cup {End}]
    /\ cb \in [Timers -> Nat]
    /\ alive \subseteq Timers
    /\ now \in Nat
    /\ due \in Seq(Int) /\ fired \in Nat

\* A node's key is less than a millisecond before the time its user asked for.
KeysOK == \A n \in queue : n.ord \in 1 .. Len(due) /\ due[n.ord] < n.tte + MS

\* The inductive invariant: nodes and iterators agree, and so do callbacks and
\* the keys.
QueueInv == QueueTypeOK /\ PositionsValid /\ CallbacksKept /\ KeysOK

QueueStep ==
    \/ \E t \in Timers : \/ Construct(t) \/ Cancel(t) \/ Destroy(t)
                         \/ \E d \in Timeouts : Schedule(t, d)
    \/ ExecuteFirstTimer \/ Tick
    \/ UNCHANGED <<queueVars, now, ghostVars>>

\* Erasing t's node, as cancel() does, leaves exactly the others' nodes.
LEMMA EraseKeeps ==
  ASSUME QueueTypeOK, PositionsValid, NEW t \in Timers
  PROVE  \A n \in Node : n \in Erased(t) <=> n \in queue /\ n.timer # t
BY DEF QueueTypeOK, PositionsValid, Erased

\* The application's operations and the execution of a timer keep the types.
LEMMA QueueTypeStep == QueueTypeOK /\ QueueStep => QueueTypeOK'
<1> SUFFICES ASSUME QueueTypeOK, QueueStep PROVE QueueTypeOK'
  OBVIOUS
<1> USE DEF QueueTypeOK, queueVars, loopVars, ghostVars
<1>1. ASSUME NEW t \in Timers, Construct(t) \/ Cancel(t) \/ Destroy(t) PROVE QueueTypeOK'
  <2>1. queue' \subseteq queue /\ alive' \subseteq Timers
    BY <1>1 DEF Construct, Cancel, Destroy, Erased
  <2>2. position' = [position EXCEPT ![t] = End] /\ cb' = [cb EXCEPT ![t] = 0]
    BY <1>1 DEF Construct, Cancel, Destroy
  <2>3. UNCHANGED <<now, due, fired>>
    BY <1>1 DEF Construct, Cancel, Destroy
  <2> QED
    BY <2>1, <2>2, <2>3
<1>2. ASSUME NEW t \in Timers, NEW d \in Timeouts, Schedule(t, d) PROVE QueueTypeOK'
  <2> DEFINE n == [tte |-> MonotonicClock + d, ord |-> Len(due) + 1, timer |-> t]
  <2>1. MonotonicClock \in Int
    BY ClockBounds
  <2>2. n \in Node
    BY <2>1 DEF Node
  <2>3. queue' = Erased(t) \cup {n} /\ position' = [position EXCEPT ![t] = n]
    BY <1>2 DEF Schedule
  <2>4. due' \in Seq(Int) /\ cb' \in [Timers -> Nat]
    BY <1>2 DEF Schedule
  <2>5. UNCHANGED <<alive, now, fired>>
    BY <1>2 DEF Schedule
  <2> HIDE DEF n
  <2> QED
    BY <2>2, <2>3, <2>4, <2>5 DEF Erased
<1>3. CASE ExecuteFirstTimer
  BY <1>3 DEF ExecuteFirstTimer, Node
<1>4. CASE Tick \/ UNCHANGED <<queueVars, now, ghostVars>>
  BY <1>4 DEF Tick
<1> HIDE DEF QueueTypeOK
<1> QED
  BY <1>1, <1>2, <1>3, <1>4 DEF QueueStep

\* ... and the rest of the invariant.
LEMMA QueueInvStep == QueueInv /\ QueueStep => QueueInv'
<1> SUFFICES ASSUME QueueInv, QueueStep PROVE PositionsValid' /\ CallbacksKept' /\ KeysOK'
  BY QueueTypeStep DEF QueueInv
<1> USE DEF QueueInv, QueueTypeOK, PositionsValid, CallbacksKept, KeysOK, queueVars, loopVars, ghostVars
<1>1. ASSUME NEW t \in Timers, Construct(t) PROVE PositionsValid' /\ CallbacksKept' /\ KeysOK'
  BY <1>1 DEF Construct
<1>2. ASSUME NEW t \in Timers, Cancel(t) \/ Destroy(t)
      PROVE  PositionsValid' /\ CallbacksKept' /\ KeysOK'
  <2>1. queue' = Erased(t) /\ alive \ {t} \subseteq alive' /\ due' = due
    BY <1>2 DEF Cancel, Destroy
  <2>2. position' = [position EXCEPT ![t] = End] /\ cb' = [cb EXCEPT ![t] = 0]
    BY <1>2 DEF Cancel, Destroy
  <2>3. \A n \in queue' : n \in queue /\ n.timer # t
    BY <2>1, EraseKeeps DEF Erased
  <2>4. \A n \in queue : n.timer # t => n \in queue'
    BY <2>1, EraseKeeps
  <2>5. ASSUME NEW n \in queue' PROVE n.timer \in alive' /\ position'[n.timer] = n
    BY <2>1, <2>2, <2>3 DEF Node
  <2>6. ASSUME NEW u \in Timers, position'[u] # End
        PROVE  position'[u] \in queue' /\ position'[u].timer = u
    BY <2>2, <2>4, <2>6
  <2>7. CallbacksKept'
    BY <2>1, <2>2
  <2>8. KeysOK'
    BY <2>1, <2>3
  <2> QED
    BY <2>5, <2>6, <2>7, <2>8
<1>3. ASSUME NEW t \in Timers, NEW d \in Timeouts, Schedule(t, d)
      PROVE  PositionsValid' /\ CallbacksKept' /\ KeysOK'
  <2> DEFINE n == [tte |-> MonotonicClock + d, ord |-> Len(due) + 1, timer |-> t]
  <2>a. MonotonicClock + d \in Int /\ Len(due) + 1 \in Nat /\ now + d < MonotonicClock + d + MS
    BY ClockBounds
  <2>1. n \in Node /\ n.timer = t /\ n.ord = Len(due) + 1 /\ n.tte = MonotonicClock + d /\ n # End
    BY <2>a DEF Node
  <2>2. /\ queue' = Erased(t) \cup {n} /\ position' = [position EXCEPT ![t] = n]
        /\ cb' = [cb EXCEPT ![t] = Len(due) + 1] /\ t \in alive /\ alive' = alive
    BY <1>3 DEF Schedule
  <2>3. /\ Len(due') = Len(due) + 1 /\ due'[Len(due) + 1] = now + d
        /\ \A i \in 1 .. Len(due) : due'[i] = due[i]
    BY <1>3 DEF Schedule
  <2> HIDE DEF n
  <2>4. \A m \in queue' : m = n \/ (m \in queue /\ m.timer # t)
    BY <2>2, EraseKeeps DEF Erased
  <2>5. PositionsValid'
    <3>1. \A m \in queue : m.timer # t => m \in queue'
      BY <2>2, EraseKeeps
    <3>2. ASSUME NEW m \in queue' PROVE m.timer \in alive' /\ position'[m.timer] = m
      BY <2>1, <2>2, <2>4 DEF Node
    <3>3. ASSUME NEW u \in Timers, position'[u] # End
          PROVE  position'[u] \in queue' /\ position'[u].timer = u
      BY <2>1, <2>2, <3>1, <3>3
    <3> QED
      BY <3>2, <3>3
  <2>6. ASSUME NEW u \in Timers
        PROVE  IF position'[u] = End THEN cb'[u] = 0
               ELSE cb'[u] \in 1 .. Len(due') /\ cb'[u] = position'[u].ord
    <3>1. CASE u = t
      BY <2>1, <2>2, <2>3, <3>1
    <3>2. CASE u # t
      BY <2>2, <2>3, <3>2
    <3> QED
      BY <3>1, <3>2
  <2>7. ASSUME NEW m \in queue' PROVE m.ord \in 1 .. Len(due') /\ due'[m.ord] < m.tte + MS
    <3>1. CASE m = n
      BY <2>a, <2>1, <2>3, <3>1
    <3>2. CASE m \in queue
      BY <2>3, <3>2
    <3> QED
      BY <2>4, <3>1, <3>2
  <2> QED
    BY <2>5, <2>6, <2>7
<1>4. CASE ExecuteFirstTimer
  BY <1>4 DEF ExecuteFirstTimer, Node
<1>5. CASE UNCHANGED <<queue, position, cb, alive, due>>
  BY <1>5
<1>6. Tick \/ UNCHANGED <<queueVars, now, ghostVars>> => UNCHANGED <<queue, position, cb, alive, due>>
  BY DEF Tick
<1> HIDE DEF QueueInv, PositionsValid, CallbacksKept, KeysOK, QueueTypeOK
<1> QED
  BY <1>1, <1>2, <1>3, <1>4, <1>5, <1>6 DEF QueueStep

-----------------------------------------------------------------------------
(* The promise of Timer *)

\* The first timer is not executed a millisecond before its key, or earlier.
NotEarly == \A n \in queue : IsFirst(n) => n.tte < now + MS

\* What is executed only when it is due fires as OneShotTimers allows; all other
\* operations are steps of that specification as they stand.
LEMMA PromiseStep ==
  ASSUME QueueInv, QueueStep, ExecuteFirstTimer => NotEarly
  PROVE  [Lax!Next]_(Lax!vars)
<1> USE DEF QueueInv, QueueTypeOK
<1>1. ASSUME NEW t \in Timers, Construct(t) \/ Cancel(t) \/ Destroy(t) PROVE [Lax!Next]_(Lax!vars)
  <2>1. /\ position' = [position EXCEPT ![t] = End] /\ cb' = [cb EXCEPT ![t] = 0]
        /\ UNCHANGED <<due, fired, now>>
    BY <1>1 DEF Construct, Cancel, Destroy, ghostVars
  <2>2. Pending' = [Pending EXCEPT ![t] = 0]
    BY <2>1 DEF Pending
  <2> QED
    BY <2>1, <2>2 DEF Lax!Next, Lax!Cancel
<1>2. ASSUME NEW t \in Timers, NEW d \in Timeouts, Schedule(t, d) PROVE [Lax!Next]_(Lax!vars)
  <2> DEFINE n == [tte |-> MonotonicClock + d, ord |-> Len(due) + 1, timer |-> t]
  <2>1. n \in Node
    BY ClockBounds DEF Node
  <2>2. n # End
    BY <2>1
  <2>3. position' = [position EXCEPT ![t] = n]
    BY <1>2 DEF Schedule
  <2> HIDE DEF n
  <2>4. /\ cb' = [cb EXCEPT ![t] = Len(due) + 1]
        /\ due' = Append(due, now + d) /\ Len(due') = Len(due) + 1 /\ UNCHANGED <<fired, now>>
    BY <1>2 DEF Schedule
  <2>5. Pending' = [Pending EXCEPT ![t] = Len(due')]
    BY <2>2, <2>3, <2>4 DEF Pending
  <2> QED
    BY <2>4, <2>5 DEF Lax!Next, Lax!Schedule
<1>3. CASE ExecuteFirstTimer
  <2>1. PICK n \in queue : /\ IsFirst(n) /\ position' = [position EXCEPT ![n.timer] = End]
                           /\ fired' = cb[n.timer] /\ cb' = [cb EXCEPT ![n.timer] = 0]
                           /\ due' = due /\ now' = now
    BY <1>3 DEF ExecuteFirstTimer
  <2> DEFINE t == n.timer
  <2>2. t \in Timers /\ position[t] = n /\ n # End /\ n \in Node
    BY DEF PositionsValid, Node
  <2>3. cb[t] = n.ord /\ n.ord \in 1 .. Len(due) /\ due[n.ord] < n.tte + MS
    BY <2>2 DEF CallbacksKept, KeysOK
  <2>4. n.tte < now + MS /\ n.tte \in Int
    BY <1>3, <2>1, <2>2 DEF NotEarly, Node
  <2>5. due[n.ord] \in Int
    BY <2>3
  <2> HIDE DEF t
  <2>6. Pending[t] = n.ord
    BY <2>2, <2>3 DEF Pending
  <2>7. due[Pending[t]] - now < 2 * MS /\ Pending[t] # 0
    BY <2>3, <2>4, <2>5, <2>6
  <2>8. Pending' = [Pending EXCEPT ![t] = 0]
    BY <2>1, <2>2 DEF Pending, t
  <2>9. fired' = Pending[t]
    BY <2>1, <2>3, <2>6 DEF t
  <2> QED
    BY <2>1, <2>2, <2>7, <2>8, <2>9 DEF Lax!Next, Lax!Fire
<1>4. CASE Tick
  <2>1. Pending' = Pending /\ now' = now + 1 /\ UNCHANGED <<due, fired>>
    BY <1>4 DEF Tick, Pending, queueVars, ghostVars
  <2> QED
    BY <2>1 DEF Lax!Next, Lax!Tick
<1>5. CASE UNCHANGED <<queueVars, now, ghostVars>>
  BY <1>5 DEF Pending, queueVars, ghostVars, Lax!vars
<1> QED
  BY <1>1, <1>2, <1>3, <1>4, <1>5 DEF QueueStep

\* Nothing is queued at first, and nothing promised.
LEMMA QueueInit ==
  ASSUME /\ queue = {} /\ position = [t \in Timers |-> End] /\ cb = [t \in Timers |-> 0]
         /\ alive \subseteq Timers /\ now = 0 /\ due = <<>> /\ fired = 0
  PROVE  QueueInv /\ Lax!Init
<1>1. QueueTypeOK
  BY DEF QueueTypeOK
<1>2. PositionsValid /\ CallbacksKept /\ KeysOK
  BY DEF PositionsValid, CallbacksKept, KeysOK
<1>3. Lax!Init
  BY DEF Lax!Init, Pending
<1> QED
  BY <1>1, <1>2, <1>3 DEF QueueInv

-----------------------------------------------------------------------------
(* The loop of EpollRunner *)

LoopTypeOK == pc \in {"user", "poll", "wait", "execute"} /\ wakeAt \in Int \cup {Forever}

\* The loop itself does not touch the queue, except to execute a timer.
LEMMA LoopLeavesQueue == [Next]_vars => QueueStep
BY DEF Next, UserStep, LoopStep, QueueStep, UserReturns, PollEmpty, PollDue, PollWait, WaitTimesOut,
       WaitEvents, vars

\* The loop's variables keep their types: what the cast to int makes of a
\* timeout is an int.
LEMMA LoopTypeStep == QueueInv /\ LoopTypeOK /\ [Next]_vars => LoopTypeOK'
<1> SUFFICES ASSUME QueueInv, LoopTypeOK, [Next]_vars PROVE LoopTypeOK'
  OBVIOUS
<1> USE DEF LoopTypeOK
<1>1. CASE UserStep \/ Tick \/ UNCHANGED vars
  BY <1>1 DEF UserStep, Construct, Cancel, Destroy, Schedule, Tick, loopVars, vars
<1>2. CASE UserReturns \/ PollEmpty \/ PollDue \/ WaitTimesOut \/ WaitEvents \/ ExecuteFirstTimer
  BY <1>2 DEF UserReturns, PollEmpty, PollDue, WaitTimesOut, WaitEvents, ExecuteFirstTimer
<1>3. CASE PollWait
  <2>1. PICK n \in queue : LET ms == ToInt(GetTimeout(n) \div MS)
                           IN  wakeAt' = IF ms < 0 THEN Forever ELSE now + ms * MS
    BY <1>3 DEF PollWait
  <2>2. n.tte \in Int /\ now \in Nat
    BY DEF QueueInv, QueueTypeOK, Node
  <2>3. GetTimeout(n) \in Nat
    BY <2>2, ClockBounds DEF GetTimeout
  <2>4. GetTimeout(n) \div MS \in Nat
    BY <2>3, Rounded
  <2>5. ASSUME NEW ms \in Nat PROVE ToInt(ms) \in Int
    BY DEF ToInt
  <2> QED
    BY <1>3, <2>1, <2>2, <2>4, <2>5 DEF PollWait
<1> QED
  BY <1>1, <1>2, <1>3 DEF Next, LoopStep

\* Types, iterators and callbacks are those of the queue with its loop.
LEMMA Invariance == Spec => [](QueueInv /\ LoopTypeOK)
<1>1. Init => QueueInv /\ LoopTypeOK
  BY QueueInit DEF Init, LoopTypeOK
<1>2. QueueInv /\ LoopTypeOK /\ [Next]_vars => QueueInv' /\ LoopTypeOK'
  BY LoopLeavesQueue, LoopTypeStep, QueueInvStep
<1> QED
  BY <1>1, <1>2, PTL DEF Spec

\* Spec keeps its types, for any timers, timeouts and resolution of the clock.
THEOREM TypeCorrect == Spec => []TypeOK
<1>1. QueueInv /\ LoopTypeOK => TypeOK
  BY DEF QueueInv, QueueTypeOK, LoopTypeOK, TypeOK
<1> QED
  BY <1>1, Invariance, PTL

\* The iterator a Timer keeps is end() or its own node, and the queue points to
\* no destroyed timer: TimerQueue::cancel erases what is there.
THEOREM IteratorsStayValid == Spec => []PositionsValid
<1>1. QueueInv => PositionsValid
  BY DEF QueueInv
<1> QED
  BY <1>1, Invariance, PTL

\* A queued timer holds the callback of its last schedule(), any other none:
\* Timer::execute moves out a function that can be called.
THEOREM CallbacksStayPaired == Spec => []CallbacksKept
<1>1. QueueInv => CallbacksKept
  BY DEF QueueInv
<1> QED
  BY <1>1, Invariance, PTL

-----------------------------------------------------------------------------
(* The loop of EpollRunner executes no timer too early *)

\* A timeout, in milliseconds, fits the int that epoll_wait takes.
TimeoutsFit == \A d \in Timeouts : d <= IntMax * MS

\* No key is further away than an int reaches; epoll_wait ends less than a
\* millisecond before the first key at most; and a timer is executed only then.
TimesOK ==
    /\ \A n \in queue : n.tte <= now + IntMax * MS
    /\ pc = "wait" /\ wakeAt # Forever => \A n \in queue : IsFirst(n) => n.tte < wakeAt + MS
    /\ pc = "execute" => NotEarly

\* Each step keeps that.  Only the application, at pc = "user", changes the
\* queue behind the back of the loop, and it is looked at again after that.
LEMMA TimesStep ==
  ASSUME TimeoutsFit, QueueInv, LoopTypeOK, TimesOK, [Next]_vars
  PROVE  TimesOK'
<1>0. /\ now \in Nat /\ queue \subseteq Node
      /\ \A n \in queue : n.tte \in Int /\ n.ord \in Nat
  BY DEF QueueInv, QueueTypeOK, Node
<1>1. ASSUME NEW t \in Timers, Construct(t) \/ Cancel(t) \/ Destroy(t) PROVE TimesOK'
  <2>1. queue' \subseteq queue /\ now' = now /\ pc' = "user"
    BY <1>1 DEF Construct, Cancel, Destroy, Erased, loopVars
  <2> QED
    BY <2>1 DEF TimesOK
<1>2. ASSUME NEW t \in Timers, NEW d \in Timeouts, Schedule(t, d) PROVE TimesOK'
  <2> DEFINE m == [tte |-> MonotonicClock + d, ord |-> Len(due) + 1, timer |-> t]
  <2>1. queue' \subseteq queue \cup {m} /\ now' = now /\ pc' = "user"
    BY <1>2 DEF Schedule, Erased, loopVars
  <2>2. d \in Int /\ d <= IntMax * MS
    BY DEF TimeoutsFit
  <2>3. m.tte <= now + IntMax * MS
    BY <1>0, <2>2, ClockBounds
  <2> HIDE DEF m
  <2> QED
    BY <2>1, <2>3 DEF TimesOK
<1>3. CASE Tick
  <2>1. /\ now' = now + 1 /\ UNCHANGED <<queue, pc, wakeAt>>
        /\ \A n : IsFirst(n)' <=> IsFirst(n)
    BY <1>3 DEF Tick, queueVars, loopVars, IsFirst
  <2>2. \A n \in queue' : n.tte <= now' + IntMax * MS
    BY <1>0, <2>1 DEF TimesOK
  <2>3. pc' = "execute" => NotEarly'
    BY <1>0, <2>1 DEF TimesOK, NotEarly
  <2> QED
    BY <2>1, <2>2, <2>3 DEF TimesOK
<1>4. CASE UserReturns \/ PollEmpty \/ WaitEvents
  BY <1>4 DEF UserReturns, PollEmpty, WaitEvents, queueVars, TimesOK
<1>5. CASE PollDue
  <2>1. PICK n \in queue : IsFirst(n) /\ GetTimeout(n) < MS
    BY <1>5 DEF PollDue
  <2>2. UNCHANGED <<queue, now>> /\ pc' = "execute"
    BY <1>5 DEF PollDue, queueVars
  <2>3. n.tte < now + MS
    BY <1>0, <2>1, ClockBounds DEF GetTimeout
  <2>4. NotEarly
    BY <1>0, <2>1, <2>3 DEF NotEarly, IsFirst
  <2> QED
    BY <2>2, <2>4 DEF TimesOK, NotEarly, IsFirst
<1>6. CASE PollWait
  <2>1. PICK n \in queue : /\ IsFirst(n) /\ GetTimeout(n) >= MS
                           /\ LET ms == ToInt(GetTimeout(n) \div MS)
                              IN  wakeAt' = IF ms < 0 THEN Forever ELSE now + ms * MS
    BY <1>6 DEF PollWait
  <2>2. UNCHANGED <<queue, now>> /\ pc' = "wait"
    BY <1>6 DEF PollWait, queueVars
  <2> DEFINE rest == GetTimeout(n)
             ms == rest \div MS
  <2>3. /\ rest \in Nat /\ rest = n.tte - MonotonicClock /\ rest < IntMax * MS + MS
        /\ MonotonicClock \in Int /\ MonotonicClock <= now /\ n.tte \in Int
    BY <1>0, <2>1, ClockBounds DEF GetTimeout, TimesOK
  <2> HIDE DEF rest
  <2>4. ms \in Nat /\ ms * MS <= rest /\ rest < ms * MS + MS
    BY <2>3, Rounded
  <2> HIDE DEF ms
  <2>5. ms * MS \in Int /\ ms * MS < IntMax * MS + MS
    BY <2>3, <2>4
  <2>6. ToInt(ms) = ms
    BY <2>4, <2>5, FewerMilliseconds, FitsInt
  <2>7. wakeAt' = now + ms * MS
    BY <2>1, <2>4, <2>6 DEF ms, rest
  <2>8. n.tte < now + ms * MS + MS
    BY <1>0, <2>3, <2>4, <2>5
  <2>9. \A m \in queue : IsFirst(m) => m.tte < wakeAt' + MS
    BY <1>0, <2>1, <2>5, <2>7, <2>8 DEF IsFirst
  <2> QED
    BY <2>2, <2>9 DEF TimesOK, IsFirst
<1>7. CASE WaitTimesOut
  <2>1. /\ pc = "wait" /\ wakeAt # Forever /\ wakeAt \in Int /\ now >= wakeAt
        /\ UNCHANGED <<queue, now>> /\ pc' = "execute"
    BY <1>7 DEF WaitTimesOut, queueVars, LoopTypeOK
  <2>2. NotEarly
    BY <1>0, <2>1 DEF TimesOK, NotEarly
  <2> QED
    BY <2>1, <2>2 DEF TimesOK, NotEarly, IsFirst
<1>8. CASE ExecuteFirstTimer
  <2>1. queue' \subseteq queue /\ now' = now /\ pc' = "user"
    BY <1>8 DEF ExecuteFirstTimer
  <2> QED
    BY <2>1 DEF TimesOK
<1>9. CASE UNCHANGED vars
  BY <1>9 DEF vars, queueVars, loopVars, TimesOK, NotEarly, IsFirst
<1> QED
  BY <1>1, <1>2, <1>3, <1>4, <1>5, <1>6, <1>7, <1>8, <1>9 DEF Next, UserStep, LoopStep

\* The queue and the loop of EpollRunner implement OneShotTimers with a slack of
\* two milliseconds, for any timers and any timeouts that fit an int: however
\* schedule, cancel, destroy and waits interleave, a scheduling fires at most
\* once, only when it is pending, and less than 2 ms before its time.
THEOREM PromiseKept ==
  ASSUME TimeoutsFit
  PROVE  Spec => KeepsPromise
<1>1. Init => TimesOK /\ Lax!Init
  BY QueueInit DEF Init, TimesOK
<1>2. QueueInv /\ LoopTypeOK /\ TimesOK /\ [Next]_vars => TimesOK'
  BY TimesStep
<1>3. QueueInv /\ TimesOK /\ [Next]_vars => [Lax!Next]_(Lax!vars)
  <2>1. TimesOK => (ExecuteFirstTimer => NotEarly)
    BY DEF TimesOK, ExecuteFirstTimer
  <2> QED
    BY <2>1, LoopLeavesQueue, PromiseStep
<1> QED
  BY <1>1, <1>2, <1>3, Invariance, PTL DEF Spec, KeepsPromise, Lax!Spec

-----------------------------------------------------------------------------
(* step() of AsyncRunner and the loop that embeds it *)

USE AsyncAssumption

\* Application code outside step(), or the embedding loop, has the control.
Embedder == pc = "outer" \/ (pc = "user" /\ Outside)

\* While a batch is handled, which listeners may interrupt, a descriptor of it
\* has a listener or is known to have been deleted.
BatchOK ==
    pc = "handle" \/ (pc = "user" /\ where = "listener") =>
        \A f \in batch \cap FDs : f \in registered \cup deleted

\* The callbacks are executed when step() turns to the timers, and a timer is
\* executed only when it is due.
LoopOK == (pc = "poll" => cbq = 0) /\ (pc = "execute" => NotEarly)

\* The timer fd stands for the first timer.
Armed == queue # {} => expired \/ (wakeAt # Forever /\ \A n \in queue : wakeAt < n.tte + MS)

\* What EventFDTells says of the waiting loop is true from the end of step() on,
\* until something is added.
TellsOK == Embedder /\ ~unseen => cbq = 0 /\ Armed

\* The inductive invariant of step().
StepInv ==
    /\ AsyncTypeOK
    /\ pc = "outer" => Outside
    /\ BatchOK /\ LoopOK /\ TellsOK

-----------------------------------------------------------------------------
\* step() and the embedding loop use the timers as TimerQueue allows.
LEMMA AsyncLeavesQueue == [AsyncNext]_allVars => QueueStep
<1> SUFFICES ASSUME [AsyncNext]_allVars PROVE QueueStep
  OBVIOUS
<1>1. CASE TimePasses \/ UseTimer \/ StepExecutes
  BY <1>1 DEF TimePasses, UseTimer, StepExecutes, QueueStep
<1>2. CASE UNCHANGED <<queueVars, now, ghostVars>>
  BY <1>2 DEF QueueStep
<1>3. CASE Application
  BY <1>1, <1>2, <1>3 DEF Application, AddCallback, Throw, AddFDListener, DelFDListener, vars
<1>4. CASE InStep
  BY <1>1, <1>2, <1>4 DEF InStep, HandleTimerFD, HandleEvent, EventsHandled, ExecuteCallback,
     CallbacksExecuted, Return, StepDue, PollDue, Disarm, Arm, Returns, vars
<1> QED
  BY <1>1, <1>2, <1>3, <1>4 DEF AsyncNext, TimerExpires, Arrives, OuterPoll, Step, vars, allVars

\* The nodes of the queue are compared as numbers.
LEMMA Keys ==
  ASSUME QueueInv
  PROVE  now \in Nat /\ \A n \in queue : n.tte \in Int /\ n.ord \in Nat
BY DEF QueueInv, QueueTypeOK, Node

\* Types
LEMMA AsyncTypeStep ==
  ASSUME QueueInv, QueueInv', StepInv, [AsyncNext]_allVars
  PROVE  AsyncTypeOK'
<1>0. queue' \subseteq Node /\ position' \in [Timers -> Node \cup {End}]
  BY DEF QueueInv, QueueTypeOK
<1> USE DEF StepInv, AsyncTypeOK, asyncVars
<1>1. CASE TimerExpires \/ (\E f \in FDs : Arrives(f)) \/ TimePasses
  <2>1. /\ ready' \subseteq FDs /\ wakeAt' \in Int \cup {Forever} /\ events' \in 0 .. MaxEvents
        /\ UNCHANGED <<pc, where, registered, batch, deleted, cbq>>
    BY <1>1 DEF TimerExpires, Arrives, TimePasses, Tick, vars, loopVars
  <2>2. (expired' = TRUE \/ expired' = expired) /\ unseen' = unseen
    BY <1>1 DEF TimerExpires, Arrives, TimePasses
  <2>3. expired' \in BOOLEAN /\ unseen' \in BOOLEAN
    BY <2>2, Zenon DEF AsyncTypeOK, StepInv
  <2> QED
    BY <1>0, <2>1, <2>3
<1>2. CASE UseTimer
  <2>1. UNCHANGED <<pc, wakeAt>> /\ unseen' \in BOOLEAN
    <3>1. UNCHANGED <<pc, wakeAt>>
      BY <1>2 DEF UseTimer, Cancel, Schedule, loopVars
    <3>2. unseen' = unseen \/ unseen' = (unseen \/ Outside)
      BY <1>2 DEF UseTimer
    <3>3. unseen' \in BOOLEAN
      BY <3>2, Zenon DEF AsyncTypeOK, StepInv
    <3> QED
      BY <3>1, <3>3
  <2> QED
    BY <1>0, <1>2, <2>1 DEF UseTimer
<1>3. CASE AddCallback \/ Throw
  <2>1. unseen' = TRUE \/ unseen' = (unseen \/ Outside)
    BY <1>3 DEF AddCallback, Throw
  <2>2. unseen' \in BOOLEAN
    BY <2>1, Zenon DEF AsyncTypeOK, StepInv
  <2>3. cbq' \in 0 .. MaxCallbacks
    BY <1>3 DEF AddCallback, Throw
  <2> QED
    BY <1>0, <1>3, <2>2, <2>3 DEF AddCallback, Throw, vars, loopVars
<1>4. ASSUME NEW f \in FDs, AddFDListener(f) \/ DelFDListener(f) PROVE AsyncTypeOK'
  BY <1>0, <1>4 DEF AddFDListener, DelFDListener, vars, loopVars
<1>5. CASE OuterPoll \/ Step
  <2>1. /\ pc' \in {"outer", "handle"} /\ (batch' = batch \/ batch' = Readable)
        /\ UNCHANGED <<wakeAt, where, expired, registered, ready, deleted, cbq, events, unseen>>
    BY <1>5 DEF OuterPoll, Step
  <2>2. Readable \subseteq FDs \cup {TimerFd}
    BY DEF Readable
  <2> QED
    BY <1>0, <2>1, <2>2
<1>6. CASE HandleTimerFD \/ EventsHandled \/ ExecuteCallback \/ CallbacksExecuted \/ Return
  <2>1. (expired' = FALSE \/ expired' = expired) /\ unseen' = unseen
    BY <1>6 DEF HandleTimerFD, EventsHandled, ExecuteCallback, CallbacksExecuted, Return
  <2>2. expired' \in BOOLEAN /\ unseen' \in BOOLEAN
    BY <2>1, Zenon DEF AsyncTypeOK, StepInv
  <2> QED
    BY <1>0, <1>6, <2>2 DEF HandleTimerFD, EventsHandled, ExecuteCallback, CallbacksExecuted, Return, vars, loopVars
<1>7. ASSUME NEW f \in FDs, HandleEvent(f) PROVE AsyncTypeOK'
  BY <1>0, <1>7 DEF HandleEvent
<1>8. CASE StepDue \/ StepExecutes
  BY <1>0, <1>8 DEF StepDue, PollDue, StepExecutes, ExecuteFirstTimer
<1>9. CASE Disarm \/ Arm
  <2>1. wakeAt' \in Int \cup {Forever}
    BY <1>9, Keys, ClockBounds DEF Disarm, Arm, Returns, GetTimeout
  <2> QED
    BY <1>0, <1>9, <2>1 DEF Disarm, Arm, Returns
<1>10. CASE UNCHANGED allVars
  BY <1>0, <1>10 DEF allVars, vars, loopVars
<1> QED
  BY <1>1, <1>2, <1>3, <1>4, <1>5, <1>6, <1>7, <1>8, <1>9, <1>10 DEF AsyncNext, Application, InStep

\* The batch stays one that step() can handle: a listener that deletes a
\* descriptor, or adds it again, leaves it in deleted.
LEMMA BatchStep ==
  ASSUME StepInv, [AsyncNext]_allVars
  PROVE  BatchOK' /\ (pc = "outer" => Outside)'
<1> USE DEF StepInv, BatchOK, Outside, asyncVars
<1>1. CASE TimerExpires \/ (\E f \in FDs : Arrives(f)) \/ TimePasses \/ UNCHANGED allVars
  BY <1>1 DEF TimerExpires, Arrives, TimePasses, Tick, allVars, vars, loopVars
<1>2. CASE UseTimer
  <2>1. UNCHANGED pc
    BY <1>2 DEF UseTimer, Cancel, Schedule, loopVars
  <2> QED
    BY <1>2, <2>1 DEF UseTimer
<1>3. CASE AddCallback \/ Throw
  BY <1>3 DEF AddCallback, Throw, vars, loopVars
<1>4. ASSUME NEW f \in FDs, AddFDListener(f) \/ DelFDListener(f)
      PROVE  BatchOK' /\ (pc = "outer" => Outside)'
  BY <1>4 DEF AddFDListener, DelFDListener, vars, loopVars
<1>5. CASE OuterPoll \/ Step
  BY <1>5 DEF OuterPoll, Step, Readable
<1>6. CASE HandleTimerFD \/ EventsHandled \/ ExecuteCallback \/ CallbacksExecuted \/ Return
  BY <1>6 DEF HandleTimerFD, EventsHandled, ExecuteCallback, CallbacksExecuted, Return, vars, loopVars
<1>7. ASSUME NEW f \in FDs, HandleEvent(f) PROVE BatchOK' /\ (pc = "outer" => Outside)'
  BY <1>7 DEF HandleEvent
<1>8. CASE StepDue \/ StepExecutes \/ Disarm \/ Arm
  BY <1>8 DEF StepDue, PollDue, StepExecutes, ExecuteFirstTimer, Disarm, Arm, Returns
<1> QED
  BY <1>1, <1>2, <1>3, <1>4, <1>5, <1>6, <1>7, <1>8 DEF AsyncNext, Application, InStep

\* step() turns to the timers only when no callback is left, and executes the
\* first one only when less than a millisecond is left of its time.
LEMMA LoopStepOK ==
  ASSUME QueueInv, StepInv, [AsyncNext]_allVars
  PROVE  LoopOK'
<1> USE DEF StepInv, LoopOK, asyncVars
<1>1. CASE TimePasses
  <2>1. now' = now + 1 /\ UNCHANGED <<queue, pc, cbq>>
    BY <1>1 DEF TimePasses, Tick, queueVars, loopVars
  <2>2. NotEarly => NotEarly'
    BY <2>1, Keys DEF NotEarly, IsFirst
  <2> QED
    BY <2>1, <2>2
<1>2. CASE StepDue
  <2>1. PICK n \in queue : IsFirst(n) /\ GetTimeout(n) < MS
    BY <1>2 DEF StepDue, PollDue
  <2>2. UNCHANGED <<queue, now>> /\ pc' = "execute"
    BY <1>2 DEF StepDue, PollDue, queueVars
  <2>3. n.tte < now + MS
    BY <2>1, Keys, ClockBounds DEF GetTimeout
  <2>4. NotEarly
    BY <2>1, <2>3, Keys DEF NotEarly, IsFirst
  <2> QED
    BY <2>2, <2>4 DEF NotEarly, IsFirst
<1>3. CASE TimerExpires \/ (\E f \in FDs : Arrives(f)) \/ UNCHANGED allVars
  BY <1>3 DEF TimerExpires, Arrives, allVars, vars, queueVars, loopVars, NotEarly, IsFirst
<1>4. CASE Application \/ OuterPoll \/ Step
  <2>1. pc' \notin {"poll", "execute"}
    BY <1>4 DEF Application, UseTimer, Cancel, Schedule, AddCallback, Throw, AddFDListener, DelFDListener,
       OuterPoll, Step, vars, loopVars
  <2> QED
    BY <2>1
<1>5. CASE InStep /\ ~StepDue
  <2>1. pc' # "execute" /\ (pc' = "poll" => cbq' = 0)
    BY <1>5 DEF InStep, HandleTimerFD, HandleEvent, EventsHandled, ExecuteCallback, CallbacksExecuted,
       Return, StepExecutes, ExecuteFirstTimer, Disarm, Arm, Returns, vars, loopVars
  <2> QED
    BY <2>1
<1> QED
  BY <1>1, <1>2, <1>3, <1>4, <1>5 DEF AsyncNext

\* What is not pending when step() returns stays so until something is added:
\* a timer that is armed is armed for what is left of the queue.
LEMMA TellsStep ==
  ASSUME QueueInv, StepInv, [AsyncNext]_allVars
  PROVE  TellsOK'
<1> USE DEF StepInv, asyncVars
<1>1. CASE TimerExpires
  BY <1>1 DEF TimerExpires, TellsOK, Embedder, Outside, Armed, queueVars
<1>2. CASE (\E f \in FDs : Arrives(f)) \/ TimePasses \/ UNCHANGED allVars
  BY <1>2 DEF Arrives, TimePasses, Tick, allVars, vars, queueVars, loopVars, TellsOK, Embedder, Outside, Armed
<1>3. ASSUME NEW t \in Timers, Cancel(t), UNCHANGED <<where, expired, cbq, unseen>>
      PROVE  TellsOK'
  <2>1. queue' \subseteq queue /\ UNCHANGED <<pc, wakeAt>>
    BY <1>3 DEF Cancel, Erased, loopVars
  <2>2. Armed => Armed'
    BY <1>3, <2>1 DEF Armed
  <2> QED
    BY <1>3, <2>1, <2>2 DEF TellsOK, Embedder, Outside
<1>4. ASSUME NEW t \in Timers, NEW d \in Timeouts, Schedule(t, d), UNCHANGED where,
             unseen' = (unseen \/ Outside)
      PROVE  TellsOK'
  BY <1>4 DEF Schedule, loopVars, TellsOK, Embedder, Outside
<1>5. CASE AddCallback \/ Throw
  BY <1>5 DEF AddCallback, Throw, vars, loopVars, TellsOK, Embedder, Outside
<1>6. ASSUME NEW f \in FDs, AddFDListener(f) \/ DelFDListener(f) PROVE TellsOK'
  BY <1>6 DEF AddFDListener, DelFDListener, vars, loopVars, TellsOK, Embedder, Outside
<1>7. CASE OuterPoll
  BY <1>7 DEF OuterPoll, queueVars, TellsOK, Embedder, Outside, Armed
<1>8. CASE Step
  BY <1>8 DEF Step, TellsOK, Embedder
<1>9. CASE InStep /\ ~Disarm /\ ~Arm
  <2>1. ~Embedder'
    BY <1>9 DEF InStep, HandleTimerFD, HandleEvent, EventsHandled, ExecuteCallback, CallbacksExecuted,
       Return, StepDue, PollDue, StepExecutes, ExecuteFirstTimer, vars, loopVars, Embedder, Outside
  <2> QED
    BY <2>1 DEF TellsOK
<1>10. CASE Disarm
  BY <1>10 DEF Disarm, Returns, queueVars, LoopOK, TellsOK, Armed
<1>11. CASE Arm
  <2>1. PICK n \in queue : IsFirst(n) /\ GetTimeout(n) >= MS /\ Returns(now + GetTimeout(n))
    BY <1>11 DEF Arm
  <2>2. cbq' = 0 /\ queue' = queue /\ wakeAt' = now + GetTimeout(n)
    BY <1>11, <2>1 DEF Arm, LoopOK, Returns, queueVars
  <2>3. GetTimeout(n) = n.tte - MonotonicClock /\ n.tte \in Int
    BY <2>1, Keys, ClockBounds DEF GetTimeout
  <2>4. wakeAt' \in Int /\ wakeAt' < n.tte + MS
    BY <2>2, <2>3, Keys, ClockBounds
  <2>5. \A m \in queue : n.tte <= m.tte
    BY <2>1, Keys DEF IsFirst
  <2>6. wakeAt' # Forever /\ \A m \in queue : wakeAt' < m.tte + MS
    BY <2>3, <2>4, <2>5, Keys, ForeverAssumption
  <2> QED
    BY <2>2, <2>6 DEF TellsOK, Armed
<1> QED
  BY <1>1, <1>2, <1>3, <1>4, <1>5, <1>6, <1>7, <1>8, <1>9, <1>10, <1>11
  DEF AsyncNext, Application, UseTimer

\* Both parts of the invariant together
LEMMA AsyncInvariance == AsyncSpec => [](QueueInv /\ StepInv)
<1>1. AsyncInit => QueueInv /\ StepInv
  <2> SUFFICES ASSUME AsyncInit PROVE QueueInv /\ StepInv
    OBVIOUS
  <2>1. QueueInv
    BY QueueInit DEF AsyncInit
  <2>2. AsyncTypeOK
    <3>1. queue \subseteq Node /\ position \in [Timers -> Node \cup {End}]
      BY <2>1 DEF QueueInv, QueueTypeOK
    <3>2. expired \in BOOLEAN /\ unseen \in BOOLEAN
      BY Zenon DEF AsyncInit
    <3>3. cbq \in 0 .. MaxCallbacks /\ events \in 0 .. MaxEvents
      BY DEF AsyncInit
    <3> QED
      BY <3>1, <3>2, <3>3 DEF AsyncInit, AsyncTypeOK
  <2>3. (pc = "outer" => Outside) /\ BatchOK /\ LoopOK /\ TellsOK
    BY DEF AsyncInit, BatchOK, LoopOK, TellsOK, Armed
  <2> QED
    BY <2>1, <2>2, <2>3 DEF StepInv
<1>2. QueueInv /\ StepInv /\ [AsyncNext]_allVars => QueueInv' /\ StepInv'
  <2> SUFFICES ASSUME QueueInv, StepInv, [AsyncNext]_allVars PROVE QueueInv' /\ StepInv'
    OBVIOUS
  <2>1. QueueInv'
    BY AsyncLeavesQueue, QueueInvStep
  <2> QED
    BY <2>1, AsyncTypeStep, BatchStep, LoopStepOK, TellsStep DEF StepInv
<1> QED
  BY <1>1, <1>2, PTL DEF AsyncSpec

\* Whatever listeners, callbacks and timers do inside step(), exceptions
\* included, it handles a batch of known descriptors and returns to the
\* embedding loop with a descriptor that stands for all that is pending.
THEOREM StepSoundAlways == AsyncSpec => []StepSound
<1>1. StepInv => StepSound
  BY DEF StepInv, StepSound, BatchOK, BatchKnown, TellsOK, Embedder, Armed, EventFDTells
<1> QED
  BY <1>1, AsyncInvariance, PTL

\* The timers of AsyncRunner keep the same promise as those of EpollRunner, and
\* do so for timeouts of any size: nothing is cast to int for the timer fd.
THEOREM AsyncPromiseKept == AsyncSpec => KeepsPromise
<1>1. AsyncInit => Lax!Init
  BY QueueInit DEF AsyncInit
<1>2. QueueInv /\ StepInv /\ [AsyncNext]_allVars => [Lax!Next]_(Lax!vars)
  <2>1. StepInv => (ExecuteFirstTimer => NotEarly)
    BY DEF StepInv, LoopOK, ExecuteFirstTimer
  <2> QED
    BY <2>1, AsyncLeavesQueue, PromiseStep
<1> QED
  BY <1>1, <1>2, AsyncInvariance, PTL DEF AsyncSpec, KeepsPromise, Lax!Spec
=============================================================================
