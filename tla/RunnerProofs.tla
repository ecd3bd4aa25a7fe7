---------------------------- MODULE RunnerProofs ----------------------------
(***************************************************************************)
(* Proofs about two parts of EpollRunner.  CallbackQueue: for any number   *)
(* of producers, any pipe and any number of callbacks.  EventDispatch: for *)
(* any descriptors, events and number of registrations, with and without   *)
(* calls that fail.                                                        *)
(***************************************************************************)
EXTENDS CallbackQueue, EventDispatch, FiniteSetTheorems, TLAPS

-----------------------------------------------------------------------------
(* What the invariants rest on *)

\* Between execute() and the end of epoll_wait(), every way to have found the
\* queue non-empty leaves a wake-up behind: in the pipe, about to be written,
\* or with a producer that can only read the runner's own id.
Asleep == {"checkEarly", "poll", "wait"}

SleepInv ==
    rpc \in Asleep =>
        /\ visibleIds = {Runner}
        /\ queue # <<>> => \/ pipe > 0
                           \/ \E p \in Producers : tpc[p] # "idle"

\* Each int in the pipe, and each held lock, is due to a push of its own.
WakeUpBudget ==
    /\ pipe <= added
    /\ lock # NoThread => pipe < added

\* The queue holds, in order, exactly the callbacks added and not yet popped.
InOrder ==
    /\ added = last + Len(queue)
    /\ \A i \in 1 .. Len(queue) : queue[i] = last + i

\* runnerThreadId is the runner's exactly while it is in run().
IdInv == runnerThreadId = IF rpc = "out" THEN NoThread ELSE Runner

-----------------------------------------------------------------------------
(* Types *)

USE ThreadsAssumption, BoundsAssumption

\* Every step keeps the types, and queueLock stays with the thread in wakeUp.
LEMMA TypeStep == TypeOK /\ [Next]_vars => TypeOK'
<1> SUFFICES ASSUME TypeOK, [Next]_vars PROVE TypeOK'
  OBVIOUS
<1> USE DEF TypeOK, queueVars, threadVars, idVars, loopVars
<1>1. ASSUME NEW p \in Producers, Add(p) PROVE TypeOK'
  BY <1>1 DEF Add, Push
<1>2. ASSUME NEW p \in Producers, WakeUp(p) PROVE TypeOK'
  BY <1>2 DEF WakeUp
<1>3. ASSUME NEW p \in Producers, Write(p) PROVE TypeOK'
  BY <1>3 DEF Write
<1>4. CASE PopCallback
  BY <1>4 DEF PopCallback, PublishId
<1>5. CASE PopNothing \/ CallbackReturns \/ CheckEarly \/ Poll
  BY <1>5 DEF PopNothing, PublishId, CallbackReturns, CheckEarly, Poll, Goto
<1>6. CASE WaitPipe \/ WaitOther \/ WaitTimeout
  BY <1>6 DEF WaitPipe, WaitOther, WaitTimeout, Goto
<1>7. CASE ReadPipe
  <2>1. pipe' \in 0 .. PipeCap
    BY <1>7 DEF ReadPipe
  <2>2. rpc' \in {"handle", "readPipe"} /\ ret' = ret
    BY <1>7 DEF ReadPipe, Goto
  <2>3. pipeInBatch' \in BOOLEAN
    BY <1>7, Zenon DEF ReadPipe, Goto
  <2>4. UNCHANGED <<queue, added, last, lock, tpc, runnerThreadId, visibleIds>>
    BY <1>7 DEF ReadPipe
  <2> QED
    BY <2>1, <2>2, <2>3, <2>4
<1>8. CASE HandleReturns \/ TimerReturns \/ Check \/ Throw
  BY <1>8 DEF HandleReturns, TimerReturns, Check, Throw, Goto
<1>9. CASE ResetId \/ Run
  BY <1>9 DEF ResetId, Run, SetId, Goto
<1>10. CASE AddOwn
  BY <1>10 DEF AddOwn, Push, PublishId
<1>11. CASE UNCHANGED vars
  BY <1>11 DEF vars
<1> HIDE DEF TypeOK, queueVars, threadVars, idVars, loopVars
<1> QED
  BY <1>1, <1>2, <1>3, <1>4, <1>5, <1>6, <1>7, <1>8, <1>9, <1>10, <1>11
     DEF Next, RunnerStep, ProducerStep

LEMMA TypeInit == Init => TypeOK
<1> SUFFICES ASSUME Init PROVE TypeOK
  OBVIOUS
<1>1. queue \in Seq(Nat) /\ added \in 0 .. MaxAdds /\ last \in Nat /\ pipe \in 0 .. PipeCap
  BY DEF Init
<1>2. ret \in BOOLEAN /\ pipeInBatch \in BOOLEAN
  BY Zenon DEF Init
<1>3. \A p \in Producers : tpc[p] # "idle" <=> lock = p
  BY DEF Init
<1> QED
  BY <1>1, <1>2, <1>3 DEF Init, TypeOK

\* The variables of CallbackQueue and EpollRunner keep their types, and
\* queueLock excludes: at most one thread is inside wakeUp.
THEOREM TypeCorrect == Spec => []TypeOK
  BY TypeInit, TypeStep, PTL DEF Spec

-----------------------------------------------------------------------------
(* No wake-up is lost *)

\* The inductive invariant: SleepInv needs the exact id and the types.
WakeInv == TypeOK /\ IdInv /\ SleepInv

LEMMA WakeStep ==
  ASSUME ~CanContinueAdds, WakeInv, [Next]_vars
  PROVE  WakeInv'
<1>1. TypeOK'
  BY TypeStep DEF WakeInv
<1> SUFFICES IdInv' /\ SleepInv'
  BY <1>1 DEF WakeInv
<1> USE DEF WakeInv, IdInv, SleepInv, Asleep, queueVars, threadVars, idVars, loopVars
<1>2. ASSUME NEW p \in Producers, Add(p) PROVE IdInv' /\ SleepInv'
  <2>1. UNCHANGED <<rpc, pipe, visibleIds, runnerThreadId>>
    BY <1>2 DEF Add
  <2>2. \/ tpc' = tpc /\ queue # <<>>
        \/ tpc'[p] = "wakeUp"
    BY <1>2 DEF Add, Push, TypeOK
  <2> QED
    BY <2>1, <2>2
<1>3. ASSUME NEW p \in Producers, WakeUp(p) PROVE IdInv' /\ SleepInv'
  BY <1>3 DEF WakeUp, TypeOK
<1>4. ASSUME NEW p \in Producers, Write(p) PROVE IdInv' /\ SleepInv'
  BY <1>4 DEF Write, TypeOK
<1>5. CASE PopCallback
  BY <1>5 DEF PopCallback, PublishId
<1>6. CASE PopNothing
  BY <1>6 DEF PopNothing, PublishId, Goto
<1>7. CASE CallbackReturns \/ CheckEarly \/ Poll
  BY <1>7 DEF CallbackReturns, CheckEarly, Poll, Goto
<1>8. CASE WaitPipe \/ WaitOther \/ WaitTimeout
  BY <1>8 DEF WaitPipe, WaitOther, WaitTimeout, Goto
<1>9. CASE ReadPipe
  BY <1>9 DEF ReadPipe, Goto
<1>10. CASE HandleReturns \/ TimerReturns \/ Check \/ Throw
  BY <1>10 DEF HandleReturns, TimerReturns, Check, Throw, Goto
<1>11. CASE ResetId \/ Run
  BY <1>11 DEF ResetId, Run, SetId, Goto
<1>12. CASE AddOwn
  BY <1>12 DEF AddOwn, UserCode, PublishId
<1>13. CASE UNCHANGED vars
  BY <1>13 DEF vars
<1> HIDE DEF WakeInv, IdInv, SleepInv, Asleep, queueVars, threadVars, idVars, loopVars
<1> QED
  BY <1>2, <1>3, <1>4, <1>5, <1>6, <1>7, <1>8, <1>9, <1>10, <1>11, <1>12, <1>13
     DEF Next, RunnerStep, ProducerStep

\* However many threads add callbacks, and whatever a racing read of
\* runnerThreadId returns, run() never sleeps on a non-empty queue without a
\* wake-up in the pipe, as long as canContinue does not add callbacks itself.
THEOREM WakeUpNotLost == ~CanContinueAdds /\ Spec => []NoLostWakeUp
<1>1. Init => WakeInv
  BY TypeInit DEF Init, WakeInv, IdInv, SleepInv, Asleep
<1>2. WakeInv => NoLostWakeUp
  BY DEF WakeInv, SleepInv, Asleep, NoLostWakeUp, TypeOK
<1>3. ~CanContinueAdds /\ WakeInv /\ [Next]_vars => WakeInv'
  BY WakeStep
<1>4. ASSUME ~CanContinueAdds PROVE Spec => []NoLostWakeUp
  <2>1. WakeInv /\ [Next]_vars => WakeInv'
    BY <1>3, <1>4
  <2> QED
    BY <1>1, <1>2, <2>1, PTL DEF Spec
<1> QED
  BY <1>4

-----------------------------------------------------------------------------
(* The pipe cannot fill up before PipeCap callbacks have been added *)

BudgetInv == TypeOK /\ WakeUpBudget

LEMMA BudgetStep == BudgetInv /\ [Next]_vars => BudgetInv'
<1> SUFFICES ASSUME BudgetInv, [Next]_vars PROVE WakeUpBudget'
  BY TypeStep DEF BudgetInv
<1> USE DEF BudgetInv, WakeUpBudget, TypeOK, queueVars, threadVars, idVars, loopVars
<1>1. ASSUME NEW p \in Producers, Add(p) PROVE WakeUpBudget'
  BY <1>1 DEF Add, Push
<1>2. ASSUME NEW p \in Producers, WakeUp(p) PROVE WakeUpBudget'
  BY <1>2 DEF WakeUp
<1>3. ASSUME NEW p \in Producers, Write(p) PROVE WakeUpBudget'
  BY <1>3 DEF Write
<1>4. CASE AddOwn
  BY <1>4 DEF AddOwn, Push
<1>5. CASE ReadPipe
  BY <1>5 DEF ReadPipe
<1>6. CASE UNCHANGED <<added, lock, pipe>>
  BY <1>6
<1>7. RunnerStep \/ Run \/ WaitOther \/ WaitTimeout \/ Throw
        => ReadPipe \/ UNCHANGED <<added, lock, pipe>>
  BY DEF RunnerStep, PopCallback, PopNothing, CallbackReturns, CheckEarly, Poll,
         WaitPipe, WaitOther, WaitTimeout, HandleReturns, TimerReturns, Check,
         ResetId, Run, Throw
<1>8. CASE UNCHANGED vars
  BY <1>8 DEF vars
<1> HIDE DEF BudgetInv, WakeUpBudget, TypeOK, queueVars, threadVars, idVars, loopVars
<1> QED
  BY <1>1, <1>2, <1>3, <1>4, <1>5, <1>6, <1>7, <1>8 DEF Next, ProducerStep

\* When no more callbacks are added than the pipe holds ints, the write of
\* wakeUp() never blocks while it holds queueLock.
THEOREM WritesDoNotBlock == MaxAdds <= PipeCap /\ Spec => []WriteNeverBlocks
<1>1. Init => BudgetInv
  BY TypeInit DEF Init, BudgetInv, WakeUpBudget
<1>2. ASSUME MaxAdds <= PipeCap PROVE BudgetInv => WriteNeverBlocks
  BY <1>2 DEF BudgetInv, WakeUpBudget, TypeOK, WriteNeverBlocks
<1>3. ASSUME MaxAdds <= PipeCap PROVE Spec => []WriteNeverBlocks
  <2>1. BudgetInv => WriteNeverBlocks
    BY <1>2, <1>3
  <2> QED
    BY <1>1, <2>1, BudgetStep, PTL DEF Spec
<1> QED
  BY <1>3

-----------------------------------------------------------------------------
(* Callbacks start once each, in order *)

OrderInv == TypeOK /\ InOrder

LEMMA PushOrder ==
  ASSUME OrderInv, Push
  PROVE  InOrder'
<1> USE DEF OrderInv, TypeOK, InOrder, Push
<1>1. Len(queue') = Len(queue) + 1
  OBVIOUS
<1>2. ASSUME NEW i \in 1 .. Len(queue') PROVE queue'[i] = last' + i
  <2>1. CASE i \in 1 .. Len(queue)
    BY <2>1
  <2>2. CASE i = Len(queue) + 1
    BY <2>2
  <2> QED
    BY <1>1, <2>1, <2>2
<1> QED
  BY <1>1, <1>2

LEMMA PopOrder ==
  ASSUME OrderInv, PopCallback
  PROVE  InOrder' /\ last' = last + 1 /\ last < added
<1> USE DEF OrderInv, TypeOK, InOrder, PopCallback
<1>1. Len(queue) > 0 /\ last' = last + 1
  OBVIOUS
<1>2. Len(queue') = Len(queue) - 1
  OBVIOUS
<1>3. ASSUME NEW i \in 1 .. Len(queue') PROVE queue'[i] = last' + i
  <2>1. i + 1 \in 1 .. Len(queue)
    BY <1>2
  <2>2. queue[i + 1] = last + (i + 1)
    BY <2>1
  <2>3. queue' = Tail(queue) /\ queue # <<>> /\ queue \in Seq(Nat)
    OBVIOUS
  <2>4. queue'[i] = queue[i + 1]
    BY <2>3, i \in 1 .. Len(queue')
  <2>5. last \in Nat /\ i \in Nat /\ last' = last + 1
    BY <1>1, <1>2
  <2> HIDE DEF OrderInv, PopCallback
  <2> QED
    BY <2>2, <2>4, <2>5
<1>4. added' = last' + Len(queue')
  BY <1>1, <1>2
<1> QED
  BY <1>1, <1>3, <1>4

LEMMA OrderStep ==
  ASSUME OrderInv, [Next]_vars
  PROVE  OrderInv' /\ [WQ!Next]_(WQ!vars)
<1>1. CASE \/ AddOwn
           \/ \E p \in Producers : Add(p)
  <2>1. Push
    BY <1>1 DEF AddOwn, Add
  <2> QED
    BY <2>1, PushOrder, TypeStep DEF OrderInv, Push, WQ!Next, WQ!Accept
<1>2. CASE PopCallback
  BY <1>2, PopOrder, TypeStep DEF OrderInv, PopCallback, WQ!Next, WQ!Start
<1>3. CASE UNCHANGED queueVars
  <2>1. InOrder'
    BY <1>3 DEF OrderInv, InOrder, queueVars
  <2> QED
    BY <1>3, <2>1, TypeStep DEF OrderInv, queueVars, WQ!vars
<1>4. CASE \/ RunnerStep \/ Run \/ WaitOther \/ WaitTimeout \/ Throw
           \/ UNCHANGED vars
           \/ \E p \in Producers : ProducerStep(p)
  <2>1. PopCallback \/ UNCHANGED queueVars
    BY <1>4 DEF RunnerStep, PopNothing, CallbackReturns, CheckEarly, Poll,
         WaitPipe, WaitOther, WaitTimeout, ReadPipe, HandleReturns, TimerReturns,
         Check, ResetId, Run, Throw, ProducerStep, WakeUp, Write, vars
  <2> QED
    BY <2>1, <1>2, <1>3
<1> QED
  BY <1>1, <1>4 DEF Next

\* The queue under its lock, the pipe and the loop together implement the
\* promise of addCallback: each callback starts once, in FIFO order.
THEOREM Refinement == Spec => Implements
<1>1. Init => OrderInv /\ WQ!Init
  BY TypeInit DEF Init, OrderInv, InOrder, WQ!Init
<1>2. OrderInv /\ [Next]_vars => OrderInv' /\ [WQ!Next]_(WQ!vars)
  BY OrderStep
<1> QED
  BY <1>1, <1>2, PTL DEF Spec, Implements, WQ!Spec

-----------------------------------------------------------------------------
(* EventDispatch *)

USE FDsAssumption, EventsAssumption, MaxRegsAssumption, NoneAssumption

\* While events are left to look at, deletions are recorded.
MonitorInv == batch # {} => monitoring

DispatchInv == EdTypeOK /\ KernelAgrees /\ MonitorInv /\ DispatchSafe

-----------------------------------------------------------------------------
LEMMA EdTypeStep == EdTypeOK /\ KernelAgrees /\ [EdNext]_edVars => EdTypeOK'
<1> SUFFICES ASSUME EdTypeOK, KernelAgrees, [EdNext]_edVars PROVE EdTypeOK'
  OBVIOUS
<1> USE DEF EdTypeOK, MapEntry, epollVars, edLoop, fdMonitor, edHistory
<1>1. ASSUME NEW fd \in FDs, Open(fd) \/ Close(fd) PROVE EdTypeOK'
  BY <1>1, KindsAssumption DEF Open, Close
<1>2. ASSUME NEW fd \in FDs, DelFDListener(fd) PROVE EdTypeOK'
  <2>1. IsFiniteSet(InterestSet) /\ fd \in InterestSet
    BY <1>2, FS_Subset DEF DelFDListener, InterestSet
  <2>2. Cardinality(InterestSet) \in Nat /\ Cardinality(InterestSet) # 0
    BY <2>1, FS_CardinalityType, FS_EmptySet
  <2>3. addCount' \in Nat
    BY <1>2, <2>2 DEF DelFDListener, KernelAgrees
  <2> QED
    BY <1>2, <2>3 DEF DelFDListener, MonitorAdd
<1>3. ASSUME NEW fd \in FDs, DelFDListenerFails(fd) PROVE EdTypeOK'
  BY <1>3 DEF DelFDListenerFails, MonitorAdd
<1>4. ASSUME NEW fd \in FDs, NEW es \in EventSets, AddFDListener(fd, es) PROVE EdTypeOK'
  BY <1>4 DEF AddFDListener
<1>5. ASSUME NEW fd \in FDs, NEW es \in EventSets, AddFDListenerFails(fd, es) PROVE EdTypeOK'
  BY <1>5 DEF AddFDListenerFails
<1>6. ASSUME NEW fd \in FDs, NEW es \in EventSets, ModifyFDListener(fd, es) PROVE EdTypeOK'
  BY <1>6 DEF ModifyFDListener
<1>7. CASE Wait
  BY <1>7 DEF Wait, StartMonitoring, InterestSet
<1>8. CASE HandlerReturns \/ EndBatch
  BY <1>8 DEF HandlerReturns, EndBatch, StopMonitoring
<1>9. ASSUME NEW e \in batch, Skip(e) \/ Dispatch(e) PROVE EdTypeOK'
  BY <1>9 DEF Skip, Dispatch
<1>10. CASE UNCHANGED edVars
  BY <1>10 DEF edVars
<1> HIDE DEF EdTypeOK, MapEntry, epollVars, edLoop, fdMonitor, edHistory
<1> QED
  BY <1>1, <1>2, <1>3, <1>4, <1>5, <1>6, <1>7, <1>8, <1>9, <1>10
     DEF EdNext, UserStep, LoopStep

LEMMA CountUp ==
  ASSUME NEW fd \in FDs, NEW S \in SUBSET FDs, fd \notin S
  PROVE  Cardinality(S \cup {fd}) = Cardinality(S) + 1
  BY FS_Subset, FS_AddElement

LEMMA CountDown ==
  ASSUME NEW fd \in FDs, NEW S \in SUBSET FDs, fd \in S
  PROVE  Cardinality(S \ {fd}) = Cardinality(S) - 1
  BY FS_Subset, FS_RemoveElement

\* Adding, deleting and modifying keep the map, the kernel and addCount in step.
LEMMA KernelStep == EdTypeOK /\ KernelAgrees /\ [EdNext]_edVars => KernelAgrees'
<1> SUFFICES ASSUME EdTypeOK, KernelAgrees, [EdNext]_edVars PROVE KernelAgrees'
  OBVIOUS
<1> USE DEF EdTypeOK, KernelAgrees, InterestSet, epollVars, edLoop, fdMonitor, edHistory
<1>1. ASSUME NEW fd \in FDs, DelFDListener(fd) PROVE KernelAgrees'
  <2>1. InterestSet' = InterestSet \ {fd} /\ fd \in InterestSet
    BY <1>1 DEF DelFDListener
  <2>2. addCount' = Cardinality(InterestSet')
    BY <1>1, <2>1, CountDown DEF DelFDListener
  <2>3. \A f \in FDs : interest'[f] = map'[f] \/ (f \in refused' /\ interest'[f] = None)
    BY <1>1 DEF DelFDListener
  <2>4. registered' = registered \ {fd} /\ fd # OwnFD
    BY <1>1 DEF DelFDListener
  <2> HIDE DEF InterestSet
  <2> QED
    BY <2>1, <2>2, <2>3, <2>4
<1>2. ASSUME NEW fd \in FDs, NEW es \in EventSets, AddFDListener(fd, es)
      PROVE  KernelAgrees'
  <2>1. fd \notin InterestSet
    BY <1>2 DEF AddFDListener
  <2>2. [reg |-> regs + 1, events |-> es] # None
    BY <1>2 DEF AddFDListener, MapEntry
  <2>3. InterestSet' = InterestSet \cup {fd}
    BY <1>2, <2>2 DEF AddFDListener
  <2>4. addCount' = Cardinality(InterestSet')
    BY <1>2, <2>1, <2>3, CountUp DEF AddFDListener
  <2>5. \A f \in FDs : interest'[f] = map'[f] \/ (f \in refused' /\ interest'[f] = None)
    BY <1>2 DEF AddFDListener
  <2>6. registered' = registered \cup {fd}
    BY <1>2 DEF AddFDListener
  <2> HIDE DEF InterestSet
  <2> QED
    BY <2>3, <2>4, <2>5, <2>6
<1>3. ASSUME NEW fd \in FDs, NEW es \in EventSets, AddFDListenerFails(fd, es)
      PROVE  KernelAgrees'
  <2>1. UNCHANGED <<interest, addCount, registered>> /\ InterestSet' = InterestSet
    BY <1>3 DEF AddFDListenerFails
  <2>2. \A f \in FDs : interest'[f] = map'[f] \/ (f \in refused' /\ interest'[f] = None)
    BY <1>3 DEF AddFDListenerFails
  <2> HIDE DEF InterestSet
  <2> QED
    BY <2>1, <2>2
<1>4. ASSUME NEW fd \in FDs, NEW es \in EventSets, ModifyFDListener(fd, es)
      PROVE  KernelAgrees'
  <2>1. interest'[fd] # None
    BY <1>4 DEF ModifyFDListener, MapEntry
  <2>2. InterestSet' = InterestSet
    BY <1>4, <2>1 DEF ModifyFDListener
  <2>3. \A f \in FDs : interest'[f] = map'[f] \/ (f \in refused' /\ interest'[f] = None)
    BY <1>4 DEF ModifyFDListener
  <2>4. UNCHANGED <<addCount, registered>>
    BY <1>4 DEF ModifyFDListener
  <2> HIDE DEF InterestSet
  <2> QED
    BY <2>2, <2>3, <2>4
<1>5. CASE UNCHANGED <<map, interest, addCount, registered, refused>>
  BY <1>5
<1>6. \/ UNCHANGED <<map, interest, addCount, registered, refused>>
      \/ \E fd \in FDs : \/ DelFDListener(fd)
                        \/ \E es \in EventSets : \/ AddFDListener(fd, es)
                                                \/ AddFDListenerFails(fd, es)
                                                \/ ModifyFDListener(fd, es)
  BY DEF EdNext, UserStep, LoopStep, edVars, Open, Close, DelFDListenerFails, Wait,
         HandlerReturns, EndBatch, Skip, Dispatch
<1> HIDE DEF KernelAgrees
<1> QED
  BY <1>1, <1>2, <1>3, <1>4, <1>5, <1>6

\* An event stays safe to dispatch because a deletion during the batch is
\* recorded before the entry goes, and a new entry can only replace none.
LEMMA DispatchStep == DispatchInv /\ [EdNext]_edVars => MonitorInv' /\ DispatchSafe'
<1> SUFFICES ASSUME DispatchInv, [EdNext]_edVars PROVE MonitorInv' /\ DispatchSafe'
  OBVIOUS
<1> USE DEF DispatchInv, EdTypeOK, MonitorInv, DispatchSafe, epollVars, edLoop, fdMonitor, edHistory
<1>1. ASSUME NEW fd \in FDs, DelFDListener(fd) PROVE MonitorInv' /\ DispatchSafe'
  BY <1>1 DEF DelFDListener, MonitorAdd
<1>2. ASSUME NEW fd \in FDs, DelFDListenerFails(fd) PROVE MonitorInv' /\ DispatchSafe'
  BY <1>2 DEF DelFDListenerFails, MonitorAdd
<1>3. ASSUME NEW fd \in FDs, NEW es \in EventSets,
             AddFDListener(fd, es) \/ AddFDListenerFails(fd, es)
      PROVE  MonitorInv' /\ DispatchSafe'
  BY <1>3 DEF AddFDListener, AddFDListenerFails
<1>4. ASSUME NEW fd \in FDs, NEW es \in EventSets, ModifyFDListener(fd, es)
      PROVE  MonitorInv' /\ DispatchSafe'
  BY <1>4 DEF ModifyFDListener, MapEntry
<1>5. CASE Wait
  <2>1. PICK fetched \in SUBSET InterestSet :
          batch' = {[fd |-> fd, reg |-> interest[fd].reg] : fd \in fetched}
    BY <1>5 DEF Wait
  <2>2. ASSUME NEW e \in batch' PROVE map'[e.fd] # None /\ map'[e.fd].reg = e.reg
    BY <1>5, <2>1 DEF Wait, InterestSet, KernelAgrees
  <2> QED
    BY <1>5, <2>2 DEF Wait, StartMonitoring
<1>6. CASE EndBatch
  BY <1>6 DEF EndBatch
<1>7. ASSUME NEW e \in batch, Skip(e) \/ Dispatch(e) PROVE MonitorInv' /\ DispatchSafe'
  BY <1>7 DEF Skip, Dispatch
<1>8. CASE UNCHANGED <<map, batch, monitoring, deleted>>
  BY <1>8
<1>9. ASSUME NEW fd \in FDs, Open(fd) \/ Close(fd) PROVE MonitorInv' /\ DispatchSafe'
  BY <1>9, <1>8 DEF Open, Close
<1>10. CASE HandlerReturns \/ UNCHANGED edVars
  BY <1>10, <1>8 DEF HandlerReturns, edVars
<1> HIDE DEF DispatchInv, MonitorInv, DispatchSafe, EdTypeOK
<1> QED
  BY <1>1, <1>2, <1>3, <1>4, <1>5, <1>6, <1>7, <1>9, <1>10 DEF EdNext, UserStep, LoopStep

LEMMA DispatchInvInit == EdInit => DispatchInv
<1> SUFFICES ASSUME EdInit PROVE DispatchInv
  OBVIOUS
<1>1. [reg |-> 0, events |-> "in"] \in MapEntry
  BY DEF MapEntry
<1>2. EdTypeOK
  <2>1. monitoring \in BOOLEAN
    BY Zenon DEF EdInit
  <2>2. map \in [FDs -> MapEntry \cup {None}] /\ interest = map
    BY <1>1 DEF EdInit
  <2>3. file \in [FDs -> {"closed", "pollable", "unpollable"}]
    BY DEF EdInit
  <2> QED
    BY <2>1, <2>2, <2>3 DEF EdInit, EdTypeOK
<1>3. InterestSet = {OwnFD}
  BY <1>1 DEF EdInit, InterestSet
<1>4. KernelAgrees
  BY <1>3, FS_Singleton DEF EdInit, KernelAgrees
<1> QED
  BY <1>2, <1>4 DEF EdInit, DispatchInv, MonitorInv, DispatchSafe

LEMMA DispatchInvHolds == EdSpec => []DispatchInv
<1>1. DispatchInv /\ [EdNext]_edVars => DispatchInv'
  BY EdTypeStep, KernelStep, DispatchStep DEF DispatchInv
<1> QED
  BY <1>1, DispatchInvInit, PTL DEF EdSpec

\* Type correctness of FDListenerMap, Epoll and FDMonitor.
THEOREM EdTypeCorrect == EdSpec => []EdTypeOK
  BY DispatchInvHolds, PTL DEF DispatchInv

\* However listeners add, modify and delete each other's descriptors while a
\* batch is handled, no event is dispatched to a missing or a newer listener.
THEOREM DispatchIsSafe == EdSpec => []DispatchSafe
  BY DispatchInvHolds, PTL DEF DispatchInv

\* The map and epoll's interest list agree after any calls, up to the entries of
\* descriptors that epoll_ctl() has refused, and the array handed to epoll_wait()
\* has room for every descriptor in the list.
THEOREM KernelInStep == EdSpec => []KernelAgrees
  BY DispatchInvHolds, PTL DEF DispatchInv
=============================================================================
