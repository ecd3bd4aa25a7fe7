--------------------------- MODULE EventDispatch ---------------------------
(***************************************************************************)
(* File descriptor listeners: FDListenerMap, Epoll, FDMonitor and the loop *)
(* that dispatches one batch of epoll events, which EpollRunner::runImpl   *)
(* and AsyncRunner::waitAndHandleFDEvents share.                           *)
(*                                                                         *)
(* A descriptor is a number the kernel uses again after a close.  Every    *)
(* successful addFDListener is a registration of its own, so that an event *)
(* fetched for one registration can be told from one of the next           *)
(* registration of the same number.  The runner's own descriptor (the      *)
(* event pipe, or the timer fd of AsyncRunner) is always registered.       *)
(* addFDListener on a descriptor that has an entry, and modifyFDListener   *)
(* on one that has none or that the kernel does not know, throw and change *)
(* nothing, and an epoll_wait() that times out hands over to a timer: they *)
(* are stuttering steps.  A call on a closed descriptor aborts the process *)
(* (System::epollCtl) and is not modelled.                                 *)
(***************************************************************************)
EXTENDS Integers, FiniteSets

CONSTANTS FDs,        \* descriptor numbers
          OwnFD,      \* the descriptor of the runner itself
          EventSets,  \* the values of the "events" argument
          Kinds,      \* "pollable" files; "unpollable" ones refuse EPOLL_CTL_ADD
          None,       \* no entry
          MaxRegs     \* bound: registrations in a behaviour

ASSUME FDsAssumption == IsFiniteSet(FDs) /\ OwnFD \in FDs
ASSUME KindsAssumption == Kinds \subseteq {"pollable", "unpollable"}
ASSUME EventsAssumption == "in" \in EventSets
ASSUME MaxRegsAssumption == MaxRegs \in Nat

VARIABLES
    map,         \* FDListenerMap::map
    interest,    \* the kernel's interest list
    addCount,    \* Epoll::addCount
    batch,       \* the events fetched and not yet looked at
    monitoring,  \* FDMonitor::monitoring
    deleted,     \* FDMonitor::set
    pc,          \* "user", "dispatch" or "handler"
    file,        \* file[fd]: what the number refers to
    registered,  \* descriptors the application has added and not deleted
    refused,     \* descriptors that epoll_ctl has refused to add, so far
    regs         \* number of registrations so far

epollVars == <<interest, addCount>>
edLoop == <<batch, pc>>
fdMonitor == <<monitoring, deleted>>
edHistory == <<registered, refused, regs>>
edVars == <<map, epollVars, edLoop, fdMonitor, file, edHistory>>

\* An entry of the map: the listener, as the registration it belongs to.
MapEntry == [reg : 0 .. MaxRegs, events : EventSets]

ASSUME NoneAssumption == None \notin MapEntry

InterestSet == {fd \in FDs : interest[fd] # None}

-----------------------------------------------------------------------------
\* The runner's constructor has added its own descriptor; it monitors nothing.
EdInit ==
    /\ map = [fd \in FDs |-> IF fd = OwnFD THEN [reg |-> 0, events |-> "in"] ELSE None]
    /\ interest = map
    /\ addCount = 1
    /\ batch = {} /\ pc = "user"
    /\ monitoring = FALSE /\ deleted = {}
    /\ file = [fd \in FDs |-> IF fd = OwnFD THEN "pollable" ELSE "closed"]
    /\ registered = {OwnFD} /\ refused = {}
    /\ regs = 0

-----------------------------------------------------------------------------
(* The application, between two waits or inside a listener's handleEvents *)

EdUserCode == pc \in {"user", "handler"}

Open(fd) ==
    /\ EdUserCode
    /\ file[fd] = "closed"
    /\ \E kind \in Kinds : file' = [file EXCEPT ![fd] = kind]
    /\ UNCHANGED <<map, epollVars, edLoop, fdMonitor, edHistory>>

\* The application closes only what it has not got registered.
Close(fd) ==
    /\ EdUserCode
    /\ file[fd] # "closed"
    /\ fd \notin registered
    /\ file' = [file EXCEPT ![fd] = "closed"]
    /\ UNCHANGED <<map, epollVars, edLoop, fdMonitor, edHistory>>

\* addFDListener: the entry is inserted, then epoll is told.
AddFDListener(fd, es) ==
    /\ EdUserCode
    /\ file[fd] = "pollable"
    /\ map[fd] = None
    /\ regs < MaxRegs
    /\ regs' = regs + 1
    /\ map' = [map EXCEPT ![fd] = [reg |-> regs + 1, events |-> es]]
    /\ interest' = [interest EXCEPT ![fd] = [reg |-> regs + 1, events |-> es]]
    /\ addCount' = addCount + 1
    /\ registered' = registered \cup {fd}
    /\ UNCHANGED <<edLoop, fdMonitor, file, refused>>

\* addFDListener when epoll_ctl refuses the file: the exception passes through
\* FDListenerMap::add, which has inserted the entry already.
AddFDListenerFails(fd, es) ==
    /\ EdUserCode
    /\ file[fd] = "unpollable"
    /\ map[fd] = None
    /\ regs < MaxRegs
    /\ regs' = regs + 1
    /\ map' = [map EXCEPT ![fd] = [reg |-> regs + 1, events |-> es]]
    /\ refused' = refused \cup {fd}
    /\ UNCHANGED <<epollVars, edLoop, fdMonitor, file, registered>>

\* modifyFDListener: epoll is only told of events that differ from the entry's.
ModifyFDListener(fd, es) ==
    /\ EdUserCode
    /\ fd # OwnFD
    /\ map[fd] # None /\ interest[fd] # None
    /\ map[fd].events # es
    /\ interest' = [interest EXCEPT ![fd].events = es]
    /\ map' = [map EXCEPT ![fd].events = es]
    /\ UNCHANGED <<addCount, edLoop, fdMonitor, file, edHistory>>

\* Mutant of MonitorAdd: deletions during a batch are forgotten.
MonitorAddNothing(fd) == UNCHANGED fdMonitor

\* FDMonitor::add
MonitorAdd(fd) ==
    /\ deleted' = IF monitoring THEN deleted \cup {fd} ELSE deleted
    /\ UNCHANGED monitoring

\* Mutant of DelFDListener: the entry is not erased.
DelKeepsEntry(fd) ==
    /\ EdUserCode
    /\ fd # OwnFD
    /\ map[fd] # None /\ interest[fd] # None
    /\ MonitorAdd(fd)
    /\ interest' = [interest EXCEPT ![fd] = None]
    /\ addCount' = addCount - 1
    /\ registered' = registered \ {fd}
    /\ UNCHANGED <<map, edLoop, file, refused, regs>>

\* delFDListener: the monitor is told first, then epoll, then the map.
DelFDListener(fd) ==
    /\ EdUserCode
    /\ fd # OwnFD
    /\ map[fd] # None /\ interest[fd] # None
    /\ MonitorAdd(fd)
    /\ interest' = [interest EXCEPT ![fd] = None]
    /\ addCount' = addCount - 1
    /\ map' = [map EXCEPT ![fd] = None]
    /\ registered' = registered \ {fd}
    /\ UNCHANGED <<edLoop, file, refused, regs>>

\* Mutant of DelFDListenerFails: Epoll::del counts before it calls epoll_ctl.
DelFailsCounted(fd) ==
    /\ EdUserCode
    /\ fd # OwnFD
    /\ \/ map[fd] = None
       \/ interest[fd] = None /\ file[fd] # "closed"
    /\ MonitorAdd(fd)
    /\ addCount' = addCount - 1
    /\ UNCHANGED <<map, interest, edLoop, file, edHistory>>

\* delFDListener that throws, from the map (there is no entry) or from
\* epoll_ctl (an entry the kernel does not know): the monitor has been told.
DelFDListenerFails(fd) ==
    /\ EdUserCode
    /\ fd # OwnFD
    /\ \/ map[fd] = None
       \/ interest[fd] = None /\ file[fd] # "closed"
    /\ MonitorAdd(fd)
    /\ UNCHANGED <<map, epollVars, edLoop, file, edHistory>>

-----------------------------------------------------------------------------
(* The loop *)

\* FDMonitor::startMonitoring and stopMonitoring
StartMonitoring == monitoring' = TRUE /\ UNCHANGED deleted
StopMonitoring  == monitoring' = FALSE /\ deleted' = {}

\* epoll_wait fetches at most addCount of the ready descriptors, and all of
\* them when they are not more; which are ready is the environment's choice.
Wait ==
    /\ pc = "user"
    /\ \E ready \in (SUBSET InterestSet) \ {{}}, fetched \in (SUBSET InterestSet) \ {{}} :
         /\ fetched \subseteq ready
         /\ Cardinality(fetched) <= addCount
         /\ Cardinality(ready) <= addCount => fetched = ready
         /\ batch' = {[fd |-> fd, reg |-> interest[fd].reg] : fd \in fetched}
    /\ pc' = "dispatch"
    /\ StartMonitoring
    /\ UNCHANGED <<map, epollVars, file, edHistory>>

\* The descriptor of the event was deleted in this batch: not dispatched.
Skip(e) ==
    /\ pc = "dispatch"
    /\ e.fd \in deleted
    /\ batch' = batch \ {e}
    /\ UNCHANGED <<map, epollVars, pc, fdMonitor, file, edHistory>>

\* FDListenerMap::get finds a listener and handleEvents is called.
Dispatch(e) ==
    /\ pc = "dispatch"
    /\ e.fd \notin deleted
    /\ batch' = batch \ {e}
    /\ pc' = "handler"
    /\ UNCHANGED <<map, epollVars, fdMonitor, file, edHistory>>

HandlerReturns ==
    /\ pc = "handler"
    /\ pc' = "dispatch"
    /\ UNCHANGED <<map, epollVars, batch, fdMonitor, file, edHistory>>

\* The batch ends, or an exception of the listener ends it: ~Guard either way.
EndBatch ==
    /\ \/ pc = "dispatch" /\ batch = {}
       \/ pc = "handler"
    /\ pc' = "user" /\ batch' = {}
    /\ StopMonitoring
    /\ UNCHANGED <<map, epollVars, file, edHistory>>

-----------------------------------------------------------------------------
UserStep ==
    \E fd \in FDs :
        \/ Open(fd) \/ Close(fd)
        \/ DelFDListener(fd) \/ DelFDListenerFails(fd)
        \/ \E es \in EventSets :
             \/ AddFDListener(fd, es) \/ AddFDListenerFails(fd, es)
             \/ ModifyFDListener(fd, es)

LoopStep ==
    \/ Wait \/ HandlerReturns \/ EndBatch
    \/ \E e \in batch : Skip(e) \/ Dispatch(e)

EdNext == UserStep \/ LoopStep

EdSpec == EdInit /\ [][EdNext]_edVars

-----------------------------------------------------------------------------
(* Properties *)

\* Type correctness.
EdTypeOK ==
    /\ map \in [FDs -> MapEntry \cup {None}]
    /\ interest \in [FDs -> MapEntry \cup {None}]
    /\ addCount \in Nat
    /\ batch \subseteq [fd : FDs, reg : 0 .. MaxRegs]
    /\ monitoring \in BOOLEAN /\ deleted \subseteq FDs
    /\ pc \in {"user", "dispatch", "handler"}
    /\ file \in [FDs -> {"closed", "pollable", "unpollable"}]
    /\ registered \subseteq FDs /\ refused \subseteq FDs
    /\ regs \in 0 .. MaxRegs

\* Whatever listeners do to each other's descriptors while a batch is handled,
\* an event that will be dispatched finds an entry (get() does not throw out
\* of run()), and the entry of the registration it was fetched for: an event
\* never reaches a listener added later under the same number.
DispatchSafe ==
    \A e \in batch :
        e.fd \notin deleted => map[e.fd] # None /\ map[e.fd].reg = e.reg

\* What the map has entries for is what the kernel listens to, for the same events
\* and the same registration, and addCount, the room for events in epoll_wait(),
\* is the number of these, after any sequence of calls, failed ones included.  One
\* kind of entry is excepted: FDListenerMap::add does not take back the entry of a
\* descriptor that epoll_ctl() refused (refused).  That entry is never known to the
\* kernel, and no other entry is without the kernel's knowledge.  The runner's own
\* descriptor is never lost, so that epoll_wait() always has room.
KernelAgrees ==
    /\ \A fd \in FDs : interest[fd] = map[fd] \/ (fd \in refused /\ interest[fd] = None)
    /\ InterestSet = registered
    /\ addCount = Cardinality(InterestSet)
    /\ OwnFD \in registered
=============================================================================
