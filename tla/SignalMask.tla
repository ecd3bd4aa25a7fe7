----------------------------- MODULE SignalMask -----------------------------
(***************************************************************************)
(* The signal mask of a thread and the objects that change it: runners     *)
(* with signal handling (EpollRunner::SignalFD) and SigPipeSuppressor,     *)
(* which surrounds the write of ChildProcess::handleEventOut.              *)
(*                                                                         *)
(* Signals are numbers; SignalSet iterates only over those up to MaxSignal *)
(* (MAX_SIGNAL), and the real-time signals lie above.  A signal that is    *)
(* raised is pending while it is blocked and gets its default action (or a *)
(* handler that is not ours) otherwise.  A signal that is pending already  *)
(* is not queued twice.  All objects belong to one thread.                 *)
(***************************************************************************)
EXTENDS SignalSet

CONSTANTS Signals,    \* the signals in use
          SigPipe,    \* SIGPIPE
          Originals,  \* masks the thread may have in the beginning
          Sets,       \* arguments of constructors and setSignals()
          Runners,    \* runners with signal handling
          MaxRaised,  \* bound: signals raised from outside
          MaxFailures \* bound: failing signalfd() and addFDListener()

ASSUME SignalsAssumption ==
    /\ Signals \subseteq 1 .. NSig /\ SigPipe \in Signals /\ SigPipe <= MaxSignal
    /\ Originals \subseteq SUBSET Signals /\ Sets \subseteq SUBSET Signals
    /\ MaxRaised \in Nat /\ MaxFailures \in Nat

VARIABLES
    original,    \* the mask in the beginning
    mask,        \* the blocked signals
    pending,     \* pending signals
    runners,     \* the existing runners, in the order of their construction
    handled,     \* SignalFD::handledSignals
    origBlocked, \* SignalFD::originallyBlockedSignals
    sfd,         \* the signals of the signal fd
    calls,       \* calls[r]: callbacks in r's queue, as signal numbers
    change,      \* what a setSignals() that is under way has still to do
    suppressor,  \* the SigPipeSuppressor: none, or its members
    raised,      \* number of signals raised from outside
    ownPipe,     \* what became of the SIGPIPE of the suppressed write
    foreign,     \* a SIGPIPE is pending that was raised from outside while no
                 \* write was suppressed
    told,        \* the signals that this step has passed to a signal handler
    dropped,     \* the signals whose callbacks this step has destroyed with
                 \* their runner
    disciplined, \* runners were used as a stack so far
    failures     \* number of exceptions that left a constructor or setSignals() half-way

thread == <<original, mask, pending, foreign>>
objects == <<runners, handled, origBlocked, sfd, calls, change>>
reports == <<told, dropped>>
ghosts == <<disciplined, failures>>
vars == <<thread, objects, suppressor, raised, ownPipe, reports, ghosts>>

None == [wasPending |-> TRUE, doUnblock |-> FALSE, active |-> FALSE]
NoChange == [next |-> "none", of |-> {}, unblock |-> {}]

Init ==
    /\ original \in Originals /\ mask = original
    /\ pending = {} /\ foreign = FALSE
    /\ runners = <<>>
    /\ handled = [r \in Runners |-> {}] /\ origBlocked = [r \in Runners |-> {}]
    /\ sfd = [r \in Runners |-> {}] /\ calls = [r \in Runners |-> <<>>]
    /\ change = NoChange /\ suppressor = None
    /\ raised = 0 /\ ownPipe = "none" /\ told = {} /\ dropped = {}
    /\ disciplined = TRUE /\ failures = 0

-----------------------------------------------------------------------------
\* sigMask(): what is pending and no longer blocked is delivered, which here
\* means it is gone.
SigMask(new) ==
    /\ mask' = new
    /\ pending' = pending \cap new
    /\ foreign' = (foreign /\ SigPipe \in new)
    /\ UNCHANGED original

Living == {runners[i] : i \in DOMAIN runners}

\* r is the runner that was constructed last.
Newest(r) == runners # <<>> /\ runners[Len(runners)] = r

\* The thread is neither inside setSignals() nor inside a suppressed write.
InUserCode == ~suppressor.active /\ change = NoChange

\* No handler is called and no callback destroyed in this step.
NoReport == told' = {} /\ dropped' = {}

-----------------------------------------------------------------------------
(* SignalFD *)

\* Only the first of the constructor's system calls depends on the mask, so that a
\* signal between them is as good as one behind them.
Construct(r, s) ==
    /\ InUserCode /\ r \notin Living
    /\ SigMask(mask \cup s)
    /\ origBlocked' = [origBlocked EXCEPT ![r] = mask]
    /\ handled' = [handled EXCEPT ![r] = s]
    /\ sfd' = [sfd EXCEPT ![r] = s]
    /\ calls' = [calls EXCEPT ![r] = <<>>]
    /\ runners' = Append(runners, r)
    /\ NoReport
    /\ UNCHANGED <<change, suppressor, ownPipe, raised, ghosts>>

\* signalfd() or addFDListener() throws: the destructor is not called, which
\* would set the mask back.
ConstructFails(s) ==
    /\ InUserCode
    /\ SigMask(mask \cup s)
    /\ failures < MaxFailures /\ failures' = failures + 1
    /\ NoReport
    /\ UNCHANGED <<objects, suppressor, ownPipe, raised, disciplined>>

\* The members of r are gone, and the callbacks that wait.
Forget(r) ==
    /\ handled' = [handled EXCEPT ![r] = {}] /\ origBlocked' = [origBlocked EXCEPT ![r] = {}]
    /\ sfd' = [sfd EXCEPT ![r] = {}] /\ calls' = [calls EXCEPT ![r] = <<>>]
    /\ dropped' = {calls[r][k] : k \in DOMAIN calls[r]}

\* the destructor
Destroy(r) ==
    /\ InUserCode
    /\ SigMask(origBlocked[r])
    /\ \E i \in DOMAIN runners :
          /\ runners[i] = r
          /\ runners' = SubSeq(runners, 1, i - 1) \o SubSeq(runners, i + 1, Len(runners))
    /\ Forget(r) /\ told' = {}
    /\ disciplined' = (disciplined /\ Newest(r))
    /\ UNCHANGED <<change, suppressor, ownPipe, raised, failures>>

\* setSignals(): the sets to block and to unblock
ToBlock(r, s) == {i \in Iterated(s) : i \notin origBlocked[r] /\ i \notin handled[r]}
ToUnblock(r, s) ==
    (handled[r] \ {i \in Iterated(s) : i \notin origBlocked[r] /\ i \in handled[r]})
        \ Iterated(origBlocked[r])

\* Up to the first system call, which blocks; two more follow, and signals may
\* arrive before each.
SetSignals(r, s) ==
    /\ InUserCode /\ r \in Living
    /\ handled' = [handled EXCEPT ![r] = s]
    /\ SigMask(mask \cup ToBlock(r, s))
    /\ change' = [next |-> "unblock", of |-> {r}, unblock |-> ToUnblock(r, s)]
    /\ disciplined' = (disciplined /\ Newest(r))
    /\ NoReport
    /\ UNCHANGED <<runners, origBlocked, sfd, calls, suppressor, ownPipe, raised, failures>>

\* the second system call
UnblockSignals ==
    /\ change.next = "unblock"
    /\ SigMask(mask \ change.unblock)
    /\ change' = [change EXCEPT !.next = "signalFD", !.unblock = {}]
    /\ NoReport
    /\ UNCHANGED <<runners, handled, origBlocked, sfd, calls, suppressor, ownPipe, raised, ghosts>>

\* Mutant of UpdateFD: the signal fd keeps the old set.
UpdateFDNot ==
    /\ change.next = "signalFD"
    /\ change' = NoChange
    /\ NoReport
    /\ UNCHANGED <<thread, runners, handled, origBlocked, sfd, calls, suppressor, ownPipe, raised, ghosts>>

\* the third: signalfd() of the existing descriptor with the new set
UpdateFD ==
    /\ change.next = "signalFD"
    /\ sfd' = [r \in Runners |-> IF r \in change.of THEN handled[r] ELSE sfd[r]]
    /\ change' = NoChange
    /\ NoReport
    /\ UNCHANGED <<thread, runners, handled, origBlocked, calls, suppressor, ownPipe, raised, ghosts>>

\* signalfd() throws: members and mask have changed already.
UpdateFDFails ==
    /\ change.next = "signalFD"
    /\ change' = NoChange
    /\ failures < MaxFailures /\ failures' = failures + 1
    /\ NoReport
    /\ UNCHANGED <<thread, runners, handled, origBlocked, sfd, calls, suppressor, ownPipe, raised,
                   disciplined>>

\* handleEventsCb: one read; the kernel returns the lowest number first.
ReadSignal(r) ==
    /\ InUserCode /\ r \in Living
    /\ \E i \in pending \cap sfd[r] :
          /\ \A j \in pending \cap sfd[r] : i <= j
          /\ pending' = pending \ {i}
          /\ foreign' = (foreign /\ i # SigPipe)
          /\ calls' = [calls EXCEPT ![r] = Append(@, i)]
    /\ NoReport
    /\ UNCHANGED <<original, mask, runners, handled, origBlocked, sfd, change,
                   suppressor, ownPipe, raised, ghosts>>

\* The callback calls the signal handler.
CallHandler(r) ==
    /\ InUserCode /\ r \in Living /\ calls[r] # <<>>
    /\ told' = {Head(calls[r])} /\ dropped' = {}
    /\ calls' = [calls EXCEPT ![r] = Tail(@)]
    /\ UNCHANGED <<thread, runners, handled, origBlocked, sfd, change, suppressor, ownPipe, raised, ghosts>>

-----------------------------------------------------------------------------
(* SigPipeSuppressor *)

\* the constructor
Suppress ==
    /\ InUserCode
    /\ suppressor' = [wasPending |-> SigPipe \in pending,
                      doUnblock |-> SigPipe \notin pending /\ SigPipe \notin mask,
                      active |-> TRUE]
    /\ IF SigPipe \in pending THEN UNCHANGED thread ELSE SigMask(mask \cup {SigPipe})
    /\ ownPipe' = "none"
    /\ NoReport
    /\ UNCHANGED <<objects, raised, ghosts>>

\* write() to a pipe that nobody reads
WriteFails ==
    /\ suppressor.active /\ ownPipe = "none"
    /\ IF SigPipe \in mask
       THEN pending' = pending \cup {SigPipe} /\ ownPipe' = "pending"
       ELSE ownPipe' = "acted" /\ UNCHANGED pending
    /\ NoReport
    /\ UNCHANGED <<original, mask, foreign, objects, suppressor, raised, ghosts>>

\* Mutant of AfterTimedWait: sigTimedWait() is not called.
AfterNoWait == pending

\* What is pending after the destructor has called sigTimedWait(), or has not
AfterTimedWait == IF suppressor.wasPending THEN pending ELSE pending \ {SigPipe}

\* the destructor: what it unblocks and has not taken is delivered
Release ==
    /\ suppressor.active
    /\ suppressor' = None
    /\ LET unblocked == IF ~suppressor.wasPending /\ suppressor.doUnblock THEN {SigPipe} ELSE {}
       IN  /\ mask' = mask \ unblocked
           /\ pending' = AfterTimedWait \ unblocked
           /\ ownPipe' = IF ownPipe = "pending" /\ SigPipe \in AfterTimedWait \cap unblocked
                         THEN "acted" ELSE "none"
    /\ NoReport
    /\ UNCHANGED <<original, foreign, objects, raised, ghosts>>

-----------------------------------------------------------------------------
\* kill(), at any time
Raise(i) ==
    /\ raised < MaxRaised /\ raised' = raised + 1
    /\ pending' = IF i \in mask THEN pending \cup {i} ELSE pending
    /\ foreign' = (foreign \/ (i = SigPipe /\ i \in mask /\ ~suppressor.active))
    /\ NoReport
    /\ UNCHANGED <<original, mask, objects, suppressor, ownPipe, ghosts>>

LoopStep == \E r \in Runners : ReadSignal(r) \/ CallHandler(r)

\* setSignals() goes on
ChangeStep == UnblockSignals \/ UpdateFD \/ UpdateFDFails

Next ==
    \/ \E r \in Runners : Destroy(r) \/ \E s \in Sets : Construct(r, s) \/ SetSignals(r, s)
    \/ \E s \in Sets : ConstructFails(s)
    \/ ChangeStep
    \/ Suppress \/ WriteFails \/ Release
    \/ \E i \in Signals : Raise(i)
    \/ LoopStep

Spec == Init /\ [][Next]_vars

\* The loop of every runner goes on, and setSignals() and the suppressed write
\* return.
SmFairness ==
    /\ WF_vars(ChangeStep) /\ WF_vars(Release)
    /\ \A r \in Runners : SF_vars(ReadSignal(r)) /\ SF_vars(CallHandler(r))

-----------------------------------------------------------------------------
(* Properties *)

\* Type correctness.
TypeOK ==
    /\ original \subseteq Signals /\ mask \subseteq Signals
    /\ pending \subseteq mask /\ foreign \in BOOLEAN
    /\ runners \in Seq(Runners)
    /\ handled \in [Runners -> SUBSET Signals] /\ origBlocked \in [Runners -> SUBSET Signals]
    /\ sfd \in [Runners -> SUBSET Signals] /\ calls \in [Runners -> Seq(Signals)]
    /\ change \in [next : {"none", "unblock", "signalFD"}, of : SUBSET Runners, unblock : SUBSET Signals]
    /\ suppressor \in [wasPending : BOOLEAN, doUnblock : BOOLEAN, active : BOOLEAN]
    /\ ownPipe \in {"none", "pending", "acted"}
    /\ told \subseteq Signals /\ dropped \subseteq Signals
    /\ raised \in 0 .. MaxRaised /\ disciplined \in BOOLEAN /\ failures \in 0 .. MaxFailures

\* Between calls, the thread blocks what it blocked in the beginning and what the
\* existing runners handle, and nothing else: in particular the handled signals are
\* blocked during normal execution, and the mask is set back in the end
\* (EpollRunner.hpp).  This is so after any sequence of setSignals() and
\* suppressed writes, if runners that exist together are used as a stack and no
\* call has failed half-way; and of the signals that SignalSet iterates over.
MaskIsSum ==
    disciplined /\ failures = 0 /\ InUserCode =>
        Iterated(mask) = Iterated(original) \cup
                         UNION {Iterated(handled[r]) : r \in Living}

\* The SIGPIPE of a suppressed write never gets its default action, neither at the
\* write nor when the destructor of SigPipeSuppressor unblocks the signal; and once
\* that is done SIGPIPE is pending exactly if somebody else has raised it while no
\* write was suppressed: the write's own one is not left behind, and a foreign one
\* that was pending before is not taken.  (A foreign one that arrives during the
\* write cannot be told from the write's own, and is taken.)
PipeSuppressed ==
    /\ ownPipe # "acted"
    /\ ~suppressor.active => (foreign <=> SigPipe \in pending)

\* A signal that is pending and handled by a runner is passed to the signal handler
\* (of this or another runner that handles it), also when it was raised in the middle
\* of a setSignals() or of a suppressed write, unless the set is changed to be without
\* it, or the runner is destroyed, or one that has read it is.  The conditions are
\* those of MaskIsSum: an undisciplined destructor unblocks signals that others
\* handle, and setSignals() unblocks real-time signals.  Of SIGPIPE it holds if it was
\* not raised during a suppressed write.
Reported ==
    \A r \in Runners, i \in {j \in Signals : j <= MaxSignal} :
        (/\ disciplined /\ failures = 0
         /\ r \in Living /\ i \in pending /\ i \in handled[r]
         /\ i = SigPipe => foreign)
        ~> (\/ i \in told
            \/ r \notin Living \/ i \notin handled[r] \/ i \in dropped
            \/ ~disciplined \/ failures > 0)
=============================================================================
