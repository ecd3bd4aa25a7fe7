---------------------------- MODULE WeakCallback ----------------------------
(***************************************************************************)
(* Callee, WeakCallback and postponeDeletion(): who is still there when a  *)
(* callback has its turn.                                                  *)
(*                                                                         *)
(* A callee is an object of its own from its construction on; an owner     *)
(* holds it with a pointer.  Its Life is shared with the copies of the     *)
(* callee, so that a Life is as many references as there are callees with  *)
(* it.  The queue is the runner's CallbackQueue, in the runner's thread.   *)
(***************************************************************************)
EXTENDS Integers, Sequences

CONSTANTS Callees,   \* callee objects
          MaxQueued  \* bound: callbacks added in a behaviour

ASSUME MaxQueuedAssumption == MaxQueued \in Nat

Nothing == [kind |-> "none"]

VARIABLES life,     \* life[c]: the Life of c, 0 before and after c's existence
          lives,    \* number of Lives so far
          owned,    \* the callees that their owner still holds
          past,     \* the callees that were constructed
          turns,    \* the queue
          running,  \* the callback that is being executed, or Nothing
          queued,   \* number of callbacks added so far
          copied    \* a callee was copied
wcVars == <<life, lives, owned, past, turns, running, queued, copied>>

WcInit ==
    /\ life = [c \in Callees |-> 0] /\ lives = 0 /\ owned = {} /\ past = {}
    /\ turns = <<>> /\ running = Nothing /\ queued = 0 /\ copied = FALSE

-----------------------------------------------------------------------------
(* The application, inside and outside of callbacks *)

Keep(c) == [kind |-> "keep", callee |-> c]

\* A callback that keeps a shared_ptr to c
Kept(c) == running = Keep(c) \/ \E i \in DOMAIN turns : turns[i] = Keep(c)

\* Callee(): a new Life
ConstructCallee(c) ==
    /\ c \notin past
    /\ life' = [life EXCEPT ![c] = lives + 1] /\ lives' = lives + 1
    /\ owned' = owned \cup {c} /\ past' = past \cup {c}
    /\ UNCHANGED <<turns, running, queued, copied>>

\* Callee(const Callee &)
CopyCallee(c, d) ==
    /\ c \notin past /\ life[d] # 0
    /\ life' = [life EXCEPT ![c] = life[d]]
    /\ owned' = owned \cup {c} /\ past' = past \cup {c} /\ copied' = TRUE
    /\ UNCHANGED <<lives, turns, running, queued>>

\* operator=
AssignCallee(c, d) ==
    /\ life[c] # 0 /\ life[d] # 0 /\ c # d
    /\ life' = [life EXCEPT ![c] = life[d]] /\ copied' = TRUE
    /\ UNCHANGED <<lives, owned, past, turns, running, queued>>

\* The owner resets its pointer; the last reference deletes the callee.
ResetOwner(c) ==
    /\ c \in owned
    /\ owned' = owned \ {c}
    /\ life' = (IF Kept(c) THEN life ELSE [life EXCEPT ![c] = 0])
    /\ UNCHANGED <<lives, past, turns, running, queued, copied>>

AddTurn(callback) ==
    /\ queued < MaxQueued
    /\ turns' = Append(turns, callback) /\ queued' = queued + 1
    /\ UNCHANGED <<life, lives, owned, past, running, copied>>

\* addCallback(WeakCallback(c, cb))
AddWeakCallback(c) ==
    life[c] # 0 /\ AddTurn([kind |-> "weak", callee |-> c, life |-> life[c], calls |-> FALSE])

\* postponeDeletion(runner, ptr)
PostponeDeletion(c) == c \in owned /\ AddTurn(Keep(c))

-----------------------------------------------------------------------------
(* CallbackQueue::execute() *)

\* Mutant of Expired: the callback has a reference of its own.
ExpiredNever(l) == FALSE

\* weak_ptr::expired()
Expired(l) == \A c \in Callees : life[c] # l

\* The next callback is taken from the queue and called; a WeakCallback calls
\* its function unless the Life is over.
ExecuteTurn ==
    /\ running = Nothing /\ turns # <<>>
    /\ LET next == Head(turns) IN
       running' = IF next.kind = "weak" THEN [next EXCEPT !.calls = ~Expired(next.life)] ELSE next
    /\ turns' = Tail(turns)
    /\ UNCHANGED <<life, lives, owned, past, queued, copied>>

\* The callbacks in S, and what they refer to, are deleted.
Deleted(S) ==
    [c \in Callees |-> IF Keep(c) \in S /\ c \notin owned /\ Keep(c) \notin {turns'[i] : i \in DOMAIN turns'}
                       THEN 0 ELSE life[c]]

\* The callback returns, or throws, and is deleted.
TurnEnds ==
    /\ running # Nothing
    /\ running' = Nothing /\ UNCHANGED turns
    /\ life' = Deleted({running})
    /\ UNCHANGED <<lives, owned, past, queued, copied>>

\* The runner is destroyed with its queue, outside of callbacks.
DestroyRunner ==
    /\ running = Nothing /\ turns # <<>>
    /\ turns' = <<>>
    /\ life' = Deleted({turns[i] : i \in DOMAIN turns})
    /\ UNCHANGED <<lives, owned, past, running, queued, copied>>

-----------------------------------------------------------------------------
WcNext ==
    \/ \E c \in Callees :
         \/ ConstructCallee(c) \/ ResetOwner(c) \/ AddWeakCallback(c) \/ PostponeDeletion(c)
         \/ \E d \in Callees : CopyCallee(c, d) \/ AssignCallee(c, d)
    \/ ExecuteTurn \/ TurnEnds \/ DestroyRunner

\* The runner runs: callbacks are executed and return.
WcFairness == WF_wcVars(ExecuteTurn) /\ WF_wcVars(TurnEnds)
WcSpec == WcInit /\ [][WcNext]_wcVars /\ WcFairness

-----------------------------------------------------------------------------
(* Properties *)

\* Type correctness; a callee has a Life as long as somebody holds it.
WcTypeOK ==
    /\ life \in [Callees -> 0 .. lives] /\ owned \subseteq past /\ past \subseteq Callees
    /\ queued \in Nat /\ Len(turns) <= queued /\ copied \in BOOLEAN
    /\ \A c \in Callees : life[c] # 0 <=> c \in owned \/ Kept(c)

\* WeakCallback: "If the callee is destroyed before this callback, then this
\* callback automatically becomes no-operation", and only then, whatever happened
\* between addCallback() and its turn: if no Callee was ever copied.  (The copies
\* of a callee share its Life: a callback of a destroyed callee is called as
\* long as one of them exists, and after an assignment the callbacks of a living
\* one are lost.)
CallsTheLiving ==
    [][\A c \in Callees :
        ExecuteTurn /\ running'.kind = "weak" /\ running'.callee = c /\ ~copied =>
            (running'.calls <=> life[c] # 0)]_wcVars

\* Postponed deletion happens: not before the turn of the callback, whatever the
\* owner does, but once the owner has let go it does happen.
DeletionHappens ==
    \A c \in Callees : (c \in past /\ c \notin owned) ~> life[c] = 0

\* A callback that has its turn finds its callee alive, or is none, and callees
\* that are let go are deleted.
TurnsSound == CallsTheLiving /\ DeletionHappens
=============================================================================
