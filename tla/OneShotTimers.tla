--------------------------- MODULE OneShotTimers ---------------------------
(***************************************************************************)
(* What Timer promises its user, without a queue, a clock that only counts *)
(* milliseconds or a loop: a timer has at most one scheduling pending, a   *)
(* later schedule() overrides it and cancel() or destruction withdraws it, *)
(* and a pending one fires once, less than Slack before its time at most.  *)
(* TimerQueue implements this specification.                               *)
(***************************************************************************)
EXTENDS Integers, Sequences

CONSTANTS Timers,    \* timer objects
          Timeouts,  \* arguments of schedule()
          Slack      \* a timer fires less than this many ticks too early

VARIABLES pending,  \* pending[t]: number of t's pending scheduling, or 0
          due,      \* due[i]: when scheduling i is to fire
          fired,    \* the scheduling that fired last
          now       \* real time, in ticks

vars == <<pending, due, fired, now>>

Init ==
    /\ pending = [t \in Timers |-> 0]
    /\ due = <<>>
    /\ fired = 0
    /\ now = 0

Schedule(t) ==
    /\ \E d \in Timeouts : due' = Append(due, now + d)
    /\ pending' = [pending EXCEPT ![t] = Len(due')]
    /\ UNCHANGED <<fired, now>>

Cancel(t) ==
    /\ pending' = [pending EXCEPT ![t] = 0]
    /\ UNCHANGED <<due, fired, now>>

Fire(t) ==
    /\ pending[t] # 0
    /\ due[pending[t]] - now < Slack
    /\ fired' = pending[t]
    /\ pending' = [pending EXCEPT ![t] = 0]
    /\ UNCHANGED <<due, now>>

Tick == now' = now + 1 /\ UNCHANGED <<pending, due, fired>>

Next == Tick \/ \E t \in Timers : Schedule(t) \/ Cancel(t) \/ Fire(t)

Spec == Init /\ [][Next]_vars
=============================================================================
