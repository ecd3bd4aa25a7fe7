------------------------------ MODULE SignalSet ------------------------------
(***************************************************************************)
(* SignalSet, a container around sigset_t.  The set itself may hold every  *)
(* signal of the kernel; size(), operator == and the iterators stop at     *)
(* MAX_SIGNAL, below the real-time signals.                                *)
(***************************************************************************)
EXTENDS Integers, Sequences, FiniteSets

CONSTANTS MaxSignal,  \* SignalSet::MAX_SIGNAL
          NSig        \* the highest signal of the kernel

ASSUME NSigAssumption == MaxSignal \in Nat /\ NSig \in Nat /\ MaxSignal <= NSig

\* isSet(): sigismember() returns -1, which is true, for an invalid number.
IsSet(s, sig) == sig \in 1 .. NSig => sig \in s

\* set() and unset(): the result in a set, which is empty if they throw
SetSignal(s, sig) == IF sig \in 1 .. NSig THEN {s \cup {sig}} ELSE {}
UnsetSignal(s, sig) == IF sig \in 1 .. NSig THEN {s \ {sig}} ELSE {}

NoSignals(s) == s = {}

Size(s) == Cardinality({i \in 1 .. MaxSignal : IsSet(s, i)})

SameSignals(s, t) == \A i \in 0 .. MaxSignal : IsSet(s, i) <=> IsSet(t, i)

End == MaxSignal + 1
GetNext(s, current) ==
    LET found == {i \in current + 1 .. MaxSignal : IsSet(s, i)} IN
    IF found = {} THEN End ELSE CHOOSE i \in found : \A j \in found : i <= j

\* What a loop from begin() to end() visits
Walk(s) ==
    LET from[i \in 1 .. End] == IF i = End THEN <<>> ELSE <<i>> \o from[GetNext(s, i)]
    IN  from[GetNext(s, 0)]

Iterated(s) == {Walk(s)[k] : k \in DOMAIN Walk(s)}

-----------------------------------------------------------------------------
(* The algorithms against what they are for, and the expectations of       *)
(* tst/SignalSetTest.cpp; TLC evaluates both.                              *)

\* A loop over any set visits its standard signals, in order and once each.
WalkVisitsAll ==
    \A s \in SUBSET (1 .. NSig) :
        /\ Iterated(s) = {i \in s : i <= MaxSignal} /\ Len(Walk(s)) = Size(s)
        /\ \A j, k \in DOMAIN Walk(s) : j < k => Walk(s)[j] < Walk(s)[k]
ASSUME WalkVisitsAll

SIGHUP == 1
SIGINT == 2
SIGTERM == 3

SetTests ==
    /\ NoSignals({}) /\ \A i \in 1 .. MaxSignal : ~IsSet({}, i)
    /\ IsSet({SIGHUP}, SIGHUP) /\ ~NoSignals({SIGHUP})
    /\ IsSet({SIGHUP, SIGTERM}, SIGTERM) /\ ~IsSet({SIGHUP, SIGTERM}, SIGINT)
    /\ \A s \in SetSignal({}, SIGINT) : IsSet(s, SIGINT) /\ \A t \in UnsetSignal(s, SIGINT) : ~IsSet(t, SIGINT)
    /\ SetSignal({}, -1) = {} /\ UnsetSignal({}, -1) = {}
    /\ MaxSignal > 0 /\ SIGTERM <= MaxSignal
ASSUME SetTests

ContainerTests ==
    /\ Size({SIGTERM, SIGINT}) = 2 /\ Iterated({SIGTERM, SIGINT}) = {SIGTERM, SIGINT}
    /\ Walk({1, MaxSignal}) = <<1, MaxSignal>>
    /\ SameSignals({SIGHUP, SIGTERM}, {SIGHUP, SIGTERM}) /\ ~SameSignals({SIGHUP, SIGTERM}, {SIGHUP, SIGINT})
ASSUME ContainerTests
=============================================================================
