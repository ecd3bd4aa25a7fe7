----------------------------- MODULE WorkQueue -----------------------------
(***************************************************************************)
(* What Runner::addCallback promises, without threads, locks or pipes:     *)
(* callbacks are numbered in the order in which they are accepted, and the *)
(* runner's thread starts each of them exactly once, in that order.        *)
(* CallbackQueue implements this specification.                            *)
(***************************************************************************)
EXTENDS Naturals

VARIABLES accepted,   \* how many callbacks have been accepted
          started     \* the number of the callback started last

vars == <<accepted, started>>

TypeOK == accepted \in Nat /\ started \in 0 .. accepted

Init == accepted = 0 /\ started = 0

Accept == accepted' = accepted + 1 /\ UNCHANGED started

Start == started < accepted /\ started' = started + 1 /\ UNCHANGED accepted

Next == Accept \/ Start

Spec == Init /\ [][Next]_vars
=============================================================================
