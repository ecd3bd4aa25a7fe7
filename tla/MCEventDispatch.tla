-------------------------- MODULE MCEventDispatch --------------------------
(***************************************************************************)
(* Small instances of EventDispatch for TLC.                               *)
(***************************************************************************)
EXTENDS EventDispatch, TLC

CONSTANTS f1, f2, f3

MCFDs == {f1, f2, f3}
MCEventSets == {"in", "inout"}
Symmetry == Permutations(MCFDs \ {OwnFD})
=============================================================================
