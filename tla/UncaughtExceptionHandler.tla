---------------------- MODULE UncaughtExceptionHandler ----------------------
(***************************************************************************)
(* UncaughtExceptionHandler: the terminate handler of the process and the  *)
(* reference count of its users.  The unexpected handler is treated alike. *)
(* The mutex makes enable() and disable() atomic; users disable as often   *)
(* as they have enabled (Guard).                                           *)
(***************************************************************************)
EXTENDS Integers

CONSTANT MaxUsers  \* bound: users at a time

VARIABLES terminateHandler,   \* the handler of the process
          originalTerminate,  \* the static variable of the same name
          referenceCount,
          nested              \* enable() was called while it was enabled

uehVars == <<terminateHandler, originalTerminate, referenceCount, nested>>

UehInit ==
    /\ terminateHandler = "default" /\ originalTerminate = "null"
    /\ referenceCount = 0 /\ nested = FALSE

Enable ==
    /\ referenceCount < MaxUsers
    /\ originalTerminate' = terminateHandler
    /\ terminateHandler' = "handleTerminate"
    /\ referenceCount' = referenceCount + 1
    /\ nested' = (nested \/ referenceCount > 0)

Disable ==
    /\ referenceCount > 0
    /\ referenceCount' = referenceCount - 1
    /\ terminateHandler' = IF referenceCount = 1 THEN originalTerminate ELSE terminateHandler
    /\ originalTerminate' = IF referenceCount = 1 THEN "null" ELSE originalTerminate
    /\ UNCHANGED nested

UehNext == Enable \/ Disable

\* While enabled, handleTerminate is called and ends in the handler of before, and
\* disable() sets that handler back, as long as there was one user at a time.  (A
\* second enable() saves handleTerminate as its own original, which would call
\* itself; of what follows nothing is claimed.)
HandlerRestored ==
    ~nested => IF referenceCount > 0
               THEN terminateHandler = "handleTerminate" /\ originalTerminate = "default"
               ELSE terminateHandler = "default"
=============================================================================
