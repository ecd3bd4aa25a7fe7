------------------------------ MODULE MCSupport ------------------------------
(***************************************************************************)
(* The supporting classes, side by side: what they change in the process   *)
(* and have to set back (signal mask, terminate handler, descriptors), and *)
(* the values that they hold (socket addresses, control messages, weak     *)
(* callbacks).                                                             *)
(***************************************************************************)
EXTENDS SignalMask, UncaughtExceptionHandler, FileDescriptor, SocketAddress, ControlMessage,
        WeakCallback

MCOriginals == {{1}}
MCSets == {{1, 2}, {2, 4}}
MCPaths == {<<>>, <<At>>, <<At, Letter>>, <<Letter, Space>>, <<Letter, NUL, Letter>>,
            <<Letter, Letter, Letter, Letter>>, <<Letter, Letter, Letter, Letter, Letter>>}

MCInit == Init /\ UehInit /\ FdInit /\ SaInit /\ CmInit /\ WcInit

\* They do not share state: one is used while the others are as in the beginning.
MCNext ==
    \/ UehInit /\ FdInit /\ SaInit /\ CmInit /\ WcInit /\ Next
         /\ UNCHANGED <<uehVars, fdVars, saVars, cmVars, wcVars>>
    \/ Init /\ FdInit /\ SaInit /\ CmInit /\ WcInit /\ UehNext
         /\ UNCHANGED <<vars, fdVars, saVars, cmVars, wcVars>>
    \/ Init /\ UehInit /\ SaInit /\ CmInit /\ WcInit /\ FdNext
         /\ UNCHANGED <<vars, uehVars, saVars, cmVars, wcVars>>
    \/ Init /\ UehInit /\ FdInit /\ CmInit /\ WcInit /\ SaNext
         /\ UNCHANGED <<vars, uehVars, fdVars, cmVars, wcVars>>
    \/ Init /\ UehInit /\ FdInit /\ SaInit /\ WcInit /\ CmNext
         /\ UNCHANGED <<vars, uehVars, fdVars, saVars, wcVars>>
    \/ Init /\ UehInit /\ FdInit /\ SaInit /\ CmInit /\ WcNext
         /\ UNCHANGED <<vars, uehVars, fdVars, saVars, cmVars>>

MCSpec ==
    /\ MCInit /\ [][MCNext]_<<vars, uehVars, fdVars, saVars, cmVars, wcVars>>
    /\ SmFairness /\ WcFairness

\* What these objects change in the process is set back, under the conditions that
\* the three parts name: the signal mask (SignalFD, SigPipeSuppressor), the pending
\* SIGPIPE (SigPipeSuppressor) and the terminate handler (UncaughtExceptionHandler).
\* All have their types.
ProcessRestored ==
    /\ TypeOK /\ FdTypeOK /\ WcTypeOK
    /\ MaskIsSum /\ PipeSuppressed /\ HandlerRestored
=============================================================================
