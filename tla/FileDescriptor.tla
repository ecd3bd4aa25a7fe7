--------------------------- MODULE FileDescriptor ---------------------------
(***************************************************************************)
(* FileDescriptor, the owner of a descriptor, and the System calls that    *)
(* make and close descriptors.                                             *)
(*                                                                         *)
(* Open files are numbered, so that a descriptor that was closed and given *)
(* out again is told apart from the old one.  A raw int belongs to the     *)
(* code that got it from a System call or from release().  Another thread  *)
(* has descriptors of its own.  FileDescriptor objects are used by one     *)
(* thread; an object that was destroyed or not yet made is an invalid one. *)
(***************************************************************************)
EXTENDS Integers

CONSTANTS Handles,    \* FileDescriptor objects
          FDs,        \* bound: descriptors of the process
          MaxFiles    \* bound: files opened in a behaviour

ASSUME FDsAssumption == FDs \subseteq Nat /\ MaxFiles \in Nat

Invalid == -1
NoFile == 0

VARIABLES fd,          \* fd[h]: the member fd
          means,       \* means[h]: the file that h was made for
          table,       \* table[n]: the file that is open as n in the kernel
          raw,         \* raw[n]: the file that n stands for, a raw int
          others,      \* others[n]: the same in another thread
          files,       \* number of files opened so far
          closing,     \* the descriptor of a close() that was interrupted
          interrupted, \* some close() was interrupted
          aborted      \* EVENTLOOP_ABORT() was called
fdVars == <<fd, means, table, raw, others, files, closing, interrupted, aborted>>

FdInit ==
    /\ fd = [h \in Handles |-> Invalid] /\ means = [h \in Handles |-> NoFile]
    /\ table = [n \in FDs |-> NoFile] /\ raw = table /\ others = table /\ files = 0
    /\ closing = Invalid /\ interrupted = FALSE /\ aborted = FALSE

Running == ~aborted /\ closing = Invalid

-----------------------------------------------------------------------------
(* System *)

\* The kernel gives out the lowest free descriptor.
LowestFree(n) == table[n] = NoFile /\ \A k \in FDs : k < n => table[k] # NoFile

\* socket(), epollCreate(), timerFDCreate(), signalFD(), accept(): a raw
\* descriptor; calls that throw, or have nothing to accept, change nothing.
Open(n) ==
    /\ Running /\ LowestFree(n) /\ files < MaxFiles
    /\ files' = files + 1
    /\ table' = [table EXCEPT ![n] = files + 1]
    /\ raw' = [raw EXCEPT ![n] = files + 1]
    /\ UNCHANGED <<fd, means, others, closing, interrupted, aborted>>

\* pipe(): both or none
OpenTwo(m, n) ==
    /\ Running /\ LowestFree(m) /\ files + 1 < MaxFiles
    /\ table[n] = NoFile /\ n > m /\ \A k \in FDs : k < n => k = m \/ table[k] # NoFile
    /\ files' = files + 2
    /\ table' = [table EXCEPT ![m] = files + 1, ![n] = files + 2]
    /\ raw' = [raw EXCEPT ![m] = files + 1, ![n] = files + 2]
    /\ UNCHANGED <<fd, means, others, closing, interrupted, aborted>>

\* close(2) frees the descriptor even if a signal interrupts it; only then is
\* the call repeated.  An error, EBADF, aborts.
Close(n) ==
    IF table[n] = NoFile THEN aborted' = TRUE /\ closing' = Invalid /\ UNCHANGED <<table, interrupted>>
    ELSE /\ table' = [table EXCEPT ![n] = NoFile]
         /\ \/ closing' = Invalid /\ UNCHANGED interrupted
            \/ closing' = n /\ interrupted' = TRUE
         /\ UNCHANGED aborted

\* tempFailureRetry() calls close(2) again.
CloseAgain ==
    /\ ~aborted /\ closing # Invalid
    /\ Close(closing)
    /\ UNCHANGED <<fd, means, raw, others, files>>

\* Another thread opens and closes a file, without the library.
OtherOpens(n) ==
    /\ ~aborted /\ LowestFree(n) /\ files < MaxFiles
    /\ files' = files + 1
    /\ table' = [table EXCEPT ![n] = files + 1]
    /\ others' = [others EXCEPT ![n] = files + 1]
    /\ UNCHANGED <<fd, means, raw, closing, interrupted, aborted>>

OtherCloses(n) ==
    /\ ~aborted /\ others[n] # NoFile
    /\ others' = [others EXCEPT ![n] = NoFile]
    /\ table' = [table EXCEPT ![n] = NoFile]
    /\ UNCHANGED <<fd, means, raw, files, closing, interrupted, aborted>>

-----------------------------------------------------------------------------
(* FileDescriptor; operations of an invalid object throw InvalidFD *)

\* Mutant of TakeRaw: an object that holds a descriptor does not close it.
TakeRawOnly(h, n) ==
    /\ Running /\ raw[n] # NoFile
    /\ fd' = [fd EXCEPT ![h] = n] /\ means' = [means EXCEPT ![h] = raw[n]]
    /\ raw' = [raw EXCEPT ![n] = NoFile]
    /\ UNCHANGED <<table, closing, interrupted, aborted, others, files>>

\* FileDescriptor(fd), and operator=, which closes an old descriptor first
TakeRaw(h, n) ==
    /\ Running /\ raw[n] # NoFile
    /\ IF fd[h] # Invalid THEN Close(fd[h])
       ELSE UNCHANGED <<table, closing, interrupted, aborted>>
    /\ fd' = [fd EXCEPT ![h] = n] /\ means' = [means EXCEPT ![h] = raw[n]]
    /\ raw' = [raw EXCEPT ![n] = NoFile]
    /\ UNCHANGED <<others, files>>

\* close() and the destructor
CloseHandle(h) ==
    /\ Running /\ fd[h] # Invalid
    /\ Close(fd[h])
    /\ fd' = [fd EXCEPT ![h] = Invalid] /\ means' = [means EXCEPT ![h] = NoFile]
    /\ UNCHANGED <<raw, others, files>>

\* release()
ReleaseFD(h) ==
    /\ Running /\ fd[h] # Invalid
    /\ raw' = [raw EXCEPT ![fd[h]] = means[h]]
    /\ fd' = [fd EXCEPT ![h] = Invalid] /\ means' = [means EXCEPT ![h] = NoFile]
    /\ UNCHANGED <<table, others, files, closing, interrupted, aborted>>

SwapHandles(h, k) ==
    /\ Running
    /\ fd' = [fd EXCEPT ![h] = fd[k], ![k] = fd[h]]
    /\ means' = [means EXCEPT ![h] = means[k], ![k] = means[h]]
    /\ UNCHANGED <<table, raw, others, files, closing, interrupted, aborted>>

FdNext ==
    \/ CloseAgain
    \/ \E n \in FDs : Open(n) \/ OtherOpens(n) \/ OtherCloses(n) \/ \E m \in FDs : OpenTwo(m, n)
    \/ \E h \in Handles :
         \/ CloseHandle(h) \/ ReleaseFD(h)
         \/ \E n \in FDs : TakeRaw(h, n)
         \/ \E k \in Handles \ {h} : SwapHandles(h, k)

FdSpec == FdInit /\ [][FdNext]_fdVars

-----------------------------------------------------------------------------
(* Properties *)

\* Type correctness; an object that holds a descriptor stands for a file.
FdTypeOK ==
    /\ fd \in [Handles -> FDs \cup {Invalid}] /\ means \in [Handles -> 0 .. MaxFiles]
    /\ table \in [FDs -> 0 .. MaxFiles] /\ raw \in [FDs -> 0 .. MaxFiles] /\ others \in [FDs -> 0 .. MaxFiles]
    /\ files \in 0 .. MaxFiles /\ closing \in FDs \cup {Invalid}
    /\ interrupted \in BOOLEAN /\ aborted \in BOOLEAN
    /\ \A h \in Handles : fd[h] = Invalid <=> means[h] = NoFile

\* As long as no close(2) was interrupted, every open descriptor has one owner,
\* who holds it for the file it stands for: nothing leaks, nothing is closed
\* twice or for somebody else, and the program is not aborted.
OneOwner ==
    ~interrupted =>
        /\ ~aborted
        /\ \A h \in Handles : fd[h] # Invalid =>
             /\ table[fd[h]] = means[h]
             /\ raw[fd[h]] = NoFile /\ others[fd[h]] = NoFile
             /\ \A k \in Handles \ {h} : fd[k] # fd[h]
        /\ \A n \in FDs :
             /\ raw[n] # NoFile => table[n] = raw[n] /\ others[n] = NoFile
             /\ others[n] # NoFile => table[n] = others[n]
             /\ table[n] # NoFile => raw[n] # NoFile \/ others[n] # NoFile \/ \E h \in Handles : fd[h] = n
=============================================================================
