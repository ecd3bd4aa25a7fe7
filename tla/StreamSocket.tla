---------------------------- MODULE StreamSocket ----------------------------
(***************************************************************************)
(* StreamSocket: one connection, the handler of its events and the kernel  *)
(* socket under it.                                                        *)
(*                                                                         *)
(* Data are counted in units.  handleEventsCb works on the events that     *)
(* epoll_wait returned while the peer goes on, and calls the application   *)
(* between its four checks; the application may append to the output       *)
(* buffer and call startSending whenever it has control: between events    *)
(* and inside connectionEstablishedCb, dataReceivedCb and allDataSentCb.   *)
(* An allDataSentCb or connectionClosedCb called from inside startSending  *)
(* returns to the same application code.  The socket is destroyed only     *)
(* between events, and its callbacks throw nothing.                        *)
(***************************************************************************)
EXTENDS Integers

CONSTANTS BufSize,   \* units one recvmsg() takes at most
          SendBuf,   \* units the kernel's send buffer holds
          MaxIn,     \* bound: units the peer sends
          MaxOut,    \* bound: units the application sends
          Families   \* address families: "inet" (TCP) or "unix"

ASSUME SizesAssumption == /\ BufSize \in Nat \ {0} /\ SendBuf \in Nat \ {0}
                          /\ MaxIn \in Nat /\ MaxOut \in Nat
ASSUME FamiliesAssumption == Families \subseteq {"inet", "unix"}

VARIABLES
    fd,          \* the descriptor is open (and registered with the runner)
    connecting, sending,  \* the members of the same names
    listen,      \* the events modifyFDListener asked for
    input,       \* units received into the input buffer so far
    output,      \* units in the output buffer
    closedWith,  \* the argument of connectionClosedCb; "open" before the call
    pc,          \* where handleEventsCb is
    evs,         \* its argument "events"
    family,      \* the address family of the connection
    link,        \* the connection: "connecting", "up", "fin", "reset", "refused"
    error,       \* SO_ERROR
    inq,         \* units in the kernel's receive queue
    peerSent,    \* units the peer has sent
    outq,        \* units in the kernel's send buffer
    peerGot      \* units the peer has read

object == <<fd, connecting, sending, listen, input, output, closedWith>>
kernel == <<family, link, error, inq, peerSent, outq, peerGot>>
vars == <<object, pc, evs, kernel>>

Smaller(a, b) == IF a < b THEN a ELSE b

-----------------------------------------------------------------------------
\* Both kinds of constructor: connect to a remote address (which for AF_UNIX
\* succeeds or throws at once), or take the descriptor of a connection that is
\* already established.
Init ==
    /\ fd = TRUE /\ sending = FALSE
    /\ family \in Families
    /\ \/ /\ connecting = TRUE /\ listen = {"in", "out"}
          /\ link = IF family = "unix" THEN "up" ELSE "connecting"
       \/ connecting = FALSE /\ listen = {"in"} /\ link = "up"
    /\ input = 0 /\ output = 0 /\ closedWith = "open"
    /\ pc = "idle" /\ evs = {}
    /\ error = "none" /\ inq = 0 /\ peerSent = 0 /\ outq = 0 /\ peerGot = 0

-----------------------------------------------------------------------------
(* The kernel and the peer *)

\* The peer has closed its end and the kernel takes the connection for dead:
\* AF_UNIX does so at once, TCP goes on as a half-closed connection.
HungUp == link = "fin" /\ family = "unix"

\* What epoll_wait reports of the socket.
Ready ==
    LET broken == link \in {"reset", "refused"}
    IN  {e \in listen \cup {"hup", "err"} :
            \/ e = "in"  /\ (inq > 0 \/ link = "fin" \/ broken)
            \/ e = "out" /\ ((link \in {"up", "fin"} /\ outq < SendBuf) \/ broken)
            \/ e = "hup" /\ (broken \/ HungUp)
            \/ e = "err" /\ error # "none"}

Connected ==
    /\ link = "connecting"
    /\ link' = "up"
    /\ UNCHANGED <<family, error, inq, peerSent, outq, peerGot>>

Refused ==
    /\ link = "connecting"
    /\ link' = "refused" /\ error' = "refused"
    /\ UNCHANGED <<family, inq, peerSent, outq, peerGot>>

PeerSends ==
    /\ link = "up" /\ peerSent < MaxIn
    /\ inq' = inq + 1 /\ peerSent' = peerSent + 1
    /\ UNCHANGED <<family, link, error, outq, peerGot>>

PeerReads ==
    /\ link \in {"up", "fin"} /\ outq > 0
    /\ outq' = outq - 1 /\ peerGot' = peerGot + 1
    /\ UNCHANGED <<family, link, error, inq, peerSent>>

\* The peer closes its end.  AF_UNIX resets the connection instead if the peer
\* has not read everything, and lets nothing happen on it afterwards.
PeerFinishes ==
    /\ link = "up" /\ (family = "unix" => outq = 0)
    /\ link' = "fin"
    /\ UNCHANGED <<family, error, inq, peerSent, outq, peerGot>>

PeerResets ==
    /\ link = "up" \/ (link = "fin" /\ ~HungUp)
    /\ link' = "reset" /\ error' = "reset"
    /\ UNCHANGED <<family, inq, peerSent, outq, peerGot>>

Environment ==
    /\ fd
    /\ \/ Connected \/ Refused \/ PeerSends \/ PeerReads \/ PeerFinishes \/ PeerResets
    /\ UNCHANGED <<object, pc, evs>>

-----------------------------------------------------------------------------
(* Operations that several steps share *)

\* close(e), which does nothing when fd is closed already; delFDListener,
\* fd.close() and then connectionClosedCb(e)
Closing(e) ==
    /\ fd' = FALSE /\ listen' = {} /\ closedWith' = e
    /\ UNCHANGED <<connecting, sending, input, output>>

\* Mutant of Sent: what is left is not announced to epoll.
SentForgetsOut(n) ==
    /\ output' = output - n /\ outq' = outq + n
    /\ sending' = (output' > 0)
    /\ listen' = {"in"}
    /\ UNCHANGED <<fd, connecting, input, closedWith, family, link, error, inq, peerSent, peerGot>>

\* Mutant of Sent: EVENT_OUT is kept when all has been sent.
SentKeepsOut(n) ==
    /\ output' = output - n /\ outq' = outq + n
    /\ sending' = (output' > 0)
    /\ listen' = IF output' > 0 THEN {"in", "out"} ELSE listen
    /\ UNCHANGED <<fd, connecting, input, closedWith, family, link, error, inq, peerSent, peerGot>>

\* send() when sendmsg() took n units of the output buffer: it listens to
\* EVENT_OUT and is sending as long as something is left.
Sent(n) ==
    /\ output' = output - n /\ outq' = outq + n
    /\ sending' = (output' > 0)
    /\ listen' = IF output' > 0 THEN {"in", "out"} ELSE {"in"}
    /\ UNCHANGED <<fd, connecting, input, closedWith, family, link, error, inq, peerSent, peerGot>>

\* trySend(): sendmsg() fails on an error of the connection and on one that is
\* shut down (EPIPE), and close(e.error) is called; with a full buffer (EAGAIN),
\* or with nothing to send, it takes nothing; otherwise some units.
TrySend ==
    LET broken == link \in {"reset", "refused"} \/ HungUp
    IN  \/ /\ error # "none"
           /\ Closing(error) /\ error' = "none"
           /\ UNCHANGED <<family, link, inq, peerSent, outq, peerGot>>
        \/ /\ error = "none" /\ broken
           /\ Closing("pipe") /\ UNCHANGED kernel
        \/ /\ error = "none" /\ ~broken
           /\ \E n \in 0 .. Smaller(SendBuf - outq, output) :
                /\ n = 0 => SendBuf = outq \/ output = 0
                /\ Sent(n)

-----------------------------------------------------------------------------
(* The application *)

UserCode == pc \in {"idle", "estCb", "inCb", "outCb"}

\* getOutput(): append one unit
Produce ==
    /\ UserCode /\ fd
    /\ output + outq + peerGot < MaxOut
    /\ output' = output + 1
    /\ UNCHANGED <<fd, connecting, sending, listen, input, closedWith, pc, evs, kernel>>

StartSending ==
    /\ UserCode /\ fd
    /\ ~sending /\ ~connecting /\ output > 0
    /\ TrySend
    /\ UNCHANGED <<pc, evs>>

Destroy ==
    /\ pc = "idle"
    /\ pc' = "destroyed"
    /\ fd' = FALSE /\ listen' = {}
    /\ UNCHANGED <<connecting, sending, input, output, closedWith, evs, kernel>>

-----------------------------------------------------------------------------
(* handleEventsCb *)

\* The runner calls it with the events of one epoll_wait.
HandleEvents ==
    /\ pc = "idle" /\ fd
    /\ Ready # {}
    /\ evs' = Ready
    /\ pc' = "est"
    /\ UNCHANGED <<object, kernel>>

\* Mutant of CheckConnectionEstablished: an event that tells an error also
\* counts as established.
EstablishedDespiteError ==
    /\ pc = "est"
    /\ IF connecting /\ evs \cap {"in", "out"} # {}
       THEN connecting' = FALSE /\ pc' = "estCb"
       ELSE UNCHANGED connecting /\ pc' = "in"
    /\ UNCHANGED <<fd, sending, listen, input, output, closedWith, evs, kernel>>

\* checkConnectionEstablished, up to the callback
CheckConnectionEstablished ==
    /\ pc = "est"
    /\ IF connecting /\ evs \cap {"in", "out"} # {} /\ evs \cap {"err", "hup"} = {}
       THEN connecting' = FALSE /\ pc' = "estCb"
       ELSE UNCHANGED connecting /\ pc' = "in"
    /\ UNCHANGED <<fd, sending, listen, input, output, closedWith, evs, kernel>>

\* ... and after it: reading fd throws InvalidFD when the callback's
\* startSending has closed it, and the exception leaves run().
EstablishedCbReturns ==
    /\ pc = "estCb"
    /\ pc' = IF output = 0 /\ ~fd THEN "thrown" ELSE "in"
    /\ listen' = IF output = 0 /\ fd THEN {"in"} ELSE listen
    /\ UNCHANGED <<fd, connecting, sending, input, output, closedWith, evs, kernel>>

\* checkIncomingData, up to dataReceivedCb.  It does not check fd: receive()
\* throws InvalidFD, which is no SystemException, if it is closed.  recvmsg()
\* delivers what is queued, then the error, then the end of the stream.
CheckIncomingData ==
    /\ pc = "in"
    /\ \/ /\ "in" \notin evs
          /\ pc' = "out" /\ UNCHANGED <<object, kernel>>
       \/ /\ "in" \in evs /\ ~fd
          /\ pc' = "thrown" /\ UNCHANGED <<object, kernel>>
       \/ /\ "in" \in evs /\ fd /\ inq > 0
          /\ LET n == Smaller(inq, BufSize)
             IN  inq' = inq - n /\ input' = input + n
          /\ pc' = "inCb"
          /\ UNCHANGED <<fd, connecting, sending, listen, output, closedWith,
                         family, link, error, peerSent, outq, peerGot>>
       \/ /\ "in" \in evs /\ fd /\ inq = 0 /\ error # "none"
          /\ pc' = "out"
          /\ Closing(error) /\ error' = "none"
          /\ UNCHANGED <<family, link, inq, peerSent, outq, peerGot>>
       \/ /\ "in" \in evs /\ fd /\ inq = 0 /\ error = "none"
          /\ pc' = "out"
          /\ IF link = "up" THEN UNCHANGED object ELSE Closing("ok")
          /\ UNCHANGED kernel
    /\ UNCHANGED evs

DataReceivedCbReturns ==
    /\ pc = "inCb"
    /\ pc' = "out"
    /\ UNCHANGED <<object, evs, kernel>>

\* checkOutgoingData, up to allDataSentCb
CheckOutgoingData ==
    /\ pc = "out"
    /\ \/ /\ fd /\ "out" \in evs
          /\ TrySend
          /\ pc' = IF fd' /\ output' = 0 THEN "outCb" ELSE "hup"
       \/ /\ ~(fd /\ "out" \in evs)
          /\ pc' = "hup" /\ UNCHANGED <<object, kernel>>
    /\ UNCHANGED evs

AllDataSentCbReturns ==
    /\ pc = "outCb"
    /\ pc' = "hup"
    /\ UNCHANGED <<object, evs, kernel>>

\* Mutant of CheckConnectionClosed: the error of the socket is not asked for.
ClosedWithoutError ==
    /\ pc = "hup"
    /\ pc' = "idle" /\ evs' = {}
    /\ IF fd /\ evs \cap {"hup", "err"} # {} THEN Closing("ok") ELSE UNCHANGED object
    /\ UNCHANGED kernel

\* checkConnectionClosed
CheckConnectionClosed ==
    /\ pc = "hup"
    /\ pc' = "idle" /\ evs' = {}
    /\ \/ /\ fd /\ "err" \in evs
          /\ Closing(IF error = "none" THEN "ok" ELSE error) /\ error' = "none"
          /\ UNCHANGED <<family, link, inq, peerSent, outq, peerGot>>
       \/ /\ fd /\ "err" \notin evs /\ "hup" \in evs
          /\ Closing("ok") /\ UNCHANGED kernel
       \/ /\ ~(fd /\ evs \cap {"hup", "err"} # {})
          /\ UNCHANGED <<object, kernel>>

\* The application catches what left run() and calls run() again.
Rerun ==
    /\ pc = "thrown"
    /\ pc' = "idle" /\ evs' = {}
    /\ UNCHANGED <<object, kernel>>

-----------------------------------------------------------------------------
LoopStep ==
    \/ HandleEvents \/ CheckConnectionEstablished \/ EstablishedCbReturns
    \/ CheckIncomingData \/ DataReceivedCbReturns
    \/ CheckOutgoingData \/ AllDataSentCbReturns
    \/ CheckConnectionClosed \/ Rerun

Next == Environment \/ Produce \/ StartSending \/ Destroy \/ LoopStep

Spec == Init /\ [][Next]_vars

\* The loop goes on, callbacks return, and the peer reads what it was sent.
FairSpec == Spec /\ WF_vars(LoopStep) /\ WF_vars(fd /\ PeerReads /\ UNCHANGED <<object, pc, evs>>)

-----------------------------------------------------------------------------
(* Properties *)

\* Type correctness.
TypeOK ==
    /\ fd \in BOOLEAN /\ connecting \in BOOLEAN /\ sending \in BOOLEAN
    /\ listen \subseteq {"in", "out"}
    /\ input \in 0 .. MaxIn /\ output \in 0 .. MaxOut
    /\ closedWith \in {"open", "ok", "reset", "refused", "pipe"}
    /\ pc \in {"idle", "est", "estCb", "in", "inCb", "out", "outCb", "hup",
               "thrown", "destroyed"}
    /\ evs \subseteq {"in", "out", "err", "hup"}
    /\ family \in Families
    /\ link \in {"connecting", "up", "fin", "reset", "refused"}
    /\ error \in {"none", "reset", "refused"}
    /\ inq \in 0 .. MaxIn /\ peerSent \in 0 .. MaxIn
    /\ outq \in 0 .. SendBuf /\ peerGot \in 0 .. MaxOut

\* Whenever the loop waits, an established connection listens to EVENT_OUT
\* only if there is output (level-triggered epoll would spin) and does listen
\* to it if a send is in progress, which also has something left to send:
\* startSending relies on that when it returns early.  All have their types.
SendStateAgrees ==
    /\ TypeOK
    /\ pc = "idle" /\ fd /\ ~connecting =>
         /\ "in" \in listen
         /\ "out" \in listen => output > 0
         /\ sending => "out" \in listen /\ output > 0

\* connectionClosedCb gets zero only for a connection that the peer terminated
\* normally, and with TCP only after everything that the peer had sent has been
\* received; "otherwise it tells the reason" (StreamSocket.hpp).
NormalCloseIsComplete ==
    closedWith = "ok" => link = "fin" /\ (family = "inet" => input = peerSent)

\* Output that startSending took on, or that waits for the connection, leaves
\* the buffer, or the connection ends (send, checkOutgoingData).
Flushed == (output > 0 /\ (sending \/ (connecting /\ link = "up"))) ~> (output = 0 \/ ~fd)

\* However the peer goes away, the socket notices and closes (receive,
\* checkConnectionClosed).
CloseNoticed == (link \in {"fin", "reset", "refused"}) ~> ~fd

\* An exception leaves the handler (InvalidFD from a descriptor that is closed)
\* only in the event that establishes the connection, when a startSending inside
\* connectionEstablishedCb has failed and that was reported to
\* connectionClosedCb: no other order of events, sends and callbacks makes a
\* check use the descriptor that an earlier one has closed.
EscapeOnlyAfterFailedSend ==
    pc = "thrown" => /\ ~fd /\ ~connecting /\ closedWith \in {"pipe", "reset"}
                     /\ evs \cap {"err", "hup"} = {}

\* No order of events leaves output or the end of the connection unattended.
SendsAndCloses == Flushed /\ CloseNoticed
=============================================================================
