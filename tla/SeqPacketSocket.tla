--------------------------- MODULE SeqPacketSocket ---------------------------
(***************************************************************************)
(* SeqPacketSocket: one AF_UNIX connection of sequenced packets, the       *)
(* handler of its events and the kernel socket under it.                   *)
(*                                                                         *)
(* Messages are numbered in the order in which the application sends them; *)
(* some are empty.  The queue of messages in the object is kept whole,     *)
(* those in the kernel are counted.  handleEventsCb works on the events of *)
(* one epoll_wait while the peer goes on, and calls the application        *)
(* between its checks; the application may send whenever it has control,   *)
(* but not after connectionClosedCb.  Control messages travel with their   *)
(* message and are not shown.                                              *)
(***************************************************************************)
EXTENDS Integers, Sequences

CONSTANTS SendBuf,  \* messages the kernel's send queue holds
          MaxIn,    \* bound: messages the peer sends
          MaxOut    \* bound: messages the application sends

ASSUME BoundsAssumption == SendBuf \in Nat \ {0} /\ MaxIn \in Nat /\ MaxOut \in Nat

VARIABLES
    fd,          \* the descriptor is open (and registered with the runner)
    connecting, sending, outputQueue,  \* the members of the same names
    listen,      \* the events modifyFDListener asked for
    sent,        \* messages given to send() so far
    empty,       \* those of size 0
    received,    \* messages given to dataReceivedCb, the end of input apart
    closedWith,  \* the argument of connectionClosedCb; "open" before the call
    pc, evs,     \* where handleEventsCb is, and its argument
    link,        \* "up", "shut" (the peer sends no more), "fin" or "reset"
    error,       \* SO_ERROR
    inq, peerSent,  \* messages in the receive queue, and sent by the peer
    outq,        \* messages in the send queue
    wired,       \* messages sendmsg() took, in order, without repetitions
    again        \* messages it took more than once

object == <<fd, connecting, sending, outputQueue, listen, sent, empty, received, closedWith>>
kernel == <<link, error, inq, peerSent, outq, wired, again>>
vars == <<object, pc, evs, kernel>>

-----------------------------------------------------------------------------
\* The constructors: connect() on an AF_UNIX socket succeeds or throws at once,
\* the first event tells that the connection is established; or the descriptor
\* of a connection that an other object has accepted.
Init ==
    /\ fd = TRUE /\ sending = FALSE /\ outputQueue = <<>>
    /\ \/ connecting = TRUE /\ listen = {"in", "out"}
       \/ connecting = FALSE /\ listen = {"in"}
    /\ sent = 0 /\ empty = {} /\ received = 0 /\ closedWith = "open"
    /\ pc = "idle" /\ evs = {}
    /\ link = "up" /\ error = "none"
    /\ inq = 0 /\ peerSent = 0 /\ outq = 0 /\ wired = <<>> /\ again = {}

-----------------------------------------------------------------------------
(* The kernel and the peer *)

Closed == link \in {"fin", "reset"}

\* What epoll_wait reports of the socket.
Ready ==
    {e \in listen \cup {"hup", "err"} :
        \/ e = "in"  /\ (inq > 0 \/ link # "up")
        \/ e = "out" /\ (outq < SendBuf \/ Closed)
        \/ e = "hup" /\ Closed
        \/ e = "err" /\ error # "none"}

PeerSends ==
    /\ link = "up" /\ peerSent < MaxIn
    /\ inq' = inq + 1 /\ peerSent' = peerSent + 1
    /\ UNCHANGED <<link, error, outq, wired, again>>

PeerReads ==
    /\ ~Closed /\ outq > 0
    /\ outq' = outq - 1
    /\ UNCHANGED <<link, error, inq, peerSent, wired, again>>

\* shutdown(SHUT_WR)
PeerShutsDown ==
    /\ link = "up"
    /\ link' = "shut"
    /\ UNCHANGED <<error, inq, peerSent, outq, wired, again>>

\* close(); what the peer has not read makes it a reset
PeerCloses ==
    /\ ~Closed
    /\ link' = IF outq > 0 THEN "reset" ELSE "fin"
    /\ error' = IF outq > 0 THEN "reset" ELSE error
    /\ UNCHANGED <<inq, peerSent, outq, wired, again>>

Peer ==
    /\ fd
    /\ PeerSends \/ PeerReads \/ PeerShutsDown \/ PeerCloses
    /\ UNCHANGED <<object, pc, evs>>

-----------------------------------------------------------------------------
(* Sending and closing *)

\* close(e) while fd is open: delFDListener, fd.close(), connectionClosedCb(e)
Closing(e) ==
    /\ fd' = FALSE /\ listen' = {} /\ closedWith' = e
    /\ UNCHANGED <<connecting, sending, outputQueue, sent, empty, received>>

\* sendmsg() puts message m into the send queue.
Take(m) ==
    /\ outq < SendBuf
    /\ outq' = outq + 1
    /\ wired' = IF m \in {wired[i] : i \in DOMAIN wired} THEN wired ELSE Append(wired, m)
    /\ again' = IF m \in {wired[i] : i \in DOMAIN wired} THEN again \cup {m} ELSE again
    /\ UNCHANGED <<link, error, inq, peerSent>>

\* sendFast() returns true: the kernel takes the message, and it is not empty
SendFast(m, size) ==
    /\ error = "none" /\ ~Closed /\ size > 0
    /\ Take(m)

\* sendFast() returns false: EAGAIN, or an empty message, which the kernel has
\* taken (sendmsg() returns 0 then)
SendFastNot(m, size) ==
    /\ error = "none" /\ ~Closed
    /\ IF outq < SendBuf THEN size = 0 /\ Take(m) ELSE UNCHANGED kernel

\* trySendFast() catches the SystemException of sendFast()
SendFails ==
    /\ error # "none" \/ Closed
    /\ Closing(IF error # "none" THEN error ELSE "pipe")
    /\ error' = "none"
    /\ UNCHANGED <<link, inq, peerSent, outq, wired, again>>

\* queue()
Queue(m) ==
    /\ sending' = TRUE
    /\ outputQueue' = Append(outputQueue, m)
    /\ listen' = {"in", "out"}
    /\ UNCHANGED <<fd, connecting, received, closedWith>>

Size(m) == IF m \in empty THEN 0 ELSE 1

-----------------------------------------------------------------------------
(* The application *)

UserCode == pc \in {"idle", "estCb", "inCb", "outCb"}

\* send(): an allDataSentCb or connectionClosedCb that it calls returns to the
\* same application code, which may send again.
Send ==
    /\ UserCode /\ fd /\ sent < MaxOut
    /\ \E size \in {0, 1} :
          \/ /\ sending \/ connecting
             /\ Queue(sent + 1) /\ UNCHANGED kernel
             /\ sent' = sent + 1 /\ empty' = IF size = 0 THEN empty \cup {sent + 1} ELSE empty
          \/ /\ ~sending /\ ~connecting
             /\ SendFastNot(sent + 1, size) /\ Queue(sent + 1)
             /\ sent' = sent + 1 /\ empty' = IF size = 0 THEN empty \cup {sent + 1} ELSE empty
          \/ /\ ~sending /\ ~connecting
             /\ SendFast(sent + 1, size)
             /\ sent' = sent + 1
             /\ UNCHANGED <<fd, connecting, sending, outputQueue, listen, empty, received, closedWith>>
          \/ /\ ~sending /\ ~connecting
             /\ SendFails
    /\ UNCHANGED <<pc, evs>>

\* The destructor; it runs between events.
Destroy ==
    /\ pc = "idle"
    /\ pc' = "destroyed"
    /\ fd' = FALSE /\ listen' = {}
    /\ UNCHANGED <<connecting, sending, outputQueue, sent, empty, received, closedWith, evs, kernel>>

-----------------------------------------------------------------------------
(* handleEventsCb *)

HandleEvents ==
    /\ pc = "idle" /\ fd
    /\ Ready # {}
    /\ evs' = Ready
    /\ pc' = "est"
    /\ UNCHANGED <<object, kernel>>

\* checkConnectionEstablished, up to the callback
CheckConnectionEstablished ==
    /\ pc = "est"
    /\ IF connecting /\ evs \cap {"in", "out"} # {} /\ evs \cap {"err", "hup"} = {}
       THEN connecting' = FALSE /\ pc' = "estCb"
       ELSE UNCHANGED connecting /\ pc' = "in"
    /\ UNCHANGED <<fd, sending, outputQueue, listen, sent, empty, received, closedWith, evs, kernel>>

\* Mutant of EstablishedCbReturns: EVENT_OUT is dropped although messages wait.
EstablishedDropsOut ==
    /\ pc = "estCb"
    /\ pc' = IF ~fd THEN "thrown" ELSE "in"
    /\ listen' = IF fd THEN {"in"} ELSE listen
    /\ UNCHANGED <<fd, connecting, sending, outputQueue, sent, empty, received, closedWith, evs, kernel>>

\* ... and after it: the conversion of fd throws InvalidFD when a send of the
\* callback has failed and closed it.
EstablishedCbReturns ==
    /\ pc = "estCb"
    /\ pc' = IF ~sending /\ ~fd THEN "thrown" ELSE "in"
    /\ listen' = IF ~sending /\ fd THEN {"in"} ELSE listen
    /\ UNCHANGED <<fd, connecting, sending, outputQueue, sent, empty, received, closedWith, evs, kernel>>

\* checkIncomingData and receive().  fd is not checked, and the InvalidFD of a
\* closed one is no SystemException.  recvmsg() returns a pending error or a
\* message (which of them first depends on the protocol); at the end of input
\* it returns 0, which dataReceivedCb gets as an empty message.
CheckIncomingData ==
    /\ pc = "in"
    /\ \/ /\ "in" \notin evs
          /\ pc' = "out" /\ UNCHANGED <<object, kernel>>
       \/ /\ "in" \in evs /\ ~fd
          /\ pc' = "thrown" /\ UNCHANGED <<object, kernel>>
       \/ /\ "in" \in evs /\ fd /\ error # "none"
          /\ pc' = "out"
          /\ Closing(error) /\ error' = "none"
          /\ UNCHANGED <<link, inq, peerSent, outq, wired, again>>
       \/ /\ "in" \in evs /\ fd /\ inq > 0
          /\ pc' = "inCb"
          /\ inq' = inq - 1 /\ received' = received + 1
          /\ UNCHANGED <<fd, connecting, sending, outputQueue, listen, sent, empty, closedWith,
                         link, error, peerSent, outq, wired, again>>
       \/ /\ "in" \in evs /\ fd /\ error = "none" /\ inq = 0
          /\ pc' = IF link = "up" THEN "out" ELSE "inCb"
          /\ UNCHANGED <<object, kernel>>
    /\ UNCHANGED evs

DataReceivedCbReturns ==
    /\ pc = "inCb"
    /\ pc' = "out"
    /\ UNCHANGED <<object, evs, kernel>>

\* checkOutgoingData
CheckOutgoingData ==
    /\ pc = "out"
    /\ pc' = IF fd /\ "out" \in evs THEN "slow" ELSE "hup"
    /\ UNCHANGED <<object, evs, kernel>>

\* Mutant of SendSlow: the message is removed before it is sent.
SendSlowPopsFirst ==
    /\ pc = "slow" /\ outputQueue # <<>>
    /\ LET m == Head(outputQueue)
       IN  \/ /\ SendFast(m, Size(m)) /\ UNCHANGED pc
           \/ /\ SendFastNot(m, Size(m)) /\ pc' = "hup"
    /\ outputQueue' = Tail(outputQueue)
    /\ UNCHANGED <<fd, connecting, sending, listen, sent, empty, received, closedWith, evs>>

\* Mutant of SendSlow: the loop goes on when a send has failed and closed fd.
SendSlowGoesOn ==
    /\ pc = "slow" /\ outputQueue # <<>>
    /\ LET m == Head(outputQueue)
       IN  \/ /\ fd /\ SendFast(m, Size(m))
              /\ outputQueue' = Tail(outputQueue)
              /\ UNCHANGED <<fd, connecting, sending, listen, sent, empty, received, closedWith, pc>>
           \/ /\ fd /\ SendFastNot(m, Size(m))
              /\ pc' = "hup" /\ UNCHANGED object
           \/ /\ fd /\ SendFails
              /\ pc' = "thrown"
    /\ UNCHANGED evs

\* one turn of the loop of sendSlow(), between which the peer may read
SendSlow ==
    /\ pc = "slow" /\ outputQueue # <<>>
    /\ LET m == Head(outputQueue)
       IN  \/ /\ SendFast(m, Size(m))
              /\ outputQueue' = Tail(outputQueue)
              /\ UNCHANGED <<fd, connecting, sending, listen, sent, empty, received, closedWith, pc>>
           \/ /\ SendFastNot(m, Size(m))
              /\ pc' = "hup" /\ UNCHANGED object
           \/ /\ SendFails
              /\ pc' = "hup"
    /\ UNCHANGED evs

\* Mutant of SentAll: sending is left as it is.
SentAllStillSending ==
    /\ pc = "slow" /\ outputQueue = <<>>
    /\ listen' = {"in"} /\ pc' = "outCb"
    /\ UNCHANGED <<fd, connecting, sending, outputQueue, sent, empty, received, closedWith, evs, kernel>>

\* the end of sendSlow(), up to allDataSentCb
SentAll ==
    /\ pc = "slow" /\ outputQueue = <<>>
    /\ sending' = FALSE /\ listen' = {"in"}
    /\ pc' = "outCb"
    /\ UNCHANGED <<fd, connecting, outputQueue, sent, empty, received, closedWith, evs, kernel>>

AllDataSentCbReturns ==
    /\ pc = "outCb"
    /\ pc' = "hup"
    /\ UNCHANGED <<object, evs, kernel>>

\* checkConnectionClosed; EVENT_ERR asks for SO_ERROR, which resets it
CheckConnectionClosed ==
    /\ pc = "hup"
    /\ pc' = "idle" /\ evs' = {}
    /\ \/ /\ fd /\ "err" \in evs
          /\ Closing(IF error = "none" THEN "ok" ELSE error) /\ error' = "none"
       \/ /\ fd /\ "err" \notin evs /\ "hup" \in evs
          /\ Closing("ok") /\ UNCHANGED error
       \/ /\ ~fd \/ evs \cap {"hup", "err"} = {}
          /\ UNCHANGED object /\ UNCHANGED error
    /\ UNCHANGED <<link, inq, peerSent, outq, wired, again>>

\* The application catches what left run() and calls run() again.
Rerun ==
    /\ pc = "thrown"
    /\ pc' = "idle" /\ evs' = {}
    /\ UNCHANGED <<object, kernel>>

-----------------------------------------------------------------------------
LoopStep ==
    \/ HandleEvents \/ CheckConnectionEstablished \/ EstablishedCbReturns
    \/ CheckIncomingData \/ DataReceivedCbReturns
    \/ CheckOutgoingData \/ SendSlow \/ SentAll \/ AllDataSentCbReturns
    \/ CheckConnectionClosed \/ Rerun

Next == Peer \/ Send \/ Destroy \/ LoopStep

Spec == Init /\ [][Next]_vars

\* The loop goes on, callbacks return, and the peer reads what it was sent.
FairSpec == Spec /\ WF_vars(LoopStep) /\ WF_vars(fd /\ PeerReads /\ UNCHANGED <<object, pc, evs>>)

-----------------------------------------------------------------------------
(* Properties *)

Places == {"idle", "est", "estCb", "in", "inCb", "out", "slow", "outCb", "hup", "thrown", "destroyed"}

\* Type correctness.
TypeOK ==
    /\ fd \in BOOLEAN /\ connecting \in BOOLEAN /\ sending \in BOOLEAN
    /\ outputQueue \in Seq(1 .. MaxOut) /\ wired \in Seq(1 .. MaxOut)
    /\ listen \subseteq {"in", "out"} /\ evs \subseteq {"in", "out", "err", "hup"}
    /\ sent \in 0 .. MaxOut /\ empty \subseteq 1 .. MaxOut /\ again \subseteq 1 .. MaxOut
    /\ closedWith \in {"open", "ok", "reset", "pipe"}
    /\ pc \in Places
    /\ link \in {"up", "shut", "fin", "reset"} /\ error \in {"none", "reset"}
    /\ received \in 0 .. MaxIn /\ inq \in 0 .. MaxIn /\ peerSent \in 0 .. MaxIn
    /\ outq \in 0 .. SendBuf

\* Every message that is not empty goes to the kernel exactly once and all go in
\* the order of the calls of send(), whatever was sent directly and whatever
\* went through the queue; an empty one is the only kind that may be sent
\* again, and stays at the head of the queue when it has been sent
\* (sendFast, queue, sendSlow).
ExactlyOnce ==
    /\ again \subseteq empty
    /\ fd => LET repeated == outputQueue # <<>> /\ wired # <<>>
                                /\ Head(outputQueue) = wired[Len(wired)]
                                /\ Head(outputQueue) \in empty
             IN  wired \o (IF repeated THEN Tail(outputQueue) ELSE outputQueue)
                    = [i \in 1 .. sent |-> i]

\* Whenever the loop waits, sending says whether messages are queued, and an
\* established connection listens to EVENT_OUT exactly then: a stale TRUE
\* would queue messages that no event sends, a stale EVENT_OUT would spin.  All
\* have their types.
SendStateAgrees ==
    /\ TypeOK
    /\ pc = "idle" /\ fd =>
         /\ sending <=> outputQueue # <<>>
         /\ "in" \in listen
         /\ ~connecting => ("out" \in listen <=> sending)

\* connectionClosedCb gets zero only for a connection that the peer has closed
\* normally, and otherwise the reason (SeqPacketSocket.hpp).
CloseReason ==
    /\ closedWith = "ok" => link = "fin"
    /\ closedWith = "pipe" => Closed

\* An exception leaves the handler only in the event that establishes the
\* connection, when a send inside connectionEstablishedCb has failed and was
\* reported to connectionClosedCb: no other order of events and sends makes the
\* checks use the descriptor that an earlier one closed.
EscapeOnlyAfterFailedSend ==
    pc = "thrown" => /\ ~fd /\ ~connecting /\ closedWith \in {"pipe", "reset"}
                     /\ evs \cap {"err", "hup"} = {}

\* Queued messages leave, or the connection ends, as long as no empty message
\* comes in their way: that one would be sent again and again (sendSlow).
Flushed ==
    LET blocked == \E i \in DOMAIN outputQueue : outputQueue[i] \in empty
    IN  (sending /\ ~connecting) ~> (~sending \/ ~fd \/ blocked)

\* A peer that closes is noticed: the socket closes (checkConnectionClosed);
\* receive() takes the end of input for an empty message.
CloseNoticed == Closed ~> ~fd

\* A connection that ends is reported once and truly, and its descriptor is used
\* afterwards in the one known case only (close, handleEventsCb).
ClosesProperly == CloseReason /\ EscapeOnlyAfterFailedSend

\* No order of events leaves messages or the end of the connection unattended.
SendsAndCloses == Flushed /\ CloseNoticed
=============================================================================
