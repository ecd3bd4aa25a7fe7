----------------------- MODULE SeqPacketSocketProofs -----------------------
(***************************************************************************)
(* SeqPacketSocket: ExactlyOnce, SendStateAgrees and ClosesProperly, for   *)
(* every size of the kernel's queue and any number of messages.            *)
(*                                                                         *)
(* Two inductive invariants: Order is about the numbers of the messages in *)
(* the kernel and in the queue of the object, Control about everything     *)
(* else.  Order needs of Control that nothing is queued when the object is *)
(* not sending.                                                            *)
(***************************************************************************)
EXTENDS SeqPacketSocket, SequenceTheorems, TLAPS

-----------------------------------------------------------------------------
(* The order of the messages *)

\* The numbers in the kernel are 1, 2, ... and those in the queue the last ones
\* given to send(), in order; between them none is missing, and only an empty
\* message may be in both.
Order ==
    /\ outputQueue \in Seq(Nat) /\ wired \in Seq(Nat) /\ sent \in Nat /\ sent <= MaxOut
    /\ Len(outputQueue) <= sent
    /\ empty \subseteq 1 .. sent /\ again \subseteq empty
    /\ \A i \in 1 .. Len(wired) : wired[i] = i
    /\ \A i \in 1 .. Len(outputQueue) : outputQueue[i] = sent - Len(outputQueue) + i
    /\ \/ Len(wired) = sent - Len(outputQueue)
       \/ /\ Len(wired) = sent - Len(outputQueue) + 1
          /\ outputQueue # <<>> /\ Len(wired) \in empty

-----------------------------------------------------------------------------
(* Control *)

FlagsOK == fd \in BOOLEAN /\ connecting \in BOOLEAN /\ sending \in BOOLEAN

\* Everything but the messages, the counters and the Boolean members has its type.
NamesOK ==
    /\ listen \subseteq {"in", "out"} /\ evs \subseteq {"in", "out", "err", "hup"}
    /\ closedWith \in {"open", "ok", "reset", "pipe"}
    /\ pc \in Places
    /\ link \in {"up", "shut", "fin", "reset"} /\ error \in {"none", "reset"}

\* No message of the peer is lost or counted twice.
CountsOK ==
    /\ received \in Nat /\ inq \in Nat /\ peerSent \in Nat
    /\ received + inq = peerSent /\ peerSent <= MaxIn
    /\ outq \in Nat /\ outq <= SendBuf

\* As long as the descriptor is open the error of the connection has not been
\* consumed.
LinkOK ==
    fd => closedWith = "open" /\ (link = "reset" <=> error = "reset")

\* What events, reported earlier in the same call of the handler, still tell.
EventsOK ==
    /\ pc = "idle" => evs = {}
    /\ "err" \in evs => link = "reset"
    /\ "hup" \in evs => Closed /\ ("err" \in evs \/ link = "fin")

\* The descriptor is closed before the check of incoming data only by a send
\* that failed inside connectionEstablishedCb.
EarlyCloseOK ==
    /\ pc \in {"est", "slow"} => fd
    /\ pc = "estCb" => ~connecting /\ evs \cap {"err", "hup"} = {}
    /\ pc \in {"estCb", "in", "thrown"} /\ ~fd =>
         ~connecting /\ closedWith \in {"pipe", "reset"} /\ evs \cap {"err", "hup"} = {}
    /\ pc = "thrown" => ~fd

\* EVENT_OUT goes with sending, and sending with the queue, except that the loop
\* of sendSlow may have emptied the queue.
ListenOK ==
    fd => /\ "in" \in listen
          /\ sending => "out" \in listen
          /\ "out" \in listen => connecting \/ sending \/ pc = "estCb"
          /\ outputQueue # <<>> => sending
          /\ sending => outputQueue # <<>> \/ pc = "slow"

Control == FlagsOK /\ NamesOK /\ CountsOK /\ LinkOK /\ EventsOK /\ EarlyCloseOK /\ ListenOK /\ CloseReason

Inv == Control /\ Order

messages == <<outputQueue, sent, empty, wired, again>>

\* Both invariants hold in the beginning.
LEMMA InvInit == Init => Inv
<1> SUFFICES ASSUME Init PROVE Inv
  OBVIOUS
<1>1. FlagsOK
  BY Zenon DEF Init, FlagsOK
<1>2. NamesOK /\ CountsOK /\ LinkOK /\ EventsOK /\ EarlyCloseOK /\ ListenOK /\ CloseReason
  BY BoundsAssumption DEF Init, NamesOK, CountsOK, LinkOK, EventsOK, EarlyCloseOK, ListenOK, CloseReason, Closed, Places
<1>3. Order
  <2>1. <<>> \in Seq(Nat) /\ Len(<<>>) = 0
    OBVIOUS
  <2>2. /\ outputQueue \in Seq(Nat) /\ Len(outputQueue) = 0 /\ wired \in Seq(Nat) /\ Len(wired) = 0
        /\ sent = 0 /\ empty = {} /\ again = {}
    BY <2>1 DEF Init
  <2> QED
    BY <2>2, BoundsAssumption DEF Order
<1> QED
  BY <1>1, <1>2, <1>3 DEF Inv, Control

\* Order is about the messages only.
LEMMA OrderUnchanged == ASSUME Order, UNCHANGED messages PROVE Order'
BY DEF Order, messages

\* What the peer does keeps the invariants.
LEMMA PeerStep == Inv /\ Peer => Inv'
<1> SUFFICES ASSUME Inv, Peer PROVE Inv'
  OBVIOUS
<1> USE DEF Inv, Control
<1>1. UNCHANGED <<object, pc, evs>> /\ UNCHANGED <<wired, again>> /\ fd
  BY DEF Peer, PeerSends, PeerReads, PeerShutsDown, PeerCloses
<1>2. FlagsOK'
  BY <1>1, Zenon DEF object, FlagsOK
<1>3. Order'
  BY <1>1, OrderUnchanged DEF object, messages
<1>4. CASE PeerSends
  BY <1>1, <1>2, <1>3, <1>4, BoundsAssumption DEF PeerSends, object, NamesOK, CountsOK, LinkOK, EventsOK, EarlyCloseOK, ListenOK, CloseReason, Closed
<1>5. CASE PeerReads
  BY <1>1, <1>2, <1>3, <1>5, BoundsAssumption DEF PeerReads, object, NamesOK, CountsOK, LinkOK, EventsOK, EarlyCloseOK, ListenOK, CloseReason, Closed
<1>6. CASE PeerShutsDown
  BY <1>1, <1>2, <1>3, <1>6 DEF PeerShutsDown, object, NamesOK, CountsOK, LinkOK, EventsOK, EarlyCloseOK, ListenOK, CloseReason, Closed
<1>7. CASE PeerCloses
  BY <1>1, <1>2, <1>3, <1>7 DEF PeerCloses, object, NamesOK, CountsOK, LinkOK, EventsOK, EarlyCloseOK, ListenOK, CloseReason, Closed
<1> QED
  BY <1>4, <1>5, <1>6, <1>7 DEF Peer

\* Once the descriptor is closed all that matters is with what, and when.
LEMMA ClosingStep ==
    ASSUME Control, fd, NEW e, Closing(e), e \in {"ok", "reset", "pipe"},
           e = "ok" => link = "fin", e = "pipe" => Closed,
           UNCHANGED <<link, inq, peerSent, outq>>
    PROVE  /\ FlagsOK' /\ CountsOK' /\ LinkOK' /\ ListenOK' /\ CloseReason'
           /\ listen' = {} /\ closedWith' = e /\ connecting' = connecting /\ fd' = FALSE
<1> USE DEF Control, Closing
<1>1. FlagsOK'
  BY Zenon DEF FlagsOK
<1> QED
  BY <1>1 DEF CountsOK, LinkOK, ListenOK, CloseReason, Closed

\* The steps of the handler that neither send nor close, and the destructor
LEMMA QuietStep ==
    Inv /\ (\/ HandleEvents \/ CheckConnectionEstablished \/ EstablishedCbReturns
            \/ DataReceivedCbReturns \/ CheckOutgoingData \/ SentAll \/ AllDataSentCbReturns
            \/ Rerun \/ Destroy) => Inv'
<1> SUFFICES ASSUME Inv PROVE (\/ HandleEvents \/ CheckConnectionEstablished \/ EstablishedCbReturns
                               \/ DataReceivedCbReturns \/ CheckOutgoingData \/ SentAll \/ AllDataSentCbReturns
                               \/ Rerun \/ Destroy) => Inv'
  OBVIOUS
<1> USE DEF object, kernel
<1>1. ASSUME HandleEvents PROVE Inv'
  <2>1. FlagsOK'
    BY <1>1, Zenon DEF HandleEvents, Inv, Control, FlagsOK
  <2>2. Order'
    BY <1>1, OrderUnchanged DEF HandleEvents, Inv, messages
  <2>3. /\ "hup" \in Ready <=> Closed
        /\ "err" \in Ready <=> error # "none"
        /\ Ready \subseteq {"in", "out", "err", "hup"}
    BY DEF Ready, Inv, Control, NamesOK
  <2>4. fd /\ pc = "idle" /\ evs' = Ready /\ pc' = "est" /\ UNCHANGED <<object, kernel>>
    BY <1>1 DEF HandleEvents
  <2> QED
    BY <2>1, <2>2, <2>3, <2>4 DEF Inv, Control, NamesOK, CountsOK, LinkOK, EventsOK, EarlyCloseOK, ListenOK, CloseReason, Closed, Places
<1>2. ASSUME CheckConnectionEstablished PROVE Inv'
  <2>1. FlagsOK'
    BY <1>2, Zenon DEF CheckConnectionEstablished, Inv, Control, FlagsOK
  <2>2. Order'
    BY <1>2, OrderUnchanged DEF CheckConnectionEstablished, Inv, messages
  <2> QED
    BY <1>2, <2>1, <2>2 DEF CheckConnectionEstablished, Inv, Control, NamesOK, CountsOK, LinkOK, EventsOK, EarlyCloseOK, ListenOK, CloseReason, Closed, Places
<1>3. ASSUME EstablishedCbReturns PROVE Inv'
  <2>1. FlagsOK'
    BY <1>3, Zenon DEF EstablishedCbReturns, Inv, Control, FlagsOK
  <2>2. Order'
    BY <1>3, OrderUnchanged DEF EstablishedCbReturns, Inv, messages
  <2> QED
    BY <1>3, <2>1, <2>2 DEF EstablishedCbReturns, Inv, Control, NamesOK, CountsOK, LinkOK, EventsOK, EarlyCloseOK, ListenOK, CloseReason, Closed, Places
<1>4. ASSUME DataReceivedCbReturns \/ AllDataSentCbReturns \/ CheckOutgoingData PROVE Inv'
  <2>1. UNCHANGED <<object, evs, kernel>>
    BY <1>4 DEF DataReceivedCbReturns, AllDataSentCbReturns, CheckOutgoingData
  <2>2. /\ pc \in {"inCb", "outCb", "out"} /\ pc' \in {"out", "hup", "slow"}
        /\ pc' = "slow" => fd
    BY <1>4 DEF DataReceivedCbReturns, AllDataSentCbReturns, CheckOutgoingData
  <2>3. FlagsOK'
    BY <2>1, Zenon DEF Inv, Control, FlagsOK
  <2>4. Order'
    BY <2>1, OrderUnchanged DEF Inv, messages
  <2> QED
    BY <2>1, <2>2, <2>3, <2>4 DEF Inv, Control, NamesOK, CountsOK, LinkOK, EventsOK, EarlyCloseOK, ListenOK, CloseReason, Closed, Places
<1>5. ASSUME SentAll PROVE Inv'
  <2>1. FlagsOK'
    BY <1>5, Zenon DEF SentAll, Inv, Control, FlagsOK
  <2>2. Order'
    BY <1>5, OrderUnchanged DEF SentAll, Inv, messages
  <2> QED
    BY <1>5, <2>1, <2>2 DEF SentAll, Inv, Control, NamesOK, CountsOK, LinkOK, EventsOK, EarlyCloseOK, ListenOK, CloseReason, Closed, Places
<1>6. ASSUME Rerun PROVE Inv'
  <2>1. FlagsOK'
    BY <1>6, Zenon DEF Rerun, Inv, Control, FlagsOK
  <2>2. Order'
    BY <1>6, OrderUnchanged DEF Rerun, Inv, messages
  <2> QED
    BY <1>6, <2>1, <2>2 DEF Rerun, Inv, Control, NamesOK, CountsOK, LinkOK, EventsOK, EarlyCloseOK, ListenOK, CloseReason, Closed, Places
<1>7. ASSUME Destroy PROVE Inv'
  <2>1. FlagsOK'
    BY <1>7, Zenon DEF Destroy, Inv, Control, FlagsOK
  <2>2. Order'
    BY <1>7, OrderUnchanged DEF Destroy, Inv, messages
  <2> QED
    BY <1>7, <2>1, <2>2 DEF Destroy, Inv, Control, NamesOK, CountsOK, LinkOK, EventsOK, EarlyCloseOK, ListenOK, CloseReason, Closed, Places
<1> QED
  BY <1>1, <1>2, <1>3, <1>4, <1>5, <1>6, <1>7

\* checkIncomingData closes only with the error of the connection.
LEMMA IncomingStep == Inv /\ CheckIncomingData => Inv'
<1> SUFFICES ASSUME Inv, CheckIncomingData PROVE Inv'
  OBVIOUS
<1>p. pc = "in" /\ evs' = evs /\ UNCHANGED messages
  BY DEF CheckIncomingData, Closing, object, kernel, messages
<1>o. Order'
  BY <1>p, OrderUnchanged DEF Inv
<1>1. CASE UNCHANGED <<object, kernel>> /\ (pc' \in {"out", "inCb"} \/ (~fd /\ pc' = "thrown"))
  <2>1. FlagsOK'
    BY <1>1, Zenon DEF object, Inv, Control, FlagsOK
  <2> QED
    BY <1>o, <1>p, <1>1, <2>1 DEF object, kernel, Inv, Control, NamesOK, CountsOK, LinkOK, EventsOK, EarlyCloseOK, ListenOK, CloseReason, Closed, Places
<1>2. CASE /\ "in" \in evs /\ fd /\ error # "none" /\ pc' = "out"
           /\ Closing(error) /\ error' = "none" /\ UNCHANGED <<link, inq, peerSent, outq, wired, again>>
  <2>1. error = "reset"
    BY <1>2 DEF Inv, Control, NamesOK
  <2>2. /\ FlagsOK' /\ CountsOK' /\ LinkOK' /\ ListenOK' /\ CloseReason'
        /\ listen' = {} /\ closedWith' = error /\ connecting' = connecting /\ fd' = FALSE
    BY <1>2, <2>1, ClosingStep DEF Inv
  <2> QED
    BY <1>o, <1>p, <1>2, <2>1, <2>2 DEF Inv, Control, NamesOK, EventsOK, EarlyCloseOK, Closed, Places
<1>3. CASE /\ fd /\ inq > 0 /\ pc' = "inCb"
           /\ inq' = inq - 1 /\ received' = received + 1
           /\ UNCHANGED <<fd, connecting, sending, outputQueue, listen, sent, empty, closedWith,
                          link, error, peerSent, outq, wired, again>>
  <2>1. FlagsOK'
    BY <1>3, Zenon DEF Inv, Control, FlagsOK
  <2> QED
    BY <1>o, <1>p, <1>3, <2>1 DEF Inv, Control, NamesOK, CountsOK, LinkOK, EventsOK, EarlyCloseOK, ListenOK, CloseReason, Closed, Places
<1> QED
  BY <1>1, <1>2, <1>3 DEF CheckIncomingData

\* checkConnectionClosed: an EPOLLHUP without an error is a peer that has closed.
LEMMA ClosedStep == Inv /\ CheckConnectionClosed => Inv'
<1> SUFFICES ASSUME Inv, CheckConnectionClosed PROVE Inv'
  OBVIOUS
<1>p. pc = "hup" /\ pc' = "idle" /\ evs' = {} /\ UNCHANGED <<link, inq, peerSent, outq, wired, again>>
  BY DEF CheckConnectionClosed
<1>o. Order'
  <2>1. UNCHANGED messages
    BY DEF CheckConnectionClosed, Closing, object, messages
  <2> QED
    BY <2>1, OrderUnchanged DEF Inv
<1>1. CASE fd /\ evs \cap {"hup", "err"} # {}
  <2> DEFINE e == IF "err" \in evs THEN "reset" ELSE "ok"
  <2>1. Closing(e) /\ error' = "none"
    BY <1>1 DEF CheckConnectionClosed, Inv, Control, NamesOK, LinkOK, EventsOK
  <2>2. e \in {"ok", "reset"} /\ (e = "ok" => link = "fin")
    BY <1>1 DEF Inv, Control, EventsOK
  <2> HIDE DEF e
  <2>3. /\ FlagsOK' /\ CountsOK' /\ LinkOK' /\ ListenOK' /\ CloseReason'
        /\ listen' = {} /\ closedWith' = e /\ connecting' = connecting /\ fd' = FALSE
    BY <1>p, <1>1, <2>1, <2>2, ClosingStep DEF Inv
  <2> QED
    BY <1>o, <1>p, <2>1, <2>2, <2>3 DEF Inv, Control, NamesOK, EventsOK, EarlyCloseOK, Places
<1>2. CASE ~(fd /\ evs \cap {"hup", "err"} # {})
  <2>1. UNCHANGED object /\ UNCHANGED error
    BY <1>2 DEF CheckConnectionClosed
  <2>2. FlagsOK'
    BY <2>1, Zenon DEF object, Inv, Control, FlagsOK
  <2> QED
    BY <1>o, <1>p, <2>1, <2>2 DEF object, Inv, Control, NamesOK, CountsOK, LinkOK, EventsOK, EarlyCloseOK, ListenOK, CloseReason, Closed, Places
<1> QED
  BY <1>1, <1>2

-----------------------------------------------------------------------------
(* Sending *)

\* The messages in the kernel are those with the first numbers.
LEMMA WiredNumbers == ASSUME Order PROVE {wired[i] : i \in DOMAIN wired} = 1 .. Len(wired)
<1>1. DOMAIN wired = 1 .. Len(wired) /\ \A i \in 1 .. Len(wired) : wired[i] = i
  BY DEF Order
<1> QED
  BY <1>1

\* sendmsg() takes the message after those it took before.
LEMMA TakeNext ==
    ASSUME Order, NEW m, m = Len(wired) + 1, Take(m)
    PROVE  /\ wired' \in Seq(Nat) /\ Len(wired') = Len(wired) + 1 /\ again' = again
           /\ \A i \in 1 .. Len(wired') : wired'[i] = i
<1>1. m \notin {wired[i] : i \in DOMAIN wired} /\ wired \in Seq(Nat) /\ Len(wired) \in Nat /\ m \in Nat
  BY WiredNumbers DEF Order
<1>2. wired' = Append(wired, m) /\ again' = again
  BY <1>1 DEF Take
<1>3. \A i \in 1 .. Len(wired) : wired[i] = i
  BY DEF Order
<1>4. /\ wired' \in Seq(Nat) /\ Len(wired') = Len(wired) + 1
      /\ \A i \in 1 .. Len(wired) : wired'[i] = wired[i]
      /\ wired'[Len(wired) + 1] = m
  BY <1>1, <1>2
<1> QED
  BY <1>1, <1>2, <1>3, <1>4

\* sendmsg() takes a message once more.
LEMMA TakeAgain ==
    ASSUME Order, NEW m \in 1 .. Len(wired), Take(m)
    PROVE  wired' = wired /\ again' = again \cup {m}
BY WiredNumbers DEF Take

\* queue() puts the message after all others.
LEMMA QueueNext ==
    ASSUME Order, outputQueue' = Append(outputQueue, sent + 1), sent' = sent + 1
    PROVE  /\ outputQueue' \in Seq(Nat) /\ Len(outputQueue') = Len(outputQueue) + 1
           /\ \A i \in 1 .. Len(outputQueue') : outputQueue'[i] = sent' - Len(outputQueue') + i
           /\ outputQueue' # <<>>
<1>1. outputQueue \in Seq(Nat) /\ Len(outputQueue) \in Nat /\ sent \in Nat
  BY DEF Order
<1>2. \A i \in 1 .. Len(outputQueue) : outputQueue[i] = sent - Len(outputQueue) + i
  BY DEF Order
<1>3. /\ outputQueue' \in Seq(Nat) /\ Len(outputQueue') = Len(outputQueue) + 1
      /\ \A i \in 1 .. Len(outputQueue) : outputQueue'[i] = outputQueue[i]
      /\ outputQueue'[Len(outputQueue) + 1] = sent + 1
  BY <1>1
<1>4. outputQueue' # <<>>
  BY <1>1, <1>3
<1> QED
  BY <1>1, <1>2, <1>3, <1>4

\* send() keeps the order: it queues while earlier messages wait, and sends at
\* once only when none does.
LEMMA SendOrder ==
    ASSUME Inv, Send PROVE Order'
<1>0. fd /\ sent < MaxOut
  BY DEF Send
<1>1. PICK size \in {0, 1} :
          \/ /\ sending \/ connecting
             /\ Queue(sent + 1) /\ UNCHANGED kernel
             /\ sent' = sent + 1 /\ empty' = IF size = 0 THEN empty \cup {sent + 1} ELSE empty
          \/ /\ ~sending /\ ~connecting
             /\ SendFastNot(sent + 1, size) /\ Queue(sent + 1)
             /\ sent' = sent + 1 /\ empty' = IF size = 0 THEN empty \cup {sent + 1} ELSE empty
          \/ /\ ~sending /\ ~connecting
             /\ SendFast(sent + 1, size)
             /\ sent' = sent + 1
             /\ UNCHANGED <<fd, connecting, sending, outputQueue, listen, empty, received, closedWith>>
          \/ /\ ~sending /\ ~connecting
             /\ SendFails
  BY Zenon DEF Send
<1>2. Order
  BY DEF Inv
<1>3. ~sending => outputQueue = <<>>
  BY <1>0 DEF Inv, Control, ListenOK
<1>4. ASSUME outputQueue = <<>> PROVE sent + 1 = Len(wired) + 1 /\ Len(outputQueue) = 0
  BY <1>2, <1>4 DEF Order
<1>5. CASE /\ Queue(sent + 1) /\ UNCHANGED <<wired, again>>
           /\ sent' = sent + 1 /\ empty' = IF size = 0 THEN empty \cup {sent + 1} ELSE empty
  <2>1. /\ outputQueue' \in Seq(Nat) /\ Len(outputQueue') = Len(outputQueue) + 1
        /\ \A i \in 1 .. Len(outputQueue') : outputQueue'[i] = sent' - Len(outputQueue') + i
        /\ outputQueue' # <<>>
    BY <1>2, <1>5, QueueNext DEF Queue
  <2>2. empty' \subseteq 1 .. sent' /\ empty \subseteq empty'
    BY <1>2, <1>5 DEF Order
  <2>3. wired' = wired /\ again' = again /\ sent' = sent + 1
    BY <1>5
  <2>4. \/ Len(wired') = sent' - Len(outputQueue')
        \/ Len(wired') = sent' - Len(outputQueue') + 1 /\ outputQueue' # <<>> /\ Len(wired') \in empty'
    <3>1. /\ sent \in Nat /\ Len(outputQueue) \in Nat /\ Len(wired) \in Nat
          /\ \/ Len(wired) = sent - Len(outputQueue)
             \/ Len(wired) = sent - Len(outputQueue) + 1 /\ Len(wired) \in empty
      BY <1>2 DEF Order
    <3>2. Len(wired') = Len(wired)
      BY <2>3
    <3>3. sent' - Len(outputQueue') = sent - Len(outputQueue)
      BY <2>1, <2>3, <3>1
    <3> QED
      BY <2>1, <2>2, <3>1, <3>2, <3>3
  <2> QED
    BY <1>0, <1>2, <2>1, <2>2, <2>3, <2>4, BoundsAssumption DEF Order
<1>6. CASE /\ outputQueue = <<>> /\ size = 0 /\ Take(sent + 1) /\ Queue(sent + 1)
           /\ sent' = sent + 1 /\ empty' = empty \cup {sent + 1}
  <2>1. /\ outputQueue' \in Seq(Nat) /\ Len(outputQueue') = Len(outputQueue) + 1
        /\ \A i \in 1 .. Len(outputQueue') : outputQueue'[i] = sent' - Len(outputQueue') + i
        /\ outputQueue' # <<>>
    BY <1>2, <1>6, QueueNext DEF Queue
  <2>2. /\ wired' \in Seq(Nat) /\ Len(wired') = Len(wired) + 1 /\ again' = again
        /\ \A i \in 1 .. Len(wired') : wired'[i] = i
    BY <1>2, <1>4, <1>6, TakeNext
  <2>3. empty' \subseteq 1 .. sent' /\ empty \subseteq empty' /\ Len(wired') \in empty'
    BY <1>2, <1>4, <1>6, <2>2 DEF Order
  <2> QED
    BY <1>0, <1>2, <1>4, <1>6, <2>1, <2>2, <2>3, BoundsAssumption DEF Order
<1>7. CASE /\ outputQueue = <<>> /\ Take(sent + 1) /\ sent' = sent + 1
           /\ outputQueue' = outputQueue /\ empty' = empty
  <2>1. /\ wired' \in Seq(Nat) /\ Len(wired') = Len(wired) + 1 /\ again' = again
        /\ \A i \in 1 .. Len(wired') : wired'[i] = i
    BY <1>2, <1>4, <1>7, TakeNext
  <2> QED
    BY <1>0, <1>2, <1>4, <1>7, <2>1, BoundsAssumption DEF Order
<1>8. CASE SendFails
  BY <1>2, <1>8, OrderUnchanged DEF SendFails, Closing, messages
<1> QED
  <2>1. CASE Queue(sent + 1) /\ UNCHANGED kernel /\ sent' = sent + 1
             /\ empty' = IF size = 0 THEN empty \cup {sent + 1} ELSE empty
    BY <1>5, <2>1 DEF kernel
  <2>2. CASE ~sending /\ SendFastNot(sent + 1, size) /\ Queue(sent + 1) /\ sent' = sent + 1
             /\ empty' = IF size = 0 THEN empty \cup {sent + 1} ELSE empty
    BY <1>3, <1>5, <1>6, <2>2 DEF SendFastNot, kernel
  <2>3. CASE ~sending /\ SendFast(sent + 1, size) /\ sent' = sent + 1 /\ UNCHANGED <<outputQueue, empty>>
    BY <1>3, <1>7, <2>3 DEF SendFast
  <2> QED
    BY <1>1, <1>8, <2>1, <2>2, <2>3

\* A send that fails closes with the error, or with EPIPE when the peer has
\* closed; the messages stay as they are.
LEMMA FailStep ==
    ASSUME Control, fd, SendFails
    PROVE  /\ FlagsOK' /\ CountsOK' /\ LinkOK' /\ ListenOK' /\ CloseReason'
           /\ listen' = {} /\ closedWith' \in {"reset", "pipe"} /\ connecting' = connecting /\ fd' = FALSE
           /\ error' = "none" /\ link' = link /\ UNCHANGED messages
<1> DEFINE e == IF error # "none" THEN error ELSE "pipe"
<1>1. Closing(e) /\ UNCHANGED <<link, inq, peerSent, outq>> /\ error' = "none" /\ UNCHANGED messages
  BY DEF SendFails, messages, Closing
<1>2. e \in {"reset", "pipe"} /\ (e = "pipe" => Closed)
  BY DEF SendFails, Control, NamesOK
<1> HIDE DEF e
<1>3. /\ FlagsOK' /\ CountsOK' /\ LinkOK' /\ ListenOK' /\ CloseReason'
      /\ listen' = {} /\ closedWith' = e /\ connecting' = connecting /\ fd' = FALSE
  BY <1>1, <1>2, ClosingStep
<1> QED
  BY <1>1, <1>2, <1>3

\* What sendmsg() does leaves the connection and the input alone.
LEMMA TakeControl ==
    ASSUME CountsOK, NEW m, Take(m) \/ UNCHANGED kernel, received' = received
    PROVE  CountsOK' /\ link' = link /\ error' = error
BY BoundsAssumption DEF CountsOK, Take, kernel

\* send() keeps the members in agreement.
LEMMA SendControl == ASSUME Inv, Send PROVE Control'
<1>0. fd /\ pc' = pc /\ evs' = evs /\ pc \in {"idle", "estCb", "inCb", "outCb"}
  BY DEF Send, UserCode
<1>1. CASE /\ Queue(sent + 1) /\ sent' = sent + 1
           /\ Take(sent + 1) \/ UNCHANGED kernel
  <2>1. outputQueue' # <<>>
    BY <1>1, QueueNext DEF Inv, Queue
  <2>2. CountsOK' /\ link' = link /\ error' = error
    BY <1>1, TakeControl DEF Inv, Control, Queue
  <2>3. FlagsOK'
    BY <1>1, Zenon DEF Inv, Control, FlagsOK, Queue
  <2>4. fd' = fd /\ connecting' = connecting /\ closedWith' = closedWith /\ sending' /\ listen' = {"in", "out"}
    BY <1>1 DEF Queue
  <2> QED
    BY <1>0, <2>1, <2>2, <2>3, <2>4 DEF Inv, Control, NamesOK, LinkOK, EventsOK, EarlyCloseOK, ListenOK, CloseReason, Closed
<1>2. CASE /\ Take(sent + 1)
           /\ UNCHANGED <<fd, connecting, sending, outputQueue, listen, empty, received, closedWith>>
  <2>1. CountsOK' /\ link' = link /\ error' = error
    BY <1>2, TakeControl DEF Inv, Control
  <2>2. FlagsOK'
    BY <1>2, Zenon DEF Inv, Control, FlagsOK
  <2> QED
    BY <1>0, <1>2, <2>1, <2>2 DEF Inv, Control, NamesOK, LinkOK, EventsOK, EarlyCloseOK, ListenOK, CloseReason, Closed
<1>3. CASE SendFails
  <2>1. /\ FlagsOK' /\ CountsOK' /\ LinkOK' /\ ListenOK' /\ CloseReason'
        /\ listen' = {} /\ closedWith' \in {"reset", "pipe"} /\ connecting' = connecting /\ fd' = FALSE
        /\ error' = "none" /\ link' = link
    BY <1>0, <1>3, FailStep DEF Inv
  <2> QED
    BY <1>0, <2>1 DEF Inv, Control, NamesOK, EventsOK, EarlyCloseOK, Closed
<1> QED
  BY <1>1, <1>2, <1>3 DEF Send, SendFast, SendFastNot

\* One turn of the loop of sendSlow(): the head of the queue is the next message
\* for the kernel, or an empty one that the kernel has already.
LEMMA SendSlowStep == Inv /\ SendSlow => Inv'
<1> SUFFICES ASSUME Inv, SendSlow PROVE Inv'
  OBVIOUS
<1> DEFINE m == Head(outputQueue)
<1>0. pc = "slow" /\ fd /\ outputQueue # <<>> /\ evs' = evs
  BY DEF SendSlow, Inv, Control, EarlyCloseOK
<1>1. Order /\ Control
  BY DEF Inv
<1>2. outputQueue \in Seq(Nat) /\ Len(outputQueue) \in Nat \ {0} /\ sent \in Nat /\ Len(wired) \in Nat
  BY <1>0, <1>1 DEF Order
<1>3. m = sent - Len(outputQueue) + 1 /\ m \in Nat
  <2>1. \A i \in 1 .. Len(outputQueue) : outputQueue[i] = sent - Len(outputQueue) + i
    BY <1>1 DEF Order
  <2>2. m = outputQueue[1] /\ 1 \in 1 .. Len(outputQueue) /\ Len(outputQueue) <= sent
    BY <1>0, <1>1, <1>2 DEF Order
  <2> QED
    BY <1>2, <2>1, <2>2
<1>4. m = Len(wired) + 1 \/ (m = Len(wired) /\ m \in empty)
  BY <1>1, <1>2, <1>3 DEF Order
<1>5. m \in 1 .. sent
  BY <1>1, <1>2, <1>3 DEF Order
<1> HIDE DEF m
<1>6. ASSUME /\ SendFast(m, Size(m)) /\ outputQueue' = Tail(outputQueue)
             /\ UNCHANGED <<fd, connecting, sending, listen, sent, empty, received, closedWith, pc>>
      PROVE  Inv'
  <2>1. m = Len(wired) + 1 /\ Take(m)
    BY <1>4, <1>6 DEF SendFast, Size
  <2>2. /\ wired' \in Seq(Nat) /\ Len(wired') = Len(wired) + 1 /\ again' = again
        /\ \A i \in 1 .. Len(wired') : wired'[i] = i
    BY <1>1, <2>1, TakeNext
  <2>3. /\ outputQueue' \in Seq(Nat) /\ Len(outputQueue') = Len(outputQueue) - 1
        /\ \A i \in 1 .. Len(outputQueue) - 1 : outputQueue'[i] = outputQueue[i + 1]
    BY <1>0, <1>2, <1>6
  <2>4. \A i \in 1 .. Len(outputQueue') : outputQueue'[i] = sent' - Len(outputQueue') + i
    <3> SUFFICES ASSUME NEW i \in 1 .. Len(outputQueue') PROVE outputQueue'[i] = sent' - Len(outputQueue') + i
      OBVIOUS
    <3>1. i + 1 \in 1 .. Len(outputQueue) /\ outputQueue'[i] = outputQueue[i + 1]
      BY <1>2, <2>3
    <3>2. outputQueue[i + 1] = sent - Len(outputQueue) + (i + 1)
      BY <1>1, <3>1 DEF Order
    <3> QED
      BY <1>2, <1>6, <2>3, <3>1, <3>2
  <2>5. sent' = sent /\ empty' = empty /\ Len(wired') = sent' - Len(outputQueue')
    BY <1>2, <1>3, <1>6, <2>1, <2>2, <2>3
  <2>6. Order'
    <3>1. sent' \in Nat /\ sent' <= MaxOut /\ empty' \subseteq 1 .. sent' /\ again' \subseteq empty'
      BY <1>1, <2>2, <2>5 DEF Order
    <3>2. Len(outputQueue') <= sent'
      BY <1>1, <1>2, <2>3, <2>5 DEF Order
    <3> QED
      BY <2>2, <2>3, <2>4, <2>5, <3>1, <3>2 DEF Order
  <2>7. CountsOK' /\ link' = link /\ error' = error
    BY <1>1, <1>6, <2>1, TakeControl DEF Control
  <2>8. FlagsOK'
    BY <1>1, <1>6, Zenon DEF Control, FlagsOK
  <2> QED
    BY <1>0, <1>1, <1>6, <2>6, <2>7, <2>8 DEF Inv, Control, NamesOK, LinkOK, EventsOK, EarlyCloseOK, ListenOK, CloseReason, Closed
<1>7. ASSUME SendFastNot(m, Size(m)), pc' = "hup", UNCHANGED object PROVE Inv'
  <2>1. (Size(m) = 0 /\ Take(m)) \/ UNCHANGED kernel
    BY <1>7 DEF SendFastNot
  <2>2. Order'
    <3>1. CASE UNCHANGED kernel
      BY <1>1, <1>7, <3>1, OrderUnchanged DEF kernel, object, messages
    <3>2. CASE Take(m) /\ m \in empty /\ m = Len(wired) + 1
      <4>1. /\ wired' \in Seq(Nat) /\ Len(wired') = Len(wired) + 1 /\ again' = again
            /\ \A i \in 1 .. Len(wired') : wired'[i] = i
        BY <1>1, <3>2, TakeNext
      <4>2. outputQueue' = outputQueue /\ sent' = sent /\ empty' = empty
        BY <1>7 DEF object
      <4>3. Len(wired') = sent' - Len(outputQueue') + 1 /\ Len(wired') \in empty'
        BY <1>2, <1>3, <3>2, <4>1, <4>2
      <4> QED
        BY <1>0, <1>1, <4>1, <4>2, <4>3 DEF Order
    <3>3. CASE Take(m) /\ m \in empty /\ m = Len(wired)
      <4>1. wired' = wired /\ again' = again \cup {m}
        BY <1>1, <1>2, <1>5, <3>3, TakeAgain
      <4>2. outputQueue' = outputQueue /\ sent' = sent /\ empty' = empty
        BY <1>7 DEF object
      <4> QED
        BY <1>1, <3>3, <4>1, <4>2 DEF Order
    <3>4. Size(m) = 0 => m \in empty
      BY DEF Size
    <3> QED
      BY <1>4, <2>1, <3>1, <3>2, <3>3, <3>4
  <2>3. CountsOK' /\ link' = link /\ error' = error
    <3>1. received' = received
      BY <1>7 DEF object
    <3> QED
      BY <1>1, <2>1, <3>1, TakeControl DEF Control
  <2>4. FlagsOK'
    BY <1>1, <1>7, Zenon DEF Control, FlagsOK, object
  <2> QED
    BY <1>0, <1>1, <1>7, <2>2, <2>3, <2>4 DEF Inv, Control, NamesOK, LinkOK, EventsOK, EarlyCloseOK, ListenOK, CloseReason, Closed, object, Places
<1>8. ASSUME SendFails, pc' = "hup" PROVE Inv'
  <2>1. /\ FlagsOK' /\ CountsOK' /\ LinkOK' /\ ListenOK' /\ CloseReason'
        /\ listen' = {} /\ closedWith' \in {"reset", "pipe"} /\ connecting' = connecting /\ fd' = FALSE
        /\ error' = "none" /\ link' = link /\ UNCHANGED messages
    BY <1>0, <1>1, <1>8, FailStep
  <2>2. Order'
    BY <1>1, <2>1, OrderUnchanged
  <2> QED
    BY <1>0, <1>1, <1>8, <2>1, <2>2 DEF Inv, Control, NamesOK, EventsOK, EarlyCloseOK, Closed, Places
<1> QED
  BY <1>6, <1>7, <1>8 DEF SendSlow, m

-----------------------------------------------------------------------------
(* The theorems *)

\* Every step keeps both invariants.
LEMMA InvStep == Inv /\ [Next]_vars => Inv'
<1> SUFFICES ASSUME Inv, [Next]_vars PROVE Inv'
  OBVIOUS
<1>1. CASE UNCHANGED vars
  <2>1. FlagsOK'
    BY <1>1, Zenon DEF vars, object, Inv, Control, FlagsOK
  <2>2. Order'
    BY <1>1, OrderUnchanged DEF vars, object, kernel, Inv, messages
  <2> QED
    BY <1>1, <2>1, <2>2 DEF vars, object, kernel, Inv, Control, NamesOK, CountsOK, LinkOK, EventsOK, EarlyCloseOK, ListenOK, CloseReason, Closed
<1>2. CASE Send
  BY <1>2, SendOrder, SendControl DEF Inv
<1> QED
  BY <1>1, <1>2, PeerStep, QuietStep, IncomingStep, ClosedStep, SendSlowStep DEF Next, LoopStep

\* The invariants hold in every behaviour.
LEMMA Invariance == Spec => []Inv
BY InvInit, InvStep, PTL DEF Spec

\* send(), sendFast() and sendSlow() give every message to the kernel in order
\* and, unless it is empty, once.
THEOREM SentExactlyOnce == Spec => []ExactlyOnce
<1>1. ASSUME Inv PROVE ExactlyOnce
  <2> DEFINE repeated == /\ outputQueue # <<>> /\ wired # <<>>
                         /\ Head(outputQueue) = wired[Len(wired)] /\ Head(outputQueue) \in empty
             rest == IF repeated THEN Tail(outputQueue) ELSE outputQueue
             k == Len(wired)
  <2>0. Order
    BY <1>1 DEF Inv
  <2>1. outputQueue \in Seq(Nat) /\ wired \in Seq(Nat) /\ sent \in Nat /\ k \in Nat /\ Len(outputQueue) \in Nat
        /\ \A i \in 1 .. k : wired[i] = i
    BY <2>0 DEF Order
  <2>2. \A i \in 1 .. Len(outputQueue) : outputQueue[i] = sent - Len(outputQueue) + i
    BY <2>0 DEF Order
  <2>3. rest \in Seq(Nat) /\ Len(rest) = sent - k /\ \A i \in 1 .. Len(rest) : rest[i] = k + i
    <3>1. CASE outputQueue = <<>>
      <4>1. k = sent /\ rest = outputQueue /\ Len(outputQueue) = 0
        BY <2>0, <3>1 DEF Order
      <4> QED
        BY <2>1, <4>1
    <3>2. CASE outputQueue # <<>>
      <4>1. /\ Head(outputQueue) = sent - Len(outputQueue) + 1 /\ Len(outputQueue) > 0
            /\ wired # <<>> => k > 0 /\ wired[k] = k
            /\ k > 0 => wired # <<>>
        <5>1. Head(outputQueue) = outputQueue[1] /\ Len(outputQueue) > 0
          BY <2>1, <3>2
        <5>2. 1 \in 1 .. Len(outputQueue)
          BY <2>1, <5>1
        <5>3. Head(outputQueue) = sent - Len(outputQueue) + 1
          BY <2>2, <5>1, <5>2
        <5>4. wired # <<>> <=> k > 0
          BY <2>1
        <5>5. k > 0 => wired[k] = k
          BY <2>1
        <5> QED
          BY <5>1, <5>3, <5>4, <5>5
      <4>2. CASE k = sent - Len(outputQueue)
        <5>1. ~repeated
          BY <2>1, <4>1, <4>2
        <5>2. rest = outputQueue
          BY <5>1
        <5> QED
          BY <2>1, <2>2, <4>2, <5>2
      <4>3. CASE k = sent - Len(outputQueue) + 1 /\ k \in empty
        <5>1. k > 0
          BY <2>0, <4>3 DEF Order
        <5>2. repeated
          BY <3>2, <4>1, <4>3, <5>1
        <5>3. rest = Tail(outputQueue)
          BY <5>2
        <5> HIDE DEF repeated, rest
        <5>4. /\ rest \in Seq(Nat) /\ Len(rest) = Len(outputQueue) - 1
              /\ \A i \in 1 .. Len(outputQueue) - 1 : rest[i] = outputQueue[i + 1]
          BY <2>1, <3>2, <5>3
        <5>5. Len(rest) = sent - k
          BY <2>1, <4>3, <5>4
        <5>6. ASSUME NEW i \in 1 .. Len(rest) PROVE rest[i] = k + i
          <6>1. rest[i] = outputQueue[i + 1] /\ i + 1 \in 1 .. Len(outputQueue)
            BY <2>1, <5>4
          <6>2. outputQueue[i + 1] = sent - Len(outputQueue) + (i + 1)
            BY <2>2, <6>1
          <6> QED
            BY <2>1, <4>3, <5>4, <6>1, <6>2
        <5> QED
          BY <5>4, <5>5, <5>6
      <4> QED
        BY <2>0, <4>2, <4>3 DEF Order
    <3> QED
      BY <3>1, <3>2
  <2> HIDE DEF rest, repeated
  <2>4. wired \o rest = [i \in 1 .. sent |-> i]
    <3>1. /\ wired \o rest \in Seq(Nat) /\ Len(wired \o rest) = k + Len(rest)
          /\ \A i \in 1 .. k + Len(rest) : (wired \o rest)[i] = IF i <= k THEN wired[i] ELSE rest[i - k]
      BY <2>1, <2>3
    <3>2. k + Len(rest) = sent
      BY <2>1, <2>3
    <3>3. ASSUME NEW i \in 1 .. sent PROVE (wired \o rest)[i] = i
      <4>1. CASE i <= k
        BY <2>1, <3>1, <3>2, <4>1
      <4>2. CASE i > k
        <5>1. i - k \in 1 .. Len(rest)
          BY <2>1, <2>3, <4>2
        <5>2. rest[i - k] = k + (i - k)
          BY <2>3, <5>1
        <5> QED
          BY <2>1, <3>1, <3>2, <4>2, <5>2
      <4>3. i <= k \/ i > k
        BY <2>1
      <4> QED
        BY <4>1, <4>2, <4>3, Zenon
    <3>4. [i \in 1 .. sent |-> i] \in Seq(Nat) /\ Len([i \in 1 .. sent |-> i]) = sent
      BY <2>1
    <3> QED
      BY <3>1, <3>2, <3>3, <3>4, SeqEqual
  <2>5. again \subseteq empty
    BY <2>0 DEF Order
  <2> QED
    BY <2>4, <2>5 DEF ExactlyOnce, rest, repeated
<1> QED
  BY <1>1, Invariance, PTL

\* SeqPacketSocket keeps its types, and sending, the queue and the events
\* listened to agree whenever the loop waits.
THEOREM SendStateAgreement == Spec => []SendStateAgrees
<1>1. ASSUME Inv PROVE SendStateAgrees
  <2>1. /\ received \in 0 .. MaxIn /\ inq \in 0 .. MaxIn /\ peerSent \in 0 .. MaxIn
        /\ outq \in 0 .. SendBuf /\ sent \in 0 .. MaxOut
    BY <1>1, BoundsAssumption DEF Inv, Control, CountsOK, Order
  <2>2. empty \subseteq 1 .. MaxOut /\ again \subseteq 1 .. MaxOut
    BY <1>1, BoundsAssumption DEF Inv, Order
  <2>3. outputQueue \in Seq(1 .. MaxOut)
    <3>1. outputQueue \in Seq(Nat) /\ Len(outputQueue) \in Nat /\ \A i \in 1 .. Len(outputQueue) : outputQueue[i] \in 1 .. MaxOut
      BY <1>1, BoundsAssumption DEF Inv, Order
    <3>2. \E n \in Nat : outputQueue \in [1 .. n -> 1 .. MaxOut]
      BY <3>1
    <3>3. outputQueue \in UNION {[1 .. n -> 1 .. MaxOut] : n \in Nat}
      BY <3>2, Zenon
    <3> QED
      BY <3>3, SeqDef, Zenon
  <2>4. wired \in Seq(1 .. MaxOut)
    <3>1. wired \in Seq(Nat) /\ Len(wired) \in Nat /\ \A i \in 1 .. Len(wired) : wired[i] \in 1 .. MaxOut
      BY <1>1, BoundsAssumption DEF Inv, Order
    <3>2. \E n \in Nat : wired \in [1 .. n -> 1 .. MaxOut]
      BY <3>1
    <3>3. wired \in UNION {[1 .. n -> 1 .. MaxOut] : n \in Nat}
      BY <3>2, Zenon
    <3> QED
      BY <3>3, SeqDef, Zenon
  <2>5. TypeOK
    BY <1>1, <2>1, <2>2, <2>3, <2>4, Zenon DEF Inv, Control, FlagsOK, NamesOK, TypeOK
  <2> QED
    BY <1>1, <2>5 DEF Inv, Control, ListenOK, SendStateAgrees
<1> QED
  BY <1>1, Invariance, PTL

\* connectionClosedCb gets the true reason, and InvalidFD leaves handleEventsCb
\* only after a send in connectionEstablishedCb failed.
THEOREM ClosesProperlyAlways == Spec => []ClosesProperly
<1>1. Inv => ClosesProperly
  BY DEF Inv, Control, EarlyCloseOK, EscapeOnlyAfterFailedSend, ClosesProperly
<1> QED
  BY <1>1, Invariance, PTL
=============================================================================
