------------------------- MODULE StreamSocketProofs -------------------------
(***************************************************************************)
(* StreamSocket: type correctness and the safety invariants of the socket, *)
(* for every size of the buffers, any amount of data and both families.    *)
(*                                                                         *)
(* None of the three is inductive.  What they need is what the handler may *)
(* still conclude from events that epoll_wait reported some steps ago      *)
(* (EventsOK), while the peer went on and callbacks sent or closed.        *)
(***************************************************************************)
EXTENDS StreamSocket, TLAPS

\* No unit is lost or counted twice on its way.
CountsOK ==
    /\ input \in Nat /\ inq \in Nat /\ peerSent \in Nat /\ input + inq = peerSent /\ peerSent <= MaxIn
    /\ output \in Nat /\ outq \in Nat /\ peerGot \in Nat /\ output + outq + peerGot <= MaxOut
    /\ outq <= SendBuf

\* Everything but the counters and the Boolean members has its type.
NamesOK ==
    /\ listen \subseteq {"in", "out"}
    /\ closedWith \in {"open", "ok", "reset", "refused", "pipe"}
    /\ pc \in {"idle", "est", "estCb", "in", "inCb", "out", "outCb", "hup", "thrown", "destroyed"}
    /\ evs \subseteq {"in", "out", "err", "hup"}
    /\ family \in Families
    /\ link \in {"connecting", "up", "fin", "reset", "refused"}
    /\ error \in {"none", "reset", "refused"}

FlagsOK == fd \in BOOLEAN /\ connecting \in BOOLEAN /\ sending \in BOOLEAN

\* As long as the descriptor is open the error of the connection has not been
\* consumed; a connection that never was established is still connecting.
LinkOK ==
    /\ fd => /\ link \in {"reset", "refused"} => error = link
             /\ link \notin {"reset", "refused"} => error = "none"
             /\ closedWith = "open"
    /\ fd /\ link \in {"connecting", "refused"} => connecting
    /\ link = "connecting" => inq = 0

\* What events, reported earlier in the same call of the handler, still tell.
EventsOK ==
    /\ pc = "idle" => evs = {}
    /\ evs \cap {"in", "out"} # {} => /\ link # "connecting"
                                      /\ link = "refused" => "hup" \in evs
    /\ "err" \in evs => link \in {"reset", "refused"}
    /\ "hup" \in evs => "err" \in evs \/ HungUp
    /\ connecting /\ pc \in {"in", "inCb", "out"} /\ evs \cap {"in", "out"} # {} => evs \cap {"err", "hup"} # {}

\* The descriptor is closed before the check of incoming data only by a send
\* that failed inside connectionEstablishedCb.
EarlyCloseOK ==
    /\ pc = "est" => fd
    /\ pc = "estCb" => ~connecting /\ evs \cap {"err", "hup"} = {}
    /\ pc \in {"estCb", "in", "thrown"} /\ ~fd =>
         ~connecting /\ closedWith \in {"pipe", "reset"} /\ evs \cap {"err", "hup"} = {}
    /\ pc = "thrown" => ~fd

\* EVENT_OUT is asked for, as long as the descriptor is open, by a socket that
\* connects, that has output, or whose connectionEstablishedCb has not returned.
ListenOK ==
    fd => /\ "in" \in listen
          /\ connecting => "out" \in listen /\ ~sending
          /\ sending => "out" \in listen /\ output > 0
          /\ "out" \in listen => connecting \/ output > 0 \/ pc = "estCb"

Inv == FlagsOK /\ NamesOK /\ CountsOK /\ LinkOK /\ EventsOK /\ EarlyCloseOK /\ ListenOK /\ NormalCloseIsComplete

\* The inductive invariant holds in the beginning.
LEMMA InvInit == Init => Inv
<1> SUFFICES ASSUME Init PROVE Inv
  OBVIOUS
<1>1. FlagsOK
  BY Zenon DEF Init, FlagsOK
<1>2. NamesOK
  BY FamiliesAssumption DEF Init, NamesOK
<1>3. CountsOK
  BY SizesAssumption DEF Init, CountsOK
<1>4. LinkOK /\ EventsOK /\ EarlyCloseOK /\ ListenOK /\ NormalCloseIsComplete
  BY FamiliesAssumption DEF Init, LinkOK, EventsOK, EarlyCloseOK, ListenOK, NormalCloseIsComplete
<1> QED
  BY <1>1, <1>2, <1>3, <1>4 DEF Inv

\* What the peer and the kernel do keeps the invariant.
LEMMA EnvironmentStep == Inv /\ Environment => Inv'
<1> SUFFICES ASSUME Inv, Environment PROVE Inv'
  OBVIOUS
<1> USE DEF Environment, Inv, object
<1>1. FlagsOK'
  BY Zenon DEF FlagsOK
<1>2. CASE Connected
  BY <1>1, <1>2 DEF Connected, NamesOK, CountsOK, LinkOK, EventsOK, EarlyCloseOK, ListenOK, NormalCloseIsComplete, HungUp
<1>3. CASE Refused
  BY <1>1, <1>3 DEF Refused, NamesOK, CountsOK, LinkOK, EventsOK, EarlyCloseOK, ListenOK, NormalCloseIsComplete, HungUp
<1>4. CASE PeerSends
  BY <1>1, <1>4, SizesAssumption DEF PeerSends, NamesOK, CountsOK, LinkOK, EventsOK, EarlyCloseOK, ListenOK, NormalCloseIsComplete, HungUp
<1>5. CASE PeerReads
  BY <1>1, <1>5, SizesAssumption DEF PeerReads, NamesOK, CountsOK, LinkOK, EventsOK, EarlyCloseOK, ListenOK, NormalCloseIsComplete, HungUp
<1>6. CASE PeerFinishes
  BY <1>1, <1>6 DEF PeerFinishes, NamesOK, CountsOK, LinkOK, EventsOK, EarlyCloseOK, ListenOK, NormalCloseIsComplete, HungUp
<1>7. CASE PeerResets
  BY <1>1, <1>7 DEF PeerResets, NamesOK, CountsOK, LinkOK, EventsOK, EarlyCloseOK, ListenOK, NormalCloseIsComplete, HungUp
<1> QED
  BY <1>2, <1>3, <1>4, <1>5, <1>6, <1>7

\* Once the descriptor is closed all that matters is with what, and when.
LEMMA ClosingStep ==
    ASSUME Inv, fd, NEW e, Closing(e), e \in {"ok", "reset", "refused", "pipe"},
           e = "ok" => link = "fin" /\ (family = "inet" => inq = 0),
           error' \in {"none", "reset", "refused"},
           UNCHANGED <<family, link, inq, peerSent, outq, peerGot>>
    PROVE  /\ FlagsOK' /\ CountsOK' /\ LinkOK' /\ ListenOK' /\ NormalCloseIsComplete'
           /\ listen' = {} /\ closedWith' = e /\ connecting' = connecting /\ fd' = FALSE /\ output' = output
<1> USE DEF Inv, Closing
<1>1. FlagsOK'
  BY Zenon DEF FlagsOK
<1> QED
  BY <1>1, SizesAssumption DEF CountsOK, LinkOK, ListenOK, NormalCloseIsComplete, NamesOK

\* send() of n units that fit, of an established connection
LEMMA SentStep ==
    ASSUME Inv, fd, ~connecting, NEW n \in 0 .. Smaller(SendBuf - outq, output), Sent(n)
    PROVE  /\ FlagsOK' /\ CountsOK' /\ LinkOK' /\ NormalCloseIsComplete'
           /\ listen' \subseteq {"in", "out"} /\ "in" \in listen'
           /\ sending' => "out" \in listen' /\ output' > 0
           /\ "out" \in listen' => output' > 0
           /\ ~connecting' /\ fd' /\ closedWith' = closedWith
           /\ family' = family /\ link' = link /\ error' = error
<1> USE DEF Inv, Sent
<1>1. FlagsOK'
  <2>1. fd' = fd /\ connecting' = connecting /\ sending' \in BOOLEAN
    OBVIOUS
  <2> QED
    BY <2>1, Zenon DEF FlagsOK
<1>2. n \in Nat /\ n <= SendBuf - outq /\ n <= output
  BY SizesAssumption DEF Smaller, CountsOK
<1>3. CountsOK' /\ LinkOK' /\ NormalCloseIsComplete'
  BY <1>2, SizesAssumption DEF CountsOK, LinkOK, NormalCloseIsComplete
<1>4. sending' <=> output' > 0
  OBVIOUS
<1>5. listen' \subseteq {"in", "out"} /\ "in" \in listen' /\ ("out" \in listen' <=> output' > 0)
  OBVIOUS
<1>6. ~connecting' /\ fd' /\ closedWith' = closedWith /\ family' = family /\ link' = link /\ error' = error
  OBVIOUS
<1> QED
  BY <1>1, <1>3, <1>4, <1>5, <1>6

\* trySend() closes with the error of the connection, or sends on one that is
\* established.
LEMMA TrySendStep ==
    ASSUME Inv, fd, TrySend, ~connecting \/ error # "none" \/ HungUp
    PROVE  /\ FlagsOK' /\ CountsOK' /\ LinkOK' /\ NormalCloseIsComplete'
           /\ family' = family /\ link' = link /\ error' \in {"none", error}
           /\ connecting' = connecting /\ listen' \subseteq {"in", "out"}
           /\ \/ /\ fd' = FALSE /\ closedWith' \in {"reset", "refused", "pipe"}
                 /\ closedWith' = "refused" => link = "refused"
              \/ /\ fd' = TRUE /\ closedWith' = "open" /\ ~connecting
                 /\ "in" \in listen'
                 /\ sending' => "out" \in listen' /\ output' > 0
                 /\ "out" \in listen' => output' > 0
<1>1. CASE error # "none"
  <2>1. Closing(error) /\ error' = "none" /\ UNCHANGED <<family, link, inq, peerSent, outq, peerGot>>
    BY <1>1 DEF TrySend
  <2>2. error \in {"reset", "refused"} /\ error = link
    BY <1>1 DEF Inv, NamesOK, LinkOK
  <2> QED
    BY <2>1, <2>2, ClosingStep
<1>2. CASE error = "none" /\ (link \in {"reset", "refused"} \/ HungUp)
  <2>1. Closing("pipe") /\ error' = error /\ UNCHANGED <<family, link, inq, peerSent, outq, peerGot>>
    BY <1>2 DEF TrySend, kernel
  <2>2. error' \in {"none", "reset", "refused"} /\ error' = error
    BY <2>1 DEF Inv, NamesOK
  <2>3. /\ FlagsOK' /\ CountsOK' /\ LinkOK' /\ ListenOK' /\ NormalCloseIsComplete'
        /\ listen' = {} /\ closedWith' = "pipe" /\ connecting' = connecting /\ fd' = FALSE
    BY <2>1, <2>2, ClosingStep
  <2> QED
    BY <2>1, <2>2, <2>3
<1>3. CASE error = "none" /\ ~(link \in {"reset", "refused"} \/ HungUp)
  <2>1. PICK n \in 0 .. Smaller(SendBuf - outq, output) : Sent(n)
    BY <1>3 DEF TrySend
  <2>2. closedWith = "open" /\ ~connecting
    BY <1>3 DEF Inv, LinkOK
  <2>3. connecting' = connecting
    BY <2>1 DEF Sent
  <2>4. fd' = TRUE
    BY <2>1, Zenon DEF Sent, Inv, FlagsOK
  <2> QED
    BY <2>1, <2>2, <2>3, <2>4, SentStep
<1> QED
  BY <1>1, <1>2, <1>3

\* What the application does keeps the invariant.
LEMMA ApplicationStep == Inv /\ (Produce \/ StartSending \/ Destroy) => Inv'
<1> SUFFICES ASSUME Inv, Produce \/ StartSending \/ Destroy PROVE Inv'
  OBVIOUS
<1>1. CASE Produce
  <2>1. FlagsOK'
    BY <1>1, Zenon DEF Produce, Inv, FlagsOK
  <2> QED
    BY <1>1, <2>1, SizesAssumption DEF Produce, kernel, Inv, NamesOK, CountsOK, LinkOK, EventsOK, EarlyCloseOK, ListenOK, NormalCloseIsComplete, HungUp
<1>2. CASE StartSending
  <2>1. fd /\ ~connecting /\ TrySend /\ pc' = pc /\ evs' = evs /\ UserCode
    BY <1>2 DEF StartSending
  <2>2. /\ FlagsOK' /\ CountsOK' /\ LinkOK' /\ NormalCloseIsComplete'
        /\ family' = family /\ link' = link /\ error' \in {"none", error}
        /\ connecting' = connecting /\ listen' \subseteq {"in", "out"}
        /\ \/ /\ fd' = FALSE /\ closedWith' \in {"reset", "refused", "pipe"}
              /\ closedWith' = "refused" => link = "refused"
           \/ /\ fd' = TRUE /\ closedWith' = "open" /\ ~connecting
              /\ "in" \in listen'
              /\ sending' => "out" \in listen' /\ output' > 0
              /\ "out" \in listen' => output' > 0
    BY <2>1, TrySendStep
  <2>3. link # "refused"
    BY <2>1 DEF Inv, LinkOK
  <2>4. NamesOK' /\ EventsOK'
    BY <2>1, <2>2 DEF Inv, NamesOK, EventsOK, HungUp
  <2>5. EarlyCloseOK'
    BY <2>1, <2>2, <2>3 DEF Inv, EarlyCloseOK, UserCode
  <2>6. ListenOK'
    BY <2>1, <2>2 DEF ListenOK
  <2> QED
    BY <2>2, <2>4, <2>5, <2>6 DEF Inv
<1>3. CASE Destroy
  <2>1. FlagsOK'
    BY <1>3, Zenon DEF Destroy, Inv, FlagsOK
  <2> QED
    BY <1>3, <2>1 DEF Destroy, kernel, Inv, NamesOK, CountsOK, LinkOK, EventsOK, EarlyCloseOK, ListenOK, NormalCloseIsComplete, HungUp
<1> QED
  BY <1>1, <1>2, <1>3

\* The steps of the handler that leave the descriptor as it is
LEMMA QuietStep ==
    Inv /\ (\/ HandleEvents \/ CheckConnectionEstablished \/ EstablishedCbReturns
            \/ DataReceivedCbReturns \/ AllDataSentCbReturns \/ Rerun) => Inv'
<1> SUFFICES ASSUME Inv PROVE (\/ HandleEvents \/ CheckConnectionEstablished \/ EstablishedCbReturns
                               \/ DataReceivedCbReturns \/ AllDataSentCbReturns \/ Rerun) => Inv'
  OBVIOUS
<1> USE DEF object, kernel
<1>1. ASSUME HandleEvents PROVE Inv'
  <2>1. FlagsOK'
    BY <1>1, Zenon DEF HandleEvents, Inv, FlagsOK
  <2>2. EventsOK'
    <3>1. /\ "in" \in Ready => inq > 0 \/ link \in {"fin", "reset", "refused"}
          /\ "out" \in Ready => link \in {"up", "fin", "reset", "refused"}
          /\ "hup" \in Ready <=> link \in {"reset", "refused"} \/ HungUp
          /\ "err" \in Ready <=> error # "none"
      BY DEF Ready
    <3>2. fd /\ evs' = Ready /\ pc' = "est" /\ link' = link /\ family' = family
      BY <1>1 DEF HandleEvents
    <3> QED
      BY <3>1, <3>2 DEF Inv, NamesOK, LinkOK, EventsOK, HungUp
  <2>3. NamesOK'
    BY <1>1 DEF HandleEvents, Ready, Inv, NamesOK
  <2> QED
    BY <1>1, <2>1, <2>2, <2>3 DEF HandleEvents, Inv, CountsOK, LinkOK, EarlyCloseOK, ListenOK, NormalCloseIsComplete
<1>2. ASSUME CheckConnectionEstablished PROVE Inv'
  <2>1. FlagsOK'
    BY <1>2, Zenon DEF CheckConnectionEstablished, Inv, FlagsOK
  <2> QED
    BY <1>2, <2>1 DEF CheckConnectionEstablished, Inv, NamesOK, CountsOK, LinkOK, EventsOK, EarlyCloseOK, ListenOK, NormalCloseIsComplete, HungUp
<1>3. ASSUME EstablishedCbReturns PROVE Inv'
  <2>1. FlagsOK'
    BY <1>3, Zenon DEF EstablishedCbReturns, Inv, FlagsOK
  <2> QED
    BY <1>3, <2>1 DEF EstablishedCbReturns, Inv, NamesOK, CountsOK, LinkOK, EventsOK, EarlyCloseOK, ListenOK, NormalCloseIsComplete, HungUp
<1>4. ASSUME DataReceivedCbReturns PROVE Inv'
  <2>1. FlagsOK'
    BY <1>4, Zenon DEF DataReceivedCbReturns, Inv, FlagsOK
  <2> QED
    BY <1>4, <2>1 DEF DataReceivedCbReturns, Inv, NamesOK, CountsOK, LinkOK, EventsOK, EarlyCloseOK, ListenOK, NormalCloseIsComplete, HungUp
<1>5. ASSUME AllDataSentCbReturns PROVE Inv'
  <2>1. FlagsOK'
    BY <1>5, Zenon DEF AllDataSentCbReturns, Inv, FlagsOK
  <2> QED
    BY <1>5, <2>1 DEF AllDataSentCbReturns, Inv, NamesOK, CountsOK, LinkOK, EventsOK, EarlyCloseOK, ListenOK, NormalCloseIsComplete, HungUp
<1>6. ASSUME Rerun PROVE Inv'
  <2>1. FlagsOK'
    BY <1>6, Zenon DEF Rerun, Inv, FlagsOK
  <2> QED
    BY <1>6, <2>1 DEF Rerun, Inv, NamesOK, CountsOK, LinkOK, EventsOK, EarlyCloseOK, ListenOK, NormalCloseIsComplete, HungUp
<1> QED
  BY <1>1, <1>2, <1>3, <1>4, <1>5, <1>6

\* checkIncomingData: an empty queue of a connection that is not up and has no
\* error is the end of the stream.
LEMMA IncomingStep == Inv /\ CheckIncomingData => Inv'
<1> SUFFICES ASSUME Inv, CheckIncomingData PROVE Inv'
  OBVIOUS
<1>p. pc = "in" /\ evs' = evs
  BY DEF CheckIncomingData
<1>1. CASE "in" \notin evs \/ ~fd
  <2>1. UNCHANGED <<object, kernel>> /\ pc' = IF "in" \in evs THEN "thrown" ELSE "out"
    BY <1>1 DEF CheckIncomingData
  <2>2. FlagsOK'
    BY <2>1, Zenon DEF object, Inv, FlagsOK
  <2> QED
    BY <1>p, <1>1, <2>1, <2>2 DEF object, kernel, Inv, NamesOK, CountsOK, LinkOK, EventsOK, EarlyCloseOK, ListenOK, NormalCloseIsComplete, HungUp
<1>2. CASE "in" \in evs /\ fd /\ inq > 0
  <2>1. /\ inq' = inq - Smaller(inq, BufSize) /\ input' = input + Smaller(inq, BufSize)
        /\ pc' = "inCb"
        /\ UNCHANGED <<fd, connecting, sending, listen, output, closedWith,
                      family, link, error, peerSent, outq, peerGot>>
    <3>1. inq # 0
      BY <1>2
    <3> QED
      BY <1>2, <3>1 DEF CheckIncomingData
  <2>2. FlagsOK'
    BY <2>1, Zenon DEF Inv, FlagsOK
  <2>3. Smaller(inq, BufSize) \in Nat /\ Smaller(inq, BufSize) <= inq
    BY SizesAssumption DEF Inv, CountsOK, Smaller
  <2>4. CountsOK'
    <3> DEFINE n == Smaller(inq, BufSize)
    <3>1. n \in Nat /\ n <= inq /\ inq' = inq - n /\ input' = input + n
      BY <2>1, <2>3
    <3> HIDE DEF n
    <3> QED
      BY <2>1, <3>1, SizesAssumption DEF Inv, CountsOK
  <2> QED
    BY <1>p, <1>2, <2>1, <2>2, <2>4 DEF Inv, NamesOK, LinkOK, EventsOK, EarlyCloseOK, ListenOK, NormalCloseIsComplete, HungUp
<1>3. CASE "in" \in evs /\ fd /\ inq = 0 /\ (error # "none" \/ link # "up")
  <2> DEFINE e == IF error # "none" THEN error ELSE "ok"
  <2>1. /\ pc' = "out" /\ Closing(e) /\ error' = "none"
        /\ UNCHANGED <<family, link, inq, peerSent, outq, peerGot>>
    BY <1>3 DEF CheckIncomingData, kernel, Inv, CountsOK
  <2>2. e \in {"ok", "reset", "refused"} /\ (e = "ok" => link = "fin")
    BY <1>3 DEF Inv, NamesOK, LinkOK, EventsOK
  <2> HIDE DEF e
  <2>3. /\ FlagsOK' /\ CountsOK' /\ LinkOK' /\ ListenOK' /\ NormalCloseIsComplete'
        /\ listen' = {} /\ closedWith' = e /\ connecting' = connecting /\ fd' = FALSE
    BY <1>3, <2>1, <2>2, ClosingStep
  <2> QED
    BY <1>p, <2>1, <2>2, <2>3 DEF Inv, NamesOK, EventsOK, EarlyCloseOK, HungUp
<1>4. CASE "in" \in evs /\ fd /\ inq = 0 /\ error = "none" /\ link = "up"
  <2>1. pc' = "out" /\ UNCHANGED <<object, kernel>>
    BY <1>4 DEF CheckIncomingData, Inv, CountsOK
  <2>2. FlagsOK'
    BY <2>1, Zenon DEF object, Inv, FlagsOK
  <2> QED
    BY <1>p, <1>4, <2>1, <2>2 DEF object, kernel, Inv, NamesOK, CountsOK, LinkOK, EventsOK, EarlyCloseOK, ListenOK, NormalCloseIsComplete, HungUp
<1> QED
  BY <1>1, <1>2, <1>3, <1>4 DEF Inv, CountsOK

\* checkOutgoingData: a socket that still connects here has an error, or a peer
\* that is gone, and does not send.
LEMMA OutgoingStep == Inv /\ CheckOutgoingData => Inv'
<1> SUFFICES ASSUME Inv, CheckOutgoingData PROVE Inv'
  OBVIOUS
<1>p. pc = "out" /\ evs' = evs
  BY DEF CheckOutgoingData
<1>1. CASE fd /\ "out" \in evs
  <2>1. TrySend /\ pc' \in {"outCb", "hup"}
    BY <1>1 DEF CheckOutgoingData
  <2>2. ~connecting \/ error # "none" \/ HungUp
    BY <1>p, <1>1 DEF Inv, NamesOK, LinkOK, EventsOK, EarlyCloseOK
  <2>3. /\ FlagsOK' /\ CountsOK' /\ LinkOK' /\ NormalCloseIsComplete'
        /\ family' = family /\ link' = link /\ error' \in {"none", error}
        /\ connecting' = connecting /\ listen' \subseteq {"in", "out"}
        /\ \/ /\ fd' = FALSE /\ closedWith' \in {"reset", "refused", "pipe"}
              /\ closedWith' = "refused" => link = "refused"
           \/ /\ fd' = TRUE /\ closedWith' = "open" /\ ~connecting
              /\ "in" \in listen'
              /\ sending' => "out" \in listen' /\ output' > 0
              /\ "out" \in listen' => output' > 0
    BY <1>1, <2>1, <2>2, TrySendStep
  <2> QED
    BY <1>p, <2>1, <2>3 DEF Inv, NamesOK, EventsOK, EarlyCloseOK, ListenOK, HungUp
<1>2. CASE ~(fd /\ "out" \in evs)
  <2>1. pc' = "hup" /\ UNCHANGED <<object, kernel>>
    BY <1>2 DEF CheckOutgoingData
  <2>2. FlagsOK'
    BY <2>1, Zenon DEF object, Inv, FlagsOK
  <2> QED
    BY <1>p, <2>1, <2>2 DEF object, kernel, Inv, NamesOK, CountsOK, LinkOK, EventsOK, EarlyCloseOK, ListenOK, NormalCloseIsComplete, HungUp
<1> QED
  BY <1>1, <1>2

\* checkConnectionClosed: an EPOLLHUP without an error is a peer that has closed.
LEMMA ClosedStep == Inv /\ CheckConnectionClosed => Inv'
<1> SUFFICES ASSUME Inv, CheckConnectionClosed PROVE Inv'
  OBVIOUS
<1>p. pc = "hup" /\ pc' = "idle" /\ evs' = {}
  BY DEF CheckConnectionClosed
<1>1. CASE fd /\ evs \cap {"hup", "err"} # {}
  <2> DEFINE e == IF "err" \in evs THEN error ELSE "ok"
  <2>1. "err" \in evs => error # "none" /\ error \in {"reset", "refused"}
    BY <1>1 DEF Inv, NamesOK, LinkOK, EventsOK
  <2>2. "err" \notin evs => HungUp /\ error = "none"
    BY <1>1 DEF Inv, LinkOK, EventsOK, HungUp
  <2>3. Closing(e) /\ error' = "none" /\ UNCHANGED <<family, link, inq, peerSent, outq, peerGot>>
    BY <1>1, <2>1, <2>2 DEF CheckConnectionClosed, kernel
  <2>4. e \in {"ok", "reset", "refused"} /\ (e = "ok" => link = "fin" /\ family = "unix")
    BY <2>1, <2>2 DEF HungUp
  <2> HIDE DEF e
  <2>5. /\ FlagsOK' /\ CountsOK' /\ LinkOK' /\ ListenOK' /\ NormalCloseIsComplete'
        /\ listen' = {} /\ closedWith' = e /\ connecting' = connecting /\ fd' = FALSE
    BY <1>1, <2>3, <2>4, ClosingStep
  <2> QED
    BY <1>p, <2>3, <2>4, <2>5 DEF Inv, NamesOK, EventsOK, EarlyCloseOK
<1>2. CASE ~(fd /\ evs \cap {"hup", "err"} # {})
  <2>1. UNCHANGED <<object, kernel>>
    BY <1>2 DEF CheckConnectionClosed
  <2>2. FlagsOK'
    BY <2>1, Zenon DEF object, Inv, FlagsOK
  <2> QED
    BY <1>p, <2>1, <2>2 DEF object, kernel, Inv, NamesOK, CountsOK, LinkOK, EventsOK, EarlyCloseOK, ListenOK, NormalCloseIsComplete, HungUp
<1> QED
  BY <1>1, <1>2

\* Every step keeps the inductive invariant.
LEMMA InvStep == Inv /\ [Next]_vars => Inv'
<1> SUFFICES ASSUME Inv, [Next]_vars PROVE Inv'
  OBVIOUS
<1>1. CASE UNCHANGED vars
  <2>1. FlagsOK'
    BY <1>1, Zenon DEF vars, object, Inv, FlagsOK
  <2> QED
    BY <1>1, <2>1 DEF vars, object, kernel, Inv, NamesOK, CountsOK, LinkOK, EventsOK, EarlyCloseOK, ListenOK, NormalCloseIsComplete, HungUp
<1> QED
  BY <1>1, EnvironmentStep, ApplicationStep, QuietStep, IncomingStep, OutgoingStep, ClosedStep DEF Next, LoopStep

\* The inductive invariant holds in every behaviour.
LEMMA Invariance == Spec => []Inv
BY InvInit, InvStep, PTL DEF Spec

\* StreamSocket keeps its types, and its three members that say whether there
\* is something to send (sending, the events listened to and the output buffer)
\* agree whenever the loop waits.
THEOREM SendStateAgreement == Spec => []SendStateAgrees
<1>1. ASSUME Inv PROVE SendStateAgrees
  <2>1. input \in 0 .. MaxIn /\ output \in 0 .. MaxOut /\ inq \in 0 .. MaxIn
        /\ peerSent \in 0 .. MaxIn /\ outq \in 0 .. SendBuf /\ peerGot \in 0 .. MaxOut
    BY <1>1, SizesAssumption DEF Inv, CountsOK
  <2>2. TypeOK
    BY <1>1, <2>1, Zenon DEF Inv, FlagsOK, NamesOK, TypeOK
  <2> QED
    BY <1>1, <2>2 DEF Inv, ListenOK, SendStateAgrees
<1> QED
  BY <1>1, Invariance, PTL

\* connectionClosedCb gets zero only when the peer terminated the connection
\* normally, with TCP only after all that it had sent (close, receive,
\* checkConnectionClosed).
THEOREM NormalCloseIsCompleteAlways == Spec => []NormalCloseIsComplete
<1>1. Inv => NormalCloseIsComplete
  BY DEF Inv
<1> QED
  BY <1>1, Invariance, PTL

\* InvalidFD leaves handleEventsCb only in the event that establishes the
\* connection, after a send in connectionEstablishedCb failed.
THEOREM EscapesOnlyAfterFailedSend == Spec => []EscapeOnlyAfterFailedSend
<1>1. Inv => EscapeOnlyAfterFailedSend
  BY DEF Inv, EarlyCloseOK, EscapeOnlyAfterFailedSend
<1> QED
  BY <1>1, Invariance, PTL
=============================================================================
