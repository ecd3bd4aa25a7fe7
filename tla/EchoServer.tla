----------------------------- MODULE EchoServer -----------------------------
(***************************************************************************)
(* The example server EchoServer1 (and EchoServer2) with EchoClients:      *)
(* ListeningSocket, accepted StreamSockets with their timers, the removal  *)
(* of accepted sockets by a callback that holds a plain reference, and the *)
(* loop that orders callbacks, timers and events.                          *)
(*                                                                         *)
(* StreamSocket is reduced to what module StreamSocket shows of it: data   *)
(* in order, output that is sent as the kernel takes it, one               *)
(* connectionClosedCb.  A byte is the number of its position in what the   *)
(* client has typed.  AcceptedSockets live at addresses that are reused;   *)
(* the callback of removeAcceptedSocket() is the address it compares with. *)
(* EpollRunner::run and the AsyncRunner::step loop of EchoServer2 order    *)
(* their phases alike: callbacks until none is left, then one late timer   *)
(* and callbacks again, and without a late timer a batch of events.        *)
(***************************************************************************)
EXTENDS Integers, Sequences, FiniteSets, SequencesExt

CONSTANTS Clients, NoClient,
          Addresses,  \* where AcceptedSockets are allocated
          FDLimits,   \* limits of open accepted descriptors to choose from
          MaxTyped,   \* MaxTyped[c]: bound of the bytes that c reads from its input
          Cap         \* bytes that the kernel buffers in each direction

ASSUME EchoAssumption ==
    /\ NoClient \notin Clients /\ FDLimits \subseteq Nat \ {0}
    /\ MaxTyped \in [Clients -> Nat] /\ Cap \in Nat \ {0}
    /\ Addresses \cap {"listen", "signal"} = {}

VARIABLES
    pc,        \* phase of the server's loop
    batch,     \* events of the batch that are not dispatched yet
    cbq,       \* CallbackQueue
    doContinue,\* of main()
    sigint,    \* SIGINT is pending in the signal fd
    conn,      \* conn[a]: the client of the AcceptedSocket at address a
    out,       \* out[a]: its ss.output
    timer,     \* timer[a]: its timeout
    asked,     \* addresses whose present object has called remove()
    backlog,   \* connections to accept
    server,    \* server[c]: the server's end of the connection of c
    client,    \* client[c]: the process
    typed,     \* typed[c]: bytes read from standard input
    cout,      \* cout[c]: ss.output of the client
    printed,   \* printed[c]: what is written to standard output
    up, down,  \* bytes in the kernel, to the server and to the client
    fdLimit

loop == <<pc, batch, doContinue, sigint>>
sockets == <<conn, out, timer, asked, cbq>>
clients == <<client, typed, cout, printed>>
wires == <<up, down>>
vars == <<loop, sockets, clients, wires, backlog, server, fdLimit>>

Listen == "listen"
Signal == "signal"

Init ==
    /\ pc = "callbacks" /\ batch = {} /\ cbq = <<>> /\ doContinue = TRUE /\ sigint = FALSE
    /\ conn = [a \in Addresses |-> NoClient] /\ out = [a \in Addresses |-> <<>>]
    /\ timer = [a \in Addresses |-> "none"] /\ asked = {}
    /\ backlog = <<>> /\ server = [c \in Clients |-> "none"]
    /\ client = [c \in Clients |-> "idle"] /\ typed = [c \in Clients |-> 0]
    /\ cout = [c \in Clients |-> <<>>] /\ printed = [c \in Clients |-> <<>>]
    /\ up = [c \in Clients |-> <<>>] /\ down = [c \in Clients |-> <<>>]
    /\ fdLimit \in FDLimits

-----------------------------------------------------------------------------
Living == {a \in Addresses : conn[a] # NoClient}
Open == {a \in Living : server[conn[a]] = "open"}
EndOf(c) == CHOOSE a \in Addresses : conn[a] = c

\* What sendmsg() takes of the output, and what is left of it.
Taken(output, wire) ==
    LET room == Cap - Len(wire) IN IF Len(output) < room THEN Len(output) ELSE room
Left(output, wire) == SubSeq(output, Taken(output, wire) + 1, Len(output))
Filled(output, wire) == wire \o SubSeq(output, 1, Taken(output, wire))

-----------------------------------------------------------------------------
(* The server's loop *)

\* Server::removeAcceptedSocket(): the destructors of AcceptedSocket's members
\* cancel the timer and close what is open.
Release(a) ==
    /\ conn' = [conn EXCEPT ![a] = NoClient] /\ out' = [out EXCEPT ![a] = <<>>]
    /\ timer' = [timer EXCEPT ![a] = "none"] /\ asked' = asked \ {a}
    /\ server' = [c \in Clients |-> IF c = conn[a] THEN "closed" ELSE server[c]]

RemoveAcceptedSocket(a) ==
    IF a \in Living THEN Release(a) ELSE UNCHANGED <<conn, out, timer, asked, server>>

\* CallbackQueue::execute(): one callback, which is removeAcceptedSocket() or the
\* signal handler of main().
ExecuteCallback ==
    /\ pc = "callbacks" /\ cbq # <<>> /\ cbq' = Tail(cbq)
    /\ IF Head(cbq) = Signal
       THEN doContinue' = FALSE /\ UNCHANGED <<conn, out, timer, asked, server>>
       ELSE RemoveAcceptedSocket(Head(cbq)) /\ UNCHANGED doContinue
    /\ UNCHANGED <<pc, batch, sigint, clients, wires, backlog, fdLimit>>

\* Mutant of ExecuteDone: the loop goes on after one callback.
ExecuteDoneEarly ==
    /\ pc = "callbacks" /\ doContinue
    /\ pc' = "wait"
    /\ UNCHANGED <<batch, doContinue, sigint, sockets, clients, wires, backlog, server, fdLimit>>

\* execute() returns when no callback is left.
ExecuteDone ==
    /\ pc = "callbacks" /\ cbq = <<>> /\ doContinue
    /\ pc' = "wait"
    /\ UNCHANGED <<batch, doContinue, sigint, sockets, clients, wires, backlog, server, fdLimit>>

\* canContinue() is false: run() returns, and main() destroys the server, that is
\* all accepted sockets and the listening one, whose queue is refused.
Return ==
    /\ pc = "callbacks" /\ cbq = <<>> /\ ~doContinue
    /\ pc' = "stopped" /\ backlog' = <<>>
    /\ conn' = [a \in Addresses |-> NoClient] /\ out' = [a \in Addresses |-> <<>>]
    /\ timer' = [a \in Addresses |-> "none"] /\ asked' = {}
    /\ server' = [c \in Clients |-> IF server[c] = "none" THEN "none" ELSE "closed"]
    /\ UNCHANGED <<batch, cbq, doContinue, sigint, clients, wires, fdLimit>>

\* AcceptedSocket::remove()
CallRemove(a) == cbq' = Append(cbq, a) /\ asked' = asked \cup {a}

\* Mutant of TimerFires: an idle connection is left alone.
TimerFiresOnly(a) ==
    /\ pc = "wait" /\ timer[a] = "late"
    /\ timer' = [timer EXCEPT ![a] = "none"]
    /\ pc' = "callbacks"
    /\ UNCHANGED <<batch, doContinue, sigint, cbq, asked, conn, out, clients, wires, backlog, server, fdLimit>>

\* executeFirstTimer(): the timeout of an AcceptedSocket
TimerFires(a) ==
    /\ pc = "wait" /\ timer[a] = "late"
    /\ timer' = [timer EXCEPT ![a] = "none"]
    /\ CallRemove(a)
    /\ pc' = "callbacks"
    /\ UNCHANGED <<batch, doContinue, sigint, conn, out, clients, wires, backlog, server, fdLimit>>

\* Time passes.
Expire(a) ==
    /\ timer[a] = "scheduled"
    /\ timer' = [timer EXCEPT ![a] = "late"]
    /\ UNCHANGED <<loop, conn, out, asked, cbq, clients, wires, backlog, server, fdLimit>>

\* Events that epoll_wait() returns; EVENT_OUT is listened to while there is output.
Ready(a) ==
    LET c == conn[a] IN
    \/ up[c] # <<>> \/ client[c] = "exited"
    \/ out[a] # <<>> /\ Len(down[c]) < Cap
ReadyNow ==
    {a \in Open : Ready(a)}
        \cup (IF backlog # <<>> THEN {Listen} ELSE {}) \cup (IF sigint THEN {Signal} ELSE {})

Wait ==
    /\ pc = "wait" /\ \A a \in Addresses : timer[a] # "late"
    /\ ReadyNow # {} /\ batch' = ReadyNow
    /\ pc' = "dispatch"
    /\ UNCHANGED <<doContinue, sigint, sockets, clients, wires, backlog, server, fdLimit>>

DispatchDone ==
    /\ pc = "dispatch" /\ batch = {}
    /\ pc' = "callbacks"
    /\ UNCHANGED <<batch, doContinue, sigint, sockets, clients, wires, backlog, server, fdLimit>>

\* SignalFD::handleEventsCb
SignalEvent ==
    /\ pc = "dispatch" /\ Signal \in batch
    /\ batch' = batch \ {Signal} /\ sigint' = FALSE /\ cbq' = Append(cbq, Signal)
    /\ UNCHANGED <<pc, doContinue, conn, out, timer, asked, clients, wires, backlog, server, fdLimit>>

-----------------------------------------------------------------------------
(* ListeningSocket *)

\* handleEventsCb: one accept() after the other until one returns false
ListenEvent ==
    /\ pc = "dispatch" /\ Listen \in batch
    /\ batch' = batch \ {Listen} /\ pc' = "accept"
    /\ UNCHANGED <<doContinue, sigint, sockets, clients, wires, backlog, server, fdLimit>>

\* AcceptedSocket::AcceptedSocket
NewAcceptedSocket(a, c) ==
    /\ conn' = [conn EXCEPT ![a] = c]
    /\ timer' = [timer EXCEPT ![a] = "scheduled"]
    /\ server' = [server EXCEPT ![c] = "open"]

\* accept() gives a descriptor and newAcceptedSocketCb() makes an AcceptedSocket of it.
Accept ==
    /\ pc = "accept" /\ backlog # <<>> /\ Cardinality(Open) < fdLimit
    /\ \E a \in Addresses \ Living : NewAcceptedSocket(a, Head(backlog))
    /\ backlog' = Tail(backlog)
    /\ UNCHANGED <<pc, batch, doContinue, sigint, out, asked, cbq, clients, wires, fdLimit>>

\* newAcceptedSocketCb() throws: FileDescriptor closes the connection, and
\* handleExceptionCb() is told.
AcceptedSocketFails ==
    /\ pc = "accept" /\ backlog # <<>> /\ Cardinality(Open) < fdLimit
    /\ backlog' = Tail(backlog)
    /\ server' = [server EXCEPT ![Head(backlog)] = "closed"]
    /\ pc' = "dispatch"
    /\ UNCHANGED <<batch, doContinue, sigint, sockets, clients, wires, fdLimit>>

\* accept() returns EAGAIN, or throws EMFILE, which goes to handleExceptionCb().
AcceptReturns ==
    /\ pc = "accept" /\ (backlog = <<>> \/ Cardinality(Open) >= fdLimit)
    /\ pc' = "dispatch"
    /\ UNCHANGED <<batch, doContinue, sigint, sockets, clients, wires, backlog, server, fdLimit>>

-----------------------------------------------------------------------------
(* AcceptedSocket *)

\* connectionClosedCb(): ss has closed its descriptor.
ConnectionClosed(a) ==
    /\ server' = [server EXCEPT ![conn[a]] = "closed"]
    /\ CallRemove(a)

\* Mutant of Echoed: new data overtakes the output that waits.
EchoedFirst(a, data) == data \o out[a]

\* The output after appendStreamBuffer()
Echoed(a, data) == out[a] \o data

\* EVENT_IN: some of the data is read and dataReceivedCb() called, in which
\* startSending() sends at once unless output waits already, or fails.
DataReceived(a) ==
    /\ pc = "dispatch" /\ a \in batch /\ up[conn[a]] # <<>> /\ batch' = batch \ {a}
    /\ \E k \in 1 .. Len(up[conn[a]]) :
          LET c == conn[a]
              output == Echoed(a, SubSeq(up[c], 1, k))
          IN  /\ up' = [up EXCEPT ![c] = SubSeq(@, k + 1, Len(@))]
              /\ timer' = [timer EXCEPT ![a] = "scheduled"]
              /\ CASE out[a] # <<>> ->
                        out' = [out EXCEPT ![a] = output] /\ UNCHANGED <<down, cbq, asked, server>>
                   [] out[a] = <<>> /\ client[c] = "running" ->
                        /\ out' = [out EXCEPT ![a] = Left(output, down[c])]
                        /\ down' = [down EXCEPT ![c] = Filled(output, down[c])]
                        /\ UNCHANGED <<cbq, asked, server>>
                   [] out[a] = <<>> /\ client[c] = "exited" ->
                        out' = [out EXCEPT ![a] = output] /\ ConnectionClosed(a) /\ UNCHANGED down
    /\ UNCHANGED <<pc, doContinue, sigint, conn, clients, backlog, fdLimit>>

\* EVENT_OUT
SendMore(a) ==
    /\ pc = "dispatch" /\ a \in batch /\ out[a] # <<>> /\ batch' = batch \ {a}
    /\ client[conn[a]] = "running"
    /\ LET c == conn[a] IN
          /\ out' = [out EXCEPT ![a] = Left(out[a], down[c])]
          /\ down' = [down EXCEPT ![c] = Filled(out[a], down[c])]
    /\ UNCHANGED <<pc, doContinue, sigint, conn, timer, asked, cbq, clients, up, backlog, server, fdLimit>>

\* End of input, or an error with data that is not read any more.
PeerClosed(a) ==
    /\ pc = "dispatch" /\ a \in batch /\ client[conn[a]] = "exited" /\ batch' = batch \ {a}
    /\ ConnectionClosed(a)
    /\ UNCHANGED <<pc, doContinue, sigint, conn, out, timer, clients, wires, backlog, fdLimit>>

-----------------------------------------------------------------------------
(* The clients, and Ctrl+C for the server *)

Connect(c) ==
    /\ client[c] = "idle" /\ pc # "stopped"
    /\ client' = [client EXCEPT ![c] = "running"]
    /\ backlog' = Append(backlog, c) /\ server' = [server EXCEPT ![c] = "backlog"]
    /\ UNCHANGED <<loop, sockets, typed, cout, printed, wires, fdLimit>>

\* Input::handleEventsCb, and startSending()
Type(c) ==
    /\ client[c] = "running" /\ typed[c] < MaxTyped[c] /\ server[c] # "closed"
    /\ typed' = [typed EXCEPT ![c] = @ + 1]
    /\ LET output == Append(cout[c], typed[c] + 1) IN
          IF cout[c] # <<>>
          THEN cout' = [cout EXCEPT ![c] = output] /\ UNCHANGED up
          ELSE /\ cout' = [cout EXCEPT ![c] = Left(output, up[c])]
               /\ up' = [up EXCEPT ![c] = Filled(output, up[c])]
    /\ UNCHANGED <<loop, sockets, client, printed, down, backlog, server, fdLimit>>

\* EVENT_OUT of the client
ClientSends(c) ==
    /\ client[c] = "running" /\ cout[c] # <<>> /\ Len(up[c]) < Cap /\ server[c] # "closed"
    /\ cout' = [cout EXCEPT ![c] = Left(cout[c], up[c])]
    /\ up' = [up EXCEPT ![c] = Filled(cout[c], up[c])]
    /\ UNCHANGED <<loop, sockets, client, typed, printed, down, backlog, server, fdLimit>>

\* The dataReceivedCb of main() writes to standard output.
ClientPrints(c) ==
    /\ client[c] = "running" /\ down[c] # <<>>
    /\ printed' = [printed EXCEPT ![c] = @ \o down[c]]
    /\ down' = [down EXCEPT ![c] = <<>>]
    /\ UNCHANGED <<loop, sockets, client, typed, cout, up, backlog, server, fdLimit>>

\* End of the client's input, or of its terminal
EndOfInput(c) ==
    /\ client[c] = "running"
    /\ client' = [client EXCEPT ![c] = "exited"]
    /\ UNCHANGED <<loop, sockets, typed, cout, printed, wires, backlog, server, fdLimit>>

\* The connectionClosedCb of main()
ClientNoticesClose(c) ==
    /\ client[c] = "running" /\ server[c] = "closed" /\ down[c] = <<>>
    /\ client' = [client EXCEPT ![c] = "exited"]
    /\ UNCHANGED <<loop, sockets, typed, cout, printed, wires, backlog, server, fdLimit>>

Interrupt ==
    /\ ~sigint /\ doContinue /\ pc # "stopped" /\ Signal \notin Range(cbq)
    /\ sigint' = TRUE
    /\ UNCHANGED <<pc, batch, doContinue, sockets, clients, wires, backlog, server, fdLimit>>

-----------------------------------------------------------------------------
LoopStep ==
    \/ ExecuteCallback \/ ExecuteDone \/ Return \/ Wait \/ DispatchDone \/ SignalEvent
    \/ ListenEvent \/ Accept \/ AcceptedSocketFails \/ AcceptReturns
    \/ \E a \in Addresses : TimerFires(a) \/ DataReceived(a) \/ SendMore(a) \/ PeerClosed(a)

ClientStep(c) == ClientSends(c) \/ ClientPrints(c) \/ ClientNoticesClose(c)

Next ==
    \/ LoopStep \/ Interrupt
    \/ \E a \in Addresses : Expire(a)
    \/ \E c \in Clients : ClientStep(c) \/ Connect(c) \/ Type(c) \/ EndOfInput(c)

Spec == Init /\ [][Next]_vars

\* The server's loop goes on, clients handle their events, and time passes.  No
\* user has to type, to connect or to leave.
FairSpec ==
    /\ Spec /\ WF_vars(LoopStep)
    /\ \A c \in Clients : WF_vars(ClientStep(c))
    /\ \A a \in Addresses : WF_vars(Expire(a))

-----------------------------------------------------------------------------
(* Properties *)

\* Type correctness: in particular only living objects have timers and output,
\* and no address is given to two.
TypeOK ==
    /\ pc \in {"callbacks", "wait", "dispatch", "accept", "stopped"}
    /\ batch \subseteq Addresses \cup {Listen, Signal}
    /\ Range(cbq) \subseteq Addresses \cup {Signal}
    /\ doContinue \in BOOLEAN /\ sigint \in BOOLEAN
    /\ conn \in [Addresses -> Clients \cup {NoClient}]
    /\ \A a \in Addresses \ Living : out[a] = <<>> /\ timer[a] = "none"
    /\ timer \in [Addresses -> {"none", "scheduled", "late"}]
    /\ asked \subseteq Living /\ Cardinality(Open) <= fdLimit
    /\ Range(backlog) = {c \in Clients : server[c] = "backlog"}
    /\ server \in [Clients -> {"none", "backlog", "open", "closed"}]
    /\ client \in [Clients -> {"idle", "running", "exited"}]
    /\ \A c \in Clients : Len(up[c]) <= Cap /\ Len(down[c]) <= Cap /\ typed[c] <= MaxTyped[c]

\* Every byte that was typed is in one place on its way, in order, and what is
\* printed is the beginning of what was typed (AcceptedSocket::dataReceivedCb,
\* "All data received is echoed back to peer").  When the server has closed its
\* end, only what is in the kernel still arrives.  All have their types.
InOrder ==
    /\ TypeOK
    /\ \A c \in Clients :
         LET all == [i \in 1 .. typed[c] |-> i]
             behind == printed[c] \o down[c]
         IN  IF client[c] = "running" /\ server[c] = "open"
             THEN behind \o out[EndOf(c)] \o up[c] \o cout[c] = all
             ELSE IsPrefix(behind, all)

\* A callback that waits in the queue to remove an AcceptedSocket holds the
\* address of an object that still exists, that asked for it itself, and that
\* asked once: the unchecked reference of AcceptedSocket::remove() never removes a
\* connection that was accepted later at the same address.
RemovalsAreFresh ==
    /\ {cbq[i] : i \in DOMAIN cbq} \ {Signal} = asked
    /\ \A i, j \in DOMAIN cbq : cbq[i] = cbq[j] /\ cbq[i] # Signal => i = j

\* A connection that waits to be accepted is accepted or closed in the end, even
\* when accept() fails for lack of descriptors: ListeningSocket stays registered
\* and silent connections time out.
Served ==
    \A c \in Clients : server[c] = "backlog" ~> server[c] # "backlog"

\* After a client has gone, nothing is left of it in the server.
CleanedUp ==
    \A c \in Clients : client[c] = "exited" ~> \A a \in Addresses : conn[a] # c

\* The server attends to every connection, from the backlog to its removal, with
\* as few descriptors as it may have.
ServedAndCleaned == Served /\ CleanedUp
=============================================================================
