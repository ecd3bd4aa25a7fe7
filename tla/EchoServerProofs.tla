-------------------------- MODULE EchoServerProofs --------------------------
(***************************************************************************)
(* EchoServer: InOrder and RemovalsAreFresh, for any number of clients,    *)
(* addresses and bytes, any size of the kernel's buffers and any limit of  *)
(* descriptors.                                                            *)
(*                                                                         *)
(* Bytes are the numbers of their positions, so that the contents of a     *)
(* buffer on the way are consecutive numbers: it Follows what is ahead of  *)
(* it.  InOrder says so of the connections that are open; the inductive    *)
(* invariant adds the ones that wait in the backlog, and that no object    *)
(* shares its connection with another.  RemovalsAreFresh needs the phases  *)
(* of the loop: timers and the batch begin with no callback in the queue,  *)
(* and an object in the batch has not asked for its removal.               *)
(***************************************************************************)
EXTENDS EchoServer, FiniteSetTheorems, TLAPS

Follows(s, n) == s \in Seq(Nat) /\ \A i \in 1 .. Len(s) : s[i] = n + i

\* What was typed, n bytes, is on its way through printed, down, out, up and cout.
Pipeline(p, d, o, u, k, n) ==
    /\ Follows(p, 0) /\ Follows(d, Len(p)) /\ Follows(o, Len(p) + Len(d))
    /\ Follows(u, Len(p) + Len(d) + Len(o))
    /\ Follows(k, Len(p) + Len(d) + Len(o) + Len(u))
    /\ n = Len(p) + Len(d) + Len(o) + Len(u) + Len(k)

\* What has left the server
Shown(p, d, n) == Follows(p, 0) /\ Follows(d, Len(p)) /\ Len(p) + Len(d) <= n

-----------------------------------------------------------------------------
(* The inductive invariant *)

Types ==
    /\ pc \in {"callbacks", "wait", "dispatch", "accept", "stopped"}
    /\ batch \subseteq Addresses \cup {Listen, Signal}
    /\ cbq \in Seq(Addresses \cup {Signal})
    /\ conn \in [Addresses -> Clients \cup {NoClient}]
    /\ out \in [Addresses -> Seq(Nat)]
    /\ timer \in [Addresses -> {"none", "scheduled", "late"}]
    /\ asked \subseteq Addresses
    /\ backlog \in Seq(Clients)
    /\ server \in [Clients -> {"none", "backlog", "open", "closed"}]
    /\ client \in [Clients -> {"idle", "running", "exited"}]
    /\ typed \in [Clients -> Nat] /\ \A c \in Clients : typed[c] <= MaxTyped[c]
    /\ fdLimit \in Nat

Wires ==
    /\ up \in [Clients -> Seq(Nat)] /\ down \in [Clients -> Seq(Nat)]
    /\ cout \in [Clients -> Seq(Nat)] /\ printed \in [Clients -> Seq(Nat)]
    /\ \A c \in Clients : Len(up[c]) <= Cap /\ Len(down[c]) <= Cap

Flags == doContinue \in BOOLEAN /\ sigint \in BOOLEAN

Objects ==
    /\ \A a \in Addresses : conn[a] = NoClient => out[a] = <<>> /\ timer[a] = "none" /\ a \notin asked
    /\ \A a, b \in Addresses : conn[a] = conn[b] /\ conn[a] # NoClient => a = b
    /\ \A a \in Addresses : conn[a] # NoClient => server[conn[a]] \in {"open", "closed"}
    /\ \A c \in Clients : server[c] = "open" => \E a \in Addresses : conn[a] = c
    /\ \A c \in Clients : server[c] = "none" <=> client[c] = "idle"

Phases ==
    /\ pc = "wait" => cbq = <<>>
    /\ pc \in {"callbacks", "wait", "stopped"} => batch = {}
    /\ pc = "stopped" => cbq = <<>>
    /\ \A a \in Addresses \cap batch :
         conn[a] # NoClient /\ server[conn[a]] = "open" /\ a \notin asked

Removals ==
    /\ \A i \in 1 .. Len(cbq) : cbq[i] = Signal \/ cbq[i] \in asked
    /\ \A a \in asked : \E i \in 1 .. Len(cbq) : cbq[i] = a
    /\ \A i, j \in 1 .. Len(cbq) : cbq[i] = cbq[j] /\ cbq[i] # Signal => i = j

Queue ==
    /\ \A i \in 1 .. Len(backlog) : server[backlog[i]] = "backlog"
    /\ \A c \in Clients : server[c] = "backlog" => \E i \in 1 .. Len(backlog) : backlog[i] = c
    /\ \A i, j \in 1 .. Len(backlog) : backlog[i] = backlog[j] => i = j

Descriptors == IsFiniteSet(Open) /\ Cardinality(Open) <= fdLimit

Flow ==
    /\ \A c \in Clients : Shown(printed[c], down[c], typed[c])
    /\ \A c \in Clients : server[c] \in {"none", "backlog"} =>
         printed[c] = <<>> /\ down[c] = <<>> /\ Pipeline(<<>>, <<>>, <<>>, up[c], cout[c], typed[c])
    /\ \A a \in Addresses : conn[a] # NoClient /\ server[conn[a]] = "open" =>
         Pipeline(printed[conn[a]], down[conn[a]], out[a], up[conn[a]], cout[conn[a]], typed[conn[a]])

EsInv == Types /\ Wires /\ Flags /\ Objects /\ Phases /\ Removals /\ Queue /\ Descriptors /\ Flow

-----------------------------------------------------------------------------
(* Sequences of consecutive numbers *)

\* Nothing follows everything.
LEMMA FollowsEmpty == ASSUME NEW n \in Nat PROVE Follows(<<>>, n)
BY DEF Follows

\* The two parts into which a buffer is split when something is taken of it
LEMMA FollowsSplit ==
    ASSUME NEW s, NEW n \in Nat, Follows(s, n), NEW k \in 0 .. Len(s)
    PROVE  /\ Follows(SubSeq(s, 1, k), n) /\ Len(SubSeq(s, 1, k)) = k
           /\ Follows(SubSeq(s, k + 1, Len(s)), n + k)
           /\ Len(SubSeq(s, k + 1, Len(s))) = Len(s) - k
<1> s \in Seq(Nat)
  BY DEF Follows
<1>1. SubSeq(s, 1, k) \in Seq(Nat) /\ Len(SubSeq(s, 1, k)) = k
  OBVIOUS
<1>2. SubSeq(s, k + 1, Len(s)) \in Seq(Nat) /\ Len(SubSeq(s, k + 1, Len(s))) = Len(s) - k
  OBVIOUS
<1>3. ASSUME NEW i \in 1 .. k PROVE SubSeq(s, 1, k)[i] = n + i
  BY DEF Follows
<1>4. ASSUME NEW i \in 1 .. Len(s) - k PROVE SubSeq(s, k + 1, Len(s))[i] = n + k + i
  <2>1. SubSeq(s, k + 1, Len(s))[i] = s[k + i]
    OBVIOUS
  <2> QED
    BY <2>1 DEF Follows
<1> QED
  BY <1>1, <1>2, <1>3, <1>4 DEF Follows

\* A buffer behind which its continuation is put
LEMMA FollowsConcat ==
    ASSUME NEW s, NEW t, NEW n \in Nat, Follows(s, n), Follows(t, n + Len(s))
    PROVE  Follows(s \o t, n) /\ Len(s \o t) = Len(s) + Len(t)
<1> s \in Seq(Nat) /\ t \in Seq(Nat)
  BY DEF Follows
<1>1. s \o t \in Seq(Nat) /\ Len(s \o t) = Len(s) + Len(t)
  OBVIOUS
<1>2. ASSUME NEW i \in 1 .. Len(s) + Len(t) PROVE (s \o t)[i] = n + i
  <2>1. CASE i <= Len(s)
    BY <2>1 DEF Follows
  <2>2. CASE i > Len(s)
    <3>1. (s \o t)[i] = t[i - Len(s)] /\ i - Len(s) \in 1 .. Len(t)
      BY <2>2
    <3> QED
      BY <3>1 DEF Follows
  <2> QED
    BY <2>1, <2>2
<1> QED
  BY <1>1, <1>2 DEF Follows

\* The next byte is put behind a buffer.
LEMMA FollowsAppend ==
    ASSUME NEW s, NEW n \in Nat, Follows(s, n)
    PROVE  Follows(Append(s, n + Len(s) + 1), n) /\ Len(Append(s, n + Len(s) + 1)) = Len(s) + 1
<1> s \in Seq(Nat)
  BY DEF Follows
<1>1. Append(s, n + Len(s) + 1) \in Seq(Nat) /\ Len(Append(s, n + Len(s) + 1)) = Len(s) + 1
  OBVIOUS
<1>2. ASSUME NEW i \in 1 .. Len(s) + 1 PROVE Append(s, n + Len(s) + 1)[i] = n + i
  BY DEF Follows
<1> QED
  BY <1>1, <1>2 DEF Follows

\* sendmsg() moves the beginning of the output to the end of the wire, and not
\* more than there is room for.
LEMMA SendMoves ==
    ASSUME NEW output, NEW wire, NEW n \in Nat, Follows(wire, n), Follows(output, n + Len(wire)),
           Len(wire) <= Cap
    PROVE  /\ Follows(Filled(output, wire), n)
           /\ Follows(Left(output, wire), n + Len(Filled(output, wire)))
           /\ Len(Filled(output, wire)) <= Cap
           /\ Len(Filled(output, wire)) + Len(Left(output, wire)) = Len(wire) + Len(output)
<1> DEFINE k == Taken(output, wire)
<1> output \in Seq(Nat) /\ wire \in Seq(Nat)
  BY DEF Follows
<1>1. Len(output) \in Nat /\ Len(wire) \in Nat /\ Cap \in Nat
  BY EchoAssumption
<1>2. k \in 0 .. Len(output) /\ Len(wire) + k <= Cap
  BY <1>1 DEF Taken
<1>3. n + Len(wire) \in Nat
  BY <1>1
<1> HIDE DEF k
<1>4. /\ Follows(SubSeq(output, 1, k), n + Len(wire)) /\ Len(SubSeq(output, 1, k)) = k
      /\ Follows(SubSeq(output, k + 1, Len(output)), n + Len(wire) + k)
      /\ Len(SubSeq(output, k + 1, Len(output))) = Len(output) - k
  BY <1>2, <1>3, FollowsSplit
<1>5. /\ Follows(wire \o SubSeq(output, 1, k), n)
      /\ Len(wire \o SubSeq(output, 1, k)) = Len(wire) + Len(SubSeq(output, 1, k))
  BY <1>4, FollowsConcat
<1>6. Filled(output, wire) = wire \o SubSeq(output, 1, k) /\ Left(output, wire) = SubSeq(output, k + 1, Len(output))
  BY DEF Filled, Left, k
<1>7. Len(Filled(output, wire)) = Len(wire) + k /\ Len(Left(output, wire)) = Len(output) - k
  BY <1>4, <1>5, <1>6
<1>8. n + Len(wire) + k = n + Len(Filled(output, wire))
  BY <1>1, <1>2, <1>7
<1>9. Follows(Filled(output, wire), n) /\ Follows(Left(output, wire), n + Len(Filled(output, wire)))
  BY <1>4, <1>5, <1>6, <1>8
<1> QED
  BY <1>1, <1>2, <1>7, <1>9

-----------------------------------------------------------------------------
(* The ways of bytes *)

\* The lengths of what is on the way are numbers.
LEMMA PipelineTypes ==
    ASSUME NEW p, NEW d, NEW o, NEW u, NEW k, NEW n, Pipeline(p, d, o, u, k, n)
    PROVE  /\ p \in Seq(Nat) /\ d \in Seq(Nat) /\ o \in Seq(Nat) /\ u \in Seq(Nat) /\ k \in Seq(Nat)
           /\ Len(p) \in Nat /\ Len(d) \in Nat /\ Len(o) \in Nat /\ Len(u) \in Nat /\ Len(k) \in Nat
<1>1. p \in Seq(Nat) /\ d \in Seq(Nat) /\ o \in Seq(Nat) /\ u \in Seq(Nat) /\ k \in Seq(Nat)
  BY DEF Pipeline, Follows
<1> QED
  BY <1>1

\* The server reads x bytes of what has arrived and puts them behind its output.
LEMMA PipelineReads ==
    ASSUME NEW p, NEW d, NEW o, NEW u, NEW k, NEW n, Pipeline(p, d, o, u, k, n), NEW x \in 1 .. Len(u)
    PROVE  /\ Pipeline(p, d, o \o SubSeq(u, 1, x), SubSeq(u, x + 1, Len(u)), k, n)
           /\ Len(SubSeq(u, x + 1, Len(u))) <= Len(u)
<1>1. Len(p) \in Nat /\ Len(d) \in Nat /\ Len(o) \in Nat /\ Len(u) \in Nat /\ Len(k) \in Nat
  BY PipelineTypes
<1> DEFINE m == Len(p) + Len(d)
           y == SubSeq(u, 1, x)
           z == SubSeq(u, x + 1, Len(u))
<1>2. m \in Nat /\ m + Len(o) \in Nat /\ x \in 0 .. Len(u)
  BY <1>1
<1>3. Follows(y, m + Len(o)) /\ Len(y) = x /\ Follows(z, m + Len(o) + x) /\ Len(z) = Len(u) - x
  BY <1>2, FollowsSplit DEF Pipeline
<1> HIDE DEF y, z
<1>4. Follows(o \o y, m) /\ Len(o \o y) = Len(o) + Len(y)
  BY <1>2, <1>3, FollowsConcat DEF Pipeline
<1>5. m + Len(o \o y) = m + Len(o) + x /\ m + Len(o \o y) + Len(z) = m + Len(o) + Len(u)
  BY <1>1, <1>2, <1>3, <1>4
<1>6. m + Len(o \o y) + Len(z) + Len(k) = n
  BY <1>5 DEF Pipeline
<1>7. Pipeline(p, d, o \o y, z, k, n)
  BY <1>3, <1>4, <1>5, <1>6 DEF Pipeline
<1> QED
  BY <1>1, <1>3, <1>7 DEF y, z

\* The server sends.
LEMMA PipelineSends ==
    ASSUME NEW p, NEW d, NEW o, NEW u, NEW k, NEW n, Pipeline(p, d, o, u, k, n), Len(d) <= Cap
    PROVE  Pipeline(p, Filled(o, d), Left(o, d), u, k, n) /\ Len(Filled(o, d)) <= Cap
<1>1. Len(p) \in Nat /\ Len(d) \in Nat /\ Len(o) \in Nat /\ Len(u) \in Nat /\ Len(k) \in Nat
  BY PipelineTypes
<1>2. /\ Follows(Filled(o, d), Len(p)) /\ Follows(Left(o, d), Len(p) + Len(Filled(o, d)))
      /\ Len(Filled(o, d)) <= Cap /\ Len(Filled(o, d)) + Len(Left(o, d)) = Len(d) + Len(o)
  BY <1>1, SendMoves DEF Pipeline
<1>3. Len(Filled(o, d)) \in Nat /\ Len(Left(o, d)) \in Nat
  BY <1>2 DEF Follows
<1>4. Len(p) + Len(Filled(o, d)) + Len(Left(o, d)) = Len(p) + Len(d) + Len(o)
  BY <1>1, <1>2, <1>3
<1> QED
  BY <1>2, <1>4 DEF Pipeline

\* A client sends.
LEMMA PipelineClientSends ==
    ASSUME NEW p, NEW d, NEW o, NEW u, NEW k, NEW n, Pipeline(p, d, o, u, k, n), Len(u) <= Cap
    PROVE  Pipeline(p, d, o, Filled(k, u), Left(k, u), n) /\ Len(Filled(k, u)) <= Cap
<1>1. Len(p) \in Nat /\ Len(d) \in Nat /\ Len(o) \in Nat /\ Len(u) \in Nat /\ Len(k) \in Nat
  BY PipelineTypes
<1> DEFINE m == Len(p) + Len(d) + Len(o)
<1>2. m \in Nat
  BY <1>1
<1>3. /\ Follows(Filled(k, u), m) /\ Follows(Left(k, u), m + Len(Filled(k, u)))
      /\ Len(Filled(k, u)) <= Cap /\ Len(Filled(k, u)) + Len(Left(k, u)) = Len(u) + Len(k)
  BY <1>2, SendMoves DEF Pipeline
<1>4. Len(Filled(k, u)) \in Nat /\ Len(Left(k, u)) \in Nat
  BY <1>3 DEF Follows
<1>5. m + Len(Filled(k, u)) + Len(Left(k, u)) = m + Len(u) + Len(k)
  BY <1>1, <1>3, <1>4
<1> QED
  BY <1>3, <1>5 DEF Pipeline

\* A client types the next byte.
LEMMA PipelineTypesOn ==
    ASSUME NEW p, NEW d, NEW o, NEW u, NEW k, NEW n \in Nat, Pipeline(p, d, o, u, k, n)
    PROVE  Pipeline(p, d, o, u, Append(k, n + 1), n + 1)
<1>1. Len(p) \in Nat /\ Len(d) \in Nat /\ Len(o) \in Nat /\ Len(u) \in Nat /\ Len(k) \in Nat
  BY PipelineTypes
<1> DEFINE m == Len(p) + Len(d) + Len(o) + Len(u)
<1>2. m \in Nat /\ n = m + Len(k)
  BY <1>1 DEF Pipeline
<1>3. Follows(Append(k, m + Len(k) + 1), m) /\ Len(Append(k, m + Len(k) + 1)) = Len(k) + 1
  BY <1>2, FollowsAppend DEF Pipeline
<1>4. m + Len(Append(k, n + 1)) = n + 1
  BY <1>1, <1>2, <1>3
<1> QED
  BY <1>2, <1>3, <1>4 DEF Pipeline

\* A client prints what has arrived.
LEMMA PipelinePrints ==
    ASSUME NEW p, NEW d, NEW o, NEW u, NEW k, NEW n, Pipeline(p, d, o, u, k, n)
    PROVE  Pipeline(p \o d, <<>>, o, u, k, n)
<1>1. Len(p) \in Nat /\ Len(d) \in Nat /\ Len(o) \in Nat /\ Len(u) \in Nat /\ Len(k) \in Nat
  BY PipelineTypes
<1>2. Follows(p \o d, 0) /\ Len(p \o d) = Len(p) + Len(d)
  BY FollowsConcat DEF Pipeline
<1>3. Follows(<<>>, Len(p \o d)) /\ Len(p \o d) + Len(<<>>) = Len(p) + Len(d)
  BY <1>1, <1>2, FollowsEmpty
<1> QED
  BY <1>2, <1>3 DEF Pipeline

\* What was shown stays, whatever is printed of it.
LEMMA ShownPrints ==
    ASSUME NEW p, NEW d, NEW n, Shown(p, d, n) PROVE Shown(p \o d, <<>>, n)
<1>1. p \in Seq(Nat) /\ d \in Seq(Nat) /\ Len(p) \in Nat /\ Len(d) \in Nat
  BY DEF Shown, Follows
<1>2. Follows(p \o d, 0) /\ Len(p \o d) = Len(p) + Len(d)
  BY <1>1, FollowsConcat DEF Shown
<1>3. Follows(<<>>, Len(p \o d)) /\ Len(p \o d) + Len(<<>>) = Len(p) + Len(d)
  BY <1>1, <1>2, FollowsEmpty
<1> QED
  BY <1>2, <1>3 DEF Shown

\* More is typed than is shown.
LEMMA ShownMore ==
    ASSUME NEW p, NEW d, NEW n \in Nat, Shown(p, d, n) PROVE Shown(p, d, n + 1)
<1>1. Len(p) \in Nat /\ Len(d) \in Nat
  BY DEF Shown, Follows
<1>2. Len(p) + Len(d) <= n + 1
  BY <1>1 DEF Shown
<1> QED
  BY <1>2 DEF Shown

\* What is on its way through the server is shown as far as it has left it.
LEMMA PipelineShown ==
    ASSUME NEW p, NEW d, NEW o, NEW u, NEW k, NEW n, Pipeline(p, d, o, u, k, n)
    PROVE  Shown(p, d, n)
<1>1. Len(p) \in Nat /\ Len(d) \in Nat /\ Len(o) \in Nat /\ Len(u) \in Nat /\ Len(k) \in Nat
  BY PipelineTypes
<1> QED
  BY <1>1 DEF Pipeline, Shown

-----------------------------------------------------------------------------
(* The initial states, and steps that move no byte *)

LEMMA EsInvInit == Init => EsInv
<1> SUFFICES ASSUME Init PROVE EsInv
  OBVIOUS
<1>1. Types
  BY EchoAssumption DEF Init, Types
<1>2. Wires
  BY EchoAssumption DEF Init, Wires
<1>3. Flags
  BY Zenon DEF Init, Flags
<1>4. Objects /\ Phases /\ Removals /\ Queue
  BY EchoAssumption DEF Init, Objects, Phases, Removals, Queue
<1>5. Open = {}
  BY EchoAssumption DEF Init, Open, Living
<1>6. Descriptors
  BY <1>1, <1>5, FS_EmptySet DEF Descriptors, Types
<1>7. Follows(<<>>, 0)
  BY FollowsEmpty
<1>8. Pipeline(<<>>, <<>>, <<>>, <<>>, <<>>, 0) /\ Shown(<<>>, <<>>, 0)
  BY <1>7 DEF Pipeline, Shown
<1>9. Flow
  BY <1>8, EchoAssumption DEF Init, Flow
<1> QED
  BY <1>1, <1>2, <1>3, <1>4, <1>6, <1>9 DEF EsInv

\* What a step leaves alone when it neither moves bytes nor opens or closes anything
LEMMA Untouched ==
    ASSUME EsInv, UNCHANGED <<conn, out, timer, asked, clients, wires, backlog, server, fdLimit>>
    PROVE  Wires' /\ Objects' /\ Queue' /\ Descriptors' /\ Flow'
<1> USE DEF EsInv, clients, wires
<1>1. Wires' /\ Objects' /\ Queue'
  BY DEF Wires, Objects, Queue
<1>2. Open' = Open
  BY DEF Open, Living
<1>3. Descriptors'
  BY <1>2 DEF Descriptors
<1>4. Flow'
  BY DEF Flow
<1> QED
  BY <1>1, <1>3, <1>4

\* Steps of the loop that change its phase only
LEMMA PhaseStep ==
    ASSUME EsInv, ExecuteDone \/ Wait \/ DispatchDone \/ ListenEvent \/ AcceptReturns
    PROVE  EsInv'
<1> USE DEF EsInv, clients, wires, sockets
<1>1. /\ UNCHANGED <<conn, out, timer, asked, clients, wires, backlog, server, fdLimit>>
      /\ UNCHANGED <<doContinue, sigint, cbq>>
  BY DEF ExecuteDone, Wait, DispatchDone, ListenEvent, AcceptReturns
<1>2. Wires' /\ Objects' /\ Queue' /\ Descriptors' /\ Flow'
  BY <1>1, Untouched
<1>3. Flags' /\ Removals'
  BY <1>1, Zenon DEF Flags, Removals
<1>4. CASE ExecuteDone
  <2>1. Types' /\ Phases'
    BY <1>1, <1>4 DEF ExecuteDone, Types, Phases
  <2> QED
    BY <1>2, <1>3, <2>1
<1>5. CASE Wait
  <2>1. asked = {}
    BY <1>5 DEF Wait, Removals, Phases
  <2>2. ReadyNow \subseteq Open \cup {Listen, Signal} /\ Addresses \cap {Listen, Signal} = {}
    BY EchoAssumption DEF ReadyNow, Listen, Signal
  <2>3. Types' /\ Phases'
    BY <1>1, <1>5, <2>1, <2>2 DEF Wait, Types, Phases, Open, Living
  <2> QED
    BY <1>2, <1>3, <2>3
<1>6. CASE DispatchDone \/ ListenEvent \/ AcceptReturns
  <2>1. Types' /\ Phases'
    BY <1>1, <1>6 DEF DispatchDone, ListenEvent, AcceptReturns, Types, Phases
  <2> QED
    BY <1>2, <1>3, <2>1
<1> QED
  BY <1>4, <1>5, <1>6

\* A callback is put behind the others, which asks for the removal of a, or is the
\* signal handler.
LEMMA RemovalAdded ==
    ASSUME Types, Removals, NEW a \in Addresses, a \notin asked, CallRemove(a)
    PROVE  Removals' /\ cbq' \in Seq(Addresses \cup {Signal}) /\ asked' \subseteq Addresses
<1>1. cbq \in Seq(Addresses \cup {Signal}) /\ cbq' = Append(cbq, a) /\ asked' = asked \cup {a}
  BY DEF Types, CallRemove
<1>2. a # Signal
  BY EchoAssumption DEF Signal
<1>3. Len(cbq') = Len(cbq) + 1 /\ cbq'[Len(cbq) + 1] = a /\ \A i \in 1 .. Len(cbq) : cbq'[i] = cbq[i]
  BY <1>1
<1>4. \A i \in 1 .. Len(cbq) : cbq[i] # a
  BY <1>2 DEF Removals
<1>5. Len(cbq) \in Nat
  BY <1>1
<1>6. \A i \in 1 .. Len(cbq') : i \in 1 .. Len(cbq) \/ i = Len(cbq) + 1
  BY <1>3, <1>5
<1>7. \A i \in 1 .. Len(cbq) : i \in 1 .. Len(cbq')
  BY <1>3, <1>5
<1>8. Len(cbq) + 1 \in 1 .. Len(cbq')
  BY <1>3, <1>5
<1>9. Removals'
  BY <1>1, <1>3, <1>4, <1>6, <1>7, <1>8 DEF Removals
<1> QED
  BY <1>1, <1>9 DEF Types

LEMMA SignalStep == ASSUME EsInv, SignalEvent PROVE EsInv'
<1> USE DEF EsInv, clients, wires
<1>1. /\ UNCHANGED <<conn, out, timer, asked, clients, wires, backlog, server, fdLimit>>
      /\ UNCHANGED <<doContinue, pc>> /\ sigint' = FALSE /\ batch' = batch \ {Signal}
      /\ cbq' = Append(cbq, Signal) /\ pc = "dispatch"
  BY DEF SignalEvent
<1>2. Wires' /\ Objects' /\ Queue' /\ Descriptors' /\ Flow'
  BY <1>1, Untouched
<1>3. Flags'
  BY <1>1, Zenon DEF Flags
<1>4. Types' /\ Phases'
  BY <1>1 DEF Types, Phases
<1>5. cbq \in Seq(Addresses \cup {Signal})
  BY DEF Types
<1>6. Len(cbq') = Len(cbq) + 1 /\ cbq'[Len(cbq) + 1] = Signal /\ \A i \in 1 .. Len(cbq) : cbq'[i] = cbq[i]
  BY <1>1, <1>5
<1>7. Len(cbq) \in Nat
  BY <1>5
<1>8. /\ \A i \in 1 .. Len(cbq') : i \in 1 .. Len(cbq) \/ i = Len(cbq) + 1
      /\ \A i \in 1 .. Len(cbq) : i \in 1 .. Len(cbq')
  BY <1>6, <1>7
<1>9. Removals'
  BY <1>1, <1>6, <1>8 DEF Removals
<1> QED
  BY <1>2, <1>3, <1>4, <1>9

LEMMA InterruptStep == ASSUME EsInv, Interrupt PROVE EsInv'
<1> USE DEF EsInv, clients, wires, sockets
<1>1. /\ UNCHANGED <<conn, out, timer, asked, clients, wires, backlog, server, fdLimit>>
      /\ UNCHANGED <<doContinue, pc, batch, cbq>> /\ sigint' = TRUE
  BY DEF Interrupt
<1>2. Wires' /\ Objects' /\ Queue' /\ Descriptors' /\ Flow'
  BY <1>1, Untouched
<1>3. Flags'
  BY <1>1, Zenon DEF Flags
<1>4. Types' /\ Phases' /\ Removals'
  BY <1>1 DEF Types, Phases, Removals
<1> QED
  BY <1>2, <1>3, <1>4

-----------------------------------------------------------------------------
(* Callbacks and timers *)

\* The first callback is taken from the queue.
LEMMA HeadTaken ==
    ASSUME Types, Removals, cbq # <<>>, cbq' = Tail(cbq), asked' = asked \ {Head(cbq)}
    PROVE  Removals' /\ cbq' \in Seq(Addresses \cup {Signal}) /\ (Head(cbq) = Signal \/ Head(cbq) \in asked)
<1>1. cbq \in Seq(Addresses \cup {Signal})
  BY DEF Types
<1>2. cbq' \in Seq(Addresses \cup {Signal}) /\ Len(cbq) \in Nat /\ Len(cbq) > 0 /\ Head(cbq) = cbq[1]
  BY <1>1
<1>3. Len(cbq') = Len(cbq) - 1 /\ \A i \in 1 .. Len(cbq') : cbq'[i] = cbq[i + 1]
  BY <1>1, <1>2
<1>4. \A i \in 1 .. Len(cbq') : i + 1 \in 1 .. Len(cbq) /\ i + 1 # 1
  BY <1>2, <1>3
<1>5. 1 \in 1 .. Len(cbq)
  BY <1>2
<1>6. ASSUME NEW i \in 1 .. Len(cbq') PROVE cbq'[i] = Signal \/ cbq'[i] \in asked'
  <2>1. cbq'[i] = cbq[i + 1] /\ i + 1 \in 1 .. Len(cbq) /\ i + 1 # 1
    BY <1>3, <1>4
  <2>2. cbq[i + 1] # Signal => cbq[i + 1] # cbq[1]
    BY <1>5, <2>1 DEF Removals
  <2> QED
    BY <1>2, <2>1, <2>2 DEF Removals
<1>7. ASSUME NEW a \in asked' PROVE \E i \in 1 .. Len(cbq') : cbq'[i] = a
  <2>1. PICK j \in 1 .. Len(cbq) : cbq[j] = a
    BY DEF Removals
  <2>2. j # 1
    BY <1>2, <2>1
  <2>3. j - 1 \in 1 .. Len(cbq') /\ j - 1 + 1 = j
    BY <1>2, <1>3, <2>2
  <2> QED
    BY <1>3, <2>1, <2>3
<1>8. ASSUME NEW i \in 1 .. Len(cbq'), NEW j \in 1 .. Len(cbq'), cbq'[i] = cbq'[j], cbq'[i] # Signal
      PROVE  i = j
  <2>1. cbq[i + 1] = cbq[j + 1] /\ cbq[i + 1] # Signal /\ i + 1 \in 1 .. Len(cbq) /\ j + 1 \in 1 .. Len(cbq)
    BY <1>3, <1>4, <1>8
  <2>2. i + 1 = j + 1
    BY <2>1 DEF Removals
  <2> QED
    BY <2>2
<1>9. Removals'
  BY <1>6, <1>7, <1>8 DEF Removals
<1> QED
  BY <1>2, <1>5, <1>9 DEF Removals

\* Server::removeAcceptedSocket() of a living object
LEMMA ReleaseStep ==
    ASSUME EsInv, NEW a \in Addresses, conn[a] # NoClient, Release(a), batch = {},
           UNCHANGED <<clients, wires, backlog, fdLimit>>
    PROVE  Wires' /\ Objects' /\ Queue' /\ Descriptors' /\ Flow'
<1> USE DEF EsInv, clients, wires
<1>1. /\ conn' = [conn EXCEPT ![a] = NoClient] /\ out' = [out EXCEPT ![a] = <<>>]
      /\ timer' = [timer EXCEPT ![a] = "none"] /\ asked' = asked \ {a}
      /\ server' = [c \in Clients |-> IF c = conn[a] THEN "closed" ELSE server[c]]
  BY DEF Release
<1>2. conn[a] \in Clients /\ server[conn[a]] \in {"open", "closed"}
  BY DEF Types, Objects
<1>3. Wires'
  BY DEF Wires
<1>4. Objects'
  <2>1. \A b \in Addresses : conn'[b] = NoClient => out'[b] = <<>> /\ timer'[b] = "none" /\ b \notin asked'
    BY <1>1 DEF Types, Objects
  <2>2. \A b, d \in Addresses : conn'[b] = conn'[d] /\ conn'[b] # NoClient => b = d
    BY <1>1 DEF Types, Objects
  <2>3. \A b \in Addresses : conn'[b] # NoClient => server'[conn'[b]] \in {"open", "closed"}
    BY <1>1 DEF Types, Objects
  <2>4. \A c \in Clients : server'[c] = "open" => \E b \in Addresses : conn'[b] = c
    BY <1>1 DEF Types, Objects
  <2>5. \A c \in Clients : server'[c] = "none" <=> client'[c] = "idle"
    BY <1>1, <1>2 DEF Types, Objects
  <2> QED
    BY <2>1, <2>2, <2>3, <2>4, <2>5 DEF Objects
<1>5. Queue'
  BY <1>1, <1>2 DEF Queue, Types
<1>6. Open' \subseteq Open
  BY <1>1, <1>2 DEF Open, Living, Types, Objects
<1>7. Descriptors'
  <2>1. IsFiniteSet(Open') /\ Cardinality(Open') <= Cardinality(Open)
    BY <1>6, FS_Subset DEF Descriptors
  <2>2. Cardinality(Open') \in Nat /\ Cardinality(Open) \in Nat
    BY <2>1, FS_CardinalityType DEF Descriptors
  <2> QED
    BY <2>1, <2>2 DEF Descriptors, Types
<1>8. Flow'
  <2>1. \A c \in Clients : server'[c] \in {"none", "backlog"} => server[c] = server'[c]
    BY <1>1
  <2>2. \A b \in Addresses : conn'[b] # NoClient /\ server'[conn'[b]] = "open" =>
           conn[b] = conn'[b] /\ server[conn[b]] = "open" /\ out'[b] = out[b]
    BY <1>1 DEF Types
  <2> QED
    BY <2>1, <2>2 DEF Flow
<1> QED
  BY <1>3, <1>4, <1>5, <1>7, <1>8

LEMMA ExecuteStep == ASSUME EsInv, ExecuteCallback PROVE EsInv'
<1> USE DEF EsInv
<1> DEFINE a == Head(cbq)
<1>1. /\ pc = "callbacks" /\ cbq # <<>> /\ cbq' = Tail(cbq) /\ batch = {}
      /\ UNCHANGED <<pc, batch, sigint, clients, wires, backlog, fdLimit>>
  BY DEF ExecuteCallback, Phases
<1>2. CASE a = Signal
  <2>1. doContinue' = FALSE /\ UNCHANGED <<conn, out, timer, asked, server>>
    BY <1>2 DEF ExecuteCallback
  <2>2. asked' = asked \ {Head(cbq)}
    BY <1>2, <2>1, EchoAssumption DEF Types, Signal
  <2>3. Removals' /\ cbq' \in Seq(Addresses \cup {Signal})
    BY <1>1, <2>2, HeadTaken
  <2>4. Wires' /\ Objects' /\ Queue' /\ Descriptors' /\ Flow'
    BY <1>1, <2>1, Untouched
  <2>5. Flags'
    BY <1>1, <2>1, Zenon DEF Flags
  <2>6. Types' /\ Phases'
    BY <1>1, <2>1, <2>3 DEF Types, Phases, clients
  <2> QED
    BY <2>3, <2>4, <2>5, <2>6
<1>3. CASE a # Signal
  <2>1. RemoveAcceptedSocket(a) /\ UNCHANGED doContinue
    BY <1>3, Zenon DEF ExecuteCallback
  <2>2. a \in asked
    <3>1. cbq \in Seq(Addresses \cup {Signal}) /\ 1 \in 1 .. Len(cbq) /\ Head(cbq) = cbq[1]
      BY <1>1 DEF Types
    <3> QED
      BY <1>3, <3>1 DEF Removals
  <2>3. a \in Addresses /\ conn[a] # NoClient
    BY <2>2 DEF Types, Objects
  <2>4. Release(a)
    BY <2>1, <2>3 DEF RemoveAcceptedSocket, Living
  <2>5. Wires' /\ Objects' /\ Queue' /\ Descriptors' /\ Flow'
    BY <1>1, <2>3, <2>4, ReleaseStep
  <2>6. Removals' /\ cbq' \in Seq(Addresses \cup {Signal})
    BY <1>1, <2>4, HeadTaken DEF Release
  <2>7. Flags'
    BY <1>1, <2>1, Zenon DEF Flags
  <2>8. Types'
    BY <1>1, <2>3, <2>4, <2>6 DEF Types, clients, Release
  <2>9. Phases'
    BY <1>1 DEF Phases
  <2> QED
    BY <2>5, <2>6, <2>7, <2>8, <2>9
<1> QED
  BY <1>2, <1>3

LEMMA ReturnStep == ASSUME EsInv, Return PROVE EsInv'
<1> USE DEF EsInv
<1>1. /\ pc = "callbacks" /\ cbq = <<>> /\ pc' = "stopped" /\ backlog' = <<>>
      /\ conn' = [a \in Addresses |-> NoClient] /\ out' = [a \in Addresses |-> <<>>]
      /\ timer' = [a \in Addresses |-> "none"] /\ asked' = {}
      /\ server' = [c \in Clients |-> IF server[c] = "none" THEN "none" ELSE "closed"]
      /\ UNCHANGED <<batch, cbq, doContinue, sigint, clients, wires, fdLimit>>
  BY DEF Return
<1>2. Types'
  BY <1>1 DEF Types, clients
<1>3. Wires'
  BY <1>1 DEF Wires, clients, wires
<1>4. Flags'
  BY <1>1, Zenon DEF Flags
<1>5. Objects'
  BY <1>1, EchoAssumption DEF Objects, Types, clients
<1>6. Phases' /\ Removals' /\ Queue'
  BY <1>1 DEF Phases, Removals, Queue
<1>7. Descriptors'
  <2>1. Open' = {}
    BY <1>1 DEF Open, Living
  <2> QED
    BY <1>1, <2>1, FS_EmptySet DEF Descriptors, Types
<1>8. Flow'
  BY <1>1 DEF Flow, clients, wires
<1> QED
  BY <1>2, <1>3, <1>4, <1>5, <1>6, <1>7, <1>8

\* A timer becomes late or fires.
LEMMA TimerStep ==
    ASSUME EsInv, NEW a \in Addresses, TimerFires(a) \/ Expire(a) PROVE EsInv'
<1> USE DEF EsInv
<1>1. /\ UNCHANGED <<batch, doContinue, sigint, conn, out, clients, wires, backlog, server, fdLimit>>
      /\ timer[a] # "none"
      /\ timer' = [timer EXCEPT ![a] = "late"] \/ timer' = [timer EXCEPT ![a] = "none"]
  BY DEF TimerFires, Expire, loop
<1>2. conn[a] # NoClient
  BY <1>1 DEF Objects
<1>3. Wires' /\ Queue'
  BY <1>1 DEF Wires, Queue, clients, wires
<1>4. Flags'
  BY <1>1, Zenon DEF Flags
<1>5. Open' = Open
  BY <1>1 DEF Open, Living
<1>6. Descriptors' /\ Flow'
  BY <1>1, <1>5 DEF Descriptors, Flow, clients, wires
<1>7. CASE TimerFires(a)
  <2>1. pc = "wait" /\ pc' = "callbacks" /\ CallRemove(a) /\ cbq = <<>> /\ batch = {}
    BY <1>7 DEF TimerFires, Phases
  <2>2. a \notin asked
    BY <2>1 DEF Removals
  <2>3. Removals' /\ cbq' \in Seq(Addresses \cup {Signal}) /\ asked' \subseteq Addresses
    BY <2>1, <2>2, RemovalAdded
  <2>4. Types' /\ Phases'
    BY <1>1, <2>1, <2>3 DEF Types, Phases, clients
  <2>5. asked' = asked \cup {a}
    BY <2>1 DEF CallRemove
  <2>6. \A b \in Addresses : conn'[b] = NoClient => out'[b] = <<>> /\ timer'[b] = "none" /\ b \notin asked'
    BY <1>1, <1>2, <2>5 DEF Objects, Types
  <2>7. Objects'
    BY <1>1, <2>6 DEF Objects, clients
  <2> QED
    BY <1>3, <1>4, <1>6, <2>3, <2>4, <2>7
<1>8. CASE Expire(a)
  <2>1. UNCHANGED <<pc, asked, cbq>>
    BY <1>8 DEF Expire, loop
  <2>2. Types'
    BY <1>1, <2>1 DEF Types, clients
  <2>3. Phases' /\ Removals'
    BY <1>1, <2>1 DEF Phases, Removals
  <2>4. \A b \in Addresses : conn'[b] = NoClient => out'[b] = <<>> /\ timer'[b] = "none" /\ b \notin asked'
    BY <1>1, <1>2, <2>1 DEF Objects, Types
  <2>5. Objects'
    BY <1>1, <2>4 DEF Objects, clients
  <2> QED
    BY <1>3, <1>4, <1>6, <2>2, <2>3, <2>5
<1> QED
  BY <1>7, <1>8

-----------------------------------------------------------------------------
(* Connections *)

\* The first connection of the backlog is taken from it.
LEMMA BacklogTaken ==
    ASSUME EsInv, backlog # <<>>, backlog' = Tail(backlog), NEW s \in {"open", "closed"},
           server' = [server EXCEPT ![Head(backlog)] = s]
    PROVE  /\ Queue' /\ backlog' \in Seq(Clients) /\ Head(backlog) \in Clients
           /\ server[Head(backlog)] = "backlog" /\ \A a \in Addresses : conn[a] # Head(backlog)
           /\ client[Head(backlog)] # "idle"
<1> USE DEF EsInv
<1> DEFINE c == Head(backlog)
<1>1. backlog \in Seq(Clients)
  BY DEF Types
<1>2. backlog' \in Seq(Clients) /\ Len(backlog) \in Nat /\ Len(backlog) > 0 /\ c = backlog[1]
  BY <1>1
<1>3. Len(backlog') = Len(backlog) - 1 /\ \A i \in 1 .. Len(backlog') : backlog'[i] = backlog[i + 1]
  BY <1>1, <1>2
<1>4. \A i \in 1 .. Len(backlog') : i + 1 \in 1 .. Len(backlog) /\ i + 1 # 1
  BY <1>2, <1>3
<1>5. 1 \in 1 .. Len(backlog) /\ c \in Clients
  BY <1>1, <1>2
<1>6. server[c] = "backlog"
  BY <1>2, <1>5 DEF Queue
<1>7. \A d \in Clients : server'[d] = IF d = c THEN s ELSE server[d]
  BY <1>5 DEF Types
<1>8. ASSUME NEW i \in 1 .. Len(backlog') PROVE server'[backlog'[i]] = "backlog"
  <2>1. backlog'[i] = backlog[i + 1] /\ i + 1 \in 1 .. Len(backlog) /\ i + 1 # 1
    BY <1>3, <1>4
  <2>2. backlog[i + 1] # c
    BY <1>2, <1>5, <2>1 DEF Queue
  <2> QED
    BY <1>1, <1>7, <2>1, <2>2 DEF Queue
<1>9. ASSUME NEW d \in Clients, server'[d] = "backlog" PROVE \E i \in 1 .. Len(backlog') : backlog'[i] = d
  <2>1. d # c /\ server[d] = "backlog"
    BY <1>7, <1>9
  <2>2. PICK j \in 1 .. Len(backlog) : backlog[j] = d
    BY <2>1 DEF Queue
  <2>3. j # 1
    BY <1>2, <2>1, <2>2
  <2>4. j - 1 \in 1 .. Len(backlog') /\ j - 1 + 1 = j
    BY <1>2, <1>3, <2>3
  <2> QED
    BY <1>3, <2>2, <2>4
<1>10. ASSUME NEW i \in 1 .. Len(backlog'), NEW j \in 1 .. Len(backlog'), backlog'[i] = backlog'[j]
       PROVE  i = j
  <2>1. backlog[i + 1] = backlog[j + 1] /\ i + 1 \in 1 .. Len(backlog) /\ j + 1 \in 1 .. Len(backlog)
    BY <1>3, <1>4, <1>10
  <2>2. i + 1 = j + 1
    BY <2>1 DEF Queue
  <2> QED
    BY <2>2
<1>11. Queue'
  BY <1>8, <1>9, <1>10 DEF Queue
<1>12. (\A a \in Addresses : conn[a] # c) /\ client[c] # "idle"
  <2>1. client[c] # "idle"
    BY <1>5, <1>6 DEF Objects
  <2>2. ASSUME NEW a \in Addresses, conn[a] = c PROVE FALSE
    <3>1. conn[a] # NoClient
      BY <1>5, <2>2, EchoAssumption
    <3> QED
      BY <1>6, <2>2, <3>1 DEF Objects
  <2> QED
    BY <2>1, <2>2
<1> QED
  BY <1>2, <1>5, <1>6, <1>11, <1>12

LEMMA AcceptStep == ASSUME EsInv, Accept PROVE EsInv'
<1> USE DEF EsInv
<1>1. PICK a \in Addresses \ Living : NewAcceptedSocket(a, Head(backlog))
  BY DEF Accept
<1> DEFINE c == Head(backlog)
<1>2. /\ pc = "accept" /\ backlog # <<>> /\ Cardinality(Open) < fdLimit /\ backlog' = Tail(backlog)
      /\ UNCHANGED <<pc, batch, doContinue, sigint, out, asked, cbq, clients, wires, fdLimit>>
  BY DEF Accept
<1>3. /\ conn' = [conn EXCEPT ![a] = c] /\ timer' = [timer EXCEPT ![a] = "scheduled"]
      /\ server' = [server EXCEPT ![c] = "open"]
  BY <1>1 DEF NewAcceptedSocket
<1>4. /\ Queue' /\ backlog' \in Seq(Clients) /\ c \in Clients /\ server[c] = "backlog"
      /\ client[c] # "idle" /\ \A b \in Addresses : conn[b] # c
  BY <1>2, <1>3, BacklogTaken
<1>5. a \in Addresses /\ conn[a] = NoClient /\ c # NoClient
  BY <1>1, <1>4, EchoAssumption DEF Living
<1>6. /\ \A b \in Addresses : conn'[b] = IF b = a THEN c ELSE conn[b]
      /\ \A d \in Clients : server'[d] = IF d = c THEN "open" ELSE server[d]
      /\ \A b \in Addresses : timer'[b] = IF b = a THEN "scheduled" ELSE timer[b]
  BY <1>3, <1>4, <1>5 DEF Types
<1>7. Types'
  BY <1>2, <1>3, <1>4, <1>5 DEF Types, clients
<1>8. Wires'
  BY <1>2 DEF Wires, clients, wires
<1>9. Flags'
  BY <1>2, Zenon DEF Flags
<1>10. Objects'
  <2>1. \A b \in Addresses : conn'[b] = NoClient => out'[b] = <<>> /\ timer'[b] = "none" /\ b \notin asked'
    BY <1>2, <1>5, <1>6 DEF Objects
  <2>2. \A b, d \in Addresses : conn'[b] = conn'[d] /\ conn'[b] # NoClient => b = d
    BY <1>4, <1>5, <1>6 DEF Objects
  <2>3. \A b \in Addresses : conn'[b] # NoClient => server'[conn'[b]] \in {"open", "closed"}
    <3> SUFFICES ASSUME NEW b \in Addresses, conn'[b] # NoClient PROVE server'[conn'[b]] \in {"open", "closed"}
      OBVIOUS
    <3>1. CASE b = a
      BY <1>4, <1>6, <3>1
    <3>2. CASE b # a
      <4>1. conn'[b] = conn[b] /\ conn[b] \in Clients /\ conn[b] # c
        BY <1>4, <1>6, <3>2 DEF Types
      <4> QED
        BY <1>6, <4>1 DEF Objects
    <3> QED
      BY <3>1, <3>2
  <2>4. ASSUME NEW d \in Clients, server'[d] = "open" PROVE \E b \in Addresses : conn'[b] = d
    <3>1. CASE d = c
      BY <1>5, <1>6, <3>1
    <3>2. CASE d # c
      <4>1. PICK b \in Addresses : conn[b] = d
        BY <1>6, <2>4, <3>2 DEF Objects
      <4>2. b # a
        BY <1>5, <4>1, EchoAssumption
      <4> QED
        BY <1>6, <4>1, <4>2
    <3> QED
      BY <3>1, <3>2
  <2>5. \A d \in Clients : server'[d] = "none" <=> client'[d] = "idle"
    BY <1>2, <1>4, <1>6 DEF Objects, clients
  <2> QED
    BY <2>1, <2>2, <2>3, <2>4, <2>5 DEF Objects
<1>11. Phases'
  <2>1. \A b \in Addresses \cap batch : b # a
    BY <1>5 DEF Phases
  <2>2. ASSUME NEW b \in Addresses \cap batch'
        PROVE  conn'[b] # NoClient /\ server'[conn'[b]] = "open" /\ b \notin asked'
    <3>1. b \in Addresses \cap batch /\ b # a
      BY <1>2, <2>1
    <3>2. conn[b] # NoClient /\ server[conn[b]] = "open" /\ b \notin asked
      BY <3>1 DEF Phases
    <3>3. conn'[b] = conn[b] /\ conn[b] \in Clients /\ conn[b] # c
      BY <1>4, <1>6, <3>1, <3>2 DEF Types
    <3> QED
      BY <1>2, <1>6, <3>2, <3>3
  <2> QED
    BY <1>2, <2>2 DEF Phases
<1>12. Removals'
  BY <1>2 DEF Removals
<1>13. Descriptors'
  <2>1. Open' = Open \cup {a} /\ a \notin Open
    BY <1>4, <1>5, <1>6 DEF Open, Living, Types
  <2>2. IsFiniteSet(Open') /\ Cardinality(Open') = Cardinality(Open) + 1
    BY <2>1, FS_AddElement DEF Descriptors
  <2>3. Cardinality(Open) \in Nat
    BY FS_CardinalityType DEF Descriptors
  <2> QED
    BY <1>2, <2>2, <2>3 DEF Descriptors, Types
<1>14. Flow'
  <2>1. out[a] = <<>>
    BY <1>5 DEF Objects
  <2>2. \A d \in Clients : Shown(printed'[d], down'[d], typed'[d])
    BY <1>2 DEF Flow, clients, wires
  <2>3. \A d \in Clients : server'[d] \in {"none", "backlog"} => d # c /\ server[d] = server'[d]
    BY <1>6
  <2>4. \A d \in Clients : server'[d] \in {"none", "backlog"} =>
          printed'[d] = <<>> /\ down'[d] = <<>> /\ Pipeline(<<>>, <<>>, <<>>, up'[d], cout'[d], typed'[d])
    BY <1>2, <2>3 DEF Flow, clients, wires
  <2>5. Pipeline(printed[c], down[c], out[a], up[c], cout[c], typed[c])
    BY <1>4, <2>1 DEF Flow
  <2>6. ASSUME NEW b \in Addresses, conn'[b] # NoClient, server'[conn'[b]] = "open"
        PROVE  Pipeline(printed'[conn'[b]], down'[conn'[b]], out'[b], up'[conn'[b]], cout'[conn'[b]],
                        typed'[conn'[b]])
    <3>1. CASE b = a
      BY <1>2, <1>6, <2>5, <3>1 DEF clients, wires
    <3>2. CASE b # a
      <4>1. conn'[b] = conn[b] /\ conn[b] # c /\ conn[b] \in Clients
        BY <1>4, <1>6, <2>6, <3>2 DEF Types
      <4>2. server[conn[b]] = "open"
        BY <1>6, <2>6, <4>1
      <4> QED
        BY <1>2, <2>6, <4>1, <4>2 DEF Flow, clients, wires
    <3> QED
      BY <3>1, <3>2
  <2> QED
    BY <2>2, <2>4, <2>6 DEF Flow
<1> QED
  BY <1>4, <1>7, <1>8, <1>9, <1>10, <1>11, <1>12, <1>13, <1>14

\* A connection is closed on the server's side that no object owns.
LEMMA AcceptFailsStep == ASSUME EsInv, AcceptedSocketFails PROVE EsInv'
<1> USE DEF EsInv
<1> DEFINE c == Head(backlog)
<1>1. /\ pc = "accept" /\ backlog # <<>> /\ backlog' = Tail(backlog) /\ pc' = "dispatch"
      /\ server' = [server EXCEPT ![c] = "closed"]
      /\ UNCHANGED <<batch, doContinue, sigint, sockets, clients, wires, fdLimit>>
  BY DEF AcceptedSocketFails
<1>2. /\ Queue' /\ backlog' \in Seq(Clients) /\ c \in Clients /\ server[c] = "backlog"
      /\ client[c] # "idle" /\ \A b \in Addresses : conn[b] # c
  BY <1>1, BacklogTaken
<1>3. \A d \in Clients : server'[d] = IF d = c THEN "closed" ELSE server[d]
  BY <1>1, <1>2 DEF Types
<1>4. Types'
  BY <1>1, <1>2 DEF Types, clients, sockets
<1>5. Wires'
  BY <1>1 DEF Wires, clients, wires
<1>6. Flags'
  BY <1>1, Zenon DEF Flags
<1>7. \A b \in Addresses : conn[b] # NoClient => server'[conn[b]] = server[conn[b]]
  BY <1>2, <1>3 DEF Types
<1>8. Objects'
  BY <1>1, <1>2, <1>3, <1>7 DEF Objects, clients, sockets
<1>9. Phases' /\ Removals'
  BY <1>1, <1>7 DEF Phases, Removals, sockets
<1>10. Open' = Open
  BY <1>1, <1>7 DEF Open, Living, sockets
<1>11. Descriptors'
  BY <1>1, <1>10 DEF Descriptors
<1>12. Flow'
  <2>1. \A d \in Clients : server'[d] \in {"none", "backlog"} => server[d] = server'[d]
    BY <1>3
  <2> QED
    BY <1>1, <1>7, <2>1 DEF Flow, clients, wires, sockets
<1> QED
  BY <1>2, <1>4, <1>5, <1>6, <1>8, <1>9, <1>11, <1>12

-----------------------------------------------------------------------------
(* Events of accepted sockets *)

\* The handler of a, whose connection is open, moves bytes of this connection.
LEMMA BytesMove ==
    ASSUME EsInv, NEW a \in Addresses, conn[a] # NoClient, server[conn[a]] = "open",
           UNCHANGED <<pc, conn, asked, cbq, clients, backlog, server, fdLimit>>,
           batch' = batch \ {a}, \A b \in Addresses \ {a} : out'[b] = out[b] /\ timer'[b] = timer[b],
           \A d \in Clients \ {conn[a]} : up'[d] = up[d] /\ down'[d] = down[d],
           Pipeline(printed[conn[a]], down'[conn[a]], out'[a], up'[conn[a]], cout[conn[a]], typed[conn[a]])
    PROVE  Objects' /\ Phases' /\ Removals' /\ Queue' /\ Descriptors' /\ Flow'
<1> USE DEF EsInv
<1> DEFINE c == conn[a]
<1>1. c \in Clients
  BY DEF Types
<1>2. Objects'
  BY DEF Objects, clients
<1>3. Phases'
  BY DEF Phases
<1>4. Removals' /\ Queue'
  BY DEF Removals, Queue
<1>5. Open' = Open
  BY DEF Open, Living
<1>6. Descriptors'
  BY <1>5 DEF Descriptors
<1>7. Flow'
  <2>1. Shown(printed[c], down'[c], typed[c])
    BY PipelineShown
  <2>2. \A d \in Clients : Shown(printed'[d], down'[d], typed'[d])
    BY <2>1 DEF Flow, clients
  <2>3. \A d \in Clients : server[d] \in {"none", "backlog"} => d # c
    OBVIOUS
  <2>4. \A d \in Clients : server'[d] \in {"none", "backlog"} =>
          printed'[d] = <<>> /\ down'[d] = <<>> /\ Pipeline(<<>>, <<>>, <<>>, up'[d], cout'[d], typed'[d])
    BY <2>3 DEF Flow, clients
  <2>5. ASSUME NEW b \in Addresses, conn'[b] # NoClient, server'[conn'[b]] = "open"
        PROVE  Pipeline(printed'[conn'[b]], down'[conn'[b]], out'[b], up'[conn'[b]], cout'[conn'[b]],
                        typed'[conn'[b]])
    <3>1. CASE b = a
      BY <3>1 DEF clients
    <3>2. CASE b # a
      <4>1. conn[b] # c /\ conn[b] \in Clients
        BY <2>5, <3>2 DEF Objects, Types
      <4> QED
        BY <2>5, <3>2, <4>1 DEF Flow, clients
    <3> QED
      BY <3>1, <3>2
  <2> QED
    BY <2>2, <2>4, <2>5 DEF Flow
<1> QED
  BY <1>2, <1>3, <1>4, <1>6, <1>7

\* The handler of a closes its connection and asks for the removal of a.
LEMMA ClosedMove ==
    ASSUME EsInv, NEW a \in Addresses, conn[a] # NoClient, server[conn[a]] = "open", a \notin asked,
           pc = "dispatch", ConnectionClosed(a), UNCHANGED <<pc, conn, clients, down, backlog, fdLimit>>,
           batch' = batch \ {a}, \A b \in Addresses \ {a} : out'[b] = out[b] /\ timer'[b] = timer[b],
           \A d \in Clients \ {conn[a]} : up'[d] = up[d]
    PROVE  /\ Objects' /\ Phases' /\ Removals' /\ Queue' /\ Descriptors' /\ Flow'
           /\ cbq' \in Seq(Addresses \cup {Signal}) /\ asked' \subseteq Addresses
           /\ server' \in [Clients -> {"none", "backlog", "open", "closed"}]
<1> USE DEF EsInv
<1> DEFINE c == conn[a]
<1>1. c \in Clients /\ c # NoClient
  BY DEF Types
<1>2. /\ server' = [server EXCEPT ![c] = "closed"] /\ CallRemove(a) /\ asked' = asked \cup {a}
  BY DEF ConnectionClosed, CallRemove
<1>3. Removals' /\ cbq' \in Seq(Addresses \cup {Signal}) /\ asked' \subseteq Addresses
  BY <1>2, RemovalAdded
<1>4. \A d \in Clients : server'[d] = IF d = c THEN "closed" ELSE server[d]
  BY <1>1, <1>2 DEF Types
<1>5. \A b \in Addresses \ {a} : conn[b] # c
  BY <1>1 DEF Objects
<1>6. Objects'
  <2>1. \A b \in Addresses : conn'[b] = NoClient => out'[b] = <<>> /\ timer'[b] = "none" /\ b \notin asked'
    BY <1>2 DEF Objects
  <2>2. \A b \in Addresses : conn'[b] # NoClient => server'[conn'[b]] \in {"open", "closed"}
    BY <1>4 DEF Objects, Types
  <2>3. \A d \in Clients : server'[d] = "open" => \E b \in Addresses : conn'[b] = d
    BY <1>4 DEF Objects
  <2>4. \A d \in Clients : server'[d] = "none" <=> client'[d] = "idle"
    BY <1>4 DEF Objects, clients
  <2>5. \A b, d \in Addresses : conn'[b] = conn'[d] /\ conn'[b] # NoClient => b = d
    BY DEF Objects
  <2> QED
    BY <2>1, <2>2, <2>3, <2>4, <2>5 DEF Objects
<1>7. Phases'
  <2>1. ASSUME NEW b \in Addresses \cap batch'
        PROVE  conn'[b] # NoClient /\ server'[conn'[b]] = "open" /\ b \notin asked'
    <3>1. b \in Addresses \cap batch /\ b # a
      OBVIOUS
    <3>2. conn[b] # NoClient /\ server[conn[b]] = "open" /\ b \notin asked
      BY <3>1 DEF Phases
    <3>3. conn[b] \in Clients /\ conn[b] # c
      BY <1>5, <3>1, <3>2 DEF Types
    <3> QED
      BY <1>2, <1>4, <3>1, <3>2, <3>3
  <2> QED
    BY <2>1 DEF Phases
<1>8. Queue'
  <2>1. \A d \in Clients : server'[d] = "backlog" <=> server[d] = "backlog"
    BY <1>4
  <2> QED
    BY <2>1 DEF Queue, Types
<1>9. Descriptors'
  <2>1. Open' \subseteq Open
    BY <1>4 DEF Open, Living, Types
  <2>2. IsFiniteSet(Open') /\ Cardinality(Open') <= Cardinality(Open)
    BY <2>1, FS_Subset DEF Descriptors
  <2>3. Cardinality(Open') \in Nat /\ Cardinality(Open) \in Nat
    BY <2>2, FS_CardinalityType DEF Descriptors
  <2> QED
    BY <2>2, <2>3 DEF Descriptors, Types
<1>10. Flow'
  <2>1. \A d \in Clients : Shown(printed'[d], down'[d], typed'[d])
    BY DEF Flow, clients
  <2>2. \A d \in Clients : server'[d] \in {"none", "backlog"} => d # c /\ server[d] = server'[d]
    BY <1>4
  <2>3. \A d \in Clients : server'[d] \in {"none", "backlog"} =>
          printed'[d] = <<>> /\ down'[d] = <<>> /\ Pipeline(<<>>, <<>>, <<>>, up'[d], cout'[d], typed'[d])
    BY <2>2 DEF Flow, clients
  <2>4. ASSUME NEW b \in Addresses, conn'[b] # NoClient, server'[conn'[b]] = "open"
        PROVE  Pipeline(printed'[conn'[b]], down'[conn'[b]], out'[b], up'[conn'[b]], cout'[conn'[b]],
                        typed'[conn'[b]])
    <3>1. conn[b] \in Clients /\ conn[b] # c
      BY <1>4, <2>4 DEF Types
    <3>2. server[conn[b]] = "open" /\ b # a
      BY <1>4, <2>4, <3>1
    <3> QED
      BY <2>4, <3>1, <3>2 DEF Flow, clients
  <2> QED
    BY <2>1, <2>3, <2>4 DEF Flow
<1> QED
  BY <1>2, <1>3, <1>6, <1>7, <1>8, <1>9, <1>10 DEF Types

\* An object in the batch is open, and its connection is in order.
LEMMA InBatch ==
    ASSUME EsInv, NEW a \in Addresses, a \in batch
    PROVE  /\ conn[a] # NoClient /\ server[conn[a]] = "open" /\ a \notin asked /\ conn[a] \in Clients
           /\ client[conn[a]] \in {"running", "exited"}
           /\ Pipeline(printed[conn[a]], down[conn[a]], out[a], up[conn[a]], cout[conn[a]], typed[conn[a]])
           /\ Len(down[conn[a]]) <= Cap /\ Len(up[conn[a]]) <= Cap
<1> USE DEF EsInv
<1>1. conn[a] # NoClient /\ server[conn[a]] = "open" /\ a \notin asked
  BY DEF Phases
<1>2. conn[a] \in Clients
  BY <1>1 DEF Types
<1>3. client[conn[a]] \in {"running", "exited"}
  BY <1>1, <1>2 DEF Types, Objects
<1> QED
  BY <1>1, <1>2, <1>3 DEF Flow, Wires

LEMMA SendMoreStep == ASSUME EsInv, NEW a \in Addresses, SendMore(a) PROVE EsInv'
<1> USE DEF EsInv
<1> DEFINE c == conn[a]
<1>1. /\ a \in batch /\ batch' = batch \ {a} /\ pc = "dispatch"
      /\ out' = [out EXCEPT ![a] = Left(out[a], down[c])]
      /\ down' = [down EXCEPT ![c] = Filled(out[a], down[c])]
      /\ UNCHANGED <<pc, doContinue, sigint, conn, timer, asked, cbq, clients, up, backlog, server, fdLimit>>
  BY DEF SendMore
<1>2. /\ c # NoClient /\ server[c] = "open" /\ c \in Clients /\ Len(down[c]) <= Cap
      /\ Pipeline(printed[c], down[c], out[a], up[c], cout[c], typed[c])
  BY <1>1, InBatch
<1>3. /\ Pipeline(printed[c], Filled(out[a], down[c]), Left(out[a], down[c]), up[c], cout[c], typed[c])
      /\ Len(Filled(out[a], down[c])) <= Cap
  BY <1>2, PipelineSends
<1>4. Filled(out[a], down[c]) \in Seq(Nat) /\ Left(out[a], down[c]) \in Seq(Nat)
  BY <1>3, PipelineTypes
<1>5. /\ out'[a] = Left(out[a], down[c]) /\ \A b \in Addresses \ {a} : out'[b] = out[b] /\ timer'[b] = timer[b]
      /\ down'[c] = Filled(out[a], down[c]) /\ \A d \in Clients \ {c} : down'[d] = down[d] /\ up'[d] = up[d]
  BY <1>1, <1>2 DEF Types, Wires
<1>6. Pipeline(printed[c], down'[c], out'[a], up'[c], cout[c], typed[c])
  BY <1>1, <1>3, <1>5
<1>7. Objects' /\ Phases' /\ Removals' /\ Queue' /\ Descriptors' /\ Flow'
  BY <1>1, <1>2, <1>5, <1>6, BytesMove
<1>8. Flags'
  BY <1>1, Zenon DEF Flags
<1>9. Types'
  BY <1>1, <1>4 DEF Types, clients
<1>10. Wires'
  BY <1>1, <1>2, <1>3, <1>4, <1>5 DEF Wires, clients
<1> QED
  BY <1>7, <1>8, <1>9, <1>10

LEMMA PeerClosedStep == ASSUME EsInv, NEW a \in Addresses, PeerClosed(a) PROVE EsInv'
<1> USE DEF EsInv
<1>1. /\ a \in batch /\ batch' = batch \ {a} /\ pc = "dispatch" /\ ConnectionClosed(a)
      /\ UNCHANGED <<pc, doContinue, sigint, conn, out, timer, clients, wires, backlog, fdLimit>>
  BY DEF PeerClosed
<1>2. conn[a] # NoClient /\ server[conn[a]] = "open" /\ a \notin asked
  BY <1>1, InBatch
<1>3. UNCHANGED <<up, down>>
  BY <1>1 DEF wires
<1>4. /\ Objects' /\ Phases' /\ Removals' /\ Queue' /\ Descriptors' /\ Flow'
      /\ cbq' \in Seq(Addresses \cup {Signal}) /\ asked' \subseteq Addresses
      /\ server' \in [Clients -> {"none", "backlog", "open", "closed"}]
  BY <1>1, <1>2, <1>3, ClosedMove
<1>5. Flags'
  BY <1>1, Zenon DEF Flags
<1>6. Types'
  BY <1>1, <1>4 DEF Types, clients
<1>7. Wires'
  BY <1>1 DEF Wires, clients, wires
<1> QED
  BY <1>4, <1>5, <1>6, <1>7

LEMMA DataReceivedStep == ASSUME EsInv, NEW a \in Addresses, DataReceived(a) PROVE EsInv'
<1> USE DEF EsInv
<1> DEFINE c == conn[a]
<1>1. /\ a \in batch /\ batch' = batch \ {a} /\ pc = "dispatch"
      /\ UNCHANGED <<pc, doContinue, sigint, conn, clients, backlog, fdLimit>>
  BY DEF DataReceived
<1>2. PICK k \in 1 .. Len(up[c]) :
         LET output == Echoed(a, SubSeq(up[c], 1, k))
         IN  /\ up' = [up EXCEPT ![c] = SubSeq(@, k + 1, Len(@))]
             /\ timer' = [timer EXCEPT ![a] = "scheduled"]
             /\ CASE out[a] # <<>> ->
                       out' = [out EXCEPT ![a] = output] /\ UNCHANGED <<down, cbq, asked, server>>
                  [] out[a] = <<>> /\ client[c] = "running" ->
                       /\ out' = [out EXCEPT ![a] = Left(output, down[c])]
                       /\ down' = [down EXCEPT ![c] = Filled(output, down[c])]
                       /\ UNCHANGED <<cbq, asked, server>>
                  [] out[a] = <<>> /\ client[c] = "exited" ->
                       out' = [out EXCEPT ![a] = output] /\ ConnectionClosed(a) /\ UNCHANGED down
  BY Zenon DEF DataReceived
<1> DEFINE output == Echoed(a, SubSeq(up[c], 1, k))
           rest == SubSeq(up[c], k + 1, Len(up[c]))
<1>3. up' = [up EXCEPT ![c] = rest] /\ timer' = [timer EXCEPT ![a] = "scheduled"]
  BY <1>2
<1>4. /\ c # NoClient /\ server[c] = "open" /\ c \in Clients /\ Len(down[c]) <= Cap /\ Len(up[c]) <= Cap
      /\ Pipeline(printed[c], down[c], out[a], up[c], cout[c], typed[c])
      /\ client[c] \in {"running", "exited"} /\ a \notin asked
  BY <1>1, InBatch
<1>5. Pipeline(printed[c], down[c], output, rest, cout[c], typed[c]) /\ Len(rest) <= Len(up[c])
  BY <1>4, PipelineReads DEF Echoed
<1>6. output \in Seq(Nat) /\ rest \in Seq(Nat)
  BY <1>5, PipelineTypes
<1>7. Len(rest) <= Cap
  BY <1>4, <1>5, <1>6, EchoAssumption DEF Wires
<1>8. \/ out[a] # <<>> /\ out' = [out EXCEPT ![a] = output] /\ UNCHANGED <<down, cbq, asked, server>>
      \/ /\ out' = [out EXCEPT ![a] = Left(output, down[c])]
         /\ down' = [down EXCEPT ![c] = Filled(output, down[c])] /\ UNCHANGED <<cbq, asked, server>>
      \/ out' = [out EXCEPT ![a] = output] /\ ConnectionClosed(a) /\ UNCHANGED down
  <2>1. CASE out[a] # <<>>
    BY <1>2, <2>1
  <2>2. CASE out[a] = <<>> /\ client[c] = "running"
    BY <1>2, <2>2
  <2>3. CASE out[a] = <<>> /\ client[c] = "exited"
    BY <1>2, <2>3
  <2> QED
    BY <1>4, <2>1, <2>2, <2>3
<1> HIDE DEF output, rest
<1>9. Flags'
  BY <1>1, Zenon DEF Flags
<1>10. /\ up'[c] = rest /\ \A d \in Clients \ {c} : up'[d] = up[d]
       /\ \A b \in Addresses \ {a} : timer'[b] = timer[b]
       /\ timer' \in [Addresses -> {"none", "scheduled", "late"}]
  BY <1>3, <1>4 DEF Types, Wires
<1>11. CASE out' = [out EXCEPT ![a] = output] /\ UNCHANGED <<down, cbq, asked, server>>
  <2>1. out'[a] = output /\ \A b \in Addresses \ {a} : out'[b] = out[b]
    BY <1>11 DEF Types
  <2>2. Objects' /\ Phases' /\ Removals' /\ Queue' /\ Descriptors' /\ Flow'
    BY <1>1, <1>4, <1>5, <1>10, <1>11, <2>1, BytesMove
  <2>3. Types'
    BY <1>1, <1>6, <1>10, <1>11 DEF Types, clients
  <2>4. Wires'
    BY <1>1, <1>3, <1>6, <1>7, <1>10, <1>11 DEF Wires, clients
  <2> QED
    BY <1>9, <2>2, <2>3, <2>4
<1>12. CASE /\ out' = [out EXCEPT ![a] = Left(output, down[c])]
            /\ down' = [down EXCEPT ![c] = Filled(output, down[c])] /\ UNCHANGED <<cbq, asked, server>>
  <2>1. /\ Pipeline(printed[c], Filled(output, down[c]), Left(output, down[c]), rest, cout[c], typed[c])
        /\ Len(Filled(output, down[c])) <= Cap
    BY <1>4, <1>5, PipelineSends
  <2>2. Filled(output, down[c]) \in Seq(Nat) /\ Left(output, down[c]) \in Seq(Nat)
    BY <2>1, PipelineTypes
  <2>3. /\ out'[a] = Left(output, down[c]) /\ \A b \in Addresses \ {a} : out'[b] = out[b]
        /\ down'[c] = Filled(output, down[c]) /\ \A d \in Clients \ {c} : down'[d] = down[d]
    BY <1>4, <1>12 DEF Types, Wires
  <2>4. Objects' /\ Phases' /\ Removals' /\ Queue' /\ Descriptors' /\ Flow'
    BY <1>1, <1>4, <1>10, <1>12, <2>1, <2>3, BytesMove
  <2>5. Types'
    BY <1>1, <1>10, <1>12, <2>2 DEF Types, clients
  <2>6. Wires'
    BY <1>1, <1>3, <1>6, <1>7, <1>10, <1>12, <2>1, <2>2, <2>3 DEF Wires, clients
  <2> QED
    BY <1>9, <2>4, <2>5, <2>6
<1>13. CASE out' = [out EXCEPT ![a] = output] /\ ConnectionClosed(a) /\ UNCHANGED down
  <2>1. out'[a] = output /\ \A b \in Addresses \ {a} : out'[b] = out[b]
    BY <1>13 DEF Types
  <2>2. /\ Objects' /\ Phases' /\ Removals' /\ Queue' /\ Descriptors' /\ Flow'
        /\ cbq' \in Seq(Addresses \cup {Signal}) /\ asked' \subseteq Addresses
        /\ server' \in [Clients -> {"none", "backlog", "open", "closed"}]
    BY <1>1, <1>4, <1>10, <1>13, <2>1, ClosedMove
  <2>3. Types'
    BY <1>1, <1>6, <1>10, <1>13, <2>2 DEF Types, clients
  <2>4. Wires'
    BY <1>1, <1>3, <1>6, <1>7, <1>10, <1>13 DEF Wires, clients
  <2> QED
    BY <1>9, <2>2, <2>3, <2>4
<1> QED
  BY <1>8, <1>11, <1>12, <1>13

-----------------------------------------------------------------------------
(* Clients *)

\* A client moves bytes of its own connection, and whatever the server holds of
\* them, they stay in order.
LEMMA ClientMoves ==
    ASSUME EsInv, NEW c \in Clients, UNCHANGED <<loop, sockets, client, backlog, server, fdLimit>>,
           typed' \in [Clients -> Nat], typed'[c] <= MaxTyped[c], Wires',
           \A d \in Clients \ {c} : /\ printed'[d] = printed[d] /\ down'[d] = down[d] /\ up'[d] = up[d]
                                    /\ cout'[d] = cout[d] /\ typed'[d] = typed[d],
           Shown(printed'[c], down'[c], typed'[c]),
           server[c] \in {"none", "backlog"} => printed'[c] = <<>> /\ down'[c] = <<>>,
           server[c] # "closed" =>
             \A o : Pipeline(printed[c], down[c], o, up[c], cout[c], typed[c]) =>
                    Pipeline(printed'[c], down'[c], o, up'[c], cout'[c], typed'[c])
    PROVE  EsInv'
<1> USE DEF EsInv
<1>1. UNCHANGED <<pc, batch, doContinue, sigint, conn, out, timer, asked, cbq>>
  BY DEF loop, sockets
<1>2. Types'
  <2>1. \A d \in Clients : typed'[d] <= MaxTyped[d]
    BY DEF Types
  <2> QED
    BY <1>1, <2>1 DEF Types
<1>3. Flags'
  BY <1>1, Zenon DEF Flags
<1>4. Objects' /\ Queue'
  <2>1. Objects'
    BY <1>1 DEF Objects
  <2>2. Queue'
    BY DEF Queue
  <2> QED
    BY <2>1, <2>2
<1>5. Phases' /\ Removals'
  BY <1>1 DEF Phases, Removals
<1>6. Open' = Open
  BY <1>1 DEF Open, Living
<1>7. Descriptors'
  BY <1>6 DEF Descriptors
<1>8. Flow'
  <2>1. \A d \in Clients : Shown(printed'[d], down'[d], typed'[d])
    BY DEF Flow
  <2>2. ASSUME NEW d \in Clients, server[d] \in {"none", "backlog"}
        PROVE  printed'[d] = <<>> /\ down'[d] = <<>> /\ Pipeline(<<>>, <<>>, <<>>, up'[d], cout'[d], typed'[d])
    <3>1. /\ printed[d] = <<>> /\ down[d] = <<>>
          /\ Pipeline(printed[d], down[d], <<>>, up[d], cout[d], typed[d])
      BY <2>2 DEF Flow
    <3>2. CASE d = c
      BY <2>2, <3>1, <3>2
    <3>3. CASE d # c
      BY <3>1, <3>3
    <3> QED
      BY <3>2, <3>3
  <2>3. ASSUME NEW b \in Addresses, conn[b] # NoClient, server[conn[b]] = "open"
        PROVE  Pipeline(printed'[conn[b]], down'[conn[b]], out[b], up'[conn[b]], cout'[conn[b]], typed'[conn[b]])
    <3>1. /\ conn[b] \in Clients
          /\ Pipeline(printed[conn[b]], down[conn[b]], out[b], up[conn[b]], cout[conn[b]], typed[conn[b]])
      BY <2>3 DEF Flow, Types
    <3>2. CASE conn[b] = c
      BY <2>3, <3>1, <3>2
    <3>3. CASE conn[b] # c
      BY <3>1, <3>3
    <3> QED
      BY <3>2, <3>3
  <2> QED
    BY <1>1, <2>1, <2>2, <2>3 DEF Flow
<1> QED
  BY <1>2, <1>3, <1>4, <1>5, <1>7, <1>8

LEMMA TypeStep == ASSUME EsInv, NEW c \in Clients, Type(c) PROVE EsInv'
<1> USE DEF EsInv
<1> DEFINE n == typed[c]
           k == Append(cout[c], n + 1)
<1>1. /\ n < MaxTyped[c] /\ server[c] # "closed" /\ typed' = [typed EXCEPT ![c] = n + 1]
      /\ UNCHANGED <<loop, sockets, client, printed, down, backlog, server, fdLimit>>
  BY DEF Type
<1>2. \/ cout' = [cout EXCEPT ![c] = k] /\ up' = up
      \/ cout' = [cout EXCEPT ![c] = Left(k, up[c])] /\ up' = [up EXCEPT ![c] = Filled(k, up[c])]
  BY DEF Type
<1>3. n \in Nat /\ Len(up[c]) <= Cap /\ up[c] \in Seq(Nat) /\ k \in Seq(Nat) /\ MaxTyped[c] \in Nat
  BY EchoAssumption DEF Types, Wires
<1>4. \E o : Pipeline(printed[c], down[c], o, up[c], cout[c], n)
  <2>1. CASE server[c] \in {"none", "backlog"}
    BY <2>1 DEF Flow
  <2>2. CASE server[c] = "open"
    <3>1. PICK a \in Addresses : conn[a] = c
      BY <2>2 DEF Objects
    <3> QED
      BY <2>2, <3>1, EchoAssumption DEF Flow
  <2> QED
    BY <1>1, <2>1, <2>2 DEF Types
<1>5. \A o : Pipeline(printed[c], down[c], o, up[c], cout[c], n) =>
             /\ Pipeline(printed[c], down[c], o, up[c], k, n + 1)
             /\ Pipeline(printed[c], down[c], o, Filled(k, up[c]), Left(k, up[c]), n + 1)
             /\ Len(Filled(k, up[c])) <= Cap
  <2> SUFFICES ASSUME NEW o, Pipeline(printed[c], down[c], o, up[c], cout[c], n)
               PROVE  /\ Pipeline(printed[c], down[c], o, up[c], k, n + 1)
                      /\ Pipeline(printed[c], down[c], o, Filled(k, up[c]), Left(k, up[c]), n + 1)
                      /\ Len(Filled(k, up[c])) <= Cap
    OBVIOUS
  <2>1. Pipeline(printed[c], down[c], o, up[c], k, n + 1)
    BY <1>3, PipelineTypesOn
  <2> QED
    BY <1>3, <2>1, PipelineClientSends
<1>6. /\ Filled(k, up[c]) \in Seq(Nat) /\ Left(k, up[c]) \in Seq(Nat) /\ Len(Filled(k, up[c])) <= Cap
  BY <1>4, <1>5, PipelineTypes
<1> HIDE DEF k
<1>7. Shown(printed[c], down[c], n)
  BY DEF Flow
<1>8. Shown(printed[c], down[c], n + 1)
  BY <1>3, <1>7, ShownMore
<1>9. typed'[c] = n + 1 /\ typed' \in [Clients -> Nat] /\ typed'[c] <= MaxTyped[c]
      /\ \A d \in Clients \ {c} : typed'[d] = typed[d]
  BY <1>1, <1>3 DEF Types
<1>10. /\ \/ cout'[c] = k /\ up'[c] = up[c]
          \/ cout'[c] = Left(k, up[c]) /\ up'[c] = Filled(k, up[c])
       /\ \A d \in Clients \ {c} : cout'[d] = cout[d] /\ up'[d] = up[d]
       /\ cout' \in [Clients -> Seq(Nat)] /\ up' \in [Clients -> Seq(Nat)] /\ Len(up'[c]) <= Cap
  BY <1>2, <1>3, <1>6 DEF Wires
<1>11. Wires'
  BY <1>1, <1>10 DEF Wires
<1>12. \A o : Pipeline(printed[c], down[c], o, up[c], cout[c], typed[c]) =>
              Pipeline(printed'[c], down'[c], o, up'[c], cout'[c], typed'[c])
  BY <1>1, <1>5, <1>9, <1>10
<1>13. server[c] \in {"none", "backlog"} => printed'[c] = <<>> /\ down'[c] = <<>>
  BY <1>1 DEF Flow
<1>14. \A d \in Clients \ {c} : /\ printed'[d] = printed[d] /\ down'[d] = down[d] /\ up'[d] = up[d]
                               /\ cout'[d] = cout[d] /\ typed'[d] = typed[d]
  BY <1>1, <1>9, <1>10
<1>15. Shown(printed'[c], down'[c], typed'[c])
  BY <1>1, <1>8, <1>9
<1> QED
  BY <1>1, <1>9, <1>11, <1>12, <1>13, <1>14, <1>15, ClientMoves

LEMMA ClientSendsStep == ASSUME EsInv, NEW c \in Clients, ClientSends(c) PROVE EsInv'
<1> USE DEF EsInv
<1>1. /\ server[c] # "closed" /\ cout' = [cout EXCEPT ![c] = Left(cout[c], up[c])]
      /\ up' = [up EXCEPT ![c] = Filled(cout[c], up[c])]
      /\ UNCHANGED <<loop, sockets, client, typed, printed, down, backlog, server, fdLimit>>
  BY DEF ClientSends
<1>2. Len(up[c]) <= Cap /\ typed \in [Clients -> Nat] /\ typed[c] <= MaxTyped[c]
  BY DEF Wires, Types
<1>3. \E o : Pipeline(printed[c], down[c], o, up[c], cout[c], typed[c])
  <2>1. CASE server[c] \in {"none", "backlog"}
    BY <2>1 DEF Flow
  <2>2. CASE server[c] = "open"
    <3>1. PICK a \in Addresses : conn[a] = c
      BY <2>2 DEF Objects
    <3> QED
      BY <2>2, <3>1, EchoAssumption DEF Flow
  <2> QED
    BY <1>1, <2>1, <2>2 DEF Types
<1>4. \A o : Pipeline(printed[c], down[c], o, up[c], cout[c], typed[c]) =>
             /\ Pipeline(printed[c], down[c], o, Filled(cout[c], up[c]), Left(cout[c], up[c]), typed[c])
             /\ Len(Filled(cout[c], up[c])) <= Cap
  BY <1>2, PipelineClientSends
<1>5. /\ Filled(cout[c], up[c]) \in Seq(Nat) /\ Left(cout[c], up[c]) \in Seq(Nat)
      /\ Len(Filled(cout[c], up[c])) <= Cap
  BY <1>3, <1>4, PipelineTypes
<1>6. /\ cout'[c] = Left(cout[c], up[c]) /\ up'[c] = Filled(cout[c], up[c])
      /\ \A d \in Clients \ {c} : cout'[d] = cout[d] /\ up'[d] = up[d]
      /\ cout' \in [Clients -> Seq(Nat)] /\ up' \in [Clients -> Seq(Nat)]
  BY <1>1, <1>5 DEF Wires
<1>7. Wires'
  BY <1>1, <1>5, <1>6 DEF Wires
<1>8. \A o : Pipeline(printed[c], down[c], o, up[c], cout[c], typed[c]) =>
             Pipeline(printed'[c], down'[c], o, up'[c], cout'[c], typed'[c])
  BY <1>1, <1>4, <1>6
<1>9. /\ Shown(printed'[c], down'[c], typed'[c])
      /\ server[c] \in {"none", "backlog"} => printed'[c] = <<>> /\ down'[c] = <<>>
  BY <1>1 DEF Flow
<1>10. \A d \in Clients \ {c} : /\ printed'[d] = printed[d] /\ down'[d] = down[d] /\ up'[d] = up[d]
                               /\ cout'[d] = cout[d] /\ typed'[d] = typed[d]
  BY <1>1, <1>6
<1> QED
  BY <1>1, <1>2, <1>7, <1>8, <1>9, <1>10, ClientMoves

LEMMA ClientPrintsStep == ASSUME EsInv, NEW c \in Clients, ClientPrints(c) PROVE EsInv'
<1> USE DEF EsInv
<1>1. /\ printed' = [printed EXCEPT ![c] = printed[c] \o down[c]] /\ down' = [down EXCEPT ![c] = <<>>]
      /\ down[c] # <<>> /\ UNCHANGED <<loop, sockets, client, typed, cout, up, backlog, server, fdLimit>>
  BY DEF ClientPrints
<1>2. typed \in [Clients -> Nat] /\ typed[c] <= MaxTyped[c]
  BY DEF Types
<1>3. Shown(printed[c] \o down[c], <<>>, typed[c])
  BY ShownPrints DEF Flow
<1>4. printed[c] \o down[c] \in Seq(Nat)
  BY DEF Wires
<1>5. /\ printed'[c] = printed[c] \o down[c] /\ down'[c] = <<>>
      /\ \A d \in Clients \ {c} : printed'[d] = printed[d] /\ down'[d] = down[d]
      /\ printed' \in [Clients -> Seq(Nat)] /\ down' \in [Clients -> Seq(Nat)]
  BY <1>1, <1>4 DEF Wires
<1>6. Len(<<>>) <= Cap
  BY EchoAssumption
<1>7. Wires'
  BY <1>1, <1>5, <1>6 DEF Wires
<1>8. \A o : Pipeline(printed[c], down[c], o, up[c], cout[c], typed[c]) =>
             Pipeline(printed'[c], down'[c], o, up'[c], cout'[c], typed'[c])
  BY <1>1, <1>5, PipelinePrints
<1>9. server[c] \notin {"none", "backlog"}
  BY <1>1 DEF Flow
<1>10. \A d \in Clients \ {c} : /\ printed'[d] = printed[d] /\ down'[d] = down[d] /\ up'[d] = up[d]
                               /\ cout'[d] = cout[d] /\ typed'[d] = typed[d]
  BY <1>1, <1>5
<1>11. Shown(printed'[c], down'[c], typed'[c])
  BY <1>1, <1>3, <1>5
<1> QED
  BY <1>1, <1>2, <1>7, <1>8, <1>9, <1>10, <1>11, ClientMoves

LEMMA ClientLeavesStep ==
    ASSUME EsInv, NEW c \in Clients, EndOfInput(c) \/ ClientNoticesClose(c) PROVE EsInv'
<1> USE DEF EsInv
<1>1. /\ client[c] = "running" /\ client' = [client EXCEPT ![c] = "exited"]
      /\ UNCHANGED <<loop, sockets, typed, cout, printed, wires, backlog, server, fdLimit>>
  BY DEF EndOfInput, ClientNoticesClose
<1>2. UNCHANGED <<pc, batch, doContinue, sigint, conn, out, timer, asked, cbq, up, down>>
  BY <1>1 DEF loop, sockets, wires
<1>3. Types'
  BY <1>1, <1>2 DEF Types
<1>4. Wires' /\ Queue'
  BY <1>1, <1>2 DEF Wires, Queue
<1>5. Flags'
  BY <1>2, Zenon DEF Flags
<1>6. \A d \in Clients : client'[d] = "idle" <=> client[d] = "idle"
  BY <1>1 DEF Types
<1>7. Objects'
  BY <1>1, <1>2, <1>6 DEF Objects
<1>8. Phases' /\ Removals'
  BY <1>1, <1>2 DEF Phases, Removals
<1>9. Open' = Open
  BY <1>1, <1>2 DEF Open, Living
<1>10. Descriptors' /\ Flow'
  BY <1>1, <1>2, <1>9 DEF Descriptors, Flow
<1> QED
  BY <1>3, <1>4, <1>5, <1>7, <1>8, <1>10

LEMMA ConnectStep == ASSUME EsInv, NEW c \in Clients, Connect(c) PROVE EsInv'
<1> USE DEF EsInv
<1>1. /\ client[c] = "idle" /\ client' = [client EXCEPT ![c] = "running"]
      /\ backlog' = Append(backlog, c) /\ server' = [server EXCEPT ![c] = "backlog"]
      /\ UNCHANGED <<loop, sockets, typed, cout, printed, wires, fdLimit>>
  BY DEF Connect
<1>2. UNCHANGED <<pc, batch, doContinue, sigint, conn, out, timer, asked, cbq, up, down>>
  BY <1>1 DEF loop, sockets, wires
<1>3. server[c] = "none"
  BY <1>1 DEF Objects
<1>4. Types'
  BY <1>1, <1>2 DEF Types
<1>5. Wires'
  BY <1>1, <1>2 DEF Wires
<1>6. Flags'
  BY <1>2, Zenon DEF Flags
<1>7. /\ \A d \in Clients : server'[d] = IF d = c THEN "backlog" ELSE server[d]
      /\ \A d \in Clients : client'[d] = IF d = c THEN "running" ELSE client[d]
  BY <1>1 DEF Types
<1>8. ASSUME NEW b \in Addresses, conn[b] # NoClient PROVE conn[b] # c /\ server'[conn[b]] = server[conn[b]]
  <2>1. conn[b] \in Clients
    BY <1>8 DEF Types
  <2>2. server[conn[b]] # "none"
    BY <1>8 DEF Objects
  <2> QED
    BY <1>3, <1>7, <2>1, <2>2
<1>9. Objects'
  <2>1. \A d \in Clients : server'[d] = "open" => \E b \in Addresses : conn'[b] = d
    BY <1>2, <1>7 DEF Objects
  <2>2. \A d \in Clients : server'[d] = "none" <=> client'[d] = "idle"
    BY <1>7 DEF Objects
  <2> QED
    BY <1>2, <1>8, <2>1, <2>2 DEF Objects
<1>10. Phases' /\ Removals'
  BY <1>2, <1>8 DEF Phases, Removals
<1>11. Open' = Open
  BY <1>2, <1>8 DEF Open, Living
<1>12. Descriptors'
  BY <1>1, <1>11 DEF Descriptors
<1>13. Queue'
  <2>1. backlog \in Seq(Clients)
    BY DEF Types
  <2>2. /\ Len(backlog') = Len(backlog) + 1 /\ backlog'[Len(backlog) + 1] = c
        /\ \A i \in 1 .. Len(backlog) : backlog'[i] = backlog[i] /\ backlog[i] \in Clients
    BY <1>1, <2>1
  <2>3. Len(backlog) \in Nat
    BY <2>1
  <2>4. /\ \A i \in 1 .. Len(backlog') : i \in 1 .. Len(backlog) \/ i = Len(backlog) + 1
        /\ \A i \in 1 .. Len(backlog) : i \in 1 .. Len(backlog')
        /\ Len(backlog) + 1 \in 1 .. Len(backlog')
    BY <2>2, <2>3
  <2>5. \A i \in 1 .. Len(backlog) : backlog[i] # c
    BY <1>3 DEF Queue
  <2>6. \A i \in 1 .. Len(backlog') : server'[backlog'[i]] = "backlog"
    BY <1>7, <2>2, <2>4 DEF Queue
  <2>7. \A d \in Clients : server'[d] = "backlog" => \E i \in 1 .. Len(backlog') : backlog'[i] = d
    BY <1>7, <2>2, <2>4 DEF Queue
  <2>8. \A i, j \in 1 .. Len(backlog') : backlog'[i] = backlog'[j] => i = j
    BY <2>2, <2>4, <2>5 DEF Queue
  <2> QED
    BY <2>6, <2>7, <2>8 DEF Queue
<1>14. Flow'
  <2>1. \A d \in Clients : server'[d] \in {"none", "backlog"} => server[d] \in {"none", "backlog"}
    BY <1>3, <1>7
  <2> QED
    BY <1>1, <1>2, <1>8, <2>1 DEF Flow
<1> QED
  BY <1>4, <1>5, <1>6, <1>9, <1>10, <1>12, <1>13, <1>14

-----------------------------------------------------------------------------
(* The theorems *)

LEMMA EsInvStep == EsInv /\ [Next]_vars => EsInv'
<1> SUFFICES ASSUME EsInv, [Next]_vars PROVE EsInv'
  OBVIOUS
<1>1. CASE ExecuteCallback
  BY <1>1, ExecuteStep
<1>2. CASE Return
  BY <1>2, ReturnStep
<1>3. CASE ExecuteDone \/ Wait \/ DispatchDone \/ ListenEvent \/ AcceptReturns
  BY <1>3, PhaseStep
<1>4. CASE SignalEvent
  BY <1>4, SignalStep
<1>5. CASE Interrupt
  BY <1>5, InterruptStep
<1>6. CASE Accept
  BY <1>6, AcceptStep
<1>7. CASE AcceptedSocketFails
  BY <1>7, AcceptFailsStep
<1>8. ASSUME NEW a \in Addresses, TimerFires(a) \/ Expire(a) PROVE EsInv'
  BY <1>8, TimerStep
<1>9. ASSUME NEW a \in Addresses, DataReceived(a) PROVE EsInv'
  BY <1>9, DataReceivedStep
<1>10. ASSUME NEW a \in Addresses, SendMore(a) PROVE EsInv'
  BY <1>10, SendMoreStep
<1>11. ASSUME NEW a \in Addresses, PeerClosed(a) PROVE EsInv'
  BY <1>11, PeerClosedStep
<1>12. ASSUME NEW c \in Clients, ClientSends(c) PROVE EsInv'
  BY <1>12, ClientSendsStep
<1>13. ASSUME NEW c \in Clients, ClientPrints(c) PROVE EsInv'
  BY <1>13, ClientPrintsStep
<1>14. ASSUME NEW c \in Clients, EndOfInput(c) \/ ClientNoticesClose(c) PROVE EsInv'
  BY <1>14, ClientLeavesStep
<1>15. ASSUME NEW c \in Clients, Connect(c) PROVE EsInv'
  BY <1>15, ConnectStep
<1>16. ASSUME NEW c \in Clients, Type(c) PROVE EsInv'
  BY <1>16, TypeStep
<1>17. CASE UNCHANGED vars
  <2>1. /\ UNCHANGED <<conn, out, timer, asked, clients, wires, backlog, server, fdLimit>>
        /\ UNCHANGED <<pc, batch, doContinue, sigint, cbq>>
    BY <1>17 DEF vars, loop, sockets
  <2>2. Wires' /\ Objects' /\ Queue' /\ Descriptors' /\ Flow'
    BY <2>1, Untouched
  <2>3. Flags'
    BY <2>1, Zenon DEF Flags, EsInv
  <2>4. Types' /\ Phases' /\ Removals'
    BY <2>1 DEF Types, Phases, Removals, clients, EsInv
  <2> QED
    BY <2>2, <2>3, <2>4 DEF EsInv
<1> QED
  BY <1>1, <1>2, <1>3, <1>4, <1>5, <1>6, <1>7, <1>8, <1>9, <1>10, <1>11, <1>12, <1>13, <1>14,
     <1>15, <1>16, <1>17 DEF Next, LoopStep, ClientStep

\* The inductive invariant of the server and its clients
LEMMA EsInvariance == Spec => []EsInv
<1>1. Init => EsInv
  BY EsInvInit
<1>2. EsInv /\ [Next]_vars => EsInv'
  BY EsInvStep
<1> QED
  BY <1>1, <1>2, PTL DEF Spec

\* What Follows nothing are the numbers from one on.
LEMMA FollowsAll ==
    ASSUME NEW s, NEW n \in Nat, Follows(s, 0), Len(s) = n PROVE s = [i \in 1 .. n |-> i]
<1>1. s \in Seq(Nat) /\ \A i \in 1 .. n : s[i] = i
  BY DEF Follows
<1>2. DOMAIN s = 1 .. n /\ s = [i \in 1 .. n |-> s[i]]
  BY <1>1
<1> QED
  BY <1>1, <1>2

\* What was shown is the beginning of what was typed.
LEMMA ShownIsPrefix ==
    ASSUME NEW p, NEW d, NEW n \in Nat, Shown(p, d, n)
    PROVE  IsPrefix(p \o d, [i \in 1 .. n |-> i])
<1> DEFINE s == p \o d
           all == [i \in 1 .. n |-> i]
<1>1. p \in Seq(Nat) /\ d \in Seq(Nat) /\ Len(p) \in Nat /\ Len(d) \in Nat
  BY DEF Shown, Follows
<1>2. Follows(s, 0) /\ Len(s) = Len(p) + Len(d)
  BY <1>1, FollowsConcat DEF Shown
<1>3. Len(s) \in Nat /\ Len(s) <= n /\ s \in Seq(Nat)
  BY <1>1, <1>2 DEF Shown, Follows
<1> HIDE DEF s
<1>4. all \in Seq(Nat) /\ Len(all) = n
  OBVIOUS
<1>5. SubSeq(s, 1, Len(s)) = [i \in 1 .. Len(s) |-> i]
  <2>1. s = [i \in 1 .. Len(s) |-> i]
    BY <1>2, <1>3, FollowsAll
  <2>2. SubSeq(s, 1, Len(s)) = s
    BY <1>3
  <2> QED
    BY <2>1, <2>2
<1>6. SubSeq(all, 1, Len(s)) = [i \in 1 .. Len(s) |-> i]
  BY <1>3, <1>4
<1> QED
  BY <1>3, <1>4, <1>5, <1>6 DEF IsPrefix, s

\* A pipeline, put together, is all that was typed.
LEMMA PipelineIsAll ==
    ASSUME NEW p, NEW d, NEW o, NEW u, NEW k, NEW n \in Nat, Pipeline(p, d, o, u, k, n)
    PROVE  p \o d \o o \o u \o k = [i \in 1 .. n |-> i]
<1>1. Len(p) \in Nat /\ Len(d) \in Nat /\ Len(o) \in Nat /\ Len(u) \in Nat /\ Len(k) \in Nat
  BY PipelineTypes
<1>2. Follows(p \o d, 0) /\ Len(p \o d) = Len(p) + Len(d)
  BY <1>1, FollowsConcat DEF Pipeline
<1>3. Follows(o, 0 + Len(p \o d))
  BY <1>1, <1>2 DEF Pipeline
<1>4. Follows(p \o d \o o, 0) /\ Len(p \o d \o o) = Len(p \o d) + Len(o)
  BY <1>2, <1>3, FollowsConcat
<1>5. Follows(u, 0 + Len(p \o d \o o))
  BY <1>1, <1>2, <1>4 DEF Pipeline
<1>6. Follows(p \o d \o o \o u, 0) /\ Len(p \o d \o o \o u) = Len(p \o d \o o) + Len(u)
  BY <1>4, <1>5, FollowsConcat
<1>7. Follows(k, 0 + Len(p \o d \o o \o u))
  BY <1>1, <1>2, <1>4, <1>6 DEF Pipeline
<1>8. Follows(p \o d \o o \o u \o k, 0) /\ Len(p \o d \o o \o u \o k) = Len(p \o d \o o \o u) + Len(k)
  BY <1>6, <1>7, FollowsConcat
<1>9. Len(p \o d \o o \o u \o k) = n
  BY <1>2, <1>4, <1>6, <1>8 DEF Pipeline
<1> QED
  BY <1>8, <1>9, FollowsAll

LEMMA EsInvTypes == EsInv => TypeOK
<1> SUFFICES ASSUME EsInv PROVE TypeOK
  OBVIOUS
<1> USE DEF EsInv
<1>1. Range(cbq) \subseteq Addresses \cup {Signal}
  BY DEF Types, Range
<1>2. Range(backlog) = {c \in Clients : server[c] = "backlog"}
  <2>1. backlog \in Seq(Clients) /\ DOMAIN backlog = 1 .. Len(backlog)
    BY DEF Types
  <2> QED
    BY <2>1 DEF Queue, Range
<1>3. doContinue \in BOOLEAN /\ sigint \in BOOLEAN
  BY Zenon DEF Flags
<1>4. \A a \in Addresses \ Living : out[a] = <<>> /\ timer[a] = "none"
  BY DEF Objects, Living
<1>5. asked \subseteq Living /\ Cardinality(Open) <= fdLimit
  BY DEF Objects, Living, Types, Descriptors
<1>6. \A c \in Clients : Len(up[c]) <= Cap /\ Len(down[c]) <= Cap /\ typed[c] <= MaxTyped[c]
  BY DEF Types, Wires
<1> QED
  BY <1>1, <1>2, <1>3, <1>4, <1>5, <1>6 DEF Types, TypeOK

LEMMA EsInvInOrder == EsInv => InOrder
<1> SUFFICES ASSUME EsInv PROVE InOrder
  OBVIOUS
<1> USE DEF EsInv
<1>1. ASSUME NEW c \in Clients
      PROVE  LET all == [i \in 1 .. typed[c] |-> i]
                 behind == printed[c] \o down[c]
             IN  IF client[c] = "running" /\ server[c] = "open"
                 THEN behind \o out[EndOf(c)] \o up[c] \o cout[c] = all
                 ELSE IsPrefix(behind, all)
  <2>1. typed[c] \in Nat
    BY DEF Types
  <2>2. IsPrefix(printed[c] \o down[c], [i \in 1 .. typed[c] |-> i])
    BY <2>1, ShownIsPrefix DEF Flow
  <2>3. CASE client[c] = "running" /\ server[c] = "open"
    <3>1. EndOf(c) \in Addresses /\ conn[EndOf(c)] = c
      BY <2>3 DEF Objects, EndOf
    <3>2. Pipeline(printed[c], down[c], out[EndOf(c)], up[c], cout[c], typed[c])
      BY <2>3, <3>1, EchoAssumption DEF Flow
    <3>3. printed[c] \o down[c] \o out[EndOf(c)] \o up[c] \o cout[c] = [i \in 1 .. typed[c] |-> i]
      BY <2>1, <3>2, PipelineIsAll
    <3> QED
      BY <2>3, <3>3, Zenon
  <2>4. CASE ~(client[c] = "running" /\ server[c] = "open")
    BY <2>2, <2>4, Zenon
  <2> QED
    BY <2>3, <2>4
<1>2. TypeOK
  BY EsInvTypes
<1> QED
  BY <1>1, <1>2, Zenon DEF InOrder

\* Whatever the clients type, however the kernel's buffers fill and whichever
\* connections are accepted, time out or break: what a client prints is the
\* beginning of what it typed, and while its connection is open no byte is lost,
\* doubled or overtaken anywhere between AcceptedSocket::dataReceivedCb and it.
THEOREM AlwaysInOrder == Spec => []InOrder
BY EsInvariance, EsInvInOrder, PTL

\* The plain reference in the callback of AcceptedSocket::remove() is good when
\* its turn comes: the object is there and has itself asked, once.
THEOREM AlwaysFresh == Spec => []RemovalsAreFresh
<1>1. EsInv => RemovalsAreFresh
  <2> SUFFICES ASSUME EsInv PROVE RemovalsAreFresh
    OBVIOUS
  <2>1. cbq \in Seq(Addresses \cup {Signal}) /\ DOMAIN cbq = 1 .. Len(cbq) /\ Signal \notin asked
    BY EchoAssumption DEF EsInv, Types, Signal
  <2> QED
    BY <2>1 DEF EsInv, Removals, RemovalsAreFresh
<1> QED
  BY <1>1, EsInvariance, PTL
=============================================================================
