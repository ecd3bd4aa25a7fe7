--------------------------- MODULE SocketAddress ---------------------------
(***************************************************************************)
(* SocketAddress: the union of socket addresses with its used size, made   *)
(* by the factory functions, from raw memory, from text or by the kernel.  *)
(*                                                                         *)
(* Memory is a row of cells: the family, then the fields of the family's   *)
(* structure, one cell each, or the cells of sun_path, and one cell of     *)
(* padding.  A port has two cells, one-bit bytes, so that network and host *)
(* byte order differ.  A text is a record of what the regular expressions  *)
(* take apart: the node and the service of an IP address, the characters   *)
(* of a path.                                                              *)
(***************************************************************************)
EXTENDS Integers, Sequences, SequencesExt

CONSTANTS PathSize,    \* sizeof(sun_path)
          UnixPaths,   \* paths to try: sequences of characters
          Sizes,       \* arguments of setUsedSize() and of the raw constructors
          Modulus      \* the numbers of type size_t are below it

\* Characters, in the order of their codes
NUL == 0
Space == 1
At == 2
Letter == 3

\* Families
Unspec == 0
Unix == 1
IPv4 == 2
IPv6 == 3

Off == 1                        \* offsetof(sun_path), sizeof(sa_family_t)
SizeUn == Off + PathSize
SizeIn == 4                     \* family, port, address
SizeIn6 == 6                    \* family, port, flow, address, scope
MemSize == SizeUn + 1           \* with UnixWithPad

ASSUME SizesAssumption ==
    /\ PathSize \in Nat /\ SizeUn >= SizeIn6
    /\ Modulus \in Nat /\ MemSize + Off < Modulus /\ Sizes \subseteq 0 .. Modulus - 1
    /\ UnixPaths \subseteq Seq(NUL .. Letter)

\* What getaddrinfo() knows of a name: the address in each family.
Nodes == [any4 |-> [v4 |-> {0}, v6 |-> {}], host4 |-> [v4 |-> {1}, v6 |-> {}],
          any6 |-> [v4 |-> {}, v6 |-> {0}], host6 |-> [v4 |-> {}, v6 |-> {1}],
          localhost |-> [v4 |-> {1}, v6 |-> {1}], nosuchname |-> [v4 |-> {}, v6 |-> {}]]
Services == {"0", "1", "2", "ssh", "nosuchservice"}

VARIABLE sa  \* an address
saVars == <<sa>>

\* TooLongUnixSocketPath is thrown.
TooLong == [mem |-> <<>>, used |-> 0]

-----------------------------------------------------------------------------
(* Constructors and factories *)

\* cells followed by zeros
Padded(cells) == [i \in 1 .. MemSize |-> IF i <= Len(cells) THEN cells[i] ELSE 0]
Make(cells, size) == [mem |-> Padded(cells), used |-> size]

Default == Make(<<>>, 0)

FromMemory(mem, size) ==
    LET n == IF size < MemSize THEN size ELSE MemSize IN
    Make(SubSeq(mem, 1, n), n)

\* A uint16_t in memory (little-endian)
Bytes(port) == <<port % 2, port \div 2>>

FromIPv4(addr, port) == Make(<<IPv4>> \o Bytes(port) \o <<addr>>, SizeIn)
FromIPv6(addr, scope, port) == Make(<<IPv6>> \o Bytes(port) \o <<0, addr, scope>>, SizeIn6)

CreateUnix(path) ==
    IF Len(path) >= PathSize THEN TooLong ELSE Make(<<Unix>> \o path, Off + Len(path) + 1)

CreateUnixAny == Make(<<Unix>>, Off)

CreateAbstractUnix(path) ==
    IF Len(path) > PathSize - 1 THEN TooLong ELSE Make(<<Unix, NUL>> \o path, Off + Len(path) + 1)

\* ntohs() and htons()
Swap(port) == (port % 2) * 2 + port \div 2

\* Numbers as boost::lexical_cast sees them; all others are names.
Number(service) == CASE service = "0" -> {0} [] service = "1" -> {1} [] service = "2" -> {2}
                     [] service = "3" -> {3} [] OTHER -> {}
Text(number) == CASE number = 0 -> "0" [] number = 1 -> "1" [] number = 2 -> "2" [] number = 3 -> "3"
\* the port of a named service, in network byte order
Named(service) == IF service = "ssh" THEN {Swap(1)} ELSE {}

\* getServByName(): a set with the port in network byte order, or without
GetServByName(service) == IF Number(service) # {} THEN {Swap(n) : n \in Number(service)} ELSE Named(service)

\* getaddrinfo(): the possible results, with Unspec those of both families
GetAddrInfo(family, node, scope, ports) ==
    {FromIPv4(a, p) : a \in (IF family # IPv6 THEN Nodes[node].v4 ELSE {}), p \in ports}
        \cup {FromIPv6(a, scope, p) : a \in (IF family # IPv4 THEN Nodes[node].v6 ELSE {}), p \in ports}

WithService(family, node, scope, service) == GetAddrInfo(family, node, scope, GetServByName(service))
\* getAddrInfoWithPort(): the port goes through text
WithPort(family, node, scope, port) ==
    GetAddrInfo(family, node, scope, {Swap(n) : n \in Number(Text(Swap(port)))})

-----------------------------------------------------------------------------
(* Observers *)

Family(s) == s.mem[1]
IPPort(s) == s.mem[2] + 2 * s.mem[3]
Address(s) == IF Family(s) = IPv4 THEN s.mem[4] ELSE s.mem[5]
ScopeId(s) == s.mem[6]

AvailableSize(s) ==
    CASE Family(s) = Unix -> SizeUn [] Family(s) = IPv4 -> SizeIn [] Family(s) = IPv6 -> SizeIn6
      [] OTHER -> MemSize

IsAny(s) ==
    CASE Family(s) = Unspec -> TRUE
      [] Family(s) = Unix -> s.used = Off
      [] Family(s) \in {IPv4, IPv6} -> IPPort(s) = 0 /\ Address(s) = 0
      [] OTHER -> FALSE

\* memcmp() of the first n cells, n <= MemSize: the cells in which s and t differ,
\* and which of them is less in the first of these
Differing(s, t, n) == {i \in 1 .. n : s.mem[i] # t.mem[i]}
Below(s, t, n) ==
    \E i \in Differing(s, t, n) : s.mem[i] < t.mem[i] /\ \A j \in Differing(s, t, n) : i <= j

Equal(s, t) == s.used = t.used /\ Differing(s, t, s.used) = {}

Less(s, t) == s.used < t.used \/ (s.used = t.used /\ Below(s, t, s.used))

-----------------------------------------------------------------------------
(* Text *)

\* The size that operator << passes to outputUnix(): a difference of type size_t
PathLength(s) == (s.used - Off) % Modulus

\* outputUnix(): the cells of sun_path are mem[Off + 1], ...
IsAbstract(s) == PathLength(s) > 0 /\ s.mem[Off + 1] = NUL /\ s.mem[Off + 2] # NUL
FirstChar(s) == IF IsAbstract(s) THEN 1 ELSE 0
EndOfPath(s) ==
    CHOOSE n \in FirstChar(s) .. MemSize :
        /\ n >= PathLength(s) \/ s.mem[Off + n + 1] = NUL
        /\ \A i \in FirstChar(s) .. n - 1 : i < PathLength(s) /\ s.mem[Off + i + 1] # NUL
PathText(s) ==
    (IF IsAbstract(s) THEN <<At>> ELSE <<>>) \o SubSeq(s.mem, Off + FirstChar(s) + 1, Off + EndOfPath(s))

NodeOf(family, addr) ==
    CASE family = IPv4 /\ addr = 0 -> "any4" [] family = IPv4 /\ addr # 0 -> "host4"
      [] family = IPv6 /\ addr = 0 -> "any6" [] family = IPv6 /\ addr # 0 -> "host6"

UnixText(path) == [kind |-> "unix", path |-> path]
IPText(kind, node, scope, service) == [kind |-> kind, node |-> node, scope |-> scope, service |-> service]
NoText == [kind |-> "other"]

\* Mutant of Output: the scope is left out.
OutputWithoutScope(s) ==
    CASE Family(s) = Unix -> UnixText(PathText(s))
      [] Family(s) = IPv4 -> IPText("ipv4", NodeOf(IPv4, Address(s)), 0, Text(Swap(IPPort(s))))
      [] Family(s) = IPv6 -> IPText("ipv6", NodeOf(IPv6, Address(s)), 0, Text(Swap(IPPort(s))))
      [] OTHER -> NoText

\* operator <<
Output(s) ==
    CASE Family(s) = Unix -> UnixText(PathText(s))
      [] Family(s) = IPv4 -> IPText("ipv4", NodeOf(IPv4, Address(s)), 0, Text(Swap(IPPort(s))))
      [] Family(s) = IPv6 -> IPText("ipv6", NodeOf(IPv6, Address(s)), ScopeId(s), Text(Swap(IPPort(s))))
      [] OTHER -> NoText

\* operator >> takes the characters up to the first white space.
Word(path) ==
    LET spaces == {i \in DOMAIN path : path[i] = Space} IN
    SubSeq(path, 1, CHOOSE n \in 0 .. Len(path) : (n = Len(path) \/ n + 1 \in spaces)
                                                   /\ \A i \in spaces : n < i)

\* input(): the regular expressions in their order.  The result is a set: empty if
\* the text is refused or TranslationError thrown, so that operator >> sets the
\* failbit, and with TooLong in it if that exception leaves operator >>.
Input(text) ==
    CASE text.kind = "unix" ->
           LET path == Word(text.path) IN
           {IF path # <<>> /\ path[1] = At THEN CreateAbstractUnix(Tail(path))
            ELSE IF path = <<>> THEN CreateUnixAny ELSE CreateUnix(path)}
      [] text.kind = "ipv4" -> WithService(IPv4, text.node, text.scope, text.service)
      [] text.kind = "ipv6" -> WithService(IPv6, text.node, text.scope, text.service)
      [] OTHER -> {}

-----------------------------------------------------------------------------
Texts ==
    {UnixText(p) : p \in UnixPaths}
        \cup {IPText("ipv4", n, 0, s) : n \in DOMAIN Nodes, s \in Services}
        \cup {IPText("ipv6", n, c, s) : n \in DOMAIN Nodes, c \in {0, 1}, s \in Services}

\* What the factories return for paths, for addresses in binary form and for names
UnixAddresses ==
    {CreateUnix(p) : p \in UnixPaths} \cup {CreateAbstractUnix(p) : p \in UnixPaths} \cup {CreateUnixAny}
BinaryAddresses ==
    LET ports == UNION {GetServByName(s) : s \in Services} IN
    {FromIPv4(0, 0), FromIPv6(0, 0, 0)}
        \cup {FromIPv4(1, p) : p \in ports} \cup {FromIPv6(1, 1, p) : p \in ports}
NamedAddresses ==
    (UNION {WithService(Unspec, n, 0, s) : n \in DOMAIN Nodes, s \in Services})
        \cup (UNION {WithPort(Unspec, n, 0, p) : n \in DOMAIN Nodes, p \in 0 .. 2})

Created == ({Default} \cup UnixAddresses \cup BinaryAddresses \cup NamedAddresses) \ {TooLong}

\* Addresses that the kernel gives to accept() and getsockname()
KernelAddresses ==
    {CreateUnixAny, FromIPv4(1, 2), FromIPv6(1, 1, 2), Make(<<Unix>> \o [i \in 1 .. PathSize |-> Letter], SizeUn)}

SaInit == sa = Default

Assign == sa' \in Created
\* operator >> that fails in either way leaves the address as it is.
Read == \E t \in Texts : sa' \in Input(t) \ {TooLong}
FromPointer == \E s \in Created \cup KernelAddresses, n \in Sizes : sa' = FromMemory(s.mem, n)
\* Nothing is checked.
SetUsedSize == \E n \in Sizes : sa' = [sa EXCEPT !.used = n]

\* getSizePointer() and a call of the kernel, which writes what there is room for
\* and tells the whole size
Fill ==
    \E k \in KernelAddresses :
        LET room == AvailableSize(sa) IN
        sa' = [mem |-> [i \in 1 .. MemSize |-> IF i <= room /\ i <= k.used THEN k.mem[i] ELSE sa.mem[i]],
               used |-> k.used]

SaNext == Assign \/ Read \/ FromPointer \/ SetUsedSize \/ Fill

-----------------------------------------------------------------------------
(* Properties *)

\* Type correctness.
SaTypeOK == Len(sa.mem) = MemSize /\ sa.used \in 0 .. Modulus - 1

\* operator < and operator == agree with each other as ordered containers need it,
\* for any used size of the one and addresses that the library or the kernel made.
OneOfThree ==
    \A s \in Created \cup KernelAddresses :
        /\ Equal(sa, s) => ~Less(sa, s)
        /\ ~(Less(sa, s) /\ Less(s, sa))
        /\ Less(sa, s) \/ Less(s, sa) \/ Equal(sa, s)

\* Whatever was done to the object, with any used size, operator >> does not refuse
\* what operator << prints: it reads an address with the same text.  It throws
\* TooLongUnixSocketPath only for a path that fills sun_path, as the kernel gives
\* one.  The exceptions are white space in a path and the path of one '@', which is
\* read as an empty abstract one and printed as nothing.  IP addresses of the
\* factories are read back as they were.
TextStable ==
    LET t == Output(sa) IN
    /\ t.kind # "other" => Input(t) # {}
    /\ TooLong \in Input(t) => Len(t.path) = PathSize
    /\ (t.kind = "unix" => Space \notin Range(t.path) /\ t.path # <<At>>) =>
         \A s \in Input(t) \ {TooLong} : Output(s) = t
    /\ sa \in Created /\ Family(sa) \in {IPv4, IPv6} => \E s \in Input(t) : Equal(s, sa)

\* operator << of a Unix address does not look behind the union, even when the path
\* fills sun_path without a NUL or the used size is larger than the union, and prints
\* nothing behind the used size.  (A used size below offsetof(sun_path) wraps, and
\* all of the path is printed.)
OutputInside ==
    Family(sa) = Unix => /\ Off + EndOfPath(sa) + 1 <= MemSize
                         /\ Off <= sa.used => Len(PathText(sa)) <= sa.used - Off

\* An address that was made in any way, and used again in any other, can be
\* ordered, printed and read back.
AddressSound == SaTypeOK /\ OneOfThree /\ TextStable /\ OutputInside
=============================================================================
