------------------------- MODULE SocketAddressTests -------------------------
(***************************************************************************)
(* The expectations of tst/SocketAddressTest.cpp, about the definitions of *)
(* SocketAddress; MCStreamBuffer checks them.  The paths of the            *)
(* tests are shortened to PathSize; the addresses and services are those   *)
(* that Nodes and Services have in their place.                            *)
(***************************************************************************)
EXTENDS SocketAddress

foo == <<Letter, Letter, Letter>>
bar == <<Letter + 1, Letter + 1, Letter + 1>>
maxPath == [i \in 1 .. PathSize - 1 |-> Letter]
tooLongPath == [i \in 1 .. PathSize |-> Letter]
ssh == Swap(1)

\* EXPECT_EQ_SA
Same(s, t) ==
    /\ Family(s) = Family(t) /\ s.used = t.used /\ AvailableSize(s) = AvailableSize(t)
    /\ Differing(s, t, AvailableSize(s)) = {}

\* std::string(sun_path + offset)
CString(s, offset) ==
    LET from == Off + offset + 1
        end == CHOOSE i \in from .. MemSize : s.mem[i] = NUL /\ \A j \in from .. i - 1 : s.mem[j] # NUL
    IN  SubSeq(s.mem, from, end - 1)

UnixTests ==
    /\ Family(Default) = Unspec
    /\ Family(CreateUnix(foo)) = Unix /\ CString(CreateUnix(foo), 0) = foo
    /\ CreateUnix(maxPath) # TooLong /\ CreateUnix(tooLongPath) = TooLong
    /\ Family(CreateUnixAny) = Unix /\ CreateUnixAny.used = Off
    /\ LET s == CreateAbstractUnix(foo) IN
         Family(s) = Unix /\ s.mem[Off + 1] = NUL /\ CString(s, 1) = foo
    /\ CreateAbstractUnix(maxPath) # TooLong /\ CreateAbstractUnix(tooLongPath) = TooLong

CreateIPv4(node, service) == WithService(IPv4, node, 0, service)
CreateIPv6(node, scope, service) == WithService(IPv6, node, scope, service)

IPv4Tests ==
    /\ \A s \in CreateIPv4("host4", "ssh") : Family(s) = IPv4 /\ Address(s) = 1 /\ IPPort(s) = ssh
    /\ \A s \in WithPort(IPv4, "host4", 0, ssh) : Family(s) = IPv4 /\ IPPort(s) = ssh
    /\ \A service \in {"ssh", "2"} : \A t \in CreateIPv4("host4", service) :
         /\ \A p \in GetServByName(service) : Same(t, FromIPv4(Address(t), p))
         /\ Same(t, FromIPv4(Address(t), IPPort(t)))
    /\ CreateIPv4("nosuchname", "nosuchservice") = {}
    /\ GetServByName("nosuchservice") = {}
    /\ Address(FromIPv4(0, 0)) = 0 /\ IPPort(FromIPv4(0, 0)) = 0

IPv6Tests ==
    /\ \A s \in CreateIPv6("host6", 0, "ssh") :
         Family(s) = IPv6 /\ Address(s) = 1 /\ IPPort(s) = ssh /\ s.mem[4] = 0
    /\ \A scope \in {0, 1} : \A s \in WithPort(IPv6, "host6", scope, ssh) :
         Family(s) = IPv6 /\ Address(s) = 1 /\ ScopeId(s) = scope /\ IPPort(s) = ssh
    /\ \A scope \in {0, 1}, service \in {"ssh", "2"} : \A t \in CreateIPv6("host6", scope, service) :
         /\ \A p \in GetServByName(service) : Same(t, FromIPv6(Address(t), scope, p))
         /\ Same(t, FromIPv6(Address(t), ScopeId(t), IPPort(t)))
    /\ CreateIPv6("nosuchname", 0, "nosuchservice") = {}
    /\ FromIPv6(0, 0, 0).mem = Padded(<<IPv6>>)

EitherTests ==
    \A node \in {"host4", "host6"} :
        LET family == IF node = "host4" THEN IPv4 ELSE IPv6 IN
        \A s \in WithService(Unspec, node, 0, "ssh") \cup WithPort(Unspec, node, 0, ssh) :
            Family(s) = family /\ Address(s) = 1 /\ IPPort(s) = ssh

PointerTests ==
    /\ Same(FromMemory(CreateUnix(foo).mem, CreateUnix(foo).used), CreateUnix(foo))
    /\ LET t == CreateUnix(maxPath) IN Differing(t, FromMemory(t.mem, MemSize + 1), SizeUn) = {}
    /\ \A t \in CreateIPv4("host4", "2") : Same(t, FromMemory(t.mem, SizeIn))
    /\ \A t \in CreateIPv6("host6", 1, "2") : Same(t, FromMemory(t.mem, SizeIn6))

SizeTests ==
    /\ Default.used = 0 /\ AvailableSize(Default) >= SizeUn
    /\ CreateUnix(foo).used = Off + 4 /\ AvailableSize(CreateUnix(foo)) = SizeUn
    /\ CreateAbstractUnix(foo).used = Off + 4 /\ AvailableSize(CreateAbstractUnix(foo)) = SizeUn
    /\ \A s \in CreateIPv4("host4", "ssh") : s.used = SizeIn /\ AvailableSize(s) = SizeIn
    /\ \A s \in CreateIPv6("host6", 0, "ssh") : s.used = SizeIn6 /\ AvailableSize(s) = SizeIn6
    /\ Output([CreateUnix(foo) EXCEPT !.used = Off + 2]) = UnixText(<<Letter, Letter>>)

OutputTests ==
    /\ Output(Default) = NoText
    /\ \A path \in {foo, maxPath} :
         /\ Output(CreateUnix(path)) = UnixText(path)
         /\ Output(CreateAbstractUnix(path)) = UnixText(<<At>> \o path)
    /\ Output(CreateUnixAny) = UnixText(<<>>) /\ Output(CreateUnix(<<>>)) = UnixText(<<>>)
    /\ Output(Make(<<Unix>> \o tooLongPath, SizeUn)) = UnixText(tooLongPath)
    /\ \A s \in CreateIPv4("host4", "2") : Output(s) = IPText("ipv4", "host4", 0, "2")
    /\ \A scope \in {0, 1} : \A s \in CreateIPv6("host6", scope, "2") :
         Output(s) = IPText("ipv6", "host6", scope, "2")

InputTests ==
    /\ Input(NoText) = {}
    /\ \A s \in Input(UnixText(foo)) : Family(s) = Unix /\ CString(s, 0) = foo
    /\ \A s \in Input(UnixText(<<At>> \o foo)) :
         Family(s) = Unix /\ s.mem[Off + 1] = NUL /\ CString(s, 1) = foo
    /\ \A s \in Input(UnixText(<<>>)) : Family(s) = Unix /\ CString(s, 0) = <<>>
    /\ \A node \in {"host4", "localhost"}, service \in {"1", "ssh"} :
         \A s \in Input(IPText("ipv4", node, 0, service)) : Family(s) = IPv4 /\ Address(s) = 1 /\ IPPort(s) = ssh
    /\ \A s \in Input(IPText("ipv6", "host6", 0, "1")) :
         Family(s) = IPv6 /\ Address(s) = 1 /\ IPPort(s) = ssh /\ s.mem[4] = 0
    /\ \A kind \in {"ipv4", "ipv6"}, node \in {"localhost", "host6"} :
         Input(IPText(kind, node, 0, "nosuchservice")) = {}

AnyTests ==
    LET all(S) == \A s \in S : IsAny(s)
        no(S) == \A s \in S : ~IsAny(s)
        with(node, port) == WithPort(Unspec, node, 0, port)
    IN  /\ all({Default, CreateUnixAny, FromIPv4(0, 0), FromIPv6(0, 0, 0)})
        /\ all(with("any4", 0)) /\ all(with("any6", 0))
        /\ all(Input(UnixText(<<>>))) /\ all(Input(IPText("ipv4", "any4", 0, "0")))
        /\ all(Input(IPText("ipv6", "any6", 0, "0")))
        /\ no(with("any4", 1)) /\ no(with("host4", 0)) /\ no(with("any6", 1)) /\ no(with("host6", 0))
        /\ no({CreateUnix(foo), CreateAbstractUnix(foo)})

ComparisonTests ==
    /\ \A node \in {"host4", "host6"}, port \in 0 .. 3 :
         \A s \in WithPort(Unspec, node, 0, port) : IPPort(s) = port
    /\ LET path == <<Letter, NUL>> IN
         Equal(CreateUnix(path), CreateUnix(path)) /\ ~Equal(CreateUnix(<<Letter>>), CreateUnix(path))
    /\ Equal(FromIPv4(1, 1), FromIPv4(1, 1)) /\ ~Equal(FromIPv4(1, 1), FromIPv4(1, 2))
    /\ ~Equal(FromIPv4(1, 1), FromIPv6(1, 0, 1))
    /\ LET aa == <<Letter, Letter>>
           ordered == <<Default, CreateAbstractUnix(aa), CreateAbstractUnix(aa \o <<NUL>>), CreateUnix(foo),
                        CreateUnix(bar), FromIPv6(1, 0, Swap(1)), FromIPv6(2, 0, Swap(1)), FromIPv6(2, 0, Swap(2))>>
           ipv4 == <<FromIPv4(1, Swap(1)), FromIPv4(2, Swap(1)), FromIPv4(2, Swap(2)), FromIPv6(1, 0, Swap(1))>>
       IN  \A list \in {ordered, ipv4} : \A i, j \in DOMAIN list : Less(list[i], list[j]) <=> i < j

AddressTestsPass ==
    /\ UnixTests /\ IPv4Tests /\ IPv6Tests /\ EitherTests /\ PointerTests /\ SizeTests
    /\ OutputTests /\ InputTests /\ AnyTests /\ ComparisonTests
=============================================================================
