--------------------------- MODULE ControlMessage ---------------------------
(***************************************************************************)
(* ControlMessage: a vector of bytes with ancillary data, and the iterator *)
(* over its messages.                                                      *)
(*                                                                         *)
(* Memory is counted in cells of four bytes.  Of a cmsghdr (four cells)    *)
(* the first cell holds cmsg_len and the third cmsg_level with cmsg_type;  *)
(* the data of a message is its number, in every cell.  Sizes are of type  *)
(* size_t, modulo SizeT.                                                   *)
(***************************************************************************)
EXTENDS Integers, Sequences

CONSTANTS ValueSizes,  \* sizes of the values that are appended and received
          Capacities,  \* arguments of reserve(), markUsed() and the constructor
          MaxMessages, \* bound: messages in a behaviour
          SizeT        \* bound: sizes are below it, as they are below 2^64

Hdr == 4               \* sizeof(struct cmsghdr)
AlignTo == 2           \* sizeof(size_t)

ASSUME CmAssumption ==
    /\ ValueSizes \subseteq Nat \ {0} /\ Capacities \subseteq Nat /\ MaxMessages \in Nat
    /\ SizeT \in Nat \ {0} /\ \A n \in Capacities : n < SizeT

VARIABLES cm,       \* the members buffer and usedSize
          it,       \* the members ptr and size of an iterator in use
          seen,     \* the messages the iterator has passed
          written,  \* the messages in cm, as append() or the kernel wrote them,
                    \* or Unknown
          made      \* number of messages so far
cmVars == <<cm, it, seen, written, made>>

NoIterator == [ptr |-> -1, size |-> 0]
Unknown == <<[kind |-> -1, len |-> -1]>>

CmInit ==
    /\ cm = [buffer |-> <<>>, usedSize |-> 0] /\ it = NoIterator
    /\ seen = <<>> /\ written = <<>> /\ made = 0

-----------------------------------------------------------------------------
\* CMSG_ALIGN, CMSG_LEN and CMSG_SPACE
CmsgAlign(n) == ((n + AlignTo - 1) \div AlignTo) * AlignTo
CmsgLen(n) == Hdr + n
CmsgSpace(n) == Hdr + CmsgAlign(n)

\* std::vector::resize, with zeros behind what there was
Resize(buffer, n) == [i \in 1 .. n |-> IF i <= Len(buffer) THEN buffer[i] ELSE 0]

\* A message of the given kind and length is written behind the first at cells;
\* what does not fit is left out.
Write(buffer, at, kind, len) ==
    [i \in 1 .. Len(buffer) |->
        CASE i = at + 1 -> len
          [] i = at + 3 -> kind
          [] i > at + Hdr /\ i <= at + len -> kind
          [] OTHER -> buffer[i]]

\* append() of a value of n cells, at the end of what is used; capacity behind
\* it is given up
Appended(c, kind, n) ==
    [buffer |-> Write(Resize(c.buffer, c.usedSize + CmsgSpace(n)), c.usedSize, kind, CmsgLen(n)),
     usedSize |-> c.usedSize + CmsgSpace(n)]

\* std::vector::resize() throws before sizes leave the type.
CmAppend(n) ==
    /\ made < MaxMessages /\ it = NoIterator /\ cm.usedSize + CmsgSpace(n) < SizeT
    /\ cm' = Appended(cm, made + 1, n)
    /\ written' = (IF written = Unknown THEN Unknown
                   ELSE Append(written, [kind |-> made + 1, len |-> CmsgLen(n)]))
    /\ made' = made + 1 /\ UNCHANGED <<it, seen>>

\* reserve(); the application does not shrink the vector below what is used
CmReserve(n) ==
    /\ it = NoIterator /\ n >= cm.usedSize
    /\ cm' = [cm EXCEPT !.buffer = Resize(@, n)]
    /\ UNCHANGED <<it, seen, written, made>>

\* markUsed() throws Overflow
Overflow(c, n) == Len(c.buffer) < n

CmMarkUsed(n) ==
    /\ it = NoIterator /\ ~Overflow(cm, n) /\ n # cm.usedSize
    /\ cm' = [cm EXCEPT !.usedSize = n]
    /\ written' = Unknown /\ UNCHANGED <<it, seen, made>>

\* recvmsg() with the whole capacity, and markUsed(msg_controllen): the kernel
\* cuts a message off that does not fit, and leaves it out if not even its
\* header does.
CmReceive(n) ==
    LET room == Len(cm.buffer)
        len == IF CmsgLen(n) < room THEN CmsgLen(n) ELSE room
        used == IF room < Hdr THEN 0 ELSE IF CmsgSpace(n) < room THEN CmsgSpace(n) ELSE room
    IN  /\ made < MaxMessages /\ it = NoIterator /\ room > 0
        /\ cm' = [buffer |-> IF room < Hdr THEN cm.buffer ELSE Write(cm.buffer, 0, made + 1, len),
                  usedSize |-> used]
        /\ written' = (IF room < Hdr THEN <<>> ELSE <<[kind |-> made + 1, len |-> len]>>)
        /\ made' = made + 1 /\ UNCHANGED <<it, seen>>

\* ControlMessage(data, n), a copy of raw bytes
FromBytes(data, n) == [buffer |-> SubSeq(data, 1, n), usedSize |-> n]

CmCopy(n) ==
    /\ it = NoIterator /\ n <= Len(cm.buffer)
    /\ cm' = FromBytes(cm.buffer, n)
    /\ written' = (IF n = cm.usedSize THEN written ELSE Unknown)
    /\ UNCHANGED <<it, seen, made>>

-----------------------------------------------------------------------------
(* Iteration: for (i = begin(); i != end(); ++i) with *i in the body *)

Begin(c) == [ptr |-> 0, size |-> c.usedSize]
AtEnd(c, i) == i.ptr = c.usedSize

CmBegin ==
    /\ it = NoIterator /\ cm.usedSize > 0
    /\ it' = Begin(cm) /\ seen' = <<>>
    /\ UNCHANGED <<cm, written, made>>

\* Mutant of BadCMSG: the length is not compared with the size that is left.
BadCMSGByHeader(c, i) == i.size < Hdr \/ c.buffer[i.ptr + 1] < Hdr

\* dereference() throws BadCMSG
BadCMSG(c, i) == i.size < Hdr \/ c.buffer[i.ptr + 1] < Hdr \/ i.size < c.buffer[i.ptr + 1]

\* increment()
Increment(c, i) ==
    LET asize == CmsgAlign(c.buffer[i.ptr + 1]) IN
    [ptr |-> i.ptr + asize, size |-> (i.size - asize) % SizeT]

\* One turn of the loop; an exception leaves it.
CmVisit ==
    /\ it # NoIterator /\ it.ptr < cm.usedSize
    /\ IF BadCMSG(cm, it) THEN it' = NoIterator /\ UNCHANGED seen
       ELSE /\ seen' = Append(seen, [kind |-> cm.buffer[it.ptr + 3], len |-> cm.buffer[it.ptr + 1]])
            /\ it' = Increment(cm, it)
    /\ UNCHANGED <<cm, written, made>>

CmEnd == it # NoIterator /\ AtEnd(cm, it) /\ it' = NoIterator /\ UNCHANGED <<cm, seen, written, made>>

\* getData<T>() of a type of n cells throws TruncatedCMSG
Truncated(message, n) == message.len < CmsgLen(n)

CmNext ==
    \/ \E n \in ValueSizes : CmAppend(n) \/ CmReceive(n)
    \/ \E n \in Capacities : CmReserve(n) \/ CmMarkUsed(n) \/ CmCopy(n)
    \/ CmBegin \/ CmVisit \/ CmEnd

CmSpec == CmInit /\ [][CmNext]_cmVars

-----------------------------------------------------------------------------
(* Properties *)

\* Type correctness.
CmTypeOK ==
    /\ cm.usedSize \in 0 .. Len(cm.buffer) /\ made \in 0 .. MaxMessages
    /\ it.ptr \in Nat \cup {-1} /\ it.size \in 0 .. SizeT - 1

\* Whatever bytes the message holds, the iterator and its size end where the used
\* bytes do, so that end() is met or BadCMSG thrown.  There is one way out: the last
\* message of an unaligned used size, as the constructor and a truncating recvmsg()
\* give it.  increment() steps over end() then, by the padding of that message and
\* not more, and the size wraps; a loop that compares with end() does not stop there.
IteratorInside ==
    it # NoIterator =>
        \/ it.ptr + it.size = cm.usedSize
        \/ cm.usedSize < it.ptr /\ it.ptr = CmsgAlign(cm.usedSize)

\* The loop sees all messages that append() or the kernel wrote, in order and one that
\* recvmsg() has cut off included, and no exception ends it before.  (What is appended
\* behind a message that ends unaligned is not found.)
AllSeen ==
    (/\ it # NoIterator /\ written # Unknown
     /\ CmsgAlign(cm.usedSize) = cm.usedSize \/ Len(written) = 1) =>
        /\ SubSeq(written, 1, Len(seen)) = seen
        /\ IF it.ptr < cm.usedSize THEN ~BadCMSG(cm, it) ELSE seen = written

\* The iterator is right for every content of the buffer.
IterationSound == CmTypeOK /\ IteratorInside /\ AllSeen
=============================================================================
