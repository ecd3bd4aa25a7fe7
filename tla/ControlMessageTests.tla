------------------------- MODULE ControlMessageTests -------------------------
(***************************************************************************)
(* The expectations of tst/ControlMessageTest.cpp, about the definitions   *)
(* of ControlMessage; MCStreamBuffer checks them.                          *)
(***************************************************************************)
EXTENDS ControlMessage

Empty == [buffer |-> <<>>, usedSize |-> 0]
One == Appended(Empty, 1, 1)
Two == Appended(One, 2, 1)

AppendTests ==
    /\ Empty.usedSize = 0 /\ Empty.buffer = <<>>
    /\ One.usedSize = CmsgSpace(1)
    /\ Appended(One, 2, 3).usedSize = CmsgSpace(1) + CmsgSpace(3)

\* The message that an iterator is at, and its data
MessageAt(c, i) == [kind |-> c.buffer[i.ptr + 3], len |-> c.buffer[i.ptr + 1]]
DataAt(c, i) == c.buffer[i.ptr + Hdr + 1]

IteratorTests ==
    /\ LET first == Begin(Two)
           second == Increment(Two, first)
       IN  /\ ~AtEnd(Two, first) /\ ~BadCMSG(Two, first) /\ MessageAt(Two, first).kind = 1 /\ DataAt(Two, first) = 1
           /\ ~AtEnd(Two, second) /\ ~BadCMSG(Two, second) /\ MessageAt(Two, second).kind = 2 /\ DataAt(Two, second) = 2
           /\ AtEnd(Two, Increment(Two, second))
    /\ AtEnd(Empty, Begin(Empty))

ConstructorTests ==
    /\ LET c == FromBytes(One.buffer, CmsgLen(1)) IN
         c.usedSize = CmsgLen(1) /\ c.buffer = SubSeq(One.buffer, 1, CmsgLen(1))
    /\ LET reserved == [Empty EXCEPT !.buffer = Resize(@, One.usedSize + 25)] IN
         Len(reserved.buffer) >= One.usedSize + 25 /\ ~Overflow(reserved, One.usedSize)
    /\ Overflow(Empty, 1)

ExceptionTests ==
    /\ Truncated([kind |-> 0, len |-> 0], 1)
    /\ LET short == FromBytes(One.buffer, 1)
           header == FromBytes(One.buffer, Hdr)
           small == [One EXCEPT !.buffer[1] = Hdr - 1]
       IN  \A c \in {short, header, small} : BadCMSG(c, Begin(c))

MessageTestsPass ==
    /\ AppendTests /\ IteratorTests /\ ConstructorTests /\ ExceptionTests
=============================================================================
