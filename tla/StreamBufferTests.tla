------------------------- MODULE StreamBufferTests -------------------------
(***************************************************************************)
(* The tests of tst/StreamBufferTest.cpp as behaviours of StreamBuffer.  A *)
(* test is a sequence of calls and expectations, with the sizes of the     *)
(* original; a and b are its stream buffers, and the data it appends are   *)
(* the numbers 1, 2, 3...                                                  *)
(***************************************************************************)
EXTENDS StreamBuffer

CONSTANTS a, b,    \* the two stream buffers
          IovMax   \* IOV_MAX

VARIABLES test,  \* the test that runs
          pc     \* its next element
testVars == <<sb, mem, stored, result, calls, test, pc>>

-----------------------------------------------------------------------------
(* Calls and expectations *)

Do(call, n) == [is |-> "call", call |-> call, o |-> a, n |-> n]
Alloc(n) == Do("allocate", n)
App(n) == Do("appendData", n)
Use(n) == Do("increaseUsed", n)
Array(n) == Do("getMutableArray", n)
Cut(n) == Do("cutHead", n)
Splice(n) == Do("spliceHead", n)             \* to b
Get(n) == Do("getData", n)
ReadAt(offset, n) == Do("getConstArray", n) @@ [offset |-> offset]
AppB == Do("appendStreamBuffer", 0)          \* b
CopyToB == Do("copy", 0)
Lin == Do("linearize", 0)

Expect(what, v) == [is |-> what, o |-> a, v |-> v]
Sizes3(free, used, total) == Expect("sizes", <<free, used, total>>)
AtLeast(free, used, total) == Expect("atLeast", <<free, used, total>>)
Used(lengths) == Expect("used", lengths)
Free(lengths) == Expect("free", lengths)
Data(m, n) == Expect("data", [i \in 1 .. n - m + 1 |-> m + i - 1])
Returned(m, n) == Expect("returned", [i \in 1 .. n - m + 1 |-> m + i - 1])
Throws(call, n) == Expect("throws", n) @@ [call |-> call]
SameMemory == Expect("same", <<>>)
Aligned == Expect("aligned", <<>>)

\* The same of the other stream buffer.
Of(o, e) == [e EXCEPT !.o = o]
Times(n, e) == [i \in 1 .. n |-> e]

\* getUsedIOVec() and getFreeIOVec(): the lengths of the vectors
UsedBuffers(o) == TakeCells(sb[o].buffers, sb[o].usedSize)
FreeBuffers(o) == DropCells(sb[o].buffers, sb[o].usedSize)
Lengths(bs) == [i \in 1 .. Less(Len(bs), IovMax) |-> bs[i].size]
UsedIOVec(o) == Lengths(UsedBuffers(o))
FreeIOVec(o) == Lengths(FreeBuffers(o))

\* EXPECT_PROPER_IOVEC_SIZES
Proper(o) ==
    /\ SizeOf(UsedBuffers(o)) = sb[o].usedSize /\ \A i \in DOMAIN UsedIOVec(o) : UsedIOVec(o)[i] > 0
    /\ SizeOf(FreeBuffers(o)) = FreeSize(o) /\ \A i \in DOMAIN FreeIOVec(o) : FreeIOVec(o)[i] > 0

Holds(e) ==
    /\ Len(sb[e.o].buffers) <= IovMax => Proper(e.o)
    /\ CASE e.is = "sizes" -> <<FreeSize(e.o), sb[e.o].usedSize, sb[e.o].totalSize>> = e.v
         [] e.is = "atLeast" -> /\ FreeSize(e.o) >= e.v[1] /\ sb[e.o].usedSize = e.v[2]
                                /\ sb[e.o].totalSize >= e.v[3]
         [] e.is = "used" -> UsedIOVec(e.o) = e.v
         [] e.is = "free" -> FreeIOVec(e.o) = e.v
         [] e.is = "data" -> Content(e.o) = e.v
         [] e.is = "returned" -> result = e.v
         [] e.is = "throws" -> e.v > (CASE e.call = "increaseUsed" -> FreeSize(e.o)
                                        [] e.call = "cutHead" -> sb[e.o].totalSize
                                        [] e.call = "getData" -> sb[e.o].usedSize)
         [] e.is = "same" -> sb[a].buffers[1] = sb[b].buffers[1]
         [] e.is = "aligned" -> sb[e.o].buffers[1].data % Align = 0 /\ Len(UsedIOVec(e.o)) = 1

Perform(c) ==
    \/ c.call = "allocate" /\ Allocate(c.o, c.n)
    \/ c.call = "appendData" /\ AppendData(c.o, c.n)
    \/ c.call = "increaseUsed" /\ Receive(c.o, c.n)
    \/ c.call = "getMutableArray" /\ GetMutableArray(c.o, c.n)
    \/ c.call = "cutHead" /\ CutHead(c.o, c.n)
    \/ c.call = "spliceHead" /\ SpliceHead(c.o, b, c.n)
    \/ c.call = "getData" /\ GetData(c.o, c.n)
    \/ c.call = "getConstArray" /\ GetConstArray(c.o, c.offset, c.n)
    \/ c.call = "appendStreamBuffer" /\ AppendStreamBuffer(c.o, b)
    \/ c.call = "copy" /\ Copy(c.o, b)
    \/ c.call = "linearize" /\ Linearize(c.o)
    \/ /\ c.call = "linearize" /\ (sb[c.o].usedSize > 0 => ~Scattered(c.o, sb[c.o].usedSize, Align))
       /\ UNCHANGED <<sb, mem, stored, result, calls>>

-----------------------------------------------------------------------------
(* The tests *)

AllocateTests == <<
    <<Sizes3(0, 0, 0)>>,
    <<Alloc(100), AtLeast(100, 0, 100)>>,
    <<Alloc(1), AtLeast(8, 0, 8)>>,
    <<Alloc(7), AtLeast(8, 0, 8)>>,
    <<Alloc(100), Sizes3(104, 0, 104), Alloc(1), Sizes3(104, 0, 104), Alloc(99), Sizes3(104, 0, 104)>>,
    <<Alloc(80), Sizes3(80, 0, 80), Use(50), Sizes3(30, 50, 80)>>,
    <<Alloc(100), Throws("increaseUsed", 105)>> >>

UsedIOVecTests == <<
    <<Used(<<>>), Alloc(80), Used(<<>>), Use(40), Used(<<40>>)>>,
    <<Alloc(80), Use(80), Alloc(160), Use(160), Alloc(80), Use(40), Used(<<80, 160, 40>>)>>,
    Times(IovMax + 3, App(16)) \o <<Used(Times(IovMax, 16))>> >>

FreeIOVecTests == <<
    <<Free(<<>>), Alloc(80), Free(<<80>>), Use(40), Free(<<40>>), Use(40), Free(<<>>)>>,
    <<Alloc(80), Alloc(240), Alloc(320), Use(40), Free(<<40, 160, 80>>)>>,
    [i \in 1 .. IovMax + 3 |-> Alloc(i * 16)] \o <<Free(Times(IovMax, 16))>> >>

AppendDataTests == <<
    <<App(12), AtLeast(0, 12, 12), Used(<<12>>), Data(1, 12)>>,
    Times(4, App(8)) \o <<AtLeast(0, 32, 32), Used(<<8, 8, 8, 8>>), Data(1, 32)>>,
    <<Alloc(10), App(8), App(8), App(8), AtLeast(0, 24, 24), Data(1, 24)>>,
    <<App(8), Get(8), Returned(1, 8)>>,
    <<App(12), Data(1, 12)>> >>

AppendStreamBufferTests == <<
    <<Alloc(80), App(8), AppB, Sizes3(72, 8, 80), Data(1, 8)>>,
    <<Of(b, App(8)), Of(b, Alloc(80)), Of(b, App(8)), AppB, Sizes3(0, 16, 16), Data(1, 16)>>,
    <<App(8), Alloc(80), App(8), Of(b, App(8)), Of(b, Alloc(80)), Of(b, App(8)), AppB,
      Sizes3(72, 32, 104), Data(1, 32)>>,
    <<App(8), App(8), Of(b, App(8)), Of(b, Alloc(80)), Of(b, App(8)), AppB, Sizes3(0, 32, 32), Data(1, 32)>> >>

GetMutableArrayTests == <<
    <<Array(10), AtLeast(0, 10, 10), Get(1), Returned(1, 1)>>,
    <<Alloc(256), Array(10), AtLeast(246, 10, 256), Get(1), Returned(1, 1)>>,
    <<Alloc(8), Array(32), AtLeast(0, 32, 32), Data(1, 32)>>,
    <<Alloc(8), App(1), Array(32), AtLeast(0, 33, 33), Data(1, 33)>> >>

LinearizeTests == <<
    <<Lin, Sizes3(0, 0, 0)>>,
    <<Alloc(80), Lin, Sizes3(80, 0, 80)>>,
    <<Alloc(100), Use(11), Cut(1), Lin, AtLeast(0, 10, 10), Used(<<10>>), Aligned>>,
    <<App(18), App(18), App(18), Lin, AtLeast(0, 54, 54), Used(<<54>>), Aligned, Data(1, 54),
      CopyToB, Lin, SameMemory>> >>

SpliceHeadTests == <<
    <<Splice(0), Sizes3(0, 0, 0), Used(<<>>), Of(b, Sizes3(0, 0, 0))>>,
    <<Alloc(80), Use(15), Sizes3(65, 15, 80), Splice(10), Sizes3(65, 5, 70), Of(b, Sizes3(0, 10, 10))>>,
    <<Alloc(80), Use(15), Splice(20), Sizes3(60, 0, 60), Of(b, Sizes3(5, 15, 20))>>,
    <<App(10), Splice(3), Data(4, 10), Of(b, Data(1, 3))>>,
    <<App(15), App(10), Splice(20), Data(21, 25), Of(b, Data(1, 20))>>,
    <<Alloc(8), Throws("cutHead", 9)>> >>

CutHeadTests == <<
    <<Cut(0), Sizes3(0, 0, 0), Used(<<>>)>>,
    <<Alloc(80), Use(15), Sizes3(65, 15, 80), Cut(10), Sizes3(65, 5, 70)>>,
    <<Alloc(80), Use(15), Cut(20), Sizes3(60, 0, 60)>>,
    <<App(10), Cut(3), Data(4, 10)>>,
    <<App(15), App(10), Cut(20), Data(21, 25)>>,
    <<Alloc(8), Throws("cutHead", 9)>> >>

GetDataTests == <<
    <<Alloc(100), App(1), CopyToB, App(7), Get(8), Returned(1, 8), SameMemory>>,
    <<Alloc(100), App(1), App(8), Cut(1), Get(8), Returned(2, 9), Aligned>>,
    <<App(8), App(8), App(8), App(8), Used(<<8, 8, 8, 8>>), Get(32), Returned(1, 32)>>,
    <<Alloc(100), Throws("getData", 1)>> >>

GetConstArrayTests == <<
    <<Alloc(100), Use(4), Throws("getData", 6)>>,
    <<Alloc(100), App(8), App(8), ReadAt(0, 8), Returned(1, 8), ReadAt(8, 8), Returned(9, 16)>>,
    <<Alloc(24), App(8), App(8), App(8), Used(<<24>>), Alloc(16), App(8), App(8), Used(<<24, 16>>),
      ReadAt(8, 32), Returned(9, 40)>>,
    <<App(12), CopyToB, Get(1), Of(b, Get(1)), SameMemory>>,
    <<Alloc(16), Use(15), Array(2), AtLeast(0, 17, 17)>> >>

Tests ==
    AllocateTests \o UsedIOVecTests \o FreeIOVecTests \o AppendDataTests \o AppendStreamBufferTests
        \o GetMutableArrayTests \o LinearizeTests \o SpliceHeadTests \o CutHeadTests \o GetDataTests
        \o GetConstArrayTests

-----------------------------------------------------------------------------
Current == Tests[test][pc]

TestInit == Init /\ test \in DOMAIN Tests /\ pc = 1

TestNext ==
    /\ pc \in DOMAIN Tests[test]
    /\ \E c \in {Current} :
         IF c.is = "call" THEN Perform(c) ELSE UNCHANGED <<sb, mem, stored, result, calls>>
    /\ pc' = pc + 1 /\ UNCHANGED test

\* The model passes the tests: every expectation of every test holds in it, and
\* every call of them can be made (tst/StreamBufferTest.cpp).
Passed ==
    pc \in DOMAIN Tests[test] =>
        \A c \in {Current} : IF c.is = "call" THEN ENABLED Perform(c) ELSE Holds(c)
=============================================================================
