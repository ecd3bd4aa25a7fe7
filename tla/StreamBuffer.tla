---------------------------- MODULE StreamBuffer ----------------------------
(***************************************************************************)
(* StreamBuffer: used and free data in a list of buffers over shared       *)
(* memory blocks.                                                          *)
(*                                                                         *)
(* A block is an array of cells; a buffer is a part of a block (base, the  *)
(* offset of data in it, size).  The used data are the first usedSize      *)
(* cells of the list.  A block is free again when no buffer refers to it   *)
(* (boost::shared_array) and a new block holds garbage, 0.  The bytes that *)
(* are stored are numbered, so that no two are equal.  Calls that throw    *)
(* (Underflow, Overflow) change nothing, and zero sizes are left out.      *)
(***************************************************************************)
EXTENDS Integers, Sequences, SequencesExt

CONSTANTS Objects,   \* StreamBuffer objects
          Blocks,    \* bound: memory blocks
          BlockMax,  \* bound: the largest size of a block
          MaxCalls,  \* bound: calls in a behaviour
          Align,     \* BUFFER_ALIGN_TO, and the alignment of a word
          Sizes,     \* the sizes that are passed to operations
          MaxBytes,  \* bound: bytes appended in a behaviour
          Careful    \* TRUE: the application copies only stream buffers without
                     \* free space, and linearizes only those without a buffer
                     \* that is completely free

ASSUME BlocksAssumption == Blocks \subseteq Nat
ASSUME SizesAssumption == /\ Align \in Nat \ {0} /\ {BlockMax, MaxCalls, MaxBytes} \subseteq Nat
                          /\ Sizes \subseteq Nat \ {0}
ASSUME CarefulAssumption == Careful \in BOOLEAN

VARIABLES sb,      \* sb[o]: the members buffers, usedSize and totalSize
          mem,     \* mem[b][i]: cell i of block b
          stored,  \* number of bytes stored so far
          result,  \* the bytes that a read has just returned
          calls    \* number of calls so far

vars == <<sb, mem, stored, result, calls>>

Init ==
    /\ sb = [o \in Objects |-> [buffers |-> <<>>, usedSize |-> 0, totalSize |-> 0]]
    /\ mem = [b \in Blocks |-> [i \in 1 .. BlockMax |-> 0]]
    /\ stored = 0 /\ result = <<>> /\ calls = 0

-----------------------------------------------------------------------------
(* The list of buffers *)

\* The cells of a buffer, and those of a list of buffers in order.
BufferCells(b) == [i \in 1 .. b.size |-> <<b.base, b.data + i>>]

Cells(bs) ==
    LET upTo[k \in 0 .. Len(bs)] ==
          IF k = 0 THEN <<>> ELSE upTo[k - 1] \o BufferCells(bs[k])
    IN  upTo[Len(bs)]

\* The bytes in some cells.
Load(cells) == [i \in DOMAIN cells |-> mem[cells[i][1]][cells[i][2]]]

\* The used data.
Content(o) == Load(SubSeq(Cells(sb[o].buffers), 1, sb[o].usedSize))

\* The sizes of the first 0, 1, 2... buffers together.
Ends(bs) ==
    LET upTo[k \in 0 .. Len(bs)] == IF k = 0 THEN 0 ELSE upTo[k - 1] + bs[k].size
    IN  upTo

SizeOf(bs) == Ends(bs)[Len(bs)]

\* How many buffers of the list it takes to hold n cells.
Covering(bs, n) ==
    LET ends == Ends(bs)
    IN  CHOOSE k \in 0 .. Len(bs) : ends[k] >= n /\ \A j \in 0 .. k - 1 : ends[j] < n

\* findLocation: the index of a buffer (behind the last one for end()) and the
\* offset in it of the n-th cell.
FindLocation(bs, n) ==
    LET k == Covering(bs, n)
        before == Ends(bs)[k]
    IN  IF before = n THEN [i |-> k + 1, offset |-> 0]
        ELSE [i |-> k, offset |-> n - (before - bs[k].size)]

SizeLeft(bs, l) == bs[l.i].size - l.offset

\* The part of a buffer from an offset on, and up to an offset.
From(b, offset) == [b EXCEPT !.data = @ + offset, !.size = @ - offset]
UpTo(b, offset) == [b EXCEPT !.size = offset]

\* The list without its first n cells.
DropCells(bs, n) ==
    LET l == FindLocation(bs, n)
    IN  IF l.offset = 0 THEN SubSeq(bs, l.i, Len(bs))
        ELSE <<From(bs[l.i], l.offset)>> \o SubSeq(bs, l.i + 1, Len(bs))

\* Mutant of TakeCells: the last buffer is taken as a whole.
TakeBuffers(bs, n) == SubSeq(bs, 1, Covering(bs, n))

\* The first n cells of the list.
TakeCells(bs, n) ==
    LET l == FindLocation(bs, n)
    IN  SubSeq(bs, 1, l.i - 1) \o
            (IF l.offset = 0 THEN <<>> ELSE <<UpTo(bs[l.i], l.offset)>>)

-----------------------------------------------------------------------------
(* Memory *)

InUse == UNION {{sb[o].buffers[i].base : i \in DOMAIN sb[o].buffers} : o \in Objects}

\* The cells that some buffer covers.
Covered == UNION {Range(Cells(sb[o].buffers)) : o \in Objects}

\* Mutant of RoundUp: sizes that are aligned are rounded up, too.
RoundUpMore(need) == ((need + Align) \div Align) * Align

RoundUp(need) == ((need + Align - 1) \div Align) * Align

\* A new block can be had; the bounds count as memory that is always there.
CanAllocate(need) == Blocks \ InUse # {} /\ RoundUp(need) <= BlockMax

\* Buffer(needSize): a block of its own, with the size rounded up.
NewBuffer(need) ==
    [base |-> CHOOSE b \in Blocks \ InUse : \A c \in Blocks \ InUse : b <= c,
     data |-> 0,
     size |-> RoundUp(need)]

\* The step stores bytes in some cells.  Cells that no buffer covers any more
\* are out of reach, with their block or in a part of it, and hold garbage.
Store(cells, bytes) ==
    \E covered \in {Covered'}, to \in {cells}, from \in {bytes} :
        LET byte(c) == IF \E j \in DOMAIN to : to[j] = c THEN from[CHOOSE j \in DOMAIN to : to[j] = c]
                       ELSE mem[c[1]][c[2]]
        IN  mem' = [b \in Blocks |-> [i \in 1 .. BlockMax |->
                        IF <<b, i>> \in covered THEN byte(<<b, i>>) ELSE 0]]

\* The step stores nothing and returns nothing.
NothingStored == Store(<<>>, <<>>) /\ stored' = stored /\ result' = <<>>

\* The next n bytes that the application or the peer provides.
Fresh(n) == [i \in 1 .. n |-> stored + i]

FreeSize(o) == sb[o].totalSize - sb[o].usedSize

\* allocate(size): the members after it
Allocated(o, size) ==
    IF FreeSize(o) >= size THEN sb[o]
    ELSE LET b == NewBuffer(size - FreeSize(o))
         IN  [sb[o] EXCEPT !.buffers = Append(@, b), !.totalSize = @ + b.size]

MayAllocate(o, size) == FreeSize(o) >= size \/ CanAllocate(size - FreeSize(o))

-----------------------------------------------------------------------------
(* Operations *)

\* Bound: a behaviour has at most MaxCalls calls.
Call == calls < MaxCalls /\ calls' = calls + 1

Allocate(o, size) ==
    /\ Call
    /\ MayAllocate(o, size)
    /\ sb' = [sb EXCEPT ![o] = Allocated(o, size)]
    /\ NothingStored

\* appendData: allocate, then memcpy to the first free cells, buffer by buffer.
AppendData(o, size) ==
    /\ Call
    /\ MayAllocate(o, size)
    /\ stored + size <= MaxBytes
    /\ LET a == Allocated(o, size)
           to == SubSeq(Cells(a.buffers), a.usedSize + 1, a.usedSize + size)
       IN  /\ sb' = [sb EXCEPT ![o] = [a EXCEPT !.usedSize = @ + size]]
           /\ Store(to, Fresh(size))
    /\ stored' = stored + size
    /\ result' = <<>>

\* recvmsg() into getFreeIOVec(), then increaseUsed
Receive(o, size) ==
    /\ Call
    /\ size <= FreeSize(o)
    /\ stored + size <= MaxBytes
    /\ sb' = [sb EXCEPT ![o].usedSize = @ + size]
    /\ LET free == DropCells(sb[o].buffers, sb[o].usedSize)
       IN  Store(SubSeq(Cells(free), 1, size), Fresh(size))
    /\ stored' = stored + size
    /\ result' = <<>>

\* getMutableArray, and the application fills the array it returns.  Without a
\* free buffer a new one is made; a first free buffer that is too small is
\* truncated if it is used in part, and a new one put behind its used part.
GetMutableArray(o, size) ==
    LET s == sb[o]
        l == FindLocation(s.buffers, s.usedSize)
        b == NewBuffer(size)
        fill(base, data) == Store([i \in 1 .. size |-> <<base, data + i>>], Fresh(size))
    IN  /\ Call
        /\ stored + size <= MaxBytes
        /\ \/ /\ l.i > Len(s.buffers)
              /\ MayAllocate(o, size)
              /\ LET a == Allocated(o, size)
                 IN  /\ sb' = [sb EXCEPT ![o] = [a EXCEPT !.usedSize = @ + size]]
                     /\ fill(Last(a.buffers).base, Last(a.buffers).data)
           \/ /\ l.i <= Len(s.buffers) /\ SizeLeft(s.buffers, l) >= size
              /\ sb' = [sb EXCEPT ![o].usedSize = @ + size]
              /\ fill(s.buffers[l.i].base, s.buffers[l.i].data + l.offset)
           \/ /\ l.i <= Len(s.buffers) /\ SizeLeft(s.buffers, l) < size
              /\ CanAllocate(size)
              /\ LET cut == IF l.offset = 0 THEN 0 ELSE SizeLeft(s.buffers, l)
                     at == IF l.offset = 0 THEN l.i ELSE l.i + 1
                     bs == IF l.offset = 0 THEN s.buffers
                           ELSE [s.buffers EXCEPT ![l.i] = UpTo(@, l.offset)]
                 IN  sb' = [sb EXCEPT ![o] = [buffers |-> InsertAt(bs, at, b),
                                              usedSize |-> s.usedSize + size,
                                              totalSize |-> s.totalSize - cut + b.size]]
              /\ fill(b.base, b.data)
        /\ stored' = stored + size
        /\ result' = <<>>

\* Mutant of AppendStreamBuffer: the buffers are put behind the free ones.
AppendBehindFree(o, p) ==
    /\ Call
    /\ sb' = [sb EXCEPT ![o] =
                [buffers |-> @.buffers \o TakeCells(sb[p].buffers, sb[p].usedSize),
                 usedSize |-> @.usedSize + sb[p].usedSize,
                 totalSize |-> @.totalSize + sb[p].usedSize]]
    /\ NothingStored

\* appendStreamBuffer: the buffer in which the free data begin is split, and
\* the used buffers of p, which share their memory, are put in between.
AppendStreamBuffer(o, p) ==
    LET s == sb[o]
        l == FindLocation(s.buffers, s.usedSize)
        split == l.i <= Len(s.buffers) /\ SizeLeft(s.buffers, l) > 0
        front == SubSeq(s.buffers, 1, l.i - 1) \o
                     (IF split THEN <<UpTo(s.buffers[l.i], l.offset)>> ELSE <<>>)
        back == IF split THEN <<From(s.buffers[l.i], l.offset)>> \o
                                  SubSeq(s.buffers, l.i + 1, Len(s.buffers))
                ELSE SubSeq(s.buffers, l.i, Len(s.buffers))
    IN  /\ Call
        /\ sb' = [sb EXCEPT ![o] =
                    [buffers |-> front \o TakeCells(sb[p].buffers, sb[p].usedSize) \o back,
                     usedSize |-> s.usedSize + sb[p].usedSize,
                     totalSize |-> s.totalSize + sb[p].usedSize]]
        /\ NothingStored

Less(a, b) == IF a < b THEN a ELSE b

\* What cutHead and spliceHead leave of a stream buffer.
Rest(s, size) ==
    [buffers |-> DropCells(s.buffers, size),
     usedSize |-> s.usedSize - Less(size, s.usedSize),
     totalSize |-> s.totalSize - size]

CutHead(o, size) ==
    /\ Call
    /\ size <= sb[o].totalSize
    /\ sb' = [sb EXCEPT ![o] = Rest(@, size)]
    /\ NothingStored

SpliceHead(o, p, size) ==
    /\ Call
    /\ size <= sb[o].totalSize
    /\ sb' = [sb EXCEPT ![o] = Rest(@, size),
                        ![p] = [buffers |-> TakeCells(sb[o].buffers, size),
                                usedSize |-> Less(size, sb[o].usedSize),
                                totalSize |-> size]]
    /\ NothingStored

\* No buffer of the list is completely free.
NoSpareBuffer(o) == Covering(sb[o].buffers, sb[o].usedSize) = Len(sb[o].buffers)

\* The copy constructor and operator=: the copy shares all memory.
Copy(o, p) ==
    /\ Call
    /\ Careful => FreeSize(o) = 0
    /\ sb' = [sb EXCEPT ![p] = sb[o]]
    /\ NothingStored

\* forceLinearize: the used data are copied to a new buffer at the end of the
\* list, and the buffers they were in are removed.
ForceLinearize(o) ==
    LET s == sb[o]
        b == NewBuffer(s.usedSize)
    IN  /\ CanAllocate(s.usedSize)
        /\ Careful => NoSpareBuffer(o)
        /\ sb' = [sb EXCEPT ![o] =
                    [s EXCEPT !.buffers = Append(SubSeq(@, Covering(@, s.usedSize) + 1, Len(@)), b),
                              !.totalSize = b.size]]
        /\ Store(SubSeq(BufferCells(b), 1, s.usedSize), Content(o))

\* The first buffer does not hold n bytes that begin at an aligned address.
Scattered(o, n, align) ==
    LET first == sb[o].buffers[1]
    IN  first.size < n \/ first.data % align # 0

Linearize(o) ==
    /\ Call
    /\ sb[o].usedSize > 0 /\ Scattered(o, sb[o].usedSize, Align)
    /\ ForceLinearize(o)
    /\ stored' = stored /\ result' = <<>>

\* getData of a type of n bytes, which needs an alignment of its size, up to a
\* word: the bytes at the beginning of the first buffer, after linearization if
\* needed.
GetData(o, n) ==
    /\ Call
    /\ n <= sb[o].usedSize
    /\ IF Scattered(o, n, Less(n, Align)) THEN ForceLinearize(o) ELSE UNCHANGED <<sb, mem>>
    /\ LET first == sb'[o].buffers[1]
       IN  result' = [i \in 1 .. n |-> mem'[first.base][first.data + i]]
    /\ UNCHANGED stored

\* getConstArray: a pointer into the buffer that holds the whole array, or, after
\* linearization, into the first one.
GetConstArray(o, offset, n) ==
    LET l == FindLocation(sb[o].buffers, offset)
        inOne == SizeLeft(sb[o].buffers, l) >= n
    IN  /\ Call
        /\ offset + n <= sb[o].usedSize
        /\ IF inOne THEN UNCHANGED <<sb, mem>> ELSE ForceLinearize(o)
        /\ LET b == IF inOne THEN sb[o].buffers[l.i] ELSE sb'[o].buffers[1]
               at == IF inOne THEN l.offset ELSE offset
           IN  result' = [i \in 1 .. n |-> mem'[b.base][b.data + at + i]]
        /\ UNCHANGED stored

-----------------------------------------------------------------------------
Next ==
    \E o \in Objects :
        \/ Linearize(o)
        \/ \E n \in Sizes :
             \/ Allocate(o, n) \/ AppendData(o, n) \/ Receive(o, n) \/ GetMutableArray(o, n)
             \/ CutHead(o, n) \/ GetData(o, n)
             \/ \E offset \in 0 .. sb[o].usedSize - n : GetConstArray(o, offset, n)
             \/ \E p \in Objects \ {o} : SpliceHead(o, p, n)
        \/ \E p \in Objects \ {o} : AppendStreamBuffer(o, p) \/ Copy(o, p)

Spec == Init /\ [][Next]_vars

-----------------------------------------------------------------------------
(* Properties *)

\* Type correctness.
TypeOK ==
    /\ \A o \in Objects :
         /\ sb[o].usedSize \in Nat /\ sb[o].totalSize \in Nat
         /\ \A i \in DOMAIN sb[o].buffers :
              /\ sb[o].buffers[i].base \in Blocks
              /\ sb[o].buffers[i].data \in 0 .. BlockMax
              /\ sb[o].buffers[i].size \in 0 .. BlockMax
    /\ mem \in [Blocks -> [1 .. BlockMax -> 0 .. MaxBytes]]
    /\ stored \in 0 .. MaxBytes

\* The counters describe the list: totalSize is the size of all buffers, which
\* the loops of cutHead, spliceHead and getFreeIOVec rely on to end in time.
SizesAgree ==
    \A o \in Objects :
        /\ sb[o].totalSize = SizeOf(sb[o].buffers)
        /\ sb[o].usedSize <= sb[o].totalSize

\* Memory that one stream buffer may still write (its free cells) is neither
\* used nor free in any other: sharing of blocks is never observable.
FreeIsPrivate ==
    \A o, p \in Objects : o # p =>
        Range(Cells(DropCells(sb[o].buffers, sb[o].usedSize))) \cap Range(Cells(sb[p].buffers)) = {}

\* Every stream buffer behaves like a queue of bytes of its own: appended bytes
\* come out once and in order, whatever was allocated, split, shared, truncated
\* or linearized, and reads return what is in the queue.
Abstract == INSTANCE ByteQueue WITH content <- [o \in Objects |-> Content(o)]

ActsAsQueue == Abstract!Spec

\* The list, its counters and the shared blocks fit together.
MemorySound == TypeOK /\ SizesAgree /\ FreeIsPrivate
=============================================================================
